\* Message path under concurrent callers and failing allocations: cache bound, element accounting, per-processor order.
CONSTANTS
  Procs <- MC_Procs
  LineOf <- MC_LineOf
  ClearOrder <- MC_ClearOrder
  IsrOrder <- MC_IsrOrder
  CACHE_NUM <- MC_CACHE_NUM
  MBOX_DEPTH <- MC_MBOX_DEPTH
  MaxMsgs <- MC_MsgMaxMsgs
  MaxRegs <- MC_MsgMaxRegs
  MaxSetups <- MC_MaxSetups
  CanFail = TRUE
  MsgAllocCanFail = TRUE
  SerialClients = FALSE

SPECIFICATION Spec

INVARIANT TypeOK
INVARIANT MsgCacheBounded
INVARIANT DispatchedInOrder

\* The host goes quiet once the remote cores stop writing and the callers
\* stop registering.
CHECK_DEADLOCK FALSE
