\* A register call that fails part-way leaves the processor's refcount and IRQ enable behind.
CONSTANTS
  Procs <- MC_Procs
  LineOf <- MC_LineOf
  ClearOrder <- MC_ClearOrder
  IsrOrder <- MC_IsrOrder
  CACHE_NUM <- MC_CACHE_NUM
  MBOX_DEPTH <- MC_MBOX_DEPTH
  MaxMsgs <- MC_RegMaxMsgs
  MaxRegs <- MC_RegMaxRegs
  MaxSetups <- MC_MaxSetups
  CanFail = TRUE
  MsgAllocCanFail = TRUE
  SerialClients = TRUE

SPECIFICATION Spec

INVARIANT HandlesMatchRegistrations

\* The host goes quiet once the remote cores stop writing and the callers
\* stop registering.
CHECK_DEADLOCK FALSE
