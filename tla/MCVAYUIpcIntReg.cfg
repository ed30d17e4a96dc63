\* Serialized callers: refcount bookkeeping of register/unregister, and every word handled.
CONSTANTS
  Procs <- MC_Procs
  LineOf <- MC_LineOf
  ClearOrder <- MC_ClearOrder
  IsrOrder <- MC_IsrOrder
  CACHE_NUM <- MC_CACHE_NUM
  MBOX_DEPTH <- MC_LiveMBOX_DEPTH
  MaxMsgs <- MC_LiveMaxMsgs
  MaxRegs <- MC_LiveMaxRegs
  MaxSetups <- MC_LiveMaxSetups
  CanFail = FALSE
  MsgAllocCanFail = TRUE
  SerialClients = TRUE

SPECIFICATION Spec

INVARIANT HandlesMatchRegistrations
PROPERTY MessagesHandled

\* The host goes quiet once the remote cores stop writing and the callers
\* stop registering.
CHECK_DEADLOCK FALSE
