\* interruptUnregister racing the deferred phase's callback.
CONSTANTS
  Procs <- MC_Procs
  LineOf <- MC_LineOf
  ClearOrder <- MC_ClearOrder
  IsrOrder <- MC_IsrOrder
  CACHE_NUM <- MC_CACHE_NUM
  MBOX_DEPTH <- MC_MBOX_DEPTH
  MaxMsgs <- MC_MsgMaxMsgs
  MaxRegs <- MC_MsgMaxRegs
  MaxSetups <- MC_MaxSetups
  CanFail = FALSE
  MsgAllocCanFail = FALSE
  SerialClients = TRUE

SPECIFICATION Spec

INVARIANT DispatchOnlyWhileRegistered

\* The host goes quiet once the remote cores stop writing and the callers
\* stop registering.
CHECK_DEADLOCK FALSE
