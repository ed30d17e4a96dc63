\* The queue table stays consistent with the live MessageQ objects.
CONSTANTS
  Objs <- MC_Objs
  Pids <- MC_Pids
  numReservedEntries <- MC_Reserved
  maxRuntimeEntries <- MC_Runtime
  MessageQ_GROWSIZE <- MC_GrowSize
  MaxSetups <- MC_MaxSetups
  UINT16_BITS <- MC_Bits16
  HANDLE_SIZE <- MC_HandleSize
  MaxSeqNum <- MC_MaxSeqNum

SPECIFICATION Spec

INVARIANT TypeOK
INVARIANT TableConsistent

\* The daemon idles once its clients stop calling and the setup bound is used.
CHECK_DEADLOCK FALSE
