\* _MessageQ_grow's UInt16 oldSize wraps: the old entries are not copied (scaled width).
CONSTANTS
  Objs <- MC_Objs
  Pids <- MC_Pids
  numReservedEntries <- MC_Reserved
  maxRuntimeEntries <- MC_Runtime
  MessageQ_GROWSIZE <- MC_GrowSize
  MaxSetups <- MC_MaxSetups
  UINT16_BITS <- MC_WrapBits
  HANDLE_SIZE <- MC_HandleSize
  MaxSeqNum <- MC_MaxSeqNum

SPECIFICATION Spec

INVARIANT TableConsistent

\* The daemon idles once its clients stop calling and the setup bound is used.
CHECK_DEADLOCK FALSE
