\* The vring: type, refinement of RingChannel, no lost wake-up after VirtQueue_create, and every control word answered.
CONSTANTS
  VQ_SIZE <- MC_VQ_SIZE
  IDX_MOD <- MC_IDX_MOD
  MBOX_DEPTH <- MC_MBOX_DEPTH
  MaxOffers <- MC_MaxOffers
  MaxRequests <- MC_MaxRequests
  HostRequests <- MC_HostRequests

SPECIFICATION Spec

INVARIANT TypeOK
PROPERTY VirtQueueRefinement
PROPERTY OfferedAfterCreateConsumed
PROPERTY RequestsAnswered

\* The link really goes quiet once the host stops offering buffers.
CHECK_DEADLOCK FALSE
