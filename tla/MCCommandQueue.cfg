SPECIFICATION FairSpec
CONSTANTS
  VIRTQ_SIZE = 4
  IndexRange = 8
  Sectors = {"s1"}
  Contents = {"a", "b"}
  Buffers = {"disk_buffer"}
  MaxRequests = 9
INVARIANTS
  ChainsWhole
PROPERTIES
  AtomicSpec
  RequestReturns
CHECK_DEADLOCK FALSE
