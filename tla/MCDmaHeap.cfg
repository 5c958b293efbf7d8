SPECIFICATION Spec
CONSTANTS
  HeapStart = 64
  HeapEnd = 2000
  VIRTQ_SIZE = 4
  PAGE = 64
  Displays <- SmallDisplays
  Layouts <- MCLayouts
  MaxFlushes = 4
  MaxAccesses = 4
  MaxPrograms = 4
INVARIANTS
  BlocksApart
  RunsUntilExhausted
CHECK_DEADLOCK FALSE
