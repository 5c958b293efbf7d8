SPECIFICATION VolumesSpec
CONSTANTS
  BUFFER_SIZE = 16
  Half = 128
  Tags <- MCTags
  Values <- MCValues
  Factors <- MCFactors
  MaxPackets = 2
INVARIANTS
  VolumeOfMessage
  ReceiptSaysResult
CHECK_DEADLOCK FALSE
