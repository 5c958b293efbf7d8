SPECIFICATION FairSpec
CHECK_DEADLOCK FALSE
CONSTANTS
  Sources <- MCSources
  Parse <- MCParse
  Words <- MCWords
  Literal <- MCLiteral
  Seeds <- MCSeeds
  IntRange = 16
  VolumeRange = 8
  Volumes = {0, 3}
  MaxFrames = 24
INVARIANTS
  TypeOK
  StackDiscipline
  ReceiptPerMatch
  EvaluatesAsMeant
  ParsesAsWritten
PROPERTIES
  Terminates
