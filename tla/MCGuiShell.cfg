SPECIFICATION FairSpec
CONSTANTS
  Capacity = 2
  CMD_MAX_LEN = 3
  MaxTyped = 4
  Printable <- MCPrintable
  Commands <- MCCommands
  Messages <- MCMessages
  NoMessage <- MCNoMessage
INVARIANTS
  TypeOK
  AnswerQueued
  NothingLostIfPatient
PROPERTIES
  AnswerArrives
  InputDrained
CHECK_DEADLOCK FALSE
