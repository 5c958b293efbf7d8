SPECIFICATION RingSpec
CONSTANTS
  IPC_QUEUE_SIZE = 4
  m1 = m1
  m2 = m2
  m3 = m3
  Messages <- MCMessages
  NoMessage = NoMessage
  MaxDrops = 3
PROPERTIES
  MailboxSpec
