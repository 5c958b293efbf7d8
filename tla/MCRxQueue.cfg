SPECIFICATION FairSpec
CONSTANTS
  QUEUE_SIZE = 2
  IndexRange = 4
  e1 = e1
  e2 = e2
  none = none
  Events <- MCEvents
  NoEvent <- none
  MaxEvents = 7
INVARIANTS
  OneOwner
PROPERTIES
  QueueSpec
  LostOnlyWhenFull
  EventsPolled
