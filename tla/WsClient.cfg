\* Three messages through a queue of two and up to three sockets, with either
\* key sent and either key answered to; frames and blocks of one or two bytes.
SPECIFICATION FairSpec
CONSTANTS
  Keys = {k1, k2}
  None = None
  WS_QUEUE_SIZE = 2
  WS_BUFFER_SIZE = 2
  MAX_FRAME = 2
  MAX_INBOUND = 2
  MAX_MESSAGES = 3
  MAX_SOCKETS = 3
INVARIANTS
  ClosedUnlessFailed
  EventsPaired
  SentInOrder
PROPERTY
  QueueServed
CHECK_DEADLOCK FALSE
