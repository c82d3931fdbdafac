\* Two callers that wait for topics_lock and, inside it, for the topic's mutex,
\* and the topic task: the backlog holds up to two messages of two priorities
\* while a third is delivered; the one block is a message's data or the
\* subscriber's node.
SPECIFICATION FairSpec
CONSTANTS
  Tasks = {t1, t2}
  Names = {"temperature"}
  Callbacks = {cb1}
  Payloads = {p, empty}
  EMPTY = empty
  Priorities = {1, 3}
  Cells = {c1}
  TOPIC_TASK = topic_task
  NULL = NULL
  MAX_TOPICS = 1
  MAX_SUBSCRIBERS_PER_TOPIC = 2
  MAX_QUEUE_SIZE = 2
PROPERTIES
  BusSpec
  BacklogWorkedOff
  CallsReturn
