\* Two topics, two callers, two callbacks: creation races and creation that
\* fails half-way, lists that change while messages are delivered, queues and
\* pool that run full.
SPECIFICATION Spec
CONSTANTS
  Tasks = {t1, t2}
  Names = {"temperature", "humidity"}
  Callbacks = {cb1, cb2}
  Payloads = {p}
  EMPTY = empty
  Priorities = {1}
  Cells = {c1, c2, c3}
  TOPIC_TASK = topic_task
  NULL = NULL
  MAX_TOPICS = 2
  MAX_SUBSCRIBERS_PER_TOPIC = 2
  MAX_QUEUE_SIZE = 2
SYMMETRY Symmetry
INVARIANTS
  LockDiscipline
  CursorInList
  PoolOwnership
  ListsConsistent
  NamesDistinct
