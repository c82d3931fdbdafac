\* Two tasks that create topics with configurations, the same topic or two: the
\* slot one of them has found is that of the other's topic when it copies.
SPECIFICATION Spec
CONSTANTS
  Tasks = {t1, t2}
  Names = {n1, n2}
  Configs = {d1, d2}
  MAX_TOPICS = 2
  None = None
PROPERTY ConfigKept
CHECK_DEADLOCK FALSE
