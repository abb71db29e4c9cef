\* An awaiting coroutine on the default NoopExecutor.
CONSTANTS
  g1 = g1
  g2 = g2
  p1 = p1
  p2 = p2
  a1 = a1
  a2 = a2
  Task = Task
  Nobody = Nobody
  Getters = {g1, g2}
  Plain = {p1, p2}
  Awaiters = {a1}
  InlineExecutor = TRUE
SPECIFICATION FairSpec
PROPERTIES AwaitersResume
\* Everybody comes to an end.
CHECK_DEADLOCK FALSE
