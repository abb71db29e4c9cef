\* Two clients or three, one thread or two, two descriptors, payloads of one unit.
CONSTANTS
  c1 = c1
  c2 = c2
  c3 = c3
  t1 = t1
  t2 = t2
  Clients = {c1, c2, c3}
  Threads = {t1, t2}
  Descriptors = {5, 6}
  LenUnits = 2
  DataUnits = 1
  Requests = 2
  MAX_EPOLL_SIZE = 2
  None = None
SPECIFICATION MCSpec
INVARIANTS OneHandler OwnResponse
PROPERTIES RequestServed
\* The clients stop when their requests are done.
CHECK_DEADLOCK FALSE
