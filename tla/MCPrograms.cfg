\* A small instance of each part.  Channel: two writers, two readers and a
\* buffer of one value or none.  RpcServer: two requests whose methods race
\* their timeout.  Chat: more clients than places, so that places and
\* descriptors are reused.
CONSTANTS
  Requests = {r1, r2}
  HandleTimeout = TRUE
  Nobody = Nobody
  Functions = {f1, f2, f3}
  Delays = {0, 2}
  MaxTime = 3
  Nothing = Nothing
  Getters = {g1, g2}
  Plain = {p1, p2}
  Awaiters = {a1, a2}
  Task = Task
  InlineExecutor = FALSE
  Values = {0, 1, 2, 3}
  Inputs <- Sources
  Pipelines <- ShortPipelines
  Writers = {w1, w2}
  Readers = {e1, e2}
  Capacities = {0, 1}
  MaxWrites = 3
  NumClients = 3
  Descriptors = {4, 5, 6}
  Sizes = {1, 2}
  MaxRequests = 1
  NumConsumers = 2
  Addresses = {1, 2}
  MaxMessages = 1
  Args <- CommandLines
  MaxCars = 4
  MaxSpurious <- SpuriousWakeups
SPECIFICATION ProgramsSpec
SYMMETRY Symmetry
INVARIANTS
  FramesWhole OneResponse NothingAfterClose
  LooperInOrder LooperNoLostWakeup TimerNotLate TimerRunOnce
  TaskCallbackOnce TaskNoSleeper GeneratorExact
  ChatMeantForMe ChatPlaceKept IpcNothingLeft
  CrossingAreaExclusive
  NoNeedlessWait Fifo NoneStranded NothingLostWhileOpen
PROPERTIES ChannelDelivers
\* A part that has come to its end takes no step.
CHECK_DEADLOCK FALSE
