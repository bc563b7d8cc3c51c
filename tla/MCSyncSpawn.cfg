CONSTANTS
  Objects = {"table"}
  Threads = {t1, t2, t3}
  WRITER = 3
  NoThread = NoThread
  MaxGeneration = 2
  MaxCalls = 2
  Cancelable = {t1}
  SemaphoreThreads = {s1, s2}
  SemaphoreCancelable = {s1}
  VALUE_MAX = 2
  MaxPosts = 2
  MaxSignals = 1
  N = 3
  TableThreads = {1, 2}
  Fds = {0, 1}
  MaxReservations = 2
  MaxForks = 1
  ForkInCheck = FALSE
  StartupHandlers = TRUE
  Deliveries = {1, 2, 3}
  MaxOperations = 4
SPECIFICATION SpecAll
INVARIANT NoUseAfterClose
CHECK_DEADLOCK FALSE
