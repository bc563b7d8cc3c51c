CONSTANTS
  Parts = {"launch"}
  MaxCalls = 2
  MaxQueue = 2
  TransportEsrch = TRUE
  t1 = t1
  t2 = t2
  t3 = t3
  NoOne = NoOne
  Threads = {1, 2}
  Publishers = {1, 2}
  Resources = {1}
  MaxWord = 5
  MaxStores = 1
SPECIFICATION SpecAll
INVARIANT FailureLeavesNothing
CHECK_DEADLOCK FALSE
