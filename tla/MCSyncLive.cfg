CONSTANTS
  Objects = {"mutex", "barrier", "once"}
  Threads = {t1, t2, t3}
  NoOwner = NoOwner
  Kinds = {"NORMAL", "RECURSIVE", "ERRORCHECK"}
  MaxDepth = 2
  LostSelection = FALSE
  Count = 2
  RESET_BOUND = 5
  MaxAborts = 2
SPECIFICATION SpecAll
INVARIANTS
  WaitersCounted
  NoLostWakeup
  NoEarlyRelease
  InitializedOnce
PROPERTIES
  ImplementsLock
  FreeMutexIsTaken
  RoundsProceed
  CallReturns
CHECK_DEADLOCK FALSE
