CONSTANTS
  Objects = {"mutex"}
  Threads = {t1, t2, t3}
  NoOwner = NoOwner
  Kinds = {"NORMAL"}
  MaxDepth = 1
  LostSelection = TRUE
  Count = 2
  RESET_BOUND = 5
  MaxAborts = 2
SPECIFICATION SpecAll
INVARIANT NoStrandedWaiter
CHECK_DEADLOCK FALSE
