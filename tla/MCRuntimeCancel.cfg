CONSTANTS
  Parts = {"threads"}
  Slots = {1, 2, 3}
  Natives = {1, 2, 3}
  Menus <- MCMenus
  LateFailure = FALSE
  Threads = {1, 2}
  Callbacks = {3}
  Process = Process
  Capacity = 2
SPECIFICATION SpecAll
INVARIANT CancelEndsJoin
CHECK_DEADLOCK FALSE
