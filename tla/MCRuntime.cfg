CONSTANTS
  Parts = {"threads", "timers"}
  Slots = {1, 2, 3}
  Natives = {1, 2, 3}
  Menus <- MCMenus
  LateFailure = FALSE
  Threads = {1, 2}
  Callbacks = {3}
  Process = Process
  Capacity = 2
SPECIFICATION SpecAll
INVARIANTS
  NoEarlyReclamation
  JoinerIsWoken
  TimersAccounted
  NotificationsCurrent
  LastThreadEndsProcess
CHECK_DEADLOCK FALSE
