SPECIFICATION LifecycleSpec
CONSTANTS
  h1 = h1
  h2 = h2
  NoTime = NoTime
  Handlers = {h1, h2}
  Kinds = {"patch", "reply", "note"}
  Bodies <- ClockBodies
  Writers = {"bulk_close", "bulk_assign", "auto_close", "auto_assign", "resolve_linked", "close_change", "alerts", "automation"}
  SlaDue = 1
  OlaHours = 1
  MaxTime = 2
  MaxRequests = 5
  MaxFaults = 1
CHECK_DEADLOCK FALSE
SYMMETRY HandlerSymmetry
INVARIANTS
  LifecycleTypeOK
  DueMatchesPausedTime
  PauseIsCredited
  PausedTimeWithinElapsed
