SPECIFICATION TimerSpec
CONSTANTS
  NoTime = NoTime
  Bodies <- ResolveBodies
  SlaDue = 9
  OlaHours = 1
  Lowest = 1
  WarnLead = 0
  PauseTime = 1
  FollowUpTime = 1
  ExecutionLimit = 0
  MaxTime = 1
  MaxRequests = 4
  MaxFaults = 0
  CloseDelay = 1
CHECK_DEADLOCK FALSE
INVARIANTS
  OnlyRestedIsClosed
