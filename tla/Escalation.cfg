SPECIFICATION FairSpec
CONSTANTS
  NoTime = NoTime
  Bodies <- HoldBodies
  SlaDue = 1
  OlaHours = 1
  Lowest = 3
  WarnLead = 1
  PauseTime = 1
  FollowUpTime = 1
  ExecutionLimit = 3
  MaxTime = 3
  MaxRequests = 2
  MaxFaults = 1
CHECK_DEADLOCK FALSE
INVARIANTS
  TypeOK
  NoBreachBeforeAgreement
  OnlyBreachesEscalate
PROPERTY
  OverdueIsMarked
