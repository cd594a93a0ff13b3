SPECIFICATION FairSpec
CONSTANTS
  h1 = h1
  h2 = h2
  Handlers = {h1, h2}
  LastVersion = 2
  Steps = 2
  StepWait = 2
  RunLimit = 2
  MaxRequests = 4
  MaxFaults = 1
CHECK_DEADLOCK FALSE
INVARIANTS
  TypeOK
  ReviewersDecide
  OnePublishedVersion
PROPERTY
  HeardReviewsEnd
