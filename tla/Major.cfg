SPECIFICATION FairSpec
CONSTANTS
  h1 = h1
  h2 = h2
  i1 = i1
  i2 = i2
  Incidents = {i1, i2}
  Primary = i1
  Handlers = {h1, h2}
  MaxRequests = 5
  MaxFaults = 2
CHECK_DEADLOCK FALSE
INVARIANTS
  TypeOK
  RejectedStaysDown
  ClosedTogether
PROPERTIES
  NoRelapse
  RemindersEnd
