SPECIFICATION FairSpec
CONSTANTS
  approve = approve
  script = script
  check = check
  u1 = u1
  u2 = u2
  Tasks = {script, check}
  Order <- ParallelOrder
  Kind <- ParallelKind
  Gates <- ParallelGates
  LastOrder = 1
  MaxGate = 1
  Users = {u1}
  Unmanaged = {}
  MaxFaults = 1
CHECK_DEADLOCK FALSE
INVARIANTS
  TypeOK
  NothingStaysOpen
PROPERTIES
  RequestIsDecided
