SPECIFICATION Spec
CONSTANTS
  approve = approve
  script = script
  check = check
  u1 = u1
  u2 = u2
  Tasks = {approve, script, check}
  Order <- SerialOrder
  Kind <- SerialKind
  Gates <- SerialGates
  LastOrder = 3
  MaxGate = 1
  Users = {u1, u2}
  Unmanaged = {}
  MaxFaults = 0
CHECK_DEADLOCK FALSE
SYMMETRY UserSymmetry
INVARIANTS
  ApprovalsComeFirst
  OrderIsKept
PROPERTIES
  JourneyIsKept
