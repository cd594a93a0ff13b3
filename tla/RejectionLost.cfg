SPECIFICATION Spec
CONSTANTS
  approve = approve
  script = script
  check = check
  u1 = u1
  u2 = u2
  Tasks = {approve, check, script}
  Order <- GroupOrder
  Kind <- GroupKind
  Gates <- GroupGates
  LastOrder = 2
  MaxGate = 0
  Users = {u1, u2}
  Unmanaged = {approve}
  MaxFaults = 0
CHECK_DEADLOCK FALSE
INVARIANTS
  RejectionsReject
