SPECIFICATION Spec
CONSTANTS
  h1 = h1
  h2 = h2
  c1 = c1
  c2 = c2
  w1 = w1
  w2 = w2
  Changes = {c1, c2}
  Windows = {w1, w2}
  High = {c1, c2}
  Emergency = {c2}
  Patchable = {c1}
  Required = 2
  Handlers = {h1, h2}
  LastApproval = 4
  MaxEvents = 3
SYMMETRY Symmetry
CHECK_DEADLOCK FALSE
INVARIANTS
  TypeOK
  ApprovalsDecide
  NoBlockedSchedule
