SPECIFICATION Spec
CONSTANTS
  e1 = e1
  e2 = e2
  notif = notif
  entity = entity
  Jobs = {notif, entity}
  Once = {notif}
  Rejected = {}
  Engines = {e1, e2}
  NoJob = NoJob
  BatchSize = 2
  SlowDrains = TRUE
  MaxRequests = 2
  MaxFaults = 1
  MaxOutages = 1
SYMMETRY EngineSymmetry
INVARIANTS
  TypeOK
  NoLostRequest
PROPERTIES
  OutboxSafety
