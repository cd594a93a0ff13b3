SPECIFICATION FairSpec
CONSTANTS
  e1 = e1
  e2 = e2
  notif = notif
  entity = entity
  Jobs = {notif, entity}
  Once = {notif}
  Rejected = {}
  Engines = {e1, e2}
  NoJob = NoJob
  BatchSize = 1
  SlowDrains = FALSE
  MaxRequests = 1
  MaxFaults = 1
  MaxOutages = 1
INVARIANTS
  OneHolder
PROPERTIES
  NoRerunWithoutFault
  FirstRequestsAreServed
  OutboxService
