SPECIFICATION FairSpec
CONSTANTS
  disk = disk
  load = load
  d1 = d1
  d2 = d2
  Alarms = {disk, load}
  Messages <- MCMessages
  Lists <- MCLists
  Deliveries = {d1, d2}
  Nobody = Nobody
  MaxDeliveries = 3
  LastEpisode = 3
  LastIncident = 3
  MaxBesides = 1
CHECK_DEADLOCK FALSE
INVARIANTS
  TypeOK
  IncidentsAreLinked
  OneIncident
  LastMessageDecides
PROPERTIES
  WorkIsKept
  DeliveriesEnd
