SPECIFICATION BlocksSpec
CHECK_DEADLOCK FALSE
INVARIANTS
  HandOver
  DecodeSound
  CheckerAgrees
  LinksExact
  MirrorsAgree
  MemoryExact
  HistoriesExact
  LoopTrips
  CachesExact
  BundleExact
PROPERTIES
  TrainsExact
