SPECIFICATION FairSpec
CONSTANTS
  Events = {e1, e2}
  Pools = {p1, p2}
  MaxAttempts = 2
  MaxLapses = 1
  MaxEnds = 1
  MaxFailures = 1
  NoEvent = NoEvent
  NoPool = NoPool
CHECK_DEADLOCK FALSE
INVARIANTS TypeOK LeaseIsExclusive CleanReleases
PROPERTIES DispatchesAsPromised PublishedTakesEffect
