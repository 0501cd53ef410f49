SPECIFICATION FairSpec
CONSTANTS
  Key = {1}
  Viewer = {1, 2}
  MaxRecords = 2
  MaxCasts = 1
  MaxViewers = 2
  Attempts = 1
  SpawnErrors = {0, 1}
INVARIANTS TypeOK OwnsOneProducer AlwaysPending NobodyStranded
PROPERTIES StaleIsSilent ViewerIsServed
CHECK_DEADLOCK FALSE
