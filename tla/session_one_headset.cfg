SPECIFICATION FairSpec
CONSTANTS
  a1 = a1
  a2 = a2
  None = None
  Session = {1, 2}
  Device = {1}
  App = {a1}
  MaxRequests = 2
  MaxCancels = 1
  MaxLost = 1
  MaxUnknown = 1
INVARIANTS TypeOK OneSession PendingHasCommand StatusesAgree HeadsetServesItsSession AggregateRunsIfReported
PROPERTIES PauseHolds EndingEnds ExpiredEnds
CHECK_DEADLOCK FALSE
