SPECIFICATION FairSpec
CONSTANTS
  Ip = {1, 2}
  Home = {1}
  Other = {1}
  None = None
  Safe = FALSE
  MaxEvents = 2
INVARIANTS TypeOK InFlightIsReal ExecutesOnce
PROPERTIES FlightEnds CommandEnds ReconnectsInTime
CHECK_DEADLOCK FALSE
