SPECIFICATION Spec
CONSTANTS
  a1 = a1
  a2 = a2
  None = None
  Session = {1}
  Device = {1, 2}
  App = {a1, a2}
  MaxRequests = 1
  MaxCancels = 1
  MaxLost = 0
  MaxUnknown = 0
SYMMETRY AppSymmetry
INVARIANTS FinishedIsClean
PROPERTIES ImplementsSessionContract
CHECK_DEADLOCK FALSE
