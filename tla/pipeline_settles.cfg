SPECIFICATION FairSpec
CONSTANTS
  d1 = d1
  d2 = d2
  Cmd = {1, 2}
  Device = {d1}
  DeviceOf <- OneDevice
  Reconciliable = {1}
  Dangerous = {1, 2}
  Compound = {1}
  Forget = {2}
  StableInstanceId = FALSE
  MaxClaims = 2
  MaxCrashes = 0
  MaxFaults = 2
  MaxExpiries = 0
  MaxCancels = 1
  MaxUnknown = 0
PROPERTY EventuallySettled
