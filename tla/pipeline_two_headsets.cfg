SPECIFICATION Spec
CONSTANTS
  d1 = d1
  d2 = d2
  Cmd = {1, 2, 3}
  Device = {d1, d2}
  DeviceOf <- TwoDevices
  Reconciliable = {1}
  Dangerous = {1, 2}
  Compound = {1}
  Forget = {2}
  StableInstanceId = FALSE
  MaxClaims = 2
  MaxCrashes = 0
  MaxFaults = 0
  MaxExpiries = 1
  MaxCancels = 1
  MaxUnknown = 1
INVARIANTS ExclusiveHeadset DeliveredIsSettled
