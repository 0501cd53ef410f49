SPECIFICATION Spec
CONSTANTS
  d1 = d1
  d2 = d2
  Cmd = {1, 2}
  Device = {d1}
  DeviceOf <- OneDevice
  Reconciliable = {1}
  Dangerous = {1, 2}
  Compound = {1}
  Forget = {}
  StableInstanceId = FALSE
  MaxClaims = 3
  MaxCrashes = 1
  MaxFaults = 1
  MaxExpiries = 1
  MaxCancels = 1
  MaxUnknown = 1
INVARIANTS TypeOK EffectAtMostOnce CloudAgreesWithHub HeadOfLine
PROPERTIES EffectsInOrder ImplementsContract
