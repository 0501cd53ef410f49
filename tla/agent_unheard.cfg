SPECIFICATION Spec
CONSTANTS
  MaxInstalls = 1
  MaxTokens = 2
  MaxNet = 2
  MaxEvents = 2
  OperatorPayloads = FALSE
INVARIANT ProvisionedIsHeard
CHECK_DEADLOCK FALSE
