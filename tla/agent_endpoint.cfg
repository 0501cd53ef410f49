SPECIFICATION FairSpec
CONSTANTS
  MaxInstalls = 2
  MaxTokens = 2
  MaxNet = 2
  MaxEvents = 3
  OperatorPayloads = TRUE
INVARIANTS TypeOK NoReplay RotationVerdict
PROPERTIES HeardAgain 
CHECK_DEADLOCK FALSE
