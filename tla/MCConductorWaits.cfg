SPECIFICATION FairSpec
CONSTANTS
  Type = "RLSRSFEC"
  MaxCandidates = 1
  MaxRetries = 2
PROPERTY NeverWaits
CHECK_DEADLOCK FALSE
