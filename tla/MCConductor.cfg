SPECIFICATION FairSpec
CONSTANTS
  Type = "RLSRSFEC"
  MaxCandidates = 2
  MaxRetries = 2
INVARIANTS NoUseAfterDelete StateAgrees NoMessageLost
PROPERTY QuitsWithoutPeer
CHECK_DEADLOCK FALSE
