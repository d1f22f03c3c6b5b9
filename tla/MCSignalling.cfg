SPECIFICATION FairSpec
CONSTANTS
  Clients = {a, b}
  MaxWaits = 2
  MaxCandidates = 2
  MaxRestarts = 1
INVARIANTS DescriptionsInSequence CandidatesUsable
PROPERTY Negotiates
CHECK_DEADLOCK FALSE
