SPECIFICATION PathSpec
CONSTANTS
  SeqMod = 6
  MaxConsiderLost = 2
  MaxAdvance = 4
  MaxFec = 0
  Times <- MCTimes
  NumMod = 2
  Window = 2
  Silence = 0
  MaxReports = 3
  MaxTime = 2
INVARIANTS CountedOnce SumsAgree HeardWithinLosses
PROPERTIES ImplementsReport
CHECK_DEADLOCK FALSE
