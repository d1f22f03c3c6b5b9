SPECIFICATION Spec
CONSTANTS
  SeqMod = 6
  MaxConsiderLost = 2
  MaxAdvance = 10
  MaxFec = 1
INVARIANTS LossesComplete RepairsWithinLosses MapsFollowList ReportFits
