SPECIFICATION Spec
CONSTANTS
  SeqMod = 32
  Media <- MCMedia
  Fec <- MCFec
  Protects <- MCProtects
  MaxMediaPackets = 3
  MaxFecPackets = 3
  MaxConsiderLoss = 4
  OldThreshold = 3
  LossThreshold = 8
  DecodeSpan = 4
  ZeroPivot <- MCZeroPivot
INVARIANTS LinksConsistent KnownNotLost FecTimed NoSingleLossLeft RecoveredDelivered CorruptOnlyIfLate
PROPERTIES HandlerTerminates RecoveredSentUnlessFull
