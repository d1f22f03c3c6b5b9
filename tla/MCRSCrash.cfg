SPECIFICATION Spec
CONSTANTS
  SeqMod = 32
  Media <- MCMedia
  Fec <- MCFec
  Protects <- MCProtects
  MaxMediaPackets = 8
  MaxFecPackets = 4
  MaxConsiderLoss = 8
  OldThreshold = 8
  LossThreshold = 8
  DecodeSpan = 6
  ZeroPivot <- MCZeroPivot
INVARIANT NoCrash
