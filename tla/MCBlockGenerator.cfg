SPECIFICATION FairSpec
CONSTANTS
  SeqMod = 14
  MaxSeqNumDiff = 6
  MaskLength = 6
  BufferLimit = 7
  Params <- MCParams
  FrameCap = 4
  MaxGap = 1
INVARIANTS
  FecOverFewFrames
  EncoderContract
  MinimumEnforced
PROPERTIES
  BlocksEnd
