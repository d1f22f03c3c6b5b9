SPECIFICATION FairSpec
CONSTANTS
  Lengths <- MCLengths
  Intervals <- MCIntervals
  Numbers <- MCNumbers
  SeqMod = 16
  Types = {"RLSRSFEC", "RSFECStreamStableRate"}
  MaxSeqNumDiff = 4
  MaskLength = 4
  GenerateFecNum = 1
  FecRate = 1
  One = 2
  InsertInit <- MCInsertInit
  LeftInit <- MCLeftInit
  MaxGap = 4
INVARIANTS
  MaskFits
  CoveredPrefix
  ExposedOnlyIfDisturbed
  EncoderContract
CHECK_DEADLOCK FALSE
PROPERTIES FecKeepsComing
