SPECIFICATION SenderSpec
CONSTANTS
  Types = {"RLSRSFEC", "SwiftFECAblL", "RSFECStreamStableRate"}
  SeqMod = 6
  MaxSeqNumDiff = 2
  MaskLength = 2
  GenerateFecNum = 1
  FecRate = 1
  One = 2
  InsertInit <- MCZero
  LeftInit <- MCZero
  MaxGap = 1
  MinL = 1
  MaxL = 2
  MaxM = 1
  DefaultL = 2
  Warmup = 2
  Unit = 1
  Width = 5
  StackValues = {0, 4}
INVARIANTS
  NeverWraps
  ExcessIsStale
  WindowKeptAfterStart
PROPERTIES
  ImplementsGenerator
  FecFlows
CHECK_DEADLOCK FALSE
