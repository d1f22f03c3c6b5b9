SPECIFICATION Spec
CONSTANT Inputs <- MCInputs
INVARIANTS TableRecovers NullJustified
