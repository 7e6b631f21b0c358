SPECIFICATION Spec
CONSTANTS
  ByteBits = 3
  WordBits = 15
  NumRegs = 14
  Unassigned = Unassigned
  MaxInsts = 26
  MaxInputs = 2
  Scenarios <- TestScenarios
INVARIANT SessionTypeOK
INVARIANT ResultsExplained
INVARIANT InBounds
INVARIANT CallerKeeps
INVARIANT NoClash
INVARIANT ExportsHonest
