SPECIFICATION ConditionsSpec
CONSTANTS
  Atoms <- MCAtoms
  MaxNeg = 1
INVARIANTS
  ChainOK
  XorSound
  OrSound
  ElseCloses
