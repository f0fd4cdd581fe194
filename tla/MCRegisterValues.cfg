CONSTANTS
  Launch <- MCLaunch
  Wide <- MCWide
  Inputs <- MCInputs
  Instructions <- MCInstructions
  rd1 = rd1
  rd2 = rd2
  Element = 8
  MaxLength = 3
  MaxNumber = 10000
SPECIFICATION
  MCSpec
INVARIANT
  TypeOK
  TagsNameValues
  PrintsWhatIsComputed
SYMMETRY
  Interchangeable
CHECK_DEADLOCK
  FALSE
