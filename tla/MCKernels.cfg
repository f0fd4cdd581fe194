SPECIFICATION Spec
CONSTANTS
  Files <- MCFiles
INVARIANTS
  TypeOK
  PrefixBeforeCode
PROPERTIES
  ImplementsFile
  AllPrinted
CHECK_DEADLOCK FALSE
