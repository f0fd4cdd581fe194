SPECIFICATION Spec
CONSTANTS
  Predicates = {"p", "q"}
  Labels = {"L"}
  MaxEffects = 4
  MaxCode = 4
  MaxJumps = 1
INVARIANTS
  MaskedRunsAreStraight
PROPERTIES
  MasksImplementPredicates
CHECK_DEADLOCK FALSE
