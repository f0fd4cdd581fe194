SPECIFICATION MCSpec
CONSTANTS
  size_of_workgroups <- Sizes
  Scenarios <- Sums
  Envs <- Values
INVARIANTS
  Denotes
CHECK_DEADLOCK FALSE
