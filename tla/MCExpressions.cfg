SPECIFICATION MCSpec
CONSTANTS
  size_of_workgroups <- Sizes
  Scenarios <- Exact
  Envs <- Values
INVARIANTS
  DenotesUnlessTwice
  PrintedIsNode
  OrderDoesNotMatter
PROPERTIES
  NothingLost
CHECK_DEADLOCK FALSE
