SPECIFICATION MCSpec
CONSTANTS
  Preds = {"exec", "vcc", "scc"}
  Scalars <- MCScalars
  Labels = {1, 2, 3, 4, 5, 6}
  Comparisons = {1, 2, 3}
  MaxNodes = 40
  Saves <- MCSaves
  Data = {}
  MaxIfs = 3
  MaxOps = 3
INVARIANTS
  MaskDenotesExec
  StackMirrorsFrames
  NoRegionException
  PrintedRight
PROPERTIES
  AlwaysFolded
CHECK_DEADLOCK FALSE
