SPECIFICATION MCSpec
CONSTANTS
  Preds = {}
  Scalars <- NoScalars
  Labels = {1, 2, 3, 4}
  Comparisons = {}
  MaxNodes = 15
  AnyNodes = 9
  MaxLoops = 2
  MaxBranches = 5
  FreeBreaks = FALSE
INVARIANTS
  RegionsMirrorGraph
  KernelsFolded
  KernelsPrinted
  ProgramsPrinted
PROPERTIES
  KernelsEnd
CHECK_DEADLOCK FALSE
