SPECIFICATION MCSpec
CONSTANTS
  Preds = {"exec", "vcc", "scc"}
  Scalars <- MCScalars
  Labels = {1, 2, 3, 4, 5, 6}
  Comparisons = {1, 2, 3}
  MaxNodes = 40
  Saves <- MCSaves
  Data = {"v"}
  MaxIfs = 3
  MaxOps = 5
INVARIANTS
  VariablesCarryValuesMergedOnce
CHECK_DEADLOCK FALSE
