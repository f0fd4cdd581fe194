SPECIFICATION KernelSpec
CONSTANTS
  Preds = {"exec", "vcc"}
  Scalars <- MCScalars
  Labels = {}
  Comparisons = {1, 2}
  MaxNodes = 30
  Saves <- MCSaves
  Data = {"v"}
  MaxIfs = 2
  MaxOps = 4
INVARIANTS
  VariablesCarryValues
CHECK_DEADLOCK FALSE
