SPECIFICATION KernelSpec
CONSTANTS
  Preds = {"exec", "vcc", "scc"}
  Scalars <- MCScalars
  Labels = {1, 2, 3, 4}
  Comparisons = {1, 2}
  MaxNodes = 30
  Saves <- MCSaves
  Data = {"v"}
  MaxIfs = 2
  MaxOps = 3
INVARIANTS
  NoException
  PathsAgree
  VersionsUnique
  VariablesCarryValuesMergedSimply
CHECK_DEADLOCK FALSE
