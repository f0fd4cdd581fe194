SPECIFICATION MCSpec
CONSTANTS
  Preds = {"exec", "vcc"}
  Scalars <- MCScalars
  Labels = {"L", "M"}
  Comparisons = {1, 2}
  MaxNodes = 8
  AnyNodes = 4
  FlowNodes = 7
INVARIANTS
  TypeOK
  EdgesAgree
  StackOK
  AllClosed
  NoRepeatedParent
  EdgesForward
  NoOrphan
CHECK_DEADLOCK FALSE
