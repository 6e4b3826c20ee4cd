CONSTANTS
  MAX_TREE = 16
  MAX_TSTACK = 100
  STACK_SIZE = 17
  NVars = 4
  MaxObj = 4
  MaxParents = 2
  Kinds = {"method", "variable"}
  Careful = TRUE
SPECIFICATION Spec
INVARIANTS TypeOK AsWritten Reloads
INVARIANTS HierarchyTypeOK Acyclic StackBounded MethodFound VarFound
CHECK_DEADLOCK FALSE
