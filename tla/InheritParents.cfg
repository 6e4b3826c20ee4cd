CONSTANTS
  MaxObj = 3
  MaxParents = 2
  Kinds = {"method", "variable"}
  Careful = FALSE
SPECIFICATION HierarchySpec
INVARIANTS Acyclic
CHECK_DEADLOCK FALSE
