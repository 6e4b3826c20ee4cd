SPECIFICATION Spec
CONSTANTS
  Ids = {i, j}
  Versions = {u, w}
  Sizes = {2, 3}
  Bsiz = 2
  Byte = 2
  Margin = 2
  BitBlock = 5
  Fails = {"write", "store"}
  MaxOps = 5
CHECK_DEADLOCK FALSE
INVARIANTS TypeOK Disjoint
PROPERTY MapSpec
