CONSTANTS
  Width = 1
  Depth = 2
  MaxId = 3
  MaxVal = 2
  MaxSerial = 9
  Fails = TRUE
  Crashes = "any"
  Programs = {}
SPECIFICATION Spec
PROPERTIES NumbersUnique
CHECK_DEADLOCK FALSE
