CONSTANTS
  Width = 1
  Depth = 2
  MaxId = 3
  MaxVal = 2
  MaxSerial = 8
  Fails = FALSE
  Crashes = "dumped"
  Programs = {"object", "method"}
SPECIFICATION Spec
INVARIANTS TypeOK OneSlot ThisCurrent
PROPERTIES  NeverReused
CHECK_DEADLOCK FALSE
