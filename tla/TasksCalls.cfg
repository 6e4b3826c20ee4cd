CONSTANTS
  o1 = o1
  o2 = o2
  r1 = r1
  Ops = {"fail", "raise", "return", "message", "kill", "destroy", "disconnect"}
  Objs = {o1}
  Remotes = {r1}
  LockNames = {"a"}
  Sends = {"call"}
  Igns = {FALSE}
  Nests = FALSE
  Arrivals = {"command", "notice"}
  RemoteIds = {0, 1}
  MaxAge = 2
  MaxTicks = 4
  Evicts = FALSE
  MaxInputs = 2
  MaxRounds = 2
SPECIFICATION Spec
INVARIANTS TypeOK  CursorValid WaiterServed
PROPERTIES DropsOnlyOrphans
CHECK_DEADLOCK FALSE
