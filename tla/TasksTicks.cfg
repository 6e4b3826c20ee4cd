CONSTANTS
  o1 = o1
  o2 = o2
  r1 = r1
  Ops = {"sleep"}
  Objs = {o1}
  Remotes = {}
  LockNames = {"a"}
  Sends = {"call"}
  Igns = {TRUE, FALSE}
  Nests = FALSE
  Arrivals = {"command", "notice"}
  RemoteIds = {}
  MaxAge = 3
  MaxTicks = 2
  Evicts = FALSE
  MaxInputs = 1
  MaxRounds = 2
SPECIFICATION Spec
PROPERTIES BlockedNotEnded
CHECK_DEADLOCK FALSE
