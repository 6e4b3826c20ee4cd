CONSTANTS
  o1 = o1
  o2 = o2
  r1 = r1
  Ops = {"lock", "unlock", "sleep", "kill"}
  Objs = {o1}
  Remotes = {}
  LockNames = {"a"}
  Sends = {"call"}
  Igns = {FALSE}
  Nests = FALSE
  Arrivals = {"notice"}
  RemoteIds = {}
  MaxAge = 3
  MaxTicks = 5
  Evicts = FALSE
  MaxInputs = 2
  MaxRounds = 2
SPECIFICATION Spec
INVARIANTS LockExclusive
PROPERTIES LockKept
CHECK_DEADLOCK FALSE
