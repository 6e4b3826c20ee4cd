CONSTANTS
  o1 = o1
  o2 = o2
  r1 = r1
  Ops = {"message", "sleep", "lock", "at"}
  Objs = {o1}
  Remotes = {}
  LockNames = {"a"}
  Sends = {"call", "halt"}
  Igns = {TRUE}
  Nests = TRUE
  Arrivals = {"notice"}
  RemoteIds = {}
  MaxAge = 0
  MaxTicks = 5
  Evicts = TRUE
  MaxInputs = 1
  MaxRounds = 1
SPECIFICATION FairSpec
INVARIANTS LockOwnerAlive
 
CHECK_DEADLOCK FALSE
