CONSTANTS
  o1 = o1
  o2 = o2
  r1 = r1
  Ops = {"sleep", "at", "return"}
  Objs = {o1}
  Remotes = {}
  LockNames = {"a"}
  Sends = {"call"}
  Igns = {TRUE, FALSE}
  Nests = FALSE
  Arrivals = {"command", "notice"}
  RemoteIds = {}
  MaxAge = 3
  MaxTicks = 6
  Evicts = FALSE
  MaxInputs = 1
  MaxRounds = 1
SPECIFICATION Spec
INVARIANTS AnswerEndsMethod
CHECK_DEADLOCK FALSE
