SPECIFICATION FairSpec
CONSTANTS
  Servers = {a, b}
  Callers = {a}
  Restarting = {b}
  Retry = 1
  Timeout = 3
  MaxCalls = 2
  MaxStarts = 2
  MaxRuns = 3
CHECK_DEADLOCK FALSE
INVARIANT TypeOK
PROPERTIES CallsSpec CallsEnd
