SPECIFICATION FairSpec
CONSTANTS
    Ids = {x}
    Sys = sys
    Fds = {0, 1}
    TotFds = 2
    MaxCmds = 1
    MsecPerCmd = 1
    Ticks = {0, 1}
    Switches = FALSE
    MaxLines = 2
    MaxRan = 3
INVARIANTS TypeOK OneConnection RateLimited
PROPERTIES Notified DeadLeave
CHECK_DEADLOCK FALSE
