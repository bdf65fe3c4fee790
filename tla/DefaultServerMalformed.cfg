SPECIFICATION Spec
CONSTANTS
    MaxControl = 1
    MaxShell = 1
    MaxPublish = 1
    MaxStdin = 1
    MaxEvents = 0
    MaxPings = 0
INVARIANTS
    StopsThreadsBeforeLeaving
CHECK_DEADLOCK FALSE
