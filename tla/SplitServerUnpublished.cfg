SPECIFICATION Spec
CONSTANTS
    MaxControl = 1
    MaxShell = 1
    MaxPublish = 3
    MaxStdin = 1
    MaxEvents = 0
    MaxPings = 0
INVARIANTS
    NothingLeftUnpublished
CHECK_DEADLOCK FALSE
