SPECIFICATION FairSpec
CONSTANTS
    TcpTypes = {"server", "client"}
    Threads = {t1, t2}
    EventKinds = {"output", "all_stopped", "all_continued", "stopped", "continued"}
    MaxEvents = 2
    MayDie = TRUE
    MayRefuse = TRUE
    Commands = {"initialize", "attach", "threads", "setBreakpoints", "debugInfo", "disconnect"}
    MaxRequests = 4
INVARIANTS
    RepliesInTurn
    StoppedThreadsFollow
    SessionLeavesNothing
    ParentHeaderIsCurrent
    StuckInNamedCasesOnly
CHECK_DEADLOCK FALSE
PROPERTIES
    EveryRequestAnswered
    ImplementsSession
