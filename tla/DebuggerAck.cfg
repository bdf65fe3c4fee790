SPECIFICATION FairSpec
CONSTANTS
    TcpTypes = {"server"}
    Threads = {t1}
    EventKinds = {"output"}
    MaxEvents = 1
    MayDie = FALSE
    MayRefuse = FALSE
    Commands = {"initialize", "attach", "disconnect"}
    MaxRequests = 3
PROPERTY
    HeaderAcknowledged
CHECK_DEADLOCK FALSE
