SPECIFICATION FairSpec
CONSTANTS
    TcpTypes = {"client"}
    Threads = {t1}
    EventKinds = {"output"}
    MaxEvents = 1
    MayDie = FALSE
    MayRefuse = FALSE
    Commands = {"initialize", "attach", "disconnect"}
    MaxRequests = 1
PROPERTY
    HeaderAcknowledged
CHECK_DEADLOCK FALSE
