SPECIFICATION FairSpec
CONSTANTS
    k1 = k1
    k2 = k2
    Kernels = {k1, k2}
    Sockets = {"control", "shell", "heartbeat_controller"}
    Ports = {p1, p2, p3, p4}
    NoPort = NoPort
    Launches <- Launched
    MaxForeign = 1
INVARIANTS
    TypeOK
    RunningKernelsAreKnown
    ConfigurationsLeadHome
    OneServerPerContext
PROPERTIES
    ConstructionEnds
CHECK_DEADLOCK FALSE
