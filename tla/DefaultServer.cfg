SPECIFICATION FairSpec
CONSTANTS
    MaxControl = 1
    MaxShell = 1
    MaxPublish = 2
    MaxStdin = 1
    MaxEvents = 2
    MaxPings = 1
INVARIANTS
    TypeOK
    OneWelcomePerSubscription
PROPERTIES
    ImplementsLifecycle
    StopCompletes
    PeersAreServed
CHECK_DEADLOCK FALSE
