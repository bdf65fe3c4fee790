SPECIFICATION FairSpec
CONSTANTS
    MaxControl = 2
    MaxShell = 1
    MaxPublish = 1
    MaxStdin = 1
    MaxEvents = 1
    MaxPings = 0
INVARIANTS
    TypeOK
    SendsAreLegal
    AtMostOneLateMessage
    WaitsOnlyForClients
    StandsStillOnlyInCalls
PROPERTIES
    ImplementsLifecycle
    StopCompletes
    AskedShellAnswers
    PublishedIsForwarded
CHECK_DEADLOCK FALSE
