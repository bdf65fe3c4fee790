SPECIFICATION Spec
CONSTANTS
    MaxRetry = 1
    MaxFaults = 2
    MaxPublished = 2
    MaxReplies = 1
INVARIANTS
    PingsGoOn
CHECK_DEADLOCK FALSE
