SPECIFICATION Spec
CONSTANTS
    MaxRetry = 1
    MaxFaults = 2
    MaxPublished = 2
    MaxReplies = 1
INVARIANTS
    PoppedAsPushed
CHECK_DEADLOCK FALSE
