CONSTANTS
    Actions = {0}
    InitialPrevious = 0
    MaxCommitLatency = 0
    MaxSequence = 2
    Capacity = 2
    TargetMaxAge = 0
    PacketsPerCycle = 2
    HeartbeatTimeout = 1
    SessionDuration = 2
    FirstTargetTimeout = 0
    TargetTimeout = 0
    HeartbeatInterval = 1
SPECIFICATION FairSpec
CHECK_DEADLOCK FALSE
PROPERTY StopIsNoFault
