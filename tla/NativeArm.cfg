CONSTANTS
    Actions = {0}
    InitialPrevious = 0
    MaxCommitLatency = 0
    MaxSequence = 2
    Capacity = 2
    TargetMaxAge = 0
    PacketsPerCycle = 2
    HeartbeatTimeout = 1
    SessionDuration = 2
    FirstTargetTimeout = 0
    TargetTimeout = 0
    HeartbeatInterval = 1
SPECIFICATION Spec
CHECK_DEADLOCK FALSE
INVARIANT NativeTypeOK
INVARIANT ProvenMeansAtRest
INVARIANT StopIsHeard
PROPERTY NoWriteUnsupervised
PROPERTY ImplementsArmOwner
PROPERTY RunReturns
PROPERTY HandleGivenBack
PROPERTY LeftLoopEnds
