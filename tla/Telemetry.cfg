SPECIFICATION Spec
CONSTANTS
    Writers = {w1, w2}
    Readers = {r1}
    Words = {a, b}
    Values = {0, 1}
    Empty = Empty
    Nobody = Nobody
    MaxSequence = 3
    MaxAttempts = 2
CHECK_DEADLOCK FALSE
INVARIANT StreamTypeOK
INVARIANT LatestIsIntact
PROPERTY ImplementsTelemetryLog
