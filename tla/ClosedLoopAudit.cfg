CONSTANTS
  Actions = {"a"}
  InitialPrevious = "a"
  MaxCommitLatency = 1
  Threads = {"loop"}
  Runs = {"run"}
  Authorizations = {}
  MaxSequence = 1
  MaxTime = 2
  Modes = {TRUE}
  HeartbeatTimeout = 2
  CommandTimeout = 1
  FeedbackPeriod = 1
  FeedbackHardAge = 2
  TrackingTimeout = 1
  TargetMaxAge = 2
  WriteDeadline = 1
  Period = 1
  ResponseTimeout = 3
  HardDeadline = 2
  HoldLimit = 2
SPECIFICATION Spec
INVARIANTS
  AuditComplete
CHECK_DEADLOCK FALSE
