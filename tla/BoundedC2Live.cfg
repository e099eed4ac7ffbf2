CONSTANTS
  Actions = {"a"}
  InitialPrevious = "a"
  MaxCommitLatency = 1
  Threads = {"loop"}
  Runs = {"run"}
  Authorizations = {}
  MaxSequence = 1
  MaxTime = 1
  Modes = {TRUE, FALSE}
  HeartbeatTimeout = 2
  CommandTimeout = 2
  FeedbackPeriod = 1
  FeedbackHardAge = 2
  TrackingTimeout = 1
  TargetMaxAge = 1
  WriteDeadline = 1
  Period = 1
  ResponseTimeout = 1
  HardDeadline = 1
  HoldLimit = 1
SPECIFICATION UnaskedSpec
PROPERTIES
  RunEnds
CHECK_DEADLOCK FALSE
