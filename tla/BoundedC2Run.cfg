CONSTANTS
  Actions = {"a"}
  InitialPrevious = "a"
  MaxCommitLatency = 1
  Threads = {"loop"}
  Runs = {"run"}
  Authorizations = {}
  MaxSequence = 1
  MaxTime = 2
  Modes = {TRUE, FALSE}
  HeartbeatTimeout = 2
  CommandTimeout = 2
  FeedbackPeriod = 1
  FeedbackHardAge = 2
  TrackingTimeout = 1
  TargetMaxAge = 1
  WriteDeadline = 1
  Period = 1
  ResponseTimeout = 2
  HardDeadline = 2
  HoldLimit = 1
SPECIFICATION EitherSpec
INVARIANTS
  ClosedLoopTypeOK
  FrankaFirst
  CommitMeansBothMoved
  NoTargetAfterLatch
  PassMeansCleanRun
  StopIsNoResult
  VerifiedStopMeansCleanRun
CHECK_DEADLOCK FALSE
VIEW View
