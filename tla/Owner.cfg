CONSTANTS
  Actions = {"a"}
  InitialPrevious = "a"
  MaxCommitLatency = 1
  Threads = {"loop"}
  Runs = {"run"}
  Authorizations = {}
  MaxSequence = 2
  MaxTime = 3
  LastCommandTime = 0
  Modes = {TRUE, FALSE}
  HeartbeatTimeout = 2
  CommandTimeout = 1
  FeedbackPeriod = 1
  FeedbackHardAge = 2
  TrackingTimeout = 1
SPECIFICATION ClientsFairSpec
INVARIANTS
  StopEdgeBeforeDisable
  NeverClosedArmed
  AcknowledgedMeansApplied
  VerifiedStopIsTrue
PROPERTIES
  TicketsAreAnswered
  StopEnds
  SilenceStopsHand
CHECK_DEADLOCK FALSE
