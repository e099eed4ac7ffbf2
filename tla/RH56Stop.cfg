CONSTANTS
  Samples = 2
  WriteTime = 1
  ReadTime = 2
  SleepTime = 1
  Margin = 1
  StopTimeout = 42
  Positions = {0, 1}
SPECIFICATION Spec
INVARIANTS
  ConfirmedMeansProven
  ReleaseAlwaysSent
  UnconfirmedHasCause
PROPERTY FaultSurvivesStop
CHECK_DEADLOCK FALSE
