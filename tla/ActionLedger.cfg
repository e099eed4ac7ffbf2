CONSTANTS
  a1 = a1
  a2 = a2
  p1 = p1
  Actions = {a1, a2}
  InitialPrevious = a1
  MaxCommitLatency = 1
  Producers = {p1}
  MaxSequence = 2
  MaxTime = 3
SPECIFICATION FairSpec
INVARIANTS
  CommitMeansBothAcked
  PreviousIsExecuted
PROPERTIES
  CommitsAtomically
  PendingResolves
CHECK_DEADLOCK FALSE
