SPECIFICATION FairSpec
CONSTANT MaxFaults = 1
CHECK_DEADLOCK FALSE
INVARIANTS
  ProofMeansEmpty
  SessionKeepsItsOwner
  FailedLaunchIsClean
  VtReleaseIsRecorded
PROPERTIES
  TimeoutMeansNotProven
  ImplementsSessionEnd
  WorkerSettles
