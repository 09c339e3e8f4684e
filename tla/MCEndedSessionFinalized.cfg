SPECIFICATION FairSpec
CONSTANT MaxFaults = 0
CHECK_DEADLOCK FALSE
PROPERTY EndedSessionIsFinalized
