CONSTANTS
  a = a
  b = b
  LifecycleIds <- MCLifecycleIds
  NoId = NoId
  MaxFaults = 1
SPECIFICATION FairSpec
INVARIANTS
  PayloadOwnsSeat
  PayloadIsDurable
  BusyVtKeepsSeat
  LeftoverRecordsAreDead
  NoPhaseLeaksWithoutFault
PROPERTIES
  ImplementsSeat
  LoginEnds
  ExitIsSettled
CHECK_DEADLOCK FALSE
