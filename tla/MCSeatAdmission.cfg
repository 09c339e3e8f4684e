CONSTANTS
  a = a
  b = b
  LifecycleIds <- MCLifecycleIds
  NoId = NoId
  MaxGeneration = 4
SPECIFICATION Spec
INVARIANTS
  IInv
PROPERTIES
  DroppedLeaseIsPermanent
  ImplementsSeat
CHECK_DEADLOCK FALSE
