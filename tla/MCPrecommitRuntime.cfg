SPECIFICATION FairSpec
CONSTANTS
    Ids = {l1, l2}
    NoId = NoId
    MaxFaults = 1
    MaxCrashes = 2
INVARIANTS
    WorkerAlwaysFindable
    NoLoginBesideLiveWorker
    BindingIsCurrent
    RunningSessionHandedOver
PROPERTIES
    StartupEnds
CHECK_DEADLOCK FALSE
