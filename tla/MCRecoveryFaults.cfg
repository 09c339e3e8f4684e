SPECIFICATION Spec
CONSTANTS
    r1 = r1
    Recs = {r1}
    None = None
    MaxBoot = 3
    MaxFaults = 2
    FaultKinds = {"crash", "io", "facts"}
    MaxEntries = 1
    MaxOld = 0
    Counted = {"kill", "terminate", "disallocate", "admin", "workerDisallocate",
               "emergencyKill", "emergencyTerminate", "emergencyDisallocate"}
    Leftovers <- AnyLeftovers
    MaxAttempts = 2
INVARIANTS
    EffectsAtMostOnce
    NothingHalfRecovered
    RetriesAreRecorded
    RemovalIsFinal
PROPERTIES
    HistoryIsNotReplayed
    SequencesNeverRegress
    RetryFreesSeatLast
    RemovalIsAnnounced
CHECK_DEADLOCK FALSE
