SPECIFICATION FairSpec
CONSTANTS
    r1 = r1
    r2 = r2
    Recs = {r1, r2}
    None = None
    MaxBoot = 3
    MaxFaults = 0
    FaultKinds = {}
    MaxEntries = 2
    MaxOld = 0
    Counted = {}
    Leftovers <- WithoutWorker
    MaxAttempts = 0
PROPERTIES
    HistoryIsFinalized
CHECK_DEADLOCK FALSE
