SPECIFICATION Spec
CONSTANTS
    r1 = r1
    Recs = {r1}
    None = None
    MaxBoot = 1
    MaxFaults = 1
    FaultKinds = {"crash"}
    MaxEntries = 1
    MaxOld = 0
    Counted = {}
    Leftovers <- WithoutWorker
    MaxAttempts = 0
INVARIANTS
    BusyRecordKeepsSeat
CHECK_DEADLOCK FALSE
