SPECIFICATION Spec
CONSTANTS
    r1 = r1
    Recs = {r1}
    None = None
    MaxBoot = 2
    MaxFaults = 1
    FaultKinds = {"io"}
    MaxEntries = 1
    MaxOld = 0
    Counted = {}
    Leftovers <- WithoutWorker
    MaxAttempts = 0
INVARIANTS
    LoginOnlyAfterHistory
CHECK_DEADLOCK FALSE
