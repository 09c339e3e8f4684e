SPECIFICATION Spec
CONSTANTS
    r1 = r1
    Recs = {r1}
    None = None
    MaxBoot = 1
    MaxFaults = 3
    FaultKinds = {"crash", "facts"}
    MaxEntries = 1
    MaxOld = 0
    Counted = {"terminate"}
    Leftovers <- WithoutWorker
    MaxAttempts = 0
INVARIANTS
    TerminationAtMostOnce
CHECK_DEADLOCK FALSE
