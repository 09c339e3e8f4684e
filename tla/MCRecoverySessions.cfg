SPECIFICATION FairSpec
CONSTANTS
    r1 = r1
    r2 = r2
    Recs = {r1, r2}
    None = None
    MaxBoot = 3
    MaxFaults = 1
    FaultKinds = {"crash", "failpoint"}
    MaxEntries = 1
    MaxOld = 1
    Counted = {}
    Leftovers <- FewLeftovers
    MaxAttempts = 0
INVARIANTS
    LoginOnlyAfterHistory
PROPERTIES
    LoneHistoryIsFinalized
CHECK_DEADLOCK FALSE
