------------------------- MODULE SessionSupervision -------------------------
(***************************************************************************)
(* Logins, sessions and their ends: the supervisor thread, one launcher    *)
(* thread and one worker process per login, all interleaved.               *)
(***************************************************************************)
EXTENDS SupervisorLoop, Launcher, SessionWorker

Init ==
    /\ adm = NewController(FreeSeat)
    /\ pend = [id \in LifecycleIds |-> NoEntry]
    /\ kids = [id \in LifecycleIds |-> NoKid]
    /\ rec = [id \in LifecycleIds |-> NoRecord]
    /\ loop = "recv"
    /\ mbox = <<>>
    /\ lch = [id \in LifecycleIds |-> IdleLauncher]
    /\ wrk = [id \in LifecycleIds |-> NoWorker]
    /\ scope = [id \in LifecycleIds |-> "none"]
    /\ faults = 0

Next ==
    \/ SupervisorNext
    \/ \E id \in LifecycleIds : LauncherNext(id) \/ WorkerNext(id)

\* The threads are scheduled, live workers make progress once PAM is done, and
\* the deadline of a login passes whose worker is in PAM or waits for ever.  No
\* greeter has to answer, no session has to end and no fault has to happen.
StuckDeadline(id) == wrk[id].pc \in {"preparing", "stuck"} /\ DeadlinePasses(id)

Fairness ==
    /\ WF_vars(SupervisorSteps)
    /\ \A id \in LifecycleIds :
          /\ WF_vars(LauncherSteps(id) \/ StuckDeadline(id))
          /\ WF_vars(WorkerSteps(id))

Spec == Init /\ [][Next]_vars
FairSpec == Spec /\ Fairness

-----------------------------------------------------------------------------
\* Every variable has its type.
TypeOK ==
    /\ adm \in Controllers
    /\ pend \in [LifecycleIds -> Entries]
    /\ kids \in [LifecycleIds -> Kids]
    /\ rec \in [LifecycleIds -> Records]
    /\ loop \in {"recv", "reap", "down"}
    /\ mbox \in Seq(Messages)
    /\ lch \in [LifecycleIds -> Launchers]
    /\ wrk \in [LifecycleIds -> Workers]
    /\ scope \in [LifecycleIds -> ScopeStates]
    /\ faults \in 0 .. MaxFaults

\* The lifecycle the seat is taken by, in a login or after it.
Owner == IF adm.phase.tag # "Free" THEN adm.phase.id ELSE adm.lifecycle.id

\* A user's processes are never without the seat: whatever times out, fails
\* or crashes, the seat of a populated session is not free and not another
\* login's.
PayloadOwnsSeat == \A id \in LifecycleIds : scope[id] = "user" => Owner = id

\* A user's processes are never without a durable record: a daemon that
\* restarts finds them.
PayloadIsDurable == \A id \in LifecycleIds : scope[id] = "user" => HasRecord(id)

\* A VT that could not be disallocated keeps its seat: as long as the record
\* says so no other login gets in.
BusyVtKeepsSeat ==
    \A id \in LifecycleIds :
        rec[id].state = "vt_disallocate_failed_busy" => Owner = id

\* A record that outlives its tenure describes an empty scope; without a
\* fault it can only be that of a worker that exited unexpectedly.
LeftoverRecordsAreDead ==
    \A id \in LifecycleIds : HasRecord(id) /\ Owner # id =>
        /\ scope[id] = "empty" /\ ~Alive(id)
        /\ faults = 0 => rec[id].state = "worker_exited_unexpectedly"

\* Without a fault no login leaves a seat phase open: the daemon is idle and
\* every launcher done, so the seat is free, running or quarantined.
NoPhaseLeaksWithoutFault ==
    /\ faults = 0 /\ mbox = <<>> /\ \A id \in LifecycleIds : AtRest(id)
    => /\ adm.phase.tag = "Free"
       /\ adm.lifecycle.tag # "Recovering"
       /\ \A id \in LifecycleIds : pend[id].st # "none" => Owner = id

\* The seat as its observers see it, and the abstract seat.
SeatState ==
    IF adm.phase.tag # "Free" THEN "launching"
    ELSE CASE adm.lifecycle.tag = "Free" -> "free"
           [] adm.lifecycle.tag = "Active" -> "running"
           [] adm.lifecycle.tag = "Recovering" -> "recovering"
           [] adm.lifecycle.tag = "Quarantined" -> "quarantined"

AbstractSeat == INSTANCE Seat WITH
    state <- SeatState,
    owner <- IF SeatState = "free" THEN 0 ELSE adm.generation,
    last <- adm.generation

\* Launchers, supervisor and workers together implement the abstract seat:
\* one numbered tenure at a time, never handed over without being free.
ImplementsSeat == AbstractSeat!Spec

\* Every login ends, started or failed, whatever faults happen on the way and
\* however long PAM takes, unless it waits for its greeter to answer a prompt,
\* or for a worker that waits for the answer: these two waits have no limit.
AwaitsAnswer(id) ==
    lch[id].pc = "prompting" \/ (lch[id].pc = "joining" /\ wrk[id].pc = "asking")

LoginEnds ==
    \A id \in LifecycleIds :
        lch[id].pc # "idle" ~> lch[id].pc \in {"started", "failed"} \/ AwaitsAnswer(id)

\* A supervised worker that exits is taken off the list and its seat is
\* freed or quarantined, unless the daemon is shutting down.
ExitIsSettled ==
    \A id \in LifecycleIds : Exited(id) ~>
        \/ ~Supervised(id) /\ (Owner # id \/ adm.lifecycle.tag = "Quarantined")
        \/ loop = "down"

-----------------------------------------------------------------------------
(* The inductive invariant.                                                *)

Box == {mbox[i] : i \in DOMAIN mbox}
InBox(id, call) == \E m \in Box : m.id = id /\ m.call = call
Has(s, x) == \E k \in DOMAIN s : s[k] = x

VtCalls == {"TerminalVtIntent", "TerminalVtResult"}
EntryCalls == {"RecordPreparedScope", "MarkPayloadRegistered", "BeginRelease", "CompleteRelease"}
LeaseCalls == {"CancelAdmission", "BeginPending", "Register", "AbortPending"}

\* The seat is in one hand: a phase or a lifecycle, and each names a login.
AdmissionExclusive ==
    /\ adm.phase.tag = "Free" => adm.phase = NoPhase
    /\ adm.lifecycle.tag = "Free" => adm.lifecycle = FreeSeat
    /\ adm.phase.tag # "Free" => adm.lifecycle.tag = "Free" /\ adm.phase.id # NoId
    /\ adm.lifecycle.tag # "Free" => adm.lifecycle.id # NoId

\* A launcher makes every call once.
CallsAreUnique ==
    \A i, j \in DOMAIN mbox :
        mbox[i].id = mbox[j].id /\ mbox[i].call = mbox[j].call => i = j \/ mbox[i].call \in VtCalls

\* Where a launcher is when it has a lease of its own.
HoldsLease(l) ==
    \/ l.pc \in {"reserved", "reading", "prompting", "joining", "verifying", "waitExit", "registering"}
    \/ l.pc \in {"calling", "replied"} /\ l.call \in EntryCalls
    \/ l.pc = "replied" /\ l.ok /\ l.call \in {"ReserveSeat", "BeginPending"}

\* Which call a launcher made last.
LastCall(l) ==
    /\ l.pc \in {"idle", "reserved"} => l.call = "ReserveSeat"
    /\ l.pc \in {"reading", "prompting", "joining", "waitExit"} =>
           l.call \in {"BeginPending", "MarkPayloadRegistered", "CompleteRelease"}
    /\ l.pc = "verifying" => l.call = "BeginRelease"
    /\ l.pc = "registering" => l.call = "MarkPayloadRegistered"
    /\ l.pc = "started" => l.call = "Register"
    /\ l.call \in {"ReserveSeat", "BeginPending"} => ~l.registered
    /\ l.call \notin VtCalls \cup {"CancelAdmission"}

\* A call that is queued is the one its launcher waits for, or one whose wait
\* expired: then the launcher goes on with AbortPending, or has failed.
GaveUp(l) == l.pc \in {"calling", "failed"} \/ (l.pc = "replied" /\ ~l.ok)
QueuedCalls(id) ==
    /\ InBox(id, "CancelAdmission") =>
           lch[id].pc = "failed" /\ lch[id].call = "ReserveSeat" /\ ~InBox(id, "ReserveSeat")
    /\ \A c \in {"ReserveSeat", "BeginPending", "Register", "AbortPending"} :
           InBox(id, c) => lch[id].call = c /\ GaveUp(lch[id])
    /\ \A c \in EntryCalls : InBox(id, c) =>
           \/ lch[id].call = "AbortPending"
           \/ lch[id].call = c /\ GaveUp(lch[id]) /\ lch[id].pc # "failed"

\* A lease is of its own login, and current as long as the login's phase is.
LeaseOf(id, t) ==
    /\ t # NoId /\ t.id = id
    /\ Owner = id /\ adm.phase.tag # "Free" => MatchesPhase(adm, t)
Leases(id) ==
    /\ lch[id].lease # NoId <=> HoldsLease(lch[id])
    /\ lch[id].lease # NoId => LeaseOf(id, lch[id].lease)
    /\ \A m \in Box : m.id = id /\ m.call \in LeaseCalls => LeaseOf(id, m.lease)
NoLease(id) == lch[id].lease = NoId /\ \A c \in LeaseCalls : ~InBox(id, c)

\* The entry of a launcher that is told of no error, from begin_pending to
\* register_running.
EntryFollows(id) ==
    LET l == lch[id]
        prepared == pend[id].st = "PayloadPrepared" /\ pend[id].release = "NotRequested"
                        /\ ~pend[id].terminal
    IN  /\ InBox(id, "BeginPending") => pend[id].st = "none" /\ ~HasRecord(id)
        /\ Returned(id, "RecordPreparedScope") /\ l.ok => prepared
        /\ Waiting(id, "MarkPayloadRegistered") => prepared
        /\ Returned(id, "MarkPayloadRegistered") /\ l.ok => Registrable(id)
        /\ l.call = "MarkPayloadRegistered" /\ l.pc \in {"reading", "prompting", "registering"} =>
               Registrable(id)
        /\ InBox(id, "Register") => Registrable(id)

\* A worker asks for its release or reports Started, and never both.
ReleasePcs == {"releasing", "releasingAnyway", "stuck", "responding", "exitBad"}
StartedPcs == {"running", "wantIntent", "vtIntent", "vtRelease", "vtResult", "closing",
               "exitOk", "exitBad"}
WorkerReports(id) ==
    LET w == wrk[id]
        l == lch[id]
    IN  /\ Has(w.out, "ReleaseReady") \/ l.call \in {"BeginRelease", "CompleteRelease"} =>
               w.pc \in ReleasePcs /\ ~Has(w.out, "Started")
        /\ Has(w.out, "Started") \/ l.pc = "registering" => w.pc \in StartedPcs
        /\ w.pc \in StartedPcs \ {"running", "wantIntent", "exitBad"} => w.reader
        /\ w.reader => l.call = "Register" /\ pend[id].st = "none"
        /\ l.call = "ReserveSeat" <=> w.pc = "none"
        /\ w.pc = "none" =>
               scope[id] = "none" /\ pend[id].st = "none" /\ ~HasRecord(id) /\ w.out = <<>>

\* Entries, supervised workers and records against the seat.
EntryHasSeat(id) ==
    /\ pend[id].st # "none" =>
           /\ Owner = id
           /\ \/ adm.phase.tag = "PendingLifecycle"
              \/ pend[id].st = "Quarantined" /\ adm.lifecycle.tag = "Quarantined"
    /\ HasPayload(pend[id]) => HasRecord(id)
ChildHasSeat(id) ==
    Supervised(id) => /\ adm.lifecycle = SeatIs("Active", id) /\ HasRecord(id)
                      /\ kids[id].receipt = Receipt("Active", id, adm.generation)
RecordHasSeat(id) ==
    /\ HasRecord(id) => HasPayload(pend[id]) \/ NoLease(id)
    /\ wrk[id].pc = "acked" \/ scope[id] = "user" => Owner = id /\ HasRecord(id)
    /\ rec[id].state = "vt_disallocate_failed_busy" =>
           adm.lifecycle.id = id /\ (Supervised(id) => kids[id].busy)
    /\ HasRecord(id) /\ Owner # id =>
           /\ scope[id] = "empty" /\ ~Alive(id)
           /\ faults = 0 => rec[id].state = "worker_exited_unexpectedly"

\* Without a fault every call is waited for, and a phase has its lease.
NoFaultYet(id) ==
    faults = 0 =>
        /\ \A c \in {"ReserveSeat", "BeginPending", "Register", "AbortPending"} \cup EntryCalls :
               InBox(id, c) => Waiting(id, c)
        /\ lch[id].pc = "registering" => wrk[id].pc \in {"running", "wantIntent"}
        /\ Owner = id /\ adm.phase.tag # "Free" => ~NoLease(id)
        /\ Owner = id => adm.lifecycle.tag # "Recovering"

LoginInv(id) ==
    /\ LastCall(lch[id]) /\ QueuedCalls(id) /\ Leases(id) /\ EntryFollows(id)
    /\ WorkerReports(id) /\ EntryHasSeat(id) /\ ChildHasSeat(id) /\ RecordHasSeat(id)
    /\ NoFaultYet(id)

IInv ==
    /\ TypeOK /\ AdmissionExclusive /\ CallsAreUnique
    /\ \A id \in LifecycleIds : LoginInv(id)
=============================================================================
