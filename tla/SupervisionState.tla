-------------------------- MODULE SupervisionState --------------------------
(***************************************************************************)
(* What the supervisor thread, the launcher threads and the session        *)
(* workers share: the supervisor's tables, its message queue, the durable  *)
(* recovery records, the workers' pipes and the payload scopes.  One login *)
(* is one lifecycle identifier (launch_completion.rs draws a fresh worker  *)
(* id for every login), so launchers, workers, entries, records and scopes *)
(* are functions on LifecycleIds.                                          *)
(***************************************************************************)
EXTENDS AdmissionController, Sequences, FiniteSets

CONSTANT MaxFaults   \* store failures, expired waits, crashes in a behaviour

ASSUME MaxFaultsAssumption == MaxFaults \in Nat

\* NoId also stands for the None of an optional lease or receipt.
ASSUME NoTokenAssumption == NoId \notin Tokens

VARIABLES adm,      \* the seat admission controller
          pend,     \* pending: the worker lifecycles before Started
          kids,     \* children: the supervised running workers
          rec,      \* the durable recovery record of each lifecycle
          loop,     \* where the supervisor thread is
          mbox,     \* its channel, oldest message first
          lch,      \* the launcher threads
          wrk,      \* the worker processes
          scope,    \* what lives in each payload scope
          faults    \* faults so far

vars == <<adm, pend, kids, rec, loop, mbox, lch, wrk, scope, faults>>

-----------------------------------------------------------------------------
\* PendingWorkerLifecycle.  "Quarantined" is also what
\* take_state_for_transition leaves behind when a later step fails.
PendingStates == {"none", "WorkerSpawned", "PayloadPrepared",
                  "PayloadRegistered", "PayloadReleased", "Quarantined"}
Entries == [st : PendingStates, gen : Nat, terminal : BOOLEAN,
            release : {"NotRequested", "Requested", "RecoveryRequired"}]
NoEntry == [st |-> "none", gen |-> 0, terminal |-> FALSE, release |-> "NotRequested"]
HasPayload(e) == e.st \in {"PayloadPrepared", "PayloadRegistered", "PayloadReleased"}

\* SupervisedWorker
Kids == [receipt : Tokens \union {NoId}, busy : BOOLEAN]
NoKid == [receipt |-> NoId, busy |-> FALSE]
Supervised(id) == kids[id].receipt # NoId

\* PersistentRecoveryRecord: its state and its vt_disallocate operation.
RecordStates == {"none", "payload_prepared", "payload_registered",
                 "payload_boundary_proven_empty", "started",
                 "worker_exited_unexpectedly", "emergency_recovery_started",
                 "vt_disallocate_failed_busy", "record_resolved"}
VtStates == {"NotStarted", "IntentPersisted", "Confirmed", "Failed"}
Records == [state : RecordStates, vt : VtStates]
NoRecord == [state |-> "none", vt |-> "NotStarted"]
HasRecord(id) == rec[id].state # "none"

\* WorkerSupervisorMessage.  flag is expected_clean, the verdict of the
\* release verification, or the busy result; gen is the release token's.
Calls == {"ReserveSeat", "CancelAdmission", "BeginPending", "RecordPreparedScope",
          "MarkPayloadRegistered", "BeginRelease", "CompleteRelease", "Register",
          "AbortPending", "TerminalVtIntent", "TerminalVtResult"}
Messages == [call : Calls, id : LifecycleIds, lease : Tokens \union {NoId},
             flag : BOOLEAN, gen : Nat]
Msg(call, id, lease, flag, gen) ==
    [call |-> call, id |-> id, lease |-> lease, flag |-> flag, gen |-> gen]

\* A launcher: where it is, the call it waits for or just returned from, the
\* outcome of that call, the lease or the release token it holds, and
\* whether the worker registered its scope (PendingLaunchPhase).
LauncherPcs == {"idle", "calling", "replied", "reserved", "reading", "prompting", "verifying",
                "joining", "waitExit", "registering", "started", "failed"}
Launchers == [pc : LauncherPcs, call : Calls, ok : BOOLEAN,
              lease : Tokens \union {NoId}, gen : Nat, registered : BOOLEAN]
IdleLauncher == [pc |-> "idle", call |-> "ReserveSeat", ok |-> FALSE,
                 lease |-> NoId, gen |-> 0, registered |-> FALSE]
AtRest(id) == lch[id].pc \in {"idle", "started", "failed"}

\* A worker: its pc, the responses the launcher has not read yet, and
\* whether the supervisor reads its control channel.
DeadPcs == {"none", "exitOk", "exitBad"}
WorkerPcs == DeadPcs \union {"preparing", "asking", "scopeSent", "acked", "executed",
                "releasing", "releasingAnyway", "stuck", "responding", "running",
                "wantIntent", "vtIntent", "vtRelease", "vtResult", "closing"}
Responses == {"PamPrompt", "ScopePrepared", "ReleaseReady", "Started", "Response"}
Workers == [pc : WorkerPcs, out : Seq(Responses), reader : BOOLEAN]
NoWorker == [pc |-> "none", out |-> <<>>, reader |-> FALSE]
Alive(id) == wrk[id].pc \notin DeadPcs
Killed(w) == IF w.pc \in DeadPcs THEN w ELSE [w EXCEPT !.pc = "exitBad"]

\* A payload scope holds nothing, the blocked session child, or the user's
\* processes; "empty" is a scope that existed and has no process left.
ScopeStates == {"none", "held", "user", "empty"}

-----------------------------------------------------------------------------
\* n faults happen in this step.
Spend(n) == faults + n <= MaxFaults /\ faults' = faults + n
Cost(ok) == IF ok THEN 0 ELSE 1

\* A send on the channel, and a call that waits for the reply.
Send(m) == mbox' = Append(mbox, m)
Call(id, m, lease) ==
    /\ Send(m)
    /\ lch' = [lch EXCEPT ![id].pc = "calling", ![id].call = m.call, ![id].lease = lease]

\* The reply of a call.  A launcher whose recv_timeout expired is no longer
\* waiting for it: the reply, and the lease inside, are dropped.
Waiting(id, call) == lch[id].pc = "calling" /\ lch[id].call = call
Reply(id, call, ok, lease, gen) ==
    lch' = IF Waiting(id, call)
           THEN [lch EXCEPT ![id] = [@ EXCEPT !.pc = "replied", !.ok = ok,
                                              !.lease = lease, !.gen = gen]]
           ELSE lch
ReplyOk(id, call) == Reply(id, call, TRUE, lch[id].lease, lch[id].gen)
ReplyErr(id, call) == Reply(id, call, FALSE, lch[id].lease, lch[id].gen)
=============================================================================
