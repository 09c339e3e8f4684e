--------------------------- MODULE PrecommitLogin ---------------------------
(***************************************************************************)
(* A login as the pre-commit store sees it: which call of the launcher and *)
(* of the supervisor creates, updates and removes its record, what an      *)
(* error of the store does to the seat, and in which order the worker, the *)
(* record and the seat are given up.  The lease carries the binding        *)
(* through AdmissionLease, PendingLifecycleLease and LaunchCommitReceipt.  *)
(***************************************************************************)
EXTENDS PrecommitStore

Goto(pc) == login' = [login EXCEPT !.pc = pc]
Idle == login' = [id |-> NoId, pc |-> "idle"]
At(pc) == daemon.pc = "up" /\ login.pc = pc
Kill == worker' = [worker EXCEPT ![login.id] = IF @ = "alive" THEN "dead" ELSE @]

KeepDaemon == UNCHANGED <<open, quar, fenced, daemon, crashes>>
KeepStore == UNCHANGED <<disk, tmp, mem, binding, faults>>

\* recovery_admission_state
Blocked == (open /\ quar) \/ fenced

\* reserve_seat.  When create_reserved fails the lease is dropped and the
\* seat stays reserved.
ReserveSeat(id) ==
    /\ At("idle") /\ id \notin used
    /\ seat = "free" /\ ~Blocked
    /\ seat' = "reserved" /\ used' = used \cup {id}
    /\ LET rec == [seq |-> 0, pid |-> "none", handoff |-> FALSE, boot |-> daemon.boot] IN
       \/ open /\ CommitOk(id, rec) /\ login' = [id |-> id, pc |-> "reserved"]
       \/ open /\ CommitFails(id, rec) /\ Idle
       \/ ~open /\ KeepStore /\ login' = [id |-> id, pc |-> "reserved"]
    /\ UNCHANGED <<ledger, worker, attached>> /\ KeepDaemon

\* WorkerAttempt::spawn
SpawnWorker ==
    /\ At("reserved")
    /\ \/ Goto("spawned") /\ worker' = [worker EXCEPT ![login.id] = "alive"]
       \/ Goto("cancel") /\ UNCHANGED worker
    /\ UNCHANGED <<ledger, seat, used, attached>> /\ KeepStore /\ KeepDaemon

\* update_stage and mark_handoff_committed on the lease's binding.
Updated(change) ==
    [mem[login.id] EXCEPT !.seq = @ + 1, !.pid = IF change = "pid"
        THEN IF worker[login.id] = "alive" THEN "exact" ELSE "partial" ELSE @,
                          !.handoff = @ \/ change = "handoff"]
UpdateOk(change) ==
    \/ ~binding.held /\ KeepStore
    \/ binding.held /\ Authority(login.id) /\ CommitOk(login.id, Updated(change))
UpdateFails(change) == binding.held /\ CommitFails(login.id, Updated(change))

\* attach_backend: worker_attached with the worker's pid.  An error, or a
\* deadline that has passed, drops the worker and then the reservation.
AttachBackend ==
    /\ At("spawned")
    /\ \/ UpdateOk("pid") /\ Goto("attached")
          /\ attached' = IF binding.held THEN attached \cup {login.id} ELSE attached
       \/ UpdateFails("pid") /\ Goto("drop") /\ UNCHANGED attached
    /\ UNCHANGED <<ledger, worker, seat, used>> /\ KeepDaemon

Authentication ==
    /\ At("attached")
    /\ \/ UpdateOk("stage") /\ Goto("inflight")
       \/ UpdateFails("stage") /\ Goto("drop")
       \/ KeepStore /\ Goto("drop")
    /\ UNCHANGED <<ledger, worker, seat, used, attached>> /\ KeepDaemon

\* authenticated and prepare ignore the error, but not the lost binding.
Lenient(from, to) ==
    /\ At(from) /\ Goto(to)
    /\ UpdateOk("stage") \/ UpdateFails("stage")
    /\ UNCHANGED <<ledger, worker, seat, used, attached>> /\ KeepDaemon
Authenticated == Lenient("inflight", "authenticated")
Prepare == Lenient("authenticated", "prepared")

BeginPending ==
    /\ At("prepared") /\ Goto("pending") /\ seat' = "pending"
    /\ UNCHANGED <<ledger, worker, used, attached>> /\ KeepStore /\ KeepDaemon

\* record_prepared_scope: the ledger has a record of its own from here on.
RecordPreparedScope ==
    /\ At("pending") /\ worker[login.id] = "alive"
    /\ Goto("durable") /\ ledger' = ledger \cup {login.id}
    /\ UNCHANGED <<worker, seat, used, attached>> /\ KeepStore /\ KeepDaemon

\* register_running: the worker reported Started and is alive.  An error of
\* the ledger or of the store leaves the seat as it is, and the launcher
\* drops the worker.
Commit ==
    /\ At("durable") /\ worker[login.id] = "alive"
    /\ \/ UpdateOk("handoff") /\ Goto("committed") /\ seat' = "committed"
       \/ UpdateFails("handoff") /\ Goto("failed") /\ seat' = "committed"
       \/ /\ Fault /\ Goto("failed") /\ UNCHANGED seat
          /\ binding' = NoBinding /\ UNCHANGED <<disk, tmp, mem>>
    /\ UNCHANGED <<ledger, worker, used, attached>> /\ KeepDaemon

\* remove_precommit_runtime
RemoveBindingOk ==
    /\ UNCHANGED tmp /\ binding' = NoBinding
    /\ \/ ~binding.held /\ UNCHANGED <<disk, mem, faults>>
       \/ binding.held /\ Authority(login.id) /\ RemoveOk(login.id)
RemoveBindingFails ==
    /\ UNCHANGED tmp /\ binding' = NoBinding
    /\ binding.held /\ RemoveFails(login.id)

\* Mutant: the record of a login that reached its session is not removed.
PromoteKeepsRecord ==
    /\ At("committed")
    /\ Goto("running") /\ seat' = "active" /\ binding' = NoBinding
    /\ UNCHANGED <<disk, tmp, mem, faults>>
    /\ UNCHANGED <<ledger, worker, used, attached>> /\ KeepDaemon

\* promote_committed_to_running
PromoteCommittedToRunning ==
    /\ At("committed")
    /\ \/ RemoveBindingOk /\ Goto("running") /\ seat' = "active"
       \/ RemoveBindingFails /\ Goto("failed") /\ UNCHANGED seat
    /\ UNCHANGED <<ledger, worker, used, attached>> /\ KeepDaemon

\* The drop of WorkerAttempt after an error before and after the pending
\* lifecycle.
DropWorker ==
    /\ \/ At("drop") /\ Goto("cancel")
       \/ At("failed") /\ Idle
    /\ Kill
    /\ UNCHANGED <<ledger, seat, used, attached>> /\ KeepStore /\ KeepDaemon

\* SeatReservationGuard::drop and cancel: the seat is freed only when the
\* record is gone or was never bound.
CancelAdmission ==
    /\ At("cancel") /\ Idle
    /\ \/ RemoveBindingOk /\ seat' = "free"
       \/ RemoveBindingFails /\ UNCHANGED seat
    /\ UNCHANGED <<ledger, worker, used, attached>> /\ KeepDaemon

\* The launch fails and the pending guard runs abort_pending, which first
\* reaps the worker.
AbortPending ==
    /\ daemon.pc = "up" /\ login.pc \in {"pending", "durable"}
    /\ Goto("abort") /\ Kill
    /\ UNCHANGED <<ledger, seat, used, attached>> /\ KeepStore /\ KeepDaemon

\* A clean exit resolves the ledger record and cancels; a recovery drops the
\* lease, so the pre-commit record stays, and frees or quarantines the seat,
\* or leaves it recovering when the ledger record cannot be resolved.
FinishAbort ==
    /\ At("abort") /\ Idle
    /\ \/ /\ ledger' \in {ledger, ledger \ {login.id}}
          /\ \/ RemoveBindingOk /\ seat' = "free"
             \/ RemoveBindingFails /\ UNCHANGED seat
       \/ /\ ledger' = ledger \ {login.id} /\ seat' = "free"
          /\ binding' = NoBinding /\ UNCHANGED <<disk, tmp, mem, faults>>
       \/ /\ seat' \in {"quarantined", "recovering"} /\ UNCHANGED ledger
          /\ binding' = NoBinding /\ UNCHANGED <<disk, tmp, mem, faults>>
    /\ UNCHANGED <<worker, used, attached>> /\ KeepDaemon

\* finish_exited_worker: a clean exit resolves the record first, a recovered
\* one frees the seat and leaves the record.
SessionEnds ==
    /\ At("running") /\ worker[login.id] # "alive" /\ Idle
    /\ \/ ledger' = ledger \ {login.id} /\ seat' = "free"
       \/ seat' \in {"free", "quarantined"} /\ UNCHANGED ledger
    /\ UNCHANGED <<worker, used, attached>> /\ KeepStore /\ KeepDaemon

\* A worker dies; its number is given to another process only once it has
\* been reaped.
WorkerDies(id) ==
    /\ worker[id] = "alive"
    /\ worker' = [worker EXCEPT ![id] = "dead"]
    /\ UNCHANGED <<ledger, login, seat, used, attached>> /\ KeepStore /\ KeepDaemon
PidIsReused(id) ==
    /\ worker[id] = "dead" /\ login.id # id
    /\ worker' = [worker EXCEPT ![id] = "reused"]
    /\ UNCHANGED <<ledger, login, seat, used, attached>> /\ KeepStore /\ KeepDaemon

LoginStep ==
    \/ SpawnWorker \/ AttachBackend \/ Authentication \/ Authenticated
    \/ Prepare \/ BeginPending \/ RecordPreparedScope \/ Commit
    \/ PromoteCommittedToRunning \/ DropWorker \/ CancelAdmission
    \/ AbortPending \/ FinishAbort \/ SessionEnds
    \/ \E id \in Ids : ReserveSeat(id)
=============================================================================
