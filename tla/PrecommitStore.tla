--------------------------- MODULE PrecommitStore ---------------------------
(***************************************************************************)
(* PreCommitRuntimeStore (launcher/precommit_runtime): one file for each   *)
(* login that has not reached its session yet, so that a daemon that       *)
(* starts again finds the worker its predecessor left behind.  A record is *)
(* written to a temporary file, renamed over the old one and inserted in   *)
(* memory last; a caller holds a binding, which an update consumes and     *)
(* returns only when every step succeeded.                                 *)
(***************************************************************************)
EXTENDS Naturals

CONSTANTS
    Ids,          \* lifecycle ids, one for each login
    NoId,         \* no login
    MaxFaults,    \* bound: input/output errors
    MaxCrashes    \* bound: deaths of the daemon

ASSUME StoreBounds == MaxFaults \in Nat /\ MaxCrashes \in Nat /\ NoId \notin Ids

VARIABLES
    disk,      \* the .json files
    tmp,       \* ids whose temporary file was left behind
    mem,       \* PreCommitRuntimeStore::records
    open,      \* this daemon opened the store
    quar,      \* startup_quarantined and startup_quarantined_seats
    fenced,    \* the recovery ledger's startup quarantine of the seat
    binding,   \* [held, seq]: the binding in the lease of the current login
    daemon,    \* [pc, boot, todo, target]
    ledger,    \* ids with a record in the recovery ledger
    worker,    \* the process a login started
    login,     \* [id, pc] of the login the launcher is working on
    seat,      \* the admission phase and the seat lifecycle
    used,      \* ids that were given out
    attached,  \* ids whose worker was recorded by worker_attached
    faults, crashes

StoreVars == <<disk, tmp, mem, binding>>
LoginVars == <<ledger, worker, login, seat, used, attached>>
Bounds == <<faults, crashes>>
vars == <<disk, tmp, mem, open, quar, fenced, binding, daemon, ledger, worker,
          login, seat, used, attached, faults, crashes>>

NoRecord == [seq |-> 0, pid |-> "absent", handoff |-> FALSE, boot |-> 0]

\* worker_pid with its start time and executable ("exact"), without one of
\* them ("partial"), or no pid.
Pids == {"none", "partial", "exact"}
Records == [seq : 0..5, pid : Pids \cup {"absent"}, handoff : BOOLEAN, boot : 0..MaxCrashes]

NoBinding == [held |-> FALSE, seq |-> 0]

WorkerStates == {"none", "alive", "dead", "reused"}
DaemonPcs == {"up", "down", "reconcile", "ledger"}
PreCommitPcs == {"reserved", "spawned", "attached", "inflight", "authenticated", "prepared"}
LoginPcs == PreCommitPcs \cup
    {"idle", "pending", "durable", "committed", "running", "drop", "cancel", "failed", "abort", "ended"}
SeatStates == {"free", "reserved", "pending", "committed", "active", "recovering", "quarantined"}

TypeOK ==
    /\ disk \in [Ids -> Records] /\ mem \in [Ids -> Records]
    /\ tmp \subseteq Ids /\ open \in BOOLEAN /\ quar \in BOOLEAN /\ fenced \in BOOLEAN
    /\ binding \in [held : BOOLEAN, seq : 0..5]
    /\ daemon \in [pc : DaemonPcs, boot : 0..MaxCrashes, todo : SUBSET Ids, target : Ids \cup {NoId}]
    /\ ledger \subseteq Ids /\ used \subseteq Ids /\ attached \subseteq Ids
    /\ worker \in [Ids -> WorkerStates]
    /\ login \in [id : Ids \cup {NoId}, pc : LoginPcs] /\ seat \in SeatStates
    /\ faults \in 0..MaxFaults /\ crashes \in 0..MaxCrashes

Exists(rec) == rec.pid # "absent"
Fault == faults < MaxFaults /\ faults' = faults + 1

\* commit, then binding_for
CommitOk(id, rec) ==
    /\ id \notin tmp
    /\ disk' = [disk EXCEPT ![id] = rec]
    /\ mem' = [mem EXCEPT ![id] = rec]
    /\ binding' = [held |-> TRUE, seq |-> rec.seq]
    /\ UNCHANGED <<tmp, faults>>

\* Mutant: the caller keeps its binding when the commit fails.
CommitFailsBindingKept(id, rec) ==
    /\ UNCHANGED binding /\ Fault
    /\ \/ UNCHANGED <<disk, mem>> /\ tmp' \in {tmp, tmp \cup {id}}
       \/ /\ disk' = [disk EXCEPT ![id] = rec]
          /\ UNCHANGED <<mem, tmp>>

\* An error of commit or of binding_for: the temporary file cannot be created
\* or written, the directory cannot be synced after the rename, or the new
\* file cannot be examined.  The caller's binding is gone.
CommitFails(id, rec) ==
    /\ binding' = NoBinding /\ Fault
    /\ \/ UNCHANGED <<disk, mem>> /\ tmp' \in {tmp, tmp \cup {id}}
       \/ /\ disk' = [disk EXCEPT ![id] = rec]
          /\ mem' \in {mem, [mem EXCEPT ![id] = rec]}
          /\ UNCHANGED tmp

\* ensure_current_authority
Authority(id) ==
    /\ Exists(mem[id]) /\ mem[id].seq = binding.seq /\ mem[id].boot = daemon.boot
    /\ disk[id].seq = binding.seq

\* remove and remove_record_by_id
RemoveOk(id) ==
    /\ Exists(disk[id])
    /\ disk' = [disk EXCEPT ![id] = NoRecord]
    /\ mem' = [mem EXCEPT ![id] = NoRecord]
    /\ UNCHANGED faults

RemoveFails(id) ==
    /\ Fault
    /\ disk' \in {disk, [disk EXCEPT ![id] = NoRecord]}
    /\ UNCHANGED mem

-----------------------------------------------------------------------------
(* Start of a daemon: open_precommit_store and reconcile_startup.          *)

KeepLogin == UNCHANGED <<tmp, binding, ledger, login, seat, used, attached, crashes>>
KeepAll == KeepLogin /\ UNCHANGED fenced

\* classify_recovery_record_set, when the ledger is opened: two records of the
\* seat block it.
Conflict == \E id \in ledger : ledger # {id}

\* reconcile_startup is over, and the ledger's records come next.
ToLedger == daemon' = [daemon EXCEPT !.pc = "ledger", !.todo = ledger]

\* open: the ledger, then the records of the store are loaded.  When that
\* fails the daemon runs without the store.  An unreadable boot id quarantines
\* every seat.  A ledger that cannot be relied on, or a scope that has no
\* record, fences the seat too.
OpenStore ==
    /\ daemon.pc = "down" /\ fenced' \in {Conflict, TRUE}
    /\ \/ /\ open' = TRUE /\ mem' = disk /\ quar' = FALSE
          /\ daemon' = [daemon EXCEPT !.pc = "reconcile", !.todo = {id \in Ids : Exists(disk[id])}]
          /\ UNCHANGED faults
       \/ open' = TRUE /\ mem' = disk /\ quar' = TRUE /\ Fault /\ ToLedger
       \/ /\ open' = FALSE /\ mem' = [id \in Ids |-> NoRecord] /\ quar' = FALSE
          /\ Fault /\ ToLedger
    /\ UNCHANGED <<disk, worker>> /\ KeepLogin

Handled(id) == daemon' = [daemon EXCEPT !.todo = @ \ {id}, !.target = NoId]

\* clear_or_quarantine
ClearOrQuarantine(id) ==
    /\ Handled(id)
    /\ \/ RemoveOk(id) /\ UNCHANGED quar
       \/ RemoveFails(id) /\ quar' = TRUE

Quarantine(id) == Handled(id) /\ quar' = TRUE /\ UNCHANGED <<disk, mem, faults>>

\* What inspect_worker_identity answers.
Identity(id) ==
    IF mem[id].pid = "none" THEN "Absent"
    ELSE IF mem[id].pid = "partial" THEN "Indeterminate"
    ELSE IF worker[id] = "dead" THEN "Absent"
    ELSE IF worker[id] = "alive" THEN "Exact" ELSE "Indeterminate"

\* Mutant: a record is cleared whatever the identity of its worker.
ReconcileClearsAll(id) ==
    /\ daemon.pc = "reconcile" /\ id \in daemon.todo /\ daemon.target = NoId
    /\ ClearOrQuarantine(id)
    /\ UNCHANGED <<open, worker>> /\ KeepAll

\* One record of reconcile_startup, up to the kill of its worker.
Reconcile(id) ==
    /\ daemon.pc = "reconcile" /\ id \in daemon.todo /\ daemon.target = NoId
    /\ LET handedOff == mem[id].handoff /\ id \in ledger
           settled == mem[id].boot # daemon.boot \/ handedOff IN
       \/ settled /\ ClearOrQuarantine(id)
       \/ ~settled /\ Identity(id) = "Absent" /\ ClearOrQuarantine(id)
       \/ ~settled /\ Identity(id) = "Indeterminate" /\ Quarantine(id)
       \/ /\ ~settled /\ Identity(id) = "Exact"
          /\ daemon' = [daemon EXCEPT !.target = id]
          /\ UNCHANGED <<disk, mem, quar, faults>>
    /\ UNCHANGED <<open, worker>> /\ KeepAll

\* Mutant: admission stays open although the worker survived the signal.
KillExactPidUnfenced(id) ==
    /\ daemon.pc = "reconcile" /\ daemon.target = id
    /\ LET killed == [worker EXCEPT ![id] = IF @ = "alive" THEN "dead" ELSE @] IN
       \/ worker' = killed /\ ClearOrQuarantine(id)
       \/ worker' \in {worker, killed} /\ Handled(id) /\ UNCHANGED <<disk, mem, quar, faults>>
    /\ UNCHANGED open /\ KeepAll

\* kill_exact_pid sends the signal by number and watches for a while; the
\* answer may be an error whether or not the worker is gone.
KillExactPid(id) ==
    /\ daemon.pc = "reconcile" /\ daemon.target = id
    /\ LET killed == [worker EXCEPT ![id] = IF @ = "alive" THEN "dead" ELSE @] IN
       \/ worker' = killed /\ ClearOrQuarantine(id)
       \/ worker' \in {worker, killed} /\ Quarantine(id)
    /\ UNCHANGED open /\ KeepAll

\* Mutant: the start waits until every worker of a record is gone.
ReconcileWaits ==
    /\ daemon.pc = "reconcile" /\ daemon.todo = {}
    /\ \A id \in Ids : worker[id] # "alive"
    /\ ToLedger
    /\ UNCHANGED <<disk, mem, open, quar, worker, faults>> /\ KeepAll

ReconcileEnds ==
    /\ daemon.pc = "reconcile" /\ daemon.todo = {}
    /\ ToLedger
    /\ UNCHANGED <<disk, mem, open, quar, worker, faults>> /\ KeepAll

\* One record of StartupRecoveryCoordinator::reconcile.  It leaves the ledger
\* once its worker is known to be gone.  Otherwise it is kept, quarantined:
\* one of an earlier boot, or one that could not be written, fences the seat,
\* and one of this boot does not.
RecoverLedger(id) ==
    /\ daemon.pc = "ledger" /\ id \in daemon.todo
    /\ Handled(id)
    /\ LET killed == [worker EXCEPT ![id] = IF @ = "alive" THEN "dead" ELSE @] IN
       \/ worker' = killed /\ ledger' = ledger \ {id} /\ UNCHANGED fenced
       \/ worker' \in {worker, killed} /\ fenced' \in {fenced, TRUE} /\ UNCHANGED ledger
    /\ UNCHANGED <<disk, tmp, mem, open, quar, binding, login, seat, used, attached>>
    /\ UNCHANGED Bounds

\* SupervisorLoopState::new
DaemonReady ==
    /\ daemon.pc = "ledger" /\ daemon.todo = {}
    /\ daemon' = [daemon EXCEPT !.pc = "up"]
    /\ login' = [id |-> NoId, pc |-> "idle"] /\ binding' = NoBinding
    /\ seat' = IF fenced THEN "quarantined" ELSE "free"
    /\ UNCHANGED <<disk, tmp, mem, open, quar, fenced, ledger, worker, used, attached>>
    /\ UNCHANGED Bounds

\* The daemon dies; the kernel drops the lock on the store.
DaemonCrashes ==
    /\ daemon.pc # "down" /\ crashes < MaxCrashes /\ crashes' = crashes + 1
    /\ daemon' = [daemon EXCEPT !.pc = "down", !.todo = {}, !.target = NoId]
    /\ login' = [id |-> NoId, pc |-> "idle"] /\ seat' = "free" /\ binding' = NoBinding
    /\ open' = FALSE /\ quar' = FALSE /\ fenced' = FALSE /\ mem' = [id \in Ids |-> NoRecord]
    /\ UNCHANGED <<disk, tmp, ledger, worker, used, attached, faults>>

\* The machine restarts; the directory may survive it.
Reboots ==
    /\ daemon.pc = "down" /\ daemon.boot < crashes
    /\ daemon' = [daemon EXCEPT !.boot = @ + 1]
    /\ worker' = [id \in Ids |-> IF worker[id] = "none" THEN "none" ELSE "dead"]
    /\ \/ UNCHANGED <<disk, tmp>>
       \/ disk' = [id \in Ids |-> NoRecord] /\ tmp' = {}
    /\ UNCHANGED <<mem, open, quar, fenced, binding, ledger, login, seat, used, attached>>
    /\ UNCHANGED Bounds

StartupStep ==
    \/ OpenStore \/ ReconcileEnds \/ DaemonReady
    \/ \E id \in Ids : Reconcile(id) \/ KillExactPid(id) \/ RecoverLedger(id)
=============================================================================
