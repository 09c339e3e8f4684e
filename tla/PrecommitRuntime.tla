-------------------------- MODULE PrecommitRuntime --------------------------
(***************************************************************************)
(* Logins, the pre-commit store and the daemons that follow each other.    *)
(* The questions are whether a worker can get lost between the store and   *)
(* the recovery ledger, and whether a login can be admitted next to a      *)
(* worker that an earlier daemon left.                                     *)
(***************************************************************************)
EXTENDS PrecommitLogin

Init ==
    /\ disk = [id \in Ids |-> NoRecord] /\ mem = [id \in Ids |-> NoRecord]
    /\ tmp = {} /\ open = FALSE /\ quar = FALSE /\ fenced = FALSE /\ binding = NoBinding
    /\ daemon = [pc |-> "down", boot |-> 0, todo |-> {}, target |-> NoId]
    /\ ledger = {} /\ used = {} /\ attached = {}
    /\ worker = [id \in Ids |-> "none"]
    /\ login = [id |-> NoId, pc |-> "idle"] /\ seat = "free"
    /\ faults = 0 /\ crashes = 0

HostStep ==
    \/ DaemonCrashes \/ Reboots
    \/ \E id \in Ids : WorkerDies(id) \/ PidIsReused(id)

Next == StartupStep \/ LoginStep \/ HostStep
Spec == Init /\ [][Next]_vars

\* A daemon that starts completes its start.
FairSpec == Spec /\ WF_vars(StartupStep)

-----------------------------------------------------------------------------
\* A worker that was attached can always be found by the next daemon while it
\* lives: its pid is in a record of the store or the recovery ledger has its
\* lifecycle.  The hand-over from the one to the other, the errors of each
\* write and every order of crashes are covered (register_running persists
\* "started" before promote_committed_to_running removes the record).
WorkerAlwaysFindable ==
    \A id \in attached : worker[id] = "alive" => disk[id].pid \in {"exact", "partial"} \/ id \in ledger

\* While the store is open, a login is past its reservation next to a worker
\* that another login attached and that still lives only if the recovery
\* ledger has that worker's session: reconcile_startup has killed every other
\* one or has closed admission, and a launch that fails reaps its worker
\* before it gives the seat back.  A session in the ledger is not in the way:
\* a start that quarantines its record opens the seat all the same.
NoLoginBesideLiveWorker ==
    daemon.pc = "up" /\ open /\ login.pc # "idle" =>
        \A id \in attached \ {login.id} : worker[id] = "alive" => id \in ledger

\* A binding that a lease still holds is the current authority over its
\* record, in memory and on disk, and no temporary file of a failed write is
\* in its way: ensure_current_authority and the exclusive creation of the
\* temporary file refuse none of the daemon's own updates and removals.
BindingIsCurrent ==
    binding.held => Authority(login.id) /\ login.id \notin tmp

\* The record of a session that runs is gone, so that a later start does not
\* act on it; only an update that failed (authenticated and prepare go on
\* without the binding) leaves one, and then the recovery ledger has the
\* session too.
RunningSessionHandedOver ==
    login.pc = "running" /\ Exists(disk[login.id]) => faults > 0 /\ login.id \in ledger

\* A start ends, whatever the store and the workers look like: it never
\* waits for a worker (kill_exact_pid gives up).
StartupEnds == (daemon.pc \in {"reconcile", "ledger"}) ~> (daemon.pc \in {"up", "down"})
-----------------------------------------------------------------------------
(* The inductive invariant.                                                *)

\* A login is worked on by a daemon that is up; its id was given out, and its
\* worker is recorded from attach_backend on.
LoginById ==
    /\ login.pc = "idle" <=> login.id = NoId
    /\ login.pc # "idle" => daemon.pc = "up" /\ login.id \in used
    /\ login.pc \in {"reserved", "spawned"} => login.id \notin attached
    /\ login.pc \in {"durable", "committed", "running"} => login.id \in ledger
    /\ login.pc \in {"reserved", "cancel", "abort"} => worker[login.id] # "alive"

\* How often the record of a login was updated when its binding is held.
UpdatesBy(pc) ==
    CASE pc = "attached" -> 1 [] pc = "inflight" -> 2 [] pc = "authenticated" -> 3
      [] pc \in {"prepared", "pending", "durable"} -> 4 [] pc = "committed" -> 5 [] OTHER -> 0

\* The binding belongs to the login that is worked on: its record is the same
\* in memory and on disk, it is this boot's, and it has the worker's pid once
\* the worker is attached.
BindingFollowsLogin ==
    binding.held =>
        /\ login.pc \notin {"idle", "failed", "running"} /\ login.id \notin tmp
        /\ mem[login.id] = disk[login.id] /\ Exists(disk[login.id])
        /\ disk[login.id].seq = binding.seq /\ disk[login.id].boot = daemon.boot
        /\ login.id \in attached => disk[login.id].pid # "none"
        /\ login.pc \notin {"drop", "cancel", "abort"} => binding.seq = UpdatesBy(login.pc)

\* Only an error separates a login from its record.
LostBindingIsAFault ==
    login.pc # "idle" /\ ~binding.held /\ Exists(disk[login.id]) => faults > 0

\* Ids are given out once, and what the store knows of a worker that lives
\* was written in this boot.
RecordsById ==
    /\ attached \cup tmp \subseteq used
    /\ \A id \in Ids : Exists(disk[id]) \/ worker[id] = "alive" => id \in used
    /\ \A id \in Ids : (worker[id] = "alive" \/ id = login.id) /\ Exists(disk[id]) =>
           disk[id].boot = daemon.boot

\* reconcile_startup works on what open loaded, and then on the ledger.
ReconcileList ==
    /\ daemon.todo # {} => daemon.pc \in {"reconcile", "ledger"}
    /\ daemon.target # NoId => daemon.pc = "reconcile" /\ daemon.target \in daemon.todo
    /\ daemon.pc = "reconcile" =>
           \A id \in daemon.todo : mem[id] = disk[id] /\ Exists(disk[id])
    /\ daemon.pc = "ledger" => daemon.todo \subseteq ledger

\* Which of the workers that were attached may live: the ones still to be
\* reconciled, the ones the recovery ledger has, and the one of the login that
\* is worked on, unless the store is closed or startup is quarantined.
SurvivorsAreKnown ==
    /\ daemon.pc # "down" /\ open /\ ~quar =>
           \A id \in attached : worker[id] = "alive" =>
               id \in daemon.todo \cup ledger \cup {login.id}
    /\ daemon.pc = "up" /\ open /\ quar => login.pc = "idle"
    /\ daemon.pc = "reconcile" => open

IInv ==
    /\ TypeOK /\ LoginById /\ BindingFollowsLogin /\ LostBindingIsAFault
    /\ RecordsById /\ ReconcileList /\ SurvivorsAreKnown
    /\ WorkerAlwaysFindable /\ NoLoginBesideLiveWorker
=============================================================================
