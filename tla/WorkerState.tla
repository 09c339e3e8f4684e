----------------------------- MODULE WorkerState -----------------------------
(***************************************************************************)
(* The state of one session worker seen from inside                        *)
(* (niralis-session-worker): the worker's own control state and the        *)
(* resources it owns, the session leader it spawned, and the transient     *)
(* systemd scope the leader is moved into.                                 *)
(***************************************************************************)
EXTENDS Naturals, Sequences

CONSTANT MaxFaults          \* injected failures per behaviour

ASSUME MaxFaultsIsNat == MaxFaults \in Nat

VARIABLES
    leader,     \* the worker's direct child: probe, then session leader
    others,     \* other processes of the session are alive
    unit,       \* the scope unit as systemd shows it
    cgroup,     \* its cgroup directory
    pinned,     \* the worker holds a reference on the unit
    wake,       \* cgroup.events changed since the observer read it
    pipe,       \* the exec status pipe: a failure, or why it ended
    w,          \* the worker: where it is and what it remembers
    pam, vt,    \* the PAM transaction and the virtual terminal it owns
    sup,        \* the supervisor's end of the private channel
    sig,        \* a termination signal is pending in the signalfd
    conn,       \* a connection waits on the control socket
    timer,      \* the grace or forced-cleanup timer
    out,        \* the worker's last final response
    faults

ScopeVars == <<leader, others, unit, cgroup, wake, pipe>>
InputVars == <<sup, sig, conn>>
OwnedVars == <<pam, vt, pinned>>
vars == <<leader, others, unit, cgroup, pinned, wake, pipe, w, pam, vt,
          sup, sig, conn, timer, out, faults>>

\* The child drops root, becomes the probe, and the probe the session leader.
Probes == {"root", "dropped", "probe", "ready", "committed"}
Leaders == Probes \cup {"none", "user", "dying", "zombie", "reaped"}
Units == {"none", "running", "dead", "failed", "missing", "replaced"}
Sources == {"leader", "observer", "signal", "sup", "conn", "timer"}
Causes == {"none", "leader", "signal", "sup", "conn"}
Failures == {"Rejected", "AuthenticationFailed", "SessionFailed"}

LaunchPcs == {"request", "validate", "allocate", "authenticate", "asking", "identify",
              "open", "environment", "prepareChild", "spawn", "awaitReady", "checkReady", "startScope",
              "checkScope", "pinScope", "register", "awaitAck", "commit",
              "awaitExec", "verify", "report"}
UndoPcs == {"undoAbort", "undoCleanup", "undoStop", "askRelease",
            "abort", "dropPam", "respond", "dropVt"}
GracefulPcs == {"poll", "observe", "ask", "settle", "begin", "sigterm"}
CheckPcs == {"members", "identity", "prove1", "prove2", "prove3"}
ForcedPcs == {"force", "fObserver", "sigkill", "fConfirm", "fTry", "fPoll",
              "fObserve", "fSettle", "fExpired"}
FinalPcs == {"unpin", "closePam", "intent", "releaseVt", "result", "localVt"}
Pcs == LaunchPcs \cup UndoPcs \cup GracefulPcs \cup CheckPcs \cup ForcedPcs
       \cup FinalPcs \cup {"retained", "exited", "crashed"}

\* Where a shared step returns to, or which kind of undoing goes on.
Rets == Pcs \cup {"none", "graceful", "strict", "loose", "mute"}
Codes == Failures \cup {"none"}

Workers == [pc : Pcs, ret : Rets, code : Codes, ready : SUBSET Sources,
            cause : Causes, exit : BOOLEAN, seen : {"none", "present", "missing"},
            acked : BOOLEAN, termed : BOOLEAN, killed : BOOLEAN, intent : BOOLEAN]

NewWorker == [pc |-> "request", ret |-> "none", code |-> "none", ready |-> {},
              cause |-> "none", exit |-> FALSE, seen |-> "none", acked |-> FALSE, termed |-> FALSE,
              killed |-> FALSE, intent |-> FALSE]

TypeOK ==
    /\ leader \in Leaders /\ others \in BOOLEAN
    /\ unit \in Units /\ cgroup \in {"none", "present", "gone"}
    /\ pinned \in BOOLEAN /\ wake \in BOOLEAN
    /\ pipe \in {"none", "open", "failure", "exec", "closed"}
    /\ w \in Workers
    /\ pam \in {"none", "authenticated", "open", "closed"}
    /\ vt \in {"none", "held", "released", "leaked"}
    /\ sup \in {"open", "closed"} /\ sig \in BOOLEAN
    /\ conn \in {"none", "terminate", "foreign", "bad"}
    /\ timer \in {"off", "armed", "expired"}
    /\ out \in {"none", "Started"} \cup Failures
    /\ faults \in 0 .. MaxFaults

Running == w.pc \notin {"exited", "crashed"}
Spend == faults < MaxFaults /\ faults' = faults + 1

\* What a cycle polled matters only until the cycle ends.
Cycles == {"observe", "ask", "settle", "fTry", "fObserve", "fSettle", "prove1",
           "prove2", "prove3"}
Kept(pc) == IF pc \in Cycles THEN w.ready ELSE {}
Goto(pc) == w' = [w EXCEPT !.pc = pc, !.ready = Kept(pc)]
Call(pc, ret) == w' = [w EXCEPT !.pc = pc, !.ret = ret, !.ready = Kept(pc)]
=============================================================================
