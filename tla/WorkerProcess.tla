---------------------------- MODULE WorkerProcess ----------------------------
(***************************************************************************)
(* One session worker from its request to its exit, with the processes it  *)
(* starts, systemd, and the inputs that reach it.                          *)
(***************************************************************************)
EXTENDS SessionLaunch, SessionTermination

Init ==
    /\ leader = "none" /\ others = FALSE /\ unit = "none" /\ cgroup = "none"
    /\ pinned = FALSE /\ wake = FALSE /\ pipe = "none"
    /\ w = NewWorker
    /\ pam = "none" /\ vt = "none"
    /\ sup = "open" /\ sig = FALSE /\ conn = "none" /\ timer = "off"
    /\ out = "none" /\ faults = 0

KeepWorker == UNCHANGED ScopeVars /\ UNCHANGED OwnedVars /\ UNCHANGED <<w, out>>

-----------------------------------------------------------------------------
(* Inputs.                                                                 *)
SignalArrives ==
    /\ Running /\ ~sig
    /\ sig' = TRUE
    /\ UNCHANGED <<sup, conn, timer, faults>> /\ KeepWorker

TerminateArrives ==
    /\ out = "Started" /\ Running /\ conn = "none"
    /\ conn' = "terminate"
    /\ UNCHANGED <<sup, sig, timer, faults>> /\ KeepWorker

\* A connection of another user, or a request that does not match.
OddConnection ==
    /\ out = "Started" /\ Running /\ conn = "none"
    /\ Spend
    /\ conn' \in {"foreign", "bad"}
    /\ UNCHANGED <<sup, sig, timer>> /\ KeepWorker

SupervisorLeaves ==
    /\ Running /\ sup = "open"
    /\ Spend
    /\ sup' = "closed"
    /\ UNCHANGED <<sig, conn, timer>> /\ KeepWorker

TimerExpires ==
    /\ timer = "armed"
    /\ timer' = "expired"
    /\ UNCHANGED <<sup, sig, conn, faults>> /\ KeepWorker

\* The kernel closes what the worker held: the reference is dropped, the PAM
\* session is never closed and the VT stays allocated.
WorkerCrashes ==
    /\ Running
    /\ Spend
    /\ Goto("crashed")
    /\ pinned' = FALSE
    /\ vt' = IF vt = "held" THEN "leaked" ELSE vt
    /\ timer' = "off"
    /\ UNCHANGED <<pam, sup, sig, conn, out>> /\ UNCHANGED ScopeVars

-----------------------------------------------------------------------------
WorkerStep == LaunchNext \/ TerminationNext
ScopeStep == LeaderDies \/ LeaderBecomesZombie \/ SessionForks \/ OthersExit
             \/ ChildDropsPrivileges \/ ChildExecsProbe \/ ProbeReady
             \/ ProbeExecs \/ ProbeExecFails \/ SystemdCollects
InputStep == SignalArrives \/ TerminateArrives \/ TimerExpires
FaultStep == SystemdFails \/ BusFails \/ OddConnection \/ SupervisorLeaves
             \/ WorkerCrashes

Next == WorkerStep \/ ScopeStep \/ InputStep \/ FaultStep

Spec == Init /\ [][Next]_vars

\* The worker runs whenever it can, but what PAM does before the session is
\* open, the user's answers included, takes the time it takes; a dying process
\* ends, an armed timer expires, and systemd notices an empty cgroup.
InPam == w.pc \in {"authenticate", "asking", "open"}

Fairness ==
    /\ WF_vars(~InPam /\ WorkerStep) /\ WF_vars(TimerExpires)
    /\ WF_vars(LeaderBecomesZombie) /\ WF_vars(SystemdCollects)

FairSpec == Spec /\ Fairness

-----------------------------------------------------------------------------
(* Safety.                                                                 *)

\* The empty proof (prove_empty_boundary) is right although processes and
\* systemd move while it is taken: from its second read on no process of the
\* session is left, and the leader has been reaped.
ProofMeansEmpty ==
    w.pc \in FinalPcs \cup {"prove3"} => ~Populated /\ leader = "reaped"

\* A program of the user runs only after the supervisor has acknowledged the
\* scope (await_payload_scope_ack before commit_exec).  From then on, and while
\* the worker waits for a recovery (wait_for_graceful_handoff,
\* wait_for_prestarted_recovery), it owns the PAM session, the VT and the
\* reference on the unit.
SessionKeepsItsOwner ==
    /\ leader = "user" \/ others => w.acked
    /\ w.pc = "retained" \/ (out = "Started" /\ Populated /\ w.pc # "crashed")
        => pam = "open" /\ vt = "held" /\ pinned

\* The launcher hears of a failed launch only after the PAM session is closed
\* and the probe is dead (drop(transaction) before write_envelope).  Whatever
\* stage failed, the worker that exits has also dropped the reference and tried
\* to release the VT.
FailedLaunchIsClean ==
    /\ out \in Failures \/ (w.pc = "exited" /\ out # "Started")
        => pam \in {"none", "closed"} /\ leader \notin Probes \cup {"user"}
    /\ w.pc = "exited" /\ out # "Started" => ~pinned /\ vt # "held"

\* Without a fault the VT of a started session is released only after the
\* supervisor has recorded the intent (begin_terminal_vt_cleanup).
VtReleaseIsRecorded ==
    out = "Started" /\ vt = "released" /\ faults = 0 => w.intent

\* The forced deadline is reported only if the scope could not be proved empty
\* when the deadline was handled (forced_poll_cycle.rs: a proof in the same
\* cycle wins).
TimeoutMeansNotProven ==
    [][w.pc # "fExpired" /\ w'.pc = "fExpired"
         => ~w.exit \/ unit = "running" \/ Populated]_vars

\* The worker implements the abstract session end.
Phase ==
    CASE w.pc \in LaunchPcs \cup UndoPcs -> "launching"
      [] w.pc \in FinalPcs -> "finalizing"
      [] w.pc = "retained" -> "retained"
      [] w.pc = "exited" -> "ended"
      [] w.pc = "crashed" -> "crashed"
      [] OTHER -> "running"
Ending == INSTANCE SessionEnd WITH phase <- Phase,
                                   payload <- cgroup # "none" /\ Populated
ImplementsSessionEnd == Ending!Spec

-----------------------------------------------------------------------------
(* The inductive invariant: what each program point owns and knows.        *)
RunningPcs == GracefulPcs \cup CheckPcs \cup ForcedPcs
ScopeUndoPcs == {"undoAbort", "undoCleanup", "undoStop", "askRelease"}
BeforePam == {"request", "validate", "allocate", "authenticate", "asking"}
BeforeChild == BeforePam \cup {"identify", "open", "environment", "prepareChild", "spawn"}
RegisteredPcs == {"register", "awaitAck", "commit", "awaitExec", "verify", "report"}
AfterPam == {"intent", "releaseVt", "result", "localVt"}

\* The PAM session is open from pam_open_session until it is dropped.
PamByPc ==
    /\ w.pc \in BeforePam => pam = "none"
    /\ w.pc \in (LaunchPcs \ (BeforePam \cup {"identify", "open"})) \cup ScopeUndoPcs
                 \cup RunningPcs \cup {"unpin", "closePam", "retained"}
        => pam = "open"
    /\ w.pc \in AfterPam => pam = "closed"
    /\ out \in Failures \/ w.pc \in {"respond", "dropVt", "exited"}
        => pam \in {"none", "closed"}

\* The VT is held from its allocation until its one release.
VtByPc ==
    /\ w.pc \in (LaunchPcs \ {"request", "validate", "allocate"}) \cup ScopeUndoPcs
                 \cup RunningPcs \cup {"unpin", "closePam", "intent", "releaseVt",
                                       "localVt", "retained"}
        => vt = "held"
    /\ w.pc \in {"result", "exited"} => vt \in {"none", "released", "leaked"}

\* The reference on the unit outlives everything but a finished cleanup.
PinByPc ==
    /\ w.pc \in RegisteredPcs \cup RunningPcs \cup {"undoAbort", "retained"} => pinned
    /\ w.pc \in ScopeUndoPcs => w.ret \in {"strict", "loose", "mute"}
    /\ w.pc \in ScopeUndoPcs /\ w.ret = "strict" => pinned
    /\ w.pc = "exited" => ~pinned

\* What has been reported.
OutByPc ==
    /\ w.pc \in RunningPcs \cup FinalPcs => out = "Started" /\ w.acked
    /\ w.pc \in (LaunchPcs \cup UndoPcs) \ {"dropVt"} => out = "none"
    /\ w.pc = "dropVt" => out # "Started"
    /\ out \in Failures => w.pc \in {"dropVt", "exited", "crashed"}

\* Where the leader can be.
LeaderByPc ==
    /\ w.pc \in BeforeChild => leader = "none"
    /\ w.pc \in {"undoCleanup", "undoStop", "askRelease", "dropPam", "respond", "dropVt"}
        => leader \notin Probes \cup {"user"}
    /\ out \in Failures \/ w.pc = "exited" => leader \notin Probes \cup {"user"}
    /\ leader \in {"committed", "user"} \/ others => w.acked
    /\ w.pc \in {"commit", "awaitExec", "verify", "report"} => w.acked

\* What the empty proof rests on: a leader whose exit the worker has seen.
ProofByPc ==
    /\ w.pc \in LaunchPcs \cup UndoPcs => ~w.exit
    /\ w.exit => leader = "reaped"
    /\ w.pc \in {"prove1", "prove2", "prove3"} => w.exit
    /\ w.pc \in FinalPcs \cup {"prove3"} => leader = "reaped" /\ ~others
    /\ w.pc = "exited" /\ out = "Started" => leader = "reaped" /\ ~others

\* Where the shared steps return to.
RetByPc ==
    /\ w.pc \in {"members", "identity"}
        => w.ret \in {"sigterm", "force", "fObserver", "sigkill"}
    /\ w.pc = "fTry" => w.ret \in {"fPoll", "fObserve", "fSettle", "fExpired"}
    /\ w.pc \in {"prove1", "prove2", "prove3"}
        => w.ret \in {"graceful", "fPoll", "fObserve", "fSettle", "fExpired"}

\* The VT of a started session is released on record, or after a fault.
VtOnRecord ==
    /\ sup = "closed" => faults > 0
    /\ w.pc \in {"releaseVt", "result"} => w.intent
    /\ w.pc = "localVt" => sup = "closed"
    /\ VtReleaseIsRecorded

ByPc ==
    /\ PamByPc /\ VtByPc /\ PinByPc /\ OutByPc /\ LeaderByPc
    /\ ProofByPc /\ RetByPc /\ VtOnRecord

IInv == TypeOK /\ ByPc

-----------------------------------------------------------------------------
(* Liveness.                                                               *)

\* A launch ends, unless it stays in PAM for ever, and so does a termination
\* once begun, in an exit or in retention: every wait but PAM's, the grace
\* period and the forced deadline are bounded, whatever signals and requests
\* arrive.
WorkerSettles ==
    /\ w.pc \in LaunchPcs \cup UndoPcs ~> InPam \/ w.pc \notin LaunchPcs \cup UndoPcs
    /\ w.cause # "none" ~> w.pc \in {"retained", "exited", "crashed"}

\* A session whose processes are all gone is finalized.
EndedSessionIsFinalized ==
    out = "Started" /\ ~Populated ~> w.pc \in {"exited", "crashed"}
=============================================================================
