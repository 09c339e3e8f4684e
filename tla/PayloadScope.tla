---------------------------- MODULE PayloadScope ----------------------------
(***************************************************************************)
(* The payload scope of a session (payload_scope/): what the worker reads  *)
(* of the unit and of its cgroup, the empty proof, and the processes and   *)
(* the systemd that change both while the worker looks.                    *)
(***************************************************************************)
EXTENDS WorkerState

LeaderLives == leader \in Probes \cup {"user", "dying"}
Populated == LeaderLives \/ others
Terminal == unit \in {"dead", "failed"}

-----------------------------------------------------------------------------
(* Processes and systemd.                                                  *)
Environment == <<w, pam, vt, pinned, sup, sig, conn, timer, out>>

\* The files of a process are closed before it can be waited for.
LeaderDies ==
    /\ leader \in Probes \cup {"user"}
    /\ leader' = "dying"
    /\ pipe' = IF pipe = "open" THEN "closed" ELSE pipe
    /\ UNCHANGED <<others, unit, cgroup, wake, faults>> /\ UNCHANGED Environment

LeaderBecomesZombie ==
    /\ leader = "dying"
    /\ leader' = "zombie"
    /\ wake' = (wake \/ ~others)
    /\ UNCHANGED <<others, unit, cgroup, pipe, faults>> /\ UNCHANGED Environment

SessionForks ==
    /\ leader = "user" /\ ~others
    /\ others' = TRUE
    /\ UNCHANGED <<leader, unit, cgroup, wake, pipe, faults>> /\ UNCHANGED Environment

OthersExit ==
    /\ others
    /\ others' = FALSE
    /\ wake' = (wake \/ ~LeaderLives)
    /\ UNCHANGED <<leader, unit, cgroup, pipe, faults>> /\ UNCHANGED Environment

\* systemd notices the empty cgroup: the unit is dead, the directory removed.
\* A unit nobody references is collected with it (CollectMode).
SystemdCollects ==
    /\ cgroup = "present" /\ unit \in {"running", "failed"} /\ ~Populated
    /\ unit' = IF ~pinned THEN "missing" ELSE IF unit = "running" THEN "dead" ELSE unit
    /\ cgroup' = "gone"
    /\ UNCHANGED <<leader, others, wake, pipe, faults>> /\ UNCHANGED Environment

\* The unit fails while processes are left, or systemd loses or replaces it.
SystemdFails ==
    /\ unit = "running" /\ out = "Started"
    /\ Spend
    /\ unit' \in {"failed", "missing", "replaced"}
    /\ UNCHANGED <<leader, others, cgroup, wake, pipe>> /\ UNCHANGED Environment

-----------------------------------------------------------------------------
(* What the worker reads of the scope.                                     *)

\* validate_pinned_properties in Exact mode: once the directory is gone
\* systemd may report no ControlGroup, and then the unit counts as replaced.
ExactResults ==
    IF unit = "running" \/ (Terminal /\ cgroup = "present") THEN {TRUE}
    ELSE IF Terminal THEN BOOLEAN ELSE {FALSE}

\* Open cgroup.events and read it once, or read it again after a wakeup.
RefreshObserver == cgroup = "present" /\ wake' = FALSE

KeepScope == UNCHANGED <<leader, others, unit, cgroup, pipe>>
KeepRest == UNCHANGED <<timer, out, faults>> /\ UNCHANGED InputVars

\* read_members, with the cgroups of the worker and of the launcher.
ReadMembers ==
    /\ w.pc = "members"
    /\ Goto(IF cgroup = "present" THEN "identity" ELSE "retained")
    /\ UNCHANGED wake /\ KeepScope /\ UNCHANGED OwnedVars /\ KeepRest

\* Resolve the invocation and compare its properties with the pinned unit.
ValidatePinnedUnit ==
    /\ w.pc = "identity"
    /\ \E exact \in ExactResults :
          Goto(IF exact /\ (w.ret = "sigterm" => unit = "running")
               THEN w.ret ELSE "retained")
    /\ UNCHANGED wake /\ KeepScope /\ UNCHANGED OwnedVars /\ KeepRest

\* A proof that fails because the scope still lives: the graceful path asks
\* whether to force, the forced path goes on where it was.
NotProven == IF w.ret = "graceful" THEN Call("members", "force") ELSE Goto(w.ret)

\* prove_empty_boundary: the invocation, the cgroup, the invocation again.
ProveInvocation ==
    /\ w.pc = "prove1"
    /\ CASE unit = "missing" -> w' = [w EXCEPT !.pc = "prove2", !.seen = "missing"]
         [] Terminal -> w' = [w EXCEPT !.pc = "prove2", !.seen = "present"]
         [] unit = "running" -> NotProven
         [] OTHER -> Goto("retained")
    /\ UNCHANGED wake /\ KeepScope /\ UNCHANGED OwnedVars /\ KeepRest

\* Mutant: a terminal unit makes reading the cgroup superfluous.
ProveCgroupSkipped ==
    /\ w.pc = "prove2"
    /\ Goto("prove3")
    /\ UNCHANGED wake /\ KeepScope /\ UNCHANGED OwnedVars /\ KeepRest

ProveCgroup ==
    /\ w.pc = "prove2"
    /\ IF Populated THEN NotProven ELSE Goto("prove3")
    /\ UNCHANGED wake /\ KeepScope /\ UNCHANGED OwnedVars /\ KeepRest

ProveInvocationAgain ==
    /\ w.pc = "prove3"
    /\ Goto(IF \/ w.seen = "missing" /\ unit = "missing"
               \/ w.seen = "present" /\ Terminal
            THEN "unpin" ELSE "retained")
    /\ UNCHANGED wake /\ KeepScope /\ UNCHANGED OwnedVars /\ KeepRest

\* A call to systemd that fails in transit; after it nothing is known.
BusCalls == {"ask", "identity", "sigterm", "sigkill", "fConfirm", "fTry",
             "prove1", "prove3"}
BusFails ==
    /\ w.pc \in BusCalls
    /\ Spend
    /\ Goto("retained")
    /\ UNCHANGED <<timer, out, wake>> /\ UNCHANGED InputVars
    /\ KeepScope /\ UNCHANGED OwnedVars
=============================================================================
