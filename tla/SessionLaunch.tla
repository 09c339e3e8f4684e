---------------------------- MODULE SessionLaunch ----------------------------
(***************************************************************************)
(* How the worker launches a session (runtime/pam_session, session_child,  *)
(* payload_scope/prepare, payload_scope/cleanup): VT, PAM, the probe       *)
(* blocked before its exec, the scope and its registration, the commit,    *)
(* and the undoing of each of these when a later one fails.                *)
(***************************************************************************)
EXTENDS PayloadScope

Fail(code, pc) == w' = [w EXCEPT !.pc = pc, !.code = code]
Undo(kind) ==
    w' = [w EXCEPT !.pc = "undoAbort", !.ret = kind,
                   !.code = IF kind = "mute" THEN "none" ELSE "SessionFailed"]
KeepBus == UNCHANGED <<timer, out, faults>> /\ UNCHANGED InputVars
KeepProcesses == UNCHANGED ScopeVars

-----------------------------------------------------------------------------
(* Before the PAM session is open.                                         *)

\* The envelope, its version, the peer on the private channel.
ReadRequest ==
    /\ w.pc = "request"
    /\ \/ Goto("validate")
       \/ \E code \in {"Rejected", "none"} : Fail(code, "respond")
    /\ KeepProcesses /\ UNCHANGED OwnedVars /\ KeepBus

\* The plan, its executable, the watchdog, logind, the control socket.
ValidateRequest ==
    /\ w.pc = "validate"
    /\ \/ Goto("allocate")
       \/ \E code \in {"Rejected", "SessionFailed", "none"} : Fail(code, "respond")
    /\ KeepProcesses /\ UNCHANGED OwnedVars /\ KeepBus

AllocateVt ==
    /\ w.pc = "allocate"
    /\ \/ vt' = "held" /\ Goto("authenticate")
       \/ UNCHANGED vt /\ Fail("SessionFailed", "respond")
    /\ UNCHANGED <<pam, pinned>> /\ KeepProcesses /\ KeepBus

\* A PAM module asks the user (respond): the prompt goes to the launcher, and
\* the worker blocks on the channel until an answer or its end comes.
AskGreeter ==
    /\ w.pc = "authenticate"
    /\ Goto("asking")
    /\ KeepProcesses /\ UNCHANGED OwnedVars /\ KeepBus

AwaitAnswer ==
    /\ w.pc = "asking"
    /\ Goto("authenticate")
    /\ KeepProcesses /\ UNCHANGED OwnedVars /\ KeepBus

\* PAM decides, with no more to ask; a refused prompt is a failure.
Authenticate ==
    /\ w.pc = "authenticate"
    /\ \/ pam' = "authenticated" /\ Goto("identify")
       \/ UNCHANGED pam /\ \E code \in Failures : Fail(code, "respond")
    /\ UNCHANGED <<vt, pinned>> /\ KeepProcesses /\ KeepBus

ResolveIdentity ==
    /\ w.pc = "identify"
    /\ Goto("open") \/ Fail("SessionFailed", "dropPam")
    /\ KeepProcesses /\ UNCHANGED OwnedVars /\ KeepBus

\* pam_open_session, with whatever its modules ask the user.
OpenSession ==
    /\ w.pc = "open"
    /\ \/ pam' = "open" /\ Goto("environment")
       \/ UNCHANGED pam /\ Fail("SessionFailed", "dropPam")
    /\ UNCHANGED <<vt, pinned>> /\ KeepProcesses /\ KeepBus

\* Mutant: the failure is reported before the transaction is dropped.
PrepareEnvironmentReportsFirst ==
    /\ w.pc = "environment"
    /\ Goto("prepareChild") \/ Fail("SessionFailed", "respond")
    /\ KeepProcesses /\ UNCHANGED OwnedVars /\ KeepBus

\* PAM's environment, the logind session, the runtime directory.
PrepareEnvironment ==
    /\ w.pc = "environment"
    /\ Goto("prepareChild") \/ Fail("SessionFailed", "dropPam")
    /\ KeepProcesses /\ UNCHANGED OwnedVars /\ KeepBus

\* The SELinux context, the terminal's descriptor, the paths of the child.
PrepareChild ==
    /\ w.pc = "prepareChild"
    /\ Goto("spawn") \/ Fail("SessionFailed", "dropPam")
    /\ KeepProcesses /\ UNCHANGED OwnedVars /\ KeepBus

-----------------------------------------------------------------------------
(* The probe.                                                              *)

\* The request is written to a child that may have died already; then it is
\* forgotten, neither killed nor reaped.
SpawnChild ==
    /\ w.pc = "spawn"
    /\ \/ leader' = "root" /\ pipe' = "open" /\ Goto("awaitReady")
       \/ leader' \in {"none", "dying"} /\ UNCHANGED pipe /\ Fail("SessionFailed", "dropPam")
    /\ UNCHANGED <<others, unit, cgroup, wake>> /\ UNCHANGED OwnedVars /\ KeepBus

\* One stage of the child; a stage that fails ends the process (LeaderDies).
ChildStage(from, to) ==
    /\ leader = from
    /\ leader' = to
    /\ UNCHANGED <<others, unit, cgroup, wake, pipe, faults>> /\ UNCHANGED Environment

\* Close what was inherited, become the user, audit the result.
ChildDropsPrivileges == ChildStage("root", "dropped")

\* Take the terminal, install the environment, replace itself by the probe.
ChildExecsProbe == ChildStage("dropped", "probe")

\* The probe audits itself once more, reports, and waits for the commit.
ProbeReady == ChildStage("probe", "ready")

\* No report in time, a refusal, or a report that does not match.
AwaitReady ==
    /\ w.pc = "awaitReady"
    /\ \/ leader = "ready" /\ Goto("checkReady")
       \/ Fail("SessionFailed", "abort")
    /\ KeepProcesses /\ UNCHANGED OwnedVars /\ KeepBus

\* A pending signal, the watchdog, terminal proof, logind, VT activation.
CheckReady ==
    /\ w.pc = "checkReady"
    /\ \/ ~sig /\ Goto("startScope")
       \/ Fail("SessionFailed", "abort")
    /\ sig' = FALSE
    /\ UNCHANGED <<sup, conn, timer, out, faults>> /\ KeepProcesses /\ UNCHANGED OwnedVars

ProbeExecs ==
    /\ leader = "committed"
    /\ leader' = "user" /\ pipe' = "exec"
    /\ UNCHANGED <<others, unit, cgroup, wake, faults>> /\ UNCHANGED Environment

ProbeExecFails ==
    /\ leader = "committed"
    /\ leader' = "dying" /\ pipe' = "failure"
    /\ UNCHANGED <<others, unit, cgroup, wake, faults>> /\ UNCHANGED Environment

-----------------------------------------------------------------------------
(* prepare_scope.                                                          *)

\* stop_created_unit; when it fails the probe is aborted all the same.
StopCreatedUnit ==
    \/ /\ unit' = "missing" /\ cgroup' = "gone"
       /\ leader' = IF LeaderLives THEN "zombie" ELSE leader
       /\ pipe' = IF pipe = "open" THEN "closed" ELSE pipe
    \/ UNCHANGED <<unit, cgroup, leader, pipe>>

StartScope ==
    /\ w.pc = "startScope"
    /\ \/ /\ LeaderLives
          /\ unit' = "running" /\ cgroup' = "present" /\ UNCHANGED <<leader, pipe>>
          /\ Goto("checkScope")
       \/ /\ StopCreatedUnit \/ UNCHANGED <<unit, cgroup, leader, pipe>>
          /\ Fail("SessionFailed", "abort")
    /\ UNCHANGED <<others, wake>> /\ UNCHANGED OwnedVars /\ KeepBus

\* Properties, the cgroup of the pidfd, the members.
CheckScope ==
    /\ w.pc = "checkScope"
    /\ \/ /\ LeaderLives /\ unit = "running"
          /\ Goto("pinScope") /\ UNCHANGED <<unit, cgroup, leader, pipe>>
       \/ StopCreatedUnit /\ Fail("SessionFailed", "abort")
    /\ UNCHANGED <<others, wake>> /\ UNCHANGED OwnedVars /\ KeepBus

\* The reference counts only if the unit is unchanged after it was taken.
PinScope ==
    /\ w.pc = "pinScope"
    /\ \/ /\ unit = "running" /\ pinned' = TRUE
          /\ Goto("register") /\ UNCHANGED <<unit, cgroup, leader, pipe>>
       \/ /\ UNCHANGED pinned
          /\ StopCreatedUnit /\ Fail("SessionFailed", "abort")
    /\ UNCHANGED <<others, wake, pam, vt>> /\ KeepBus

-----------------------------------------------------------------------------
(* Registration, commit, Started.                                          *)

RegisterScope ==
    /\ w.pc = "register"
    /\ \/ Goto("awaitAck") /\ UNCHANGED faults
       \/ Spend /\ Undo("mute")
    /\ UNCHANGED <<timer, out>> /\ UNCHANGED InputVars
    /\ KeepProcesses /\ UNCHANGED OwnedVars

AwaitAck ==
    /\ w.pc = "awaitAck"
    /\ \/ sup = "open" /\ w' = [w EXCEPT !.pc = "commit", !.acked = TRUE]
       \/ Undo("strict")
    /\ KeepProcesses /\ UNCHANGED OwnedVars /\ KeepBus

CommitExec ==
    /\ w.pc = "commit"
    /\ \/ sig /\ Undo("strict") /\ UNCHANGED leader
       \/ ~sig /\ leader = "ready" /\ leader' = "committed" /\ Goto("awaitExec")
       \/ ~sig /\ leader # "ready" /\ Undo("loose") /\ UNCHANGED leader
    /\ sig' = FALSE
    /\ UNCHANGED <<sup, conn, timer, out, faults>>
    /\ UNCHANGED <<others, unit, cgroup, wake, pipe>> /\ UNCHANGED OwnedVars

\* The end of file stands for a successful exec unless the child is waitable.
AwaitExec ==
    /\ w.pc = "awaitExec"
    /\ \/ pipe \in {"exec", "closed"} /\ leader # "zombie" /\ Goto("verify")
       \/ Undo("loose")
    /\ KeepProcesses /\ UNCHANGED OwnedVars /\ KeepBus

\* The SELinux context; on a mismatch the process group is terminated.
VerifyContext ==
    /\ w.pc = "verify"
    /\ \/ Goto("report") /\ UNCHANGED leader
       \/ /\ leader' = "reaped"
          /\ w' = [w EXCEPT !.pc = "undoCleanup", !.ret = "loose", !.code = "SessionFailed"]
    /\ UNCHANGED <<others, unit, cgroup, wake, pipe>> /\ UNCHANGED OwnedVars /\ KeepBus

ReportStarted ==
    /\ w.pc = "report"
    /\ \/ out' = "Started" /\ Goto("poll") /\ UNCHANGED faults
       \/ UNCHANGED out /\ Spend /\ Fail("none", "abort")
    /\ UNCHANGED timer /\ UNCHANGED InputVars
    /\ KeepProcesses /\ UNCHANGED OwnedVars

-----------------------------------------------------------------------------
(* Undoing.                                                                *)

\* Kill and reap the probe; its descendants, if it has any, are left.
ReapLeader ==
    /\ leader' = IF leader = "none" THEN leader ELSE "reaped"
    /\ pipe' = IF pipe = "open" THEN "closed" ELSE pipe
    /\ UNCHANGED <<others, unit, cgroup, wake>> /\ UNCHANGED OwnedVars /\ KeepBus

AbortBeforeScope == w.pc = "abort" /\ Goto("dropPam") /\ ReapLeader
AbortWithScope == w.pc = "undoAbort" /\ Goto("undoCleanup") /\ ReapLeader

\* cleanup_unit gives the reference up when asked to and when it succeeds.
CleanedUp(ok) ==
    /\ pinned' = (pinned /\ (w.ret = "strict" \/ ~ok))
    /\ Goto(IF w.ret = "mute" THEN "dropPam" ELSE "askRelease")
    /\ UNCHANGED <<leader, others, wake, pipe, pam, vt>> /\ KeepBus

CleanupScope ==
    /\ w.pc = "undoCleanup"
    /\ \/ ~Populated /\ cgroup = "present" /\ Goto("undoStop")
          /\ KeepProcesses /\ UNCHANGED OwnedVars /\ KeepBus
       \/ Populated /\ CleanedUp(FALSE) /\ UNCHANGED <<unit, cgroup>>
       \/ cgroup = "gone" /\ CleanedUp(Terminal) /\ UNCHANGED <<unit, cgroup>>

\* The members are read again: a directory removed meanwhile is an error.
StopScope ==
    /\ w.pc = "undoStop"
    /\ \/ /\ cgroup = "present" /\ cgroup' = "gone"
          /\ unit' = IF w.ret = "strict" THEN "dead" ELSE "missing"
          /\ CleanedUp(TRUE)
       \/ CleanedUp(FALSE) /\ UNCHANGED <<unit, cgroup>>

\* Before the commit only the supervisor's proof lets the worker go on; after
\* it the answer is ignored.
RequestScopeRelease ==
    /\ w.pc = "askRelease"
    /\ \/ /\ w.ret = "strict" /\ sup = "open" /\ ~Populated
          /\ \/ pinned' = FALSE /\ Goto("dropPam") /\ UNCHANGED faults
             \/ Spend /\ Goto("retained") /\ UNCHANGED pinned
       \/ w.ret = "strict" /\ Goto("retained") /\ UNCHANGED <<pinned, faults>>
       \/ w.ret = "loose" /\ Goto("dropPam") /\ UNCHANGED <<pinned, faults>>
    /\ UNCHANGED <<pam, vt, timer, out>> /\ UNCHANGED InputVars /\ KeepProcesses

DropTransaction ==
    /\ w.pc = "dropPam"
    /\ pam' = "closed" /\ Goto("respond")
    /\ UNCHANGED <<vt, pinned>> /\ KeepProcesses /\ KeepBus

Respond ==
    /\ w.pc = "respond"
    /\ \/ out' = w.code /\ UNCHANGED faults
       \/ w.code # "none" /\ Spend /\ UNCHANGED out
    /\ Goto("dropVt")
    /\ UNCHANGED timer /\ UNCHANGED InputVars /\ KeepProcesses /\ UNCHANGED OwnedVars

\* The guard releases the VT after the response; its failure is logged.
DropVt ==
    /\ w.pc = "dropVt"
    /\ IF vt = "held" THEN vt' \in {"released", "leaked"} ELSE UNCHANGED vt
    /\ pinned' = FALSE /\ Goto("exited")
    /\ UNCHANGED <<pam, timer, out, faults>> /\ UNCHANGED InputVars /\ KeepProcesses

LaunchNext ==
    \/ ReadRequest \/ ValidateRequest \/ AllocateVt
    \/ AskGreeter \/ AwaitAnswer \/ Authenticate \/ ResolveIdentity
    \/ OpenSession \/ PrepareEnvironment \/ PrepareChild
    \/ SpawnChild \/ AwaitReady \/ CheckReady
    \/ StartScope \/ CheckScope \/ PinScope \/ RegisterScope \/ AwaitAck
    \/ CommitExec \/ AwaitExec \/ VerifyContext \/ ReportStarted
    \/ AbortBeforeScope \/ AbortWithScope \/ CleanupScope \/ StopScope
    \/ RequestScopeRelease \/ DropTransaction \/ Respond \/ DropVt
=============================================================================
