-------------------------- MODULE WorkerLaunchProofs -------------------------
(***************************************************************************)
(* Lemmas about the session worker: what its steps do to its record, that  *)
(* every step of the process keeps the types, and that the steps of a      *)
(* launch and of its undoing keep the inductive invariant.                 *)
(***************************************************************************)
EXTENDS WorkerProcess, TLAPS

-----------------------------------------------------------------------------
(* What the steps of the worker do to its record.                          *)

\* The names the record's fields are drawn from.
LEMMA PcNames ==
    /\ {"request", "validate", "allocate", "authenticate", "asking", "identify", "open",
        "environment", "prepareChild", "spawn", "awaitReady", "checkReady",
        "startScope", "checkScope", "pinScope", "register", "awaitAck", "commit",
        "awaitExec", "verify", "report", "undoAbort", "undoCleanup", "undoStop",
        "askRelease", "abort", "dropPam", "respond", "dropVt"} \subseteq Pcs
    /\ {"poll", "observe", "ask", "settle", "begin", "sigterm", "members",
        "identity", "prove1", "prove2", "prove3", "force", "fObserver", "sigkill",
        "fConfirm", "fTry", "fPoll", "fObserve", "fSettle", "fExpired", "unpin",
        "closePam", "intent", "releaseVt", "result", "localVt", "retained",
        "exited", "crashed"} \subseteq Pcs
    /\ Pcs \cup {"none", "graceful", "strict", "loose", "mute"} \subseteq Rets
    /\ Failures \cup {"none", "Rejected", "SessionFailed"} \subseteq Codes
    BY DEF Pcs, LaunchPcs, UndoPcs, GracefulPcs, CheckPcs, ForcedPcs, FinalPcs,
           Rets, Codes, Failures

\* Goto moves the worker and forgets nothing but what a cycle polled.
LEMMA GotoSets ==
    ASSUME w \in Workers, NEW pc, Goto(pc)
    PROVE  /\ w'.pc = pc /\ w'.ret = w.ret /\ w'.exit = w.exit
           /\ w'.acked = w.acked /\ w'.intent = w.intent
    BY Zenon DEF Workers, Goto

\* Call also notes where to return to.
LEMMA CallSets ==
    ASSUME w \in Workers, NEW pc, NEW ret, Call(pc, ret)
    PROVE  /\ w'.pc = pc /\ w'.ret = ret /\ w'.exit = w.exit
           /\ w'.acked = w.acked /\ w'.intent = w.intent
    BY Zenon DEF Workers, Call

\* Fail also notes what to answer.
LEMMA FailSets ==
    ASSUME w \in Workers, NEW pc, NEW code, Fail(code, pc)
    PROVE  /\ w'.pc = pc /\ w'.ret = w.ret /\ w'.exit = w.exit
           /\ w'.acked = w.acked /\ w'.intent = w.intent
    BY Zenon DEF Workers, Fail

\* Undo enters the undoing of a registered scope.
LEMMA UndoSets ==
    ASSUME w \in Workers, NEW kind, Undo(kind)
    PROVE  /\ w'.pc = "undoAbort" /\ w'.ret = kind /\ w'.exit = w.exit
           /\ w'.acked = w.acked /\ w'.intent = w.intent
    BY Zenon DEF Workers, Undo

\* A poll notes the exit of the leader exactly when it reaps it.
LEMMA PolledSets ==
    ASSUME w \in Workers, NEW next, NEW ret, Polled(next, ret)
    PROVE  /\ w'.pc = next /\ w'.ret = ret
           /\ w'.acked = w.acked /\ w'.intent = w.intent
           /\ \/ leader' = leader /\ w'.exit = w.exit
              \/ leader' = "reaped" /\ w'.exit
  <1>1. w' = [w EXCEPT !.pc = next, !.ret = ret, !.ready = ReadySources,
                       !.exit = w.exit \/ "leader" \in ReadySources]
    BY Zenon DEF Polled
  <1>2. /\ w'.pc = next /\ w'.ret = ret
        /\ w'.acked = w.acked /\ w'.intent = w.intent
        /\ w'.exit = (w.exit \/ "leader" \in ReadySources)
    BY <1>1, Zenon DEF Workers
  <1>3. w.exit \in BOOLEAN
    BY Zenon DEF Workers
  <1>4. leader' = IF "leader" \in ReadySources THEN "reaped" ELSE leader
    BY Zenon DEF Polled
  <1>. QED
    BY <1>2, <1>3, <1>4, Zenon

\* Each of them keeps the record well typed.
LEMMA UndoTyped ==
    ASSUME w \in Workers, NEW kind \in {"mute", "strict", "loose"}, Undo(kind)
    PROVE  w' \in Workers
  <1>1. /\ "undoAbort" \in Pcs /\ kind \in Rets
        /\ (IF kind = "mute" THEN "none" ELSE "SessionFailed") \in Codes
    BY PcNames, Zenon
  <1>. QED
    BY <1>1, Zenon DEF Undo, Workers

\* The moves keep the record's type.
LEMMA MovesTyped ==
    ASSUME w \in Workers, NEW pc \in Pcs, NEW ret \in Rets, NEW code \in Codes
    PROVE  /\ Goto(pc) => w' \in Workers
           /\ Call(pc, ret) => w' \in Workers
           /\ Fail(code, pc) => w' \in Workers
           /\ Polled(pc, ret) => w' \in Workers
  <1>1. Kept(pc) \in SUBSET Sources
    BY Zenon DEF Kept, Workers
  <1>2. Goto(pc) \/ Call(pc, ret) \/ Fail(code, pc) => w' \in Workers
    BY <1>1, ZenonT(60) DEF Workers, Goto, Call, Fail
  <1>3. Polled(pc, ret) => w' \in Workers
    <2>1. (w.exit \/ "leader" \in ReadySources) \in BOOLEAN
      BY Zenon
    <2>2. ReadySources \in SUBSET Sources
      BY Zenon DEF ReadySources
    <2>. QED
      BY <2>1, <2>2, ZenonT(60) DEF Workers, Polled
  <1>. QED
    BY <1>2, <1>3, Zenon

-----------------------------------------------------------------------------
(* Types.                                                                  *)

\* A launching worker's record stays well typed.
LEMMA LaunchTypesWorker ==
    ASSUME w \in Workers, LaunchNext
    PROVE  w' \in Workers
  <1>1. CASE AwaitAck
    <2>1. w' = [w EXCEPT !.pc = "commit", !.acked = TRUE] => w' \in Workers
      BY PcNames, Zenon DEF Workers
    <2>. QED
      BY <1>1, <2>1, UndoTyped, Zenon DEF AwaitAck
  <1>2. CASE VerifyContext
    <2>1. w' = [w EXCEPT !.pc = "undoCleanup", !.ret = "loose", !.code = "SessionFailed"]
            => w' \in Workers
      BY PcNames, ZenonT(60) DEF Workers
    <2>. QED
      BY <1>2, <2>1, MovesTyped, PcNames, Zenon DEF VerifyContext
  <1>3. CASE \/ ReadRequest \/ ValidateRequest \/ AllocateVt \/ AskGreeter
             \/ AwaitAnswer \/ Authenticate \/ ResolveIdentity \/ OpenSession \/ PrepareEnvironment \/ PrepareChild
             \/ SpawnChild \/ AwaitReady \/ CheckReady
    BY <1>3, MovesTyped, PcNames, Zenon
    DEF ReadRequest, ValidateRequest, AllocateVt, AskGreeter, AwaitAnswer, Authenticate,
        ResolveIdentity, OpenSession, PrepareEnvironment, PrepareChild, SpawnChild, AwaitReady, CheckReady
  <1>4. CASE StartScope \/ CheckScope \/ PinScope \/ ReportStarted
    BY <1>4, MovesTyped, PcNames, Zenon
    DEF StartScope, CheckScope, PinScope, ReportStarted
  <1>6. CASE RegisterScope \/ CommitExec \/ AwaitExec
    BY <1>6, MovesTyped, UndoTyped, PcNames, Zenon
    DEF RegisterScope, CommitExec, AwaitExec
  <1>5. CASE \/ AbortBeforeScope \/ AbortWithScope \/ CleanupScope \/ StopScope
             \/ RequestScopeRelease \/ DropTransaction \/ Respond \/ DropVt
    <2>1. ASSUME NEW ok, CleanedUp(ok) PROVE w' \in Workers
      BY <2>1, MovesTyped, PcNames, Zenon DEF CleanedUp
    <2>. QED
      BY <1>5, <2>1, MovesTyped, PcNames, Zenon
      DEF AbortBeforeScope, AbortWithScope, CleanupScope, StopScope,
          RequestScopeRelease, DropTransaction, Respond, DropVt
  <1>. QED
    BY <1>1, <1>2, <1>3, <1>4, <1>5, <1>6, Zenon DEF LaunchNext

\* So does the record of a worker that ends its session; the shared steps
\* return to program points only.
LEMMA TerminationTypesWorker ==
    ASSUME w \in Workers, RetByPc, TerminationNext
    PROVE  w' \in Workers
  <1>1. /\ w.pc \in {"members", "identity", "fTry"} => w.ret \in Pcs
        /\ w.pc \in {"prove1", "prove2", "prove3"} /\ w.ret # "graceful" => w.ret \in Pcs
    BY PcNames, Zenon DEF RetByPc
  <1>2. CASE \/ ReadMembers \/ ValidatePinnedUnit \/ ProveInvocationAgain
    BY <1>1, <1>2, MovesTyped, PcNames, Zenon
    DEF ReadMembers, ValidatePinnedUnit, ProveInvocationAgain
  <1>3. w.pc \in {"prove1", "prove2"} /\ NotProven => w' \in Workers
    BY <1>1, MovesTyped, PcNames, Zenon DEF NotProven
  <1>4. CASE ProveCgroup
    BY <1>3, <1>4, MovesTyped, PcNames, Zenon DEF ProveCgroup
  <1>5. CASE ProveInvocation
    <2>1. \A seen \in {"missing", "present"} :
             w' = [w EXCEPT !.pc = "prove2", !.seen = seen] => w' \in Workers
      BY PcNames, ZenonT(60) DEF Workers
    <2>. QED
      BY <1>3, <1>5, <2>1, MovesTyped, PcNames, Zenon DEF ProveInvocation
  <1>6. CASE Poll \/ PollForced
    BY <1>6, MovesTyped, PcNames, Zenon DEF Poll, PollForced
  <1>7. CASE Settle
    <2>1. Trigger \in Causes
      BY Zenon DEF Trigger, Causes
    <2>2. w' = [w EXCEPT !.pc = "begin", !.cause = Trigger] => w' \in Workers
      BY <2>1, PcNames, Zenon DEF Workers
    <2>. QED
      BY <1>7, <2>2, MovesTyped, PcNames, Zenon DEF Settle
  <1>8. CASE RequestGraceful
    <2>1. w' = [w EXCEPT !.pc = "poll", !.ret = "none", !.termed = TRUE] => w' \in Workers
      BY PcNames, ZenonT(60) DEF Workers
    <2>. QED
      BY <1>8, <2>1, MovesTyped, PcNames, Zenon DEF RequestGraceful
  <1>9. CASE ObserveForced
    <2>1. w' = [w EXCEPT !.pc = "members", !.ret = "sigkill", !.killed = TRUE]
            => w' \in Workers
      BY PcNames, ZenonT(60) DEF Workers
    <2>. QED
      BY <1>9, <2>1, MovesTyped, PcNames, Zenon DEF ObserveForced
  <1>10. CASE ConsumeWakeup \/ AskIfTerminal \/ Begin \/ BeginForced \/ RequestForced
    BY <1>10, MovesTyped, PcNames, Zenon
    DEF ConsumeWakeup, AskIfTerminal, Begin, BeginForced, RequestForced
  <1>11. CASE \/ ConfirmForced \/ TryForcedEmptyProof \/ ConsumeForcedWakeup
              \/ SettleForced \/ ForcedDeadlineExpired
    BY <1>1, <1>11, MovesTyped, PcNames, Zenon
    DEF ConfirmForced, TryForcedEmptyProof, ConsumeForcedWakeup, SettleForced,
        ForcedDeadlineExpired
  <1>12. CASE BeginVtCleanup
    <2>1. w' = [w EXCEPT !.pc = "releaseVt", !.intent = TRUE] => w' \in Workers
      BY PcNames, ZenonT(60) DEF Workers
    <2>. QED
      BY <1>12, <2>1, MovesTyped, PcNames, Zenon DEF BeginVtCleanup, Return
  <1>13. CASE ReleasePin \/ ClosePam \/ ReleaseVt \/ CompleteVtCleanup \/ ReleaseVtLocally
    BY <1>13, MovesTyped, PcNames, Zenon
    DEF ReleasePin, ClosePam, ReleaseVt, CompleteVtCleanup, ReleaseVtLocally, Return
  <1>. QED
    BY <1>2, <1>4, <1>5, <1>6, <1>7, <1>8, <1>9, <1>10, <1>11, <1>12, <1>13, Zenon
    DEF TerminationNext

\* A fault is spent within the bound.
LEMMA SpendCounts ==
    ASSUME faults \in 0 .. MaxFaults, Spend
    PROVE  faults' \in 0 .. MaxFaults /\ faults' > 0
    BY MaxFaultsIsNat DEF Spend

\* The steps that launch a session keep every variable in its range.
LEMMA LaunchTypes ==
    ASSUME TypeOK, LaunchNext
    PROVE  TypeOK'
  <1>1. w' \in Workers
    BY LaunchTypesWorker, Zenon DEF TypeOK
  <1>2. w.code \in {"none", "Started"} \cup Failures
    BY Zenon DEF TypeOK, Workers, Codes
  <1>3. /\ {"none", "root", "dying", "zombie", "reaped", "committed"} \subseteq Leaders
        /\ TypeOK /\ (StopCreatedUnit \/ ReapLeader) => leader' \in Leaders
    BY Zenon DEF TypeOK, StopCreatedUnit, ReapLeader, Leaders, Probes
  <1>. USE DEF TypeOK, LaunchNext, ReadRequest, ValidateRequest, AllocateVt,
       AskGreeter, AwaitAnswer, Authenticate, ResolveIdentity, OpenSession,
       PrepareEnvironment, PrepareChild, SpawnChild, AwaitReady, CheckReady, StartScope, CheckScope, PinScope,
       RegisterScope, AwaitAck, CommitExec, AwaitExec, VerifyContext, ReportStarted,
       AbortBeforeScope, AbortWithScope, CleanupScope, StopScope,
       RequestScopeRelease, DropTransaction, Respond, DropVt, CleanedUp,
       KeepProcesses, KeepBus, ScopeVars, OwnedVars, InputVars
  <1>4. leader' \in Leaders
    BY <1>3, Zenon
  <1>. USE DEF StopCreatedUnit, ReapLeader
  <1>5. faults' \in 0 .. MaxFaults
    BY SpendCounts, Zenon
  <1>6. out' \in {"none", "Started"} \cup Failures
    BY <1>2, Zenon
  <1>7. others' \in BOOLEAN /\ pinned' \in BOOLEAN
    BY Zenon
  <1>8. wake' \in BOOLEAN /\ sig' \in BOOLEAN
    BY Zenon
  <1>9. unit' \in Units /\ cgroup' \in {"none", "present", "gone"}
    BY Zenon DEF Units
  <1>10. pipe' \in {"none", "open", "failure", "exec", "closed"}
    BY Zenon
  <1>11. /\ pam' \in {"none", "authenticated", "open", "closed"}
         /\ vt' \in {"none", "held", "released", "leaked"}
    BY Zenon
  <1>12. /\ sup' \in {"open", "closed"}
         /\ conn' \in {"none", "terminate", "foreign", "bad"}
         /\ timer' \in {"off", "armed", "expired"}
    BY Zenon
  <1>. QED
    BY <1>1, <1>4, <1>5, <1>6, <1>7, <1>8, <1>9, <1>10, <1>11, <1>12, Zenon

\* So do the steps that end one.
LEMMA TerminationTypes ==
    ASSUME TypeOK, RetByPc, TerminationNext
    PROVE  TypeOK'
  <1>1. w' \in Workers
    BY TerminationTypesWorker, Zenon DEF TypeOK
  <1>2. ASSUME NEW next, NEW ret, Polled(next, ret), TypeOK
        PROVE  leader' \in Leaders
    BY <1>2, Zenon DEF TypeOK, Polled, Leaders
  <1>. USE DEF TypeOK, TerminationNext, ReadMembers, ValidatePinnedUnit,
       ProveInvocation, ProveCgroup, ProveInvocationAgain, Poll, ConsumeWakeup,
       AskIfTerminal, Settle, Begin, RequestGraceful, BeginForced, ObserveForced,
       RequestForced, ConfirmForced, TryForcedEmptyProof, PollForced,
       ConsumeForcedWakeup, SettleForced, ForcedDeadlineExpired, ReleasePin,
       ClosePam, BeginVtCleanup, ReleaseVt, CompleteVtCleanup, ReleaseVtLocally,
       Settled, KeepScope, KeepRest, KeepInputs, OwnedVars, InputVars
  <1>3. leader' \in Leaders
    BY <1>2, Zenon
  <1>. USE DEF Polled, Drain, Return, RefreshObserver
  <1>4. faults' \in 0 .. MaxFaults
    BY SpendCounts, Zenon
  <1>5. out' \in {"none", "Started"} \cup Failures
    BY Zenon
  <1>6. others' \in BOOLEAN /\ pinned' \in BOOLEAN
    BY Zenon
  <1>7. wake' \in BOOLEAN /\ sig' \in BOOLEAN
    BY Zenon
  <1>8. unit' \in Units /\ cgroup' \in {"none", "present", "gone"}
    BY Zenon
  <1>9. pipe' \in {"none", "open", "failure", "exec", "closed"}
    BY Zenon
  <1>10. /\ pam' \in {"none", "authenticated", "open", "closed"}
         /\ vt' \in {"none", "held", "released", "leaked"}
    BY Zenon
  <1>11. /\ sup' \in {"open", "closed"}
         /\ conn' \in {"none", "terminate", "foreign", "bad"}
         /\ timer' \in {"off", "armed", "expired"}
    BY Zenon
  <1>. QED
    BY <1>1, <1>3, <1>4, <1>5, <1>6, <1>7, <1>8, <1>9, <1>10, <1>11, Zenon

\* And the steps of the processes, of systemd, of the inputs and the faults.
LEMMA OtherTypes ==
    ASSUME TypeOK, ScopeStep \/ InputStep \/ FaultStep
    PROVE  TypeOK'
  <1>1. w' \in Workers
    <2>1. CASE BusFails \/ WorkerCrashes
      BY <2>1, MovesTyped, PcNames, Zenon DEF TypeOK, BusFails, WorkerCrashes
    <2>2. CASE ~(BusFails \/ WorkerCrashes)
      BY <2>2, Zenon
      DEF TypeOK, ScopeStep, InputStep, FaultStep, LeaderDies, LeaderBecomesZombie,
          SessionForks, OthersExit, ChildDropsPrivileges, ChildExecsProbe, ProbeReady,
          ProbeExecs, ProbeExecFails, SystemdCollects, SystemdFails, SignalArrives,
          TerminateArrives, TimerExpires, OddConnection, SupervisorLeaves, ChildStage,
          Environment, KeepWorker
    <2>. QED
      BY <2>1, <2>2, Zenon
  <1>2. {"dropped", "probe", "ready", "user", "dying", "zombie"} \subseteq Leaders
    BY Zenon DEF Leaders, Probes
  <1>. USE DEF TypeOK, ScopeStep, InputStep, FaultStep, LeaderDies,
       LeaderBecomesZombie, SessionForks, OthersExit, ChildDropsPrivileges,
       ChildExecsProbe, ProbeReady, ProbeExecs, ProbeExecFails, SystemdCollects,
       SystemdFails, BusFails, SignalArrives, TerminateArrives, TimerExpires,
       OddConnection, SupervisorLeaves, WorkerCrashes, ChildStage, Environment,
       KeepWorker, KeepScope, ScopeVars, OwnedVars, InputVars
  <1>3. leader' \in Leaders
    BY <1>2, Zenon
  <1>4. faults' \in 0 .. MaxFaults
    BY SpendCounts, Zenon
  <1>5. out' \in {"none", "Started"} \cup Failures
    BY Zenon
  <1>6. others' \in BOOLEAN /\ pinned' \in BOOLEAN
    BY Zenon
  <1>7. wake' \in BOOLEAN /\ sig' \in BOOLEAN
    BY Zenon
  <1>8. unit' \in Units /\ cgroup' \in {"none", "present", "gone"}
    BY Zenon DEF Units
  <1>9. pipe' \in {"none", "open", "failure", "exec", "closed"}
    BY Zenon
  <1>10. /\ pam' \in {"none", "authenticated", "open", "closed"}
         /\ vt' \in {"none", "held", "released", "leaked"}
    BY Zenon
  <1>11. /\ sup' \in {"open", "closed"}
         /\ conn' \in {"none", "terminate", "foreign", "bad"}
         /\ timer' \in {"off", "armed", "expired"}
    BY Zenon
  <1>. QED
    BY <1>1, <1>3, <1>4, <1>5, <1>6, <1>7, <1>8, <1>9, <1>10, <1>11, Zenon

-----------------------------------------------------------------------------
(* The invariant is kept.  Every case first says where the step leads, then  *)
(* checks what is owned there.                                             *)
Remembers == w'.exit = w.exit /\ w'.acked = w.acked /\ w'.intent = w.intent

\* Before the probe: VT, PAM, the plan of the session.
LEMMA PamStepsKeepByPc ==
    ASSUME IInv,
           \/ ReadRequest \/ ValidateRequest \/ AllocateVt \/ AskGreeter \/ AwaitAnswer
           \/ Authenticate \/ ResolveIdentity \/ OpenSession \/ PrepareEnvironment
           \/ PrepareChild
    PROVE  ByPc'
  <1>0. /\ w \in Workers /\ faults \in 0 .. MaxFaults /\ w.code \in Failures \cup {"none"}
        /\ vt \in {"none", "held", "released", "leaked"}
    BY Zenon DEF IInv, TypeOK, Workers, Codes
  <1>1. /\ PamByPc /\ VtByPc /\ PinByPc /\ OutByPc /\ LeaderByPc
        /\ ProofByPc /\ RetByPc /\ VtOnRecord
    BY Zenon DEF IInv, ByPc
  <1>. USE DEF PamByPc, VtByPc, PinByPc, OutByPc, LeaderByPc, ProofByPc, RetByPc,
        VtOnRecord, VtReleaseIsRecorded, RunningPcs, ScopeUndoPcs, BeforePam,
        BeforeChild, RegisteredPcs, AfterPam, LaunchPcs, UndoPcs, GracefulPcs,
        CheckPcs, ForcedPcs, FinalPcs, Failures, Probes, KeepProcesses, KeepBus,
        ScopeVars, OwnedVars, InputVars
  <1>2. CASE ReadRequest
    <2>1. Remembers /\ w'.ret = w.ret /\ w'.pc \in {"validate", "respond"}
      BY <1>0, <1>2, GotoSets, FailSets, Zenon DEF ReadRequest, Remembers
    <2>2. /\ PamByPc' /\ VtByPc' /\ PinByPc' /\ OutByPc' /\ LeaderByPc'
          /\ ProofByPc' /\ RetByPc' /\ VtOnRecord'
      BY <1>0, <1>1, <1>2, <2>1, Zenon DEF ReadRequest, Remembers
    <2>. QED
      BY <2>2, Zenon DEF ByPc
  <1>3. CASE ValidateRequest
    <2>1. Remembers /\ w'.ret = w.ret /\ w'.pc \in {"allocate", "respond"}
      BY <1>0, <1>3, GotoSets, FailSets, Zenon DEF ValidateRequest, Remembers
    <2>2. /\ PamByPc' /\ VtByPc' /\ PinByPc' /\ OutByPc' /\ LeaderByPc'
          /\ ProofByPc' /\ RetByPc' /\ VtOnRecord'
      BY <1>0, <1>1, <1>3, <2>1 DEF ValidateRequest, Remembers
    <2>. QED
      BY <2>2, Zenon DEF ByPc
  <1>4. CASE AllocateVt
    <2>1. /\ Remembers /\ w'.ret = w.ret
          /\ \/ w'.pc = "authenticate" /\ vt' = "held"
             \/ w'.pc = "respond"
      BY <1>0, <1>4, GotoSets, FailSets, Zenon DEF AllocateVt, Remembers
    <2>2. /\ PamByPc' /\ VtByPc' /\ PinByPc' /\ OutByPc' /\ LeaderByPc'
          /\ ProofByPc' /\ RetByPc' /\ VtOnRecord'
      BY <1>0, <1>1, <1>4, <2>1, Zenon DEF AllocateVt, Remembers
    <2>. QED
      BY <2>2, Zenon DEF ByPc
  <1>a. CASE AskGreeter \/ AwaitAnswer
    <2>1. Remembers /\ w'.ret = w.ret /\ w.pc \in {"authenticate", "asking"}
          /\ w'.pc \in {"authenticate", "asking"}
      BY <1>0, <1>a, GotoSets, Zenon DEF AskGreeter, AwaitAnswer, Remembers
    <2>2. UNCHANGED <<pam, vt, pinned, out, leader, others, sup, faults>>
      BY <1>a, Zenon DEF AskGreeter, AwaitAnswer
    <2>3. /\ PamByPc' /\ VtByPc' /\ PinByPc' /\ OutByPc' /\ LeaderByPc'
          /\ ProofByPc' /\ RetByPc' /\ VtOnRecord'
      BY <1>0, <1>1, <2>1, <2>2 DEF Remembers
    <2>. QED
      BY <2>3, Zenon DEF ByPc
  <1>5. CASE Authenticate
    <2>1. /\ Remembers /\ w'.ret = w.ret
          /\ \/ w'.pc = "identify"
             \/ w'.pc = "respond" /\ pam' = pam
      BY <1>0, <1>5, GotoSets, FailSets, Zenon DEF Authenticate, Remembers
    <2>2. /\ PamByPc' /\ VtByPc' /\ PinByPc' /\ OutByPc' /\ LeaderByPc'
          /\ ProofByPc' /\ RetByPc' /\ VtOnRecord'
      BY <1>0, <1>1, <1>5, <2>1 DEF Authenticate, Remembers
    <2>. QED
      BY <2>2, Zenon DEF ByPc
  <1>6. CASE ResolveIdentity
    <2>1. Remembers /\ w'.ret = w.ret /\ w'.pc \in {"open", "dropPam"}
      BY <1>0, <1>6, GotoSets, FailSets, Zenon DEF ResolveIdentity, Remembers
    <2>2. /\ PamByPc' /\ VtByPc' /\ PinByPc' /\ OutByPc' /\ LeaderByPc'
          /\ ProofByPc' /\ RetByPc' /\ VtOnRecord'
      BY <1>0, <1>1, <1>6, <2>1, Zenon DEF ResolveIdentity, Remembers
    <2>. QED
      BY <2>2, Zenon DEF ByPc
  <1>7. CASE OpenSession
    <2>1. /\ Remembers /\ w'.ret = w.ret
          /\ \/ w'.pc = "environment" /\ pam' = "open"
             \/ w'.pc = "dropPam"
      BY <1>0, <1>7, GotoSets, FailSets, Zenon DEF OpenSession, Remembers
    <2>2. /\ PamByPc' /\ VtByPc' /\ PinByPc' /\ OutByPc' /\ LeaderByPc'
          /\ ProofByPc' /\ RetByPc' /\ VtOnRecord'
      BY <1>0, <1>1, <1>7, <2>1 DEF OpenSession, Remembers
    <2>. QED
      BY <2>2, Zenon DEF ByPc
  <1>8. CASE PrepareEnvironment
    <2>1. Remembers /\ w'.ret = w.ret /\ w'.pc \in {"prepareChild", "dropPam"}
      BY <1>0, <1>8, GotoSets, FailSets, Zenon DEF PrepareEnvironment, Remembers
    <2>2. /\ PamByPc' /\ VtByPc' /\ PinByPc' /\ OutByPc' /\ LeaderByPc'
          /\ ProofByPc' /\ RetByPc' /\ VtOnRecord'
      BY <1>0, <1>1, <1>8, <2>1, Zenon DEF PrepareEnvironment, Remembers
    <2>. QED
      BY <2>2, Zenon DEF ByPc
  <1>9. CASE PrepareChild
    <2>1. Remembers /\ w'.ret = w.ret /\ w'.pc \in {"spawn", "dropPam"}
      BY <1>0, <1>9, GotoSets, FailSets, Zenon DEF PrepareChild, Remembers
    <2>2. /\ PamByPc' /\ VtByPc' /\ PinByPc' /\ OutByPc' /\ LeaderByPc'
          /\ ProofByPc' /\ RetByPc' /\ VtOnRecord'
      BY <1>0, <1>1, <1>9, <2>1 DEF PrepareChild, Remembers
    <2>. QED
      BY <2>2, Zenon DEF ByPc
  <1>. QED
    BY <1>2, <1>3, <1>4, <1>a, <1>5, <1>6, <1>7, <1>8, <1>9, Zenon

\* The probe and its scope.
LEMMA ScopeStepsKeepByPc ==
    ASSUME IInv,
           \/ SpawnChild \/ AwaitReady \/ CheckReady \/ StartScope
           \/ CheckScope \/ PinScope
    PROVE  ByPc'
  <1>0. /\ w \in Workers /\ faults \in 0 .. MaxFaults /\ w.code \in Failures \cup {"none"}
        /\ vt \in {"none", "held", "released", "leaked"}
    BY Zenon DEF IInv, TypeOK, Workers, Codes
  <1>1. /\ PamByPc /\ VtByPc /\ PinByPc /\ OutByPc /\ LeaderByPc
        /\ ProofByPc /\ RetByPc /\ VtOnRecord
    BY Zenon DEF IInv, ByPc
  <1>. USE DEF PamByPc, VtByPc, PinByPc, OutByPc, LeaderByPc, ProofByPc, RetByPc,
        VtOnRecord, VtReleaseIsRecorded, RunningPcs, ScopeUndoPcs, BeforePam,
        BeforeChild, RegisteredPcs, AfterPam, LaunchPcs, UndoPcs, GracefulPcs,
        CheckPcs, ForcedPcs, FinalPcs, Failures, Probes, KeepProcesses, KeepBus,
        ScopeVars, OwnedVars, InputVars
  <1>2. CASE SpawnChild
    <2>1. /\ Remembers /\ w'.ret = w.ret
          /\ \/ w'.pc = "awaitReady" /\ leader' = "root"
             \/ w'.pc = "dropPam" /\ leader' \in {"none", "dying"}
      BY <1>0, <1>2, GotoSets, FailSets, Zenon DEF SpawnChild, Remembers
    <2>2. /\ PamByPc' /\ VtByPc' /\ PinByPc' /\ OutByPc' /\ LeaderByPc'
          /\ ProofByPc' /\ RetByPc' /\ VtOnRecord'
      BY <1>0, <1>1, <1>2, <2>1, Zenon DEF SpawnChild, Remembers
    <2>. QED
      BY <2>2, Zenon DEF ByPc
  <1>3. CASE AwaitReady
    <2>1. Remembers /\ w'.ret = w.ret /\ w'.pc \in {"checkReady", "abort"}
      BY <1>0, <1>3, GotoSets, FailSets, Zenon DEF AwaitReady, Remembers
    <2>2. /\ PamByPc' /\ VtByPc' /\ PinByPc' /\ OutByPc' /\ LeaderByPc'
          /\ ProofByPc' /\ RetByPc' /\ VtOnRecord'
      BY <1>0, <1>1, <1>3, <2>1 DEF AwaitReady, Remembers
    <2>. QED
      BY <2>2, Zenon DEF ByPc
  <1>4. CASE CheckReady
    <2>1. Remembers /\ w'.ret = w.ret /\ w'.pc \in {"startScope", "abort"}
      BY <1>0, <1>4, GotoSets, FailSets, Zenon DEF CheckReady, Remembers
    <2>2. /\ PamByPc' /\ VtByPc' /\ PinByPc' /\ OutByPc' /\ LeaderByPc'
          /\ ProofByPc' /\ RetByPc' /\ VtOnRecord'
      BY <1>0, <1>1, <1>4, <2>1, Zenon DEF CheckReady, Remembers
    <2>. QED
      BY <2>2, Zenon DEF ByPc
  <1>5. CASE StartScope
    <2>1. Remembers /\ w'.ret = w.ret /\ w'.pc \in {"checkScope", "abort"}
      BY <1>0, <1>5, GotoSets, FailSets, Zenon DEF StartScope, Remembers
    <2>2. /\ PamByPc' /\ VtByPc' /\ PinByPc' /\ OutByPc' /\ LeaderByPc'
          /\ ProofByPc' /\ RetByPc' /\ VtOnRecord'
      BY <1>0, <1>1, <1>5, <2>1 DEF StartScope, StopCreatedUnit, Remembers
    <2>. QED
      BY <2>2, Zenon DEF ByPc
  <1>6. CASE CheckScope
    <2>1. Remembers /\ w'.ret = w.ret /\ w'.pc \in {"pinScope", "abort"}
      BY <1>0, <1>6, GotoSets, FailSets, Zenon DEF CheckScope, Remembers
    <2>2. /\ PamByPc' /\ VtByPc' /\ PinByPc' /\ OutByPc' /\ LeaderByPc'
          /\ ProofByPc' /\ RetByPc' /\ VtOnRecord'
      BY <1>0, <1>1, <1>6, <2>1, Zenon DEF CheckScope, StopCreatedUnit, Remembers
    <2>. QED
      BY <2>2, Zenon DEF ByPc
  <1>7. CASE PinScope
    <2>1. /\ Remembers /\ w'.ret = w.ret
          /\ \/ w'.pc = "register" /\ pinned'
             \/ w'.pc = "abort"
      BY <1>0, <1>7, GotoSets, FailSets, Zenon DEF PinScope, Remembers
    <2>2. /\ PamByPc' /\ VtByPc' /\ PinByPc' /\ OutByPc' /\ LeaderByPc'
          /\ ProofByPc' /\ RetByPc' /\ VtOnRecord'
      BY <1>0, <1>1, <1>7, <2>1 DEF PinScope, StopCreatedUnit, Remembers
    <2>. QED
      BY <2>2, Zenon DEF ByPc
  <1>. QED
    BY <1>2, <1>3, <1>4, <1>5, <1>6, <1>7, Zenon

\* Registration, commit, Started.
LEMMA CommitStepsKeepByPc ==
    ASSUME IInv,
           \/ RegisterScope \/ AwaitAck \/ CommitExec \/ AwaitExec
           \/ VerifyContext \/ ReportStarted
    PROVE  ByPc'
  <1>0. /\ w \in Workers /\ faults \in 0 .. MaxFaults /\ w.code \in Failures \cup {"none"}
        /\ vt \in {"none", "held", "released", "leaked"}
    BY DEF IInv, TypeOK, Workers, Codes
  <1>1. /\ PamByPc /\ VtByPc /\ PinByPc /\ OutByPc /\ LeaderByPc
        /\ ProofByPc /\ RetByPc /\ VtOnRecord
    BY Zenon DEF IInv, ByPc
  <1>. USE DEF PamByPc, VtByPc, PinByPc, OutByPc, LeaderByPc, ProofByPc, RetByPc,
        VtOnRecord, VtReleaseIsRecorded, RunningPcs, ScopeUndoPcs, BeforePam,
        BeforeChild, RegisteredPcs, AfterPam, LaunchPcs, UndoPcs, GracefulPcs,
        CheckPcs, ForcedPcs, FinalPcs, Failures, Probes, KeepProcesses, KeepBus,
        ScopeVars, OwnedVars, InputVars
  <1>2. CASE RegisterScope
    <2>1. /\ Remembers
          /\ \/ w'.pc = "awaitAck"
             \/ w'.pc = "undoAbort" /\ w'.ret = "mute"
      BY <1>0, <1>2, GotoSets, UndoSets, Zenon DEF RegisterScope, Remembers
    <2>2. /\ PamByPc' /\ VtByPc' /\ PinByPc' /\ OutByPc' /\ LeaderByPc'
          /\ ProofByPc' /\ RetByPc' /\ VtOnRecord'
      BY <1>0, <1>1, <1>2, <2>1, SpendCounts, Zenon DEF RegisterScope, Remembers
    <2>. QED
      BY <2>2, Zenon DEF ByPc
  <1>3. CASE AwaitAck
    <2>1. /\ w'.exit = w.exit /\ w'.intent = w.intent
          /\ \/ w'.pc = "commit" /\ w'.acked
             \/ w'.pc = "undoAbort" /\ w'.ret = "strict" /\ w'.acked = w.acked
      BY <1>0, <1>3, UndoSets, Zenon DEF AwaitAck, Workers, Remembers
    <2>2. /\ PamByPc' /\ VtByPc' /\ PinByPc' /\ OutByPc' /\ LeaderByPc'
          /\ ProofByPc' /\ RetByPc' /\ VtOnRecord'
      BY <1>0, <1>1, <1>3, <2>1, Zenon DEF AwaitAck, Remembers
    <2>. QED
      BY <2>2, Zenon DEF ByPc
  <1>4. CASE CommitExec
    <2>1. /\ Remembers
          /\ \/ w'.pc = "awaitExec" /\ leader' = "committed"
             \/ w'.pc = "undoAbort" /\ w'.ret \in {"strict", "loose"} /\ leader' = leader
      BY <1>0, <1>4, GotoSets, UndoSets, Zenon DEF CommitExec, Remembers
    <2>2. /\ PamByPc' /\ VtByPc' /\ PinByPc' /\ OutByPc' /\ LeaderByPc'
          /\ ProofByPc' /\ RetByPc' /\ VtOnRecord'
      BY <1>0, <1>1, <1>4, <2>1, Zenon DEF CommitExec, Remembers
    <2>. QED
      BY <2>2, Zenon DEF ByPc
  <1>5. CASE AwaitExec
    <2>1. /\ Remembers
          /\ \/ w'.pc = "verify"
             \/ w'.pc = "undoAbort" /\ w'.ret = "loose"
      BY <1>0, <1>5, GotoSets, UndoSets, Zenon DEF AwaitExec, Remembers
    <2>2. /\ PamByPc' /\ VtByPc' /\ PinByPc' /\ OutByPc' /\ LeaderByPc'
          /\ ProofByPc' /\ RetByPc' /\ VtOnRecord'
      BY <1>0, <1>1, <1>5, <2>1, Zenon DEF AwaitExec, Remembers
    <2>. QED
      BY <2>2, Zenon DEF ByPc
  <1>6. CASE VerifyContext
    <2>1. /\ Remembers
          /\ \/ w'.pc = "report" /\ leader' = leader
             \/ w'.pc = "undoCleanup" /\ w'.ret = "loose" /\ leader' = "reaped"
      BY <1>0, <1>6, GotoSets, Zenon DEF VerifyContext, Workers, Remembers
    <2>2. /\ PamByPc' /\ VtByPc' /\ PinByPc' /\ OutByPc' /\ LeaderByPc'
          /\ ProofByPc' /\ RetByPc' /\ VtOnRecord'
      BY <1>0, <1>1, <1>6, <2>1, Zenon DEF VerifyContext, Remembers
    <2>. QED
      BY <2>2, Zenon DEF ByPc
  <1>7. CASE ReportStarted
    <2>1. /\ Remembers /\ w'.ret = w.ret
          /\ \/ w'.pc = "poll" /\ out' = "Started" /\ faults' = faults
             \/ w'.pc = "abort" /\ out' = out
      BY <1>0, <1>7, GotoSets, FailSets, Zenon DEF ReportStarted, Remembers
    <2>2. /\ PamByPc' /\ VtByPc' /\ PinByPc' /\ OutByPc' /\ LeaderByPc'
          /\ ProofByPc' /\ RetByPc' /\ VtOnRecord'
      BY <1>0, <1>1, <1>7, <2>1, SpendCounts, Zenon DEF ReportStarted, Remembers
    <2>. QED
      BY <2>2, Zenon DEF ByPc
  <1>. QED
    BY <1>2, <1>3, <1>4, <1>5, <1>6, <1>7, Zenon

\* Undoing.
LEMMA UndoStepsKeepByPc ==
    ASSUME IInv,
           \/ AbortBeforeScope \/ AbortWithScope \/ CleanupScope
           \/ StopScope \/ RequestScopeRelease \/ DropTransaction \/ Respond
           \/ DropVt
    PROVE  ByPc'
  <1>0. /\ w \in Workers /\ faults \in 0 .. MaxFaults /\ w.code \in Failures \cup {"none"}
        /\ vt \in {"none", "held", "released", "leaked"}
    BY Zenon DEF IInv, TypeOK, Workers, Codes
  <1>1. /\ PamByPc /\ VtByPc /\ PinByPc /\ OutByPc /\ LeaderByPc
        /\ ProofByPc /\ RetByPc /\ VtOnRecord
    BY Zenon DEF IInv, ByPc
  <1>. USE DEF PamByPc, VtByPc, PinByPc, OutByPc, LeaderByPc, ProofByPc, RetByPc,
        VtOnRecord, VtReleaseIsRecorded, RunningPcs, ScopeUndoPcs, BeforePam,
        BeforeChild, RegisteredPcs, AfterPam, LaunchPcs, UndoPcs, GracefulPcs,
        CheckPcs, ForcedPcs, FinalPcs, Failures, Probes, KeepProcesses, KeepBus,
        ScopeVars, OwnedVars, InputVars
  <1>2. CASE AbortBeforeScope
    <2>1. Remembers /\ w'.ret = w.ret /\ w'.pc = "dropPam"
      BY <1>0, <1>2, GotoSets, Zenon DEF AbortBeforeScope, Remembers
    <2>2. /\ PamByPc' /\ VtByPc' /\ PinByPc' /\ OutByPc' /\ LeaderByPc'
          /\ ProofByPc' /\ RetByPc' /\ VtOnRecord'
      BY <1>0, <1>1, <1>2, <2>1 DEF AbortBeforeScope, ReapLeader, Remembers
    <2>. QED
      BY <2>2, Zenon DEF ByPc
  <1>3. CASE AbortWithScope
    <2>1. Remembers /\ w'.ret = w.ret /\ w'.pc = "undoCleanup"
      BY <1>0, <1>3, GotoSets, Zenon DEF AbortWithScope, Remembers
    <2>2. /\ PamByPc' /\ VtByPc' /\ PinByPc' /\ OutByPc' /\ LeaderByPc'
          /\ ProofByPc' /\ RetByPc' /\ VtOnRecord'
      BY <1>0, <1>1, <1>3, <2>1, Zenon DEF AbortWithScope, ReapLeader, Remembers
    <2>. QED
      BY <2>2, Zenon DEF ByPc
  <1>4. CASE CleanupScope
    <2>1. /\ Remembers /\ w'.ret = w.ret
          /\ \/ w'.pc = "undoStop" /\ pinned' = pinned
             \/ /\ w'.pc \in {"dropPam", "askRelease"}
                /\ w.ret = "strict" /\ pinned => pinned'
      BY <1>0, <1>4, GotoSets, ZenonT(60) DEF CleanupScope, CleanedUp, Remembers
    <2>2. /\ PamByPc' /\ VtByPc' /\ PinByPc' /\ OutByPc' /\ LeaderByPc'
          /\ ProofByPc' /\ RetByPc' /\ VtOnRecord'
      BY <1>0, <1>1, <1>4, <2>1 DEF CleanupScope, CleanedUp, Remembers
    <2>. QED
      BY <2>2, Zenon DEF ByPc
  <1>5. CASE StopScope
    <2>1. /\ Remembers /\ w'.ret = w.ret
          /\ w'.pc \in {"dropPam", "askRelease"}
          /\ w.ret = "strict" /\ pinned => pinned'
      BY <1>0, <1>5, GotoSets, ZenonT(60) DEF StopScope, CleanedUp, Remembers
    <2>2. /\ PamByPc' /\ VtByPc' /\ PinByPc' /\ OutByPc' /\ LeaderByPc'
          /\ ProofByPc' /\ RetByPc' /\ VtOnRecord'
      BY <1>0, <1>1, <1>5, <2>1 DEF StopScope, CleanedUp, Remembers
    <2>. QED
      BY <2>2, Zenon DEF ByPc
  <1>6. CASE RequestScopeRelease
    <2>1. /\ Remembers /\ w'.ret = w.ret
          /\ \/ w'.pc = "dropPam"
             \/ w'.pc = "retained" /\ w.ret = "strict" /\ pinned' = pinned
      BY <1>0, <1>6, GotoSets, Zenon DEF RequestScopeRelease, Remembers
    <2>2. /\ PamByPc' /\ VtByPc' /\ PinByPc' /\ OutByPc' /\ LeaderByPc'
          /\ ProofByPc' /\ RetByPc' /\ VtOnRecord'
      BY <1>0, <1>1, <1>6, <2>1, SpendCounts, Zenon DEF RequestScopeRelease, Remembers
    <2>. QED
      BY <2>2, Zenon DEF ByPc
  <1>7. CASE DropTransaction
    <2>1. Remembers /\ w'.ret = w.ret /\ w'.pc = "respond"
      BY <1>0, <1>7, GotoSets, Zenon DEF DropTransaction, Remembers
    <2>2. /\ PamByPc' /\ VtByPc' /\ PinByPc' /\ OutByPc' /\ LeaderByPc'
          /\ ProofByPc' /\ RetByPc' /\ VtOnRecord'
      BY <1>0, <1>1, <1>7, <2>1 DEF DropTransaction, Remembers
    <2>. QED
      BY <2>2, Zenon DEF ByPc
  <1>8. CASE Respond
    <2>1. Remembers /\ w'.ret = w.ret /\ w'.pc = "dropVt"
      BY <1>0, <1>8, GotoSets, Zenon DEF Respond, Remembers
    <2>2. /\ PamByPc' /\ VtByPc' /\ PinByPc' /\ OutByPc' /\ LeaderByPc'
          /\ ProofByPc' /\ RetByPc' /\ VtOnRecord'
      BY <1>0, <1>1, <1>8, <2>1, SpendCounts, Zenon DEF Respond, Remembers
    <2>. QED
      BY <2>2, Zenon DEF ByPc
  <1>9. CASE DropVt
    <2>1. Remembers /\ w'.ret = w.ret /\ w'.pc = "exited"
      BY <1>0, <1>9, GotoSets, Zenon DEF DropVt, Remembers
    <2>2. /\ PamByPc' /\ VtByPc' /\ PinByPc' /\ OutByPc' /\ LeaderByPc'
          /\ ProofByPc' /\ RetByPc' /\ VtOnRecord'
      BY <1>0, <1>1, <1>9, <2>1 DEF DropVt, Remembers
    <2>. QED
      BY <2>2, Zenon DEF ByPc
  <1>. QED
    BY <1>2, <1>3, <1>4, <1>5, <1>6, <1>7, <1>8, <1>9, Zenon

=============================================================================
