------------------------- MODULE WorkerProcessProofs -------------------------
(***************************************************************************)
(* Proofs about the session worker: the inductive invariant, the four      *)
(* safety invariants that follow from it, the action property of the       *)
(* forced deadline, and the implementation of SessionEnd.                  *)
(***************************************************************************)
EXTENDS WorkerLaunchProofs

-----------------------------------------------------------------------------
(* The steps that end a session keep the inductive invariant.              *)

\* The checks of the scope and the empty proof.
LEMMA CheckStepsKeepByPc ==
    ASSUME IInv,
           \/ ReadMembers \/ ValidatePinnedUnit \/ ProveInvocation
           \/ ProveCgroup \/ ProveInvocationAgain
    PROVE  ByPc'
  <1>0. /\ w \in Workers /\ faults \in 0 .. MaxFaults /\ w.code \in Failures \cup {"none"}
        /\ vt \in {"none", "held", "released", "leaked"}
    BY Zenon DEF IInv, TypeOK, Workers, Codes
  <1>1. /\ PamByPc /\ VtByPc /\ PinByPc /\ OutByPc /\ LeaderByPc
        /\ ProofByPc /\ RetByPc /\ VtOnRecord
    BY Zenon DEF IInv, ByPc
  <1>. USE DEF PamByPc, VtByPc, PinByPc, OutByPc, LeaderByPc, ProofByPc, RetByPc,
        VtOnRecord, VtReleaseIsRecorded, RunningPcs, ScopeUndoPcs, BeforePam,
        BeforeChild, RegisteredPcs, AfterPam, LaunchPcs, UndoPcs, GracefulPcs,
        CheckPcs, ForcedPcs, FinalPcs, Failures, Probes, Settled, KeepScope,
        KeepRest, KeepInputs, OwnedVars, InputVars
  <1>2. CASE ReadMembers
    <2>1. Remembers /\ w'.ret = w.ret /\ w'.pc \in {"identity", "retained"}
      BY <1>0, <1>2, GotoSets, Zenon DEF ReadMembers, Remembers
    <2>2. /\ PamByPc' /\ VtByPc' /\ PinByPc' /\ OutByPc' /\ LeaderByPc'
          /\ ProofByPc' /\ RetByPc' /\ VtOnRecord'
      BY <1>0, <1>1, <1>2, <2>1, Zenon DEF ReadMembers, Remembers
    <2>. QED
      BY <2>2, Zenon DEF ByPc
  <1>3. CASE ValidatePinnedUnit
    <2>1. /\ Remembers /\ w'.ret = w.ret
          /\ \/ w'.pc = w.ret
             \/ w'.pc = "retained"
      BY <1>0, <1>3, GotoSets, Zenon DEF ValidatePinnedUnit, Remembers
    <2>2. /\ PamByPc' /\ VtByPc' /\ PinByPc' /\ OutByPc' /\ LeaderByPc'
          /\ ProofByPc' /\ RetByPc' /\ VtOnRecord'
      BY <1>0, <1>1, <1>3, <2>1 DEF ValidatePinnedUnit, Remembers
    <2>. QED
      BY <2>2, Zenon DEF ByPc
  <1>4. CASE ProveInvocation
    <2>1. /\ Remembers
          /\ \/ w'.pc = "prove2" /\ w'.ret = w.ret
             \/ w'.pc = "members" /\ w'.ret = "force"
             \/ w'.pc = w.ret /\ w.ret # "graceful"
             \/ w'.pc = "retained"
      <3>1. \A seen : w' = [w EXCEPT !.pc = "prove2", !.seen = seen]
                         => Remembers /\ w'.pc = "prove2" /\ w'.ret = w.ret
        BY <1>0, Zenon DEF Workers, Remembers
      <3>2. \/ \E seen : w' = [w EXCEPT !.pc = "prove2", !.seen = seen]
            \/ NotProven
            \/ Goto("retained")
        BY <1>4, Zenon DEF ProveInvocation
      <3>. QED
        BY <1>0, <3>1, <3>2, GotoSets, CallSets, Zenon DEF NotProven, Remembers
    <2>2. /\ PamByPc' /\ VtByPc' /\ PinByPc' /\ OutByPc' /\ LeaderByPc'
          /\ ProofByPc' /\ RetByPc' /\ VtOnRecord'
      BY <1>0, <1>1, <1>4, <2>1, Zenon DEF ProveInvocation, Remembers
    <2>. QED
      BY <2>2, Zenon DEF ByPc
  <1>5. CASE ProveCgroup
    <2>1. /\ Remembers
          /\ \/ w'.pc = "prove3" /\ w'.ret = w.ret /\ ~Populated
             \/ w'.pc = "members" /\ w'.ret = "force"
             \/ w'.pc = w.ret /\ w.ret # "graceful"
      BY <1>0, <1>5, GotoSets, CallSets, Zenon DEF ProveCgroup, NotProven, Remembers
    <2>2. /\ PamByPc' /\ VtByPc' /\ PinByPc' /\ OutByPc' /\ LeaderByPc'
          /\ ProofByPc' /\ RetByPc' /\ VtOnRecord'
      BY <1>0, <1>1, <1>5, <2>1 DEF ProveCgroup, Populated, LeaderLives, Remembers
    <2>. QED
      BY <2>2, Zenon DEF ByPc
  <1>6. CASE ProveInvocationAgain
    <2>1. Remembers /\ w'.ret = w.ret /\ w'.pc \in {"unpin", "retained"}
      BY <1>0, <1>6, GotoSets, Zenon DEF ProveInvocationAgain, Remembers
    <2>2. /\ PamByPc' /\ VtByPc' /\ PinByPc' /\ OutByPc' /\ LeaderByPc'
          /\ ProofByPc' /\ RetByPc' /\ VtOnRecord'
      BY <1>0, <1>1, <1>6, <2>1, Zenon DEF ProveInvocationAgain, Remembers
    <2>. QED
      BY <2>2, Zenon DEF ByPc
  <1>. QED
    BY <1>2, <1>3, <1>4, <1>5, <1>6, Zenon

\* The graceful cycle.
LEMMA GracefulStepsKeepByPc ==
    ASSUME IInv,
           \/ ConsumeWakeup \/ AskIfTerminal \/ Settle \/ Begin
           \/ RequestGraceful \/ Poll \/ PollForced
    PROVE  ByPc'
  <1>0. /\ w \in Workers /\ faults \in 0 .. MaxFaults /\ w.code \in Failures \cup {"none"}
        /\ vt \in {"none", "held", "released", "leaked"}
    BY Zenon DEF IInv, TypeOK, Workers, Codes
  <1>1. /\ PamByPc /\ VtByPc /\ PinByPc /\ OutByPc /\ LeaderByPc
        /\ ProofByPc /\ RetByPc /\ VtOnRecord
    BY Zenon DEF IInv, ByPc
  <1>. USE DEF PamByPc, VtByPc, PinByPc, OutByPc, LeaderByPc, ProofByPc, RetByPc,
        VtOnRecord, VtReleaseIsRecorded, RunningPcs, ScopeUndoPcs, BeforePam,
        BeforeChild, RegisteredPcs, AfterPam, LaunchPcs, UndoPcs, GracefulPcs,
        CheckPcs, ForcedPcs, FinalPcs, Failures, Probes, Settled, KeepScope,
        KeepRest, KeepInputs, OwnedVars, InputVars
  <1>2. CASE ConsumeWakeup
    <2>1. Remembers /\ w'.ret = w.ret /\ w'.pc \in {"ask", "retained"}
      BY <1>0, <1>2, GotoSets, Zenon DEF ConsumeWakeup, Remembers
    <2>2. /\ PamByPc' /\ VtByPc' /\ PinByPc' /\ OutByPc' /\ LeaderByPc'
          /\ ProofByPc' /\ RetByPc' /\ VtOnRecord'
      BY <1>0, <1>1, <1>2, <2>1 DEF ConsumeWakeup, Remembers
    <2>. QED
      BY <2>2, Zenon DEF ByPc
  <1>3. CASE AskIfTerminal
    <2>1. /\ Remembers
          /\ \/ w'.pc \in {"settle", "retained"}
             \/ w'.pc = "prove1" /\ w'.ret = "graceful" /\ w.exit
             \/ w'.pc = "members" /\ w'.ret = "force"
      BY <1>0, <1>3, GotoSets, CallSets, Zenon DEF AskIfTerminal, Remembers
    <2>2. /\ PamByPc' /\ VtByPc' /\ PinByPc' /\ OutByPc' /\ LeaderByPc'
          /\ ProofByPc' /\ RetByPc' /\ VtOnRecord'
      BY <1>0, <1>1, <1>3, <2>1, Zenon DEF AskIfTerminal, Remembers
    <2>. QED
      BY <2>2, Zenon DEF ByPc
  <1>4. CASE Settle
    <2>1. /\ Remembers
          /\ \/ w'.pc \in {"poll", "begin", "retained"}
             \/ w'.pc = "members" /\ w'.ret = "force"
      <3>1. w' = [w EXCEPT !.pc = "begin", !.cause = Trigger]
              => Remembers /\ w'.pc = "begin"
        BY <1>0, Zenon DEF Workers, Remembers
      <3>. QED
        BY <1>0, <1>4, <3>1, GotoSets, CallSets DEF Settle, Remembers
    <2>2. /\ PamByPc' /\ VtByPc' /\ PinByPc' /\ OutByPc' /\ LeaderByPc'
          /\ ProofByPc' /\ RetByPc' /\ VtOnRecord'
      BY <1>0, <1>1, <1>4, <2>1, Zenon DEF Settle, Drain, Remembers
    <2>. QED
      BY <2>2, Zenon DEF ByPc
  <1>5. CASE Begin
    <2>1. /\ Remembers
          /\ \/ w'.pc = "retained"
             \/ w'.pc = "members" /\ w'.ret = "sigterm"
      BY <1>0, <1>5, GotoSets, CallSets, Zenon DEF Begin, Remembers
    <2>2. /\ PamByPc' /\ VtByPc' /\ PinByPc' /\ OutByPc' /\ LeaderByPc'
          /\ ProofByPc' /\ RetByPc' /\ VtOnRecord'
      BY <1>0, <1>1, <1>5, <2>1, Zenon DEF Begin, Remembers
    <2>. QED
      BY <2>2, Zenon DEF ByPc
  <1>6. CASE RequestGraceful
    <2>1. Remembers /\ w'.pc \in {"poll", "retained"}
      BY <1>0, <1>6, GotoSets, Zenon DEF RequestGraceful, Workers, Remembers
    <2>2. /\ PamByPc' /\ VtByPc' /\ PinByPc' /\ OutByPc' /\ LeaderByPc'
          /\ ProofByPc' /\ RetByPc' /\ VtOnRecord'
      BY <1>0, <1>1, <1>6, <2>1, Zenon DEF RequestGraceful, Remembers
    <2>. QED
      BY <2>2, Zenon DEF ByPc
  <1>7. CASE Poll \/ PollForced
    <2>1. /\ w'.acked = w.acked /\ w'.intent = w.intent
          /\ \/ leader' = leader /\ w'.exit = w.exit
             \/ leader' = "reaped" /\ w'.exit
          /\ \/ w.pc = "poll" /\ w'.pc \in {"observe", "settle"}
             \/ w.pc = "fPoll" /\ w'.pc = "fObserve"
             \/ w.pc = "fPoll" /\ w'.pc = "fTry" /\ w'.ret = "fObserve"
      BY <1>0, <1>7, PolledSets, Zenon DEF Poll, PollForced
    <2>2. /\ PamByPc' /\ VtByPc' /\ PinByPc' /\ OutByPc' /\ LeaderByPc'
          /\ ProofByPc' /\ RetByPc' /\ VtOnRecord'
      BY <1>0, <1>1, <1>7, <2>1 DEF Poll, PollForced, Polled
    <2>. QED
      BY <2>2, Zenon DEF ByPc
  <1>. QED
    BY <1>2, <1>3, <1>4, <1>5, <1>6, <1>7, Zenon

\* The forced cycle.
LEMMA ForcedStepsKeepByPc ==
    ASSUME IInv,
           \/ BeginForced \/ ObserveForced \/ RequestForced \/ ConfirmForced
           \/ TryForcedEmptyProof \/ ConsumeForcedWakeup \/ SettleForced
           \/ ForcedDeadlineExpired
    PROVE  ByPc'
  <1>0. /\ w \in Workers /\ faults \in 0 .. MaxFaults /\ w.code \in Failures \cup {"none"}
        /\ vt \in {"none", "held", "released", "leaked"}
    BY Zenon DEF IInv, TypeOK, Workers, Codes
  <1>1. /\ PamByPc /\ VtByPc /\ PinByPc /\ OutByPc /\ LeaderByPc
        /\ ProofByPc /\ RetByPc /\ VtOnRecord
    BY Zenon DEF IInv, ByPc
  <1>. USE DEF PamByPc, VtByPc, PinByPc, OutByPc, LeaderByPc, ProofByPc, RetByPc,
        VtOnRecord, VtReleaseIsRecorded, RunningPcs, ScopeUndoPcs, BeforePam,
        BeforeChild, RegisteredPcs, AfterPam, LaunchPcs, UndoPcs, GracefulPcs,
        CheckPcs, ForcedPcs, FinalPcs, Failures, Probes, Settled, KeepScope,
        KeepRest, KeepInputs, OwnedVars, InputVars
  <1>2. CASE BeginForced
    <2>1. Remembers /\ w'.pc = "members" /\ w'.ret = "fObserver"
      BY <1>0, <1>2, CallSets, Zenon DEF BeginForced, Remembers
    <2>2. /\ PamByPc' /\ VtByPc' /\ PinByPc' /\ OutByPc' /\ LeaderByPc'
          /\ ProofByPc' /\ RetByPc' /\ VtOnRecord'
      BY <1>0, <1>1, <1>2, <2>1, Zenon DEF BeginForced, Remembers
    <2>. QED
      BY <2>2, Zenon DEF ByPc
  <1>3. CASE ObserveForced
    <2>1. /\ Remembers
          /\ \/ w'.pc = "retained"
             \/ w'.pc = "members" /\ w'.ret = "sigkill"
      BY <1>0, <1>3, GotoSets, Zenon DEF ObserveForced, Workers, Remembers
    <2>2. /\ PamByPc' /\ VtByPc' /\ PinByPc' /\ OutByPc' /\ LeaderByPc'
          /\ ProofByPc' /\ RetByPc' /\ VtOnRecord'
      BY <1>0, <1>1, <1>3, <2>1, Zenon DEF ObserveForced, Remembers
    <2>. QED
      BY <2>2, Zenon DEF ByPc
  <1>4. CASE RequestForced
    <2>1. Remembers /\ w'.pc \in {"fConfirm", "retained"}
      BY <1>0, <1>4, GotoSets, Zenon DEF RequestForced, Remembers
    <2>2. /\ PamByPc' /\ VtByPc' /\ PinByPc' /\ OutByPc' /\ LeaderByPc'
          /\ ProofByPc' /\ RetByPc' /\ VtOnRecord'
      BY <1>0, <1>1, <1>4, <2>1, Zenon DEF RequestForced, Remembers
    <2>. QED
      BY <2>2, Zenon DEF ByPc
  <1>5. CASE ConfirmForced
    <2>1. /\ Remembers
          /\ \/ w'.pc = "retained"
             \/ w'.pc = "fTry" /\ w'.ret = "fPoll"
      BY <1>0, <1>5, GotoSets, CallSets, Zenon DEF ConfirmForced, Remembers
    <2>2. /\ PamByPc' /\ VtByPc' /\ PinByPc' /\ OutByPc' /\ LeaderByPc'
          /\ ProofByPc' /\ RetByPc' /\ VtOnRecord'
      BY <1>0, <1>1, <1>5, <2>1, Zenon DEF ConfirmForced, Remembers
    <2>. QED
      BY <2>2, Zenon DEF ByPc
  <1>6. CASE TryForcedEmptyProof
    <2>1. /\ Remembers /\ w'.ret = w.ret
          /\ \/ w'.pc = "retained"
             \/ w'.pc = "prove1" /\ w.exit
             \/ w'.pc = w.ret
      BY <1>0, <1>6, GotoSets, Zenon DEF TryForcedEmptyProof, Remembers
    <2>2. /\ PamByPc' /\ VtByPc' /\ PinByPc' /\ OutByPc' /\ LeaderByPc'
          /\ ProofByPc' /\ RetByPc' /\ VtOnRecord'
      BY <1>0, <1>1, <1>6, <2>1 DEF TryForcedEmptyProof, Remembers
    <2>. QED
      BY <2>2, Zenon DEF ByPc
  <1>7. CASE ConsumeForcedWakeup
    <2>1. /\ Remembers
          /\ \/ w'.pc \in {"fSettle", "retained"}
             \/ w'.pc = "fTry" /\ w'.ret = "fSettle"
      BY <1>0, <1>7, GotoSets, CallSets, Zenon DEF ConsumeForcedWakeup, Remembers
    <2>2. /\ PamByPc' /\ VtByPc' /\ PinByPc' /\ OutByPc' /\ LeaderByPc'
          /\ ProofByPc' /\ RetByPc' /\ VtOnRecord'
      BY <1>0, <1>1, <1>7, <2>1, Zenon DEF ConsumeForcedWakeup, Remembers
    <2>. QED
      BY <2>2, Zenon DEF ByPc
  <1>8. CASE SettleForced
    <2>1. /\ Remembers
          /\ \/ w'.pc \in {"fPoll", "retained"}
             \/ w'.pc = "fTry" /\ w'.ret = "fExpired"
      BY <1>0, <1>8, GotoSets, CallSets, Zenon DEF SettleForced, Remembers
    <2>2. /\ PamByPc' /\ VtByPc' /\ PinByPc' /\ OutByPc' /\ LeaderByPc'
          /\ ProofByPc' /\ RetByPc' /\ VtOnRecord'
      BY <1>0, <1>1, <1>8, <2>1, Zenon DEF SettleForced, Drain, Remembers
    <2>. QED
      BY <2>2, Zenon DEF ByPc
  <1>9. CASE ForcedDeadlineExpired
    <2>1. Remembers /\ w'.pc = "retained"
      BY <1>0, <1>9, GotoSets, Zenon DEF ForcedDeadlineExpired, Remembers
    <2>2. /\ PamByPc' /\ VtByPc' /\ PinByPc' /\ OutByPc' /\ LeaderByPc'
          /\ ProofByPc' /\ RetByPc' /\ VtOnRecord'
      BY <1>0, <1>1, <1>9, <2>1, Zenon DEF ForcedDeadlineExpired, Remembers
    <2>. QED
      BY <2>2, Zenon DEF ByPc
  <1>. QED
    BY <1>2, <1>3, <1>4, <1>5, <1>6, <1>7, <1>8, <1>9, Zenon

\* Finalization.
LEMMA FinalStepsKeepByPc ==
    ASSUME IInv,
           \/ ReleasePin \/ ClosePam \/ BeginVtCleanup \/ ReleaseVt
           \/ CompleteVtCleanup \/ ReleaseVtLocally
    PROVE  ByPc'
  <1>0. /\ w \in Workers /\ faults \in 0 .. MaxFaults /\ w.code \in Failures \cup {"none"}
        /\ vt \in {"none", "held", "released", "leaked"}
    BY Zenon DEF IInv, TypeOK, Workers, Codes
  <1>1. /\ PamByPc /\ VtByPc /\ PinByPc /\ OutByPc /\ LeaderByPc
        /\ ProofByPc /\ RetByPc /\ VtOnRecord
    BY Zenon DEF IInv, ByPc
  <1>. USE DEF PamByPc, VtByPc, PinByPc, OutByPc, LeaderByPc, ProofByPc, RetByPc,
        VtOnRecord, VtReleaseIsRecorded, RunningPcs, ScopeUndoPcs, BeforePam,
        BeforeChild, RegisteredPcs, AfterPam, LaunchPcs, UndoPcs, GracefulPcs,
        CheckPcs, ForcedPcs, FinalPcs, Failures, Probes, Settled, KeepScope,
        KeepRest, KeepInputs, OwnedVars, InputVars
  <1>2. CASE ReleasePin
    <2>1. Remembers /\ w'.pc = "closePam"
      BY <1>0, <1>2, GotoSets, Zenon DEF ReleasePin, Remembers
    <2>2. /\ PamByPc' /\ VtByPc' /\ PinByPc' /\ OutByPc' /\ LeaderByPc'
          /\ ProofByPc' /\ RetByPc' /\ VtOnRecord'
      BY <1>0, <1>1, <1>2, <2>1, SpendCounts, Zenon DEF ReleasePin, Remembers
    <2>. QED
      BY <2>2, Zenon DEF ByPc
  <1>3. CASE ClosePam
    <2>1. /\ Remembers
          /\ \/ w'.pc = "localVt" /\ sup = "closed" /\ vt' = vt /\ pam' = "closed"
             \/ w'.pc = "intent" /\ vt' = vt /\ pam' = "closed"
             \/ w'.pc = "exited" /\ Spend /\ Return
      BY <1>0, <1>3, GotoSets, Zenon DEF ClosePam, Return, Remembers
    <2>2. /\ PamByPc' /\ VtByPc' /\ PinByPc' /\ OutByPc' /\ LeaderByPc'
          /\ ProofByPc' /\ RetByPc' /\ VtOnRecord'
      BY <1>0, <1>1, <1>3, <2>1, SpendCounts DEF ClosePam, Return, Remembers
    <2>. QED
      BY <2>2, Zenon DEF ByPc
  <1>4. CASE BeginVtCleanup
    <2>1. /\ w'.exit = w.exit /\ w'.acked = w.acked
          /\ \/ w'.pc = "releaseVt" /\ w'.intent /\ vt' = vt /\ pam' = pam
             \/ /\ w'.pc = "localVt" /\ w'.intent = w.intent /\ sup = "closed"
                /\ vt' = vt /\ pam' = pam
             \/ w'.pc = "exited" /\ w'.intent = w.intent /\ Spend /\ Return
      BY <1>0, <1>4, GotoSets, Zenon DEF BeginVtCleanup, Return, Workers, Remembers
    <2>2. /\ PamByPc' /\ VtByPc' /\ PinByPc' /\ OutByPc' /\ LeaderByPc'
          /\ ProofByPc' /\ RetByPc' /\ VtOnRecord'
      BY <1>0, <1>1, <1>4, <2>1, SpendCounts DEF BeginVtCleanup, Return, Remembers
    <2>. QED
      BY <2>2, Zenon DEF ByPc
  <1>5. CASE ReleaseVt
    <2>1. /\ Remembers
          /\ \/ w'.pc = "result" /\ vt' \in {"released", "leaked"}
             \/ w'.pc = "exited" /\ vt' = "leaked" /\ ~pinned'
      BY <1>0, <1>5, GotoSets, Zenon DEF ReleaseVt, Remembers
    <2>2. /\ PamByPc' /\ VtByPc' /\ PinByPc' /\ OutByPc' /\ LeaderByPc'
          /\ ProofByPc' /\ RetByPc' /\ VtOnRecord'
      BY <1>0, <1>1, <1>5, <2>1, Zenon DEF ReleaseVt, Remembers
    <2>. QED
      BY <2>2, Zenon DEF ByPc
  <1>6. CASE CompleteVtCleanup
    <2>1. Remembers /\ w'.pc = "exited"
      BY <1>0, <1>6, GotoSets, Zenon DEF CompleteVtCleanup, Return, Remembers
    <2>2. /\ PamByPc' /\ VtByPc' /\ PinByPc' /\ OutByPc' /\ LeaderByPc'
          /\ ProofByPc' /\ RetByPc' /\ VtOnRecord'
      BY <1>0, <1>1, <1>6, <2>1, Zenon DEF CompleteVtCleanup, Return, Remembers
    <2>. QED
      BY <2>2, Zenon DEF ByPc
  <1>7. CASE ReleaseVtLocally
    <2>1. Remembers /\ w'.pc = "exited"
      BY <1>0, <1>7, GotoSets, Zenon DEF ReleaseVtLocally, Remembers
    <2>2. /\ PamByPc' /\ VtByPc' /\ PinByPc' /\ OutByPc' /\ LeaderByPc'
          /\ ProofByPc' /\ RetByPc' /\ VtOnRecord'
      BY <1>0, <1>1, <1>7, <2>1 DEF ReleaseVtLocally, Remembers
    <2>. QED
      BY <2>2, Zenon DEF ByPc
  <1>. QED
    BY <1>2, <1>3, <1>4, <1>5, <1>6, <1>7, Zenon

\* Every step of the worker.
LEMMA WorkerStepKeepsByPc ==
    ASSUME IInv, WorkerStep
    PROVE  ByPc'
    BY PamStepsKeepByPc, ScopeStepsKeepByPc, CommitStepsKeepByPc, UndoStepsKeepByPc,
       CheckStepsKeepByPc, GracefulStepsKeepByPc, ForcedStepsKeepByPc,
       FinalStepsKeepByPc, Zenon
    DEF WorkerStep, LaunchNext, TerminationNext

\* The processes of the session.
LEMMA ProcessStepsKeepByPc ==
    ASSUME IInv,
           \/ LeaderDies \/ LeaderBecomesZombie \/ SessionForks
           \/ OthersExit \/ ChildDropsPrivileges \/ ChildExecsProbe
           \/ ProbeReady \/ ProbeExecs \/ ProbeExecFails
    PROVE  ByPc'
  <1>0. w \in Workers /\ faults \in 0 .. MaxFaults
    BY Zenon DEF IInv, TypeOK
  <1>1. /\ PamByPc /\ VtByPc /\ PinByPc /\ OutByPc /\ LeaderByPc
        /\ ProofByPc /\ RetByPc /\ VtOnRecord
    BY Zenon DEF IInv, ByPc
  <1>. USE DEF PamByPc, VtByPc, PinByPc, OutByPc, LeaderByPc, ProofByPc, RetByPc,
        VtOnRecord, VtReleaseIsRecorded, Failures, Probes, Environment, ChildStage
  <1>2. CASE LeaderDies
    <2>1. /\ PamByPc' /\ VtByPc' /\ PinByPc' /\ OutByPc' /\ LeaderByPc'
          /\ ProofByPc' /\ RetByPc' /\ VtOnRecord'
      BY <1>0, <1>1, <1>2 DEF LeaderDies
    <2>. QED
      BY <2>1, Zenon DEF ByPc
  <1>3. CASE LeaderBecomesZombie
    <2>1. /\ PamByPc' /\ VtByPc' /\ PinByPc' /\ OutByPc' /\ LeaderByPc'
          /\ ProofByPc' /\ RetByPc' /\ VtOnRecord'
      BY <1>0, <1>1, <1>3 DEF LeaderBecomesZombie
    <2>. QED
      BY <2>1, Zenon DEF ByPc
  <1>4. CASE SessionForks
    <2>1. /\ PamByPc' /\ VtByPc' /\ PinByPc' /\ OutByPc' /\ LeaderByPc'
          /\ ProofByPc' /\ RetByPc' /\ VtOnRecord'
      BY <1>0, <1>1, <1>4, SMTT(30) DEF SessionForks
    <2>. QED
      BY <2>1, Zenon DEF ByPc
  <1>5. CASE OthersExit
    <2>1. /\ PamByPc' /\ VtByPc' /\ PinByPc' /\ OutByPc' /\ LeaderByPc'
          /\ ProofByPc' /\ RetByPc' /\ VtOnRecord'
      BY <1>0, <1>1, <1>5 DEF OthersExit
    <2>. QED
      BY <2>1, Zenon DEF ByPc
  <1>6. CASE ChildDropsPrivileges
    <2>1. /\ PamByPc' /\ VtByPc' /\ PinByPc' /\ OutByPc' /\ LeaderByPc'
          /\ ProofByPc' /\ RetByPc' /\ VtOnRecord'
      BY <1>0, <1>1, <1>6, SMTT(30) DEF ChildDropsPrivileges
    <2>. QED
      BY <2>1, Zenon DEF ByPc
  <1>7. CASE ChildExecsProbe
    <2>1. /\ PamByPc' /\ VtByPc' /\ PinByPc' /\ OutByPc' /\ LeaderByPc'
          /\ ProofByPc' /\ RetByPc' /\ VtOnRecord'
      BY <1>0, <1>1, <1>7 DEF ChildExecsProbe
    <2>. QED
      BY <2>1, Zenon DEF ByPc
  <1>8. CASE ProbeReady
    <2>1. /\ PamByPc' /\ VtByPc' /\ PinByPc' /\ OutByPc' /\ LeaderByPc'
          /\ ProofByPc' /\ RetByPc' /\ VtOnRecord'
      BY <1>0, <1>1, <1>8, SMTT(30) DEF ProbeReady
    <2>. QED
      BY <2>1, Zenon DEF ByPc
  <1>9. CASE ProbeExecs
    <2>1. /\ PamByPc' /\ VtByPc' /\ PinByPc' /\ OutByPc' /\ LeaderByPc'
          /\ ProofByPc' /\ RetByPc' /\ VtOnRecord'
      BY <1>0, <1>1, <1>9, SMTT(30) DEF ProbeExecs
    <2>. QED
      BY <2>1, Zenon DEF ByPc
  <1>10. CASE ProbeExecFails
    <2>1. /\ PamByPc' /\ VtByPc' /\ PinByPc' /\ OutByPc' /\ LeaderByPc'
          /\ ProofByPc' /\ RetByPc' /\ VtOnRecord'
      BY <1>0, <1>1, <1>10 DEF ProbeExecFails
    <2>. QED
      BY <2>1, Zenon DEF ByPc
  <1>. QED
    BY <1>2, <1>3, <1>4, <1>5, <1>6, <1>7, <1>8, <1>9, <1>10, Zenon

\* systemd and the inputs.
LEMMA InputStepsKeepByPc ==
    ASSUME IInv,
           \/ SystemdCollects \/ SystemdFails \/ SignalArrives
           \/ TerminateArrives \/ TimerExpires \/ OddConnection
           \/ SupervisorLeaves
    PROVE  ByPc'
  <1>0. w \in Workers /\ faults \in 0 .. MaxFaults
    BY Zenon DEF IInv, TypeOK
  <1>1. /\ PamByPc /\ VtByPc /\ PinByPc /\ OutByPc /\ LeaderByPc
        /\ ProofByPc /\ RetByPc /\ VtOnRecord
    BY Zenon DEF IInv, ByPc
  <1>. USE DEF PamByPc, VtByPc, PinByPc, OutByPc, LeaderByPc, ProofByPc, RetByPc,
        VtOnRecord, VtReleaseIsRecorded, Failures, Probes, Environment, KeepWorker,
        ScopeVars, OwnedVars
  <1>2. CASE SystemdCollects
    <2>1. /\ PamByPc' /\ VtByPc' /\ PinByPc' /\ OutByPc' /\ LeaderByPc'
          /\ ProofByPc' /\ RetByPc' /\ VtOnRecord'
      BY <1>0, <1>1, <1>2, SMTT(30) DEF SystemdCollects
    <2>. QED
      BY <2>1, Zenon DEF ByPc
  <1>3. CASE SystemdFails
    <2>1. /\ PamByPc' /\ VtByPc' /\ PinByPc' /\ OutByPc' /\ LeaderByPc'
          /\ ProofByPc' /\ RetByPc' /\ VtOnRecord'
      BY <1>0, <1>1, <1>3, SpendCounts, SMTT(30) DEF SystemdFails
    <2>. QED
      BY <2>1, Zenon DEF ByPc
  <1>4. CASE SignalArrives
    <2>1. /\ PamByPc' /\ VtByPc' /\ PinByPc' /\ OutByPc' /\ LeaderByPc'
          /\ ProofByPc' /\ RetByPc' /\ VtOnRecord'
      BY <1>0, <1>1, <1>4, SMTT(30) DEF SignalArrives
    <2>. QED
      BY <2>1, Zenon DEF ByPc
  <1>5. CASE TerminateArrives
    <2>1. /\ PamByPc' /\ VtByPc' /\ PinByPc' /\ OutByPc' /\ LeaderByPc'
          /\ ProofByPc' /\ RetByPc' /\ VtOnRecord'
      BY <1>0, <1>1, <1>5 DEF TerminateArrives
    <2>. QED
      BY <2>1, Zenon DEF ByPc
  <1>6. CASE TimerExpires
    <2>1. /\ PamByPc' /\ VtByPc' /\ PinByPc' /\ OutByPc' /\ LeaderByPc'
          /\ ProofByPc' /\ RetByPc' /\ VtOnRecord'
      BY <1>0, <1>1, <1>6, SMTT(30) DEF TimerExpires
    <2>. QED
      BY <2>1, Zenon DEF ByPc
  <1>7. CASE OddConnection
    <2>1. /\ PamByPc' /\ VtByPc' /\ PinByPc' /\ OutByPc' /\ LeaderByPc'
          /\ ProofByPc' /\ RetByPc' /\ VtOnRecord'
      BY <1>0, <1>1, <1>7, SpendCounts, SMTT(30) DEF OddConnection
    <2>. QED
      BY <2>1, Zenon DEF ByPc
  <1>8. CASE SupervisorLeaves
    <2>1. /\ PamByPc' /\ VtByPc' /\ PinByPc' /\ OutByPc' /\ LeaderByPc'
          /\ ProofByPc' /\ RetByPc' /\ VtOnRecord'
      BY <1>0, <1>1, <1>8, SpendCounts DEF SupervisorLeaves
    <2>. QED
      BY <2>1, Zenon DEF ByPc
  <1>. QED
    BY <1>2, <1>3, <1>4, <1>5, <1>6, <1>7, <1>8, Zenon

\* The worker loses systemd, or ends.
LEMMA LossesKeepByPc ==
    ASSUME IInv, BusFails \/ WorkerCrashes
    PROVE  ByPc'
  <1>0. w \in Workers /\ faults \in 0 .. MaxFaults
    BY Zenon DEF IInv, TypeOK
  <1>1. /\ PamByPc /\ VtByPc /\ PinByPc /\ OutByPc /\ LeaderByPc
        /\ ProofByPc /\ RetByPc /\ VtOnRecord
    BY Zenon DEF IInv, ByPc
  <1>2. Remembers
    BY <1>0, GotoSets, Zenon DEF BusFails, WorkerCrashes, Remembers
  <1>. USE DEF PamByPc, VtByPc, PinByPc, OutByPc, LeaderByPc, ProofByPc, RetByPc,
        VtOnRecord, VtReleaseIsRecorded, RunningPcs, ScopeUndoPcs, BeforePam,
        BeforeChild, RegisteredPcs, AfterPam, LaunchPcs, UndoPcs, GracefulPcs,
        CheckPcs, ForcedPcs, FinalPcs, Failures, Probes, Remembers, KeepScope,
        ScopeVars, OwnedVars, InputVars
  <1>3. CASE BusFails
    <2>1. w'.pc = "retained"
      BY <1>0, <1>3, GotoSets, Zenon DEF BusFails
    <2>2. /\ PamByPc' /\ VtByPc' /\ PinByPc' /\ OutByPc' /\ LeaderByPc'
          /\ ProofByPc' /\ RetByPc' /\ VtOnRecord'
      BY <1>0, <1>1, <1>2, <1>3, <2>1, SpendCounts, Zenon DEF BusFails, BusCalls
    <2>. QED
      BY <2>2, ZenonT(60) DEF ByPc
  <1>4. CASE WorkerCrashes
    <2>1. w'.pc = "crashed"
      BY <1>0, <1>4, GotoSets, Zenon DEF WorkerCrashes
    <2>2. /\ PamByPc' /\ VtByPc' /\ PinByPc' /\ OutByPc' /\ LeaderByPc'
          /\ ProofByPc' /\ RetByPc' /\ VtOnRecord'
      BY <1>0, <1>1, <1>2, <1>4, <2>1, SpendCounts DEF WorkerCrashes, Running
    <2>. QED
      BY <2>2, Zenon DEF ByPc
  <1>. QED
    BY <1>3, <1>4, Zenon

\* Every step that is not the worker's.
LEMMA OtherKeepsByPc ==
    ASSUME IInv, ScopeStep \/ InputStep \/ FaultStep
    PROVE  ByPc'
    BY ProcessStepsKeepByPc, InputStepsKeepByPc, LossesKeepByPc, Zenon
    DEF ScopeStep, InputStep, FaultStep

-----------------------------------------------------------------------------
(* Results.                                                                *)

\* Every reachable state satisfies the inductive invariant.
THEOREM InvariantHolds == Spec => []IInv
  <1>1. Init => IInv
    <2>1. Init => w \in Workers
      BY PcNames DEF Init, NewWorker, Workers, Causes
    <2>2. Init => faults \in 0 .. MaxFaults
      BY MaxFaultsIsNat DEF Init
    <2>3. Init => TypeOK
      BY <2>1, <2>2, Zenon DEF Init, TypeOK, Leaders, Units
    <2>4. Init => ByPc
      BY DEF Init, NewWorker, ByPc, PamByPc, VtByPc, PinByPc, OutByPc, LeaderByPc,
             ProofByPc, RetByPc, VtOnRecord, VtReleaseIsRecorded, RunningPcs,
             ScopeUndoPcs, BeforePam, BeforeChild, RegisteredPcs, AfterPam, LaunchPcs,
             UndoPcs, GracefulPcs, CheckPcs, ForcedPcs, FinalPcs, Failures, Probes
    <2>. QED
      BY <2>3, <2>4, Zenon DEF IInv
  <1>2. IInv /\ [Next]_vars => IInv'
    <2>. SUFFICES ASSUME IInv, [Next]_vars PROVE IInv'
      BY Zenon
    <2>1. TypeOK /\ RetByPc
      BY Zenon DEF IInv, ByPc
    <2>2. CASE LaunchNext
      BY <2>1, <2>2, LaunchTypes, WorkerStepKeepsByPc, Zenon DEF IInv, WorkerStep
    <2>3. CASE TerminationNext
      BY <2>1, <2>3, TerminationTypes, WorkerStepKeepsByPc, Zenon DEF IInv, WorkerStep
    <2>4. CASE ScopeStep \/ InputStep \/ FaultStep
      BY <2>1, <2>4, OtherTypes, OtherKeepsByPc, Zenon DEF IInv
    <2>5. CASE UNCHANGED vars
      <3>1. TypeOK'
        BY <2>1, <2>5 DEF vars, TypeOK
      <3>2. PamByPc' /\ VtByPc' /\ PinByPc' /\ OutByPc'
        BY <2>5 DEF vars, IInv, ByPc, PamByPc, VtByPc, PinByPc, OutByPc
      <3>3. LeaderByPc' /\ ProofByPc' /\ RetByPc' /\ VtOnRecord'
        BY <2>5
        DEF vars, IInv, ByPc, LeaderByPc, ProofByPc, RetByPc, VtOnRecord,
            VtReleaseIsRecorded
      <3>. QED
        BY <3>1, <3>2, <3>3, Zenon DEF IInv, ByPc
    <2>. QED
      BY <2>2, <2>3, <2>4, <2>5, Zenon DEF Next, WorkerStep
  <1>. QED
    BY <1>1, <1>2, PTL DEF Spec

\* The empty proof (prove_empty_boundary) is right: ProofMeansEmpty.
THEOREM EmptyProofHolds == Spec => []ProofMeansEmpty
  <1>1. IInv => ProofMeansEmpty
    BY Zenon
    DEF IInv, ByPc, ProofByPc, ProofMeansEmpty, Populated, LeaderLives, Probes
  <1>. QED
    BY <1>1, InvariantHolds, PTL

\* A session under way always has its owner (run_pam_session): SessionKeepsItsOwner.
THEOREM OwnerHolds == Spec => []SessionKeepsItsOwner
  <1>1. IInv => SessionKeepsItsOwner
    <2>. SUFFICES ASSUME IInv PROVE SessionKeepsItsOwner
      BY Zenon
    <2>1. leader = "user" \/ others => w.acked
      BY Zenon DEF IInv, ByPc, LeaderByPc
    <2>2. w.pc = "retained" => pam = "open" /\ vt = "held" /\ pinned
      BY Zenon DEF IInv, ByPc, PamByPc, VtByPc, PinByPc
    <2>3. ASSUME out = "Started", Populated, w.pc # "crashed"
          PROVE  pam = "open" /\ vt = "held" /\ pinned
      <3>1. w.pc \in Pcs
        BY Zenon DEF IInv, TypeOK, Workers
      <3>2. w.pc \notin FinalPcs \cup {"exited"}
        BY <2>3, Zenon DEF IInv, ByPc, ProofByPc, Populated, LeaderLives, Probes
      <3>3. w.pc \notin LaunchPcs \cup UndoPcs
        BY <2>3, Zenon DEF IInv, ByPc, OutByPc
      <3>4. w.pc \in RunningPcs \cup {"retained"}
        BY <2>3, <3>1, <3>2, <3>3, Zenon DEF Pcs, RunningPcs
      <3>. QED
        BY <3>4, Zenon DEF IInv, ByPc, PamByPc, VtByPc, PinByPc
    <2>. QED
      BY <2>1, <2>2, <2>3, Zenon DEF SessionKeepsItsOwner
  <1>. QED
    BY <1>1, InvariantHolds, PTL

\* A failed launch leaves nothing behind (drop(transaction) before the answer):
\* FailedLaunchIsClean.
THEOREM CleanFailureHolds == Spec => []FailedLaunchIsClean
  <1>1. IInv => FailedLaunchIsClean
    <2>. SUFFICES ASSUME IInv PROVE FailedLaunchIsClean
      OBVIOUS
    <2>1. out \in Failures \/ w.pc = "exited" => leader \notin Probes \cup {"user"}
      BY Zenon DEF IInv, ByPc, LeaderByPc
    <2>2. out \in Failures \/ w.pc = "exited" => pam \in {"none", "closed"}
      BY Zenon DEF IInv, ByPc, PamByPc
    <2>3. w.pc = "exited" => ~pinned /\ vt # "held"
      BY Zenon DEF IInv, ByPc, PinByPc, VtByPc
    <2>. QED
      BY <2>1, <2>2, <2>3, Zenon DEF FailedLaunchIsClean
  <1>. QED
    BY <1>1, InvariantHolds, PTL

\* The VT of a started session is released on record (begin_terminal_vt_cleanup):
\* VtReleaseIsRecorded.
THEOREM RecordedReleaseHolds == Spec => []VtReleaseIsRecorded
  <1>1. IInv => VtReleaseIsRecorded
    BY Zenon DEF IInv, ByPc, VtOnRecord
  <1>. QED
    BY <1>1, InvariantHolds, PTL

\* A step of the launch stays in the launch, or leaves it with the processes as
\* they are.
LEMMA LaunchLeads ==
    ASSUME w \in Workers, LaunchNext
    PROVE  /\ w.pc \in LaunchPcs \cup UndoPcs
           /\ \/ w'.pc \in LaunchPcs \cup UndoPcs
              \/ /\ w'.pc \in {"poll", "retained", "exited"}
                 /\ UNCHANGED <<leader, others, cgroup>>
  <1>1. CASE \/ ReadRequest \/ ValidateRequest \/ AllocateVt \/ AskGreeter
             \/ AwaitAnswer \/ Authenticate \/ ResolveIdentity \/ OpenSession \/ PrepareEnvironment \/ PrepareChild
    BY <1>1, GotoSets, FailSets, Zenon
    DEF ReadRequest, ValidateRequest, AllocateVt, AskGreeter, AwaitAnswer, Authenticate,
        ResolveIdentity, OpenSession, PrepareEnvironment, PrepareChild, LaunchPcs, UndoPcs
  <1>2. CASE \/ SpawnChild \/ AwaitReady \/ CheckReady \/ StartScope \/ CheckScope
             \/ PinScope
    BY <1>2, GotoSets, FailSets, Zenon
    DEF SpawnChild, AwaitReady, CheckReady, StartScope, CheckScope, PinScope,
        LaunchPcs, UndoPcs
  <1>3. CASE RegisterScope \/ CommitExec \/ AwaitExec
    BY <1>3, GotoSets, UndoSets, Zenon
    DEF RegisterScope, CommitExec, AwaitExec, LaunchPcs, UndoPcs
  <1>4. CASE AwaitAck \/ VerifyContext
    BY <1>4, GotoSets, UndoSets, Zenon
    DEF AwaitAck, VerifyContext, LaunchPcs, UndoPcs, Workers
  <1>5. CASE ReportStarted \/ RequestScopeRelease \/ DropVt
    BY <1>5, GotoSets, FailSets, Zenon
    DEF ReportStarted, RequestScopeRelease, DropVt, KeepProcesses, ScopeVars,
        LaunchPcs, UndoPcs
  <1>6. CASE \/ AbortBeforeScope \/ AbortWithScope \/ CleanupScope \/ StopScope
             \/ DropTransaction \/ Respond
    BY <1>6, GotoSets, Zenon
    DEF AbortBeforeScope, AbortWithScope, CleanupScope, StopScope, CleanedUp,
        DropTransaction, Respond, LaunchPcs, UndoPcs
  <1>. QED
    BY <1>1, <1>2, <1>3, <1>4, <1>5, <1>6, Zenon DEF LaunchNext

\* A step of the termination leaves the payload as it is.  It finalizes only
\* after the proof, and it expires the forced deadline only without one.
LEMMA TerminationLeads ==
    ASSUME IInv, TerminationNext
    PROVE  /\ others' = others /\ cgroup' = cgroup /\ LeaderLives' = LeaderLives
           /\ \/ w.pc \in RunningPcs /\ w'.pc \in RunningPcs \cup {"retained"}
              \/ w.pc = "prove3" /\ w'.pc = "unpin"
              \/ w.pc \in FinalPcs /\ w'.pc \in FinalPcs \cup {"exited"}
           /\ w'.pc = "fExpired" => ~w.exit \/ unit = "running" \/ Populated
  <1>0. w \in Workers /\ RetByPc
    BY Zenon DEF IInv, TypeOK, ByPc
  <1>. USE DEF RunningPcs, GracefulPcs, CheckPcs, ForcedPcs, FinalPcs
  <1>1. CASE ReadMembers \/ ValidatePinnedUnit \/ ProveInvocationAgain
    BY <1>0, <1>1, GotoSets
    DEF ReadMembers, ValidatePinnedUnit, ProveInvocationAgain, KeepScope, RetByPc,
        LeaderLives
  <1>2. CASE ProveInvocation
    <2>1. \A seen : w' = [w EXCEPT !.pc = "prove2", !.seen = seen] => w'.pc = "prove2"
      BY <1>0, Zenon DEF Workers
    <2>2. \/ \E seen : w' = [w EXCEPT !.pc = "prove2", !.seen = seen]
          \/ NotProven /\ unit = "running"
          \/ Goto("retained")
      BY <1>2, Zenon DEF ProveInvocation
    <2>. QED
      <3>1. w.pc = "prove1" /\ KeepScope
        BY <1>2, Zenon DEF ProveInvocation
      <3>2. w'.pc = "prove2" \/ (NotProven /\ unit = "running") \/ w'.pc = "retained"
        BY <1>0, <2>1, <2>2, GotoSets, Zenon
      <3>3. NotProven => w'.pc \in {"members", "fPoll", "fObserve", "fSettle", "fExpired"}
        BY <1>0, <3>1, GotoSets, CallSets, Zenon DEF NotProven, RetByPc
      <3>. QED
        BY <3>1, <3>2, <3>3, Zenon DEF KeepScope, LeaderLives
  <1>3. CASE ProveCgroup
    BY <1>0, <1>3, GotoSets, CallSets
    DEF ProveCgroup, NotProven, KeepScope, RetByPc, LeaderLives
  <1>4. CASE Poll \/ PollForced
    <2>1. PICK next \in {"observe", "settle", "fTry", "fObserve"}, ret \in Rets :
             Polled(next, ret)
      BY <1>4, PcNames, Zenon DEF Poll, PollForced
    <2>2. w.pc \in {"poll", "fPoll"} /\ w'.pc = next
      BY <1>0, <1>4, <2>1, PolledSets, Zenon DEF Poll, PollForced
    <2>3. "leader" \in ReadySources => leader = "zombie"
      BY Zenon DEF ReadySources, Sources
    <2>. QED
      BY <2>1, <2>2, <2>3 DEF Polled, LeaderLives, Probes
  <1>5. CASE ConsumeWakeup \/ AskIfTerminal \/ Begin \/ BeginForced \/ RequestForced
    BY <1>0, <1>5, GotoSets, CallSets
    DEF ConsumeWakeup, AskIfTerminal, Begin, BeginForced, RequestForced, Settled,
        KeepScope, LeaderLives
  <1>6. CASE Settle
    <2>1. w' = [w EXCEPT !.pc = "begin", !.cause = Trigger] => w'.pc = "begin"
      BY <1>0, Zenon DEF Workers
    <2>. QED
      BY <1>0, <1>6, <2>1, GotoSets, CallSets DEF Settle, KeepScope, LeaderLives
  <1>7. CASE RequestGraceful \/ ObserveForced
    <2>1. /\ w' = [w EXCEPT !.pc = "poll", !.ret = "none", !.termed = TRUE]
                => w'.pc = "poll"
          /\ w' = [w EXCEPT !.pc = "members", !.ret = "sigkill", !.killed = TRUE]
                => w'.pc = "members"
      BY <1>0, Zenon DEF Workers
    <2>. QED
      BY <1>0, <1>7, <2>1, GotoSets
      DEF RequestGraceful, ObserveForced, KeepScope, LeaderLives
  <1>8. CASE \/ ConfirmForced \/ TryForcedEmptyProof \/ ConsumeForcedWakeup
             \/ SettleForced \/ ForcedDeadlineExpired
    BY <1>0, <1>8, GotoSets, CallSets
    DEF ConfirmForced, TryForcedEmptyProof, ConsumeForcedWakeup, SettleForced,
        ForcedDeadlineExpired, Settled, KeepScope, RetByPc, LeaderLives
  <1>9. CASE ReleasePin \/ ClosePam \/ ReleaseVt \/ CompleteVtCleanup \/ ReleaseVtLocally
    BY <1>0, <1>9, GotoSets
    DEF ReleasePin, ClosePam, ReleaseVt, CompleteVtCleanup, ReleaseVtLocally, Return,
        KeepInputs, KeepScope, LeaderLives
  <1>10. CASE BeginVtCleanup
    <2>1. w' = [w EXCEPT !.pc = "releaseVt", !.intent = TRUE] => w'.pc = "releaseVt"
      BY <1>0, Zenon DEF Workers
    <2>. QED
      BY <1>0, <1>10, <2>1, GotoSets
      DEF BeginVtCleanup, Return, KeepInputs, KeepScope, LeaderLives
  <1>. QED
    BY <1>1, <1>2, <1>3, <1>4, <1>5, <1>6, <1>7, <1>8, <1>9, <1>10, Zenon
    DEF TerminationNext

\* The other steps leave the program point as it is, or lose the worker's
\* connection to systemd, or end the worker.  None of them revives a payload.
LEMMA OtherLeads ==
    ASSUME IInv, ScopeStep \/ InputStep \/ FaultStep
    PROVE  /\ Populated' => Populated
           /\ cgroup # "none" => cgroup' # "none"
           /\ cgroup' # "none" => cgroup # "none"
           /\ \/ w' = w
              \/ /\ w.pc \in RunningPcs /\ w'.pc = "retained"
                 /\ UNCHANGED <<leader, others, cgroup>>
              \/ /\ Running /\ w'.pc = "crashed"
                 /\ UNCHANGED <<leader, others, cgroup>>
  <1>0. w \in Workers
    BY Zenon DEF IInv, TypeOK
  <1>1. CASE ScopeStep
    <2>. USE DEF Environment, Populated, LeaderLives, Probes
    <2>1. CASE LeaderDies \/ LeaderBecomesZombie
      BY <2>1, Zenon DEF LeaderDies, LeaderBecomesZombie
    <2>2. CASE SessionForks \/ OthersExit
      BY <2>2, Zenon DEF SessionForks, OthersExit
    <2>3. CASE ChildDropsPrivileges \/ ChildExecsProbe \/ ProbeReady
      BY <2>3, Zenon DEF ChildDropsPrivileges, ChildExecsProbe, ProbeReady, ChildStage
    <2>4. CASE ProbeExecs \/ ProbeExecFails
      BY <2>4, Zenon DEF ProbeExecs, ProbeExecFails
    <2>5. CASE SystemdCollects
      BY <2>5, Zenon DEF SystemdCollects
    <2>. QED
      BY <1>1, <2>1, <2>2, <2>3, <2>4, <2>5, Zenon DEF ScopeStep
  <1>2. CASE InputStep \/ SystemdFails \/ OddConnection \/ SupervisorLeaves
    BY <1>2
    DEF InputStep, SignalArrives, TerminateArrives, TimerExpires, OddConnection,
        SupervisorLeaves, SystemdFails, Environment, KeepWorker, ScopeVars, Populated,
        LeaderLives
  <1>3. CASE BusFails \/ WorkerCrashes
    BY <1>0, <1>3, GotoSets
    DEF BusFails, WorkerCrashes, BusCalls, KeepScope, ScopeVars, Populated,
        LeaderLives, RunningPcs, GracefulPcs, CheckPcs, ForcedPcs
  <1>. QED
    BY <1>1, <1>2, <1>3, Zenon DEF FaultStep

\* The forced deadline is reported only when the scope could not be proved
\* empty (forced_poll_cycle.rs): TimeoutMeansNotProven.
THEOREM TimeoutHolds == Spec => TimeoutMeansNotProven
  <1>1. IInv /\ [Next]_vars
          => [w.pc # "fExpired" /\ w'.pc = "fExpired"
                => ~w.exit \/ unit = "running" \/ Populated]_vars
    <2>. SUFFICES ASSUME IInv, Next, w.pc # "fExpired", w'.pc = "fExpired"
                  PROVE  ~w.exit \/ unit = "running" \/ Populated
      BY Zenon
    <2>1. ~LaunchNext
      BY LaunchLeads, Zenon DEF IInv, TypeOK, LaunchPcs, UndoPcs
    <2>2. ~(ScopeStep \/ InputStep \/ FaultStep)
      BY OtherLeads, Zenon
    <2>. QED
      BY <2>1, <2>2, TerminationLeads, Zenon DEF Next, WorkerStep
  <1>. QED
    BY <1>1, InvariantHolds, PTL DEF Spec, TimeoutMeansNotProven

\* What the phase of the abstract session is at each program point.
LEMMA Phases ==
    /\ w.pc \in LaunchPcs \cup UndoPcs => Phase = "launching"
    /\ w.pc \in RunningPcs => Phase = "running"
    /\ w.pc \in FinalPcs => Phase = "finalizing"
    /\ w'.pc \in LaunchPcs \cup UndoPcs => Phase' = "launching"
    /\ w'.pc \in RunningPcs => Phase' = "running"
    /\ w'.pc \in FinalPcs => Phase' = "finalizing"
    /\ w'.pc = "retained" => Phase' = "retained"
    /\ w'.pc = "exited" => Phase' = "ended"
    /\ w'.pc = "crashed" => Phase' = "crashed"
  <1>. USE DEF LaunchPcs, UndoPcs, RunningPcs, GracefulPcs, CheckPcs, ForcedPcs,
               FinalPcs, Phase
  <1>1. /\ w.pc \in LaunchPcs \cup UndoPcs => Phase = "launching"
        /\ w.pc \in RunningPcs => Phase = "running"
        /\ w.pc \in FinalPcs => Phase = "finalizing"
    BY Zenon
  <1>2. /\ w'.pc \in LaunchPcs \cup UndoPcs => Phase' = "launching"
        /\ w'.pc \in RunningPcs => Phase' = "running"
        /\ w'.pc \in FinalPcs => Phase' = "finalizing"
    BY Zenon
  <1>3. /\ w'.pc = "retained" => Phase' = "retained"
        /\ w'.pc = "exited" => Phase' = "ended"
        /\ w'.pc = "crashed" => Phase' = "crashed"
    BY Zenon
  <1>. QED
    BY <1>1, <1>2, <1>3, Zenon

\* The worker finalizes a started session only after its last process is gone,
\* or keeps it for ever: it implements SessionEnd.
THEOREM SessionEndHolds == Spec => ImplementsSessionEnd
  <1>1. Init => Ending!Init
    <2>1. Init => w.pc \in LaunchPcs /\ cgroup = "none"
      BY DEF Init, NewWorker, LaunchPcs
    <2>. QED
      BY <2>1, Phases, Zenon DEF Ending!Init
  <1>2. IInv /\ [Next]_vars => [Ending!Next]_(Ending!vars)
    <2>. DEFINE payload == cgroup # "none" /\ Populated
    <2>. SUFFICES ASSUME IInv, [Next]_vars
                  PROVE  Ending!Next \/ (Phase' = Phase /\ payload' = payload)
      BY Zenon DEF Ending!vars
    <2>. USE DEF Ending!Next, Ending!Populate, Ending!PayloadEnds, Ending!Start,
             Ending!LaunchFails, Ending!Finalize, Ending!Retain, Ending!End, Ending!Crash
    <2>1. CASE LaunchNext
      <3>1. Phase = "launching"
        BY <2>1, LaunchLeads, Phases, Zenon DEF IInv, TypeOK
      <3>2. CASE w'.pc \in LaunchPcs \cup UndoPcs
        BY <3>1, <3>2, Phases, Zenon
      <3>3. CASE /\ w'.pc \in {"poll", "retained", "exited"}
                 /\ UNCHANGED <<leader, others, cgroup>>
        <4>1. payload' = payload
          BY <3>3, Zenon DEF Populated, LeaderLives
        <4>2. Phase' \in {"running", "retained", "ended"}
          BY <3>3, Phases, Zenon DEF RunningPcs, GracefulPcs
        <4>. QED
          BY <3>1, <4>1, <4>2, Zenon
      <3>. QED
        BY <2>1, <3>2, <3>3, LaunchLeads, Zenon DEF IInv, TypeOK
    <2>2. CASE TerminationNext
      <3>1. payload' = payload
        BY <2>2, TerminationLeads DEF Populated
      <3>2. CASE w.pc \in RunningPcs /\ w'.pc \in RunningPcs \cup {"retained"}
        BY <3>1, <3>2, Phases, Zenon
      <3>3. CASE w.pc = "prove3" /\ w'.pc = "unpin"
        <4>1. Phase = "running" /\ Phase' = "finalizing"
          BY <3>3, Phases, Zenon DEF RunningPcs, CheckPcs, FinalPcs
        <4>2. ~Populated
          BY <3>3, Zenon DEF IInv, ByPc, ProofByPc, Populated, LeaderLives, Probes
        <4>. QED
          BY <3>1, <4>1, <4>2, Zenon
      <3>4. CASE w.pc \in FinalPcs /\ w'.pc \in FinalPcs \cup {"exited"}
        BY <3>1, <3>4, Phases, Zenon
      <3>. QED
        BY <2>2, <3>2, <3>3, <3>4, TerminationLeads, Zenon
    <2>3. CASE ScopeStep \/ InputStep \/ FaultStep
      <3>1. payload' => payload
        BY <2>3, OtherLeads, Zenon
      <3>2. CASE w' = w
        <4>1. Phase' = Phase
          BY <3>2, Zenon DEF Phase
        <4>. QED
          BY <3>1, <4>1, Zenon
      <3>3. CASE /\ w.pc \in RunningPcs /\ w'.pc = "retained"
                 /\ UNCHANGED <<leader, others, cgroup>>
        BY <3>3, Phases, Zenon DEF Populated, LeaderLives
      <3>4. CASE /\ Running /\ w'.pc = "crashed"
                 /\ UNCHANGED <<leader, others, cgroup>>
        <4>1. Phase # "ended"
          BY <3>4, Zenon DEF Phase, Running
        <4>. QED
          BY <3>4, <4>1, Phases, Zenon DEF Populated, LeaderLives
      <3>. QED
        BY <2>3, <3>2, <3>3, <3>4, OtherLeads, Zenon
    <2>4. CASE UNCHANGED vars
      BY <2>4, Zenon DEF vars, Phase, Populated, LeaderLives
    <2>. QED
      BY <2>1, <2>2, <2>3, <2>4, Zenon DEF Next, WorkerStep
  <1>. QED
    BY <1>1, <1>2, InvariantHolds, PTL DEF Spec, ImplementsSessionEnd, Ending!Spec
=============================================================================
