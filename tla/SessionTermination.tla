-------------------------- MODULE SessionTermination --------------------------
(***************************************************************************)
(* How the worker ends a running session (runtime/wait, runtime/lifecycle, *)
(* termination): the graceful poll cycle, the forced one, and the          *)
(* finalization that gives up pin, PAM session and VT.                     *)
(***************************************************************************)
EXTENDS PayloadScope

Settled == UNCHANGED <<wake, timer, out, faults>> /\ UNCHANGED InputVars
           /\ KeepScope /\ UNCHANGED OwnedVars

-----------------------------------------------------------------------------
(* Both cycles poll the same descriptors.  A waitable leader is reaped at  *)
(* once: nothing else can change it.                                       *)
ReadySources ==
    {src \in Sources :
        CASE src = "leader"   -> ~w.exit /\ leader = "zombie"
          [] src = "observer" -> w.cause # "none" /\ (wake \/ cgroup = "gone")
          [] src = "signal"   -> sig
          [] src = "sup"      -> sup = "closed"
          [] src = "conn"     -> conn # "none"
          [] src = "timer"    -> timer = "expired"}

Polled(next, ret) ==
    /\ ReadySources # {}
    /\ w' = [w EXCEPT !.pc = next, !.ret = ret, !.ready = ReadySources,
                      !.exit = @ \/ "leader" \in ReadySources]
    /\ leader' = IF "leader" \in ReadySources THEN "reaped" ELSE leader
    /\ UNCHANGED <<others, unit, cgroup, wake, pipe, timer, out, faults>>
    /\ UNCHANGED InputVars /\ UNCHANGED OwnedVars

\* The signals drained and the connection accepted in this cycle.
Drain ==
    /\ sig' = (sig /\ "signal" \notin w.ready)
    /\ conn' = IF "conn" \in w.ready THEN "none" ELSE conn
    /\ UNCHANGED sup

-----------------------------------------------------------------------------
(* poll_cycle.rs.                                                          *)
Poll ==
    /\ w.pc = "poll"
    /\ Polled(IF "observer" \in ReadySources THEN "observe" ELSE "settle", "none")

ConsumeWakeup ==
    /\ w.pc = "observe"
    /\ \/ RefreshObserver /\ Goto("ask")
       \/ cgroup = "gone" /\ Goto("retained") /\ UNCHANGED wake
    /\ KeepScope /\ UNCHANGED OwnedVars /\ KeepRest

\* A terminal unit makes the boundary a candidate for the proof, which needs
\* the leader's exit status; without it escalation is considered.
AskIfTerminal ==
    /\ w.pc = "ask"
    /\ CASE unit \in {"missing", "replaced"} -> Goto("retained")
         [] Terminal /\ w.exit -> Call("prove1", "graceful")
         [] Terminal /\ ~w.exit -> Call("members", "force")
         [] OTHER -> Goto("settle")
    /\ Settled

Trigger ==
    IF "leader" \in w.ready THEN "leader"
    ELSE IF "signal" \in w.ready THEN "signal"
    ELSE IF "sup" \in w.ready THEN "sup"
    ELSE IF "conn" \in w.ready /\ conn = "terminate" THEN "conn"
    ELSE "none"

\* A connection of another user restarts the cycle, a malformed request ends
\* it.  Otherwise the first trigger begins the termination, later ones are
\* ignored, and the deadline is looked at last.
Settle ==
    /\ w.pc = "settle"
    /\ Drain
    /\ CASE "conn" \in w.ready /\ conn = "foreign" -> Goto("poll")
         [] "conn" \in w.ready /\ conn = "bad" -> Goto("retained")
         [] OTHER ->
              IF w.cause = "none" /\ Trigger # "none"
              THEN w' = [w EXCEPT !.pc = "begin", !.cause = Trigger]
              ELSE IF "timer" \in w.ready THEN Call("members", "force")
              ELSE Goto("poll")
    /\ UNCHANGED <<wake, timer, out, faults>> /\ KeepScope /\ UNCHANGED OwnedVars

\* GracefulTerminationCoordinator.begin: the observer, the identity, SIGTERM,
\* the identity again, the timer.
Begin ==
    /\ w.pc = "begin"
    /\ \/ RefreshObserver /\ Call("members", "sigterm")
       \/ cgroup = "gone" /\ Goto("retained") /\ UNCHANGED wake
    /\ KeepScope /\ UNCHANGED OwnedVars /\ KeepRest

RequestGraceful ==
    /\ w.pc = "sigterm"
    /\ \/ /\ unit \in {"running", "dead", "failed"}
          /\ w' = [w EXCEPT !.pc = "poll", !.ret = "none", !.termed = TRUE]
          /\ timer' = "armed"
       \/ /\ unit \in {"missing", "replaced"}
          /\ Goto("retained") /\ UNCHANGED timer
    /\ UNCHANGED <<wake, out, faults>> /\ UNCHANGED InputVars
    /\ KeepScope /\ UNCHANGED OwnedVars

-----------------------------------------------------------------------------
(* forced_coordinator.rs, forced_cleanup.rs, forced_poll_cycle.rs.         *)

\* A coordinator with a timer of its own; begin checks eligibility again.
BeginForced ==
    /\ w.pc = "force"
    /\ Call("members", "fObserver")
    /\ timer' = "off"
    /\ UNCHANGED <<wake, out, faults>> /\ UNCHANGED InputVars
    /\ KeepScope /\ UNCHANGED OwnedVars

\* The attempt is recorded before the request crosses the bus.
ObserveForced ==
    /\ w.pc = "fObserver"
    /\ \/ /\ RefreshObserver
          /\ w' = [w EXCEPT !.pc = "members", !.ret = "sigkill", !.killed = TRUE]
       \/ cgroup = "gone" /\ Goto("retained") /\ UNCHANGED wake
    /\ KeepScope /\ UNCHANGED OwnedVars /\ KeepRest

RequestForced ==
    /\ w.pc = "sigkill"
    /\ \E exact \in ExactResults : Goto(IF exact THEN "fConfirm" ELSE "retained")
    /\ Settled

\* Mutant: the forced deadline is never armed.
ConfirmForcedUnarmed ==
    /\ w.pc = "fConfirm"
    /\ Call("fTry", "fPoll")
    /\ UNCHANGED <<timer, wake, out, faults>> /\ UNCHANGED InputVars
    /\ KeepScope /\ UNCHANGED OwnedVars

ConfirmForced ==
    /\ w.pc = "fConfirm"
    /\ IF unit = "replaced"
       THEN Goto("retained") /\ UNCHANGED timer
       ELSE Call("fTry", "fPoll") /\ timer' = "armed"
    /\ UNCHANGED <<wake, out, faults>> /\ UNCHANGED InputVars
    /\ KeepScope /\ UNCHANGED OwnedVars

\* Mutant: after SIGKILL a reaped leader is enough.
TryForcedEmptyProofUnproved ==
    /\ w.pc = "fTry"
    /\ Goto(IF w.exit THEN "unpin" ELSE w.ret)
    /\ Settled

TryForcedEmptyProof ==
    /\ w.pc = "fTry"
    /\ CASE unit = "replaced" -> Goto("retained")
         [] unit # "running" /\ unit # "replaced" /\ w.exit -> Goto("prove1")
         [] OTHER -> Goto(w.ret)
    /\ Settled

PollForced ==
    /\ w.pc = "fPoll"
    /\ IF "leader" \in ReadySources THEN Polled("fTry", "fObserve")
       ELSE Polled("fObserve", "none")

ConsumeForcedWakeup ==
    /\ w.pc = "fObserve"
    /\ \/ "observer" \notin w.ready /\ Goto("fSettle") /\ UNCHANGED wake
       \/ "observer" \in w.ready /\ RefreshObserver /\ Call("fTry", "fSettle")
       \/ /\ "observer" \in w.ready /\ cgroup = "gone"
          /\ Goto("retained") /\ UNCHANGED wake
    /\ KeepScope /\ UNCHANGED OwnedVars /\ KeepRest

\* Mutant: an expired deadline is final.
SettleForcedDeadlineFirst ==
    /\ w.pc = "fSettle"
    /\ Drain
    /\ Goto(IF "timer" \in w.ready THEN "fExpired" ELSE "fPoll")
    /\ UNCHANGED <<wake, timer, out, faults>> /\ KeepScope /\ UNCHANGED OwnedVars

\* Further triggers are ignored.  An expired deadline is given one more proof.
SettleForced ==
    /\ w.pc = "fSettle"
    /\ Drain
    /\ IF "conn" \in w.ready /\ conn = "bad" THEN Goto("retained")
       ELSE IF "timer" \in w.ready THEN Call("fTry", "fExpired")
       ELSE Goto("fPoll")
    /\ UNCHANGED <<wake, timer, out, faults>> /\ KeepScope /\ UNCHANGED OwnedVars

\* Mutant: after the forced deadline the session is finalized as it is.
ForcedDeadlineFinalizes ==
    /\ w.pc = "fExpired"
    /\ Goto("unpin")
    /\ Settled

ForcedDeadlineExpired ==
    /\ w.pc = "fExpired"
    /\ Goto("retained")
    /\ Settled

-----------------------------------------------------------------------------
(* finalize_session_after_empty_proof_with_vt_report.                      *)
KeepInputs == UNCHANGED <<wake, timer, out>> /\ UNCHANGED InputVars /\ KeepScope

\* Leaving run_pam_session drops what the worker still owns.  A VT whose
\* release was tried already is not tried again.
Return ==
    /\ Goto("exited")
    /\ pinned' = FALSE
    /\ pam' = IF pam \in {"open", "authenticated"} THEN "closed" ELSE pam
    /\ vt' = IF vt = "held" THEN "released" ELSE vt

\* A failed release of the reference is only logged.
ReleasePin ==
    /\ w.pc = "unpin"
    /\ \/ pinned' = FALSE /\ UNCHANGED faults
       \/ Spend /\ UNCHANGED pinned
    /\ Goto("closePam")
    /\ UNCHANGED <<pam, vt>> /\ KeepInputs

\* Mutant: the VT is released without asking the supervisor.
ClosePamThenRelease ==
    /\ w.pc = "closePam"
    /\ pam' = "closed" /\ UNCHANGED <<vt, pinned, faults>>
    /\ Goto("releaseVt")
    /\ KeepInputs

ClosePam ==
    /\ w.pc = "closePam"
    /\ \/ /\ pam' = "closed" /\ UNCHANGED <<vt, pinned, faults>>
          /\ Goto(IF sup = "closed" THEN "localVt" ELSE "intent")
       \/ Spend /\ Return
    /\ KeepInputs

\* The supervisor records the intent, or its answer does not come.
BeginVtCleanup ==
    /\ w.pc = "intent"
    /\ \/ /\ sup = "open"
          /\ w' = [w EXCEPT !.pc = "releaseVt", !.intent = TRUE]
          /\ UNCHANGED <<faults, pam, vt, pinned>>
       \/ sup = "closed" /\ Goto("localVt") /\ UNCHANGED <<faults, pam, vt, pinned>>
       \/ sup = "open" /\ Spend /\ Return
    /\ KeepInputs

\* Another holder of the terminal makes the release fail (EBUSY, reported as
\* such), as may any other step of it.
ReleaseVt ==
    /\ w.pc = "releaseVt"
    /\ \/ vt' = "released" /\ Goto("result") /\ UNCHANGED pinned
       \/ vt' = "leaked" /\ Goto("result") /\ UNCHANGED pinned
       \/ vt' = "leaked" /\ Goto("exited") /\ pinned' = FALSE
    /\ UNCHANGED <<pam, faults>>
    /\ KeepInputs

CompleteVtCleanup ==
    /\ w.pc = "result"
    /\ Return /\ UNCHANGED faults
    /\ KeepInputs

ReleaseVtLocally ==
    /\ w.pc = "localVt"
    /\ pinned' = FALSE /\ UNCHANGED pam
    /\ vt' \in {"released", "leaked"}
    /\ Goto("exited") /\ UNCHANGED faults
    /\ KeepInputs

TerminationNext ==
    \/ ReadMembers \/ ValidatePinnedUnit
    \/ ProveInvocation \/ ProveCgroup \/ ProveInvocationAgain
    \/ Poll \/ ConsumeWakeup \/ AskIfTerminal \/ Settle \/ Begin \/ RequestGraceful
    \/ BeginForced \/ ObserveForced \/ RequestForced \/ ConfirmForced
    \/ TryForcedEmptyProof \/ PollForced \/ ConsumeForcedWakeup \/ SettleForced
    \/ ForcedDeadlineExpired
    \/ ReleasePin \/ ClosePam \/ BeginVtCleanup \/ ReleaseVt \/ CompleteVtCleanup
    \/ ReleaseVtLocally
=============================================================================
