---------------------------- MODULE SessionWorker ----------------------------
(***************************************************************************)
(* A session worker as the daemon sees it (niralis-session-worker): the    *)
(* pre-commit handshake of a PAM session, the release of a payload scope   *)
(* after a failed launch, and the terminal VT report of a session that     *)
(* ended.  PAM may ask the user and takes the time it takes.               *)
(***************************************************************************)
EXTENDS SupervisionState

WorkerUnchanged == <<adm, pend, kids, rec, loop, lch>>

Emits(id, pc, response) ==
    wrk' = [wrk EXCEPT ![id].pc = pc, ![id].out = Append(@, response)]

\* A PAM module asks, and blocks until it is answered.
AskPrompt(id) ==
    /\ wrk[id].pc = "preparing"
    /\ Emits(id, "asking", "PamPrompt")
    /\ UNCHANGED <<mbox, scope, faults>> /\ UNCHANGED WorkerUnchanged

\* A failure before a payload scope exists is reported and the worker exits.
RespondEarly(id) ==
    /\ wrk[id].pc = "preparing"
    /\ Emits(id, "exitBad", "Response")
    /\ UNCHANGED <<mbox, scope, faults>> /\ UNCHANGED WorkerUnchanged

PrepareScope(id) ==
    /\ wrk[id].pc = "preparing"
    /\ scope' = [scope EXCEPT ![id] = "held"]
    /\ Emits(id, "scopeSent", "ScopePrepared")
    /\ UNCHANGED <<mbox, faults>> /\ UNCHANGED WorkerUnchanged

\* commit_exec: the child blocked in the scope becomes the user's session.
CommitExec(id) ==
    /\ wrk[id].pc = "acked"
    /\ scope' = [scope EXCEPT ![id] = IF @ = "held" THEN "user" ELSE @]
    /\ wrk' = [wrk EXCEPT ![id].pc = "executed"]
    /\ UNCHANGED <<mbox, faults>> /\ UNCHANGED WorkerUnchanged

ReportStarted(id) ==
    /\ wrk[id].pc = "executed"
    /\ Emits(id, "running", "Started")
    /\ UNCHANGED <<mbox, scope, faults>> /\ UNCHANGED WorkerUnchanged

\* No acknowledgement in time, or a signal before commit: the child is
\* aborted, the scope cleaned up as far as possible, and the worker waits
\* for a verdict.  When commit_exec or the check after it fails the worker
\* goes on whatever the verdict.
RequestRelease(id) ==
    /\ \/ /\ wrk[id].pc = "scopeSent"
          /\ Spend(1)
          /\ Emits(id, "releasing", "ReleaseReady")
       \/ /\ wrk[id].pc \in {"acked", "executed"}
          /\ \E pc \in {"releasing", "releasingAnyway"} :
                /\ wrk[id].pc = "executed" => pc = "releasingAnyway"
                /\ Emits(id, pc, "ReleaseReady")
          /\ UNCHANGED faults
    /\ \E cleaned \in BOOLEAN :
          scope' = IF cleaned THEN [scope EXCEPT ![id] = "empty"] ELSE scope
    /\ UNCHANGED mbox /\ UNCHANGED WorkerUnchanged

\* The watchdog deadline passes while the worker waits for the verdict;
\* wait_for_prestarted_recovery never returns.
ReleaseTimeout(id) ==
    /\ wrk[id].pc \in {"releasing", "releasingAnyway"}
    /\ Spend(1)
    /\ wrk' = [wrk EXCEPT ![id].pc = IF @ = "releasing" THEN "stuck" ELSE "responding"]
    /\ UNCHANGED <<mbox, scope>> /\ UNCHANGED WorkerUnchanged

RespondFailed(id) ==
    /\ wrk[id].pc = "responding"
    /\ Emits(id, "exitBad", "Response")
    /\ UNCHANGED <<mbox, scope, faults>> /\ UNCHANGED WorkerUnchanged

\* The session ended and its boundary is proven empty.
EndSession(id) ==
    /\ wrk[id].pc = "running"
    /\ scope' = [scope EXCEPT ![id] = "empty"]
    /\ wrk' = [wrk EXCEPT ![id].pc = "wantIntent"]
    /\ UNCHANGED <<mbox, faults>> /\ UNCHANGED WorkerUnchanged

\* The control reader of the supervisor forwards the intent.
SendVtIntent(id) ==
    /\ wrk[id].pc = "wantIntent" /\ wrk[id].reader
    /\ mbox' = Append(mbox, Msg("TerminalVtIntent", id, NoId, FALSE, 0))
    /\ wrk' = [wrk EXCEPT ![id].pc = "vtIntent"]
    /\ UNCHANGED <<scope, faults>> /\ UNCHANGED WorkerUnchanged

\* terminal.release: done, busy (reported like a result), or failed.
ReleaseVt(id) ==
    /\ wrk[id].pc = "vtRelease"
    /\ \/ \E busy \in BOOLEAN :
             /\ mbox' = Append(mbox, Msg("TerminalVtResult", id, NoId, busy, 0))
             /\ wrk' = [wrk EXCEPT ![id].pc = "vtResult"]
       \/ wrk' = [wrk EXCEPT ![id].pc = "exitBad"] /\ UNCHANGED mbox
    /\ UNCHANGED <<scope, faults>> /\ UNCHANGED WorkerUnchanged

\* The worker exits with success unless the session leader failed.
CloseSession(id) ==
    /\ wrk[id].pc = "closing"
    /\ \E pc \in {"exitOk", "exitBad"} : wrk' = [wrk EXCEPT ![id].pc = pc]
    /\ UNCHANGED <<mbox, scope, faults>> /\ UNCHANGED WorkerUnchanged

\* No acknowledgement within 5 s: the worker gives up.  The supervisor was
\* slow, which is a fault, or it refused the report and never will answer.
Queued(id) == \E i \in DOMAIN mbox :
    mbox[i].id = id /\ mbox[i].call \in {"TerminalVtIntent", "TerminalVtResult"}

GiveUpReport(id) ==
    /\ wrk' = [wrk EXCEPT ![id].pc = "exitBad"]
    /\ UNCHANGED <<mbox, scope>> /\ UNCHANGED WorkerUnchanged

VtReportTimeout(id) ==
    /\ wrk[id].pc = "wantIntent" \/ (wrk[id].pc \in {"vtIntent", "vtResult"} /\ Queued(id))
    /\ Spend(1)
    /\ GiveUpReport(id)

VtReportRefused(id) ==
    /\ wrk[id].pc \in {"vtIntent", "vtResult"} /\ ~Queued(id)
    /\ GiveUpReport(id)
    /\ UNCHANGED faults

Crash(id) ==
    /\ Alive(id)
    /\ Spend(1)
    /\ wrk' = [wrk EXCEPT ![id].pc = "exitBad"]
    /\ UNCHANGED <<mbox, scope>> /\ UNCHANGED WorkerUnchanged

\* The blocked child follows its worker; user processes may also end alone.
ScopeDrains(id) ==
    /\ scope[id] = "user" \/ (scope[id] = "held" /\ ~Alive(id))
    /\ scope' = [scope EXCEPT ![id] = "empty"]
    /\ UNCHANGED <<mbox, wrk, faults>> /\ UNCHANGED WorkerUnchanged

\* The steps a worker takes by itself once PAM is done.
WorkerSteps(id) ==
    \/ CommitExec(id)
    \/ ReportStarted(id)
    \/ RequestRelease(id)
    \/ RespondFailed(id)
    \/ SendVtIntent(id)
    \/ ReleaseVt(id)
    \/ CloseSession(id)
    \/ VtReportRefused(id)

WorkerNext(id) ==
    \/ WorkerSteps(id)
    \/ AskPrompt(id)
    \/ RespondEarly(id)
    \/ PrepareScope(id)
    \/ EndSession(id)
    \/ ReleaseTimeout(id)
    \/ VtReportTimeout(id)
    \/ Crash(id)
    \/ ScopeDrains(id)
=============================================================================
