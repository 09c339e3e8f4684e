------------------------------ MODULE Launcher ------------------------------
(***************************************************************************)
(* A launcher thread: start_worker_with_conversation and the loop over the *)
(* worker's responses (launch_completion.rs, launch_protocol.rs), through  *)
(* the blocking calls of supervisor_api.rs and the guards that roll back   *)
(* on an early return.  A PAM prompt is handed to the greeter, whose       *)
(* answer the launcher waits for without a limit (pam_prompt.rs).  The     *)
(* worker's Preparing moves no seat and is left out.                       *)
(***************************************************************************)
EXTENDS SupervisionState

LauncherVars == <<adm, pend, kids, rec, loop, scope>>

Returned(id, call) == lch[id].pc = "replied" /\ lch[id].call = call
Goto(id, pc) == lch' = [lch EXCEPT ![id].pc = pc]

\* The end of a failed login: WorkerAttempt is dropped, which kills and
\* reaps a worker that was not handed to the supervisor.
Fail(id) ==
    /\ lch' = [lch EXCEPT ![id].pc = "failed", ![id].lease = NoId]
    /\ wrk' = [wrk EXCEPT ![id] = Killed(@)]

\* PendingSupervisorGuard: the pending lease goes back to the supervisor.
Abort(id, clean) ==
    Call(id, Msg("AbortPending", id, lch[id].lease, clean, 0), NoId)

StartLogin(id) ==
    /\ lch[id].pc = "idle" /\ loop # "down"
    /\ Call(id, Msg("ReserveSeat", id, NoId, FALSE, 0), NoId)
    /\ UNCHANGED <<wrk, faults>> /\ UNCHANGED LauncherVars

\* recv_timeout of a call, or of the 7 s of abort_pending, expires.  A
\* message that is still queued is handled all the same.
CallTimeout(id) ==
    /\ lch[id].pc = "calling"
    /\ Spend(1)
    /\ lch' = [lch EXCEPT ![id].pc = "replied", ![id].ok = FALSE]
    /\ UNCHANGED <<mbox, wrk>> /\ UNCHANGED LauncherVars

AfterReserve(id) ==
    /\ Returned(id, "ReserveSeat")
    /\ IF lch[id].ok THEN Goto(id, "reserved") /\ UNCHANGED wrk ELSE Fail(id)
    /\ UNCHANGED <<mbox, faults>> /\ UNCHANGED LauncherVars

\* Mutant: the reservation guard is disarmed before the worker is spawned.
SpawnWorkerUnguarded(id) ==
    /\ lch[id].pc = "reserved"
    /\ \/ /\ wrk' = [wrk EXCEPT ![id].pc = "preparing"]
          /\ Call(id, Msg("BeginPending", id, lch[id].lease, FALSE, 0), NoId)
       \/ Fail(id) /\ UNCHANGED mbox
    /\ UNCHANGED faults /\ UNCHANGED LauncherVars

\* WorkerAttempt::spawn and begin_pending; until then SeatReservationGuard
\* gives the reservation back.
SpawnWorker(id) ==
    /\ lch[id].pc = "reserved"
    /\ \/ /\ wrk' = [wrk EXCEPT ![id].pc = "preparing"]
          /\ Call(id, Msg("BeginPending", id, lch[id].lease, FALSE, 0), NoId)
       \/ /\ Send(Msg("CancelAdmission", id, lch[id].lease, FALSE, 0))
          /\ Fail(id)
    /\ UNCHANGED faults /\ UNCHANGED LauncherVars

AfterBegin(id) ==
    /\ Returned(id, "BeginPending")
    /\ IF lch[id].ok THEN Goto(id, "reading") /\ UNCHANGED wrk ELSE Fail(id)
    /\ UNCHANGED <<mbox, faults>> /\ UNCHANGED LauncherVars

\* wait_launch_response: the next response of the worker.
Reads(id, response) ==
    /\ lch[id].pc = "reading"
    /\ wrk[id].out # <<>>
    /\ Head(wrk[id].out) = response
    /\ wrk' = [wrk EXCEPT ![id].out = Tail(@)]

\* forward_pam_prompt: to the greeter, unless a check of the prompt fails.
ReadPrompt(id) ==
    /\ Reads(id, "PamPrompt")
    /\ \/ ~lch[id].registered /\ Goto(id, "prompting")
       \/ Goto(id, "joining")
    /\ UNCHANGED <<mbox, faults>> /\ UNCHANGED LauncherVars

\* round_trip returns: the answer, which goes to the worker, the end of the
\* connection (WorkerIoFailed), or something that is no answer to this prompt
\* (WorkerProtocolFailed): only the former two kill a worker that cannot go on.
Prompted(w) == IF w.pc = "asking" THEN [w EXCEPT !.pc = "preparing"] ELSE w

AfterPrompt(id) ==
    /\ lch[id].pc = "prompting"
    /\ \/ Alive(id) /\ wrk' = [wrk EXCEPT ![id] = Prompted(@)] /\ Goto(id, "reading") /\ UNCHANGED mbox
       \/ wrk' = [wrk EXCEPT ![id] = Killed(@)] /\ Abort(id, FALSE)
       \/ Goto(id, "joining") /\ UNCHANGED <<mbox, wrk>>
    /\ UNCHANGED faults /\ UNCHANGED LauncherVars

\* WorkerAttempt::finish after a WorkerProtocolFailed: the reader thread ends
\* with a last response or with the worker.
JoinReader(id) ==
    /\ lch[id].pc = "joining"
    /\ ~Alive(id) \/ \E k \in DOMAIN wrk[id].out : wrk[id].out[k] \in {"Started", "Response"}
    /\ Abort(id, FALSE)
    /\ UNCHANGED <<wrk, faults>> /\ UNCHANGED LauncherVars

\* Mutant: the worker is told to go on before the record is durable.
ReadScopePreparedAcksFirst(id) ==
    /\ Reads(id, "ScopePrepared")
    /\ lch' = [lch EXCEPT ![id].pc = "replied", ![id].call = "RecordPreparedScope", ![id].ok = TRUE]
    /\ UNCHANGED <<mbox, faults>> /\ UNCHANGED LauncherVars

ReadScopePrepared(id) ==
    /\ Reads(id, "ScopePrepared")
    /\ Call(id, Msg("RecordPreparedScope", id, NoId, FALSE, 0), lch[id].lease)
    /\ UNCHANGED faults /\ UNCHANGED LauncherVars

\* The acknowledgement is sent once the record is durable, and before
\* mark_payload_registered.  A worker that stopped waiting takes it for the
\* answer to its release request, which is a protocol error to it.
Acked(w) ==
    CASE w.pc = "scopeSent" -> [w EXCEPT !.pc = "acked"]
      [] w.pc = "releasing" -> [w EXCEPT !.pc = "stuck"]
      [] OTHER -> w

AfterRecord(id) ==
    /\ Returned(id, "RecordPreparedScope")
    /\ IF lch[id].ok /\ Alive(id)
       THEN /\ wrk' = [wrk EXCEPT ![id] = Acked(@)]
            /\ Send(Msg("MarkPayloadRegistered", id, NoId, FALSE, 0))
            /\ lch' = [lch EXCEPT ![id].pc = "calling", ![id].call = "MarkPayloadRegistered",
                                  ![id].registered = TRUE]
       ELSE Abort(id, FALSE) /\ UNCHANGED wrk
    /\ UNCHANGED faults /\ UNCHANGED LauncherVars

AfterMark(id) ==
    /\ Returned(id, "MarkPayloadRegistered")
    /\ IF lch[id].ok THEN Goto(id, "reading") /\ UNCHANGED mbox ELSE Abort(id, FALSE)
    /\ UNCHANGED <<wrk, faults>> /\ UNCHANGED LauncherVars

ReadReleaseReady(id) ==
    /\ Reads(id, "ReleaseReady")
    /\ IF lch[id].registered
       THEN Call(id, Msg("BeginRelease", id, NoId, FALSE, 0), lch[id].lease)
       ELSE Goto(id, "joining") /\ UNCHANGED mbox
    /\ UNCHANGED faults /\ UNCHANGED LauncherVars

AfterBeginRelease(id) ==
    /\ Returned(id, "BeginRelease")
    /\ IF lch[id].ok THEN Goto(id, "verifying") /\ UNCHANGED mbox ELSE Abort(id, FALSE)
    /\ UNCHANGED <<wrk, faults>> /\ UNCHANGED LauncherVars

\* release_verifier.verify: Released is a proof that the scope is empty.
VerifyRelease(id) ==
    /\ lch[id].pc = "verifying"
    /\ \E released \in BOOLEAN :
          /\ released => scope[id] = "empty"
          /\ Call(id, Msg("CompleteRelease", id, NoId, released, lch[id].gen), lch[id].lease)
    /\ UNCHANGED <<wrk, faults>> /\ UNCHANGED LauncherVars

\* The verdict of the supervisor's entry goes to the worker.
Answered(w, released) ==
    CASE w.pc = "releasing" -> [w EXCEPT !.pc = IF released THEN "responding" ELSE "stuck"]
      [] w.pc = "releasingAnyway" -> [w EXCEPT !.pc = "responding"]
      [] OTHER -> w

AfterCompleteRelease(id) ==
    /\ Returned(id, "CompleteRelease")
    /\ IF lch[id].ok /\ Alive(id)
       THEN /\ wrk' = [wrk EXCEPT ![id] = Answered(@, pend[id].st = "PayloadReleased")]
            /\ Goto(id, "reading")
            /\ UNCHANGED mbox
       ELSE Abort(id, FALSE) /\ UNCHANGED wrk
    /\ UNCHANGED faults /\ UNCHANGED LauncherVars

\* Started: the worker must be alive (is_alive), once more in register.
ReadStarted(id) ==
    /\ Reads(id, "Started")
    /\ IF lch[id].registered /\ Alive(id)
       THEN Goto(id, "registering") /\ UNCHANGED mbox
       ELSE Abort(id, FALSE)
    /\ UNCHANGED faults /\ UNCHANGED LauncherVars

\* register takes the transaction out of the guard: when the worker is found
\* dead here nobody hands the pending lease back.
Register(id) ==
    /\ lch[id].pc = "registering"
    /\ IF Alive(id)
       THEN Call(id, Msg("Register", id, lch[id].lease, FALSE, 0), NoId) /\ UNCHANGED wrk
       ELSE Fail(id) /\ UNCHANGED mbox
    /\ UNCHANGED faults /\ UNCHANGED LauncherVars

AfterRegister(id) ==
    /\ Returned(id, "Register")
    /\ IF lch[id].ok THEN Goto(id, "started") /\ UNCHANGED wrk ELSE Fail(id)
    /\ UNCHANGED <<mbox, faults>> /\ UNCHANGED LauncherVars

ReadResponse(id) ==
    /\ Reads(id, "Response")
    /\ Goto(id, "waitExit")
    /\ UNCHANGED <<mbox, faults>> /\ UNCHANGED LauncherVars

\* Mutant: only a successful exit ends the wait.
WorkerExitSeenOk(id) ==
    /\ lch[id].pc = "waitExit"
    /\ wrk[id].pc = "exitOk"
    /\ Abort(id, TRUE)
    /\ UNCHANGED <<wrk, faults>> /\ UNCHANGED LauncherVars

\* wait_child: an exit in time makes the failure an expected, clean one.
WorkerExitSeen(id) ==
    /\ lch[id].pc = "waitExit"
    /\ ~Alive(id)
    /\ Abort(id, TRUE)
    /\ UNCHANGED <<wrk, faults>> /\ UNCHANGED LauncherVars

\* The worker closed its pipe, or the deadline of the login passed, which PAM
\* and a worker that never answers can bring about.
WorkerLost(id) ==
    /\ lch[id].pc = "reading"
    /\ wrk[id].out = <<>> /\ ~Alive(id)
    /\ Abort(id, FALSE)
    /\ UNCHANGED <<wrk, faults>> /\ UNCHANGED LauncherVars

DeadlinePasses(id) ==
    /\ lch[id].pc \in {"reading", "waitExit"}
    /\ Alive(id)
    /\ Spend(Cost(wrk[id].pc \in {"preparing", "stuck"}))
    /\ wrk' = [wrk EXCEPT ![id] = Killed(@)]
    /\ Abort(id, FALSE)
    /\ UNCHANGED LauncherVars

AfterAbort(id) ==
    /\ Returned(id, "AbortPending")
    /\ Fail(id)
    /\ UNCHANGED <<mbox, faults>> /\ UNCHANGED LauncherVars

\* The steps a launcher takes by itself; it may start a login or not, its
\* waits may expire or not, and the greeter may answer or not.
LauncherSteps(id) ==
    \/ AfterReserve(id)
    \/ SpawnWorker(id)
    \/ AfterBegin(id)
    \/ ReadPrompt(id)
    \/ JoinReader(id)
    \/ ReadScopePrepared(id)
    \/ AfterRecord(id)
    \/ AfterMark(id)
    \/ ReadReleaseReady(id)
    \/ AfterBeginRelease(id)
    \/ VerifyRelease(id)
    \/ AfterCompleteRelease(id)
    \/ ReadStarted(id)
    \/ Register(id)
    \/ AfterRegister(id)
    \/ ReadResponse(id)
    \/ WorkerExitSeen(id)
    \/ WorkerLost(id)
    \/ AfterAbort(id)

LauncherNext(id) ==
    \/ StartLogin(id)
    \/ CallTimeout(id)
    \/ AfterPrompt(id)
    \/ DeadlinePasses(id)
    \/ LauncherSteps(id)
=============================================================================
