-------------------------- MODULE LoginTransaction --------------------------
(***************************************************************************)
(* start_worker_with_conversation seen from the login transaction          *)
(* (launcher/login_transaction.rs, launch_completion.rs): the admission    *)
(* lease is moved from the reservation guard into the transaction and      *)
(* back, the stages are walked in order, and a way out gives the seat back *)
(* or, where the lease was lost on the way, leaves it as it was for        *)
(* nobody.  A return before the pending lifecycle drops the worker and the *)
(* reservation guard; one after it goes through PendingSupervisorGuard.    *)
(* The supervisor's side of these calls is modelled in Launcher and        *)
(* SupervisorLoop.  A call whose reply did not come in time is carried out *)
(* by the supervisor all the same: here at once, there when its turn comes.*)
(***************************************************************************)
EXTENDS LoginState

Result(c, r) == Return(c, "account", r)

\* What became of the seat, which is no login's any more.
SeatLeft(states) == \E s \in states : seat' = SeatIs(s, NoOne)

\* The transaction is over: WorkerAttempt is dropped and kills the worker.
Dropped == tx' = NewTransaction /\ wk' = NewWorker("none")

\* The reservation guard holds the lease again and is dropped.  The lease is
\* cancelled, unless its pre-commit record cannot be removed.
GiveBack(c, r) == Result(c, r) /\ SeatLeft({"free", "reserved"}) /\ Dropped

\* Mutant: the seat is not looked at.
ReserveSeatUnchecked(c) ==
    /\ conn[c].pc = "reserve"
    /\ Goto(c, "attach")
    /\ seat' = SeatIs("reserved", c)
    /\ Dropped
    /\ UNCHANGED control /\ UNCHANGED HandlerVars

\* create_control_endpoint and reserve_seat.  The seat is reserved for nobody
\* when its pre-commit record cannot be written or the reply comes after the
\* second reserve_seat waits for it.
ReserveSeat(c) ==
    /\ conn[c].pc = "reserve"
    /\ \/ Result(c, "Infrastructure") /\ UNCHANGED <<seat, tx, wk>>
       \/ /\ seat.state = "free"
          /\ Result(c, "Infrastructure")
          /\ SeatLeft({"reserved"}) /\ UNCHANGED <<tx, wk>>
       \/ /\ seat.state # "free"
          /\ Result(c, "SeatUnavailable") /\ UNCHANGED <<seat, tx, wk>>
       \/ /\ seat.state = "free"
          /\ Goto(c, "attach")
          /\ seat' = SeatIs("reserved", c)
          /\ Dropped
    /\ UNCHANGED control /\ UNCHANGED HandlerVars

\* begin_pending consumes the lease; the conversation waits for its worker.
Pending(c) ==
    /\ Goto(c, "await")
    /\ seat' = SeatIs("pending", c)
    /\ wk' = NewWorker("pam")
    /\ UNCHANGED tx

\* WorkerAttempt::spawn, attach_backend, authentication, authenticated,
\* prepare and begin_pending: steps of the launcher alone, each of which may
\* fail.  begin_pending cancels the lease itself when it refuses; when its
\* reply is late, the lease it was given is lost with the reply.
AttachBackend(c) ==
    /\ conn[c].pc = "attach"
    /\ \/ GiveBack(c, "Infrastructure")
       \/ GiveBack(c, "SeatUnavailable")
       \/ Result(c, "Infrastructure") /\ SeatLeft({"pending"}) /\ Dropped
       \/ ~tx.late /\ Pending(c)
    /\ UNCHANGED control /\ UNCHANGED HandlerVars

\* PendingSupervisorGuard: the conversation is consumed as failed and
\* abort_pending recovers the lifecycle or leaves it quarantined.  It stays
\* pending when its pre-commit record cannot be removed; and when the reply
\* is late it is reported incomplete, whatever becomes of it.
Abort(c, recovered, incomplete) ==
    /\ Dropped
    /\ control' = NoAnswer
    /\ \/ Result(c, recovered) /\ SeatLeft({"free", "pending"})
       \/ Result(c, incomplete) /\ SeatLeft({"free", "pending", "quarantined"})

\* Mutant: a launch that failed is reported as a refused password.
RecoverAsRefusal(c) ==
    /\ conn[c].pc = "recover"
    /\ Abort(c, "AuthenticationFailed", "RecoveryIncomplete")
    /\ UNCHANGED HandlerVars

\* A response that timed out or failed on I/O: the worker was killed.
Recover(c) ==
    /\ conn[c].pc = "recover"
    /\ Abort(c, "WorkerDied", "RecoveryIncomplete")
    /\ UNCHANGED HandlerVars

\* A response that failed on the protocol: nobody killed the worker, and
\* WorkerAttempt::finish joins the thread that reads its output, which ends
\* with the worker or with a terminal response.
Join(c) ==
    /\ conn[c].pc = "join"
    /\ wk.pc = "dead" \/ wk.out \in Verdicts \union {"Started"}
    /\ Abort(c, "WorkerDied", "RecoveryIncomplete")
    /\ UNCHANGED HandlerVars

\* A verdict: the worker must exit before the deadline, or is killed.
WaitExit(c) ==
    /\ conn[c].pc = "waitExit"
    /\ \/ /\ wk.pc = "dead"
          /\ Abort(c, wk.out, "RecoveryIncomplete")
       \/ /\ wk.pc # "dead" /\ tx.late
          /\ Goto(c, "recover") /\ UNCHANGED LaunchVars
    /\ UNCHANGED HandlerVars

Consumed(c) ==
    /\ Goto(c, "register")
    /\ tx' = [tx EXCEPT !.consumed = TRUE]
    /\ UNCHANGED <<seat, wk, control>>

\* Mutant: the conversation is consumed whatever its deadline.
PromoteLate(c) ==
    /\ conn[c].pc = "promote"
    /\ \/ Abort(c, "Infrastructure", "Infrastructure")
       \/ wk.pc = "running" /\ ~tx.consumed /\ Consumed(c)
    /\ UNCHANGED HandlerVars

\* Started: is_alive and consume_authenticated_conversation, the last look
\* at the deadline.  A refusal drops the pending guard, which aborts.
Promote(c) ==
    /\ conn[c].pc = "promote"
    /\ \/ Abort(c, "Infrastructure", "Infrastructure")
       \/ wk.pc = "running" /\ ~tx.late /\ ~tx.consumed /\ Consumed(c)
    /\ UNCHANGED HandlerVars

\* register: the lease goes to the supervisor, and a worker found dead, a
\* refusal or a late reply does not bring it back.  The supervisor may have
\* cancelled or quarantined the lifecycle, left it pending, or made it a
\* session all the same.
Register(c) ==
    /\ conn[c].pc = "register"
    /\ Dropped
    /\ control' = NoAnswer
    /\ \/ wk.pc = "running" /\ Result(c, "Started") /\ SeatLeft({"session"})
       \/ /\ Result(c, "Infrastructure")
          /\ SeatLeft({"free", "pending", "quarantined", "session"})
    /\ UNCHANGED HandlerVars

DeadlinePasses ==
    /\ seat.state \in {"reserved", "pending"} /\ seat.owner # NoOne /\ ~tx.late
    /\ tx' = [tx EXCEPT !.late = TRUE]
    /\ UNCHANGED <<conn, seat, wk, control>>
    /\ UNCHANGED HandlerVars

\* The session is over and its seat published free (SessionSupervision).
SessionEnds ==
    /\ seat.state = "session"
    /\ seat' = SeatIs("free", NoOne)
    /\ wk' = NewWorker("none")
    /\ UNCHANGED <<conn, tx, control>>
    /\ UNCHANGED HandlerVars

LaunchStep(c) ==
    \/ ReserveSeat(c) \/ AttachBackend(c)
    \/ Recover(c) \/ Join(c) \/ WaitExit(c) \/ Promote(c) \/ Register(c)
=============================================================================
