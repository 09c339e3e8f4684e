---------------------------- MODULE LoginService ----------------------------
(***************************************************************************)
(* The login service of niralisd: the connections, the request handler,    *)
(* the login transaction and the PAM conversation, composed.               *)
(***************************************************************************)
EXTENDS LoginHandler, LoginTransaction, PamConversation

Init ==
    /\ conn = [c \in Conns |-> [pc |-> "none", req |-> 0, user |-> NoOne,
                                result |-> "none", requests |-> 0]]
    /\ table = [k \in Conns \X Reqs |-> "none"]
    /\ limiter = [u \in Users |-> LimiterIdle]
    /\ seat = SeatIs("free", NoOne)
    /\ tx = NewTransaction
    /\ wk = NewWorker("none")
    /\ control = NoAnswer

\* A step of a thread that waits for a frame of its greeter, and one that
\* does not.
GreeterStep(c) == ReadFrame(c) \/ EndOfFile(c) \/ RoundTrip(c) \/ RoundTripEnds(c)
ThreadStep(c) == HandlerStep(c) \/ LaunchStep(c) \/ AwaitEvent(c)

Next ==
    \/ \E c \in Conns : Accept(c)
    \/ \E c \in Conns : GreeterStep(c) \/ ThreadStep(c)
    \/ \E u \in Users : CooldownPasses(u)
    \/ WorkerStep \/ WorkerDies \/ DeadlinePasses \/ SessionEnds

Spec == Init /\ [][Next]_vars

\* The threads run and time passes.  Nothing is asked of the worker: PAM may
\* keep it for as long as it likes.
DaemonFairness ==
    /\ \A c \in Conns : WF_vars(ThreadStep(c))
    /\ WF_vars(DeadlinePasses)

\* A greeter that was asked something eventually sends a frame or hangs up;
\* nothing is assumed of one that was not.
FairGreeterSpec ==
    Spec /\ DaemonFairness /\ \A c \in Conns : WF_vars(RoundTrip(c) \/ RoundTripEnds(c))

-----------------------------------------------------------------------------
InLogin(c) == conn[c].pc \in LoginPcs

\* A user is charged at most one failure beyond max_attempts for each other
\* connection that is served at the same time: the limit is read when a
\* login starts and written when it ends (handle_login_with_binding), so a
\* login that was let in before the limit was reached may still fail after
\* it, but MAX_GREETER_CONNECTIONS bounds how many do.
RateLimitOvershoot ==
    \A u \in Users : limiter[u].attempts <= MaxAttempts + MaxConnections - 1

\* What is charged as a failed login is PAM's verdict as the worker gave it,
\* and never a login that a silent, confused or departed greeter, the
\* deadline or a dead worker cut short.
OnlyVerdictsAreCharged ==
    [][\A c \in Conns :
          conn[c].result # "AuthenticationFailed" /\ conn'[c].result = "AuthenticationFailed"
              => wk.out = "AuthenticationFailed"]_vars

\* The seat is reserved or pending for a login exactly while that login is
\* between reserve_seat and the end of start_worker_with_conversation: one
\* login at a time, and every way out lets go of the seat.  That it is free
\* then is not said: a lost lease (a late reply, a worker dead at register, a
\* pre-commit record that cannot be removed) leaves it for nobody.
SeatHeldByALogin ==
    \A c \in Conns :
        /\ seat = SeatIs("reserved", c) <=> conn[c].pc \in ReservedPcs
        /\ seat = SeatIs("pending", c) <=> conn[c].pc \in PendingPcs

\* The transaction table has a PreCommit entry for a login exactly while it
\* runs: a Cancel cannot take it away, because the thread that would read
\* the Cancel is the one inside the login, and a connection that closed has
\* left none behind.
PreCommitWhileInLogin ==
    \A k \in DOMAIN table :
        table[k] = "PreCommit" <=> InLogin(k[1]) /\ conn[k[1]].req = k[2]

\* The answer on the worker's control channel is an answer of this login to
\* the prompt the worker is blocked on: nothing the greeter sent early, late
\* or for another request gets there.
AnswerIsForItsPrompt ==
    control # NoAnswer =>
        /\ wk.pc \in {"asking", "dead"} /\ control.sequence = wk.sequence
        /\ \E c \in Conns : seat = SeatIs("pending", c) /\ control.id = conn[c].req

\* Once the deadline of a login has passed no answer reaches its worker any
\* more, and it is not promoted, however long the greeter kept the launcher
\* waiting.  consume_authenticated_conversation is the last look at the
\* deadline: a login that got past it in time may still become a session
\* after it, and no other may.
DeadlineIsFinal ==
    [][tx.late => /\ control' \in {control, NoAnswer}
                  /\ \A c \in Conns :
                        conn[c].pc # "register" /\ seat.owner = c =>
                            conn'[c].pc # "register" /\ seat'.state # "session"]_vars

\* The launcher waits for the output of a worker that waits for an answer,
\* and nobody has one.
Deadlocked(c) == conn[c].pc = "join" /\ wk.pc = "asking"

\* A login ends and its thread serves the connection again, or closes it,
\* unless the frame its greeter sent was no answer or came too late: then
\* WorkerAttempt::finish waits for a worker nobody killed, which waits in its
\* PAM conversation.  The launch timeout bounds neither that wait nor the
\* read of the greeter's answer in forward_pam_prompt: a greeter that stays
\* connected and silent keeps its login, and the seat, for ever.
LoginEnds == \A c \in Conns : InLogin(c) ~> ~InLogin(c) \/ Deadlocked(c)
-----------------------------------------------------------------------------
(* The inductive invariant.                                                *)

\* A login has its own id and a user; while the launcher waits for the
\* greeter, the worker waits for the launcher (or died), and nothing is on
\* the control channel; while it waits for the exit, it has the verdict.
LoginByPc ==
    \A c \in Conns :
        /\ InLogin(c) => conn[c].req \in Reqs /\ conn[c].user \in Users
        /\ conn[c].pc = "roundTrip" =>
              /\ wk.pc \in {"asking", "dead"} /\ wk.out = "none"
              /\ tx.pending = wk.sequence /\ control = NoAnswer
        /\ conn[c].pc = "waitExit" => wk.out \in Verdicts

\* There is a worker only for a pending login; a prompt it has not been
\* rid of, or an answer it has not taken, is one it waits for.
WorkerByPc ==
    /\ wk.pc # "none" => seat.state = "pending"
    /\ wk.out = "prompt" => wk.pc \in {"asking", "dead"}
    /\ wk.pc = "pam" => wk.out = "none"
    /\ control # NoAnswer => wk.out = "none"

DeadlineOfALogin == tx.late => seat.state \in {"reserved", "pending"}

\* The logins of a user that were let in and may still be charged.
Chargeable(u) ==
    {c \in Conns : conn[c].user = u /\ conn[c].pc \in LoginPcs \ {"check", "finish"}}

\* What was charged and what may still be.
ChargesBounded ==
    /\ IsFiniteSet(Active) /\ Cardinality(Active) <= MaxConnections
    /\ \A u \in Users :
          limiter[u].attempts + Cardinality(Chargeable(u)) <= MaxAttempts + MaxConnections - 1

IInv ==
    /\ TypeOK /\ LoginByPc /\ WorkerByPc /\ DeadlineOfALogin /\ ChargesBounded
    /\ SeatHeldByALogin /\ PreCommitWhileInLogin /\ AnswerIsForItsPrompt
=============================================================================
