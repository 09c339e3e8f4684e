----------------------------- MODULE LoginState -----------------------------
(***************************************************************************)
(* What the greeter connections of niralisd, the request handler behind    *)
(* them and the one login they may have in flight share: one thread per    *)
(* connection, the transaction table and the rate limiter of the handler,  *)
(* the seat, and the login transaction with its PAM conversation and its   *)
(* worker.  The seat is free, reserved or pending for a connection's       *)
(* login, taken by a session, or quarantined, which stands for every phase *)
(* only the supervisor can leave; reserved or pending for no connection,   *)
(* its lease was lost.  How it gets there is the subject of SeatAdmission  *)
(* and SessionSupervision.                                                 *)
(* The frames on their way from a greeter are not kept: a frame is chosen  *)
(* when it is read, which is the first time anybody can tell what it says, *)
(* and a greeter that hung up is noticed by the read or write that fails.  *)
(***************************************************************************)
EXTENDS Naturals, FiniteSets

CONSTANTS Conns,            \* greeter connections
          Users,            \* user names
          MaxConnections,   \* MAX_GREETER_CONNECTIONS
          MaxAttempts,      \* the limiter's max_attempts
          MaxRequests,      \* bound on the requests of one connection
          MaxPrompts        \* bound on the prompts of one PAM conversation

ASSUME LoginBounds ==
    /\ MaxAttempts \in Nat \ {0}
    /\ {MaxConnections, MaxRequests, MaxPrompts} \subseteq Nat

VARIABLES conn,      \* the thread of each connection
          table,     \* TransactionTable, by connection and request id
          limiter,   \* LoginRateLimiter, by user
          seat,      \* the seat, as the login backend sees it
          tx,        \* the login transaction that holds the seat
          wk,        \* its session worker
          control    \* the PamPromptResponse on its control channel

HandlerVars == <<table, limiter>>
LaunchVars == <<seat, tx, wk, control>>
vars == <<conn, table, limiter, seat, tx, wk, control>>

\* start_worker_with_conversation up to the pending lifecycle, and after it
ReservedPcs == {"attach"}
PendingPcs ==
    {"await", "roundTrip", "promote", "register", "waitExit", "join", "recover"}
HandlerPcs == {"check", "reserve", "account", "finish"}
LoginPcs == HandlerPcs \union ReservedPcs \union PendingPcs
Pcs == LoginPcs \union {"none", "idle", "gone"}

Verdicts == {"AuthenticationFailed", "SessionFailed", "Rejected"}
Results == Verdicts \union {"none", "Started", "LoginFailed", "SessionUnavailable",
    "SeatUnavailable", "Infrastructure", "WorkerDied", "RecoveryIncomplete"}

Reqs == 1..MaxRequests

\* A request's id is new on its connection: ids are taken in order, and a
\* used one makes its frame a bad one.
Frames ==
    [type : {"login"}, user : Users]
    \union [type : {"cancel"}, target : Reqs]
    \union [type : {"status", "bad"}]
    \union [type : {"answer"}, id : Reqs, sequence : 1..MaxPrompts]

NoOne == "none"
ASSUME NoOneIsNoConnection == NoOne \notin Conns

NoAnswer == [id |-> 0, sequence |-> 0]
SeatIs(state, owner) == [state |-> state, owner |-> owner]

\* The conversation authority of a new transaction, and its deadline.
NewTransaction == [next |-> 1, pending |-> 0, consumed |-> FALSE, late |-> FALSE]

NewWorker(pc) == [pc |-> pc, sequence |-> 0, out |-> "none"]

TypeOK ==
    /\ conn \in [Conns -> [pc : Pcs, req : Reqs \union {0}, user : Users \union {NoOne},
                           result : Results, requests : 0..MaxRequests]]
    /\ table \in [Conns \X Reqs -> {"none", "PreCommit", "Committed"}]
    /\ limiter \in [Users -> [attempts : Nat, cool : BOOLEAN]]
    /\ seat \in [state : {"free", "reserved", "pending", "session", "quarantined"},
                 owner : Conns \union {NoOne}]
    /\ tx \in [next : 1..(MaxPrompts + 1), pending : 0..MaxPrompts,
               consumed : BOOLEAN, late : BOOLEAN]
    /\ wk \in [pc : {"none", "pam", "asking", "exiting", "running", "dead"},
               sequence : 0..MaxPrompts,
               out : Verdicts \union {"none", "prompt", "Started"}]
    /\ control \in [id : Reqs \union {0}, sequence : 0..MaxPrompts]

Goto(c, pc) == conn' = [conn EXCEPT ![c].pc = pc]
Return(c, pc, result) == conn' = [conn EXCEPT ![c].pc = pc, ![c].result = result]
=============================================================================
