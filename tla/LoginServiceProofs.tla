------------------------- MODULE LoginServiceProofs -------------------------
(***************************************************************************)
(* Proofs about the login service: the inductive invariant, for any        *)
(* number of connections, users, requests and prompts, the four safety     *)
(* invariants that follow from it and the two action properties.           *)
(***************************************************************************)
EXTENDS LoginService, FiniteSetTheorems, TLAPS

-----------------------------------------------------------------------------
(* What a step does to the record of its connection.                       *)
Connections == [pc : Pcs, req : Reqs \union {0}, user : Users \union {NoOne},
                result : Results, requests : 0..MaxRequests]

\* Only the thread of c took a step, which left its record as said.
Leaves(c, pc, req, user, result, requests) ==
    /\ conn' \in [Conns -> Connections]
    /\ conn'[c].pc = pc /\ conn'[c].req = req /\ conn'[c].user = user
    /\ conn'[c].result = result /\ conn'[c].requests = requests
    /\ \A d \in Conns \ {c} : conn'[d] = conn[d]

\* The record of c is replaced.
LEMMA Replaces ==
    ASSUME conn \in [Conns -> Connections], NEW c \in Conns, NEW r \in Connections,
           conn' = [conn EXCEPT ![c] = r]
    PROVE  Leaves(c, r.pc, r.req, r.user, r.result, r.requests)
    BY Zenon DEF Leaves

\* The thread moves on.
LEMMA GotoLeaves ==
    ASSUME conn \in [Conns -> Connections], NEW c \in Conns, NEW p \in Pcs, Goto(c, p)
    PROVE  Leaves(c, p, conn[c].req, conn[c].user, conn[c].result, conn[c].requests)
  <1>1. conn[c] \in Connections
    BY Zenon
  <1>2. [conn[c] EXCEPT !.pc = p] \in Connections
    BY <1>1, Zenon DEF Connections
  <1>. QED
    BY <1>1, <1>2, Replaces, Zenon DEF Goto, Connections

\* The thread moves on with a result.
LEMMA ReturnLeaves ==
    ASSUME conn \in [Conns -> Connections], NEW c \in Conns, NEW p \in Pcs,
           NEW r \in Results, Return(c, p, r)
    PROVE  Leaves(c, p, conn[c].req, conn[c].user, r, conn[c].requests)
  <1>1. conn[c] \in Connections
    BY Zenon
  <1>2. [conn[c] EXCEPT !.pc = p, !.result = r] \in Connections
    BY <1>1, Zenon DEF Connections
  <1>. QED
    BY <1>1, <1>2, Replaces, Zenon DEF Return, Connections

Tables == [Conns \X Reqs -> {"none", "PreCommit", "Committed"}]

\* Closing a connection drops its PreCommit entries from the table t.
LEMMA DisconnectLeaves ==
    ASSUME conn \in [Conns -> Connections], table \in Tables, NEW c \in Conns,
           NEW t \in Tables, Disconnect(c, t)
    PROVE  /\ Leaves(c, "gone", 0, NoOne, "none", conn[c].requests)
           /\ table' \in Tables
           /\ \A k \in Conns \X Reqs :
                table'[k] = IF k[1] = c /\ t[k] = "PreCommit" THEN "none" ELSE t[k]
  <1>1. conn[c] \in Connections
    BY Zenon
  <1>2. [conn[c] EXCEPT !.pc = "gone", !.req = 0, !.user = NoOne, !.result = "none"]
            \in Connections
    BY <1>1, Zenon DEF Connections, Pcs, Results
  <1>3. Leaves(c, "gone", 0, NoOne, "none", conn[c].requests)
    BY <1>1, <1>2, Replaces, Zenon DEF Disconnect, Connections
  <1>. QED
    BY <1>3, Zenon DEF Disconnect, Tables

\* A response leaves the connection idle with the table t, or closes it.
LEMMA RespondLeaves ==
    ASSUME conn \in [Conns -> Connections], table \in Tables, NEW c \in Conns,
           NEW t \in Tables, Respond(c, t),
           conn[c].req # 0 \/ conn[c].requests < MaxRequests
    PROVE  /\ table' \in Tables
           /\ \/ /\ table' = t
                 /\ \E n \in 0..MaxRequests : Leaves(c, "idle", 0, NoOne, "none", n)
              \/ /\ Leaves(c, "gone", 0, NoOne, "none", conn[c].requests)
                 /\ \A k \in Conns \X Reqs :
                      table'[k] = IF k[1] = c /\ t[k] = "PreCommit" THEN "none" ELSE t[k]
  <1>1. CASE Disconnect(c, t)
    BY <1>1, DisconnectLeaves, Zenon
  <1>2. ASSUME ~Disconnect(c, t)
        PROVE  /\ table' = t
               /\ \E n \in 0..MaxRequests : Leaves(c, "idle", 0, NoOne, "none", n)
    <2>. DEFINE n == IF conn[c].req = 0 THEN conn[c].requests + 1 ELSE conn[c].requests
    <2>. DEFINE r == [conn[c] EXCEPT !.pc = "idle", !.req = 0, !.user = NoOne,
                                     !.result = "none", !.requests = n]
    <2>1. conn[c] \in Connections
      BY Zenon
    <2>2. n \in 0..MaxRequests
      BY <2>1, LoginBounds DEF Connections
    <2>3. r \in Connections
      BY <2>1, <2>2, Zenon DEF Connections, Pcs, Results
    <2>4. conn' = [conn EXCEPT ![c] = r] /\ table' = t
      BY <1>2, Zenon DEF Respond
    <2>. QED
      BY <2>1, <2>2, <2>3, <2>4, Replaces, Zenon DEF Connections
  <1>. QED
    BY <1>1, <1>2, Zenon

\* A login begins under an id of its own.
LEMMA BeginLeaves ==
    ASSUME conn \in [Conns -> Connections], table \in Tables, NEW c \in Conns,
           NEW f \in Frames, f.type = "login", BeginLogin(c, f),
           conn[c].requests < MaxRequests
    PROVE  \E id \in Reqs :
              /\ Leaves(c, "check", id, f.user, conn[c].result, id) /\ f.user \in Users
              /\ table' = [table EXCEPT ![<<c, id>>] = "PreCommit"]
  <1>. DEFINE id == conn[c].requests + 1
  <1>. DEFINE r == [conn[c] EXCEPT !.pc = "check", !.req = id, !.user = f.user,
                                   !.requests = id]
  <1>1. conn[c] \in Connections
    BY Zenon
  <1>2. id \in Reqs /\ id \in 0..MaxRequests
    BY <1>1, LoginBounds DEF Connections, Reqs
  <1>3. f.user \in Users
    BY Zenon DEF Frames
  <1>4. r \in Connections
    BY <1>1, <1>2, <1>3, Zenon DEF Connections, Pcs, LoginPcs, HandlerPcs
  <1>5. /\ conn' = [conn EXCEPT ![c] = r]
        /\ table' = [table EXCEPT ![<<c, id>>] = "PreCommit"]
    BY Zenon DEF BeginLogin
  <1>. QED
    BY <1>1, <1>2, <1>3, <1>4, <1>5, Replaces, Zenon DEF Connections

-----------------------------------------------------------------------------
(* The table and the charges.                                              *)

\* A step inside a login leaves the table's entry right.
LEMMA PreCommitKept ==
    ASSUME PreCommitWhileInLogin, table \in Tables, NEW c \in Conns, InLogin(c),
           NEW p \in LoginPcs, NEW r, NEW n,
           Leaves(c, p, conn[c].req, conn[c].user, r, n), table' = table
    PROVE  PreCommitWhileInLogin'
    BY DEF PreCommitWhileInLogin, InLogin, Leaves, Tables

\* What may be charged is one of the connections that are served.
LEMMA ChargeableIsFinite ==
    ASSUME ChargesBounded
    PROVE  \A u \in Users : IsFiniteSet(Chargeable(u))
  <1>1. \A u \in Users : Chargeable(u) \subseteq Active
    BY Zenon DEF Chargeable, Active, LoginPcs, HandlerPcs, ReservedPcs, PendingPcs
  <1>. QED
    BY <1>1, FS_Subset, Zenon DEF ChargesBounded

\* A login that is let in is let in below the limit, and is one of those
\* that are served.
LEMMA ChargesGrow ==
    ASSUME ChargesBounded, limiter \in [Users -> [attempts : Nat, cool : BOOLEAN]],
           limiter' \in [Users -> [attempts : Nat, cool : BOOLEAN]],
           Active' \subseteq Active,
           \A u \in Users : limiter'[u].attempts <= limiter[u].attempts,
           \A u \in Users :
              \/ Chargeable(u)' \subseteq Chargeable(u)
              \/ limiter'[u].attempts < MaxAttempts /\ Chargeable(u)' \subseteq Active
    PROVE  ChargesBounded'
  <1>1. /\ IsFiniteSet(Active') /\ Cardinality(Active') <= MaxConnections
        /\ Cardinality(Active) \in Nat
    BY FS_Subset, FS_CardinalityType, LoginBounds DEF ChargesBounded
  <1>2. ASSUME NEW u \in Users
        PROVE  limiter'[u].attempts + Cardinality(Chargeable(u)')
                   <= MaxAttempts + MaxConnections - 1
    <2>1. limiter[u].attempts \in Nat /\ limiter'[u].attempts \in Nat
      BY Zenon
    <2>2. CASE Chargeable(u)' \subseteq Chargeable(u)
      <3>1. /\ Cardinality(Chargeable(u)') <= Cardinality(Chargeable(u))
            /\ Cardinality(Chargeable(u)) \in Nat /\ Cardinality(Chargeable(u)') \in Nat
        BY <2>2, ChargeableIsFinite, FS_Subset, FS_CardinalityType, Zenon
      <3>. QED
        BY <2>1, <3>1, LoginBounds DEF ChargesBounded
    <2>3. CASE limiter'[u].attempts < MaxAttempts /\ Chargeable(u)' \subseteq Active
      <3>1. Cardinality(Chargeable(u)') <= Cardinality(Active)
            /\ Cardinality(Chargeable(u)') \in Nat
        BY <2>3, FS_Subset, FS_CardinalityType, Zenon DEF ChargesBounded
      <3>2. Cardinality(Active) <= MaxConnections
        BY Zenon DEF ChargesBounded
      <3>. QED
        BY <1>1, <2>1, <2>3, <3>1, <3>2, LoginBounds
    <2>. QED
      BY <2>2, <2>3, Zenon
  <1>. QED
    BY <1>1, <1>2, Zenon DEF ChargesBounded

\* A login that is charged no longer may be.
LEMMA ChargeMoves ==
    ASSUME ChargesBounded, limiter \in [Users -> [attempts : Nat, cool : BOOLEAN]],
           limiter' \in [Users -> [attempts : Nat, cool : BOOLEAN]],
           Active' \subseteq Active, NEW v \in Users, NEW c \in Chargeable(v),
           Chargeable(v)' \subseteq Chargeable(v) \ {c},
           limiter'[v].attempts <= limiter[v].attempts + 1,
           \A u \in Users \ {v} : /\ limiter'[u] = limiter[u]
                                  /\ Chargeable(u)' \subseteq Chargeable(u)
    PROVE  ChargesBounded'
  <1>1. IsFiniteSet(Active') /\ Cardinality(Active') <= MaxConnections
    BY FS_Subset, FS_CardinalityType, LoginBounds DEF ChargesBounded
  <1>2. ASSUME NEW u \in Users
        PROVE  limiter'[u].attempts + Cardinality(Chargeable(u)')
                   <= MaxAttempts + MaxConnections - 1
    <2>1. limiter[u].attempts \in Nat /\ limiter'[u].attempts \in Nat
      BY Zenon
    <2>2. IsFiniteSet(Chargeable(u)) /\ Cardinality(Chargeable(u)) \in Nat
      BY ChargeableIsFinite, FS_CardinalityType, Zenon
    <2>3. limiter[u].attempts + Cardinality(Chargeable(u)) <= MaxAttempts + MaxConnections - 1
      BY Zenon DEF ChargesBounded
    <2>4. CASE u = v
      <3>1. /\ IsFiniteSet(Chargeable(u) \ {c})
            /\ Cardinality(Chargeable(u) \ {c}) = Cardinality(Chargeable(u)) - 1
        BY <2>2, <2>4, FS_RemoveElement, Zenon
      <3>2. Cardinality(Chargeable(u)') <= Cardinality(Chargeable(u)) - 1
            /\ Cardinality(Chargeable(u)') \in Nat
        BY <2>4, <3>1, FS_Subset, FS_CardinalityType
      <3>. QED
        BY <2>1, <2>2, <2>3, <2>4, <3>2, LoginBounds
    <2>5. CASE u # v
      <3>1. Cardinality(Chargeable(u)') <= Cardinality(Chargeable(u))
            /\ Cardinality(Chargeable(u)') \in Nat
        BY <2>2, <2>5, FS_Subset, FS_CardinalityType, Zenon
      <3>. QED
        BY <2>1, <2>2, <2>3, <2>5, <3>1, LoginBounds
    <2>. QED
      BY <2>4, <2>5, Zenon
  <1>. QED
    BY <1>1, <1>2, Zenon DEF ChargesBounded

\* Nothing is added to what may be charged.
LEMMA ChargesShrink ==
    ASSUME ChargesBounded, limiter \in [Users -> [attempts : Nat, cool : BOOLEAN]],
           limiter' \in [Users -> [attempts : Nat, cool : BOOLEAN]],
           Active' \subseteq Active,
           \A u \in Users : /\ Chargeable(u)' \subseteq Chargeable(u)
                            /\ limiter'[u].attempts <= limiter[u].attempts
    PROVE  ChargesBounded'
    BY ChargesGrow, Zenon

\* A step inside a login that does not pass the rate limiter.
LEMMA ChargesKept ==
    ASSUME ChargesBounded, limiter \in [Users -> [attempts : Nat, cool : BOOLEAN]],
           NEW c \in Conns, InLogin(c), NEW p \in LoginPcs, NEW r, NEW n,
           Leaves(c, p, conn[c].req, conn[c].user, r, n),
           conn[c].pc = "check" => p = "finish", conn[c].pc = "finish" => p = "finish",
           limiter' = limiter
    PROVE  ChargesBounded'
  <1>1. Active' \subseteq Active
    BY Zenon
    DEF Active, Leaves, InLogin, LoginPcs, HandlerPcs, ReservedPcs, PendingPcs
  <1>2. ASSUME NEW u \in Users
        PROVE  /\ Chargeable(u)' \subseteq Chargeable(u)
               /\ limiter'[u].attempts <= limiter[u].attempts
    <2>1. Chargeable(u)' \subseteq Chargeable(u)
      BY Zenon DEF Chargeable, Leaves, InLogin
    <2>2. limiter[u].attempts \in Nat
      BY Zenon
    <2>. QED
      BY <2>1, <2>2
  <1>. QED
    BY <1>1, <1>2, ChargesShrink, Zenon

-----------------------------------------------------------------------------
(* The launch.                                                             *)
Seats == [state : {"free", "reserved", "pending", "session", "quarantined"},
          owner : Conns \union {NoOne}]
Transactions == [next : 1..(MaxPrompts + 1), pending : 0..MaxPrompts,
                 consumed : BOOLEAN, late : BOOLEAN]
Workers == [pc : {"none", "pam", "asking", "exiting", "running", "dead"},
            sequence : 0..MaxPrompts, out : Verdicts \union {"none", "prompt", "Started"}]
Controls == [id : Reqs \union {0}, sequence : 0..MaxPrompts]

LaunchTypeOK ==
    seat \in Seats /\ tx \in Transactions /\ wk \in Workers /\ control \in Controls

LaunchInv ==
    /\ LoginByPc /\ WorkerByPc /\ DeadlineOfALogin
    /\ SeatHeldByALogin /\ AnswerIsForItsPrompt

\* What a new transaction and a new worker are, and the seat.
LEMMA NewOnes ==
    /\ NewTransaction \in Transactions /\ ~NewTransaction.late /\ NewTransaction.pending = 0
    /\ NoAnswer \in Controls
    /\ \A p \in {"none", "pam"} : NewWorker(p) \in Workers /\ NewWorker(p).pc = p
                                 /\ NewWorker(p).out = "none"
    /\ \A c \in Conns \union {NoOne} :
          \A st \in {"free", "reserved", "pending", "session", "quarantined"} :
              SeatIs(st, c) \in Seats /\ SeatIs(st, c).state = st /\ SeatIs(st, c).owner = c
    BY LoginBounds
    DEF NewTransaction, Transactions, NoAnswer, Controls, NewWorker, Workers,
        SeatIs, Seats

\* The launch keeps the types of what it changes.
LEMMA LaunchTypes ==
    ASSUME LaunchTypeOK, NEW c \in Conns, LaunchStep(c)
    PROVE  LaunchTypeOK'
  <1>1. CASE ReserveSeat(c)
    BY <1>1, NewOnes DEF LaunchTypeOK, ReserveSeat, SeatLeft, Dropped
  <1>2. CASE AttachBackend(c)
    BY <1>2, NewOnes
    DEF LaunchTypeOK, AttachBackend, GiveBack, Pending, SeatLeft, Dropped
  <1>3. CASE Recover(c) \/ Join(c)
    BY <1>3, NewOnes DEF LaunchTypeOK, Recover, Join, Abort, SeatLeft, Dropped
  <1>4. CASE WaitExit(c)
    BY <1>4, NewOnes DEF LaunchTypeOK, WaitExit, Abort, SeatLeft, Dropped, LaunchVars
  <1>5. CASE Promote(c)
    <2>1. CASE Abort(c, "Infrastructure", "Infrastructure")
      BY <2>1, NewOnes DEF LaunchTypeOK, Abort, SeatLeft, Dropped
    <2>2. CASE Consumed(c)
      BY <2>2, Zenon DEF LaunchTypeOK, Consumed, Transactions
    <2>. QED
      BY <1>5, <2>1, <2>2, Zenon DEF Promote
  <1>6. CASE Register(c)
    BY <1>6, NewOnes DEF LaunchTypeOK, Register, SeatLeft, Dropped
  <1>. QED
    BY <1>1, <1>2, <1>3, <1>4, <1>5, <1>6, Zenon DEF LaunchStep

ThreadInv == conn \in [Conns -> Connections] /\ LaunchTypeOK /\ LaunchInv

\* A thread moves and the launch is left alone.
LEMMA QuietKeeps ==
    ASSUME LaunchInv, NEW c \in Conns, NEW p, NEW i, NEW u, NEW r, NEW n,
           Leaves(c, p, i, u, r, n), UNCHANGED LaunchVars,
           conn[c].pc \in ReservedPcs <=> p \in ReservedPcs,
           conn[c].pc \in PendingPcs <=> p \in PendingPcs,
           p \in PendingPcs => i = conn[c].req,
           p \notin {"roundTrip", "waitExit"},
           p \in LoginPcs => i \in Reqs /\ u \in Users
    PROVE  LaunchInv'
  <1>1. LoginByPc'
    BY Zenon DEF LaunchInv, LoginByPc, InLogin, Leaves, LaunchVars
  <1>2. WorkerByPc' /\ DeadlineOfALogin'
    BY Zenon DEF LaunchInv, WorkerByPc, DeadlineOfALogin, LaunchVars
  <1>3. SeatHeldByALogin'
    BY Zenon DEF LaunchInv, SeatHeldByALogin, Leaves, LaunchVars
  <1>4. AnswerIsForItsPrompt'
    BY Zenon DEF LaunchInv, AnswerIsForItsPrompt, SeatHeldByALogin, Leaves, LaunchVars
  <1>. QED
    BY <1>1, <1>2, <1>3, <1>4, Zenon DEF LaunchInv

\* A login that had the seat ends.
LEMMA EndKeeps ==
    ASSUME LaunchInv, NEW c \in Conns, InLogin(c), NEW r,
           conn[c].pc \in ReservedPcs \union PendingPcs,
           Leaves(c, "account", conn[c].req, conn[c].user, r, conn[c].requests),
           NEW st \in {"free", "reserved", "pending", "quarantined", "session"},
           seat' = SeatIs(st, NoOne),
           tx' = NewTransaction, wk' = NewWorker("none"), control' = NoAnswer
    PROVE  LaunchInv'
  <1>1. \A d \in Conns \ {c} : conn[d].pc \notin ReservedPcs \union PendingPcs
    BY DEF LaunchInv, SeatHeldByALogin, SeatIs
  <1>2. LoginByPc'
    BY <1>1 DEF LaunchInv, LoginByPc, InLogin, Leaves, PendingPcs
  <1>3. WorkerByPc' /\ DeadlineOfALogin' /\ AnswerIsForItsPrompt'
    BY NewOnes, Zenon DEF WorkerByPc, DeadlineOfALogin, AnswerIsForItsPrompt
  <1>4. SeatHeldByALogin'
    BY <1>1, NoOneIsNoConnection, Zenon
    DEF SeatHeldByALogin, Leaves, SeatIs, ReservedPcs, PendingPcs
  <1>. QED
    BY <1>2, <1>3, <1>4, Zenon DEF LaunchInv

\* reserve_seat
LEMMA ReserveSeatKeeps ==
    ASSUME ThreadInv, NEW c \in Conns, ReserveSeat(c)
    PROVE  LaunchInv'
  <1>0. /\ LaunchInv /\ LaunchTypeOK /\ conn \in [Conns -> Connections]
        /\ conn[c].pc = "reserve"
        /\ conn[c].req \in Reqs /\ conn[c].user \in Users
    BY Zenon
    DEF ThreadInv, ReserveSeat, LaunchInv, LoginByPc, InLogin, LoginPcs, HandlerPcs
  <1>1. ASSUME NEW r \in {"Infrastructure", "SeatUnavailable"}, Return(c, "account", r),
               UNCHANGED LaunchVars
        PROVE  LaunchInv'
    <2>1. Leaves(c, "account", conn[c].req, conn[c].user, r, conn[c].requests)
      BY <1>0, <1>1, ReturnLeaves, Zenon DEF Pcs, LoginPcs, HandlerPcs, Results
    <2>. QED
      BY <1>0, <1>1, <2>1, QuietKeeps DEF ReservedPcs, PendingPcs
  <1>2. ASSUME Return(c, "account", "Infrastructure"), seat.state = "free",
               SeatLeft({"reserved"}), UNCHANGED <<tx, wk, control>>
        PROVE  LaunchInv'
    <2>1. Leaves(c, "account", conn[c].req, conn[c].user, "Infrastructure", conn[c].requests)
      BY <1>0, <1>2, ReturnLeaves, Zenon DEF Pcs, LoginPcs, HandlerPcs, Results
    <2>2. \A d \in Conns : conn[d].pc \notin ReservedPcs \union PendingPcs
      BY <1>0, <1>2 DEF LaunchInv, SeatHeldByALogin, SeatIs
    <2>3. control = NoAnswer
      BY <1>0, <1>2 DEF LaunchInv, AnswerIsForItsPrompt, SeatIs
    <2>4. LoginByPc'
      BY <1>0, <2>1, <2>2, Zenon DEF LaunchInv, LoginByPc, InLogin, Leaves, PendingPcs
    <2>5. WorkerByPc' /\ DeadlineOfALogin' /\ AnswerIsForItsPrompt'
      BY <1>0, <1>2, <2>3, Zenon
      DEF LaunchInv, WorkerByPc, DeadlineOfALogin, AnswerIsForItsPrompt
    <2>6. SeatHeldByALogin'
      BY <1>2, <2>1, <2>2, NoOneIsNoConnection
      DEF SeatHeldByALogin, Leaves, SeatIs, SeatLeft, ReservedPcs, PendingPcs
    <2>. QED
      BY <2>4, <2>5, <2>6, Zenon DEF LaunchInv
  <1>3. ASSUME Goto(c, "attach"), seat.state = "free", UNCHANGED control,
               seat' = SeatIs("reserved", c), tx' = NewTransaction, wk' = NewWorker("none")
        PROVE  LaunchInv'
    <2>1. Leaves(c, "attach", conn[c].req, conn[c].user, conn[c].result, conn[c].requests)
      BY <1>0, <1>3, GotoLeaves, Zenon DEF Pcs, LoginPcs, ReservedPcs
    <2>2. \A d \in Conns : conn[d].pc \notin ReservedPcs \union PendingPcs
      BY <1>0, <1>3 DEF LaunchInv, SeatHeldByALogin, SeatIs
    <2>3. control = NoAnswer
      BY <1>0, <1>3 DEF LaunchInv, AnswerIsForItsPrompt, SeatIs
    <2>4. LoginByPc'
      BY <1>0, <2>1, <2>2, Zenon DEF LaunchInv, LoginByPc, InLogin, Leaves, PendingPcs
    <2>5. WorkerByPc' /\ DeadlineOfALogin' /\ AnswerIsForItsPrompt'
      BY <1>3, <2>3, NewOnes, Zenon
      DEF WorkerByPc, DeadlineOfALogin, AnswerIsForItsPrompt
    <2>6. SeatHeldByALogin'
      BY <1>3, <2>1, <2>2, Zenon
      DEF SeatHeldByALogin, Leaves, SeatIs, ReservedPcs, PendingPcs
    <2>. QED
      BY <2>4, <2>5, <2>6, Zenon DEF LaunchInv
  <1>. QED
    BY <1>1, <1>2, <1>3, Zenon DEF ReserveSeat, Result, Dropped, LaunchVars

\* From the reservation to the pending lifecycle.
LEMMA AttachBackendKeeps ==
    ASSUME ThreadInv, NEW c \in Conns, AttachBackend(c)
    PROVE  LaunchInv'
  <1>0. /\ LaunchInv /\ LaunchTypeOK /\ conn \in [Conns -> Connections]
        /\ conn[c].pc = "attach"
        /\ conn[c].req \in Reqs /\ conn[c].user \in Users /\ InLogin(c)
    BY Zenon
    DEF ThreadInv, AttachBackend, LaunchInv, LoginByPc, InLogin, LoginPcs, ReservedPcs
  <1>1. seat = SeatIs("reserved", c) /\ control = NoAnswer
    BY <1>0 DEF LaunchInv, SeatHeldByALogin, ReservedPcs, AnswerIsForItsPrompt, SeatIs
  <1>2. UNCHANGED control
    BY Zenon DEF AttachBackend
  <1>3. ASSUME NEW r \in {"Infrastructure", "SeatUnavailable"}, GiveBack(c, r)
        PROVE  LaunchInv'
    <2>1. Leaves(c, "account", conn[c].req, conn[c].user, r, conn[c].requests)
      BY <1>0, <1>3, ReturnLeaves, Zenon
      DEF Pcs, LoginPcs, HandlerPcs, Results, GiveBack, Result
    <2>. QED
      BY <1>0, <1>1, <1>2, <1>3, <2>1, EndKeeps, Zenon
      DEF ReservedPcs, GiveBack, SeatLeft, Dropped
  <1>4. ASSUME Pending(c), ~tx.late
        PROVE  LaunchInv'
    <2>1. Leaves(c, "await", conn[c].req, conn[c].user, conn[c].result, conn[c].requests)
      BY <1>0, <1>4, GotoLeaves, Zenon DEF Pcs, LoginPcs, PendingPcs, Pending
    <2>2. \A d \in Conns \ {c} : conn[d].pc \notin ReservedPcs \union PendingPcs
      BY <1>0, <1>1, Zenon DEF LaunchInv, SeatHeldByALogin, SeatIs
    <2>3. seat' = SeatIs("pending", c) /\ wk' = NewWorker("pam") /\ UNCHANGED <<tx, control>>
      BY <1>2, <1>4, Zenon DEF Pending
    <2>4. LoginByPc'
      BY <1>0, <2>1, <2>2 DEF LaunchInv, LoginByPc, InLogin, Leaves, PendingPcs
    <2>5. WorkerByPc' /\ DeadlineOfALogin' /\ AnswerIsForItsPrompt'
      BY <1>1, <2>3, NewOnes DEF WorkerByPc, DeadlineOfALogin, AnswerIsForItsPrompt
    <2>6. SeatHeldByALogin'
      BY <2>1, <2>2, <2>3, Zenon
      DEF SeatHeldByALogin, Leaves, SeatIs, ReservedPcs, PendingPcs
    <2>. QED
      BY <2>4, <2>5, <2>6 DEF LaunchInv
  <1>5. ASSUME Result(c, "Infrastructure"), SeatLeft({"pending"}), Dropped
        PROVE  LaunchInv'
    <2>1. Leaves(c, "account", conn[c].req, conn[c].user, "Infrastructure", conn[c].requests)
      BY <1>0, <1>5, ReturnLeaves, Zenon
      DEF Pcs, LoginPcs, HandlerPcs, Results, Result
    <2>. QED
      BY <1>0, <1>1, <1>2, <1>5, <2>1, EndKeeps, Zenon
      DEF ReservedPcs, SeatLeft, Dropped
  <1>. QED
    BY <1>3, <1>4, <1>5, Zenon DEF AttachBackend

\* abort_pending
LEMMA AbortKeeps ==
    ASSUME ThreadInv, NEW c \in Conns, conn[c].pc \in PendingPcs,
           NEW r \in Results, NEW s \in Results, Abort(c, r, s)
    PROVE  LaunchInv'
  <1>0. LaunchInv /\ conn \in [Conns -> Connections] /\ LaunchTypeOK /\ InLogin(c)
    BY Zenon DEF ThreadInv, InLogin, LoginPcs
  <1>1. \E st \in {"free", "pending", "quarantined"}, q \in {r, s} :
            seat' = SeatIs(st, NoOne) /\ Return(c, "account", q)
    BY Zenon DEF Abort, Result, SeatLeft
  <1>2. \E st \in {"free", "pending", "quarantined"}, q \in {r, s} :
            /\ seat' = SeatIs(st, NoOne)
            /\ Leaves(c, "account", conn[c].req, conn[c].user, q, conn[c].requests)
    BY <1>0, <1>1, ReturnLeaves, Zenon DEF Pcs, LoginPcs, HandlerPcs
  <1>. QED
    BY <1>0, <1>2, EndKeeps, Zenon DEF Abort, Dropped

\* The ways out of a pending login.
LEMMA EndStepsKeep ==
    ASSUME ThreadInv, NEW c \in Conns,
           Recover(c) \/ Join(c) \/ WaitExit(c) \/ Promote(c) \/ Register(c)
    PROVE  LaunchInv'
  <1>0. LaunchInv /\ conn \in [Conns -> Connections] /\ LaunchTypeOK
    BY Zenon DEF ThreadInv
  <1>1. CASE Recover(c) \/ Join(c)
    BY <1>1, AbortKeeps, Zenon DEF Recover, Join, PendingPcs, Results
  <1>2. CASE WaitExit(c)
    <2>1. CASE Abort(c, wk.out, "RecoveryIncomplete")
      <3>1. wk.out \in Results
        BY <1>0, <1>2, Zenon DEF WaitExit, LaunchInv, LoginByPc, Results
      <3>. QED
        BY <1>2, <2>1, <3>1, AbortKeeps, Zenon DEF WaitExit, PendingPcs, Results
    <2>2. CASE Goto(c, "recover") /\ UNCHANGED LaunchVars
      <3>1. Leaves(c, "recover", conn[c].req, conn[c].user, conn[c].result, conn[c].requests)
        BY <1>0, <2>2, GotoLeaves, Zenon DEF Pcs, LoginPcs, PendingPcs
      <3>2. conn[c].req \in Reqs /\ conn[c].user \in Users
        BY <1>0, <1>2, Zenon
        DEF WaitExit, LaunchInv, LoginByPc, InLogin, LoginPcs, PendingPcs
      <3>. QED
        BY <1>0, <1>2, <2>2, <3>1, <3>2, QuietKeeps
        DEF WaitExit, ReservedPcs, PendingPcs
    <2>. QED
      BY <1>2, <2>1, <2>2, Zenon DEF WaitExit
  <1>3. CASE Promote(c)
    <2>1. CASE Abort(c, "Infrastructure", "Infrastructure")
      BY <1>3, <2>1, AbortKeeps, Zenon DEF Promote, PendingPcs, Results
    <2>2. CASE Consumed(c)
      <3>1. Leaves(c, "register", conn[c].req, conn[c].user, conn[c].result, conn[c].requests)
        BY <1>0, <2>2, GotoLeaves, Zenon DEF Pcs, LoginPcs, PendingPcs, Consumed
      <3>2. /\ conn[c].req \in Reqs /\ conn[c].user \in Users
            /\ conn[c].pc = "promote"
        BY <1>0, <1>3, Zenon
        DEF Promote, LaunchInv, LoginByPc, InLogin, LoginPcs, PendingPcs
      <3>3. \A d \in Conns \ {c} : conn[d].pc \notin ReservedPcs \union PendingPcs
        BY <1>0, <3>2 DEF LaunchInv, SeatHeldByALogin, SeatIs, PendingPcs
      <3>4. UNCHANGED <<seat, wk, control>> /\ tx'.late = tx.late
        BY <1>0, <2>2, Zenon DEF Consumed, LaunchTypeOK, Transactions
      <3>5. LoginByPc'
        BY <1>0, <3>1, <3>2, <3>3
        DEF LaunchInv, LoginByPc, InLogin, Leaves, PendingPcs
      <3>6. WorkerByPc' /\ DeadlineOfALogin'
        BY <1>0, <3>4, Zenon DEF LaunchInv, WorkerByPc, DeadlineOfALogin
      <3>7. SeatHeldByALogin' /\ AnswerIsForItsPrompt'
        BY <1>0, <3>1, <3>2, <3>4, ZenonT(60)
        DEF LaunchInv, SeatHeldByALogin, AnswerIsForItsPrompt, Leaves, ReservedPcs,
            PendingPcs
      <3>. QED
        BY <3>5, <3>6, <3>7, Zenon DEF LaunchInv
    <2>. QED
      BY <1>3, <2>1, <2>2, Zenon DEF Promote
  <1>4. CASE Register(c)
    <2>1. \E r \in {"Started", "Infrastructure"} :
              Leaves(c, "account", conn[c].req, conn[c].user, r, conn[c].requests)
      BY <1>0, <1>4, ReturnLeaves, Zenon
      DEF Register, Pcs, LoginPcs, HandlerPcs, Results, Result
    <2>2. \E st \in {"free", "reserved", "pending", "quarantined", "session"} :
              seat' = SeatIs(st, NoOne)
      BY <1>4, Zenon DEF Register, SeatLeft
    <2>. QED
      BY <1>0, <1>4, <2>1, <2>2, EndKeeps, Zenon
      DEF Register, Dropped, InLogin, LoginPcs, PendingPcs
  <1>. QED
    BY <1>1, <1>2, <1>3, <1>4, Zenon

\* The worker, the clock and the session do something and no thread does.
LEMMA WorkerStepsKeep ==
    ASSUME ThreadInv, WorkerStep \/ WorkerDies \/ DeadlinePasses \/ SessionEnds
    PROVE  LaunchTypeOK' /\ LaunchInv'
  <1>0. LaunchInv /\ LaunchTypeOK /\ UNCHANGED conn
    BY Zenon
    DEF ThreadInv, WorkerStep, WorkerAsks, WorkerTakesAnswer, WorkerResponds,
        WorkerExits,
           WorkerDies, DeadlinePasses, SessionEnds
  <1>. USE DEF LaunchTypeOK, Workers, LaunchInv, LoginByPc, WorkerByPc, DeadlineOfALogin,
               SeatHeldByALogin, AnswerIsForItsPrompt, InLogin
  <1>1. CASE WorkerAsks
    <2>1. wk.sequence + 1 \in 0..MaxPrompts
      BY <1>0, <1>1, LoginBounds DEF WorkerAsks
    <2>. QED
      BY <1>0, <1>1, <2>1, Zenon DEF WorkerAsks, Verdicts
  <1>2. CASE WorkerTakesAnswer
    BY <1>0, <1>2, NewOnes DEF WorkerTakesAnswer
  <1>3. CASE WorkerResponds
    BY <1>0, <1>3, ZenonT(60) DEF WorkerResponds, Verdicts
  <1>4. CASE WorkerExits
    BY <1>0, <1>4, Zenon DEF WorkerExits
  <1>5. CASE WorkerDies
    BY <1>0, <1>5, Zenon DEF WorkerDies
  <1>6. CASE DeadlinePasses
    BY <1>0, <1>6, Zenon DEF DeadlinePasses, Transactions
  <1>7. CASE SessionEnds
    <2>1. \A c \in Conns : conn[c].pc \notin ReservedPcs \union PendingPcs
      BY <1>0, <1>7 DEF SessionEnds, SeatIs
    <2>2. control = NoAnswer
      BY <1>0, <1>7, Zenon DEF SessionEnds, SeatIs
    <2>3. LaunchTypeOK' /\ WorkerByPc' /\ DeadlineOfALogin' /\ AnswerIsForItsPrompt'
      BY <1>0, <1>7, <2>2, NewOnes, Zenon DEF SessionEnds
    <2>4. LoginByPc' /\ SeatHeldByALogin'
      BY <1>0, <1>7, <2>1, Zenon DEF SessionEnds, SeatIs, PendingPcs
    <2>. QED
      BY <2>3, <2>4, Zenon
  <1>. QED
    BY <1>1, <1>2, <1>3, <1>4, <1>5, <1>6, <1>7, Zenon DEF WorkerStep

\* One event of wait_launch_response.
LEMMA AwaitEventKeeps ==
    ASSUME ThreadInv, NEW c \in Conns, AwaitEvent(c)
    PROVE  LaunchTypeOK' /\ LaunchInv'
  <1>0. /\ LaunchInv /\ LaunchTypeOK /\ conn \in [Conns -> Connections]
        /\ conn[c].pc = "await" /\ UNCHANGED <<seat, control>>
        /\ conn[c].req \in Reqs /\ conn[c].user \in Users
    BY Zenon
    DEF ThreadInv, AwaitEvent, LaunchInv, LoginByPc, InLogin, LoginPcs, PendingPcs
  <1>1. ASSUME NEW p \in {"roundTrip", "recover", "join", "promote", "waitExit"}, Goto(c, p)
        PROVE  Leaves(c, p, conn[c].req, conn[c].user, conn[c].result, conn[c].requests)
    BY <1>0, <1>1, GotoLeaves, Zenon DEF Pcs, LoginPcs, PendingPcs
  <1>2. \A d \in Conns \ {c} : conn[d].pc \notin ReservedPcs \union PendingPcs
    BY <1>0 DEF LaunchInv, SeatHeldByALogin, SeatIs, PendingPcs
  <1>3. SeatHeldByALogin'
    <2>1. \E p \in {"roundTrip", "recover", "join", "promote", "waitExit"} : Goto(c, p)
      BY Zenon DEF AwaitEvent
    <2>. QED
      BY <1>0, <1>1, <2>1, Zenon
      DEF LaunchInv, SeatHeldByALogin, Leaves, ReservedPcs, PendingPcs
  <1>4. CASE /\ wk.out = "prompt" /\ AcceptsPrompt /\ Goto(c, "roundTrip")
             /\ tx' = [tx EXCEPT !.next = @ + 1, !.pending = wk.sequence]
             /\ wk' = [wk EXCEPT !.out = "none"]
    <2>0. tx.next + 1 \in 1..(MaxPrompts + 1) /\ wk.sequence \in 0..MaxPrompts
      BY <1>0, <1>4, LoginBounds
      DEF AcceptsPrompt, LaunchTypeOK, Transactions, Workers
    <2>1. tx' \in Transactions /\ tx'.late = tx.late /\ tx'.pending = wk.sequence
      BY <1>0, <1>4, <2>0, Zenon DEF LaunchTypeOK, Transactions
    <2>2. /\ wk' \in Workers /\ wk'.pc = wk.pc /\ wk'.sequence = wk.sequence
          /\ wk'.out = "none"
      BY <1>0, <1>4, Zenon DEF LaunchTypeOK, Workers
    <2>3. WorkerByPc' /\ DeadlineOfALogin' /\ control = NoAnswer
      BY <1>0, <1>4, <2>1, <2>2, Zenon DEF LaunchInv, WorkerByPc, DeadlineOfALogin
    <2>4. LoginByPc'
      BY <1>0, <1>1, <1>2, <1>4, <2>1, <2>2, <2>3
      DEF LaunchInv, LoginByPc, WorkerByPc, InLogin, Leaves, PendingPcs
    <2>. QED
      BY <1>0, <1>3, <2>1, <2>2, <2>3, <2>4, Zenon
      DEF LaunchTypeOK, LaunchInv, AnswerIsForItsPrompt
  <1>5. CASE /\ wk.out = "prompt" /\ Goto(c, "join") /\ UNCHANGED wk
             /\ tx' = [tx EXCEPT !.consumed = @ \/ tx.late]
    <2>1. tx' \in Transactions /\ tx'.late = tx.late
      BY <1>0, <1>5, Zenon DEF LaunchTypeOK, Transactions
    <2>2. LoginByPc' /\ WorkerByPc' /\ DeadlineOfALogin' /\ AnswerIsForItsPrompt'
      BY <1>0, <1>1, <1>2, <1>5, <2>1
      DEF LaunchInv, LoginByPc, WorkerByPc, DeadlineOfALogin, AnswerIsForItsPrompt,
          InLogin,
          Leaves, PendingPcs
    <2>. QED
      BY <1>0, <1>3, <1>5, <2>1, <2>2, Zenon DEF LaunchTypeOK, LaunchInv
  <1>6. CASE /\ UNCHANGED <<tx, wk>>
             /\ \/ Goto(c, "promote") \/ Goto(c, "recover") \/ Goto(c, "join")
                \/ Goto(c, "waitExit") /\ wk.out \in Verdicts
    <2>1. LoginByPc' /\ WorkerByPc' /\ DeadlineOfALogin' /\ AnswerIsForItsPrompt'
      BY <1>0, <1>1, <1>2, <1>6
      DEF LaunchInv, LoginByPc, WorkerByPc, DeadlineOfALogin, AnswerIsForItsPrompt,
          InLogin,
          Leaves, PendingPcs
    <2>. QED
      BY <1>0, <1>3, <1>6, <2>1, Zenon DEF LaunchTypeOK, LaunchInv
  <1>. QED
    BY <1>4, <1>5, <1>6, Zenon DEF AwaitEvent

\* forward_pam_prompt
LEMMA RoundTripKeeps ==
    ASSUME ThreadInv, NEW c \in Conns, RoundTrip(c)
    PROVE  LaunchTypeOK' /\ LaunchInv'
  <1>0. /\ LaunchInv /\ LaunchTypeOK /\ conn \in [Conns -> Connections]
        /\ conn[c].pc = "roundTrip" /\ UNCHANGED <<seat, wk>>
        /\ conn[c].req \in Reqs /\ conn[c].user \in Users
        /\ seat = SeatIs("pending", c)
    BY Zenon
    DEF ThreadInv, RoundTrip, LaunchInv, LoginByPc, SeatHeldByALogin, InLogin,
        LoginPcs,
           PendingPcs
  <1>1. \E p \in {"await", "recover", "join"} :
            Leaves(c, p, conn[c].req, conn[c].user, conn[c].result, conn[c].requests)
    <2>1. \E p \in {"await", "recover", "join"} : Goto(c, p)
      BY Zenon DEF RoundTrip, Answered, Unwritten, Refused
    <2>. QED
      BY <1>0, <2>1, GotoLeaves, Zenon DEF Pcs, LoginPcs, PendingPcs
  <1>2. \A d \in Conns \ {c} : conn[d].pc \notin ReservedPcs \union PendingPcs
    BY <1>0, Zenon DEF LaunchInv, SeatHeldByALogin, SeatIs
  <1>3. SeatHeldByALogin'
    BY <1>0, <1>1, Zenon
    DEF LaunchInv, SeatHeldByALogin, Leaves, ReservedPcs, PendingPcs
  <1>4. LoginByPc'
    BY <1>0, <1>1, <1>2 DEF LaunchInv, LoginByPc, InLogin, Leaves, PendingPcs
  <1>5. tx' \in Transactions /\ tx'.late = tx.late
    BY <1>0, LoginBounds
    DEF RoundTrip, Answered, Unwritten, Refused, LaunchTypeOK, Transactions
  <1>6. /\ control' \in Controls
        /\ control' # control => /\ wk.pc = "asking" /\ control'.id = conn[c].req
                                 /\ control'.sequence = wk.sequence
    <2>1. wk.pc \in {"asking", "dead"} /\ tx.pending = wk.sequence
      BY <1>0, Zenon DEF LaunchInv, LoginByPc
    <2>2. ASSUME NEW f \in Frames, Answers(c, f), wk.pc # "dead",
                 control' = [id |-> f.id, sequence |-> f.sequence]
          PROVE  /\ wk.pc = "asking" /\ control' \in Controls
                 /\ control'.id = conn[c].req /\ control'.sequence = wk.sequence
      BY <1>0, <2>1, <2>2, Zenon DEF Answers, Controls, LaunchTypeOK, Transactions
    <2>. QED
      BY <1>0, <2>2, Zenon DEF RoundTrip, Answered, Unwritten, Refused, LaunchTypeOK
  <1>7. WorkerByPc' /\ DeadlineOfALogin'
    BY <1>0, <1>5, Zenon DEF LaunchInv, WorkerByPc, DeadlineOfALogin, LoginByPc
  <1>8. AnswerIsForItsPrompt'
    BY <1>0, <1>1, <1>6, Zenon DEF LaunchInv, AnswerIsForItsPrompt, LoginByPc, Leaves
  <1>. QED
    BY <1>0, <1>3, <1>4, <1>5, <1>6, <1>7, <1>8, Zenon DEF LaunchInv, LaunchTypeOK

-----------------------------------------------------------------------------
(* The whole invariant.                                                    *)
Limiters == [Users -> [attempts : Nat, cool : BOOLEAN]]

\* The invariant by the parts of the state it is about, before and after a
\* step.
Rest == /\ table \in Tables /\ limiter \in Limiters
        /\ PreCommitWhileInLogin /\ ChargesBounded

LEMMA Parts == (IInv <=> ThreadInv /\ Rest) /\ (IInv' <=> ThreadInv' /\ Rest')
    BY Zenon
    DEF IInv, ThreadInv, Rest, TypeOK, LaunchTypeOK, LaunchInv, Connections, Tables,
        Limiters,
        Seats, Transactions, Workers, Controls

\* The steps of start_worker_with_conversation.
LEMMA LaunchStepsKeep ==
    ASSUME IInv, NEW c \in Conns,
           \/ LaunchStep(c) \/ AwaitEvent(c) \/ RoundTrip(c) \/ RoundTripEnds(c)
    PROVE  IInv'
  <1>0. /\ ThreadInv /\ table \in Tables /\ limiter \in Limiters /\ PreCommitWhileInLogin
        /\ ChargesBounded
    BY Parts, Zenon DEF Rest
  <1>1. conn \in [Conns -> Connections]
    BY <1>0, Zenon DEF ThreadInv
  <1>2. conn[c].pc \in {"reserve", "attach", "recover", "join", "waitExit", "promote",
                        "register", "await", "roundTrip"}
    BY Zenon
    DEF LaunchStep, ReserveSeat, AttachBackend, Recover, Join, WaitExit, Promote,
        Register, AwaitEvent, RoundTrip, RoundTripEnds
  <1>3. UNCHANGED <<table, limiter>>
    BY Zenon
    DEF LaunchStep, ReserveSeat, AttachBackend, Recover, Join, WaitExit, Promote,
        Register, AwaitEvent, RoundTrip, RoundTripEnds, HandlerVars
  <1>4. \E p \in LoginPcs \ {"check", "finish"}, r \in Results :
            Return(c, p, r) \/ Goto(c, p)
    <2>. USE DEF LoginPcs, HandlerPcs, ReservedPcs, PendingPcs, Results
    <2>1. CASE ReserveSeat(c)
      BY <2>1, Zenon DEF ReserveSeat, Result
    <2>2. CASE AttachBackend(c)
      BY <2>2, Zenon DEF AttachBackend, GiveBack, Pending, Result
    <2>3. CASE Recover(c) \/ Join(c) \/ Register(c)
      BY <2>3, Zenon DEF Recover, Join, Register, Abort, Result
    <2>4. CASE WaitExit(c)
      <3>1. wk.out \in Verdicts
        BY <1>0, <2>4, Zenon DEF WaitExit, ThreadInv, LaunchInv, LoginByPc
      <3>. QED
        BY <2>4, <3>1, Zenon DEF WaitExit, Abort, Result
    <2>5. CASE Promote(c)
      BY <2>5, Zenon DEF Promote, Consumed, Abort, Result
    <2>6. CASE AwaitEvent(c)
      BY <2>6, Zenon DEF AwaitEvent
    <2>7. CASE RoundTrip(c) \/ RoundTripEnds(c)
      BY <2>7, Zenon DEF RoundTrip, Answered, Unwritten, Refused, RoundTripEnds
    <2>. QED
      BY <2>1, <2>2, <2>3, <2>4, <2>5, <2>6, <2>7, Zenon DEF LaunchStep
  <1>5. \E p \in LoginPcs \ {"check", "finish"}, r \in Results :
            Leaves(c, p, conn[c].req, conn[c].user, r, conn[c].requests)
    <2>1. LoginPcs \subseteq Pcs /\ conn[c].result \in Results
      BY <1>1, Zenon DEF Pcs, Connections
    <2>. QED
      BY <1>1, <1>4, <2>1, GotoLeaves, ReturnLeaves, Zenon
  <1>6. conn' \in [Conns -> Connections]
    BY <1>5, Zenon DEF Leaves
  <1>7. InLogin(c) /\ conn[c].pc \notin {"check", "finish"}
    BY <1>2, Zenon DEF InLogin, LoginPcs, HandlerPcs, ReservedPcs, PendingPcs
  <1>8. PreCommitWhileInLogin'
    BY <1>0, <1>3, <1>5, <1>7, PreCommitKept, Zenon
  <1>9. ChargesBounded'
    BY <1>0, <1>3, <1>5, <1>7, ChargesKept, Zenon DEF Limiters
  <1>10. LaunchTypeOK' /\ LaunchInv'
    <2>0. LaunchTypeOK /\ LaunchInv
      BY <1>0, Zenon DEF ThreadInv
    <2>1. CASE ReserveSeat(c) \/ AttachBackend(c)
      BY <1>0, <2>0, <2>1, LaunchTypes, ReserveSeatKeeps, AttachBackendKeeps, Zenon
      DEF LaunchStep
    <2>2. CASE Recover(c) \/ Join(c) \/ WaitExit(c) \/ Promote(c) \/ Register(c)
      BY <1>0, <2>0, <2>2, LaunchTypes, EndStepsKeep, Zenon DEF LaunchStep
    <2>3. CASE AwaitEvent(c) \/ RoundTrip(c)
      BY <1>0, <2>3, AwaitEventKeeps, RoundTripKeeps, Zenon
    <2>4. CASE RoundTripEnds(c)
      <3>1. Leaves(c, "recover", conn[c].req, conn[c].user, conn[c].result, conn[c].requests)
        BY <1>1, <2>4, GotoLeaves, Zenon DEF RoundTripEnds, Pcs, LoginPcs, PendingPcs
      <3>2. conn[c].req \in Reqs /\ conn[c].user \in Users
        BY <1>7, <2>0, Zenon DEF LaunchInv, LoginByPc
      <3>3. conn[c].pc = "roundTrip" /\ UNCHANGED LaunchVars
        BY <2>4, Zenon DEF RoundTripEnds
      <3>4. LaunchInv'
        BY <2>0, <3>1, <3>2, <3>3, QuietKeeps DEF ReservedPcs, PendingPcs
      <3>. QED
        BY <2>0, <3>3, <3>4, Zenon DEF LaunchTypeOK, LaunchVars
    <2>. QED
      BY <2>1, <2>2, <2>3, <2>4, Zenon DEF LaunchStep
  <1>. QED
    BY <1>0, <1>3, <1>6, <1>8, <1>9, <1>10, Parts, Zenon DEF ThreadInv, Rest

\* A step of a thread outside the launch, which leaves the launch alone.
LEMMA HandlerKeepsLaunch ==
    ASSUME ThreadInv, NEW c \in Conns, NEW p, NEW i, NEW u, NEW r, NEW n,
           Leaves(c, p, i, u, r, n), UNCHANGED LaunchVars,
           conn[c].pc \notin ReservedPcs \union PendingPcs,
           p \notin ReservedPcs \union PendingPcs,
           p \in LoginPcs => i \in Reqs /\ u \in Users
    PROVE  ThreadInv'
  <1>1. LaunchInv'
    BY QuietKeeps, Zenon DEF ThreadInv, PendingPcs
  <1>2. conn' \in [Conns -> Connections]
    BY Zenon DEF Leaves
  <1>3. LaunchTypeOK'
    BY Zenon DEF ThreadInv, LaunchTypeOK, LaunchVars
  <1>. QED
    BY <1>1, <1>2, <1>3, Zenon DEF ThreadInv

\* A request ends, or the connection: nothing of it is left in the table
\* but what was committed.
LEMMA LeavingKeeps ==
    ASSUME IInv, NEW c \in Conns, conn[c].pc \in {"idle", "finish"},
           NEW p \in {"idle", "gone"}, NEW n, Leaves(c, p, 0, NoOne, "none", n),
           table' \in Tables,
           \A k \in Conns \X Reqs :
              table'[k] = "PreCommit" <=> table[k] = "PreCommit" /\ k[1] # c,
           UNCHANGED limiter, UNCHANGED LaunchVars
    PROVE  IInv'
  <1>0. ThreadInv /\ Rest
    BY Parts, Zenon
  <1>1. ThreadInv'
    BY <1>0, HandlerKeepsLaunch, Zenon
    DEF LoginPcs, HandlerPcs, ReservedPcs, PendingPcs
  <1>2. PreCommitWhileInLogin'
    BY <1>0
    DEF Rest, PreCommitWhileInLogin, InLogin, Leaves, Tables, LoginPcs, HandlerPcs,
        ReservedPcs,
        PendingPcs
  <1>3. Active' \subseteq Active
    BY Zenon DEF Active, Leaves
  <1>4. ASSUME NEW u \in Users
        PROVE  /\ Chargeable(u)' \subseteq Chargeable(u)
               /\ limiter'[u].attempts <= limiter[u].attempts
    <2>1. Chargeable(u)' \subseteq Chargeable(u)
      BY DEF Chargeable, Leaves, LoginPcs, HandlerPcs, ReservedPcs, PendingPcs
    <2>2. limiter[u].attempts \in Nat
      BY <1>0, Zenon DEF Rest, Limiters
    <2>. QED
      BY <2>1, <2>2
  <1>5. ChargesBounded'
    BY <1>0, <1>3, <1>4, ChargesShrink, Zenon DEF Rest, Limiters
  <1>. QED
    BY <1>0, <1>1, <1>2, <1>5, Parts, Zenon DEF Rest

\* A request is answered, or the answer cannot be written.
LEMMA EndingKeeps ==
    ASSUME IInv, NEW c \in Conns, conn[c].pc \in {"idle", "finish"},
           NEW t \in Tables, Respond(c, t),
           conn[c].req # 0 \/ conn[c].requests < MaxRequests \/ Disconnect(c, t),
           \A k \in Conns \X Reqs :
              t[k] = "PreCommit" <=> table[k] = "PreCommit" /\ k[1] # c,
           UNCHANGED limiter, UNCHANGED LaunchVars
    PROVE  IInv'
  <1>0. ThreadInv /\ Rest
    BY Parts, Zenon
  <1>1. conn \in [Conns -> Connections] /\ table \in Tables
    BY <1>0, Zenon DEF ThreadInv, Rest
  <1>2. /\ table' \in Tables
        /\ \/ table' = t
           \/ \A k \in Conns \X Reqs :
                 table'[k] = IF k[1] = c /\ t[k] = "PreCommit" THEN "none" ELSE t[k]
    BY <1>1, RespondLeaves, DisconnectLeaves
  <1>3. \E p \in {"idle", "gone"} : \E n : Leaves(c, p, 0, NoOne, "none", n)
    BY <1>1, RespondLeaves, DisconnectLeaves, Zenon
  <1>4. \A k \in Conns \X Reqs :
            table'[k] = "PreCommit" <=> table[k] = "PreCommit" /\ k[1] # c
    BY <1>2, Zenon
  <1>. QED
    BY <1>2, <1>3, <1>4, LeavingKeeps, Zenon

\* handle_client between two requests
LEMMA ReadingKeeps ==
    ASSUME IInv, NEW c \in Conns, ReadFrame(c) \/ EndOfFile(c)
    PROVE  IInv'
  <1>0. ThreadInv /\ Rest
    BY Parts, Zenon
  <1>1. /\ conn \in [Conns -> Connections] /\ table \in Tables /\ conn[c].pc = "idle"
        /\ UNCHANGED limiter /\ UNCHANGED LaunchVars
    BY <1>0, Zenon DEF ThreadInv, Rest, ReadFrame, EndOfFile
  <1>2. \A k \in Conns \X Reqs : k[1] = c => table[k] # "PreCommit"
    BY <1>0, <1>1, Zenon
    DEF Rest, PreCommitWhileInLogin, Tables, InLogin, LoginPcs, HandlerPcs,
        ReservedPcs,
        PendingPcs
  <1>3. ASSUME NEW t \in Tables,
               Disconnect(c, t) \/ (Respond(c, t) /\ conn[c].requests < MaxRequests),
               \A k \in Conns \X Reqs :
                  t[k] \in {table[k], "none"} /\ (k[1] # c => t[k] = table[k])
        PROVE  IInv'
    <2>1. \A k \in Conns \X Reqs : t[k] = "PreCommit" <=> table[k] = "PreCommit" /\ k[1] # c
      BY <1>2, <1>3, Zenon
    <2>. QED
      BY <1>1, <1>3, <2>1, EndingKeeps, Zenon DEF Respond
  <1>4. CASE Disconnect(c, table)
    BY <1>1, <1>3, <1>4, Zenon
  <1>5. ASSUME NEW f \in Frames, f.type = "cancel", Cancel(c, f),
               conn[c].requests < MaxRequests
        PROVE  IInv'
    <2>. DEFINE t == [table EXCEPT ![<<c, f.target>>] = "none"]
    <2>1. t \in Tables
      BY <1>1, Zenon DEF Tables
    <2>2. \A k \in Conns \X Reqs :
             t[k] \in {table[k], "none"} /\ (k[1] # c => t[k] = table[k])
      BY <1>1 DEF Tables
    <2>3. Respond(c, t)
      BY <1>5, Zenon DEF Cancel
    <2>. QED
      BY <1>3, <1>5, <2>1, <2>2, <2>3, Zenon
  <1>6. ASSUME NEW f \in Frames, f.type = "login", BeginLogin(c, f),
               conn[c].requests < MaxRequests
        PROVE  IInv'
    <2>1. PICK id \in Reqs :
              /\ Leaves(c, "check", id, f.user, conn[c].result, id) /\ f.user \in Users
              /\ table' = [table EXCEPT ![<<c, id>>] = "PreCommit"]
      BY <1>1, <1>6, BeginLeaves, Zenon
    <2>2. ThreadInv'
      BY <1>0, <1>1, <2>1, HandlerKeepsLaunch, Zenon DEF ReservedPcs, PendingPcs
    <2>3. table' \in Tables /\ PreCommitWhileInLogin'
      BY <1>0, <1>1, <1>2, <2>1
      DEF Rest, PreCommitWhileInLogin, Tables, InLogin, Leaves, LoginPcs, HandlerPcs
    <2>4. Active' \subseteq Active
      BY <1>1, <2>1, Zenon DEF Active, Leaves
    <2>5. ASSUME NEW u \in Users
          PROVE  /\ Chargeable(u)' \subseteq Chargeable(u)
                 /\ limiter'[u].attempts <= limiter[u].attempts
      <3>1. Chargeable(u)' \subseteq Chargeable(u)
        BY <2>1, Zenon DEF Chargeable, Leaves
      <3>2. limiter[u].attempts \in Nat
        BY <1>0, Zenon DEF Rest, Limiters
      <3>. QED
        BY <1>1, <3>1, <3>2
    <2>6. ChargesBounded'
      BY <1>0, <1>1, <2>4, <2>5, ChargesShrink, Zenon DEF Rest, Limiters
    <2>. QED
      BY <1>0, <1>1, <2>2, <2>3, <2>6, Parts, Zenon DEF Rest
  <1>7. ASSUME Respond(c, table), conn[c].requests < MaxRequests
        PROVE  IInv'
    BY <1>1, <1>3, <1>7, Zenon
  <1>. QED
    BY <1>4, <1>5, <1>6, <1>7, Zenon DEF ReadFrame, EndOfFile

\* transactions::finish
LEMMA FinishKeeps ==
    ASSUME IInv, NEW c \in Conns, Finish(c)
    PROVE  IInv'
  <1>. DEFINE t == [table EXCEPT ![<<c, conn[c].req>>] =
                      IF conn[c].result = "Started" THEN "Committed" ELSE "none"]
  <1>0. ThreadInv /\ Rest
    BY Parts, Zenon
  <1>1. /\ conn[c].pc = "finish" /\ InLogin(c) /\ table \in Tables
        /\ UNCHANGED limiter /\ UNCHANGED LaunchVars
    BY <1>0, Zenon DEF Finish, InLogin, LoginPcs, HandlerPcs, Rest
  <1>2. conn[c].req \in Reqs /\ conn[c].req # 0
    BY <1>0, <1>1, LoginBounds DEF ThreadInv, LaunchInv, LoginByPc, Reqs
  <1>3. t \in Tables
    BY <1>1, Zenon DEF Tables
  <1>4. \A k \in Conns \X Reqs : t[k] = "PreCommit" <=> table[k] = "PreCommit" /\ k[1] # c
    <2>1. \A k \in Conns \X Reqs : k[1] = c /\ k # <<c, conn[c].req>> => table[k] # "PreCommit"
      BY <1>0, <1>1 DEF Rest, PreCommitWhileInLogin, Tables
    <2>. QED
      BY <1>1, <1>2, <2>1 DEF Tables
  <1>. QED
    BY <1>1, <1>2, <1>3, <1>4, EndingKeeps, Zenon DEF Finish

\* run and the handshake
LEMMA AcceptKeeps ==
    ASSUME IInv, NEW c \in Conns, Accept(c)
    PROVE  IInv'
  <1>0. ThreadInv /\ Rest
    BY Parts
  <1>1. /\ conn \in [Conns -> Connections] /\ conn[c].pc = "none"
        /\ UNCHANGED <<table, limiter>> /\ UNCHANGED LaunchVars
    BY <1>0, Zenon DEF ThreadInv, Accept, HandlerVars
  <1>2. PICK p \in {"idle", "gone"} :
            /\ Leaves(c, p, conn[c].req, conn[c].user, conn[c].result, conn[c].requests)
            /\ p = "idle" => Cardinality(Active) < MaxConnections
    BY <1>1, GotoLeaves, Zenon DEF Accept, Pcs
  <1>3. ThreadInv'
    BY <1>0, <1>1, <1>2, HandlerKeepsLaunch, Zenon
    DEF LoginPcs, HandlerPcs, ReservedPcs, PendingPcs
  <1>4. PreCommitWhileInLogin'
    BY <1>0, <1>1, <1>2
    DEF Rest, PreCommitWhileInLogin, InLogin, Leaves, Tables, LoginPcs, HandlerPcs,
        ReservedPcs,
        PendingPcs
  <1>5. IsFiniteSet(Active') /\ Cardinality(Active') <= MaxConnections
    <2>1. Active' \subseteq Active \union {c} /\ (p = "gone" => Active' \subseteq Active)
      BY <1>1, <1>2, Zenon DEF Active, Leaves
    <2>2. IsFiniteSet(Active) /\ Cardinality(Active) <= MaxConnections
      BY <1>0, Zenon DEF Rest, ChargesBounded
    <2>3. IsFiniteSet(Active \union {c})
          /\ Cardinality(Active \union {c}) <= Cardinality(Active) + 1
      BY <2>2, FS_AddElement, FS_CardinalityType
    <2>4. CASE p = "gone"
      BY <2>1, <2>2, <2>4, FS_Subset, FS_CardinalityType, LoginBounds
    <2>5. CASE p = "idle"
      <3>1. Cardinality(Active') <= Cardinality(Active \union {c}) /\ IsFiniteSet(Active')
        BY <2>1, <2>3, FS_Subset, Zenon
      <3>2. Cardinality(Active) < MaxConnections
        BY <1>2, <2>5, Zenon
      <3>3. /\ Cardinality(Active) \in Nat /\ Cardinality(Active') \in Nat
            /\ Cardinality(Active \union {c}) \in Nat
        BY <2>2, <2>3, <3>1, FS_CardinalityType, Zenon
      <3>. QED
        BY <2>3, <3>1, <3>2, <3>3, LoginBounds
    <2>. QED
      BY <2>4, <2>5, Zenon
  <1>6. \A u \in Users : Chargeable(u)' = Chargeable(u)
    BY <1>1, <1>2
    DEF Chargeable, Leaves, LoginPcs, HandlerPcs, ReservedPcs, PendingPcs
  <1>7. ChargesBounded'
    BY <1>0, <1>1, <1>5, <1>6, Zenon DEF Rest, ChargesBounded
  <1>. QED
    BY <1>0, <1>1, <1>3, <1>4, <1>7, Parts, Zenon DEF Rest

\* The cooldown of a user is over.
LEMMA CooldownKeeps ==
    ASSUME IInv, NEW u \in Users, CooldownPasses(u)
    PROVE  IInv'
  <1>0. ThreadInv /\ Rest
    BY Parts
  <1>1. UNCHANGED <<conn, table>> /\ UNCHANGED LaunchVars
    BY Zenon DEF CooldownPasses
  <1>2. limiter' \in Limiters /\ \A v \in Users : limiter'[v].attempts = limiter[v].attempts
    BY <1>0, Zenon DEF CooldownPasses, Rest, Limiters
  <1>3. ThreadInv'
    BY <1>0, <1>1, Zenon
    DEF ThreadInv, LaunchInv, LaunchTypeOK, LoginByPc, WorkerByPc, DeadlineOfALogin,
        SeatHeldByALogin, AnswerIsForItsPrompt, InLogin, LaunchVars
  <1>4. PreCommitWhileInLogin'
    BY <1>0, <1>1, Zenon DEF Rest, PreCommitWhileInLogin, InLogin
  <1>5. Active' = Active /\ \A v \in Users : Chargeable(v)' = Chargeable(v)
    BY <1>1, Zenon DEF Active, Chargeable
  <1>6. ChargesBounded'
    BY <1>0, <1>2, <1>5, Zenon DEF Rest, ChargesBounded
  <1>. QED
    BY <1>0, <1>1, <1>2, <1>3, <1>4, <1>6, Parts, Zenon DEF Rest

\* is_rate_limited: a login is let in only below the limit.
LEMMA CheckKeeps ==
    ASSUME IInv, NEW c \in Conns, CheckRateLimit(c)
    PROVE  IInv'
  <1>. DEFINE v == conn[c].user
  <1>0. ThreadInv /\ Rest
    BY Parts
  <1>1. /\ conn \in [Conns -> Connections] /\ conn[c].pc = "check" /\ InLogin(c)
        /\ limiter \in Limiters /\ UNCHANGED table /\ UNCHANGED LaunchVars
    BY <1>0, Zenon DEF ThreadInv, Rest, CheckRateLimit, InLogin, LoginPcs, HandlerPcs
  <1>2. conn[c].req \in Reqs /\ v \in Users
    BY <1>0, <1>1, Zenon DEF ThreadInv, LaunchInv, LoginByPc
  <1>3. \E p \in {"finish", "reserve"}, r \in Results :
            /\ Leaves(c, p, conn[c].req, v, r, conn[c].requests)
            /\ \/ p = "finish" /\ limiter' = limiter
               \/ limiter' = [limiter EXCEPT ![v] = IF AtLimit(v) THEN LimiterIdle ELSE @]
    <2>1. conn[c].result \in Results /\ {"finish", "reserve"} \subseteq Pcs
          /\ {"LoginFailed", "SessionUnavailable"} \subseteq Results
      BY <1>1, Zenon DEF Connections, Pcs, LoginPcs, HandlerPcs, Results
    <2>. QED
      BY <1>1, <2>1, GotoLeaves, ReturnLeaves, Zenon DEF CheckRateLimit
  <1>4. PICK p \in {"finish", "reserve"}, r \in Results :
            /\ Leaves(c, p, conn[c].req, v, r, conn[c].requests)
            /\ \/ p = "finish" /\ limiter' = limiter
               \/ limiter' = [limiter EXCEPT ![v] = IF AtLimit(v) THEN LimiterIdle ELSE @]
    BY <1>3, Zenon
  <1>5. ThreadInv'
    BY <1>0, <1>1, <1>2, <1>4, HandlerKeepsLaunch, Zenon DEF ReservedPcs, PendingPcs
  <1>6. PreCommitWhileInLogin'
    BY <1>0, <1>1, <1>4, PreCommitKept, Zenon DEF Rest, LoginPcs, HandlerPcs
  <1>7. /\ limiter' \in Limiters
        /\ \A u \in Users : limiter'[u].attempts <= limiter[u].attempts
        /\ p = "reserve" => limiter'[v].attempts < MaxAttempts
    <2>1. CASE limiter' = limiter /\ p = "finish"
      BY <1>1, <2>1 DEF Limiters
    <2>2. CASE limiter' = [limiter EXCEPT ![v] = IF AtLimit(v) THEN LimiterIdle ELSE @]
      <3>1. LimiterIdle \in [attempts : Nat, cool : BOOLEAN] /\ LimiterIdle.attempts = 0
        BY Zenon DEF LimiterIdle
      <3>2. limiter' \in Limiters
        BY <1>1, <1>2, <2>2, <3>1, Zenon DEF Limiters
      <3>3. ASSUME NEW u \in Users
            PROVE  limiter'[u].attempts <= limiter[u].attempts
        BY <1>1, <1>2, <2>2, <3>1 DEF Limiters
      <3>4. limiter'[v].attempts < MaxAttempts
        BY <1>1, <1>2, <2>2, <3>1, LoginBounds DEF Limiters, AtLimit
      <3>. QED
        BY <3>2, <3>3, <3>4, Zenon
    <2>. QED
      BY <1>4, <2>1, <2>2, Zenon
  <1>8. Active' \subseteq Active
    BY <1>1, <1>4, Zenon DEF Active, Leaves
  <1>9. ASSUME NEW u \in Users
        PROVE  \/ Chargeable(u)' \subseteq Chargeable(u)
               \/ limiter'[u].attempts < MaxAttempts /\ Chargeable(u)' \subseteq Active
    <2>1. CASE p = "reserve" /\ u = v
      <3>1. Chargeable(u)' \subseteq Active'
        BY Zenon DEF Chargeable, Active, LoginPcs, HandlerPcs, ReservedPcs, PendingPcs
      <3>. QED
        BY <1>7, <1>8, <2>1, <3>1, Zenon
    <2>2. CASE p = "finish" \/ u # v
      BY <1>4, <2>2, Zenon DEF Chargeable, Leaves
    <2>. QED
      BY <2>1, <2>2, Zenon
  <1>10. ChargesBounded'
    BY <1>0, <1>1, <1>7, <1>8, <1>9, ChargesGrow, Zenon DEF Rest, Limiters
  <1>. QED
    BY <1>0, <1>1, <1>5, <1>6, <1>7, <1>10, Parts, Zenon DEF Rest

\* What handle_login_with_binding does with the backend's result.
LEMMA AccountKeeps ==
    ASSUME IInv, NEW c \in Conns, Account(c)
    PROVE  IInv'
  <1>0. ThreadInv /\ Rest
    BY Parts
  <1>1. /\ conn \in [Conns -> Connections] /\ conn[c].pc = "account" /\ InLogin(c)
        /\ limiter \in Limiters /\ UNCHANGED table /\ UNCHANGED LaunchVars
    BY <1>0, Zenon DEF ThreadInv, Rest, Account, InLogin, LoginPcs, HandlerPcs
  <1>2. PICK v \in Users : v = conn[c].user /\ conn[c].req \in Reqs
    BY <1>0, <1>1, Zenon DEF ThreadInv, LaunchInv, LoginByPc
  <1>3. Leaves(c, "finish", conn[c].req, v, conn[c].result, conn[c].requests)
    BY <1>1, <1>2, GotoLeaves, Zenon DEF Account, Pcs, LoginPcs, HandlerPcs
  <1>4. ThreadInv'
    BY <1>0, <1>1, <1>2, <1>3, HandlerKeepsLaunch DEF ReservedPcs, PendingPcs
  <1>5. PreCommitWhileInLogin'
    BY <1>0, <1>1, <1>2, <1>3, PreCommitKept, Zenon DEF Rest, LoginPcs, HandlerPcs
  <1>6. \E l \in {[attempts |-> limiter[v].attempts + 1, cool |-> FALSE], LimiterIdle,
                  limiter[v]} :
            limiter' = [limiter EXCEPT ![v] = l]
    BY <1>1, <1>2, Zenon DEF Account, Limiters
  <1>7. /\ limiter' \in Limiters /\ limiter'[v].attempts <= limiter[v].attempts + 1
        /\ \A u \in Users \ {v} : limiter'[u] = limiter[u]
    <2>1. /\ LimiterIdle \in [attempts : Nat, cool : BOOLEAN] /\ LimiterIdle.attempts = 0
          /\ limiter[v] \in [attempts : Nat, cool : BOOLEAN]
      BY <1>1, <1>2, Zenon DEF LimiterIdle, Limiters
    <2>2. PICK l : /\ l \in {[attempts |-> limiter[v].attempts + 1, cool |-> FALSE],
                              LimiterIdle, limiter[v]}
                   /\ limiter' = [limiter EXCEPT ![v] = l]
      BY <1>6, Zenon
    <2>3. l \in [attempts : Nat, cool : BOOLEAN] /\ l.attempts <= limiter[v].attempts + 1
      <3>1. limiter[v].attempts + 1 \in Nat
        BY <2>1
      <3>2. CASE l = [attempts |-> limiter[v].attempts + 1, cool |-> FALSE]
        BY <3>1, <3>2
      <3>3. CASE l = LimiterIdle
        BY <2>1, <3>3
      <3>4. CASE l = limiter[v]
        BY <2>1, <3>4
      <3>. QED
        BY <2>2, <3>2, <3>3, <3>4, Zenon
    <2>. QED
      BY <1>1, <1>2, <2>2, <2>3, Zenon DEF Limiters
  <1>8. Active' \subseteq Active
    BY <1>1, <1>3, Zenon DEF Active, Leaves
  <1>9. c \in Chargeable(v) /\ Chargeable(v)' \subseteq Chargeable(v) \ {c}
    BY <1>1, <1>2, <1>3, Zenon DEF Chargeable, Leaves, LoginPcs, HandlerPcs
  <1>10. \A u \in Users \ {v} : Chargeable(u)' \subseteq Chargeable(u)
    BY <1>2, <1>3, Zenon DEF Chargeable, Leaves
  <1>11. ChargesBounded'
    <2>1. ChargesBounded /\ limiter \in [Users -> [attempts : Nat, cool : BOOLEAN]]
          /\ limiter' \in [Users -> [attempts : Nat, cool : BOOLEAN]]
      BY <1>0, <1>7, Zenon DEF Rest, Limiters
    <2>. QED
      BY <1>2, <1>7, <1>8, <1>9, <1>10, <2>1, ChargeMoves, Zenon
  <1>. QED
    BY <1>0, <1>1, <1>4, <1>5, <1>7, <1>11, Parts, Zenon DEF Rest

-----------------------------------------------------------------------------
(* Results.                                                                *)

\* The daemon starts with nothing in flight.
LEMMA InitHolds == Init => IInv
  <1>. SUFFICES ASSUME Init PROVE IInv
    BY Zenon
  <1>1. /\ conn \in [Conns -> Connections] /\ table \in Tables /\ limiter \in Limiters
        /\ LaunchTypeOK
    BY NewOnes, LoginBounds
    DEF Init, Connections, Pcs, Results, Tables, Limiters, LimiterIdle, LaunchTypeOK
  <1>2. /\ \A c \in Conns : conn[c].pc = "none"
        /\ seat.state = "free" /\ ~tx.late /\ wk.pc = "none" /\ wk.out = "none"
        /\ control = NoAnswer
    BY NewOnes DEF Init
  <1>3. LaunchInv
    BY <1>2
    DEF LaunchInv, LoginByPc, WorkerByPc, DeadlineOfALogin, SeatHeldByALogin,
        AnswerIsForItsPrompt, InLogin, LoginPcs, HandlerPcs, ReservedPcs, PendingPcs, SeatIs
  <1>4. PreCommitWhileInLogin
    BY <1>2, Zenon
    DEF Init, PreCommitWhileInLogin, InLogin, LoginPcs, HandlerPcs, ReservedPcs,
        PendingPcs
  <1>5. ChargesBounded
    <2>1. Active = {} /\ \A u \in Users : Chargeable(u) = {}
      BY <1>2, Zenon
      DEF Active, Chargeable, LoginPcs, HandlerPcs, ReservedPcs, PendingPcs
    <2>2. \A u \in Users : limiter[u].attempts = 0
      BY Zenon DEF Init, LimiterIdle
    <2>. QED
      BY <2>1, <2>2, FS_EmptySet, LoginBounds DEF ChargesBounded
  <1>. QED
    BY <1>1, <1>3, <1>4, <1>5, Parts, Zenon DEF ThreadInv, Rest

\* The worker's and the clock's steps touch neither the table nor a charge.
LEMMA OtherStepsKeep ==
    ASSUME IInv, \/ WorkerStep \/ WorkerDies \/ DeadlinePasses \/ SessionEnds
                 \/ UNCHANGED vars
    PROVE  IInv'
  <1>0. ThreadInv /\ Rest
    BY Parts, Zenon
  <1>1. UNCHANGED <<conn, table, limiter>>
    BY Zenon
    DEF WorkerStep, WorkerAsks, WorkerTakesAnswer, WorkerResponds, WorkerExits,
        WorkerDies,
           DeadlinePasses, SessionEnds, HandlerVars, vars
  <1>2. LaunchTypeOK' /\ LaunchInv'
    <2>1. CASE UNCHANGED vars
      BY <1>0, <2>1, Zenon
      DEF ThreadInv, LaunchInv, LaunchTypeOK, LoginByPc, WorkerByPc, DeadlineOfALogin,
          SeatHeldByALogin, AnswerIsForItsPrompt, InLogin, vars
    <2>. QED
      BY <1>0, <2>1, WorkerStepsKeep, Zenon
  <1>3. PreCommitWhileInLogin'
    BY <1>0, <1>1, Zenon DEF Rest, PreCommitWhileInLogin, InLogin
  <1>4. ChargesBounded'
    <2>1. Active' = Active /\ \A u \in Users : Chargeable(u)' = Chargeable(u)
      BY <1>1, Zenon DEF Active, Chargeable
    <2>. QED
      BY <1>0, <1>1, <2>1, Zenon DEF Rest, ChargesBounded
  <1>. QED
    BY <1>0, <1>1, <1>2, <1>3, <1>4, Parts, Zenon DEF ThreadInv, Rest

\* Every reachable state satisfies the inductive invariant, for any number
\* of connections, users, requests and prompts.
THEOREM InvariantHolds == Spec => []IInv
  <1>1. IInv /\ [Next]_vars => IInv'
    <2>. SUFFICES ASSUME IInv, [Next]_vars PROVE IInv'
      BY Zenon
    <2>1. ASSUME NEW c \in Conns, Accept(c) \/ GreeterStep(c) \/ ThreadStep(c)
          PROVE  IInv'
      BY <2>1, AcceptKeeps, ReadingKeeps, LaunchStepsKeep, CheckKeeps, AccountKeeps,
         FinishKeeps, Zenon
      DEF GreeterStep, ThreadStep, HandlerStep
    <2>. QED
      BY <2>1, CooldownKeeps, OtherStepsKeep, Zenon DEF Next
  <1>. QED
    BY <1>1, InitHolds, PTL DEF Spec

\* The seat is reserved or pending for a login exactly while that login is
\* inside start_worker_with_conversation.
THEOREM SeatHolds == Spec => []SeatHeldByALogin
  <1>1. IInv => SeatHeldByALogin
    BY Zenon DEF IInv
  <1>. QED
    BY <1>1, InvariantHolds, PTL

\* The transaction table's PreCommit entries are the running logins.
THEOREM PreCommitHolds == Spec => []PreCommitWhileInLogin
  <1>1. IInv => PreCommitWhileInLogin
    BY Zenon DEF IInv
  <1>. QED
    BY <1>1, InvariantHolds, PTL

\* Only the answer to the prompt it is blocked on reaches a worker.
THEOREM AnswerHolds == Spec => []AnswerIsForItsPrompt
  <1>1. IInv => AnswerIsForItsPrompt
    BY Zenon DEF IInv
  <1>. QED
    BY <1>1, InvariantHolds, PTL

\* MAX_GREETER_CONNECTIONS bounds how far the charges of a user go beyond
\* max_attempts.
THEOREM OvershootHolds == Spec => []RateLimitOvershoot
  <1>1. IInv => RateLimitOvershoot
    <2>. SUFFICES ASSUME IInv, NEW u \in Users
                  PROVE  limiter[u].attempts <= MaxAttempts + MaxConnections - 1
      BY Zenon DEF RateLimitOvershoot
    <2>1. limiter[u].attempts \in Nat /\ ChargesBounded
      BY Zenon DEF IInv, TypeOK
    <2>2. Cardinality(Chargeable(u)) \in Nat
      BY <2>1, ChargeableIsFinite, FS_CardinalityType, Zenon
    <2>. QED
      BY <2>1, <2>2, LoginBounds DEF ChargesBounded
  <1>. QED
    BY <1>1, InvariantHolds, PTL

\* What a step does to the results: they come from the launcher's own
\* constants, or from the worker.
LEMMA ResultsOfAStep ==
    ASSUME IInv, NEW d \in Conns, Accept(d) \/ GreeterStep(d) \/ ThreadStep(d)
    PROVE  \A c \in Conns : \/ conn'[c].result = conn[c].result
                            \/ conn'[c].result # "AuthenticationFailed"
                            \/ wk.out = "AuthenticationFailed"
  <1>0. conn \in [Conns -> Connections]
    BY Zenon DEF IInv, TypeOK, Connections
  <1>. DEFINE Known(r) == r # "AuthenticationFailed" \/ wk.out = "AuthenticationFailed"
              Good == \A c \in Conns :
                         conn'[c].result = conn[c].result \/ Known(conn'[c].result)
  <1>. SUFFICES Good
    BY Zenon
  <1>1. ASSUME NEW p, Goto(d, p) PROVE Good
    BY <1>0, <1>1, Zenon DEF Goto, Connections
  <1>2. ASSUME NEW p, NEW r, Return(d, p, r), Known(r) PROVE Good
    BY <1>0, <1>2, Zenon DEF Return, Connections
  <1>3. ASSUME NEW t, Respond(d, t) \/ Disconnect(d, t) PROVE Good
    BY <1>0, <1>3 DEF Respond, Disconnect, Connections
  <1>4. ASSUME NEW f, BeginLogin(d, f) PROVE Good
    BY <1>0, <1>4, Zenon DEF BeginLogin, Connections
  <1>5. ASSUME NEW r, NEW s, Abort(d, r, s), Known(r), Known(s) PROVE Good
    BY <1>2, <1>5, Zenon DEF Abort, Result
  <1>. HIDE DEF Good
  <1>6. CASE Accept(d) \/ RoundTrip(d) \/ RoundTripEnds(d) \/ AwaitEvent(d)
    BY <1>1, <1>6, Zenon
    DEF Accept, RoundTrip, Answered, Unwritten, Refused, RoundTripEnds, AwaitEvent
  <1>7. CASE ReadFrame(d) \/ EndOfFile(d)
    BY <1>3, <1>4, <1>7, Zenon DEF ReadFrame, EndOfFile, Cancel
  <1>8. CASE HandlerStep(d)
    BY <1>1, <1>2, <1>3, <1>8, Zenon DEF HandlerStep, CheckRateLimit, Account, Finish
  <1>9. CASE ReserveSeat(d) \/ AttachBackend(d)
    BY <1>1, <1>2, <1>9, Zenon
    DEF ReserveSeat, AttachBackend, GiveBack, Pending, Result
  <1>10. CASE Recover(d) \/ Join(d) \/ Promote(d) \/ Register(d)
    BY <1>1, <1>2, <1>5, <1>10, Zenon
    DEF Recover, Join, Promote, Consumed, Register, Result
  <1>11. CASE WaitExit(d)
    BY <1>1, <1>5, <1>11, Zenon DEF WaitExit
  <1>. QED
    BY <1>6, <1>7, <1>8, <1>9, <1>10, <1>11, Zenon
    DEF GreeterStep, ThreadStep, LaunchStep

\* What is charged as a failed login is the worker's word.
THEOREM VerdictsHold == Spec => OnlyVerdictsAreCharged
  <1>. DEFINE Charged ==
          \A c \in Conns :
             conn[c].result # "AuthenticationFailed" /\ conn'[c].result = "AuthenticationFailed"
                 => wk.out = "AuthenticationFailed"
  <1>1. IInv /\ [Next]_vars => [Charged]_vars
    <2>. SUFFICES ASSUME IInv, Next PROVE Charged
      BY Zenon
    <2>1. ASSUME UNCHANGED conn PROVE Charged
      BY <2>1, Zenon
    <2>2. \/ \E d \in Conns : Accept(d) \/ GreeterStep(d) \/ ThreadStep(d)
          \/ UNCHANGED conn
      BY Zenon
      DEF Next, CooldownPasses, WorkerStep, WorkerAsks, WorkerTakesAnswer,
          WorkerResponds,
             WorkerExits, WorkerDies, DeadlinePasses, SessionEnds
    <2>. QED
      BY <2>1, <2>2, ResultsOfAStep, Zenon
  <1>. QED
    BY <1>1, InvariantHolds, PTL DEF Spec, OnlyVerdictsAreCharged

\* Who a step of the thread of d takes to register: d, and only before its
\* deadline.
LEMMA EntersRegister ==
    ASSUME IInv, NEW d \in Conns, Accept(d) \/ GreeterStep(d) \/ ThreadStep(d), tx.late,
           NEW c \in Conns, conn[c].pc # "register"
    PROVE  conn'[c].pc # "register"
  <1>0. conn \in [Conns -> Connections]
    BY Zenon DEF IInv, TypeOK, Connections
  <1>1. ASSUME NEW p, Goto(d, p), p # "register" PROVE conn'[c].pc # "register"
    BY <1>0, <1>1, Zenon DEF Goto, Connections
  <1>2. ASSUME NEW r, Return(d, "account", r) \/ Return(d, "finish", r)
        PROVE  conn'[c].pc # "register"
    BY <1>0, <1>2, ZenonT(60) DEF Return, Connections
  <1>3. ASSUME NEW t, Respond(d, t) \/ Disconnect(d, t) PROVE conn'[c].pc # "register"
    BY <1>0, <1>3 DEF Respond, Disconnect, Connections
  <1>4. ASSUME NEW f, BeginLogin(d, f) PROVE conn'[c].pc # "register"
    BY <1>0, <1>4, ZenonT(60) DEF BeginLogin, Connections
  <1>5. ASSUME NEW r, NEW s, Abort(d, r, s) PROVE conn'[c].pc # "register"
    BY <1>2, <1>5, Zenon DEF Abort, Result
  <1>6. CASE Accept(d) \/ RoundTrip(d) \/ RoundTripEnds(d) \/ AwaitEvent(d)
    BY <1>1, <1>6, Zenon
    DEF Accept, RoundTrip, Answered, Unwritten, Refused, RoundTripEnds, AwaitEvent
  <1>7. CASE ReadFrame(d) \/ EndOfFile(d)
    BY <1>3, <1>4, <1>7, Zenon DEF ReadFrame, EndOfFile, Cancel
  <1>8. CASE HandlerStep(d)
    BY <1>1, <1>2, <1>3, <1>8, Zenon DEF HandlerStep, CheckRateLimit, Account, Finish
  <1>9. CASE ReserveSeat(d) \/ AttachBackend(d)
    BY <1>1, <1>2, <1>9, Zenon
    DEF ReserveSeat, AttachBackend, GiveBack, Pending, Result
  <1>10. CASE Recover(d) \/ Join(d) \/ Promote(d) \/ Register(d)
    BY <1>2, <1>5, <1>10, Zenon DEF Recover, Join, Promote, Register, Result
  <1>11. CASE WaitExit(d)
    BY <1>1, <1>5, <1>11, Zenon DEF WaitExit
  <1>. QED
    BY <1>6, <1>7, <1>8, <1>9, <1>10, <1>11, Zenon
    DEF GreeterStep, ThreadStep, LaunchStep

\* What a step after the deadline does to the control channel and the seat.
LEMMA AfterTheDeadline ==
    ASSUME IInv, Next, tx.late
    PROVE  /\ control' \in {control, NoAnswer}
           /\ seat'.state = "session" => \E d \in Conns : Register(d)
  <1>. DEFINE Good == /\ control' \in {control, NoAnswer}
                      /\ seat'.state = "session" => \E d \in Conns : Register(d)
  <1>1. seat.state \in {"reserved", "pending"}
    BY Zenon DEF IInv, DeadlineOfALogin
  <1>2. CASE UNCHANGED <<seat, control>>
    BY <1>1, <1>2, Zenon
  <1>3. ASSUME NEW st \in {"free", "reserved", "pending", "quarantined"},
               NEW o \in Conns \union {NoOne}, seat' = SeatIs(st, o),
               control' \in {control, NoAnswer}
        PROVE  Good
    BY <1>3, Zenon DEF SeatIs
  <1>4. ASSUME NEW c \in Conns,
               \/ Accept(c) \/ ReadFrame(c) \/ EndOfFile(c) \/ RoundTripEnds(c)
               \/ HandlerStep(c) \/ AwaitEvent(c)
        PROVE  UNCHANGED <<seat, control>>
    BY <1>4, Zenon
    DEF Accept, ReadFrame, EndOfFile, RoundTripEnds, HandlerStep, CheckRateLimit,
        Account, Finish, AwaitEvent, LaunchVars
  <1>5. ASSUME NEW c \in Conns, RoundTrip(c)
        PROVE  UNCHANGED <<seat, control>>
    BY <1>5, Zenon DEF RoundTrip, Refused, Expired
  <1>6. ASSUME NEW c \in Conns, NEW r, NEW s, Abort(c, r, s)
        PROVE  Good
    BY <1>3, <1>6, Zenon DEF Abort, SeatLeft
  <1>7. ASSUME NEW c \in Conns, LaunchStep(c)
        PROVE  Good
    <2>1. CASE ReserveSeat(c) \/ AttachBackend(c)
      BY <1>2, <1>3, <2>1, Zenon
      DEF ReserveSeat, AttachBackend, GiveBack, Pending, SeatLeft
    <2>2. CASE Recover(c) \/ Join(c) \/ WaitExit(c) \/ Promote(c)
      BY <1>2, <1>6, <2>2, Zenon DEF Recover, Join, WaitExit, Promote, LaunchVars
    <2>3. CASE Register(c)
      BY <2>3, Zenon DEF Register
    <2>. QED
      BY <1>7, <2>1, <2>2, <2>3, Zenon DEF LaunchStep
  <1>8. CASE WorkerStep \/ WorkerDies \/ DeadlinePasses \/ SessionEnds
    BY <1>1, <1>8, Zenon
    DEF WorkerStep, WorkerAsks, WorkerTakesAnswer, WorkerResponds, WorkerExits,
        WorkerDies, DeadlinePasses, SessionEnds, SeatIs
  <1>9. ASSUME NEW u \in Users, CooldownPasses(u)
        PROVE  UNCHANGED <<seat, control>>
    BY <1>9, Zenon DEF CooldownPasses, LaunchVars
  <1>. QED
    BY <1>2, <1>4, <1>5, <1>7, <1>8, <1>9, Zenon DEF Next, GreeterStep, ThreadStep

\* After its deadline a login gets no answer, and becomes a session only if
\* its conversation was consumed before it.
THEOREM DeadlineHolds == Spec => DeadlineIsFinal
  <1>. DEFINE Final ==
          tx.late => /\ control' \in {control, NoAnswer}
                     /\ \A c \in Conns :
                           conn[c].pc # "register" /\ seat.owner = c =>
                               conn'[c].pc # "register" /\ seat'.state # "session"
  <1>1. IInv /\ [Next]_vars => [Final]_vars
    <2>. SUFFICES ASSUME IInv, Next, tx.late PROVE Final
      BY Zenon
    <2>1. ASSUME NEW c \in Conns, conn[c].pc # "register", seat.owner = c
          PROVE  conn'[c].pc # "register"
      <3>1. \/ \E d \in Conns : Accept(d) \/ GreeterStep(d) \/ ThreadStep(d)
            \/ UNCHANGED conn
        BY Zenon
        DEF Next, CooldownPasses, WorkerStep, WorkerAsks, WorkerTakesAnswer,
            WorkerResponds, WorkerExits, WorkerDies, DeadlinePasses, SessionEnds
      <3>. QED
        BY <2>1, <3>1, EntersRegister, Zenon
    <2>2. ASSUME NEW c \in Conns, conn[c].pc # "register", seat.owner = c,
                 seat'.state = "session"
          PROVE  FALSE
      <3>1. PICK d \in Conns : Register(d)
        BY <2>2, AfterTheDeadline, Zenon
      <3>2. seat = SeatIs("pending", d) /\ conn[d].pc = "register"
        BY <3>1, Zenon DEF Register, IInv, SeatHeldByALogin, PendingPcs
      <3>. QED
        BY <2>2, <3>2, Zenon DEF SeatIs
    <2>. QED
      BY <2>1, <2>2, AfterTheDeadline, Zenon
  <1>. QED
    BY <1>1, InvariantHolds, PTL DEF Spec, DeadlineIsFinal
=============================================================================
