---------------------- MODULE SessionSupervisionProofs ----------------------
(***************************************************************************)
(* Proofs about SessionSupervision: the supervisor's handlers keep the     *)
(* inductive invariant, the safety properties follow, and launchers,       *)
(* supervisor and workers implement the abstract seat.                     *)
(***************************************************************************)
EXTENDS SessionStepProofs

-----------------------------------------------------------------------------
(* The calls that spend a lease.                                           *)

\* Leaves of a controller that matches a lease of login L.
LEMMA Matching ==
    ASSUME IInv, NEW L \in LifecycleIds, NEW t \in Tokens, t.id = L, MatchesPhase(adm, t)
    PROVE  /\ Owner = L /\ adm.phase.tag # "Free" /\ adm.lifecycle = FreeSeat /\ ~Supervised(L)
           /\ rec[L].state # "vt_disallocate_failed_busy"
           /\ adm.phase.gen = t.gen /\ adm.generation = t.gen
  <1>1. adm.phase.tag # "Free" /\ adm.phase.id = L /\ Owner = L
    BY Zenon DEF MatchesPhase, Tokens, LeaseKinds, ReceiptKinds, Owner
  <1>2. adm.lifecycle = FreeSeat /\ LoginInv(L)
    BY <1>1, LoginIs, Zenon DEF AdmissionExclusive
  <1>3. FreeSeat.id # L /\ FreeSeat # SeatIs("Active", L)
    BY NoIdAssumption, Zenon DEF FreeSeat, SeatIs
  <1>. QED
    BY <1>1, <1>2, <1>3, Zenon DEF MatchesPhase, LoginInv, ChildHasSeat, RecordHasSeat

\* The login that a lease call is from, and its lease.
LEMMA LeaseHandled ==
    ASSUME IInv, NEW c \in LeaseCalls, Handle(c)
    PROVE  \E L \in LifecycleIds, t \in Tokens :
               /\ L = Head(mbox).id /\ t = Head(mbox).lease /\ t.id = L /\ LeaseOf(L, t)
               /\ InBox(L, c)
  <1>1. mbox \in Seq(Messages) /\ mbox # <<>> /\ Head(mbox).call = c
    BY Zenon DEF IInv, TypeOK, Handle
  <1>2. Head(mbox) \in Messages
    BY <1>1
  <1>3. Head(mbox) \in Box
    <2>1. 1 \in DOMAIN mbox /\ Head(mbox) = mbox[1]
      BY <1>1
    <2>. QED
      BY <2>1, Zenon DEF Box
  <1>4. PICK L \in LifecycleIds : L = Head(mbox).id
    BY <1>2, Zenon DEF Messages
  <1>5. LeaseOf(L, Head(mbox).lease) /\ InBox(L, c)
    BY <1>1, <1>3, <1>4, LoginIs, Zenon DEF LoginInv, Leases, InBox
  <1>. QED
    BY <1>2, <1>4, <1>5, Zenon DEF LeaseOf, Messages

\* What handling a lease call leaves to show of the login.
Settles(L) ==
    /\ ChildHasSeat(L)' /\ EntryHasSeat(L)' /\ WorkerReports(L)'
    /\ NoLease(L)' => RecordHasSeat(L)'
    /\ faults' = 0 => (/\ ~((Owner = L)' /\ adm'.phase.tag # "Free")
                       /\ ~((Owner = L)' /\ adm'.lifecycle.tag = "Recovering"))

\* A call that spends the launcher's lease keeps the inductive invariant when
\* what it leaves of the login is settled.
LEMMA SpentKeeps ==
    ASSUME IInv, NEW L \in LifecycleIds, NEW c \in LeaseCalls, Handle(c), Head(mbox).id = L,
           NEW ok \in BOOLEAN, c = "BeginPending" => ~ok, NEW gen \in Nat,
           NEW lease \in {NoId, lch[L].lease}, Reply(L, c, ok, lease, gen),
           NEW e \in Entries, NEW k \in Kids, NEW r \in Records,
           NEW w \in Workers, NEW z \in ScopeStates, Writes(L, e, k, r, w, z), Settles(L),
           adm' \in Controllers, AdmissionExclusive', SeatMoves(L),
           faults' \in 0 .. MaxFaults, faults' = 0 => faults = 0
    PROVE  IInv'
  <1>0. LoginInv(L) /\ AdmissionExclusive
    BY LoginIs, Zenon
  <1>h. AfterCall(L, c, ok, lease)
    <2>1. c \in Calls \ VtCalls
      BY Zenon DEF LeaseCalls, Calls, VtCalls
    <2>2. lease \in Tokens \union {NoId}
      BY LoginIs, SMTT(30) DEF Launchers
    <2>. QED
      BY <2>1, <2>2, Handled, Zenon
  <1>1. /\ lch[L].lease = NoId
        /\ c = "CancelAdmission" => lch[L].call = "ReserveSeat" /\ lch[L].pc = "failed"
        /\ c # "CancelAdmission" => lch[L].call = c
    BY <1>0, <1>h, Zenon
    DEF AfterCall, LoginInv, QueuedCalls, Leases, HoldsLease, GaveUp, LeaseCalls,
        EntryCalls
  <1>2. lch'[L].lease = NoId /\ ~HoldsLease(lch[L])'
    <2>1. ~HoldsLease(lch[L])
      BY <1>0, <1>1, Zenon DEF LoginInv, Leases
    <2>. QED
      BY <1>h, <1>1, <2>1, Zenon
      DEF AfterCall, HoldsLease, Waiting, EntryCalls, LeaseCalls
  <1>3. NoLease(L)'
    <2>1. \A x \in LeaseCalls : x # c => ~InBox(L, x)
      BY <1>0, <1>1, <1>h, Zenon DEF AfterCall, LoginInv, QueuedCalls, LeaseCalls
    <2>. QED
      BY <1>h, <1>2, <2>1, Kinds, Zenon DEF AfterCall, NoLease
  <1>4. Leases(L)'
    <2>1. \A m \in Box' : ~(m.id = L /\ m.call \in LeaseCalls)
      BY <1>3, Zenon DEF NoLease, InBox
    <2>. QED
      BY <1>2, <2>1, Zenon DEF Leases
  <1>5. EntryFollows(L)'
    <2>1. /\ ~InBox(L, "BeginPending")' /\ ~InBox(L, "Register")'
          /\ lch'[L].call \notin {"RecordPreparedScope", "MarkPayloadRegistered"}
      BY <1>h, <1>1, <1>3, Zenon DEF AfterCall, NoLease, LeaseCalls
    <2>. QED
      BY <2>1, Zenon DEF EntryFollows, Returned, Waiting
  <1>6. NoFaultYet(L)'
    <2>1. lch'[L].pc # "registering"
      BY <1>0, <1>h, <1>1, Zenon DEF AfterCall, LoginInv, LastCall, LeaseCalls
    <2>. QED
      BY <1>h, <2>1, Zenon DEF AfterCall, NoFaultYet, Settles, Waitable
  <1>7. LoginInv(L)'
    BY <1>h, <1>3, <1>4, <1>5, <1>6, Zenon DEF AfterCall, LoginInv, Settles
  <1>. QED
    BY <1>h, <1>7, SupervisorWrites, Zenon DEF AfterCall, Handle

\* The seat is left alone.
LEMMA SeatStays ==
    ASSUME IInv, NEW L \in LifecycleIds, adm' = adm
    PROVE  /\ adm' \in Controllers /\ AdmissionExclusive' /\ SeatMoves(L)
           /\ (Owner = L)' <=> Owner = L
  BY LoginIs, Zenon DEF AdmissionExclusive, SeatMoves, Owner

\* cancel, for a login that has no worker.
LEMMA CancelAdmissionStep ==
    ASSUME IInv, HandleCancelAdmission
    PROVE  IInv'
  <1>. DEFINE c == "CancelAdmission"
  <1>0. /\ Handle(c) /\ CancelLease(Head(mbox).lease) /\ c \in LeaseCalls
        /\ UNCHANGED <<pend, kids, rec, lch, wrk, scope>>
    BY Zenon DEF HandleCancelAdmission, LeaseCalls
  <1>1. PICK L \in LifecycleIds, t \in Tokens :
             L = Head(mbox).id /\ t = Head(mbox).lease /\ t.id = L /\ LeaseOf(L, t) /\ InBox(L, c)
    BY <1>0, LeaseHandled, Zenon
  <1>2. LoginInv(L)
    BY LoginIs, Zenon
  <1>3. /\ Writes(L, pend[L], kids[L], rec[L], wrk[L], scope[L])
    BY <1>0, LoginIs, Zenon DEF Writes
  <1>4. Reply(L, c, FALSE, NoId, 0)
    BY <1>0, <1>2, Zenon DEF LoginInv, LastCall, Reply, Waiting
  <1>5. /\ wrk[L].pc = "none" /\ scope[L] = "none" /\ pend[L].st = "none" /\ ~HasRecord(L)
    BY <1>1, <1>2, Zenon DEF LoginInv, QueuedCalls, WorkerReports
  <1>6. /\ adm' \in Controllers /\ AdmissionExclusive' /\ SeatMoves(L) /\ ChildHasSeat(L)'
        /\ faults' \in 0 .. MaxFaults /\ (faults' = 0 => faults = 0)
        /\ faults' = 0 => (/\ ~((Owner = L)' /\ adm'.phase.tag # "Free")
                           /\ ~((Owner = L)' /\ adm'.lifecycle.tag = "Recovering"))
    <2>1. CASE ~MatchesPhase(adm, t)
      <3>1. adm' = adm /\ faults' = faults
        BY <1>0, <1>1, <2>1, Zenon DEF CancelLease
      <3>2. ~(Owner = L /\ adm.phase.tag # "Free")
        BY <1>1, <2>1, Zenon DEF LeaseOf
      <3>3. faults = 0 => ~(Owner = L /\ adm.lifecycle.tag = "Recovering")
        BY <1>2, Zenon DEF LoginInv, NoFaultYet
      <3>4. ChildHasSeat(L)'
        BY <1>0, <1>2, <3>1, Zenon DEF LoginInv, ChildHasSeat, Supervised, HasRecord
      <3>. QED
        BY <3>1, <3>2, <3>3, <3>4, LoginIs, SeatStays
    <2>2. CASE MatchesPhase(adm, t)
      <3>1. PICK removed \in BOOLEAN :
                 Spend(Cost(removed)) /\ adm' = IF removed THEN DoCancel(adm) ELSE adm
        BY <1>0, <1>1, <2>2, Zenon DEF CancelLease
      <3>2. faults' \in 0 .. MaxFaults /\ (faults' = 0 => faults = 0 /\ removed)
        BY <3>1, Costs, Counted, LoginIs, Zenon DEF IInv
      <3>3. /\ Owner = L /\ adm.phase.tag # "Free" /\ ~Supervised(L)
        BY <1>1, <2>2, Matching, Zenon
      <3>4. ChildHasSeat(L)'
        BY <1>0, <3>3, Zenon DEF ChildHasSeat, Supervised
      <3>5. CASE removed
        BY <3>1, <3>2, <3>3, <3>4, <3>5, SeatIsFreed, NoIdAssumption, SMTT(30)
      <3>6. CASE ~removed
        BY <3>1, <3>2, <3>4, <3>6, SeatStays
      <3>. QED
        BY <3>5, <3>6, Zenon
    <2>. QED
      BY <2>1, <2>2, Zenon
  <1>7. EntryHasSeat(L)' /\ WorkerReports(L)' /\ RecordHasSeat(L)'
    BY <1>0, <1>2, <1>5, Zenon
    DEF LoginInv, EntryHasSeat, WorkerReports, RecordHasSeat, HasRecord, HasPayload
  <1>8. Settles(L)
    BY <1>6, <1>7, Zenon DEF Settles
  <1>. QED
    BY <1>0, <1>1, <1>3, <1>4, <1>6, <1>8, LoginIs, SpentKeeps, Zenon

\* reserve, for a login that has no worker.
LEMMA ReserveSeatStep ==
    ASSUME IInv, HandleReserveSeat
    PROVE  IInv'
  <1>. DEFINE c == "ReserveSeat"
  <1>0. Handle(c) /\ UNCHANGED <<pend, kids, rec, wrk, scope>> /\ c \in Calls \ VtCalls
    BY Zenon DEF HandleReserveSeat, Calls, VtCalls
  <1>1. PICK L \in LifecycleIds : L = Head(mbox).id
    BY <1>0, HandledLogin, Zenon
  <1>2. LoginInv(L) /\ lch[L].gen \in Nat /\ lch[L].lease \in Tokens \union {NoId}
    BY LoginIs, Zenon DEF Launchers
  <1>3. InBox(L, c)
    <2>1. mbox \in Seq(Messages) /\ mbox # <<>> /\ Head(mbox).call = c
      BY <1>0, Zenon DEF IInv, TypeOK, Handle
    <2>2. 1 \in DOMAIN mbox /\ Head(mbox) = mbox[1]
      BY <2>1
    <2>. QED
      BY <1>1, <2>1, <2>2, Zenon DEF Box, InBox
  <1>4. lch[L].call = c /\ GaveUp(lch[L])
    BY <1>2, <1>3, Zenon DEF LoginInv, QueuedCalls
  <1>5. /\ lch[L].lease = NoId /\ NoLease(L) /\ ~HoldsLease(lch[L])
    <2>1. lch[L].lease = NoId /\ ~HoldsLease(lch[L])
      BY <1>2, <1>4, Zenon DEF LoginInv, Leases, HoldsLease, GaveUp, EntryCalls
    <2>. QED
      BY <1>2, <1>3, <1>4, <2>1, Zenon DEF LoginInv, QueuedCalls, NoLease, LeaseCalls
  <1>6. /\ wrk[L].pc = "none" /\ scope[L] = "none" /\ pend[L].st = "none" /\ ~HasRecord(L)
    BY <1>2, <1>4, Zenon DEF LoginInv, WorkerReports
  <1>7. Writes(L, pend[L], kids[L], rec[L], wrk[L], scope[L])
    BY <1>0, LoginIs, Zenon DEF Writes
  <1>8. EntryHasSeat(L)' /\ RecordHasSeat(L)'
    BY <1>0, <1>6, ZenonT(60) DEF EntryHasSeat, RecordHasSeat, HasRecord, HasPayload
  <1>9. ASSUME NEW ok \in BOOLEAN, NEW lease \in Tokens \union {NoId}, NEW gen \in Nat,
               Reply(L, c, ok, lease, gen), ok <=> lease # NoId, ok => LeaseOf(L, lease)',
               adm' \in Controllers, AdmissionExclusive', SeatMoves(L), ChildHasSeat(L)',
               faults' \in 0 .. MaxFaults, faults' = 0 => faults = 0,
               faults' = 0 => (/\ (Owner = L)' /\ adm'.phase.tag # "Free" => ok
                               /\ (Owner = L)' => adm'.lifecycle.tag # "Recovering")
        PROVE  IInv'
    <2>h. AfterCall(L, c, ok, lease)
      BY <1>0, <1>1, <1>9, Handled, Zenon
    <2>1. \A x \in LeaseCalls : ~InBox(L, x)'
      BY <1>5, <2>h, Kinds, Zenon DEF AfterCall, NoLease
    <2>2. Leases(L)'
      <3>1. \A m \in Box' : ~(m.id = L /\ m.call \in LeaseCalls)
        BY <2>1, Zenon DEF InBox
      <3>2. lch'[L].lease # NoId <=> HoldsLease(lch[L])'
        BY <1>4, <1>5, <1>9, <2>h, Zenon DEF AfterCall, HoldsLease, EntryCalls
      <3>3. lch'[L].lease # NoId => LeaseOf(L, lch[L].lease)'
        <4>1. lch'[L].lease # NoId => lch'[L].lease = lease /\ ok
          BY <1>5, <1>9, <2>h, Zenon DEF AfterCall
        <4>. QED
          BY <1>9, <4>1, Zenon DEF LeaseOf
      <3>. QED
        BY <3>1, <3>2, <3>3, Zenon DEF Leases
    <2>3. EntryFollows(L)'
      <3>1. ~InBox(L, "BeginPending")' /\ ~InBox(L, "Register")'
        BY <2>1, Kinds, Zenon
      <3>2. lch'[L].call = c
        BY <1>4, <2>h, Zenon DEF AfterCall
      <3>. QED
        BY <3>1, <3>2, Zenon DEF EntryFollows, Returned, Waiting
    <2>4. lch'[L].pc # "registering" /\ lch'[L].call = c
      BY <1>2, <1>4, <2>h, Zenon DEF AfterCall, LoginInv, LastCall
    <2>5. WorkerReports(L)'
      BY <1>0, <1>2, <1>4, <2>4, ZenonT(60) DEF LoginInv, WorkerReports, HasRecord
    <2>6. NoFaultYet(L)'
      <3>1. faults' = 0 /\ ok => lch'[L].lease # NoId
        BY <1>9, <2>h, ZenonT(60) DEF AfterCall
      <3>. QED
        BY <1>9, <2>h, <2>4, <3>1 DEF NoFaultYet, AfterCall, Waitable, NoLease
    <2>7. LoginInv(L)'
      BY <1>8, <1>9, <2>h, <2>2, <2>3, <2>5, <2>6, SMTT(30) DEF LoginInv, AfterCall
    <2>. QED
      BY <1>0, <1>7, <1>9, <2>h, <2>7, LoginIs, SupervisorWrites, SMTT(30)
      DEF AfterCall, Handle
  <1>10. ASSUME ReplyErr(L, c), adm' = adm, faults' = faults \/ Spend(1)
         PROVE  IInv'
    <2>1. Reply(L, c, FALSE, NoId, lch[L].gen)
      BY <1>5, <1>10, Zenon DEF ReplyErr
    <2>2. ChildHasSeat(L)'
      BY <1>0, <1>2, <1>10, Zenon DEF LoginInv, ChildHasSeat, Supervised, HasRecord
    <2>3. faults' \in 0 .. MaxFaults /\ (faults' = 0 => faults = 0)
      BY <1>10, LoginIs, Counted, ZenonT(60) DEF IInv
    <2>4. faults = 0 => ~(Owner = L /\ adm.phase.tag # "Free")
                        /\ ~(Owner = L /\ adm.lifecycle.tag = "Recovering")
      BY <1>2, <1>5 DEF LoginInv, NoFaultYet
    <2>. QED
      BY <1>2, <1>9, <1>10, <2>1, <2>2, <2>3, <2>4, SeatStays, Zenon
  <1>11. ASSUME CanReserve(adm, "Clear"), adm' = DoReserve(adm, L), NEW stored \in BOOLEAN,
                Spend(Cost(stored)), NEW t, t = [ReserveLease(adm, L) EXCEPT !.bound = TRUE],
                Reply(L, c, stored, IF stored THEN t ELSE NoId, 0)
         PROVE  IInv'
    <2>1. t \in Tokens /\ t.id = L /\ t.kind = "Reserved" /\ t.kind \in LeaseKinds
      <3>1. adm.nextAttempt \in Nat /\ adm.generation + 1 \in Nat
        BY LoginIs DEF Controllers
      <3>. QED
        BY <1>11, <3>1, Zenon DEF ReserveLease, Lease, Tokens, LeaseKinds
    <2>2. /\ adm' \in Controllers /\ AdmissionExclusive' /\ SeatMoves(L) /\ (Owner' = L)
          /\ adm'.phase.tag = t.kind /\ adm'.lifecycle = FreeSeat
          /\ adm.lifecycle = FreeSeat /\ (MatchesPhase(adm, t)')
      BY <1>11, <2>1, SeatInPhase, Zenon
    <2>3. ChildHasSeat(L)'
      <3>1. FreeSeat # SeatIs("Active", L)
        BY Zenon DEF FreeSeat, SeatIs
      <3>. QED
        BY <1>0, <1>2, <2>2, <3>1, Zenon DEF LoginInv, ChildHasSeat, Supervised
    <2>4. faults' \in 0 .. MaxFaults /\ (faults' = 0 => faults = 0 /\ stored)
      BY <1>11, Costs, Counted, LoginIs, Zenon DEF IInv
    <2>5. t # NoId
      BY <2>1, NoTokenAssumption, Zenon
    <2>6. LeaseOf(L, t)'
      BY <2>1, <2>2, <2>5, Zenon DEF LeaseOf
    <2>7. CASE stored
      <3>1. Reply(L, c, TRUE, t, 0) /\ adm'.lifecycle.tag # "Recovering"
        <4>1. stored = TRUE /\ (IF stored THEN t ELSE NoId) = t
          BY <1>11, <2>7, Zenon
        <4>2. Reply(L, c, TRUE, t, 0)
          BY <1>11, <4>1, Zenon DEF Reply
        <4>3. FreeSeat.tag # "Recovering"
          BY Zenon DEF FreeSeat
        <4>. QED
          BY <2>2, <4>2, <4>3, Zenon
      <3>2. t \in Tokens \union {NoId} /\ TRUE \in BOOLEAN /\ 0 \in Nat
        BY <2>1, Zenon
      <3>. QED
        BY <1>9, <2>2, <2>3, <2>4, <2>5, <2>6, <3>1, <3>2, ZenonT(60)
    <2>8. CASE ~stored
      BY <1>9, <1>11, <2>1, <2>2, <2>3, <2>4, <2>8, SMTT(30) DEF FreeSeat
    <2>. QED
      BY <2>7, <2>8
  <1>. QED
    BY <1>1, <1>10, <1>11, Zenon DEF HandleReserveSeat

\* begin_pending: a worker is there, an entry and a record are not.
LEMMA BeginPendingStep ==
    ASSUME IInv, HandleBeginPending
    PROVE  IInv'
  <1>. DEFINE c == "BeginPending"
  <1>0. /\ Handle(c) /\ c \in LeaseCalls /\ c \in Calls \ VtCalls
        /\ UNCHANGED <<kids, rec, wrk, scope>>
    BY Zenon DEF HandleBeginPending, LeaseCalls, Calls, VtCalls
  <1>1. PICK L \in LifecycleIds, t \in Tokens :
             L = Head(mbox).id /\ t = Head(mbox).lease /\ t.id = L /\ LeaseOf(L, t) /\ InBox(L, c)
    BY <1>0, LeaseHandled, Zenon
  <1>2. LoginInv(L) /\ lch[L].gen \in Nat
    BY LoginIs, Zenon DEF Launchers
  <1>3. pend[L].st = "none" /\ ~HasRecord(L)
    BY <1>1, <1>2, Zenon DEF LoginInv, EntryFollows
  <1>4. lch[L].call = c /\ GaveUp(lch[L]) /\ lch[L].lease = NoId
    BY <1>1, <1>2, Zenon
    DEF LoginInv, QueuedCalls, Leases, HoldsLease, GaveUp, EntryCalls
  <1>5. wrk[L].pc # "none" /\ ~wrk[L].reader
    BY <1>2, <1>4, ZenonT(60) DEF LoginInv, WorkerReports
  <1>6. CASE ~MatchesPhase(adm, t) /\ adm' = adm /\ faults' = faults /\ ReplyErr(L, c) /\ pend' = pend
    <2>1. Reply(L, c, FALSE, NoId, lch[L].gen)
      BY <1>4, <1>6, Zenon DEF ReplyErr
    <2>2. Writes(L, pend[L], kids[L], rec[L], wrk[L], scope[L])
      BY <1>0, <1>6, LoginIs, ZenonT(60) DEF Writes
    <2>3. AfterCall(L, c, FALSE, NoId)
      BY <1>0, <1>1, <1>2, <2>1, Handled, Zenon
    <2>4. lch'[L].pc = "registering" => lch[L].pc = "registering"
      BY <2>3, Zenon DEF AfterCall
    <2>5. WorkerReports(L)'
      BY <1>0, <1>2, <1>6, <2>3, <2>4
      DEF AfterCall, LoginInv, WorkerReports, HasRecord
    <2>6. EntryHasSeat(L)' /\ ChildHasSeat(L)'
      BY <1>0, <1>2, <1>3, <1>6, Zenon
      DEF LoginInv, EntryHasSeat, ChildHasSeat, HasRecord, HasPayload, Supervised
    <2>7. RecordHasSeat(L)'
      BY <1>0, <1>2, <1>3, <1>6, Zenon DEF LoginInv, RecordHasSeat, HasRecord
    <2>8. ~(Owner = L /\ adm.phase.tag # "Free")
      BY <1>1, <1>6, Zenon DEF LeaseOf
    <2>9. faults = 0 => ~(Owner = L /\ adm.lifecycle.tag = "Recovering")
      BY <1>2, Zenon DEF LoginInv, NoFaultYet
    <2>10. Settles(L)
      BY <1>6, <2>5, <2>6, <2>7, <2>8, <2>9, SeatStays, SMTT(30) DEF Settles
    <2>. QED
      BY <1>0, <1>1, <1>2, <1>6, <2>1, <2>2, <2>10, LoginIs, SeatStays, SpentKeeps,
         Zenon
  <1>7. CASE /\ MatchesPhase(adm, t) /\ adm' = DoAdvance(adm, t, "PendingLifecycle")
             /\ pend' = [pend EXCEPT ![L] = [NoEntry EXCEPT !.st = "WorkerSpawned"]]
             /\ Reply(L, c, TRUE, Advanced(t, "PendingLifecycle"), 0)
             /\ faults' = faults
    <2>1. PICK u \in Tokens : /\ u = Advanced(t, "PendingLifecycle") /\ u.id = L
                              /\ u.kind = "PendingLifecycle" /\ u.gen = t.gen
                              /\ u.attempt = t.attempt /\ u.kind \in LeaseKinds
      <3>. DEFINE v == Advanced(t, "PendingLifecycle")
      <3>1. /\ v.id = t.id /\ v.kind = "PendingLifecycle" /\ v.gen = t.gen
            /\ v.attempt = t.attempt /\ v.bound = t.bound /\ v \in Tokens
        BY Zenon DEF Advanced, Tokens, LeaseKinds
      <3>2. v.kind \in LeaseKinds
        BY <3>1, Zenon DEF LeaseKinds
      <3>. HIDE DEF v
      <3>. QED
        BY <1>1, <3>1, <3>2, Zenon DEF v
    <2>2. Owner = L /\ adm.phase.tag # "Free" /\ adm.phase.gen = t.gen /\ adm.generation = t.gen
          /\ ~Supervised(L)
      BY <1>1, <1>7, Matching, Zenon
    <2>3. adm' = DoAdvance(adm, u, u.kind)
      BY <1>1, <1>7, <2>1, Zenon DEF DoAdvance
    <2>4. /\ adm' \in Controllers /\ AdmissionExclusive' /\ SeatMoves(L) /\ (Owner' = L)
          /\ adm'.phase.tag = "PendingLifecycle" /\ adm'.lifecycle = FreeSeat
          /\ (MatchesPhase(adm, u)')
      BY <2>1, <2>2, <2>3, SeatInPhase, Zenon
    <2>. DEFINE e == [NoEntry EXCEPT !.st = "WorkerSpawned"]
    <2>5. e \in Entries /\ e.st = "WorkerSpawned"
      BY Zenon DEF NoEntry, Entries, PendingStates
    <2>6. Writes(L, e, kids[L], rec[L], wrk[L], scope[L])
      BY <1>0, <1>7, LoginIs, Zenon DEF Writes
    <2>. HIDE DEF e
    <2>7. pend'[L] = e
      BY <2>5, <2>6, LoginIs, SupervisorWrites, Zenon
    <2>8. Reply(L, c, TRUE, u, 0)
      BY <1>7, <2>1, Zenon
    <2>9. AfterCall(L, c, TRUE, u)
      BY <1>0, <1>1, <2>1, <2>8, Handled, Zenon
    <2>10. lch'[L].call = c /\ lch'[L].pc # "registering"
      BY <1>2, <1>4, <2>9, Zenon DEF AfterCall, LoginInv, LastCall
    <2>11. \A x \in LeaseCalls : ~InBox(L, x)'
      BY <1>2, <1>4, <2>9, Zenon
      DEF AfterCall, LoginInv, QueuedCalls, LeaseCalls, VtCalls
    <2>12. Leases(L)'
      <3>1. \A m \in Box' : ~(m.id = L /\ m.call \in LeaseCalls)
        BY <2>11, Zenon DEF InBox
      <3>2. u # NoId
        BY <2>1, NoTokenAssumption, ZenonT(60)
      <3>3. lch'[L].lease # NoId <=> HoldsLease(lch[L])'
        BY <1>2, <1>4, <2>9, <3>2
        DEF AfterCall, HoldsLease, EntryCalls, LoginInv, Leases
      <3>4. lch'[L].lease # NoId => lch'[L].lease = u
        BY <1>4, <2>9, Zenon DEF AfterCall
      <3>. QED
        BY <2>1, <2>4, <3>1, <3>2, <3>3, <3>4 DEF Leases, LeaseOf
    <2>13. EntryFollows(L)'
      <3>1. ~InBox(L, "BeginPending")' /\ ~InBox(L, "Register")'
        BY <2>11, Kinds, ZenonT(60)
      <3>. QED
        BY <2>10, <3>1, Zenon DEF EntryFollows, Returned, Waiting
    <2>14. WorkerReports(L)'
      BY <1>0, <1>2, <1>4, <1>5, <2>10 DEF LoginInv, WorkerReports
    <2>15. EntryHasSeat(L)' /\ ChildHasSeat(L)'
      BY <1>0, <2>2, <2>4, <2>5, <2>7, Zenon
      DEF EntryHasSeat, ChildHasSeat, HasPayload, Supervised
    <2>16. RecordHasSeat(L)'
      BY <1>0, <1>2, <1>3, <2>4, Zenon DEF LoginInv, RecordHasSeat, HasRecord
    <2>17. NoFaultYet(L)'
      <3>1. faults' = 0 => lch'[L].lease # NoId
        BY <1>7, <2>1, <2>9, NoTokenAssumption DEF AfterCall
      <3>. QED
        BY <1>7, <2>4, <2>9, <2>10, <3>1
        DEF NoFaultYet, AfterCall, Waitable, NoLease, FreeSeat
    <2>18. LoginInv(L)'
      BY <2>9, <2>12, <2>13, <2>14, <2>15, <2>16, <2>17, ZenonT(60)
      DEF LoginInv, AfterCall
    <2>. QED
      BY <1>0, <1>7, <2>4, <2>5, <2>6, <2>9, <2>18, LoginIs, SupervisorWrites, Zenon
      DEF AfterCall, Handle
  <1>. QED
    BY <1>1, <1>6, <1>7, Zenon DEF HandleBeginPending, CanAdvance, CancelLease

-----------------------------------------------------------------------------
(* The calls that take an entry off the list.                              *)

\* reap_pending_worker leaves a dead worker.
LEMMA KilledIs ==
    ASSUME NEW w \in Workers
    PROVE  /\ Killed(w) \in Workers /\ Killed(w).out = w.out /\ Killed(w).reader = w.reader
           /\ Killed(w).pc \in {w.pc, "exitBad"} /\ Killed(w).pc \in DeadPcs
           /\ Killed(w).pc # "acked"
  <1>1. CASE w.pc \in DeadPcs
    BY <1>1, Zenon DEF Killed, DeadPcs
  <1>2. CASE w.pc \notin DeadPcs
    <2>. DEFINE v == [w EXCEPT !.pc = "exitBad"]
    <2>1. v \in Workers /\ v.out = w.out /\ v.reader = w.reader /\ v.pc = "exitBad"
      BY Zenon DEF Workers, WorkerPcs, DeadPcs
    <2>2. Killed(w) = v
      BY <1>2, Zenon DEF Killed
    <2>. HIDE DEF v
    <2>. QED
      BY <2>1, <2>2, Zenon DEF DeadPcs
  <1>. QED
    BY <1>1, <1>2, Zenon

\* register_running and abort_pending remove the entry.  The login keeps its
\* invariant when its record and its processes still have the seat, and when
\* without a fault no phase and no recovery is left behind.
LEMMA EntryTaken ==
    ASSUME IInv, NEW L \in LifecycleIds, NEW c \in {"Register", "AbortPending"}, Handle(c),
           Head(mbox).id = L, InBox(L, c), NEW ok \in BOOLEAN, NEW gen \in Nat,
           Reply(L, c, ok, NoId, gen), NEW k \in Kids, NEW r \in Records, NEW w \in Workers,
           NEW z \in ScopeStates, Writes(L, NoEntry, k, r, w, z), ~wrk[L].reader,
           w.out = wrk[L].out, w.pc \in {wrk[L].pc, "exitBad"}, w.reader => c = "Register",
           adm' \in Controllers, AdmissionExclusive', SeatMoves(L), faults' \in 0 .. MaxFaults,
           faults' = 0 => /\ faults = 0 /\ ~((Owner = L)' /\ adm'.phase.tag # "Free")
                          /\ ~((Owner = L)' /\ adm'.lifecycle.tag = "Recovering"),
           k.receipt # NoId => /\ adm'.lifecycle = SeatIs("Active", L) /\ r.state # "none"
                               /\ k.receipt = Receipt("Active", L, adm'.generation),
           w.pc = "acked" \/ z = "user" => (Owner = L)' /\ r.state # "none",
           r.state = "vt_disallocate_failed_busy" =>
               adm'.lifecycle.id = L /\ (k.receipt # NoId => k.busy),
           r.state # "none" /\ ~(Owner = L)' =>
               /\ z = "empty" /\ w.pc \in DeadPcs
               /\ faults' = 0 => r.state = "worker_exited_unexpectedly"
    PROVE  IInv'
  <1>0. LoginInv(L) /\ c \in LeaseCalls /\ c \in Calls \ VtCalls
    BY LoginIs, Zenon DEF LeaseCalls, Calls, VtCalls
  <1>1. NoEntry \in Entries /\ NoEntry.st = "none"
    BY ZenonT(60) DEF NoEntry, Entries, PendingStates
  <1>2. pend'[L] = NoEntry /\ kids'[L] = k /\ rec'[L] = r /\ wrk'[L] = w /\ scope'[L] = z
    <2>0. TypeOK
      BY Zenon DEF IInv
    <2>1. pend'[L] = NoEntry
      BY <2>0, Zenon DEF TypeOK, Writes
    <2>2. kids'[L] = k
      BY <2>0, Zenon DEF TypeOK, Writes
    <2>3. rec'[L] = r
      BY <2>0, Zenon DEF TypeOK, Writes
    <2>4. wrk'[L] = w
      BY <2>0, Zenon DEF TypeOK, Writes
    <2>5. scope'[L] = z
      BY <2>0, Zenon DEF TypeOK, Writes
    <2>. QED
      BY <2>1, <2>2, <2>3, <2>4, <2>5, Zenon
  <1>3. lch[L].call = c /\ GaveUp(lch[L])
    BY <1>0, Zenon DEF LoginInv, QueuedCalls
  <1>4. AfterCall(L, c, ok, NoId)
    BY <1>0, Handled, Zenon
  <1>5. lch'[L].call = c /\ lch'[L].pc # "registering"
    BY <1>0, <1>3, <1>4, Zenon DEF AfterCall, LoginInv, LastCall
  <1>6. wrk[L].pc # "none" /\ wrk[L].pc \notin StartedPcs \ {"running", "wantIntent", "exitBad"}
    BY <1>0, <1>3, Zenon DEF LoginInv, WorkerReports
  <1>7. WorkerReports(L)'
    <2>1. Has(w.out, "ReleaseReady") => w.pc \in ReleasePcs /\ ~Has(w.out, "Started")
      BY <1>0, Zenon DEF LoginInv, WorkerReports, ReleasePcs
    <2>2. Has(w.out, "Started") => w.pc \in StartedPcs
      BY <1>0, Zenon DEF LoginInv, WorkerReports, StartedPcs
    <2>3. w.pc # "none" /\ w.pc \notin StartedPcs \ {"running", "wantIntent", "exitBad"}
      BY <1>6, Zenon
    <2>. QED
      BY <1>1, <1>2, <1>5, <2>1, <2>2, <2>3, Zenon DEF WorkerReports
  <1>8. EntryHasSeat(L)'
    BY <1>1, <1>2, Zenon DEF EntryHasSeat, HasPayload
  <1>9. ChildHasSeat(L)'
    BY <1>2, Zenon DEF ChildHasSeat, Supervised, HasRecord
  <1>10. NoLease(L)' => RecordHasSeat(L)'
    BY <1>2, Zenon DEF RecordHasSeat, HasRecord, Supervised, Alive
  <1>11. Settles(L)
    BY <1>7, <1>8, <1>9, <1>10, Zenon DEF Settles
  <1>12. NoId \in {NoId, lch[L].lease} /\ c # "BeginPending"
    BY Zenon
  <1>. QED
    BY <1>0, <1>1, <1>11, <1>12, SpentKeeps, Zenon

\* register_running: the entry has a payload, a record and the seat.
LEMMA RegisterStep ==
    ASSUME IInv, HandleRegister
    PROVE  IInv'
  <1>. DEFINE c == "Register"
  <1>0. Handle(c) /\ c \in LeaseCalls /\ UNCHANGED scope
    BY Zenon DEF HandleRegister, LeaseCalls
  <1>1. PICK L \in LifecycleIds, t \in Tokens :
             L = Head(mbox).id /\ t = Head(mbox).lease /\ t.id = L /\ LeaseOf(L, t) /\ InBox(L, c)
    BY <1>0, LeaseHandled, Zenon
  <1>2. LoginInv(L) /\ lch[L].gen \in Nat /\ wrk[L] \in Workers /\ rec[L] \in Records
        /\ kids[L] \in Kids /\ scope[L] \in ScopeStates
    BY LoginIs, Zenon DEF Launchers
  <1>3. Registrable(L)
    BY <1>1, <1>2, Zenon DEF LoginInv, EntryFollows
  <1>4. lch[L].lease = NoId
    BY <1>1, <1>2, Zenon
    DEF LoginInv, QueuedCalls, Leases, HoldsLease, GaveUp, EntryCalls
  <1>5. Owner = L /\ adm.phase.tag = "PendingLifecycle" /\ HasRecord(L) /\ ~wrk[L].reader
    BY <1>2, <1>3, Zenon
    DEF LoginInv, EntryHasSeat, WorkerReports, Registrable, HasPayload
  <1>6. MatchesPhase(adm, t)
    BY <1>1, <1>5, Zenon DEF LeaseOf
  <1>7. /\ adm.lifecycle = FreeSeat /\ ~Supervised(L) /\ adm.generation = t.gen
        /\ adm.phase.gen = t.gen /\ rec[L].state # "vt_disallocate_failed_busy"
    BY <1>1, <1>6, Matching, Zenon
  <1>8. pend' = [pend EXCEPT ![L] = NoEntry] /\ RegisterFound(L, t)
    BY <1>1, <1>3, ZenonT(60) DEF HandleRegister
  <1>9. ASSUME NEW ok \in BOOLEAN, NEW gen \in Nat, Reply(L, c, ok, NoId, gen),
               NEW k \in Kids, NEW r \in Records, NEW w \in Workers,
               kids' = [kids EXCEPT ![L] = k], rec' = [rec EXCEPT ![L] = r],
               wrk' = [wrk EXCEPT ![L] = w], w.out = wrk[L].out, w.pc \in {wrk[L].pc, "exitBad"},
               r.state \in {rec[L].state, "started"},
               adm' \in Controllers, AdmissionExclusive', SeatMoves(L), (Owner = L)',
               faults' \in 0 .. MaxFaults,
               faults' = 0 => /\ faults = 0 /\ adm'.phase.tag = "Free"
                              /\ adm'.lifecycle.tag # "Recovering",
               k.receipt # NoId => /\ adm'.lifecycle = SeatIs("Active", L)
                                   /\ k.receipt = Receipt("Active", L, adm'.generation)
        PROVE  IInv'
    <2>1. Writes(L, NoEntry, k, r, w, scope[L])
      BY <1>0, <1>8, <1>9, LoginIs DEF Writes
    <2>2. r.state \notin {"none", "vt_disallocate_failed_busy"}
      BY <1>5, <1>7, <1>9, Zenon DEF HasRecord
    <2>. QED
      BY <1>0, <1>1, <1>2, <1>5, <1>9, <2>1, <2>2, EntryTaken, ZenonT(60)
  <1>10. ASSUME ReplyErr(L, c)
         PROVE  Reply(L, c, FALSE, NoId, lch[L].gen)
    BY <1>4, <1>10, Zenon DEF ReplyErr
  <1>11. ASSUME Spend(1)
         PROVE  faults' \in 0 .. MaxFaults /\ faults' # 0
    BY <1>11, Counted, Zenon DEF IInv
  <1>12. kids[L].receipt = NoId
    BY <1>7, Zenon DEF Supervised
  <1>. DEFINE r1 == [rec[L] EXCEPT !.state = "started"]
  <1>13. r1 \in Records /\ r1.state = "started"
    BY <1>2, Zenon DEF Records, RecordStates
  <1>14. [rec EXCEPT ![L].state = "started"] = [rec EXCEPT ![L] = r1]
    BY ZenonT(60) DEF IInv, TypeOK
  <1>. HIDE DEF r1
  <1>15. CASE /\ Spend(1)
              /\ adm' = IF MatchesPhase(adm, t) THEN DoLeavePending(adm, "Quarantined", L) ELSE adm
              /\ wrk' = [wrk EXCEPT ![L] = Killed(@)]
              /\ ReplyErr(L, c)
              /\ UNCHANGED <<kids, rec>>
    <2>1. adm' = DoLeavePending(adm, "Quarantined", L)
      BY <1>6, <1>15, Zenon
    <2>2. adm' \in Controllers /\ AdmissionExclusive' /\ SeatMoves(L) /\ (Owner' = L)
      BY <1>5, <2>1, SeatMovesOn, Zenon
    <2>3. PICK w \in Workers : w = Killed(wrk[L]) /\ w.out = wrk[L].out /\ w.pc \in {wrk[L].pc, "exitBad"}
      BY <1>2, KilledIs, Zenon
    <2>4. wrk' = [wrk EXCEPT ![L] = w] /\ kids' = [kids EXCEPT ![L] = kids[L]]
          /\ rec' = [rec EXCEPT ![L] = rec[L]]
      BY <1>15, <2>3, LoginIs, ZenonT(60)
    <2>. QED
      BY <1>2, <1>9, <1>10, <1>11, <1>12, <1>15, <2>2, <2>3, <2>4, Zenon
  <1>16. CASE Spend(1) /\ ReplyErr(L, c) /\ UNCHANGED <<adm, kids, rec, wrk>>
    <2>1. adm' \in Controllers /\ AdmissionExclusive' /\ SeatMoves(L) /\ (Owner = L)'
      BY <1>5, <1>16, SeatStays, Zenon
    <2>2. /\ wrk' = [wrk EXCEPT ![L] = wrk[L]] /\ kids' = [kids EXCEPT ![L] = kids[L]]
          /\ rec' = [rec EXCEPT ![L] = rec[L]]
      BY <1>16, LoginIs, Zenon
    <2>. QED
      BY <1>2, <1>9, <1>10, <1>11, <1>12, <1>16, <2>1, <2>2, Zenon
  <1>17. CASE /\ Spend(1)
              /\ rec' = [rec EXCEPT ![L].state = "started"]
              /\ adm' = DoAdvance(adm, t, "LaunchCommitted")
              /\ ReplyErr(L, c)
              /\ UNCHANGED <<kids, wrk>>
    <2>. DEFINE v == Advanced(t, "LaunchCommitted")
    <2>1. /\ v.id = t.id /\ v.kind = "LaunchCommitted" /\ v.gen = t.gen
          /\ v.attempt = t.attempt /\ v \in Tokens
      BY Zenon DEF Advanced, Tokens, LeaseKinds
    <2>. HIDE DEF v
    <2>2. adm' = DoAdvance(adm, v, v.kind) /\ v.kind \in LeaseKinds
      BY <1>17, <2>1, Zenon DEF DoAdvance, LeaseKinds
    <2>3. adm' \in Controllers /\ AdmissionExclusive' /\ SeatMoves(L) /\ (Owner' = L)
      <3>1. PICK u \in Tokens : u = v
        BY <2>1, Zenon
      <3>. QED
        BY <1>1, <1>5, <1>7, <2>1, <2>2, <3>1, SeatInPhase
    <2>4. /\ wrk' = [wrk EXCEPT ![L] = wrk[L]] /\ kids' = [kids EXCEPT ![L] = kids[L]]
          /\ rec' = [rec EXCEPT ![L] = r1]
      BY <1>14, <1>17, LoginIs, ZenonT(60)
    <2>. QED
      BY <1>2, <1>9, <1>10, <1>11, <1>12, <1>13, <1>17, <2>3, <2>4, Zenon
  <1>18. CASE /\ rec' = [rec EXCEPT ![L].state = "started"]
              /\ adm' = DoPromoteToRunning(adm, t)
              /\ kids' = [kids EXCEPT ![L].receipt = Receipt("Active", L, t.gen)]
              /\ \E cloned \in BOOLEAN :
                    /\ Spend(Cost(cloned))
                    /\ wrk' = [wrk EXCEPT ![L].reader = cloned]
                    /\ Reply(L, c, cloned, NoId, 0)
    <2>1. PICK cloned \in BOOLEAN : /\ Spend(Cost(cloned))
                                    /\ wrk' = [wrk EXCEPT ![L].reader = cloned]
                                    /\ Reply(L, c, cloned, NoId, 0)
      BY <1>18, Zenon
    <2>2. faults' \in 0 .. MaxFaults /\ (faults' = 0 => faults = 0)
      BY <2>1, Costs, Counted, LoginIs, Zenon DEF IInv
    <2>3. adm' = DoLeavePending(adm, "Active", L)
      BY <1>1, <1>18, Zenon DEF DoPromoteToRunning, DoLeavePending
    <2>4. /\ adm' \in Controllers /\ AdmissionExclusive' /\ SeatMoves(L) /\ (Owner' = L)
          /\ adm'.phase = NoPhase /\ adm'.lifecycle = SeatIs("Active", L)
          /\ adm'.generation = adm.generation
      BY <1>5, <2>3, SeatMovesOn, ZenonT(60)
    <2>5. adm'.phase.tag = "Free" /\ adm'.lifecycle.tag # "Recovering"
      BY <2>4 DEF NoPhase, SeatIs
    <2>. DEFINE k == [kids[L] EXCEPT !.receipt = Receipt("Active", L, t.gen)]
                w == [wrk[L] EXCEPT !.reader = cloned]
    <2>6. /\ k \in Kids /\ k.receipt = Receipt("Active", L, t.gen)
          /\ kids' = [kids EXCEPT ![L] = k]
      <3>1. Receipt("Active", L, t.gen) \in Tokens
        BY Zenon DEF Receipt, Lease, Tokens, ReceiptKinds
      <3>2. kids \in [LifecycleIds -> Kids]
        BY Zenon DEF IInv, TypeOK
      <3>. QED
        BY <1>2, <1>18, <3>1, <3>2 DEF Kids
    <2>7. w \in Workers /\ w.out = wrk[L].out /\ w.pc = wrk[L].pc /\ wrk' = [wrk EXCEPT ![L] = w]
      <3>1. wrk \in [LifecycleIds -> Workers]
        BY Zenon DEF IInv, TypeOK
      <3>. QED
        BY <1>2, <2>1, <3>1 DEF Workers
    <2>. HIDE DEF k, w
    <2>8. rec' = [rec EXCEPT ![L] = r1]
      BY <1>14, <1>18, Zenon
    <2>9. k.receipt = Receipt("Active", L, adm'.generation)
      BY <1>7, <2>4, <2>6, Zenon
    <2>10. Reply(L, c, cloned, NoId, 0) /\ 0 \in Nat /\ w.pc \in {wrk[L].pc, "exitBad"}
      BY <2>1, <2>7, Zenon
    <2>11. r1.state \in {rec[L].state, "started"} /\ r1 \in Records
      BY <1>13, Zenon
    <2>. QED
      BY <1>9, <2>2, <2>4, <2>5, <2>6, <2>7, <2>8, <2>9, <2>10, <2>11, Zenon
  <1>. QED
    BY <1>8, <1>15, <1>16, <1>17, <1>18 DEF RegisterFound

\* What two stores that may fail cost.
LEMMA TwoCosts ==
    ASSUME IInv, NEW a \in BOOLEAN, NEW b \in BOOLEAN, Spend(Cost(a) + Cost(b))
    PROVE  faults' \in 0 .. MaxFaults /\ (faults' = 0 => faults = 0 /\ a /\ b)
  <1>1. faults \in Nat /\ MaxFaults \in Nat
    BY MaxFaultsAssumption DEF IInv, TypeOK
  <1>2. /\ Cost(a) \in Nat /\ (Cost(a) = 0 => a)
    BY DEF Cost
  <1>3. /\ Cost(b) \in Nat /\ (Cost(b) = 0 => b)
    BY DEF Cost
  <1>. QED
    BY <1>1, <1>2, <1>3 DEF Spend

\* A record that is resolved and removed, or left where it was.
LEMMA ResolutionIs ==
    ASSUME NEW r \in Records, NEW done \in BOOLEAN, NEW n \in Resolutions(r, done)
    PROVE  /\ n \in Records /\ (n.state = "none" \/ n.state \in {r.state, "record_resolved"})
           /\ done => n.state = "none"
  <1>1. CASE done
    BY <1>1 DEF Resolutions, NoRecord, Records, RecordStates, VtStates
  <1>2. CASE ~done
    BY <1>2, Zenon DEF Resolutions, Unresolved, Records, RecordStates
  <1>. QED
    BY <1>1, <1>2, Zenon

\* recover_payload_entry: a scope that is not empty keeps the seat, and so
\* does a VT that is busy.
LEMMA RecoverPayloadEntryEnds ==
    ASSUME IInv, NEW L \in LifecycleIds, RecoverPayloadEntry(L), Owner = L, HasRecord(L),
           rec[L].state # "vt_disallocate_failed_busy"
    PROVE  \E r \in Records, z \in ScopeStates :
               /\ rec' = [rec EXCEPT ![L] = r] /\ scope' = [scope EXCEPT ![L] = z]
               /\ adm' \in Controllers /\ AdmissionExclusive' /\ SeatMoves(L)
               /\ faults' \in 0 .. MaxFaults /\ adm'.phase.tag = "Free"
               /\ faults' = 0 => faults = 0 /\ adm'.lifecycle.tag # "Recovering"
               /\ z = "user" => (Owner = L)' /\ r.state # "none"
               /\ r.state = "vt_disallocate_failed_busy" => adm'.lifecycle.id = L
               /\ r.state # "none" => (Owner = L)'
  <1>0. rec[L] \in Records /\ scope[L] \in ScopeStates /\ "empty" \in ScopeStates
        /\ rec[L].state # "none"
    BY LoginIs, Zenon DEF ScopeStates, HasRecord
  <1>1. PICK outcome \in Outcomes, noted \in BOOLEAN, settled \in BOOLEAN :
            LET r == IF noted THEN [rec[L] EXCEPT !.state = "emergency_recovery_started"] ELSE rec[L]
            IN  /\ RecoverBoundary(L, outcome)
                /\ Spend(Cost(noted) + Cost(settled))
                /\ \/ /\ outcome = "Recovered"
                      /\ \E n \in Resolutions(r, settled) : rec' = [rec EXCEPT ![L] = n]
                      /\ adm' = IF settled THEN DoRelease(DoLeavePending(adm, "Recovering", L))
                                ELSE DoLeavePending(adm, "Recovering", L)
                   \/ /\ outcome = "Busy"
                      /\ rec' = [rec EXCEPT ![L] = IF settled
                                    THEN [r EXCEPT !.state = "vt_disallocate_failed_busy"] ELSE r]
                      /\ adm' = DoLeavePending(adm, "Quarantined", L)
                   \/ /\ outcome = "Quarantined" /\ settled
                      /\ rec' = [rec EXCEPT ![L] = r]
                      /\ adm' = DoLeavePending(adm, "Quarantined", L)
    BY Zenon DEF RecoverPayloadEntry
  <1>2. faults' \in 0 .. MaxFaults /\ (faults' = 0 => faults = 0 /\ noted /\ settled)
    BY <1>1, TwoCosts, Zenon
  <1>3. PICK r \in Records :
            /\ r = IF noted THEN [rec[L] EXCEPT !.state = "emergency_recovery_started"] ELSE rec[L]
            /\ r.state \notin {"none", "vt_disallocate_failed_busy"}
    <2>. DEFINE b == [rec[L] EXCEPT !.state = "emergency_recovery_started"]
    <2>1. b \in Records /\ b.state = "emergency_recovery_started"
      BY <1>0, Zenon DEF Records, RecordStates
    <2>. HIDE DEF b
    <2>2. CASE noted
      <3>1. b = IF noted THEN [rec[L] EXCEPT !.state = "emergency_recovery_started"] ELSE rec[L]
        BY <2>2, Zenon DEF b
      <3>. QED
        BY <2>1, <3>1, Zenon
    <2>3. CASE ~noted
      BY <1>0, <2>3, Zenon
    <2>. QED
      BY <2>2, <2>3, Zenon
  <1>4. PICK z \in ScopeStates : /\ scope' = [scope EXCEPT ![L] = z]
                                 /\ z = "empty" \/ (outcome = "Quarantined" /\ z = scope[L])
    BY <1>0, <1>1, LoginIs, Zenon DEF RecoverBoundary
  <1>5. NoPhase.tag = "Free" /\ FreeSeat.tag # "Recovering" /\ L # NoId
        /\ \A tag : SeatIs(tag, L).tag = tag /\ SeatIs(tag, L).id = L
    BY NoIdAssumption, Zenon DEF NoPhase, FreeSeat, SeatIs
  <1>6. CASE outcome = "Recovered"
    <2>1. PICK n \in Resolutions(r, settled) : rec' = [rec EXCEPT ![L] = n]
      BY <1>1, <1>3, <1>6, Zenon
    <2>2. /\ n \in Records /\ (n.state = "none" \/ n.state \in {r.state, "record_resolved"})
          /\ settled => n.state = "none"
      BY ResolutionIs, Zenon
    <2>3. adm' = IF settled THEN DoRelease(DoLeavePending(adm, "Recovering", L))
                 ELSE DoLeavePending(adm, "Recovering", L)
      BY <1>1, <1>6, Zenon
    <2>4. n.state # "vt_disallocate_failed_busy" /\ z = "empty"
      BY <1>3, <1>4, <1>6, <2>2, SMTT(30)
    <2>5. CASE settled
      <3>1. /\ adm' \in Controllers /\ AdmissionExclusive' /\ SeatMoves(L)
            /\ adm'.phase = NoPhase /\ adm'.lifecycle = FreeSeat
        BY <2>3, <2>5, SeatIsFreed, Zenon
      <3>. QED
        BY <1>2, <1>4, <1>5, <2>1, <2>2, <2>4, <2>5, <3>1, Zenon
    <2>6. CASE ~settled
      <3>1. /\ adm' \in Controllers /\ AdmissionExclusive' /\ SeatMoves(L) /\ (Owner' = L)
            /\ adm'.phase = NoPhase
        BY <2>3, <2>6, SeatMovesOn, Zenon
      <3>. QED
        BY <1>2, <1>4, <1>5, <2>1, <2>2, <2>4, <2>6, <3>1, Zenon
    <2>. QED
      BY <2>5, <2>6, Zenon
  <1>7. CASE outcome # "Recovered"
    <2>1. adm' = DoLeavePending(adm, "Quarantined", L)
      BY <1>1, <1>7, Zenon
    <2>2. /\ adm' \in Controllers /\ AdmissionExclusive' /\ SeatMoves(L) /\ (Owner' = L)
          /\ adm'.phase = NoPhase /\ adm'.lifecycle = SeatIs("Quarantined", L)
      BY <2>1, SeatMovesOn, Zenon
    <2>3. PICK n \in Records : rec' = [rec EXCEPT ![L] = n] /\ n.state # "none"
      <3>. DEFINE b == [r EXCEPT !.state = "vt_disallocate_failed_busy"]
      <3>1. b \in Records /\ b.state = "vt_disallocate_failed_busy"
        BY Zenon DEF Records, RecordStates
      <3>2. rec' = [rec EXCEPT ![L] = b] \/ rec' = [rec EXCEPT ![L] = r]
        BY <1>1, <1>3, <1>7, Zenon
      <3>. HIDE DEF b
      <3>. QED
        BY <1>3, <3>1, <3>2, Zenon
    <2>4. /\ adm'.phase.tag = "Free" /\ adm'.lifecycle.id = L /\ (Owner = L)'
          /\ adm'.lifecycle.tag # "Recovering"
      BY <1>5, <2>2, Zenon
    <2>. QED
      BY <1>2, <1>4, <2>2, <2>3, <2>4, Zenon
  <1>. QED
    BY <1>6, <1>7, Zenon

\* abort_pending: the worker is reaped and its entry removed.
LEMMA AbortPendingStep ==
    ASSUME IInv, HandleAbortPending
    PROVE  IInv'
  <1>. DEFINE c == "AbortPending"
  <1>0. Handle(c) /\ c \in LeaseCalls /\ UNCHANGED kids
    BY Zenon DEF HandleAbortPending, LeaseCalls
  <1>1. PICK L \in LifecycleIds, t \in Tokens :
             L = Head(mbox).id /\ t = Head(mbox).lease /\ t.id = L /\ LeaseOf(L, t) /\ InBox(L, c)
    BY <1>0, LeaseHandled, Zenon
  <1>2. LoginInv(L) /\ lch[L].gen \in Nat /\ wrk[L] \in Workers /\ rec[L] \in Records
        /\ kids[L] \in Kids /\ scope[L] \in ScopeStates
    BY LoginIs DEF Launchers
  <1>3. lch[L].call = c /\ lch[L].lease = NoId
    BY <1>1, <1>2, Zenon
    DEF LoginInv, QueuedCalls, Leases, HoldsLease, GaveUp, EntryCalls
  <1>4. ~wrk[L].reader
    BY <1>2, <1>3, ZenonT(60) DEF LoginInv, WorkerReports
  <1>5. CASE /\ ~MatchesPhase(adm, t) /\ ReplyErr(L, c)
             /\ UNCHANGED <<adm, pend, rec, wrk, scope, faults>>
    <2>1. Reply(L, c, FALSE, NoId, lch[L].gen)
      BY <1>3, <1>5, Zenon DEF ReplyErr
    <2>2. Writes(L, pend[L], kids[L], rec[L], wrk[L], scope[L])
      BY <1>0, <1>5, LoginIs, Zenon DEF Writes
    <2>3. AfterCall(L, c, FALSE, NoId)
      <3>1. c \in Calls \ VtCalls
        BY Zenon DEF Calls, VtCalls
      <3>. QED
        BY <1>0, <1>1, <1>2, <2>1, <3>1, Handled, ZenonT(60)
    <2>4. WorkerReports(L)'
      BY <1>2, <1>5, <2>3 DEF AfterCall, LoginInv, WorkerReports, HasRecord
    <2>5. EntryHasSeat(L)' /\ ChildHasSeat(L)'
      BY <1>0, <1>2, <1>5, SeatStays
         DEF LoginInv, EntryHasSeat, ChildHasSeat, HasRecord, HasPayload, Supervised
    <2>6. NoLease(L)' => RecordHasSeat(L)'
      BY <1>0, <1>2, <1>5, SeatStays, Zenon
      DEF LoginInv, RecordHasSeat, HasRecord, Supervised, Alive
    <2>7. /\ ~(Owner = L /\ adm.phase.tag # "Free")
          /\ faults = 0 => ~(Owner = L /\ adm.lifecycle.tag = "Recovering")
      BY <1>1, <1>2, <1>5, ZenonT(60) DEF LeaseOf, LoginInv, NoFaultYet
    <2>8. Settles(L)
      BY <1>5, <2>4, <2>5, <2>6, <2>7, SeatStays DEF Settles
    <2>9. c # "BeginPending" /\ NoId \in {NoId, lch[L].lease} /\ FALSE \in BOOLEAN
      BY Zenon
    <2>. QED
      BY <1>0, <1>1, <1>2, <1>5, <2>1, <2>2, <2>8, <2>9, LoginIs, SeatStays,
         SpentKeeps, ZenonT(60)
  <1>6. CASE /\ MatchesPhase(adm, t)
             /\ pend' = [pend EXCEPT ![L] = NoEntry]
             /\ wrk' = [wrk EXCEPT ![L] = Killed(@)]
             /\ ReplyOk(L, c)
             /\ \/ FinalizeClean(L, t)
                \/ /\ Head(mbox).flag => HasPayload(pend[L])
                   /\ IF HasPayload(pend[L]) THEN RecoverPayloadEntry(L)
                      ELSE RecoverPrePayloadEntry(L)
    <2>1. /\ adm.lifecycle = FreeSeat /\ ~Supervised(L) /\ Owner = L /\ adm.phase.tag # "Free"
          /\ rec[L].state # "vt_disallocate_failed_busy"
      BY <1>1, <1>6, Matching, Zenon
    <2>2. HasRecord(L) <=> HasPayload(pend[L])
      BY <1>1, <1>2, Zenon
      DEF LoginInv, RecordHasSeat, EntryHasSeat, NoLease, LeaseCalls
    <2>3. scope[L] = "user" => HasRecord(L)
      BY <1>2, Zenon DEF LoginInv, RecordHasSeat
    <2>4. PICK w \in Workers : /\ w = Killed(wrk[L]) /\ w.out = wrk[L].out /\ ~w.reader
                               /\ w.pc \in {wrk[L].pc, "exitBad"} /\ w.pc \in DeadPcs
                               /\ w.pc # "acked" /\ wrk' = [wrk EXCEPT ![L] = w]
      BY <1>2, <1>4, <1>6, KilledIs, ZenonT(60)
    <2>5. ASSUME NEW r \in Records, NEW z \in ScopeStates,
                 rec' = [rec EXCEPT ![L] = r], scope' = [scope EXCEPT ![L] = z],
                 adm' \in Controllers, AdmissionExclusive', SeatMoves(L), faults' \in 0 .. MaxFaults,
                 faults' = 0 => /\ faults = 0 /\ adm'.phase.tag = "Free"
                                /\ adm'.lifecycle.tag # "Recovering",
                 z = "user" => (Owner = L)' /\ r.state # "none",
                 r.state = "vt_disallocate_failed_busy" => adm'.lifecycle.id = L,
                 r.state # "none" /\ ~(Owner = L)' =>
                     z = "empty" /\ (faults' = 0 => r.state = "worker_exited_unexpectedly")
          PROVE  IInv'
      <3>1. Reply(L, c, TRUE, NoId, lch[L].gen) /\ TRUE \in BOOLEAN /\ c \in {"Register", c}
        BY <1>3, <1>6, Zenon DEF ReplyOk
      <3>2. Writes(L, NoEntry, kids[L], r, w, z)
        BY <1>0, <1>6, <2>4, <2>5, LoginIs DEF Writes
      <3>3. kids[L].receipt = NoId
        BY <2>1, Zenon DEF Supervised
      <3>. QED
        BY <1>0, <1>1, <1>2, <1>4, <2>4, <2>5, <3>1, <3>2, <3>3, EntryTaken,
           ZenonT(60)
    <2>6. NoPhase.tag = "Free" /\ FreeSeat.tag # "Recovering" /\ L # NoId
          /\ SeatIs("Quarantined", L).tag # "Recovering"
      BY NoIdAssumption, Zenon DEF NoPhase, FreeSeat, SeatIs
    <2>7. CASE FinalizeClean(L, t)
      <3>1. PICK resolved \in BOOLEAN, removed \in BOOLEAN :
                /\ Spend(Cost(resolved) + Cost(removed))
                /\ \E n \in Resolutions(rec[L], resolved) :
                      rec' = IF HasRecord(L) THEN [rec EXCEPT ![L] = n] ELSE rec
                /\ adm' = IF removed THEN DoCancel(adm) ELSE adm
        BY <2>7, Zenon DEF FinalizeClean
      <3>2. PICK n \in Resolutions(rec[L], resolved) :
                rec' = IF HasRecord(L) THEN [rec EXCEPT ![L] = n] ELSE rec
        BY <3>1, Zenon
      <3>3. faults' \in 0 .. MaxFaults /\ (faults' = 0 => faults = 0 /\ resolved /\ removed)
        BY <3>1, TwoCosts, Zenon
      <3>4. /\ n \in Records /\ (n.state = "none" \/ n.state \in {rec[L].state, "record_resolved"})
            /\ resolved => n.state = "none"
        BY <1>2, ResolutionIs, Zenon
      <3>5. PICK r \in Records : /\ rec' = [rec EXCEPT ![L] = r]
                                 /\ r.state # "vt_disallocate_failed_busy"
                                 /\ r.state # "none" => HasRecord(L) /\ ~resolved
        BY <1>2, <2>1, <3>2, <3>4, LoginIs, Zenon DEF HasRecord
      <3>6. HasRecord(L) => scope[L] = "empty"
        BY <2>2, <2>7, Zenon DEF FinalizeClean, CleanExit
      <3>7. scope' = [scope EXCEPT ![L] = scope[L]] /\ scope[L] # "user"
        BY <2>3, <2>7, <3>6, LoginIs DEF FinalizeClean
      <3>8. CASE removed
        <4>1. /\ adm' \in Controllers /\ AdmissionExclusive' /\ SeatMoves(L)
              /\ adm'.phase = NoPhase /\ adm'.lifecycle = FreeSeat
          BY <2>1, <3>1, <3>8, SeatIsFreed
        <4>. QED
          BY <1>2, <2>5, <2>6, <3>3, <3>5, <3>6, <3>7, <4>1, Zenon
      <3>9. CASE ~removed
        <4>1. adm' \in Controllers /\ AdmissionExclusive' /\ SeatMoves(L)
          BY <3>1, <3>9, SeatStays, Zenon
        <4>. QED
          BY <1>2, <2>5, <3>3, <3>5, <3>6, <3>7, <3>9, <4>1, Zenon
      <3>. QED
        BY <3>8, <3>9, Zenon
    <2>8. CASE HasPayload(pend[L]) /\ RecoverPayloadEntry(L)
      <3>1. PICK r \in Records, z \in ScopeStates :
               /\ rec' = [rec EXCEPT ![L] = r] /\ scope' = [scope EXCEPT ![L] = z]
               /\ adm' \in Controllers /\ AdmissionExclusive' /\ SeatMoves(L)
               /\ faults' \in 0 .. MaxFaults /\ adm'.phase.tag = "Free"
               /\ faults' = 0 => faults = 0 /\ adm'.lifecycle.tag # "Recovering"
               /\ z = "user" => (Owner = L)' /\ r.state # "none"
               /\ r.state = "vt_disallocate_failed_busy" => adm'.lifecycle.id = L
               /\ r.state # "none" => (Owner = L)'
        BY <2>1, <2>2, <2>8, RecoverPayloadEntryEnds, SMTT(30)
      <3>. QED
        BY <2>5, <3>1, ZenonT(60)
    <2>9. CASE ~HasPayload(pend[L]) /\ RecoverPrePayloadEntry(L)
      <3>1. /\ rec' = [rec EXCEPT ![L] = rec[L]] /\ scope' = [scope EXCEPT ![L] = scope[L]]
            /\ faults' = faults /\ rec[L].state = "none" /\ scope[L] # "user"
        BY <2>2, <2>3, <2>9, LoginIs DEF RecoverPrePayloadEntry, HasRecord
      <3>2. \/ adm' = DoRelease(DoLeavePending(adm, "Recovering", L))
            \/ adm' = DoLeavePending(adm, "Quarantined", L)
        BY <2>9, ZenonT(60) DEF RecoverPrePayloadEntry
      <3>3. /\ adm' \in Controllers /\ AdmissionExclusive' /\ SeatMoves(L)
            /\ adm'.phase = NoPhase /\ adm'.lifecycle \in {FreeSeat, SeatIs("Quarantined", L)}
        BY <2>1, <3>2, SeatIsFreed, SeatMovesOn
      <3>4. adm'.phase.tag = "Free" /\ adm'.lifecycle.tag # "Recovering"
        BY <2>6, <3>3, Zenon
      <3>. QED
        BY <1>2, <2>5, <3>1, <3>3, <3>4, LoginIs, Zenon
    <2>. QED
      BY <1>6, <2>7, <2>8, <2>9, Zenon
  <1>. QED
    BY <1>1, <1>5, <1>6, Zenon DEF HandleAbortPending

-----------------------------------------------------------------------------
(* The supervised workers and the loop.                                    *)

\* A step of the loop that leaves every login alone.
LEMMA NothingMoves ==
    ASSUME IInv, UNCHANGED <<adm, pend, kids, rec, lch, wrk, scope>>,
           mbox' \in Seq(Messages), CallsAreUnique', \A id \in LifecycleIds : SameCalls(id),
           loop' \in {"recv", "reap", "down"},
           faults' \in 0 .. MaxFaults, faults' = 0 => faults = 0
    PROVE  IInv'
  <1>1. TypeOK' /\ AdmissionExclusive'
    BY Zenon DEF IInv, TypeOK, AdmissionExclusive
  <1>2. \A id \in LifecycleIds : Untouched(id)
    BY Zenon DEF Untouched, Elsewhere
  <1>. QED
    BY <1>1, <1>2, UntouchedKeeps DEF IInv

\* A terminal report is taken off the queue: the calls stay.
LEMMA ReportTaken ==
    ASSUME IInv, NEW c \in VtCalls, Handle(c)
    PROVE  /\ mbox' \in Seq(Messages) /\ CallsAreUnique' /\ loop' = "reap"
           /\ \A id \in LifecycleIds : SameCalls(id)
  <1>1. mbox \in Seq(Messages) /\ CallsAreUnique /\ mbox # <<>> /\ mbox' = Tail(mbox)
        /\ Head(mbox).call = c /\ loop' = "reap"
    BY Zenon DEF IInv, TypeOK, Handle
  <1>2. /\ mbox' \in Seq(Messages) /\ CallsAreUnique' /\ Box' \subseteq Box
        /\ Box \ {Head(mbox)} \subseteq Box'
    BY <1>1, Received, Zenon
  <1>. QED
    BY <1>1, <1>2, Zenon DEF SameCalls

\* A supervised worker has the seat, a record and no lease any more.
LEMMA SupervisedIs ==
    ASSUME IInv, NEW L \in LifecycleIds, Supervised(L)
    PROVE  /\ adm.lifecycle = SeatIs("Active", L) /\ adm.phase.tag = "Free" /\ Owner = L
           /\ kids[L].receipt = Receipt("Active", L, adm.generation)
           /\ HasRecord(L) /\ pend[L].st = "none" /\ NoLease(L) /\ wrk[L].pc # "none"
           /\ lch[L].pc # "registering"
           /\ wrk[L].pc = "acked" \/ scope[L] = "user" => HasRecord(L)
           /\ ~kids[L].busy => rec[L].state # "vt_disallocate_failed_busy"
  <1>0. LoginInv(L) /\ AdmissionExclusive
    BY LoginIs, Zenon
  <1>1. /\ adm.lifecycle = SeatIs("Active", L) /\ HasRecord(L)
        /\ kids[L].receipt = Receipt("Active", L, adm.generation)
    BY <1>0, Zenon DEF LoginInv, ChildHasSeat
  <1>2. SeatIs("Active", L).tag = "Active" /\ SeatIs("Active", L).id = L
    BY Zenon DEF SeatIs
  <1>3. adm.phase.tag = "Free" /\ Owner = L
    BY <1>0, <1>1, <1>2, SMTT(30) DEF AdmissionExclusive, Owner
  <1>4. pend[L].st = "none"
    BY <1>0, <1>1, <1>2, <1>3, SMTT(30) DEF LoginInv, EntryHasSeat
  <1>5. NoLease(L)
    BY <1>0, <1>1, <1>4 DEF LoginInv, RecordHasSeat, HasPayload
  <1>6. wrk[L].pc # "none" /\ (~kids[L].busy => rec[L].state # "vt_disallocate_failed_busy")
    BY <1>0, <1>1, Zenon DEF LoginInv, WorkerReports, RecordHasSeat
  <1>7. lch[L].pc # "registering"
    BY <1>0, <1>5, ZenonT(60) DEF NoLease, LoginInv, Leases, HoldsLease
  <1>. QED
    BY <1>1, <1>3, <1>4, <1>5, <1>6, <1>7

\* A step of the supervisor on a supervised worker: the login keeps its
\* invariant when its record and its processes still have the seat.
LEMMA ChildKeeps ==
    ASSUME IInv, NEW L \in LifecycleIds, Supervised(L), UNCHANGED lch,
           mbox' \in Seq(Messages), CallsAreUnique', \A id \in LifecycleIds : SameCalls(id),
           loop' \in {"recv", "reap", "down"}, faults' \in 0 .. MaxFaults, faults' = 0 => faults = 0,
           NEW k \in Kids, NEW r \in Records, NEW w \in Workers, NEW z \in ScopeStates,
           Writes(L, pend[L], k, r, w, z),
           \/ w = wrk[L]
           \/ /\ w.out = wrk[L].out /\ w.reader = wrk[L].reader
              /\ wrk[L].pc \in {"vtIntent", "vtResult"} /\ w.pc \in {"vtRelease", "closing"},
           adm' \in Controllers, AdmissionExclusive', SeatMoves(L), adm'.phase.tag = "Free",
           faults' = 0 => adm'.lifecycle.tag # "Recovering",
           k.receipt # NoId => /\ adm'.lifecycle = SeatIs("Active", L) /\ r.state # "none"
                               /\ k.receipt = Receipt("Active", L, adm'.generation),
           w.pc = "acked" \/ z = "user" => (Owner = L)' /\ r.state # "none",
           r.state = "vt_disallocate_failed_busy" =>
               adm'.lifecycle.id = L /\ (k.receipt # NoId => k.busy),
           r.state # "none" /\ ~(Owner = L)' =>
               /\ z = "empty" /\ w.pc \in DeadPcs
               /\ faults' = 0 => r.state = "worker_exited_unexpectedly"
    PROVE  IInv'
  <1>0. LoginInv(L) /\ pend[L] \in Entries /\ pend[L].st = "none" /\ NoLease(L) /\ wrk[L].pc # "none"
        /\ lch[L].pc # "registering"
    BY LoginIs, SupervisedIs, ZenonT(60)
  <1>1. pend'[L] = pend[L] /\ kids'[L] = k /\ rec'[L] = r /\ wrk'[L] = w /\ scope'[L] = z
    BY <1>0, SupervisorWrites
  <1>2. /\ \A c : c \notin VtCalls => (InBox(L, c)' <=> InBox(L, c))
        /\ NoLease(L)' /\ lch'[L] = lch[L]
    BY <1>0, SameBox, ZenonT(60)
  <1>3. LastCall(lch[L])' /\ QueuedCalls(L)'
    BY <1>0, <1>2, Kinds, Zenon
    DEF LoginInv, LastCall, QueuedCalls, GaveUp, EntryCalls
  <1>4. Leases(L)'
    <2>1. \A m \in Box' : ~(m.id = L /\ m.call \in LeaseCalls)
      BY <1>2, Zenon DEF NoLease, InBox
    <2>2. lch[L].lease = NoId /\ ~HoldsLease(lch[L])
      BY <1>0, Zenon DEF NoLease, LoginInv, Leases
    <2>3. lch'[L].lease = NoId /\ ~HoldsLease(lch[L])'
      BY <1>2, <2>2, ZenonT(60) DEF HoldsLease
    <2>. QED
      BY <2>1, <2>3, Zenon DEF Leases
  <1>5. EntryFollows(L)'
    <2>1. ~InBox(L, "BeginPending")' /\ ~InBox(L, "Register")'
      BY <1>2, ZenonT(60) DEF NoLease, LeaseCalls
    <2>. QED
      BY <1>0, <1>1, <1>2, <2>1, Zenon
      DEF LoginInv, EntryFollows, Returned, Waiting, Registrable
  <1>6. WorkerReports(L)'
    BY <1>0, <1>1, <1>2, ZenonT(60)
    DEF LoginInv, WorkerReports, ReleasePcs, StartedPcs
  <1>7. EntryHasSeat(L)' /\ ChildHasSeat(L)' /\ RecordHasSeat(L)'
    BY <1>0, <1>1, <1>2, ZenonT(60)
       DEF EntryHasSeat, HasPayload, ChildHasSeat, RecordHasSeat, HasRecord,
           Supervised, Alive
  <1>8. NoFaultYet(L)'
    <2>1. ASSUME faults' = 0, NEW c \in Waitable, InBox(L, c)'
          PROVE  Waiting(L, c)'
      <3>1. c \notin VtCalls
        BY Zenon DEF Waitable, EntryCalls, VtCalls
      <3>2. InBox(L, c)
        BY <1>2, <2>1, <3>1, ZenonT(60)
      <3>. QED
        BY <1>0, <1>2, <2>1, <3>2, Zenon DEF LoginInv, NoFaultYet, Waitable, Waiting
    <2>. QED
      BY <1>0, <1>2, <2>1, ZenonT(60) DEF NoFaultYet, Waitable
  <1>9. LoginInv(L)'
    BY <1>3, <1>4, <1>5, <1>6, <1>7, <1>8, Zenon DEF LoginInv
  <1>10. lch' \in [LifecycleIds -> Launchers] /\ \A id \in LifecycleIds \ {L} : lch'[id] = lch[id]
    BY Zenon DEF IInv, TypeOK
  <1>. QED
    BY <1>0, <1>9, <1>10, SupervisorWrites, Zenon

\* accept_terminal_vt_intent and the result of the disallocation.
LEMMA TerminalVtSteps ==
    ASSUME IInv, HandleTerminalVtIntent \/ HandleTerminalVtResult
    PROVE  IInv'
  <1>0. PICK c \in VtCalls : Handle(c)
    BY Zenon DEF HandleTerminalVtIntent, HandleTerminalVtResult, VtCalls
  <1>1. PICK L \in LifecycleIds : L = Head(mbox).id
    BY <1>0, HandledLogin, Zenon
  <1>2. /\ mbox' \in Seq(Messages) /\ CallsAreUnique' /\ loop' \in {"recv", "reap", "down"}
        /\ \A id \in LifecycleIds : SameCalls(id)
    BY <1>0, ReportTaken, Zenon
  <1>3. UNCHANGED <<adm, pend, lch, scope>>
    BY Zenon DEF HandleTerminalVtIntent, HandleTerminalVtResult
  <1>4. /\ kids[L] \in Kids /\ rec[L] \in Records /\ wrk[L] \in Workers /\ scope[L] \in ScopeStates
        /\ LoginInv(L) /\ kids \in [LifecycleIds -> Kids] /\ rec \in [LifecycleIds -> Records]
        /\ wrk \in [LifecycleIds -> Workers]
    BY LoginIs, Zenon DEF IInv, TypeOK
  <1>5. ASSUME NEW b \in BOOLEAN, Spend(Cost(b)), UNCHANGED <<kids, rec, wrk>>
        PROVE  IInv'
    <2>1. faults' \in 0 .. MaxFaults /\ (faults' = 0 => faults = 0)
      BY <1>1, <1>5, Costs, Counted, LoginIs, SMTT(30) DEF IInv
    <2>. QED
      BY <1>2, <1>3, <1>5, <2>1, NothingMoves
  <1>6. ASSUME Supervised(L), faults' = faults, NEW k \in Kids, k.receipt = kids[L].receipt,
               NEW r \in Records, r.state \in {"started", "vt_disallocate_failed_busy"},
               r.state = "vt_disallocate_failed_busy" => k.busy,
               kids' = [kids EXCEPT ![L] = k], rec' = [rec EXCEPT ![L] = r],
               NEW from \in {"vtIntent", "vtResult"}, NEW pc \in {"vtRelease", "closing"},
               wrk' = IF wrk[L].pc = from THEN [wrk EXCEPT ![L].pc = pc] ELSE wrk
        PROVE  IInv'
    <2>1. PICK w \in Workers : /\ wrk' = [wrk EXCEPT ![L] = w]
                               /\ \/ w = wrk[L]
                                  \/ /\ w.out = wrk[L].out /\ w.reader = wrk[L].reader
                                     /\ wrk[L].pc = from /\ w.pc = pc
      <3>. DEFINE v == [wrk[L] EXCEPT !.pc = pc]
      <3>1. v \in Workers /\ v.out = wrk[L].out /\ v.reader = wrk[L].reader /\ v.pc = pc
        BY <1>4, Zenon DEF Workers, WorkerPcs
      <3>2. [wrk EXCEPT ![L].pc = pc] = [wrk EXCEPT ![L] = v]
        BY <1>4, Zenon
      <3>. HIDE DEF v
      <3>. QED
        BY <1>4, <1>6, <3>1, <3>2, LoginIs, Zenon
    <2>2. Writes(L, pend[L], k, r, w, scope[L])
      BY <1>3, <1>6, <2>1, LoginIs, Zenon DEF Writes
    <2>3. /\ adm.lifecycle = SeatIs("Active", L) /\ adm.phase.tag = "Free" /\ Owner = L
          /\ kids[L].receipt = Receipt("Active", L, adm.generation)
      BY <1>6, SupervisedIs, Zenon
    <2>4. SeatIs("Active", L).tag = "Active" /\ SeatIs("Active", L).id = L
      BY Zenon DEF SeatIs
    <2>5. adm' \in Controllers /\ AdmissionExclusive' /\ SeatMoves(L) /\ (Owner = L)'
      BY <1>3, <2>3, SeatStays, Zenon
    <2>6. faults' \in 0 .. MaxFaults /\ (faults' = 0 => faults = 0)
      BY <1>1, <1>6, LoginIs
    <2>7. /\ adm'.phase.tag = "Free" /\ adm'.lifecycle.tag # "Recovering"
          /\ adm'.lifecycle = SeatIs("Active", L) /\ adm'.lifecycle.id = L
          /\ k.receipt = Receipt("Active", L, adm'.generation)
      BY <1>3, <1>6, <2>3, <2>4, SMTT(30)
    <2>. QED
      BY <1>2, <1>3, <1>4, <1>6, <2>1, <2>2, <2>5, <2>6, <2>7, ChildKeeps, SMTT(30)
  <1>7. CASE HandleTerminalVtIntent
    <2>1. CASE /\ Supervised(L) /\ rec[L].state = "started"
               /\ rec' = [rec EXCEPT ![L].vt = "IntentPersisted"]
               /\ wrk' = IF wrk[L].pc = "vtIntent" THEN [wrk EXCEPT ![L].pc = "vtRelease"] ELSE wrk
               /\ UNCHANGED <<kids, faults>>
      <3>. DEFINE r == [rec[L] EXCEPT !.vt = "IntentPersisted"]
      <3>1. r \in Records /\ r.state = "started"
        BY <1>4, <2>1, Zenon DEF Records, VtStates
      <3>2. rec' = [rec EXCEPT ![L] = r] /\ kids' = [kids EXCEPT ![L] = kids[L]]
        BY <1>4, <2>1, LoginIs, Zenon
      <3>. HIDE DEF r
      <3>3. PICK f \in {"vtIntent", "vtResult"}, pc \in {"vtRelease", "closing"} :
                f = "vtIntent" /\ pc = "vtRelease"
        BY Zenon
      <3>. QED
        BY <1>4, <1>6, <2>1, <3>1, <3>2, <3>3, Zenon
    <2>2. ASSUME NEW b \in BOOLEAN, Spend(Cost(b)), UNCHANGED <<kids, rec, wrk>>
          PROVE  IInv'
      BY <1>5, <2>2, Zenon
    <2>. QED
      BY <1>1, <1>7, <2>1, <2>2, Zenon DEF HandleTerminalVtIntent
  <1>8. CASE HandleTerminalVtResult
    <2>. DEFINE busy == Head(mbox).flag
    <2>1. CASE /\ Supervised(L)
               /\ rec' = [rec EXCEPT ![L] = IF busy
                             THEN [state |-> "vt_disallocate_failed_busy", vt |-> "Failed"]
                             ELSE [state |-> "started", vt |-> "Confirmed"]]
               /\ kids' = [kids EXCEPT ![L].busy = busy]
               /\ wrk' = IF wrk[L].pc = "vtResult" THEN [wrk EXCEPT ![L].pc = "closing"] ELSE wrk
               /\ UNCHANGED faults
      <3>1. busy \in BOOLEAN
        <4>1. mbox \in Seq(Messages) /\ mbox # <<>>
          BY <1>0, Zenon DEF IInv, TypeOK, Handle
        <4>2. Head(mbox) \in Messages
          BY <4>1
        <4>. QED
          BY <4>2, Zenon DEF Messages
      <3>. HIDE DEF busy
      <3>. DEFINE k == [kids[L] EXCEPT !.busy = busy]
                  r == IF busy THEN [state |-> "vt_disallocate_failed_busy", vt |-> "Failed"]
                       ELSE [state |-> "started", vt |-> "Confirmed"]
      <3>2. k \in Kids /\ k.busy = busy /\ k.receipt = kids[L].receipt
            /\ kids' = [kids EXCEPT ![L] = k]
        BY <1>4, <2>1, <3>1, Zenon DEF Kids
      <3>3. /\ r \in Records /\ r.state \in {"started", "vt_disallocate_failed_busy"}
            /\ r.state = "vt_disallocate_failed_busy" => busy
            /\ rec' = [rec EXCEPT ![L] = r]
        <4>1. CASE busy
          BY <2>1, <4>1, Zenon DEF Records, RecordStates, VtStates
        <4>2. CASE ~busy
          BY <2>1, <4>2, Zenon DEF Records, RecordStates, VtStates
        <4>. QED
          BY <4>1, <4>2, Zenon
      <3>. HIDE DEF k, r
      <3>4. PICK f \in {"vtIntent", "vtResult"}, pc \in {"vtRelease", "closing"} :
                f = "vtResult" /\ pc = "closing"
        BY Zenon
      <3>. QED
        BY <1>6, <2>1, <3>2, <3>3, <3>4, Zenon
    <2>2. ASSUME NEW b \in BOOLEAN, Spend(Cost(b)), UNCHANGED <<rec, kids, wrk>>
          PROVE  IInv'
      BY <1>5, <2>2, Zenon
    <2>. QED
      BY <1>1, <1>8, <2>1, <2>2, Zenon DEF HandleTerminalVtResult
  <1>. QED
    BY <1>7, <1>8, Zenon

\* finish_exited_worker: the seat of a worker that exited is freed only for
\* an empty scope and a VT that is not busy.
LEMMA FinishExitedWorkerStep ==
    ASSUME IInv, NEW L \in LifecycleIds, FinishExitedWorker(L)
    PROVE  IInv'
  <1>0. /\ Supervised(L) /\ wrk[L].pc \in DeadPcs /\ kids' = [kids EXCEPT ![L] = NoKid]
        /\ UNCHANGED <<pend, loop, mbox, lch, wrk>>
    BY Zenon DEF FinishExitedWorker, Exited, Alive
  <1>1. /\ adm.lifecycle = SeatIs("Active", L) /\ adm.phase.tag = "Free" /\ Owner = L
        /\ kids[L].receipt = Receipt("Active", L, adm.generation) /\ rec[L].state # "none"
        /\ ~kids[L].busy => rec[L].state # "vt_disallocate_failed_busy"
    BY <1>0, SupervisedIs, Zenon DEF HasRecord
  <1>2. MatchesLifecycle(adm, kids[L].receipt)
    BY <1>1 DEF MatchesLifecycle, Receipt, Lease
  <1>3. /\ mbox' \in Seq(Messages) /\ CallsAreUnique' /\ loop' \in {"recv", "reap", "down"}
        /\ \A id \in LifecycleIds : SameCalls(id)
    BY <1>0, Zenon DEF IInv, TypeOK, CallsAreUnique, SameCalls, Box
  <1>4. /\ rec[L] \in Records /\ wrk[L] \in Workers /\ scope[L] \in ScopeStates
        /\ "empty" \in ScopeStates /\ NoRecord \in Records /\ NoRecord.state = "none"
        /\ faults \in 0 .. MaxFaults
    BY LoginIs, Zenon DEF ScopeStates, NoRecord, Records, RecordStates, VtStates
  <1>5. NoKid \in Kids /\ NoKid.receipt = NoId
    BY Zenon DEF NoKid, Kids
  <1>6. NoPhase.tag = "Free" /\ FreeSeat.tag = "Free" /\ L # NoId /\ "acked" \notin DeadPcs
        /\ \A tag : SeatIs(tag, L).tag = tag /\ SeatIs(tag, L).id = L
    BY NoIdAssumption, ZenonT(60) DEF NoPhase, FreeSeat, SeatIs, DeadPcs
  <1>7. ASSUME NEW r \in Records, NEW z \in ScopeStates,
               rec' = [rec EXCEPT ![L] = r], scope' = [scope EXCEPT ![L] = z],
               faults' \in 0 .. MaxFaults, faults' = 0 => faults = 0,
               adm' \in Controllers, AdmissionExclusive', SeatMoves(L), adm'.phase = NoPhase,
               adm'.lifecycle.tag # "Recovering",
               z = "user" => (Owner = L)' /\ r.state # "none",
               r.state = "vt_disallocate_failed_busy" => adm'.lifecycle.id = L,
               r.state # "none" /\ ~(Owner = L)' =>
                   z = "empty" /\ (faults' = 0 => r.state = "worker_exited_unexpectedly")
        PROVE  IInv'
    <2>1. Writes(L, pend[L], NoKid, r, wrk[L], z)
      BY <1>0, <1>7, LoginIs, Zenon DEF Writes
    <2>2. adm'.phase.tag = "Free" /\ wrk[L].pc # "acked"
      BY <1>0, <1>6, <1>7, Zenon
    <2>. QED
      BY <1>0, <1>3, <1>4, <1>5, <1>7, <2>1, <2>2, ChildKeeps, SMTT(30)
  <1>8. ASSUME adm' = DoMoveLifecycle(adm, "Quarantined", L)
        PROVE  /\ adm' \in Controllers /\ AdmissionExclusive' /\ SeatMoves(L) /\ (Owner = L)'
               /\ adm'.phase = NoPhase /\ adm'.lifecycle.tag = "Quarantined"
               /\ adm'.lifecycle.id = L
    <2>1. /\ adm' \in Controllers /\ AdmissionExclusive' /\ SeatMoves(L) /\ (Owner' = L)
          /\ adm'.phase = NoPhase /\ adm'.lifecycle = SeatIs("Quarantined", L)
      BY <1>1, <1>8, SeatMovesOn, Zenon
    <2>. QED
      BY <1>6, <2>1, Zenon
  <1>9. ASSUME adm' = DoRelease(adm)
        PROVE  /\ adm' \in Controllers /\ AdmissionExclusive' /\ SeatMoves(L)
               /\ adm'.phase = NoPhase /\ adm'.lifecycle.tag # "Recovering"
    <2>1. /\ adm' \in Controllers /\ AdmissionExclusive' /\ SeatMoves(L)
          /\ adm'.phase = NoPhase /\ adm'.lifecycle = FreeSeat
      BY <1>1, <1>9, SeatIsFreed, Zenon
    <2>. QED
      BY <1>6, <2>1, Zenon
  <1>10. CASE FinishBusy(L)
    <2>1. /\ rec' = [rec EXCEPT ![L] = rec[L]] /\ scope' = [scope EXCEPT ![L] = scope[L]]
          /\ faults' = faults /\ adm' = DoMoveLifecycle(adm, "Quarantined", L)
      BY <1>10, LoginIs, Zenon DEF FinishBusy
    <2>. QED
      BY <1>1, <1>4, <1>7, <1>8, <2>1, Zenon
  <1>11. CASE FinishClean(L)
    <2>1. /\ rec' = [rec EXCEPT ![L] = NoRecord] /\ scope' = [scope EXCEPT ![L] = scope[L]]
          /\ faults' = faults /\ adm' = DoRelease(adm) /\ scope[L] = "empty"
      BY <1>11, LoginIs, Zenon DEF FinishClean
    <2>. QED
      BY <1>4, <1>7, <1>9, <2>1, Zenon
  <1>12. CASE FinishUnexpected(L)
    <2>1. PICK outcome \in Outcomes, noted \in BOOLEAN, settled \in BOOLEAN :
            LET r == IF noted THEN [rec[L] EXCEPT !.state = "worker_exited_unexpectedly"] ELSE rec[L]
            IN  /\ RecoverBoundary(L, outcome)
                /\ Spend(Cost(noted) + Cost(settled))
                /\ rec' = [rec EXCEPT ![L] = IF outcome = "Busy" /\ settled
                               THEN [r EXCEPT !.state = "vt_disallocate_failed_busy"] ELSE r]
                /\ adm' = IF outcome = "Recovered" THEN DoRelease(adm)
                          ELSE DoMoveLifecycle(adm, "Quarantined", L)
      BY <1>12, Zenon DEF FinishUnexpected
    <2>2. faults' \in 0 .. MaxFaults /\ (faults' = 0 => faults = 0 /\ noted)
      BY <2>1, TwoCosts, Zenon
    <2>3. PICK r \in Records :
            /\ r = IF noted THEN [rec[L] EXCEPT !.state = "worker_exited_unexpectedly"] ELSE rec[L]
            /\ r.state \notin {"none", "vt_disallocate_failed_busy"}
            /\ noted => r.state = "worker_exited_unexpectedly"
      <3>1. rec[L].state \notin {"none", "vt_disallocate_failed_busy"}
        BY <1>1, <1>12, Zenon DEF FinishUnexpected
      <3>. DEFINE b == [rec[L] EXCEPT !.state = "worker_exited_unexpectedly"]
      <3>2. b \in Records /\ b.state = "worker_exited_unexpectedly"
        BY <1>4, Zenon DEF Records, RecordStates
      <3>. HIDE DEF b
      <3>3. CASE noted
        <4>1. b = IF noted THEN [rec[L] EXCEPT !.state = "worker_exited_unexpectedly"] ELSE rec[L]
          BY <3>3, Zenon DEF b
        <4>. QED
          BY <3>2, <4>1, Zenon
      <3>4. CASE ~noted
        BY <1>4, <3>1, <3>4, Zenon
      <3>. QED
        BY <3>3, <3>4, Zenon
    <2>4. PICK z \in ScopeStates : /\ scope' = [scope EXCEPT ![L] = z]
                                   /\ z = "empty" \/ (outcome = "Quarantined" /\ z = scope[L])
      BY <1>4, <2>1, LoginIs, Zenon DEF RecoverBoundary
    <2>5. CASE outcome = "Recovered"
      <3>1. rec' = [rec EXCEPT ![L] = r] /\ adm' = DoRelease(adm) /\ z = "empty"
        BY <2>1, <2>3, <2>4, <2>5
      <3>. QED
        BY <1>7, <1>9, <2>2, <2>3, <2>4, <3>1, Zenon
    <2>6. CASE outcome # "Recovered"
      <3>1. adm' = DoMoveLifecycle(adm, "Quarantined", L)
        BY <2>1, <2>6, Zenon
      <3>2. PICK n \in Records : rec' = [rec EXCEPT ![L] = n] /\ n.state # "none"
        <4>. DEFINE b == [r EXCEPT !.state = "vt_disallocate_failed_busy"]
        <4>1. b \in Records /\ b.state = "vt_disallocate_failed_busy"
          BY Zenon DEF Records, RecordStates
        <4>2. rec' = [rec EXCEPT ![L] = b] \/ rec' = [rec EXCEPT ![L] = r]
          BY <2>1, <2>3, Zenon
        <4>. HIDE DEF b
        <4>. QED
          BY <2>3, <4>1, <4>2, Zenon
      <3>. QED
        BY <1>7, <1>8, <2>2, <2>4, <3>1, <3>2, Zenon
    <2>. QED
      BY <2>5, <2>6, Zenon
  <1>. QED
    BY <1>2, <1>10, <1>11, <1>12 DEF FinishExitedWorker

\* WorkerSupervisor is dropped: the supervised workers are killed.
LEMMA ShutdownStep ==
    ASSUME IInv, Shutdown
    PROVE  IInv'
  <1>0. /\ \A id \in LifecycleIds : lch[id].pc \in {"idle", "started", "failed"}
        /\ UNCHANGED <<adm, pend, rec, mbox, lch, scope, faults>> /\ loop' = "down"
        /\ wrk' = [id \in LifecycleIds |-> IF Supervised(id) THEN Killed(wrk[id]) ELSE wrk[id]]
        /\ kids' = [id \in LifecycleIds |-> NoKid]
    BY Zenon DEF Shutdown, AtRest
  <1>1. NoKid \in Kids /\ NoKid.receipt = NoId
    BY Zenon DEF NoKid, Kids
  <1>2. ASSUME NEW id \in LifecycleIds
        PROVE  /\ wrk'[id] \in Workers /\ wrk'[id].out = wrk[id].out
               /\ wrk'[id].reader = wrk[id].reader
               /\ wrk'[id].pc = wrk[id].pc \/ (wrk'[id].pc = "exitBad" /\ wrk[id].pc # "none")
               /\ wrk[id].pc \in DeadPcs => wrk'[id].pc \in DeadPcs
    <2>1. wrk[id] \in Workers /\ wrk'[id] \in {wrk[id], Killed(wrk[id])}
      BY <1>0, LoginIs, Zenon
    <2>2. Supervised(id) => wrk[id].pc # "none"
      BY SupervisedIs, ZenonT(60)
    <2>3. wrk'[id] = wrk[id] \/ (wrk'[id] = Killed(wrk[id]) /\ wrk[id].pc # "none")
      BY <1>0, <2>1, <2>2, SMTT(30)
    <2>. QED
      BY <2>1, <2>3, KilledIs, Zenon
  <1>3. TypeOK' /\ AdmissionExclusive' /\ CallsAreUnique'
    <2>1. wrk' \in [LifecycleIds -> Workers]
      BY <1>0, <1>2, Zenon
    <2>2. kids' \in [LifecycleIds -> Kids]
      BY <1>0, <1>1, Zenon
    <2>. QED
      BY <1>0, <2>1, <2>2, SMTT(30)
      DEF IInv, TypeOK, AdmissionExclusive, CallsAreUnique
  <1>4. ASSUME NEW id \in LifecycleIds
        PROVE  LoginInv(id)'
    <2>0. LoginInv(id) /\ lch[id].pc # "registering" /\ kids'[id].receipt = NoId
      BY <1>0, <1>1, LoginIs, Zenon
    <2>s. /\ Box' = Box /\ (\A c : InBox(id, c)' <=> InBox(id, c)) /\ (NoLease(id)' <=> NoLease(id))
          /\ Owner' = Owner /\ lch'[id] = lch[id] /\ pend'[id] = pend[id] /\ rec'[id] = rec[id]
          /\ scope'[id] = scope[id]
      BY <1>0, Zenon DEF Box, InBox, NoLease, Owner
    <2>l. LastCall(lch[id])' /\ QueuedCalls(id)'
      BY <2>0, <2>s, ZenonT(60) DEF LoginInv, LastCall, QueuedCalls, GaveUp
    <2>m. Leases(id)'
      <3>1. \A t : LeaseOf(id, t)' <=> LeaseOf(id, t)
        BY <1>0, <2>s, Zenon DEF LeaseOf
      <3>2. HoldsLease(lch[id])' <=> HoldsLease(lch[id])
        BY <1>0, Zenon DEF HoldsLease
      <3>. QED
        BY <2>0, <2>s, <3>1, <3>2 DEF LoginInv, Leases
    <2>1. EntryFollows(id)'
      BY <2>0, <2>s, Zenon
      DEF LoginInv, EntryFollows, Returned, Waiting, Registrable, HasRecord
    <2>2. WorkerReports(id)'
      BY <1>0, <1>2, <2>0, Zenon
      DEF LoginInv, WorkerReports, HasRecord, ReleasePcs, StartedPcs
    <2>3. EntryHasSeat(id)' /\ ChildHasSeat(id)'
      BY <1>0, <2>0, ZenonT(60)
      DEF LoginInv, EntryHasSeat, ChildHasSeat, HasRecord, HasPayload, Supervised,
          Owner
    <2>4. RecordHasSeat(id)'
      <3>1. ~Alive(id) => ~Alive(id)'
        BY <1>2, Zenon DEF Alive
      <3>2. wrk'[id].pc = "acked" => wrk[id].pc = "acked"
        BY <1>2, Zenon
      <3>3. ~Supervised(id)' /\ (HasRecord(id)' <=> HasRecord(id))
        BY <2>0, <2>s, ZenonT(60) DEF Supervised, HasRecord
      <3>. QED
        BY <1>0, <2>0, <2>s, <3>1, <3>2, <3>3, Zenon DEF LoginInv, RecordHasSeat
    <2>5. NoFaultYet(id)'
      BY <1>0, <2>0, ZenonT(60)
      DEF LoginInv, NoFaultYet, InBox, Box, Waiting, Owner, NoLease
    <2>. QED
      BY <2>l, <2>m, <2>1, <2>2, <2>3, <2>4, <2>5 DEF LoginInv
  <1>. QED
    BY <1>3, <1>4, Zenon DEF IInv

-----------------------------------------------------------------------------
(* The inductive invariant and what follows from it.                       *)

\* Every step of the supervisor keeps the invariant.
LEMMA SupervisorStep ==
    ASSUME IInv, SupervisorNext
    PROVE  IInv'
  <1>1. CASE RecvTimeout \/ Reaped
    <2>1. UNCHANGED <<adm, pend, kids, rec, mbox, lch, wrk, scope, faults>>
          /\ loop' \in {"recv", "reap"}
      BY <1>1, Zenon DEF RecvTimeout, Reaped
    <2>2. mbox' \in Seq(Messages) /\ CallsAreUnique' /\ faults' \in 0 .. MaxFaults
      BY <2>1, Zenon DEF IInv, TypeOK, CallsAreUnique
    <2>3. \A id \in LifecycleIds : SameCalls(id)
      BY <2>1, Zenon DEF SameCalls, Box
    <2>. QED
      BY <2>1, <2>2, <2>3, NothingMoves, Zenon
  <1>. QED
    BY <1>1, ReserveSeatStep, CancelAdmissionStep, BeginPendingStep,
       RecordPreparedScopeStep,
       MarkPayloadRegisteredStep, BeginReleaseStep, CompleteReleaseStep, RegisterStep,
       AbortPendingStep, TerminalVtSteps, FinishExitedWorkerStep, ShutdownStep, Zenon
       DEF SupervisorNext, SupervisorSteps

\* The daemon starts with no login, no record and a free seat.
LEMMA InitHolds == Init => IInv
  <1>. SUFFICES ASSUME Init PROVE IInv
    BY Zenon
  <1>1. TypeOK
    <2>1. NewController(FreeSeat) \in Controllers
      <3>1. NoPhase \in Phases /\ FreeSeat \in Lifecycles
        BY Zenon
        DEF NoPhase, Phases, PhaseTags, Ids, FreeSeat, Lifecycles, LifecycleTags
      <3>. QED
        BY <3>1, Zenon DEF NewController, Controllers
    <2>2. NoEntry \in Entries /\ NoKid \in Kids /\ NoRecord \in Records
      BY Zenon
      DEF NoEntry, Entries, PendingStates, NoKid, Kids, NoRecord, Records,
          RecordStates, VtStates
    <2>3. IdleLauncher \in Launchers
      BY Zenon DEF IdleLauncher, Launchers, LauncherPcs, Calls
    <2>4. NoWorker \in Workers /\ "none" \in ScopeStates
      BY DEF NoWorker, Workers, WorkerPcs, DeadPcs, ScopeStates
    <2>5. mbox \in Seq(Messages) /\ faults \in 0 .. MaxFaults /\ loop \in {"recv", "reap", "down"}
      BY MaxFaultsAssumption DEF Init
    <2>. QED
      BY <2>1, <2>2, <2>3, <2>4, <2>5 DEF Init, TypeOK
  <1>2. adm.phase = NoPhase /\ adm.lifecycle = FreeSeat
    BY Zenon DEF Init, NewController
  <1>3. NoPhase.tag = "Free" /\ FreeSeat.tag = "Free" /\ FreeSeat.id = NoId
    BY Zenon DEF NoPhase, FreeSeat
  <1>4. AdmissionExclusive /\ Owner = NoId
    BY <1>2, <1>3, Zenon DEF AdmissionExclusive, Owner
  <1>5. Box = {} /\ CallsAreUnique
    <2>1. DOMAIN mbox = {}
      BY DEF Init
    <2>. QED
      BY <2>1, Zenon DEF Box, CallsAreUnique
  <1>6. ASSUME NEW id \in LifecycleIds
        PROVE  LoginInv(id)
    <2>1. /\ pend[id] = NoEntry /\ kids[id] = NoKid /\ rec[id] = NoRecord /\ lch[id] = IdleLauncher
          /\ wrk[id] = NoWorker /\ scope[id] = "none" /\ \A c : ~InBox(id, c)
      BY <1>5, Zenon DEF Init, InBox
    <2>2. /\ NoEntry.st = "none" /\ NoKid.receipt = NoId /\ NoRecord.state = "none"
          /\ NoWorker.pc = "none" /\ NoWorker.out = <<>> /\ ~NoWorker.reader
      BY Zenon DEF NoEntry, NoKid, NoRecord, NoWorker
    <2>3. /\ IdleLauncher.pc = "idle" /\ IdleLauncher.call = "ReserveSeat"
          /\ IdleLauncher.lease = NoId /\ ~IdleLauncher.registered
      BY Zenon DEF IdleLauncher
    <2>4. LastCall(lch[id]) /\ QueuedCalls(id) /\ Leases(id)
      BY <1>5, <2>1, <2>3, Zenon
      DEF LastCall, QueuedCalls, Leases, HoldsLease, VtCalls
    <2>5. EntryFollows(id)
      BY <2>1, <2>3, Zenon DEF EntryFollows, Returned, Waiting
    <2>6. WorkerReports(id)
      <3>1. \A y : ~Has(<<>>, y)
        BY DEF Has
      <3>. QED
        BY <2>1, <2>2, <2>3, <3>1, Zenon DEF WorkerReports, HasRecord, StartedPcs
    <2>7. EntryHasSeat(id) /\ ChildHasSeat(id) /\ RecordHasSeat(id)
      BY <2>1, <2>2, Zenon
      DEF EntryHasSeat, ChildHasSeat, RecordHasSeat, HasRecord, HasPayload, Supervised
    <2>8. NoFaultYet(id)
      BY <1>4, <2>1, <2>3, NoIdAssumption, Zenon DEF NoFaultYet
    <2>. QED
      BY <2>4, <2>5, <2>6, <2>7, <2>8, Zenon DEF LoginInv
  <1>. QED
    BY <1>1, <1>4, <1>5, <1>6, ZenonT(60) DEF IInv

\* The inductive invariant holds in every reachable state, for any number of
\* logins and faults.
THEOREM InvariantHolds == Spec => []IInv
  <1>1. IInv /\ [Next]_vars => IInv'
    <2>. SUFFICES ASSUME IInv, [Next]_vars PROVE IInv'
      BY Zenon
    <2>1. CASE Next
      BY <2>1, SupervisorStep, LauncherStep, WorkerStep DEF Next
    <2>2. CASE UNCHANGED vars
      <3>1. UNCHANGED <<adm, pend, kids, rec, loop, mbox, lch, wrk, scope, faults>>
        BY <2>2, Zenon DEF vars
      <3>2. mbox' \in Seq(Messages) /\ CallsAreUnique' /\ faults' \in 0 .. MaxFaults
            /\ loop' \in {"recv", "reap", "down"}
        BY <3>1, Zenon DEF IInv, TypeOK, CallsAreUnique
      <3>3. \A id \in LifecycleIds : SameCalls(id)
        BY <3>1, Zenon DEF SameCalls, Box
      <3>. QED
        BY <3>1, <3>2, <3>3, NothingMoves
    <2>. QED
      BY <2>1, <2>2, Zenon
  <1>. QED
    BY <1>1, InitHolds, PTL DEF Spec

\* A user's processes have the seat (PayloadOwnsSeat): no timeout, store
\* failure or crash lets another login reserve it while they run.
THEOREM PayloadHolds == Spec => []PayloadOwnsSeat
  <1>1. IInv => PayloadOwnsSeat
    BY Zenon DEF IInv, LoginInv, RecordHasSeat, PayloadOwnsSeat
  <1>. QED
    BY <1>1, InvariantHolds, PTL

\* A user's processes have a durable record (PayloadIsDurable): the record is
\* stored before the session is committed and removed only for an empty scope.
THEOREM DurableHolds == Spec => []PayloadIsDurable
  <1>1. IInv => PayloadIsDurable
    BY ZenonT(60) DEF IInv, LoginInv, RecordHasSeat, PayloadIsDurable
  <1>. QED
    BY <1>1, InvariantHolds, PTL

\* A VT that is recorded as busy keeps its seat (BusyVtKeepsSeat), whether
\* the worker reported it or the supervisor's own recovery met it.
THEOREM BusyVtHolds == Spec => []BusyVtKeepsSeat
  <1>1. IInv => BusyVtKeepsSeat
    BY OwnerIs DEF IInv, LoginInv, RecordHasSeat, BusyVtKeepsSeat
  <1>. QED
    BY <1>1, InvariantHolds, PTL

\* A record without the seat describes a dead worker and an empty scope
\* (LeftoverRecordsAreDead); without a fault only finish_exited_worker
\* leaves one.
THEOREM LeftoversHold == Spec => []LeftoverRecordsAreDead
  <1>1. IInv => LeftoverRecordsAreDead
    BY Zenon DEF IInv, LoginInv, RecordHasSeat, LeftoverRecordsAreDead
  <1>. QED
    BY <1>1, InvariantHolds, PTL

\* Without a fault an idle daemon has no phase open and no recovery pending
\* (NoPhaseLeaksWithoutFault): every lease is spent or handed back.
THEOREM NoLeakHolds == Spec => []NoPhaseLeaksWithoutFault
  <1>1. IInv => NoPhaseLeaksWithoutFault
    <2>. SUFFICES ASSUME IInv, faults = 0, mbox = <<>>, \A id \in LifecycleIds : AtRest(id)
                  PROVE  /\ adm.phase.tag = "Free"
                         /\ adm.lifecycle.tag # "Recovering"
                         /\ \A id \in LifecycleIds : pend[id].st # "none" => Owner = id
      BY Zenon DEF NoPhaseLeaksWithoutFault
    <2>0. adm \in Controllers /\ AdmissionExclusive /\ \A id \in LifecycleIds : LoginInv(id)
      BY Zenon DEF IInv, TypeOK
    <2>1. adm.phase.id \in Ids /\ adm.lifecycle.id \in Ids
      BY <2>0, Zenon DEF Controllers, Phases, Lifecycles
    <2>2. \A id \in LifecycleIds : NoLease(id)
      <3>1. DOMAIN mbox = {}
        OBVIOUS
      <3>2. \A id, c : ~InBox(id, c)
        BY <3>1, Zenon DEF InBox, Box
      <3>3. \A id \in LifecycleIds : lch[id].lease = NoId
        BY <2>0, ZenonT(60) DEF LoginInv, Leases, HoldsLease, AtRest
      <3>. QED
        BY <3>2, <3>3, Zenon DEF NoLease
    <2>3. adm.phase.tag = "Free"
      <3>1. SUFFICES ASSUME adm.phase.tag # "Free" PROVE FALSE
        BY Zenon
      <3>2. PICK id \in LifecycleIds : Owner = id
        BY <2>0, <2>1, <3>1, Zenon DEF AdmissionExclusive, Owner, Ids
      <3>. QED
        BY <2>0, <2>2, <3>1, <3>2 DEF LoginInv, NoFaultYet
    <2>4. adm.lifecycle.tag # "Recovering"
      <3>1. SUFFICES ASSUME adm.lifecycle.tag = "Recovering" PROVE FALSE
        BY Zenon
      <3>2. PICK id \in LifecycleIds : Owner = id
        BY <2>0, <2>1, <2>3, <3>1 DEF AdmissionExclusive, Owner, Ids
      <3>. QED
        BY <2>0, <3>1, <3>2, Zenon DEF LoginInv, NoFaultYet
    <2>. QED
      BY <2>0, <2>3, <2>4, Zenon DEF LoginInv, EntryHasSeat
  <1>. QED
    BY <1>1, InvariantHolds, PTL

-----------------------------------------------------------------------------
(* The abstract seat.                                                      *)

\* What a step does to the controller: nothing, a claim, a change of phase,
\* a move on, or the end of the tenure.
Claims == CanReserve(adm, "Clear") /\ \E L \in LifecycleIds : adm' = DoReserve(adm, L)
Advances ==
    /\ adm.phase.tag # "Free"
    /\ \E t \in Tokens, kind \in LeaseKinds : adm' = DoAdvance(adm, t, kind)
MovesOn ==
    \/ /\ adm.phase.tag # "Free"
       /\ \E L \in LifecycleIds, tag \in {"Active", "Recovering", "Quarantined"} :
             adm' = DoLeavePending(adm, tag, L)
    \/ /\ adm.phase.tag = "Free" /\ adm.lifecycle.tag = "Active"
       /\ \E L \in LifecycleIds : adm' = DoMoveLifecycle(adm, "Quarantined", L)
Frees ==
    \/ adm.phase.tag # "Free" /\ adm' = DoCancel(adm)
    \/ /\ adm.phase.tag # "Free"
       /\ \E L \in LifecycleIds : adm' = DoRelease(DoLeavePending(adm, "Recovering", L))
    \/ adm.phase.tag = "Free" /\ adm.lifecycle.tag = "Active" /\ adm' = DoRelease(adm)

\* A lease that matches is that of an open phase.
LEMMA MatchIsOpen ==
    ASSUME NEW t \in Tokens, MatchesPhase(adm, t)
    PROVE  adm.phase.tag # "Free"
  BY Zenon DEF MatchesPhase, Tokens, LeaseKinds, ReceiptKinds

\* cancel frees the seat or leaves it.
LEMMA CancelFrees ==
    ASSUME NEW t \in Tokens, CancelLease(t)
    PROVE  adm' = adm \/ Frees
  BY MatchIsOpen, Zenon DEF CancelLease, Frees

\* Every step of the supervisor does one of these.
LEMMA SupervisorMovesSeat ==
    ASSUME IInv, SupervisorNext
    PROVE  adm' = adm \/ Claims \/ Advances \/ MovesOn \/ Frees
  <1>1. CASE HandleReserveSeat
    <2>1. PICK L \in LifecycleIds : L = Head(mbox).id
      BY <1>1, HandledLogin, Zenon DEF HandleReserveSeat
    <2>. QED
      BY <1>1, <2>1, Zenon DEF HandleReserveSeat, Claims
  <1>2. ASSUME NEW c \in LeaseCalls, Handle(c)
        PROVE  \E L \in LifecycleIds, t \in Tokens : L = Head(mbox).id /\ t = Head(mbox).lease
    BY <1>2, LeaseHandled, Zenon
  <1>3. CASE HandleCancelAdmission
    <2>1. PICK L \in LifecycleIds, t \in Tokens : L = Head(mbox).id /\ t = Head(mbox).lease
      BY <1>2, <1>3, Zenon DEF HandleCancelAdmission, LeaseCalls
    <2>2. CancelLease(t)
      BY <1>3, <2>1, Zenon DEF HandleCancelAdmission
    <2>. QED
      BY <2>2, CancelFrees, Zenon
  <1>4. CASE HandleBeginPending
    <2>1. PICK L \in LifecycleIds, t \in Tokens : L = Head(mbox).id /\ t = Head(mbox).lease
      BY <1>2, <1>4, Zenon DEF HandleBeginPending, LeaseCalls
    <2>2. \/ MatchesPhase(adm, t) /\ adm' = DoAdvance(adm, t, "PendingLifecycle")
          \/ CancelLease(t)
      BY <1>4, <2>1, Zenon DEF HandleBeginPending, CanAdvance
    <2>3. "PendingLifecycle" \in LeaseKinds
      BY Zenon DEF LeaseKinds
    <2>. QED
      BY <2>2, <2>3, CancelFrees, MatchIsOpen, Zenon DEF Advances
  <1>5. CASE HandleRecordPreparedScope
    <2>1. PICK L \in LifecycleIds : L = Head(mbox).id
      BY <1>5, HandledLogin, Zenon DEF HandleRecordPreparedScope
    <2>2. adm' = adm \/ (PendingIs(adm, L) /\ adm' = DoLeavePending(adm, "Quarantined", L))
      BY <1>5, <2>1, Zenon DEF HandleRecordPreparedScope
    <2>. QED
      BY <2>2, Zenon DEF PendingIs, MovesOn
  <1>6. CASE HandleRegister
    <2>1. PICK L \in LifecycleIds, t \in Tokens : L = Head(mbox).id /\ t = Head(mbox).lease /\ t.id = L
      <3>1. Handle("Register") /\ "Register" \in LeaseCalls
        BY <1>6, Zenon DEF HandleRegister, LeaseCalls
      <3>. QED
        BY <3>1, LeaseHandled, Zenon
    <2>2. RegisterFound(L, t) \/ CancelLease(t)
      BY <1>6, <2>1, ZenonT(60) DEF HandleRegister
    <2>3. CASE RegisterFound(L, t)
      <3>1. \/ adm' = adm
            \/ MatchesPhase(adm, t) /\ adm' = DoLeavePending(adm, "Quarantined", L)
            \/ MatchesPhase(adm, t) /\ adm' = DoAdvance(adm, t, "LaunchCommitted")
            \/ MatchesPhase(adm, t) /\ adm' = DoPromoteToRunning(adm, t)
        BY <2>3, Zenon DEF RegisterFound
      <3>2. DoPromoteToRunning(adm, t) = DoLeavePending(adm, "Active", L)
        BY <2>1, Zenon DEF DoPromoteToRunning, DoLeavePending
      <3>3. "LaunchCommitted" \in LeaseKinds
        BY Zenon DEF LeaseKinds
      <3>. QED
        BY <3>1, <3>2, <3>3, MatchIsOpen DEF MovesOn, Advances
    <2>. QED
      BY <2>2, <2>3, CancelFrees, Zenon
  <1>7. CASE HandleAbortPending
    <2>1. PICK L \in LifecycleIds, t \in Tokens : L = Head(mbox).id /\ t = Head(mbox).lease
      BY <1>2, <1>7, Zenon DEF HandleAbortPending, LeaseCalls
    <2>2. \/ adm' = adm
          \/ /\ MatchesPhase(adm, t)
             /\ FinalizeClean(L, t) \/ RecoverPayloadEntry(L) \/ RecoverPrePayloadEntry(L)
      BY <1>7, <2>1, Zenon DEF HandleAbortPending
    <2>3. \/ adm' = adm
          \/ /\ adm.phase.tag # "Free"
             /\ \/ adm' = DoCancel(adm)
                \/ adm' = DoRelease(DoLeavePending(adm, "Recovering", L))
                \/ adm' = DoLeavePending(adm, "Recovering", L)
                \/ adm' = DoLeavePending(adm, "Quarantined", L)
      BY <2>2, MatchIsOpen, Zenon
      DEF FinalizeClean, RecoverPayloadEntry, RecoverPrePayloadEntry
    <2>. QED
      BY <2>3, Zenon DEF Frees, MovesOn
  <1>8. ASSUME NEW L \in LifecycleIds, FinishExitedWorker(L)
        PROVE  adm' = adm \/ MovesOn \/ Frees
    <2>1. /\ \/ adm' = adm
             \/ adm' = DoMoveLifecycle(adm, "Quarantined", L)
             \/ adm' = DoRelease(adm)
          /\ Supervised(L)
      BY <1>8, Zenon
      DEF FinishExitedWorker, FinishBusy, FinishClean, FinishUnexpected, Exited
    <2>2. adm.phase.tag = "Free" /\ adm.lifecycle.tag = "Active"
      <3>1. SeatIs("Active", L).tag = "Active"
        BY Zenon DEF SeatIs
      <3>. QED
        BY <2>1, <3>1, SupervisedIs, Zenon
    <2>. QED
      BY <2>1, <2>2, Zenon DEF MovesOn, Frees
  <1>9. CASE \/ RecvTimeout \/ HandleMarkPayloadRegistered \/ HandleBeginRelease
             \/ HandleCompleteRelease \/ HandleTerminalVtIntent \/ HandleTerminalVtResult
             \/ Reaped \/ Shutdown
    BY <1>9, Zenon
    DEF RecvTimeout, HandleMarkPayloadRegistered, HandleBeginRelease,
        HandleCompleteRelease,
                HandleTerminalVtIntent, HandleTerminalVtResult, Reaped, Shutdown
  <1>. QED
    BY <1>1, <1>3, <1>4, <1>5, <1>6, <1>7, <1>8, <1>9, SMTT(30)
    DEF SupervisorNext, SupervisorSteps

\* Launchers and workers only ask: the controller is the supervisor's.
LEMMA OthersLeaveSeat ==
    ASSUME NEW L \in LifecycleIds, LauncherNext(L) \/ WorkerNext(L)
    PROVE  adm' = adm
  <1>1. CASE LauncherNext(L)
    <2>1. UNCHANGED LauncherVars
      BY <1>1, Zenon
      DEF LauncherNext, LauncherSteps, StartLogin, CallTimeout, DeadlinePasses,
          AfterReserve, ReadPrompt, AfterPrompt, JoinReader,
                  SpawnWorker, AfterBegin, ReadScopePrepared, AfterRecord, AfterMark,
                  ReadReleaseReady, AfterBeginRelease, VerifyRelease, AfterCompleteRelease,
                  ReadStarted, Register, AfterRegister, ReadResponse, WorkerExitSeen, WorkerLost,
                  AfterAbort
    <2>. QED
      BY <2>1, Zenon DEF LauncherVars
  <1>2. CASE WorkerNext(L)
    <2>1. UNCHANGED WorkerUnchanged
      BY <1>2, Zenon
      DEF WorkerNext, WorkerSteps, AskPrompt, RespondEarly, PrepareScope, CommitExec,
          ReportStarted,
                  RequestRelease, RespondFailed, SendVtIntent, ReleaseVt, CloseSession,
                  VtReportRefused, GiveUpReport, EndSession, ReleaseTimeout, VtReportTimeout, Crash,
                  ScopeDrains
    <2>. QED
      BY <2>1, Zenon DEF WorkerUnchanged
  <1>. QED
    BY <1>1, <1>2, Zenon

\* The abstract seat, read off the controller before and after a step.
LEMMA SeatIsSeen ==
    /\ adm.phase.tag # "Free" => SeatState = "launching"
    /\ adm.phase.tag = "Free" /\ adm.lifecycle.tag = "Free" => SeatState = "free"
    /\ adm.phase.tag = "Free" /\ adm.lifecycle.tag = "Active" => SeatState = "running"
  BY Zenon DEF SeatState

\* The same after the step.
LEMMA SeatIsSeenNext ==
    /\ adm'.phase.tag # "Free" => SeatState' = "launching"
    /\ adm'.phase.tag = "Free" /\ adm'.lifecycle.tag = "Free" => SeatState' = "free"
    /\ adm'.phase.tag = "Free" /\ adm'.lifecycle.tag = "Active" => SeatState' = "running"
    /\ adm'.phase.tag = "Free" /\ adm'.lifecycle.tag = "Recovering" => SeatState' = "recovering"
    /\ adm'.phase.tag = "Free" /\ adm'.lifecycle.tag = "Quarantined" => SeatState' = "quarantined"
  BY Zenon DEF SeatState

\* Each of them is a step of the abstract seat, or none.
LEMMA SeatStepRefines ==
    ASSUME IInv, adm' = adm \/ Claims \/ Advances \/ MovesOn \/ Frees
    PROVE  [AbstractSeat!Next]_(AbstractSeat!seatVars)
  <1>. USE DEF AbstractSeat!Next, AbstractSeat!seatVars
  <1>0. adm \in Controllers /\ adm.generation \in Nat /\ AdmissionExclusive
    BY Zenon DEF IInv, TypeOK, Controllers
  <1>1. NoPhase.tag = "Free" /\ FreeSeat.tag = "Free" /\ \A tag, L : SeatIs(tag, L).tag = tag
    BY Zenon DEF NoPhase, FreeSeat, SeatIs
  <1>2. CASE adm' = adm
    BY <1>2 DEF SeatState
  <1>3. CASE Claims
    <2>1. adm'.generation = adm.generation + 1 /\ adm'.phase.tag = "Reserved"
      <3>1. PICK L \in LifecycleIds : adm' = DoReserve(adm, L)
        BY <1>3, Zenon DEF Claims
      <3>. DEFINE p == [tag |-> "Reserved", attempt |-> adm.nextAttempt,
                        id |-> L, gen |-> adm.generation + 1]
      <3>2. p.tag = "Reserved" /\ adm' = [adm EXCEPT !.nextAttempt = adm.nextAttempt + 1,
                                          !.generation = adm.generation + 1, !.phase = p]
        BY <3>1, Zenon DEF DoReserve
      <3>. HIDE DEF p
      <3>. QED
        BY <1>0, <3>2, Zenon DEF Controllers
    <2>2. SeatState = "free" /\ SeatState' = "launching"
      BY <1>3, <2>1, SeatIsSeen, SeatIsSeenNext, ZenonT(60) DEF Claims, CanReserve
    <2>. QED
      BY <2>1, <2>2, Zenon DEF AbstractSeat!Claim
  <1>4. CASE Advances
    <2>1. adm'.generation = adm.generation /\ adm'.phase.tag \in LeaseKinds /\ adm.phase.tag # "Free"
      BY <1>0, <1>4 DEF Advances, DoAdvance, Controllers
    <2>2. SeatState = "launching" /\ SeatState' = "launching"
      BY <2>1, SeatIsSeen, SeatIsSeenNext, Zenon DEF LeaseKinds
    <2>. QED
      BY <2>1, <2>2, Zenon
  <1>5. CASE MovesOn
    <2>1. CASE /\ adm.phase.tag # "Free"
               /\ \E L \in LifecycleIds, tag \in {"Active", "Recovering", "Quarantined"} :
                     adm' = DoLeavePending(adm, tag, L)
      <3>1. PICK L \in LifecycleIds, tag \in {"Active", "Recovering", "Quarantined"} :
                adm' = DoLeavePending(adm, tag, L)
        BY <2>1, Zenon
      <3>2. /\ adm'.phase = NoPhase /\ adm'.lifecycle = SeatIs(tag, L)
            /\ adm'.generation = adm.generation
        BY <1>0, <3>1, ZenonT(60) DEF DoLeavePending, Controllers
      <3>3. SeatState = "launching" /\ SeatState' \in {"running", "recovering", "quarantined"}
        BY <1>1, <2>1, <3>2, SeatIsSeen, SeatIsSeenNext, SMTT(30)
      <3>. QED
        BY <3>2, <3>3, Zenon DEF AbstractSeat!Progress
    <2>2. CASE /\ adm.phase.tag = "Free" /\ adm.lifecycle.tag = "Active"
               /\ \E L \in LifecycleIds : adm' = DoMoveLifecycle(adm, "Quarantined", L)
      <3>1. PICK L \in LifecycleIds : adm' = DoMoveLifecycle(adm, "Quarantined", L)
        BY <2>2, Zenon
      <3>2. /\ adm'.phase = adm.phase /\ adm'.lifecycle = SeatIs("Quarantined", L)
            /\ adm'.generation = adm.generation
        BY <1>0, <3>1, ZenonT(60) DEF DoMoveLifecycle, Controllers
      <3>3. SeatState = "running" /\ SeatState' = "quarantined"
        BY <1>1, <2>2, <3>2, SeatIsSeen, SeatIsSeenNext, SMTT(30)
      <3>. QED
        BY <3>2, <3>3, Zenon DEF AbstractSeat!Progress
    <2>. QED
      BY <1>5, <2>1, <2>2, ZenonT(60) DEF MovesOn
  <1>6. CASE Frees
    <2>1. /\ adm'.phase.tag = "Free" /\ adm'.lifecycle.tag = "Free"
          /\ adm'.generation = adm.generation
      <3>1. CASE adm.phase.tag # "Free" /\ adm' = DoCancel(adm)
        BY <1>0, <1>1, <3>1, ZenonT(60) DEF DoCancel, Controllers, AdmissionExclusive
      <3>2. CASE \E L \in LifecycleIds : adm' = DoRelease(DoLeavePending(adm, "Recovering", L))
        BY <1>0, <1>1, <3>2, ZenonT(60) DEF DoRelease, DoLeavePending, Controllers
      <3>3. CASE adm.phase.tag = "Free" /\ adm' = DoRelease(adm)
        BY <1>0, <1>1, <3>3, Zenon DEF DoRelease, Controllers
      <3>. QED
        BY <1>6, <3>1, <3>2, <3>3, ZenonT(60) DEF Frees
    <2>2. SeatState \in {"launching", "running"} /\ SeatState' = "free"
      BY <1>6, <2>1, SeatIsSeen, SeatIsSeenNext, ZenonT(60) DEF Frees
    <2>. QED
      BY <2>1, <2>2, Zenon DEF AbstractSeat!Release
  <1>. QED
    BY <1>2, <1>3, <1>4, <1>5, <1>6, SMTT(30)

\* Launchers, supervisor and workers implement the abstract seat
\* (ImplementsSeat): tenures are numbered, one at a time, and the seat is
\* free between two of them, for any number of logins, calls and faults.
THEOREM Refinement == Spec => ImplementsSeat
  <1>1. Init => AbstractSeat!Init
    <2>. SUFFICES ASSUME Init PROVE AbstractSeat!Init
      OBVIOUS
    <2>1. adm.phase = NoPhase /\ adm.lifecycle = FreeSeat /\ adm.generation = 0
      BY Zenon DEF Init, NewController, FreeSeat
    <2>2. SeatState = "free"
      BY <2>1, SeatIsSeen DEF NoPhase, FreeSeat
    <2>. QED
      BY <2>1, <2>2, Zenon DEF AbstractSeat!Init
  <1>2. IInv /\ [Next]_vars => [AbstractSeat!Next]_(AbstractSeat!seatVars)
    <2>. SUFFICES ASSUME IInv, [Next]_vars
                  PROVE  [AbstractSeat!Next]_(AbstractSeat!seatVars)
      BY Zenon
    <2>1. adm' = adm \/ Claims \/ Advances \/ MovesOn \/ Frees
      <3>1. CASE Next
        BY <3>1, SupervisorMovesSeat, OthersLeaveSeat, Zenon DEF Next
      <3>2. CASE UNCHANGED vars
        BY <3>2, Zenon DEF vars
      <3>. QED
        BY <3>1, <3>2, Zenon
    <2>. QED
      BY <2>1, SeatStepRefines, Zenon
  <1>. QED
    BY <1>1, <1>2, InvariantHolds, PTL DEF Spec, ImplementsSeat, AbstractSeat!Spec
=============================================================================
