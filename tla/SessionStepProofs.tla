------------------------- MODULE SessionStepProofs -------------------------
(***************************************************************************)
(* Proofs about SessionSupervision: the message queue, what a step of one  *)
(* login leaves alone, the steps of the workers and the launchers, and the *)
(* calls with which the supervisor moves a pending worker on.              *)
(***************************************************************************)
EXTENDS SessionSupervision, TLAPS

-----------------------------------------------------------------------------
(* The supervisor's channel.                                               *)

\* A message is taken off the channel.
LEMMA Received ==
    ASSUME mbox \in Seq(Messages), CallsAreUnique, mbox # <<>>, mbox' = Tail(mbox)
    PROVE  /\ mbox' \in Seq(Messages) /\ CallsAreUnique' /\ Head(mbox) \in Box
           /\ Box' \subseteq Box /\ Box \ {Head(mbox)} \subseteq Box'
           /\ Head(mbox).call \notin VtCalls =>
                  \A m \in Box' : ~(m.id = Head(mbox).id /\ m.call = Head(mbox).call)
  <1>1. /\ Len(mbox) \in Nat /\ Len(mbox) > 0 /\ DOMAIN mbox = 1..Len(mbox)
        /\ Head(mbox) = mbox[1] /\ mbox' \in Seq(Messages)
        /\ Len(mbox') = Len(mbox) - 1 /\ DOMAIN mbox' = 1..(Len(mbox) - 1)
        /\ \A i \in 1..(Len(mbox) - 1) : mbox'[i] = mbox[i + 1]
    OBVIOUS
  <1>2. \A i \in DOMAIN mbox' : i + 1 \in DOMAIN mbox /\ mbox'[i] = mbox[i + 1]
    BY <1>1
  <1>3. Box' \subseteq Box /\ Head(mbox) \in Box
    BY <1>1, <1>2 DEF Box
  <1>4. Box \ {Head(mbox)} \subseteq Box'
    <2>1. ASSUME NEW i \in DOMAIN mbox, mbox[i] # Head(mbox)
          PROVE  i - 1 \in DOMAIN mbox' /\ mbox'[i - 1] = mbox[i]
      BY <1>1, <2>1
    <2>. QED
      BY <2>1, Zenon DEF Box
  <1>5. CallsAreUnique'
    <2>1. ASSUME NEW i \in DOMAIN mbox', NEW j \in DOMAIN mbox',
                 mbox'[i].id = mbox'[j].id /\ mbox'[i].call = mbox'[j].call
          PROVE  i = j \/ mbox'[i].call \in VtCalls
      <3>1. i + 1 = j + 1 \/ mbox[i + 1].call \in VtCalls
        BY <1>2, <2>1, Zenon DEF CallsAreUnique
      <3>. QED
        BY <1>1, <1>2, <3>1
    <2>. QED
      BY <2>1, Zenon DEF CallsAreUnique
  <1>6. ASSUME Head(mbox).call \notin VtCalls, NEW m \in Box',
               m.id = Head(mbox).id, m.call = Head(mbox).call
        PROVE  FALSE
    <2>1. PICK i \in DOMAIN mbox' : m = mbox'[i]
      BY <1>6, Zenon DEF Box
    <2>2. 1 \in DOMAIN mbox /\ i + 1 \in DOMAIN mbox /\ mbox[i + 1] = m
      BY <1>1, <1>2, <2>1
    <2>3. i + 1 = 1 \/ mbox[i + 1].call \in VtCalls
      BY <1>1, <1>6, <2>2, Zenon DEF CallsAreUnique
    <2>. QED
      BY <1>1, <1>6, <2>1, <2>2, <2>3
  <1>. QED
    BY <1>1, <1>3, <1>4, <1>5, <1>6, Zenon

\* A message is sent.
LEMMA Sent ==
    ASSUME mbox \in Seq(Messages), CallsAreUnique, NEW m \in Messages, mbox' = Append(mbox, m),
           InBox(m.id, m.call) => m.call \in VtCalls
    PROVE  mbox' \in Seq(Messages) /\ CallsAreUnique' /\ Box' = Box \cup {m}
  <1>1. /\ Len(mbox) \in Nat /\ DOMAIN mbox = 1..Len(mbox) /\ mbox' \in Seq(Messages)
        /\ Len(mbox') = Len(mbox) + 1 /\ DOMAIN mbox' = 1..(Len(mbox) + 1)
        /\ mbox'[Len(mbox) + 1] = m
        /\ \A i \in 1..Len(mbox) : mbox'[i] = mbox[i]
    OBVIOUS
  <1>2. \A i \in DOMAIN mbox' : \/ i \in DOMAIN mbox /\ mbox'[i] = mbox[i]
                                \/ i = Len(mbox) + 1 /\ mbox'[i] = m
    BY <1>1
  <1>3. Box' = Box \cup {m}
    <2>1. Box' \subseteq Box \cup {m}
      BY <1>2, Zenon DEF Box
    <2>2. \A i \in DOMAIN mbox : i \in DOMAIN mbox' /\ mbox'[i] = mbox[i]
      BY <1>1
    <2>3. Len(mbox) + 1 \in DOMAIN mbox'
      BY <1>1
    <2>. QED
      BY <1>1, <2>1, <2>2, <2>3, Zenon DEF Box
  <1>4. CallsAreUnique'
    <2>1. ASSUME NEW i \in DOMAIN mbox', NEW j \in DOMAIN mbox', i # j,
                 mbox'[i].id = mbox'[j].id /\ mbox'[i].call = mbox'[j].call
          PROVE  mbox'[i].call \in VtCalls
      <3>1. CASE i \in DOMAIN mbox /\ j \in DOMAIN mbox
        BY <1>2, <1>1, <2>1, <3>1, Zenon DEF CallsAreUnique
      <3>2. CASE i \in DOMAIN mbox /\ mbox'[i] = mbox[i] /\ mbox'[j] = m
        <4>1. InBox(m.id, m.call)
          BY <2>1, <3>2, Zenon DEF InBox, Box
        <4>. QED
          BY <2>1, <3>2, <4>1, Zenon
      <3>3. CASE j \in DOMAIN mbox /\ mbox'[j] = mbox[j] /\ mbox'[i] = m
        <4>1. InBox(m.id, m.call)
          BY <2>1, <3>3, Zenon DEF InBox, Box
        <4>. QED
          BY <2>1, <3>3, <4>1, Zenon
      <3>. QED
        BY <1>2, <2>1, <3>1, <3>2, <3>3, Zenon
    <2>. QED
      BY <2>1, Zenon DEF CallsAreUnique
  <1>. QED
    BY <1>1, <1>3, <1>4, Zenon

\* The queue holds messages.
LEMMA BoxTypes ==
    ASSUME IInv
    PROVE  Box \subseteq Messages
  <1>1. mbox \in Seq(Messages)
    BY Zenon DEF IInv, TypeOK
  <1>2. \A i \in DOMAIN mbox : mbox[i] \in Messages
    BY <1>1
  <1>. QED
    BY <1>2, Zenon DEF Box

\* What a worker wrote and the launcher read.
LEMMA Outputs ==
    ASSUME NEW s \in Seq(Responses), NEW x \in Responses, NEW y
    PROVE  /\ Append(s, x) \in Seq(Responses)
           /\ Has(Append(s, x), y) <=> Has(s, y) \/ y = x
           /\ s # <<>> => /\ Tail(s) \in Seq(Responses)
                          /\ Has(s, Head(s))
                          /\ Has(Tail(s), y) => Has(s, y)
           /\ ~Has(<<>>, y)
  <1>1. /\ Append(s, x) \in Seq(Responses)
        /\ Len(s) \in Nat /\ DOMAIN s = 1..Len(s)
        /\ DOMAIN Append(s, x) = 1..(Len(s) + 1)
        /\ Append(s, x)[Len(s) + 1] = x
        /\ \A i \in 1..Len(s) : Append(s, x)[i] = s[i]
    OBVIOUS
  <1>2. Has(Append(s, x), y) <=> Has(s, y) \/ y = x
    <2>1. \A i \in 1..(Len(s) + 1) : i \in 1..Len(s) \/ i = Len(s) + 1
      BY <1>1
    <2>2. Len(s) + 1 \in 1..(Len(s) + 1) /\ \A i \in 1..Len(s) : i \in 1..(Len(s) + 1)
      BY <1>1
    <2>. QED
      BY <1>1, <2>1, <2>2, Zenon DEF Has
  <1>3. ASSUME s # <<>>
        PROVE  Tail(s) \in Seq(Responses) /\ Has(s, Head(s)) /\ (Has(Tail(s), y) => Has(s, y))
    <2>1. /\ Tail(s) \in Seq(Responses) /\ Len(s) > 0 /\ Head(s) = s[1]
          /\ DOMAIN Tail(s) = 1..(Len(s) - 1)
          /\ \A i \in 1..(Len(s) - 1) : Tail(s)[i] = s[i + 1]
      BY <1>3
    <2>2. \A i \in DOMAIN Tail(s) : i + 1 \in DOMAIN s /\ Tail(s)[i] = s[i + 1]
      BY <1>1, <2>1
    <2>3. 1 \in DOMAIN s
      BY <1>1, <2>1
    <2>. QED
      BY <2>1, <2>2, <2>3, Zenon DEF Has
  <1>4. ~Has(<<>>, y)
    BY DEF Has
  <1>. QED
    BY <1>1, <1>2, <1>3, <1>4, Zenon

-----------------------------------------------------------------------------
(* What a step leaves alone.                                               *)

\* The calls of a login that are queued.
SameCalls(id) == \A m : m.id = id /\ m.call \notin VtCalls => (m \in Box' <=> m \in Box)

\* The seat is none of this login's business, before the step and after it.
Elsewhere(id) == adm' = adm \/ (Owner # id /\ Owner' # id)

\* Nothing of a login changes.
Untouched(id) ==
    /\ pend'[id] = pend[id] /\ kids'[id] = kids[id] /\ rec'[id] = rec[id]
    /\ lch'[id] = lch[id] /\ wrk'[id] = wrk[id] /\ scope'[id] = scope[id]
    /\ SameCalls(id) /\ Elsewhere(id)

\* The kinds of calls.
LEMMA Kinds ==
    /\ LeaseCalls \cap VtCalls = {} /\ EntryCalls \cap VtCalls = {} /\ LeaseCalls \cap EntryCalls = {}
    /\ "ReserveSeat" \notin VtCalls \cup LeaseCalls \cup EntryCalls
    /\ {"CancelAdmission", "BeginPending", "Register", "AbortPending"} \subseteq LeaseCalls
    /\ {"RecordPreparedScope", "MarkPayloadRegistered", "BeginRelease", "CompleteRelease"}
           \subseteq EntryCalls
  BY Zenon DEF LeaseCalls, VtCalls, EntryCalls

\* The queue as a login sees it.
LEMMA SameBox ==
    ASSUME NEW id \in LifecycleIds, SameCalls(id)
    PROVE  /\ \A c : c \notin VtCalls => (InBox(id, c)' <=> InBox(id, c))
           /\ lch'[id].lease = lch[id].lease => (NoLease(id)' <=> NoLease(id))
  <1>1. \A c : c \notin VtCalls => (InBox(id, c)' <=> InBox(id, c))
    BY Zenon DEF SameCalls, InBox
  <1>. QED
    BY <1>1, Kinds, Zenon DEF NoLease

\* A seat that a login owns is its lifecycle's or its phase's.
LEMMA OwnerIs ==
    ASSUME AdmissionExclusive, NEW id \in LifecycleIds
    PROVE  /\ adm.lifecycle.id = id => Owner = id
           /\ Owner = id => \/ adm.phase.tag # "Free" /\ adm.phase.id = id
                            \/ adm.phase.tag = "Free" /\ adm.lifecycle.id = id
  BY NoIdAssumption DEF AdmissionExclusive, Owner, FreeSeat

\* A login that a step leaves alone keeps its invariant.
LEMMA UntouchedKeeps ==
    ASSUME NEW id \in LifecycleIds, LoginInv(id), AdmissionExclusive, AdmissionExclusive',
           Untouched(id), faults' = 0 => faults = 0
    PROVE  LoginInv(id)'
  <1>0. /\ pend'[id] = pend[id] /\ kids'[id] = kids[id] /\ rec'[id] = rec[id]
        /\ lch'[id] = lch[id] /\ wrk'[id] = wrk[id] /\ scope'[id] = scope[id]
        /\ \A c : c \notin VtCalls => (InBox(id, c)' <=> InBox(id, c))
        /\ NoLease(id)' <=> NoLease(id)
    BY SameBox, Zenon DEF Untouched
  <1>1. /\ (Owner = id)' <=> Owner = id
        /\ Owner = id => adm' = adm
    BY Zenon DEF Untouched, Elsewhere, Owner
  <1>2. LastCall(lch[id])' /\ QueuedCalls(id)'
    BY <1>0, Kinds DEF LoginInv, QueuedCalls, LastCall, GaveUp
  <1>3. Leases(id)'
    <2>1. ASSUME NEW t, LeaseOf(id, t)
          PROVE  LeaseOf(id, t)'
      BY <1>1, <2>1, Zenon DEF LeaseOf
    <2>2. \A m \in Box' : m.id = id /\ m.call \in LeaseCalls => m \in Box
      BY Kinds, Zenon DEF Untouched, SameCalls
    <2>. QED
      BY <1>0, <2>1, <2>2, Zenon DEF LoginInv, Leases, HoldsLease
  <1>4. EntryFollows(id)'
    BY <1>0, Kinds, Zenon
    DEF LoginInv, EntryFollows, Returned, Waiting, Registrable, HasRecord
  <1>5. WorkerReports(id)'
    BY <1>0, Zenon DEF LoginInv, WorkerReports, HasRecord
  <1>6. EntryHasSeat(id)'
    BY <1>0, <1>1, Zenon DEF LoginInv, EntryHasSeat, HasRecord
  <1>7. ChildHasSeat(id)'
    <2>1. ASSUME Supervised(id)'
          PROVE  Supervised(id) /\ adm' = adm
      BY <1>0, <1>1, <2>1, OwnerIs DEF Supervised, LoginInv, ChildHasSeat, SeatIs
    <2>. QED
      BY <1>0, <2>1, Zenon DEF LoginInv, ChildHasSeat, HasRecord
  <1>8. RecordHasSeat(id)'
    <2>1. adm.lifecycle.id = id => adm' = adm
      BY <1>1, OwnerIs, Zenon
    <2>. QED
      BY <1>0, <1>1, <2>1, Zenon
      DEF LoginInv, RecordHasSeat, HasRecord, Alive, Supervised
  <1>9. NoFaultYet(id)'
    BY <1>0, <1>1, Kinds, Zenon DEF LoginInv, NoFaultYet, Waiting
  <1>. QED
    BY <1>2, <1>3, <1>4, <1>5, <1>6, <1>7, <1>8, <1>9, Zenon DEF LoginInv

\* A step of one login keeps the invariant of all when it keeps its own.
LEMMA OneLogin ==
    ASSUME IInv, NEW L \in LifecycleIds, \A id \in LifecycleIds \ {L} : Untouched(id),
           faults' = 0 => faults = 0, TypeOK', AdmissionExclusive', CallsAreUnique', LoginInv(L)'
    PROVE  IInv'
  BY UntouchedKeeps, Zenon DEF IInv

-----------------------------------------------------------------------------
(* The workers.                                                            *)

\* A fault is counted.
LEMMA Counted ==
    ASSUME TypeOK, Spend(1)
    PROVE  faults' \in 0 .. MaxFaults /\ faults' # 0
  BY MaxFaultsAssumption DEF TypeOK, Spend

\* A step of the worker of login L: it writes w, leaves z in the scope, and
\* sends at most a terminal report.
WorkerWrites(L, w, z) ==
    /\ wrk' = [wrk EXCEPT ![L] = w] /\ scope' = [scope EXCEPT ![L] = z]
    /\ UNCHANGED WorkerUnchanged
    /\ \/ mbox' = mbox
       \/ \E c \in VtCalls, b \in BOOLEAN : mbox' = Append(mbox, Msg(c, L, NoId, b, 0))
    /\ faults' = faults \/ Spend(1)

\* What such a step must respect.
WorkerMay(L, w, z) ==
    /\ w.pc = "acked" \/ z = "user" => wrk[L].pc = "acked" \/ scope[L] = "user"
    /\ Alive(L) \/ (w = wrk[L] /\ (scope[L] \in {"none", "empty"} => z = scope[L]))
    /\ w.pc = wrk[L].pc \/ w.pc \notin {"none", "preparing"}

\* A worker's own step leaves the types, the other logins and the calls queued
\* for the supervisor as they were (worker/session.rs).
LEMMA WorkerWritesTypes ==
    ASSUME IInv, NEW L \in LifecycleIds, NEW w \in Workers, NEW z \in ScopeStates,
           WorkerWrites(L, w, z)
    PROVE  /\ TypeOK' /\ AdmissionExclusive' /\ CallsAreUnique' /\ (faults' = 0 => faults = 0)
           /\ \A id \in LifecycleIds : SameCalls(id)
           /\ \A id \in LifecycleIds \ {L} : Untouched(id)
           /\ wrk'[L] = w /\ scope'[L] = z
  <1>0. TypeOK /\ UNCHANGED <<adm, pend, kids, rec, loop, lch>>
    BY Zenon DEF IInv, WorkerWrites, WorkerUnchanged
  <1>1. faults' \in 0 .. MaxFaults /\ (faults' = 0 => faults = 0)
    BY <1>0, Counted, Zenon DEF WorkerWrites, TypeOK
  <1>2. /\ mbox' \in Seq(Messages) /\ CallsAreUnique'
        /\ \A id \in LifecycleIds : SameCalls(id)
    <2>1. CASE mbox' = mbox
      BY <1>0, <2>1, Zenon DEF TypeOK, IInv, CallsAreUnique, SameCalls, Box
    <2>2. ASSUME NEW c \in VtCalls, NEW b \in BOOLEAN, mbox' = Append(mbox, Msg(c, L, NoId, b, 0))
          PROVE  /\ mbox' \in Seq(Messages) /\ CallsAreUnique'
                 /\ \A id \in LifecycleIds : SameCalls(id)
      <3>1. Msg(c, L, NoId, b, 0) \in Messages /\ Msg(c, L, NoId, b, 0).call = c
        BY Zenon DEF Msg, Messages, Calls, VtCalls
      <3>2. mbox' \in Seq(Messages) /\ CallsAreUnique' /\ Box' = Box \cup {Msg(c, L, NoId, b, 0)}
        BY <1>0, <2>2, <3>1, Sent, Zenon DEF TypeOK, IInv
      <3>. QED
        BY <3>1, <3>2, Zenon DEF SameCalls
    <2>. QED
      BY <2>1, <2>2, Zenon DEF WorkerWrites
  <1>3. wrk' \in [LifecycleIds -> Workers] /\ scope' \in [LifecycleIds -> ScopeStates]
    BY <1>0, Zenon DEF TypeOK, WorkerWrites
  <1>4. /\ wrk'[L] = w /\ scope'[L] = z
        /\ \A id \in LifecycleIds \ {L} : wrk'[id] = wrk[id] /\ scope'[id] = scope[id]
    BY <1>0, Zenon DEF TypeOK, WorkerWrites
  <1>5. TypeOK'
    BY <1>0, <1>1, <1>2, <1>3, Zenon DEF TypeOK
  <1>6. AdmissionExclusive'
    BY <1>0, Zenon DEF IInv, AdmissionExclusive
  <1>7. \A id \in LifecycleIds \ {L} : Untouched(id)
    BY <1>0, <1>2, <1>4, Zenon DEF Untouched, Elsewhere
  <1>. QED
    BY <1>1, <1>2, <1>4, <1>5, <1>6, <1>7, Zenon

\* A worker's own step that respects WorkerMay keeps the inductive invariant.
LEMMA WorkerWritesKeeps ==
    ASSUME IInv, NEW L \in LifecycleIds, NEW w \in Workers, NEW z \in ScopeStates,
           WorkerWrites(L, w, z), WorkerMay(L, w, z), WorkerReports(L)',
           faults' = 0 /\ lch[L].pc = "registering" => w.pc \in {"running", "wantIntent"}
    PROVE  IInv'
  <1>0. /\ UNCHANGED <<adm, pend, kids, rec, loop, lch>> /\ LoginInv(L)
        /\ wrk'[L] = w /\ scope'[L] = z /\ (faults' = 0 => faults = 0)
    BY WorkerWritesTypes, Zenon DEF IInv, WorkerWrites, WorkerUnchanged
  <1>1. /\ \A c : c \notin VtCalls => (InBox(L, c)' <=> InBox(L, c))
        /\ NoLease(L)' <=> NoLease(L)
        /\ (Owner = L)' <=> Owner = L
    BY <1>0, WorkerWritesTypes, SameBox, Zenon DEF Owner
  <1>2. LastCall(lch[L])' /\ QueuedCalls(L)'
    BY <1>0, <1>1, Kinds, Zenon DEF LoginInv, QueuedCalls, LastCall, GaveUp
  <1>3. Leases(L)'
    <2>1. ASSUME NEW t, LeaseOf(L, t)
          PROVE  LeaseOf(L, t)'
      BY <1>0, <1>1, <2>1, Zenon DEF LeaseOf
    <2>2. \A m \in Box' : m.id = L /\ m.call \in LeaseCalls => m \in Box
      BY Kinds, WorkerWritesTypes, Zenon DEF SameCalls
    <2>. QED
      BY <1>0, <2>1, <2>2, Zenon DEF LoginInv, Leases, HoldsLease
  <1>4. EntryFollows(L)'
    BY <1>0, <1>1, Kinds, Zenon
    DEF LoginInv, EntryFollows, Returned, Waiting, Registrable, HasRecord
  <1>5. EntryHasSeat(L)' /\ ChildHasSeat(L)'
    BY <1>0, <1>1, Zenon
    DEF LoginInv, EntryHasSeat, ChildHasSeat, HasRecord, Supervised
  <1>6. RecordHasSeat(L)'
    BY <1>0, <1>1, Zenon
    DEF LoginInv, RecordHasSeat, HasRecord, Alive, Supervised, WorkerMay
  <1>7. NoFaultYet(L)'
    BY <1>0, <1>1, Kinds, Zenon DEF LoginInv, NoFaultYet, Waiting
  <1>8. LoginInv(L)'
    BY <1>2, <1>3, <1>4, <1>5, <1>6, <1>7, Zenon DEF LoginInv
  <1>. QED
    BY <1>8, WorkerWritesTypes, OneLogin, Zenon

\* A live worker that moves to pc and has written out so far.
WorkerGoes(L, pc, out, z) ==
    /\ WorkerWrites(L, [wrk[L] EXCEPT !.pc = pc, !.out = out], z) /\ Alive(L)
    /\ pc \notin {"none", "preparing", "acked"} /\ pc \in WorkerPcs /\ out \in Seq(Responses)
    /\ z = "user" => wrk[L].pc = "acked" \/ scope[L] = "user"
    /\ Has(out, "ReleaseReady") \/ lch[L].call \in {"BeginRelease", "CompleteRelease"} =>
           pc \in ReleasePcs /\ ~Has(out, "Started")
    /\ Has(out, "Started") \/ lch[L].pc = "registering" => pc \in StartedPcs
    /\ pc \in StartedPcs \ {"running", "wantIntent", "exitBad"} => wrk[L].reader
    /\ faults' = 0 /\ lch[L].pc = "registering" => pc \in {"running", "wantIntent"}

\* A worker that moves on, with what it reports on its pipe in the order of the
\* handshake, keeps the inductive invariant.
LEMMA WorkerGoesKeeps ==
    ASSUME IInv, NEW L \in LifecycleIds, NEW pc, NEW out, NEW z \in ScopeStates,
           WorkerGoes(L, pc, out, z)
    PROVE  IInv'
  <1>. DEFINE w == [wrk[L] EXCEPT !.pc = pc, !.out = out]
  <1>1. wrk[L] \in Workers
    BY Zenon DEF IInv, TypeOK
  <1>2. w \in Workers /\ w.pc = pc /\ w.out = out /\ w.reader = wrk[L].reader
    BY <1>1, Zenon DEF Workers, WorkerGoes
  <1>3. wrk'[L] = w /\ scope'[L] = z /\ lch' = lch /\ rec' = rec /\ pend' = pend
    BY <1>2, WorkerWritesTypes, ZenonT(60)
    DEF WorkerGoes, WorkerWrites, WorkerUnchanged
  <1>4. wrk[L].pc # "none" /\ pc # "none" /\ WorkerReports(L)
    BY Zenon DEF WorkerGoes, Alive, DeadPcs, IInv, LoginInv
  <1>5. WorkerReports(L)'
    BY <1>2, <1>3, <1>4, Zenon DEF WorkerReports, WorkerGoes
  <1>6. WorkerMay(L, w, z)
    BY <1>2, Zenon DEF WorkerMay, WorkerGoes
  <1>. HIDE DEF w
  <1>. QED
    BY <1>2, <1>5, <1>6, WorkerWritesKeeps, Zenon DEF WorkerGoes, w

\* What the pc of a live worker says of its login.
LEMMA WorkerIs ==
    ASSUME IInv, NEW L \in LifecycleIds
    PROVE  /\ wrk[L].pc \notin ReleasePcs =>
                  ~Has(wrk[L].out, "ReleaseReady") /\ lch[L].call \notin {"BeginRelease", "CompleteRelease"}
           /\ wrk[L].pc \notin StartedPcs => ~Has(wrk[L].out, "Started") /\ lch[L].pc # "registering"
           /\ wrk[L].reader => lch[L].pc # "registering"
           /\ wrk[L].out \in Seq(Responses) /\ wrk[L] \in Workers /\ scope[L] \in ScopeStates
           /\ wrk = [wrk EXCEPT ![L] = wrk[L]] /\ scope = [scope EXCEPT ![L] = scope[L]]
  <1>1. wrk[L] \in Workers /\ scope[L] \in ScopeStates
    BY Zenon DEF IInv, TypeOK
  <1>2. wrk[L].reader => lch[L].pc # "registering"
    BY Zenon DEF IInv, LoginInv, WorkerReports, LastCall
  <1>3. wrk = [wrk EXCEPT ![L] = wrk[L]] /\ scope = [scope EXCEPT ![L] = scope[L]]
    BY Zenon DEF IInv, TypeOK
  <1>4. /\ wrk[L].pc \notin ReleasePcs =>
              ~Has(wrk[L].out, "ReleaseReady") /\ lch[L].call \notin {"BeginRelease", "CompleteRelease"}
        /\ wrk[L].pc \notin StartedPcs => ~Has(wrk[L].out, "Started") /\ lch[L].pc # "registering"
    BY Zenon DEF IInv, LoginInv, WorkerReports
  <1>. QED
    BY <1>1, <1>2, <1>3, <1>4, Zenon DEF Workers

\* A worker that writes a response.
LEMMA EmitsKeeps ==
    ASSUME IInv, NEW L \in LifecycleIds, NEW pc \in WorkerPcs, NEW r \in Responses,
           NEW z \in ScopeStates, Emits(L, pc, r), scope' = [scope EXCEPT ![L] = z],
           mbox' = mbox, UNCHANGED WorkerUnchanged, faults' = faults \/ Spend(1),
           Alive(L), pc \notin {"none", "preparing", "acked"},
           z = "user" => wrk[L].pc = "acked" \/ scope[L] = "user",
           r = "ReleaseReady" \/ wrk[L].pc \in ReleasePcs => pc \in ReleasePcs,
           r = "Started" => pc \in StartedPcs, pc \notin StartedPcs \ {"running", "exitBad"},
           wrk[L].pc \notin StartedPcs, r = "Started" => wrk[L].pc \notin ReleasePcs
    PROVE  IInv'
  <1>. DEFINE out == Append(wrk[L].out, r)
  <1>1. wrk' = [wrk EXCEPT ![L] = [wrk[L] EXCEPT !.pc = pc, !.out = out]]
    BY WorkerIs, Zenon DEF Emits
  <1>2. /\ out \in Seq(Responses)
        /\ \A x : Has(out, x) <=> Has(wrk[L].out, x) \/ x = r
    BY WorkerIs, Outputs
  <1>3. WorkerGoes(L, pc, out, z)
    <2>1. WorkerWrites(L, [wrk[L] EXCEPT !.pc = pc, !.out = out], z)
      BY <1>1, Zenon DEF WorkerWrites
    <2>. HIDE DEF out
    <2>. QED
      BY <2>1, <1>2, WorkerIs, Zenon DEF WorkerGoes
  <1>. QED
    BY <1>3, WorkerGoesKeeps, Zenon

\* A worker that writes nothing.
LEMMA MovesKeeps ==
    ASSUME IInv, NEW L \in LifecycleIds, NEW pc \in WorkerPcs, NEW z \in ScopeStates,
           wrk' = [wrk EXCEPT ![L].pc = pc], scope' = [scope EXCEPT ![L] = z],
           \/ mbox' = mbox
           \/ \E c \in VtCalls, b \in BOOLEAN : mbox' = Append(mbox, Msg(c, L, NoId, b, 0)),
           UNCHANGED WorkerUnchanged, faults' = faults \/ Spend(1),
           Alive(L), pc \notin {"none", "preparing", "acked"},
           z = "user" => wrk[L].pc = "acked" \/ scope[L] = "user",
           wrk[L].pc \in ReleasePcs => pc \in ReleasePcs,
           wrk[L].pc \in StartedPcs => pc \in StartedPcs,
           pc \in StartedPcs \ {"running", "wantIntent", "exitBad"} => wrk[L].reader,
           pc = "exitBad" /\ lch[L].pc = "registering" => Spend(1)
    PROVE  IInv'
  <1>. DEFINE out == wrk[L].out
  <1>1. wrk' = [wrk EXCEPT ![L] = [wrk[L] EXCEPT !.pc = pc, !.out = out]]
    BY WorkerIs, Zenon DEF Workers
  <1>2. faults' = 0 /\ lch[L].pc = "registering" => pc \in {"running", "wantIntent"}
    <2>1. Spend(1) => faults' # 0
      BY Counted, Zenon DEF IInv
    <2>2. lch[L].pc = "registering" => pc \in StartedPcs /\ ~wrk[L].reader
      BY WorkerIs, Zenon
    <2>. QED
      BY <2>1, <2>2, Zenon
  <1>3. WorkerWrites(L, [wrk[L] EXCEPT !.pc = pc, !.out = out], z)
    BY <1>1, Zenon DEF WorkerWrites
  <1>4. WorkerReports(L) /\ out \in Seq(Responses)
    BY WorkerIs, Zenon DEF IInv, LoginInv
  <1>5. WorkerGoes(L, pc, out, z)
    BY <1>2, <1>3, <1>4, WorkerIs, Zenon DEF WorkerGoes, WorkerReports
  <1>. QED
    BY <1>5, WorkerGoesKeeps, Zenon

\* The worker's steps that write a response.
LEMMA EmittingSteps ==
    ASSUME IInv, NEW L \in LifecycleIds,
           \/ AskPrompt(L) \/ RespondEarly(L) \/ PrepareScope(L) \/ ReportStarted(L)
           \/ RequestRelease(L) \/ RespondFailed(L)
    PROVE  IInv'
  <1>0. /\ {"PamPrompt", "Response", "ScopePrepared", "Started", "ReleaseReady"} \subseteq Responses
        /\ {"asking", "exitBad", "scopeSent", "running", "releasing", "releasingAnyway"}
               \subseteq WorkerPcs
        /\ {"held", "empty"} \subseteq ScopeStates
    BY Zenon DEF Responses, WorkerPcs, DeadPcs, ScopeStates
  <1>. USE WorkerIs, EmitsKeeps
  <1>1. CASE RespondEarly(L)
    BY <1>0, <1>1, Zenon DEF RespondEarly, Alive, DeadPcs, ReleasePcs, StartedPcs
  <1>2. CASE PrepareScope(L)
    BY <1>0, <1>2, Zenon DEF PrepareScope, Alive, DeadPcs, ReleasePcs, StartedPcs
  <1>3. CASE ReportStarted(L)
    BY <1>0, <1>3, Zenon DEF ReportStarted, Alive, DeadPcs, ReleasePcs, StartedPcs
  <1>4. CASE RequestRelease(L)
    <2>1. PICK pc \in {"releasing", "releasingAnyway"} :
             /\ wrk[L].pc \in {"scopeSent", "acked", "executed"}
             /\ faults' = faults \/ Spend(1)
             /\ Emits(L, pc, "ReleaseReady")
      BY <1>4, Zenon DEF RequestRelease
    <2>2. PICK z \in {"empty", scope[L]} : scope' = [scope EXCEPT ![L] = z]
      BY <1>4, Zenon DEF RequestRelease
    <2>3. Alive(L) /\ z \in ScopeStates /\ mbox' = mbox /\ UNCHANGED WorkerUnchanged
      BY <1>0, <1>4, <2>1, <2>2, Zenon DEF Alive, DeadPcs, RequestRelease
    <2>4. pc \in WorkerPcs /\ pc \in ReleasePcs /\ pc \notin StartedPcs
          /\ wrk[L].pc \notin StartedPcs
      BY <1>0, <2>1, Zenon DEF ReleasePcs, StartedPcs
    <2>. QED
      BY <1>0, <2>1, <2>2, <2>3, <2>4, Zenon
  <1>5. CASE RespondFailed(L)
    BY <1>0, <1>5, Zenon DEF RespondFailed, Alive, DeadPcs, ReleasePcs, StartedPcs
  <1>6. CASE AskPrompt(L)
    <2>1. /\ wrk[L].pc = "preparing" /\ Alive(L) /\ wrk[L].pc \notin ReleasePcs \cup StartedPcs
          /\ "asking" \notin StartedPcs
      BY <1>6, Zenon DEF AskPrompt, Alive, DeadPcs, ReleasePcs, StartedPcs
    <2>2. Emits(L, "asking", "PamPrompt") /\ mbox' = mbox /\ faults' = faults /\ UNCHANGED WorkerUnchanged
      BY <1>6, Zenon DEF AskPrompt
    <2>3. scope' = [scope EXCEPT ![L] = scope[L]]
      BY <1>6, Zenon DEF AskPrompt
    <2>. QED
      BY <1>0, <2>1, <2>2, <2>3, Zenon
  <1>. QED
    BY <1>1, <1>2, <1>3, <1>4, <1>5, <1>6, Zenon

\* The worker's other steps while it is alive.
LEMMA MovingSteps ==
    ASSUME IInv, NEW L \in LifecycleIds,
           \/ CommitExec(L) \/ ReleaseTimeout(L) \/ EndSession(L) \/ SendVtIntent(L)
           \/ ReleaseVt(L) \/ CloseSession(L) \/ VtReportTimeout(L) \/ VtReportRefused(L)
           \/ Crash(L)
    PROVE  IInv'
  <1>0. /\ {"executed", "stuck", "responding", "wantIntent", "vtIntent", "vtResult",
             "exitBad", "exitOk"} \subseteq WorkerPcs
        /\ {"user", "empty"} \subseteq ScopeStates
    BY Zenon DEF WorkerPcs, DeadPcs, ScopeStates
  <1>r. wrk[L].pc \in {"vtIntent", "vtRelease", "vtResult", "closing"} => wrk[L].reader
    BY Zenon DEF IInv, LoginInv, WorkerReports, StartedPcs
  <1>. USE WorkerIs, MovesKeeps
  <1>1. CASE CommitExec(L)
    <2>1. PICK z \in {"user", scope[L]} :
             scope' = [scope EXCEPT ![L] = z] /\ (z = "user" => wrk[L].pc = "acked")
      BY <1>1, Zenon DEF CommitExec
    <2>2. z \in ScopeStates
      BY <1>0, <2>1, Zenon
    <2>3. /\ wrk[L].pc = "acked" /\ wrk[L].pc \notin ReleasePcs \cup StartedPcs
          /\ "executed" \notin StartedPcs /\ Alive(L)
      BY <1>1, Zenon DEF CommitExec, Alive, DeadPcs, ReleasePcs, StartedPcs
    <2>4. /\ wrk' = [wrk EXCEPT ![L].pc = "executed"] /\ mbox' = mbox /\ faults' = faults
          /\ UNCHANGED WorkerUnchanged
      BY <1>1, Zenon DEF CommitExec
    <2>. QED
      BY <1>0, <2>1, <2>2, <2>3, <2>4, Zenon
  <1>2. CASE ReleaseTimeout(L)
    <2>1. PICK pc \in {"stuck", "responding"} : wrk' = [wrk EXCEPT ![L].pc = pc]
      BY <1>2, Zenon DEF ReleaseTimeout
    <2>2. pc \in WorkerPcs
      BY <1>0, <2>1, Zenon
    <2>3. /\ wrk[L].pc \notin StartedPcs /\ pc \in ReleasePcs \ StartedPcs /\ Alive(L)
      BY <1>2, <2>1, Zenon DEF ReleaseTimeout, Alive, DeadPcs, ReleasePcs, StartedPcs
    <2>4. scope' = scope /\ mbox' = mbox /\ Spend(1) /\ UNCHANGED WorkerUnchanged
      BY <1>2, Zenon DEF ReleaseTimeout
    <2>. QED
      BY <2>1, <2>2, <2>3, <2>4, Zenon
  <1>3. CASE EndSession(L)
    BY <1>0, <1>3, Zenon DEF EndSession, Alive, DeadPcs, ReleasePcs, StartedPcs
  <1>4. CASE SendVtIntent(L)
    <2>1. /\ wrk[L].reader /\ Alive(L) /\ wrk[L].pc \notin ReleasePcs /\ scope' = scope
          /\ faults' = faults /\ UNCHANGED WorkerUnchanged
          /\ "vtIntent" \in StartedPcs /\ wrk' = [wrk EXCEPT ![L].pc = "vtIntent"]
      BY <1>4, Zenon DEF SendVtIntent, Alive, DeadPcs, ReleasePcs, StartedPcs
    <2>2. "TerminalVtIntent" \in VtCalls /\ FALSE \in BOOLEAN
          /\ mbox' = Append(mbox, Msg("TerminalVtIntent", L, NoId, FALSE, 0))
      BY <1>4, Zenon DEF SendVtIntent, VtCalls
    <2>. QED
      BY <1>0, <2>1, <2>2, ZenonT(60)
  <1>5. CASE ReleaseVt(L)
    <2>1. wrk[L].reader /\ Alive(L) /\ wrk[L].pc \notin ReleasePcs /\ scope' = scope
          /\ faults' = faults /\ UNCHANGED WorkerUnchanged
      BY <1>5, <1>r, Zenon DEF ReleaseVt, Alive, DeadPcs, ReleasePcs
    <2>2. CASE wrk' = [wrk EXCEPT ![L].pc = "exitBad"] /\ UNCHANGED mbox
      BY <1>0, <2>1, <2>2, ZenonT(60) DEF StartedPcs
    <2>3. ASSUME NEW busy \in BOOLEAN,
                 mbox' = Append(mbox, Msg("TerminalVtResult", L, NoId, busy, 0)),
                 wrk' = [wrk EXCEPT ![L].pc = "vtResult"]
          PROVE  IInv'
      BY <1>0, <2>1, <2>3, Zenon DEF StartedPcs, VtCalls
    <2>. QED
      BY <1>5, <2>2, <2>3, Zenon DEF ReleaseVt
  <1>6. CASE CloseSession(L)
    <2>1. PICK pc \in {"exitOk", "exitBad"} : wrk' = [wrk EXCEPT ![L].pc = pc]
      BY <1>6, Zenon DEF CloseSession
    <2>2. pc \in WorkerPcs
      BY <1>0, <2>1, Zenon
    <2>. QED
      BY <1>0, <1>6, <1>r, <2>1, <2>2, ZenonT(60)
      DEF CloseSession, Alive, DeadPcs, ReleasePcs, StartedPcs
  <1>. DEFINE Dies == /\ wrk' = [wrk EXCEPT ![L].pc = "exitBad"] /\ mbox' = mbox
                      /\ scope' = scope /\ UNCHANGED WorkerUnchanged /\ Alive(L)
  <1>7. ASSUME Dies, Spend(1) \/ (faults' = faults /\ wrk[L].reader)
        PROVE  IInv'
    BY <1>0, <1>7, ZenonT(60) DEF ReleasePcs, StartedPcs
  <1>8. CASE VtReportTimeout(L)
    BY <1>7, <1>8, Zenon DEF VtReportTimeout, GiveUpReport, Alive, DeadPcs
  <1>9. CASE VtReportRefused(L)
    BY <1>7, <1>9, <1>r, Zenon DEF VtReportRefused, GiveUpReport, Alive, DeadPcs
  <1>10. CASE Crash(L)
    BY <1>7, <1>10, Zenon DEF Crash
  <1>. QED
    BY <1>1, <1>2, <1>3, <1>4, <1>5, <1>6, <1>8, <1>9, <1>10, Zenon

\* The processes in the scope end.
LEMMA DrainStep ==
    ASSUME IInv, NEW L \in LifecycleIds, ScopeDrains(L)
    PROVE  IInv'
  <1>1. "empty" \in ScopeStates
    BY Zenon DEF ScopeStates
  <1>2. WorkerWrites(L, wrk[L], "empty")
    BY WorkerIs, Zenon DEF ScopeDrains, WorkerWrites
  <1>3. WorkerMay(L, wrk[L], "empty")
    BY Zenon DEF WorkerMay, ScopeDrains, IInv, LoginInv, RecordHasSeat
  <1>4. wrk' = wrk /\ lch' = lch /\ rec' = rec /\ pend' = pend
    BY Zenon DEF ScopeDrains, WorkerUnchanged
  <1>5. WorkerReports(L)'
    BY <1>4, Zenon DEF IInv, LoginInv, WorkerReports, HasRecord, ScopeDrains
  <1>6. faults' = 0 /\ lch[L].pc = "registering" => wrk[L].pc \in {"running", "wantIntent"}
    BY Zenon DEF ScopeDrains, IInv, LoginInv, NoFaultYet
  <1>. QED
    BY <1>1, <1>2, <1>3, <1>5, <1>6, WorkerIs, WorkerWritesKeeps, Zenon

\* Every step of a worker keeps the invariant.
LEMMA WorkerStep ==
    ASSUME IInv, NEW L \in LifecycleIds, WorkerNext(L)
    PROVE  IInv'
  BY EmittingSteps, MovingSteps, DrainStep, Zenon DEF WorkerNext, WorkerSteps

-----------------------------------------------------------------------------
(* The launchers.                                                          *)

\* A step of the launcher of login L: it becomes l and leaves the worker w.
LauncherTakes(L, l, w) ==
    /\ lch' = [lch EXCEPT ![L] = l] /\ wrk' = [wrk EXCEPT ![L] = w]
    /\ UNCHANGED LauncherVars
    /\ faults' = faults \/ Spend(1)

\* WorkerReports for a worker w and a launcher l.
ReportsHold(w, l) ==
    /\ Has(w.out, "ReleaseReady") \/ l.call \in {"BeginRelease", "CompleteRelease"} =>
           w.pc \in ReleasePcs /\ ~Has(w.out, "Started")
    /\ Has(w.out, "Started") \/ l.pc = "registering" => w.pc \in StartedPcs
    /\ w.pc \in StartedPcs \ {"running", "wantIntent", "exitBad"} => w.reader
    /\ w.reader => l.call = "Register"
    /\ l.call = "ReserveSeat" <=> w.pc = "none"
    /\ w.pc = "none" => w.out = <<>>

\* What such a step must respect, whether it sends a message or not.
LauncherMay(L, l, w) ==
    /\ LastCall(l) /\ ReportsHold(w, l) /\ (w.pc = "none" => wrk[L].pc = "none")
    /\ w.reader => wrk[L].reader
    /\ l.lease # NoId <=> HoldsLease(l)
    /\ l.lease \in {NoId, lch[L].lease}
    /\ w.pc = "acked" => wrk[L].pc = "acked" \/ HasPayload(pend[L])
    /\ w.pc \in DeadPcs \/ Alive(L) \/ wrk[L].pc = "none"
    /\ lch[L].pc # "failed"
    /\ faults' = 0 => lch[L].pc # "calling"

\* The step leaves the other logins alone.
LEMMA LauncherTypes ==
    ASSUME IInv, NEW L \in LifecycleIds, NEW l \in Launchers, NEW w \in Workers,
           LauncherTakes(L, l, w), mbox' \in Seq(Messages), CallsAreUnique',
           \A id \in LifecycleIds \ {L} : SameCalls(id)
    PROVE  /\ TypeOK' /\ AdmissionExclusive' /\ (faults' = 0 => faults = 0)
           /\ \A id \in LifecycleIds \ {L} : Untouched(id)
           /\ wrk'[L] = w /\ lch'[L] = l
  <1>0. TypeOK /\ UNCHANGED <<adm, pend, kids, rec, loop, scope>>
    BY Zenon DEF IInv, LauncherTakes, LauncherVars
  <1>1. faults' \in 0 .. MaxFaults /\ (faults' = 0 => faults = 0)
    BY <1>0, Counted, Zenon DEF LauncherTakes, TypeOK
  <1>3. wrk' \in [LifecycleIds -> Workers] /\ lch' \in [LifecycleIds -> Launchers]
    BY <1>0, Zenon DEF TypeOK, LauncherTakes
  <1>4. /\ wrk'[L] = w /\ lch'[L] = l
        /\ \A id \in LifecycleIds \ {L} : wrk'[id] = wrk[id] /\ lch'[id] = lch[id]
    BY <1>0, Zenon DEF TypeOK, LauncherTakes
  <1>5. TypeOK'
    BY <1>0, <1>1, <1>3, Zenon DEF TypeOK
  <1>6. AdmissionExclusive'
    BY <1>0, Zenon DEF IInv, AdmissionExclusive
  <1>7. \A id \in LifecycleIds \ {L} : Untouched(id)
    BY <1>0, <1>4, Zenon DEF Untouched, Elsewhere
  <1>. QED
    BY <1>1, <1>4, <1>5, <1>6, <1>7, Zenon

\* What is the same for every step of a launcher.
LEMMA LauncherCommon ==
    ASSUME IInv, NEW L \in LifecycleIds, NEW l \in Launchers, NEW w \in Workers,
           LauncherTakes(L, l, w), LauncherMay(L, l, w), wrk'[L] = w, lch'[L] = l,
           NoLease(L) => NoLease(L)'
    PROVE  /\ LastCall(lch[L])' /\ WorkerReports(L)' /\ EntryHasSeat(L)' /\ ChildHasSeat(L)'
           /\ RecordHasSeat(L)'
           /\ (Owner = L)' <=> Owner = L
           /\ \A t : LeaseOf(L, t) => LeaseOf(L, t)'
  <1>0. UNCHANGED <<adm, pend, kids, rec, loop, scope>> /\ LoginInv(L)
    BY Zenon DEF IInv, LauncherTakes, LauncherVars
  <1>1. (Owner = L)' <=> Owner = L
    BY <1>0, Zenon DEF Owner
  <1>2. \A t : LeaseOf(L, t) => LeaseOf(L, t)'
    BY <1>0, <1>1, Zenon DEF LeaseOf
  <1>3. LastCall(lch[L])'
    BY Zenon DEF LauncherMay, LastCall
  <1>4. WorkerReports(L)'
    BY <1>0, Zenon DEF LauncherMay, ReportsHold, WorkerReports, LoginInv, HasRecord
  <1>5. EntryHasSeat(L)' /\ ChildHasSeat(L)'
    BY <1>0, <1>1, Zenon
    DEF LoginInv, EntryHasSeat, ChildHasSeat, HasRecord, Supervised
  <1>6. wrk[L].pc = "none" => ~HasRecord(L)
    BY <1>0, Zenon DEF LoginInv, WorkerReports
  <1>7. HasPayload(pend[L]) => Owner = L /\ HasRecord(L)
    BY <1>0, Zenon DEF LoginInv, EntryHasSeat, HasPayload
  <1>8. faults' = 0 => faults = 0
    BY Counted, Zenon DEF LauncherTakes, IInv
  <1>9. RecordHasSeat(L)'
    BY <1>0, <1>1, <1>6, <1>7, <1>8, Zenon
       DEF LoginInv, RecordHasSeat, HasRecord, Alive, Supervised, LauncherMay
  <1>. QED
    BY <1>1, <1>2, <1>3, <1>4, <1>5, <1>9, Zenon

\* What is queued when a launcher is not waiting.
LEMMA NothingQueued ==
    ASSUME IInv, NEW L \in LifecycleIds, lch[L].pc \notin {"calling", "failed"}
    PROVE  /\ ~InBox(L, "CancelAdmission")
           /\ faults = 0 \/ ~GaveUp(lch[L]) => \A c \in LeaseCalls \cup {"ReserveSeat"} : ~InBox(L, c)
           /\ lch[L].call # "AbortPending" /\ (faults = 0 \/ ~GaveUp(lch[L])) =>
                  \A c : c \notin VtCalls => ~InBox(L, c)
           /\ \A c : c \notin VtCalls /\ InBox(L, c) => c = lch[L].call \/ lch[L].call = "AbortPending"
  <1>1. \A c : InBox(L, c) /\ c \notin VtCalls => c \in LeaseCalls \cup EntryCalls \cup {"ReserveSeat"}
    <2>1. \A m \in Box : m.call \in Calls
      BY BoxTypes, Zenon DEF Messages
    <2>. QED
      BY <2>1, Zenon DEF InBox, Calls, LeaseCalls, EntryCalls, VtCalls
  <1>2. QueuedCalls(L) /\ NoFaultYet(L)
    BY Zenon DEF IInv, LoginInv
  <1>3. ~InBox(L, "CancelAdmission")
    BY <1>2, Zenon DEF QueuedCalls
  <1>4. ASSUME faults = 0
        PROVE  \A c : c \notin VtCalls => ~InBox(L, c)
    <2>1. \A c : ~Waiting(L, c)
      BY Zenon DEF Waiting
    <2>2. \A c \in {"ReserveSeat", "BeginPending", "Register", "AbortPending"} \cup EntryCalls :
              ~InBox(L, c)
      BY <1>2, <1>4, <2>1, Zenon DEF NoFaultYet
    <2>. QED
      BY <1>1, <1>3, <2>2, Zenon DEF LeaseCalls
  <1>5. ASSUME ~GaveUp(lch[L])
        PROVE  /\ \A c \in LeaseCalls \cup {"ReserveSeat"} : ~InBox(L, c)
               /\ lch[L].call # "AbortPending" => \A c : c \notin VtCalls => ~InBox(L, c)
    BY <1>1, <1>2, <1>3, <1>5 DEF QueuedCalls, LeaseCalls, EntryCalls
  <1>6. \A c : c \notin VtCalls /\ InBox(L, c) => c = lch[L].call \/ lch[L].call = "AbortPending"
    BY <1>1, <1>2, <1>3 DEF QueuedCalls, LeaseCalls, EntryCalls
  <1>. QED
    BY <1>3, <1>4, <1>5, <1>6, Kinds, Zenon

\* A step that sends nothing.
LEMMA QuietKeeps ==
    ASSUME IInv, NEW L \in LifecycleIds, NEW l \in Launchers, NEW w \in Workers,
           LauncherTakes(L, l, w), LauncherMay(L, l, w), mbox' = mbox,
           l.call = lch[L].call, GaveUp(lch[L]) => GaveUp(l),
           l.pc = "failed" => l.call \notin EntryCalls \/ ~GaveUp(lch[L]),
           l.pc # "calling", l.pc = "replied" => ~l.ok,
           l.call = "MarkPayloadRegistered" /\ l.pc \in {"reading", "prompting", "registering"} =>
               Registrable(L),
           faults' = 0 => /\ lch[L].lease # NoId => l.lease # NoId
                          /\ l.pc = "registering" => w.pc \in {"running", "wantIntent"}
    PROVE  IInv'
  <1>0. UNCHANGED <<adm, pend, kids, rec, loop, scope>> /\ LoginInv(L)
    BY Zenon DEF IInv, LauncherTakes, LauncherVars
  <1>1. mbox' \in Seq(Messages) /\ CallsAreUnique' /\ \A id \in LifecycleIds : SameCalls(id)
    BY Zenon DEF IInv, TypeOK, CallsAreUnique, SameCalls, Box
  <1>2. /\ TypeOK' /\ AdmissionExclusive' /\ (faults' = 0 => faults = 0)
        /\ \A id \in LifecycleIds \ {L} : Untouched(id)
        /\ wrk'[L] = w /\ lch'[L] = l
    BY <1>1, LauncherTypes, Zenon
  <1>3. Box' = Box /\ \A c : InBox(L, c)' <=> InBox(L, c)
    BY Zenon DEF Box, InBox
  <1>4. NoLease(L) => NoLease(L)'
    BY <1>2, <1>3, Zenon DEF NoLease, LauncherMay
  <1>5. /\ LastCall(lch[L])' /\ WorkerReports(L)' /\ EntryHasSeat(L)' /\ ChildHasSeat(L)'
        /\ RecordHasSeat(L)'
        /\ (Owner = L)' <=> Owner = L
        /\ \A t : LeaseOf(L, t) => LeaseOf(L, t)'
    BY <1>2, <1>4, LauncherCommon, Zenon
  <1>6. QueuedCalls(L)'
    BY <1>0, <1>2, <1>3, Zenon DEF LoginInv, QueuedCalls, GaveUp, LauncherMay
  <1>7. Leases(L)'
    BY <1>0, <1>2, <1>3, <1>5, Zenon DEF LoginInv, Leases, LauncherMay, HoldsLease
  <1>8. EntryFollows(L)'
    BY <1>0, <1>2, <1>3, Zenon
    DEF LoginInv, EntryFollows, Returned, Waiting, Registrable, HasRecord
  <1>9. NoFaultYet(L)'
    <2>2. ASSUME faults' = 0
          PROVE  \A c \in {"ReserveSeat", "BeginPending", "Register", "AbortPending"} \cup EntryCalls :
                     ~InBox(L, c)
      BY <1>0, <1>2, <2>2, Zenon DEF LoginInv, NoFaultYet, LauncherMay, Waiting
    <2>3. ASSUME faults' = 0, NoLease(L)'
          PROVE  NoLease(L)
      <3>1. l.lease = NoId
        BY <1>2, <2>3, Zenon DEF NoLease
      <3>2. lch[L].lease = NoId
        BY <2>3, <3>1, Zenon
      <3>. QED
        BY <1>3, <2>3, <3>2, Zenon DEF NoLease
    <2>. QED
      BY <1>0, <1>2, <1>3, <1>5, <2>2, <2>3, Zenon DEF LoginInv, NoFaultYet, Waiting
  <1>. QED
    BY <1>1, <1>2, <1>5, <1>6, <1>7, <1>8, <1>9, OneLogin, Zenon DEF LoginInv

\* A step that sends m.
LEMMA SendingKeeps ==
    ASSUME IInv, NEW L \in LifecycleIds, NEW l \in Launchers, NEW w \in Workers,
           NEW m \in Messages, m.id = L, m.call \notin VtCalls,
           LauncherTakes(L, l, w), LauncherMay(L, l, w), mbox' = Append(mbox, m),
           lch[L].pc # "calling", lch[L].call # "AbortPending",
           GaveUp(lch[L]) => lch[L].call \in EntryCalls /\ m.call = "AbortPending",
           \/ l.pc = "calling" /\ l.call = m.call /\ m.call # "CancelAdmission"
           \/ l.pc = "failed" /\ m.call = "CancelAdmission" /\ l.call = "ReserveSeat",
           m.call \in LeaseCalls => m.lease = lch[L].lease /\ lch[L].lease # NoId,
           lch[L].lease # NoId => l.lease # NoId \/ m.call \in LeaseCalls,
           m.call = "Register" => Registrable(L), m.call = "BeginPending" => wrk[L].pc = "none",
           m.call = "MarkPayloadRegistered" =>
               /\ pend[L].st = "PayloadPrepared" /\ pend[L].release = "NotRequested"
               /\ ~pend[L].terminal
    PROVE  IInv'
  <1>0. UNCHANGED <<adm, pend, kids, rec, loop, scope>> /\ LoginInv(L) /\ TypeOK /\ CallsAreUnique
    BY Zenon DEF IInv, LauncherTakes, LauncherVars
  <1>n. \A c : c \notin VtCalls /\ InBox(L, c) =>
               c \in EntryCalls /\ c = lch[L].call /\ m.call = "AbortPending" /\ faults # 0
    BY NothingQueued, Kinds, Zenon DEF LauncherMay
  <1>1. ~InBox(m.id, m.call)
    BY <1>n, Kinds, Zenon
  <1>2. mbox' \in Seq(Messages) /\ CallsAreUnique' /\ Box' = Box \cup {m}
    BY <1>0, <1>1, Sent, Zenon DEF TypeOK
  <1>3. \A id \in LifecycleIds \ {L} : SameCalls(id)
    BY <1>2, Zenon DEF SameCalls
  <1>4. /\ TypeOK' /\ AdmissionExclusive' /\ (faults' = 0 => faults = 0)
        /\ \A id \in LifecycleIds \ {L} : Untouched(id)
        /\ wrk'[L] = w /\ lch'[L] = l
    BY <1>2, <1>3, LauncherTypes, Zenon
  <1>5. \A c : InBox(L, c)' <=> InBox(L, c) \/ c = m.call
    BY <1>2, Zenon DEF InBox
  <1>6. NoLease(L) => NoLease(L)'
    BY <1>4, <1>5, Zenon DEF NoLease, LauncherMay
  <1>7. /\ LastCall(lch[L])' /\ WorkerReports(L)' /\ EntryHasSeat(L)' /\ ChildHasSeat(L)'
        /\ RecordHasSeat(L)'
        /\ (Owner = L)' <=> Owner = L
        /\ \A t : LeaseOf(L, t) => LeaseOf(L, t)'
    BY <1>4, <1>6, LauncherCommon, Zenon
  <1>8. QueuedCalls(L)'
    <2>1. \A c : c \notin VtCalls /\ InBox(L, c)' =>
              \/ c = m.call
              \/ c \in EntryCalls /\ m.call = "AbortPending"
      BY <1>n, <1>5, Zenon
    <2>. QED
      BY <1>4, <2>1, Kinds DEF QueuedCalls, GaveUp, LeaseCalls, EntryCalls, VtCalls
  <1>9. Leases(L)'
    BY <1>0, <1>2, <1>4, <1>7 DEF LoginInv, Leases, LauncherMay, HoldsLease
  <1>10. EntryFollows(L)'
    <2>1. ~InBox(L, "Register") /\ ~InBox(L, "BeginPending")
      BY <1>n, Kinds, Zenon
    <2>2. wrk[L].pc = "none" => pend[L].st = "none" /\ ~HasRecord(L)
      BY <1>0, Zenon DEF LoginInv, WorkerReports
    <2>. QED
      BY <1>0, <1>4, <1>5, <2>1, <2>2, Zenon
      DEF EntryFollows, Returned, Waiting, Registrable, HasRecord
  <1>11. NoFaultYet(L)'
    <2>1. ASSUME faults' = 0
          PROVE  \A c : c \notin VtCalls => ~InBox(L, c)
      BY <1>4, <1>n, <2>1, Zenon
    <2>2. ASSUME faults' = 0, NoLease(L)'
          PROVE  NoLease(L)
      BY <1>4, <1>5, <2>1, <2>2, Kinds, Zenon DEF NoLease
    <2>. QED
      BY <1>0, <1>4, <1>5, <1>7, <2>1, <2>2, Kinds, Zenon
      DEF LoginInv, NoFaultYet, Waiting
  <1>. QED
    BY <1>2, <1>4, <1>7, <1>8, <1>9, <1>10, <1>11, OneLogin, Zenon DEF LoginInv

\* What the launcher of a login is.
LEMMA LauncherIs ==
    ASSUME IInv, NEW L \in LifecycleIds
    PROVE  /\ lch[L] \in Launchers /\ LastCall(lch[L]) /\ ReportsHold(wrk[L], lch[L])
           /\ lch[L].lease # NoId <=> HoldsLease(lch[L])
           /\ EntryFollows(L)
           /\ lch \in [LifecycleIds -> Launchers] /\ wrk \in [LifecycleIds -> Workers]
           /\ DOMAIN lch = LifecycleIds
  BY Zenon DEF IInv, TypeOK, LoginInv, Leases, WorkerReports, ReportsHold

\* A worker that the launcher's step leaves as w.
WorkerLeft(L, w) ==
    /\ w \in Workers /\ w.reader = wrk[L].reader
    /\ \A x : Has(w.out, x) => Has(wrk[L].out, x)
    /\ w.pc = "none" => w.out = <<>>
    /\ \/ w.pc = wrk[L].pc
       \/ Alive(L) /\ w.pc = "exitBad"
       \/ wrk[L].pc \in {"releasing", "releasingAnyway"} /\ w.pc \in {"stuck", "responding"}
       \/ wrk[L].pc = "scopeSent" /\ w.pc = "acked"
       \/ wrk[L].pc = "asking" /\ w.pc = "preparing"

\* What the supervisor and the launcher do to a worker (kill it, acknowledge its
\* scope, answer its prompt or its release, read its pipe) leaves it as WorkerLeft
\* says.
LEMMA Lefts ==
    ASSUME IInv, NEW L \in LifecycleIds
    PROVE  /\ WorkerLeft(L, wrk[L]) /\ WorkerLeft(L, Killed(wrk[L])) /\ WorkerLeft(L, Acked(wrk[L]))
           /\ \A b : WorkerLeft(L, Answered(wrk[L], b))
           /\ wrk[L].out # <<>> => WorkerLeft(L, [wrk[L] EXCEPT !.out = Tail(@)])
           /\ \A b : Answered(wrk[L], b).pc = "acked" => wrk[L].pc = "acked"
           /\ Killed(wrk[L]).pc = "acked" => wrk[L].pc = "acked"
           /\ WorkerLeft(L, Prompted(wrk[L]))
           /\ Prompted(wrk[L]).pc = "acked" => wrk[L].pc = "acked"
  <1>. DEFINE v == wrk[L]
  <1>0. v \in Workers /\ (v.pc = "none" => v.out = <<>>)
    BY LauncherIs, Zenon DEF ReportsHold
  <1>1. {"stuck", "responding", "exitBad", "acked", "preparing"} \subseteq WorkerPcs
    BY Zenon DEF WorkerPcs, DeadPcs
  <1>2. WorkerLeft(L, v)
    BY <1>0, Zenon DEF WorkerLeft
  <1>3. WorkerLeft(L, Killed(v)) /\ (Killed(v).pc = "acked" => v.pc = "acked")
    BY <1>0, <1>1, Zenon DEF WorkerLeft, Killed, Alive, Workers, DeadPcs
  <1>4. WorkerLeft(L, Acked(v))
    BY <1>0, <1>1, Zenon DEF WorkerLeft, Acked, Workers
  <1>5. \A b : WorkerLeft(L, Answered(v, b)) /\ (Answered(v, b).pc = "acked" => v.pc = "acked")
    BY <1>0, <1>1, Zenon DEF WorkerLeft, Answered, Workers
  <1>6. ASSUME v.out # <<>>
        PROVE  WorkerLeft(L, [v EXCEPT !.out = Tail(@)])
    <2>1. v.out \in Seq(Responses)
      BY <1>0, Zenon DEF Workers
    <2>2. Tail(v.out) \in Seq(Responses) /\ \A x : Has(Tail(v.out), x) => Has(v.out, x)
      BY <1>6, <2>1, Outputs, Zenon DEF Responses
    <2>. QED
      BY <1>0, <1>6, <2>1, <2>2, Zenon DEF WorkerLeft, Workers
  <1>7. WorkerLeft(L, Prompted(v)) /\ (Prompted(v).pc = "acked" => v.pc = "acked")
    BY <1>0, <1>1, Zenon DEF WorkerLeft, Prompted, Workers
  <1>. QED
    BY <1>2, <1>3, <1>4, <1>5, <1>6, <1>7

\* A worker so left still agrees with its launcher.
LEMMA ReportsKept ==
    ASSUME IInv, NEW L \in LifecycleIds, NEW l, NEW w, WorkerLeft(L, w),
           l.call \in {"BeginRelease", "CompleteRelease"} =>
               lch[L].call \in {"BeginRelease", "CompleteRelease"} \/ Has(wrk[L].out, "ReleaseReady"),
           l.pc = "registering" => Has(wrk[L].out, "Started"),
           wrk[L].reader => l.call = "Register",
           l.call = "ReserveSeat" <=> lch[L].call = "ReserveSeat"
    PROVE  /\ w.reader = wrk[L].reader
           /\ ReportsHold(w, l) /\ (w.pc = "none" => wrk[L].pc = "none")
           /\ w.pc \in DeadPcs \/ Alive(L) \/ wrk[L].pc = "none"
  <1>0. ReportsHold(wrk[L], lch[L])
    BY LauncherIs, Zenon
  <1>1. /\ wrk[L].pc \in ReleasePcs => w.pc \in ReleasePcs
        /\ wrk[L].pc \in StartedPcs => w.pc \in StartedPcs
        /\ w.pc \in StartedPcs => w.pc = wrk[L].pc \/ w.pc = "exitBad"
        /\ w.pc = "none" => wrk[L].pc = "none"
        /\ wrk[L].pc = "none" => w.pc = "none"
    BY Zenon DEF WorkerLeft, ReleasePcs, StartedPcs, Alive, DeadPcs
  <1>2. w.pc \in DeadPcs \/ Alive(L) \/ wrk[L].pc = "none"
    BY Zenon DEF WorkerLeft, Alive, DeadPcs
  <1>3. /\ Has(w.out, "ReleaseReady") => Has(wrk[L].out, "ReleaseReady")
        /\ Has(w.out, "Started") => Has(wrk[L].out, "Started")
        /\ w.reader = wrk[L].reader /\ (w.pc = "none" => w.out = <<>>)
    BY Zenon DEF WorkerLeft
  <1>4. ReportsHold(w, l)
    BY <1>0, <1>1, <1>3, Zenon DEF ReportsHold
  <1>. QED
    BY <1>1, <1>2, <1>3, <1>4, Zenon

\* The launcher goes on without a call.
LEMMA GotoKeeps ==
    ASSUME IInv, NEW L \in LifecycleIds, NEW w, WorkerLeft(L, w),
           w.pc = "acked" => wrk[L].pc = "acked", wrk' = [wrk EXCEPT ![L] = w],
           NEW pc \in {"reserved", "reading", "prompting", "joining", "verifying", "waitExit",
                       "registering", "started"},
           lch' = [lch EXCEPT ![L].pc = pc], mbox' = mbox, faults' = faults,
           UNCHANGED LauncherVars,
           lch[L].pc \in {"reading", "prompting"} \/ (lch[L].pc = "replied" /\ lch[L].ok),
           LastCall([lch[L] EXCEPT !.pc = pc]),
           HoldsLease([lch[L] EXCEPT !.pc = pc]) <=> HoldsLease(lch[L]),
           pc = "registering" => Has(wrk[L].out, "Started") /\ w.pc \in {"running", "wantIntent"},
           lch[L].call = "MarkPayloadRegistered" /\ pc \in {"reading", "prompting", "registering"} =>
               Registrable(L)
    PROVE  IInv'
  <1>. DEFINE l == [lch[L] EXCEPT !.pc = pc]
  <1>0. /\ l \in Launchers /\ l.pc = pc /\ l.call = lch[L].call /\ l.lease = lch[L].lease
        /\ lch' = [lch EXCEPT ![L] = l] /\ w \in Workers
    BY LauncherIs, Zenon DEF Launchers, LauncherPcs, WorkerLeft
  <1>1. LauncherTakes(L, l, w)
    BY <1>0, Zenon DEF LauncherTakes
  <1>. HIDE DEF l
  <1>2. wrk[L].reader => l.call = "Register"
    BY <1>0, LauncherIs, Zenon DEF ReportsHold
  <1>3. ~GaveUp(lch[L]) /\ lch[L].pc \notin {"calling", "failed"}
    BY Zenon DEF GaveUp
  <1>4. LauncherMay(L, l, w)
    <2>1. /\ w.reader = wrk[L].reader /\ ReportsHold(w, l) /\ (w.pc = "none" => wrk[L].pc = "none")
          /\ w.pc \in DeadPcs \/ Alive(L) \/ wrk[L].pc = "none"
      BY <1>0, <1>2, ReportsKept, LauncherIs DEF ReportsHold
    <2>2. LastCall(l) /\ (l.lease # NoId <=> HoldsLease(l))
      BY <1>0, LauncherIs, Zenon DEF l
    <2>. QED
      BY <1>0, <1>3, <2>1, <2>2, Zenon DEF LauncherMay
  <1>. QED
    BY <1>0, <1>1, <1>3, <1>4, QuietKeeps, Zenon

\* The login fails.
LEMMA FailKeeps ==
    ASSUME IInv, NEW L \in LifecycleIds, Fail(L), mbox' = mbox, faults' = faults,
           UNCHANGED LauncherVars, lch[L].pc \notin {"calling", "failed"},
           lch[L].call \notin EntryCalls \/ ~GaveUp(lch[L]),
           faults = 0 => lch[L].lease = NoId
    PROVE  IInv'
  <1>. DEFINE l == [lch[L] EXCEPT !.pc = "failed", !.lease = NoId]
              w == Killed(wrk[L])
  <1>0. /\ l \in Launchers /\ l.pc = "failed" /\ l.call = lch[L].call /\ l.lease = NoId
        /\ l.registered = lch[L].registered
        /\ lch' = [lch EXCEPT ![L] = l] /\ WorkerLeft(L, w) /\ w \in Workers
        /\ wrk' = [wrk EXCEPT ![L] = w] /\ (w.pc = "acked" => wrk[L].pc = "acked")
    <2>1. l \in Launchers /\ lch' = [lch EXCEPT ![L] = l]
      BY LauncherIs, Zenon DEF Launchers, LauncherPcs, Fail
    <2>2. /\ l.pc = "failed" /\ l.call = lch[L].call /\ l.lease = NoId
          /\ l.registered = lch[L].registered
      BY LauncherIs, Zenon DEF Launchers
    <2>3. WorkerLeft(L, w) /\ w \in Workers /\ (w.pc = "acked" => wrk[L].pc = "acked")
      BY Lefts, Zenon DEF WorkerLeft
    <2>4. wrk' = [wrk EXCEPT ![L] = w]
      BY Zenon DEF Fail
    <2>. QED
      BY <2>1, <2>2, <2>3, <2>4, Zenon
  <1>1. LauncherTakes(L, l, w)
    BY <1>0, Zenon DEF LauncherTakes
  <1>. HIDE DEF l, w
  <1>2. wrk[L].reader => l.call = "Register"
    BY <1>0, LauncherIs, Zenon DEF ReportsHold
  <1>4. LauncherMay(L, l, w)
    <2>1. /\ w.reader = wrk[L].reader /\ ReportsHold(w, l) /\ (w.pc = "none" => wrk[L].pc = "none")
          /\ w.pc \in DeadPcs \/ Alive(L) \/ wrk[L].pc = "none"
      BY <1>0, <1>2, ReportsKept
    <2>2. LastCall(l) /\ ~HoldsLease(l)
      BY <1>0, LauncherIs, Zenon DEF LastCall, HoldsLease
    <2>. QED
      BY <1>0, <2>1, <2>2, Zenon DEF LauncherMay
  <1>. QED
    BY <1>0, <1>1, <1>4, QuietKeeps, Zenon DEF GaveUp

\* The launcher calls the supervisor and becomes l.
CallTo(L, m, lease) == [lch[L] EXCEPT !.pc = "calling", !.call = m.call, !.lease = lease]

\* A launcher that calls the supervisor keeps what it holds and waits for the
\* reply of that call (the helpers of launch_completion.rs).
LEMMA CallIs ==
    ASSUME IInv, NEW L \in LifecycleIds, NEW m \in Messages, NEW lease \in {NoId, lch[L].lease},
           Call(L, m, lease)
    PROVE  /\ CallTo(L, m, lease) \in Launchers
           /\ CallTo(L, m, lease).pc = "calling" /\ CallTo(L, m, lease).call = m.call
           /\ CallTo(L, m, lease).lease = lease
           /\ CallTo(L, m, lease).registered = lch[L].registered
           /\ lch' = [lch EXCEPT ![L] = CallTo(L, m, lease)] /\ mbox' = Append(mbox, m)
  <1>1. lch[L] \in Launchers /\ m.call \in Calls /\ "calling" \in LauncherPcs
    BY LauncherIs, Zenon DEF Messages, LauncherPcs
  <1>2. lease \in Tokens \union {NoId}
    BY <1>1, Zenon DEF Launchers
  <1>. QED
    BY <1>1, <1>2, LauncherIs, Zenon DEF CallTo, Launchers, Call, Send

\* The pending lease is given back.
LEMMA AbortKeeps ==
    ASSUME IInv, NEW L \in LifecycleIds, NEW clean \in BOOLEAN, Abort(L, clean),
           NEW w, WorkerLeft(L, w), w.pc = "acked" => wrk[L].pc = "acked",
           wrk' = [wrk EXCEPT ![L] = w], UNCHANGED LauncherVars, faults' = faults \/ Spend(1),
           \/ lch[L].pc \in {"reading", "prompting", "joining", "waitExit"}
           \/ lch[L].pc = "replied" /\ lch[L].call \in EntryCalls
    PROVE  IInv'
  <1>. DEFINE m == Msg("AbortPending", L, lch[L].lease, clean, 0)
              l == CallTo(L, m, NoId)
  <1>0. m \in Messages /\ m.id = L /\ m.call = "AbortPending" /\ m.lease = lch[L].lease
    BY LauncherIs, Zenon DEF Msg, Messages, Calls, Launchers
  <1>1. /\ l \in Launchers /\ l.pc = "calling" /\ l.call = "AbortPending" /\ l.lease = NoId
        /\ lch' = [lch EXCEPT ![L] = l] /\ mbox' = Append(mbox, m)
    BY <1>0, CallIs, Zenon DEF Abort
  <1>2. LauncherTakes(L, l, w) /\ w \in Workers
    BY <1>1, Zenon DEF LauncherTakes, WorkerLeft
  <1>. HIDE DEF l, m
  <1>3. /\ lch[L].lease # NoId /\ ~wrk[L].reader
        /\ lch[L].call \notin {"AbortPending", "Register", "ReserveSeat"}
        /\ GaveUp(lch[L]) => lch[L].call \in EntryCalls
    BY LauncherIs, Zenon DEF HoldsLease, LastCall, ReportsHold, EntryCalls, GaveUp
  <1>4. LauncherMay(L, l, w)
    <2>1. /\ w.reader = wrk[L].reader /\ ReportsHold(w, l) /\ (w.pc = "none" => wrk[L].pc = "none")
          /\ w.pc \in DeadPcs \/ Alive(L) \/ wrk[L].pc = "none"
      BY <1>1, <1>3, ReportsKept, Zenon
    <2>2. LastCall(l) /\ ~HoldsLease(l)
      BY <1>1, Zenon DEF LastCall, HoldsLease, EntryCalls, VtCalls
    <2>. QED
      BY <1>1, <2>1, <2>2, Zenon DEF LauncherMay
  <1>. QED
    BY <1>0, <1>1, <1>2, <1>3, <1>4, SendingKeeps, Kinds, Zenon
    DEF LeaseCalls, VtCalls

\* A call about the login's entry.
LEMMA EntryCallKeeps ==
    ASSUME IInv, NEW L \in LifecycleIds, NEW c \in EntryCalls \ {"MarkPayloadRegistered"},
           NEW b \in BOOLEAN, NEW g \in Nat, Call(L, Msg(c, L, NoId, b, g), lch[L].lease),
           NEW w, WorkerLeft(L, w), w.pc = "acked" => wrk[L].pc = "acked",
           wrk' = [wrk EXCEPT ![L] = w], UNCHANGED LauncherVars, faults' = faults,
           lch[L].pc \in {"reading", "verifying"},
           c \in {"BeginRelease", "CompleteRelease"} =>
               lch[L].call = "BeginRelease" \/ Has(wrk[L].out, "ReleaseReady")
    PROVE  IInv'
  <1>. DEFINE m == Msg(c, L, NoId, b, g)
              l == CallTo(L, m, lch[L].lease)
  <1>0. m \in Messages /\ m.id = L /\ m.call = c
    BY Zenon DEF Msg, Messages, Calls, EntryCalls
  <1>1. /\ l \in Launchers /\ l.pc = "calling" /\ l.call = c /\ l.lease = lch[L].lease
        /\ lch' = [lch EXCEPT ![L] = l] /\ mbox' = Append(mbox, m)
    BY <1>0, CallIs, Zenon
  <1>2. LauncherTakes(L, l, w) /\ w \in Workers
    BY <1>1, Zenon DEF LauncherTakes, WorkerLeft
  <1>. HIDE DEF l, m
  <1>3. /\ lch[L].lease # NoId /\ ~wrk[L].reader /\ ~GaveUp(lch[L])
        /\ lch[L].call \notin {"AbortPending", "Register", "ReserveSeat"}
        /\ c \notin LeaseCalls \cup VtCalls \cup {"Register", "CancelAdmission", "ReserveSeat", "BeginPending"}
    BY LauncherIs, Zenon
    DEF HoldsLease, LastCall, ReportsHold, EntryCalls, GaveUp, LeaseCalls, VtCalls
  <1>4. LauncherMay(L, l, w)
    <2>1. /\ w.reader = wrk[L].reader /\ ReportsHold(w, l) /\ (w.pc = "none" => wrk[L].pc = "none")
          /\ w.pc \in DeadPcs \/ Alive(L) \/ wrk[L].pc = "none"
      BY <1>1, <1>3, ReportsKept, SMTT(30)
    <2>2. LastCall(l) /\ HoldsLease(l)
      BY <1>1, <1>3, Zenon DEF LastCall, HoldsLease
    <2>. QED
      BY <1>1, <1>3, <2>1, <2>2, Zenon DEF LauncherMay
  <1>. QED
    BY <1>0, <1>1, <1>2, <1>3, <1>4, SendingKeeps, Zenon

\* The launcher's steps up to begin_pending.
LEMMA StartSteps ==
    ASSUME IInv, NEW L \in LifecycleIds,
           \/ StartLogin(L) \/ CallTimeout(L) \/ AfterReserve(L) \/ SpawnWorker(L) \/ AfterBegin(L)
    PROVE  IInv'
  <1>0. /\ LastCall(lch[L]) /\ (lch[L].lease # NoId <=> HoldsLease(lch[L])) /\ lch[L] \in Launchers
        /\ wrk = [wrk EXCEPT ![L] = wrk[L]]
    BY LauncherIs, WorkerIs, Zenon
  <1>1. CASE StartLogin(L)
    <2>. DEFINE m == Msg("ReserveSeat", L, NoId, FALSE, 0)
                l == CallTo(L, m, NoId)
    <2>0. m \in Messages /\ m.id = L /\ m.call = "ReserveSeat"
      BY Zenon DEF Msg, Messages, Calls
    <2>1. /\ l \in Launchers /\ l.pc = "calling" /\ l.call = "ReserveSeat" /\ l.lease = NoId
          /\ l.registered = lch[L].registered
          /\ lch' = [lch EXCEPT ![L] = l] /\ mbox' = Append(mbox, m)
      BY <1>1, <2>0, CallIs, Zenon DEF StartLogin
    <2>2. LauncherTakes(L, l, wrk[L]) /\ wrk[L] \in Workers
      BY <1>0, <1>1, <2>1, WorkerIs, Zenon DEF LauncherTakes, StartLogin
    <2>. HIDE DEF l, m
    <2>3. lch[L].pc = "idle" /\ lch[L].call = "ReserveSeat" /\ lch[L].lease = NoId
      BY <1>0, <1>1, Zenon DEF StartLogin, LastCall, HoldsLease
    <2>4. LauncherMay(L, l, wrk[L])
      <3>1. /\ ReportsHold(wrk[L], l)
            /\ wrk[L].pc \in DeadPcs \/ Alive(L) \/ wrk[L].pc = "none"
        BY <2>1, <2>3, ReportsKept, LauncherIs, Lefts, Zenon DEF ReportsHold
      <3>2. LastCall(l) /\ ~HoldsLease(l)
        BY <1>0, <2>1, <2>3, Zenon DEF LastCall, HoldsLease, EntryCalls, VtCalls
      <3>. QED
        BY <2>1, <2>3, <3>1, <3>2, Zenon DEF LauncherMay
    <2>. QED
      BY <2>0, <2>1, <2>2, <2>3, <2>4, SendingKeeps, Kinds, Zenon
      DEF GaveUp, LeaseCalls, VtCalls
  <1>2. CASE CallTimeout(L)
    <2>. DEFINE l == [lch[L] EXCEPT !.pc = "replied", !.ok = FALSE]
    <2>1. /\ l \in Launchers /\ l.pc = "replied" /\ l.call = lch[L].call /\ l.lease = lch[L].lease
          /\ ~l.ok /\ l.registered = lch[L].registered /\ lch' = [lch EXCEPT ![L] = l]
      BY <1>0, <1>2, LauncherIs, Zenon DEF Launchers, LauncherPcs, CallTimeout
    <2>2. LauncherTakes(L, l, wrk[L]) /\ wrk[L] \in Workers
      BY <1>0, <1>2, <2>1, WorkerIs, Zenon DEF LauncherTakes, CallTimeout
    <2>. HIDE DEF l
    <2>3. faults' # 0 /\ lch[L].pc = "calling"
      BY <1>2, Counted, Zenon DEF CallTimeout, IInv
    <2>4. LauncherMay(L, l, wrk[L])
      <3>0. wrk[L].reader => l.call = "Register"
        BY <2>1, LauncherIs, Zenon DEF ReportsHold
      <3>1. /\ ReportsHold(wrk[L], l)
            /\ wrk[L].pc \in DeadPcs \/ Alive(L) \/ wrk[L].pc = "none"
        BY <2>1, <3>0, ReportsKept, Lefts, Zenon
      <3>2. LastCall(l) /\ (HoldsLease(l) <=> HoldsLease(lch[L]))
        BY <1>0, <2>1, <2>3, Zenon DEF LastCall, HoldsLease
      <3>. QED
        BY <1>0, <2>1, <2>3, <3>1, <3>2, Zenon DEF LauncherMay
    <2>. QED
      BY <1>2, <2>1, <2>2, <2>3, <2>4, QuietKeeps, Zenon DEF GaveUp, CallTimeout
  <1>. DEFINE After(call, pc) ==
         /\ Returned(L, call) /\ mbox' = mbox /\ faults' = faults /\ UNCHANGED LauncherVars
         /\ IF lch[L].ok THEN Goto(L, pc) /\ wrk' = wrk ELSE Fail(L)
  <1>3. ASSUME NEW call, NEW pc, After(call, pc),
               \/ call = "ReserveSeat" /\ pc = "reserved"
               \/ call = "BeginPending" /\ pc = "reading"
        PROVE  IInv'
    <2>1. CASE lch[L].ok
      <3>. DEFINE l == [lch[L] EXCEPT !.pc = pc]
      <3>1. l.pc = pc /\ l.call = lch[L].call /\ l.registered = lch[L].registered
        BY <1>0, Zenon DEF Launchers
      <3>2. LastCall(l) /\ (HoldsLease(l) <=> HoldsLease(lch[L]))
        BY <1>0, <1>3, <2>1, <3>1, Zenon
        DEF LastCall, HoldsLease, Returned, VtCalls, EntryCalls
      <3>. QED
        BY <1>0, <1>3, <2>1, <3>2, GotoKeeps, Lefts, Zenon DEF Returned, Goto
    <2>2. CASE ~lch[L].ok
      <3>1. lch[L].lease = NoId /\ lch[L].call \notin EntryCalls
        BY <1>0, <1>3, <2>2, Zenon DEF HoldsLease, Returned, EntryCalls
      <3>. QED
        BY <1>3, <2>2, <3>1, FailKeeps, Zenon DEF Returned
    <2>. QED
      BY <2>1, <2>2, Zenon
  <1>4. CASE AfterReserve(L)
    BY <1>3, <1>4, Zenon DEF AfterReserve
  <1>5. CASE AfterBegin(L)
    BY <1>3, <1>5, Zenon DEF AfterBegin
  <1>6. CASE SpawnWorker(L)
    <2>0. /\ lch[L].pc = "reserved" /\ lch[L].call = "ReserveSeat" /\ lch[L].lease # NoId
          /\ ~lch[L].registered /\ faults' = faults /\ UNCHANGED LauncherVars
          /\ wrk[L].pc = "none" /\ wrk[L].out = <<>> /\ ~wrk[L].reader
      BY <1>0, <1>6, LauncherIs, Zenon
      DEF SpawnWorker, LastCall, HoldsLease, ReportsHold
    <2>1. CASE /\ wrk' = [wrk EXCEPT ![L].pc = "preparing"]
               /\ Call(L, Msg("BeginPending", L, lch[L].lease, FALSE, 0), NoId)
      <3>. DEFINE m == Msg("BeginPending", L, lch[L].lease, FALSE, 0)
                  l == CallTo(L, m, NoId)
                  w == [wrk[L] EXCEPT !.pc = "preparing"]
      <3>0. m \in Messages /\ m.id = L /\ m.call = "BeginPending" /\ m.lease = lch[L].lease
        BY <1>0, Zenon DEF Msg, Messages, Calls, Launchers
      <3>1. /\ l \in Launchers /\ l.pc = "calling" /\ l.call = "BeginPending" /\ l.lease = NoId
            /\ l.registered = lch[L].registered
            /\ lch' = [lch EXCEPT ![L] = l] /\ mbox' = Append(mbox, m)
        BY <2>1, <3>0, CallIs, Zenon
      <3>2. /\ w \in Workers /\ w.pc = "preparing" /\ w.out = <<>> /\ ~w.reader
            /\ wrk' = [wrk EXCEPT ![L] = w]
        BY <2>0, <2>1, WorkerIs, Zenon DEF Workers, WorkerPcs
      <3>3. LauncherTakes(L, l, w)
        BY <2>0, <3>1, <3>2, Zenon DEF LauncherTakes
      <3>. HIDE DEF l, m, w
      <3>4. ReportsHold(w, l)
        BY <3>1, <3>2 DEF ReportsHold, Has, StartedPcs
      <3>5. LastCall(l) /\ ~HoldsLease(l)
        BY <2>0, <3>1, Zenon DEF LastCall, HoldsLease, EntryCalls, VtCalls
      <3>6. LauncherMay(L, l, w)
        BY <2>0, <3>1, <3>2, <3>4, <3>5, ZenonT(60) DEF LauncherMay
      <3>. QED
        BY <2>0, <3>0, <3>1, <3>2, <3>3, <3>6, SendingKeeps, Zenon
        DEF GaveUp, LeaseCalls, VtCalls
    <2>2. CASE /\ Send(Msg("CancelAdmission", L, lch[L].lease, FALSE, 0))
               /\ Fail(L)
      <3>. DEFINE m == Msg("CancelAdmission", L, lch[L].lease, FALSE, 0)
                  l == [lch[L] EXCEPT !.pc = "failed", !.lease = NoId]
      <3>0. m \in Messages /\ m.id = L /\ m.call = "CancelAdmission" /\ m.lease = lch[L].lease
        BY <1>0, Zenon DEF Msg, Messages, Calls, Launchers
      <3>1. /\ l \in Launchers /\ l.pc = "failed" /\ l.call = "ReserveSeat" /\ l.lease = NoId
            /\ l.registered = lch[L].registered
            /\ lch' = [lch EXCEPT ![L] = l] /\ mbox' = Append(mbox, m)
        BY <1>0, <2>0, <2>2, LauncherIs, Zenon DEF Launchers, LauncherPcs, Fail, Send
      <3>2. Killed(wrk[L]) = wrk[L] /\ wrk[L] \in Workers
        BY <2>0, WorkerIs, Zenon DEF Killed, DeadPcs
      <3>3. LauncherTakes(L, l, wrk[L])
        BY <2>0, <2>2, <3>1, <3>2, Zenon DEF LauncherTakes, Fail
      <3>. HIDE DEF l, m
      <3>4. ReportsHold(wrk[L], l)
        BY <2>0, <3>1 DEF ReportsHold, Has, StartedPcs
      <3>5. LastCall(l) /\ ~HoldsLease(l)
        BY <2>0, <3>1, Zenon DEF LastCall, HoldsLease, EntryCalls, VtCalls
      <3>6. LauncherMay(L, l, wrk[L])
        BY <2>0, <3>1, <3>2, <3>4, <3>5, Zenon DEF LauncherMay
      <3>. QED
        BY <2>0, <3>0, <3>1, <3>2, <3>3, <3>6, SendingKeeps
        DEF GaveUp, LeaseCalls, VtCalls
    <2>. QED
      BY <1>6, <2>1, <2>2, Zenon DEF SpawnWorker
  <1>. QED
    BY <1>1, <1>2, <1>4, <1>5, <1>6, Zenon

\* A launcher that reads, or is answered by the greeter, and then reads on, asks
\* the greeter or joins its reader thread.
LEMMA WaitKeeps ==
    ASSUME IInv, NEW L \in LifecycleIds, NEW pc \in {"reading", "prompting", "joining"},
           NEW w, WorkerLeft(L, w), w.pc = "acked" => wrk[L].pc = "acked",
           wrk' = [wrk EXCEPT ![L] = w], lch[L].pc \in {"reading", "prompting"}, Goto(L, pc),
           mbox' = mbox, faults' = faults, UNCHANGED LauncherVars
    PROVE  IInv'
  <1>. DEFINE l == [lch[L] EXCEPT !.pc = pc]
  <1>0. LastCall(lch[L]) /\ lch[L] \in Launchers /\ EntryFollows(L)
    BY LauncherIs, Zenon
  <1>1. l.pc = pc /\ l.call = lch[L].call /\ l.registered = lch[L].registered
    BY <1>0, Zenon DEF Launchers
  <1>2. LastCall(l) /\ HoldsLease(l) /\ HoldsLease(lch[L])
    BY <1>0, <1>1, Zenon DEF LastCall, HoldsLease
  <1>3. lch[L].call = "MarkPayloadRegistered" => Registrable(L)
    BY <1>0, Zenon DEF EntryFollows
  <1>. QED
    BY <1>2, <1>3, GotoKeeps, Zenon DEF Goto

\* The launcher's steps around a PAM prompt.
LEMMA PromptSteps ==
    ASSUME IInv, NEW L \in LifecycleIds, ReadPrompt(L) \/ AfterPrompt(L) \/ JoinReader(L)
    PROVE  IInv'
  <1>0. wrk = [wrk EXCEPT ![L] = wrk[L]]
    BY WorkerIs, Zenon
  <1>1. CASE ReadPrompt(L)
    <2>. DEFINE tail == [wrk[L] EXCEPT !.out = Tail(@)]
    <2>1. wrk' = [wrk EXCEPT ![L] = tail] /\ WorkerLeft(L, tail) /\ tail.pc = wrk[L].pc
          /\ lch[L].pc = "reading"
      BY <1>1, WorkerIs, LauncherIs, Lefts, Zenon DEF ReadPrompt, Reads, Workers
    <2>. QED
      BY <1>1, <2>1, WaitKeeps, Zenon DEF ReadPrompt
  <1>2. CASE AfterPrompt(L)
    <2>0. lch[L].pc = "prompting" /\ faults' = faults /\ UNCHANGED LauncherVars
      BY <1>2, Zenon DEF AfterPrompt
    <2>1. CASE wrk' = [wrk EXCEPT ![L] = Prompted(@)] /\ Goto(L, "reading") /\ UNCHANGED mbox
      <3>1. wrk' = [wrk EXCEPT ![L] = Prompted(wrk[L])]
        BY <2>1, LauncherIs, Zenon
      <3>. QED
        BY <2>0, <2>1, <3>1, Lefts, WaitKeeps, Zenon
    <2>2. CASE wrk' = [wrk EXCEPT ![L] = Killed(@)] /\ Abort(L, FALSE)
      <3>1. wrk' = [wrk EXCEPT ![L] = Killed(wrk[L])]
        BY <2>2, LauncherIs, Zenon
      <3>. QED
        BY <2>0, <2>2, <3>1, Lefts, AbortKeeps, Zenon
    <2>3. CASE Goto(L, "joining") /\ UNCHANGED <<mbox, wrk>>
      BY <1>0, <2>0, <2>3, Lefts, WaitKeeps, Zenon
    <2>. QED
      BY <1>2, <2>1, <2>2, <2>3, Zenon DEF AfterPrompt
  <1>3. CASE JoinReader(L)
    BY <1>0, <1>3, Lefts, AbortKeeps, Zenon DEF JoinReader
  <1>. QED
    BY <1>1, <1>2, <1>3, Zenon

\* The launcher's steps around the worker's scope and its release.
LEMMA ScopeSteps ==
    ASSUME IInv, NEW L \in LifecycleIds,
           \/ ReadScopePrepared(L) \/ AfterRecord(L) \/ AfterMark(L) \/ ReadReleaseReady(L)
           \/ AfterBeginRelease(L) \/ VerifyRelease(L) \/ AfterCompleteRelease(L)
    PROVE  IInv'
  <1>0. /\ LastCall(lch[L]) /\ (lch[L].lease # NoId <=> HoldsLease(lch[L])) /\ lch[L] \in Launchers
        /\ wrk = [wrk EXCEPT ![L] = wrk[L]] /\ lch[L].gen \in Nat
        /\ {"RecordPreparedScope", "MarkPayloadRegistered", "BeginRelease", "CompleteRelease"}
               = EntryCalls
    BY LauncherIs, WorkerIs, Zenon DEF Launchers, EntryCalls
  <1>r. ASSUME NEW x, Reads(L, x)
        PROVE  /\ wrk' = [wrk EXCEPT ![L] = [wrk[L] EXCEPT !.out = Tail(@)]]
               /\ WorkerLeft(L, [wrk[L] EXCEPT !.out = Tail(@)])
               /\ [wrk[L] EXCEPT !.out = Tail(@)].pc = wrk[L].pc
               /\ lch[L].pc = "reading" /\ Has(wrk[L].out, x)
    <2>1. wrk[L].out \in Seq(Responses) /\ wrk[L].out # <<>>
      BY <1>r, WorkerIs, Zenon DEF Reads
    <2>2. Has(wrk[L].out, x)
      BY <1>r, <2>1, Outputs, Zenon DEF Reads, Responses
    <2>. QED
      BY <1>r, <2>1, <2>2, WorkerIs, LauncherIs, Lefts, Zenon DEF Reads, Workers
  <1>g. ASSUME NEW call, NEW pc, NEW w, Returned(L, call), lch[L].ok, mbox' = mbox, faults' = faults,
               UNCHANGED LauncherVars, Goto(L, pc), wrk' = [wrk EXCEPT ![L] = w],
               WorkerLeft(L, w), w.pc = "acked" => wrk[L].pc = "acked",
               \/ call = "MarkPayloadRegistered" /\ pc = "reading"
               \/ call = "BeginRelease" /\ pc = "verifying"
               \/ call = "CompleteRelease" /\ pc = "reading"
        PROVE  IInv'
    <2>. DEFINE l == [lch[L] EXCEPT !.pc = pc]
    <2>1. l.pc = pc /\ l.call = lch[L].call /\ l.registered = lch[L].registered
      BY <1>0, Zenon DEF Launchers
    <2>2. LastCall(l) /\ (HoldsLease(l) <=> HoldsLease(lch[L]))
      BY <1>0, <1>g, <2>1, Zenon
      DEF LastCall, HoldsLease, Returned, VtCalls, EntryCalls
    <2>3. call = "MarkPayloadRegistered" => Registrable(L)
      BY <1>g, LauncherIs, Zenon DEF EntryFollows
    <2>. QED
      BY <1>0, <1>g, <2>2, <2>3, GotoKeeps, Lefts, Zenon DEF Returned, Goto
  <1>1. CASE ReadScopePrepared(L)
    <2>1. Reads(L, "ScopePrepared") /\ faults' = faults /\ UNCHANGED LauncherVars
          /\ Call(L, Msg("RecordPreparedScope", L, NoId, FALSE, 0), lch[L].lease)
      BY <1>1, Zenon DEF ReadScopePrepared
    <2>2. "RecordPreparedScope" \in EntryCalls \ {"MarkPayloadRegistered"}
          /\ "RecordPreparedScope" \notin {"BeginRelease", "CompleteRelease"}
      BY Zenon DEF EntryCalls
    <2>. QED
      BY <1>r, <2>1, <2>2, EntryCallKeeps, Zenon
  <1>2. CASE ReadReleaseReady(L)
    <2>1. CASE lch[L].registered
      BY <1>0, <1>2, <1>r, <2>1, EntryCallKeeps, Zenon DEF ReadReleaseReady
    <2>2. CASE ~lch[L].registered
      BY <1>2, <1>r, <2>2, WaitKeeps, Zenon DEF ReadReleaseReady
    <2>. QED
      BY <2>1, <2>2, Zenon
  <1>3. CASE VerifyRelease(L)
    <2>1. lch[L].call = "BeginRelease"
      BY <1>0, <1>3, Zenon DEF VerifyRelease, LastCall
    <2>. QED
      BY <1>0, <1>3, <2>1, Lefts, EntryCallKeeps, Zenon DEF VerifyRelease
  <1>4. CASE AfterMark(L)
    <2>1. CASE lch[L].ok
      BY <1>0, <1>4, <1>g, <2>1, Lefts, Zenon DEF AfterMark
    <2>2. CASE ~lch[L].ok
      BY <1>0, <1>4, <2>2, Lefts, AbortKeeps, Zenon DEF AfterMark, Returned
    <2>. QED
      BY <2>1, <2>2, Zenon
  <1>5. CASE AfterBeginRelease(L)
    <2>1. CASE lch[L].ok
      BY <1>0, <1>5, <1>g, <2>1, Lefts, Zenon DEF AfterBeginRelease
    <2>2. CASE ~lch[L].ok
      BY <1>0, <1>5, <2>2, Lefts, AbortKeeps, Zenon DEF AfterBeginRelease, Returned
    <2>. QED
      BY <2>1, <2>2
  <1>6. CASE AfterCompleteRelease(L)
    <2>1. CASE lch[L].ok /\ Alive(L)
      <3>1. PICK b : wrk' = [wrk EXCEPT ![L] = Answered(wrk[L], b)]
        BY <1>6, <2>1, LauncherIs, Zenon DEF AfterCompleteRelease
      <3>. QED
        BY <1>0, <1>6, <1>g, <2>1, <3>1, Lefts, Zenon DEF AfterCompleteRelease
    <2>2. CASE ~(lch[L].ok /\ Alive(L))
      BY <1>0, <1>6, <2>2, Lefts, AbortKeeps, Zenon DEF AfterCompleteRelease, Returned
    <2>. QED
      BY <2>1, <2>2, Zenon
  <1>7. CASE AfterRecord(L)
    <2>1. CASE ~(lch[L].ok /\ Alive(L))
      BY <1>0, <1>7, <2>1, Lefts, AbortKeeps, Zenon DEF AfterRecord, Returned
    <2>2. CASE lch[L].ok /\ Alive(L)
      <3>. DEFINE m == Msg("MarkPayloadRegistered", L, NoId, FALSE, 0)
                  l == [lch[L] EXCEPT !.pc = "calling", !.call = "MarkPayloadRegistered",
                                      !.registered = TRUE]
                  w == Acked(wrk[L])
      <3>0. m \in Messages /\ m.id = L /\ m.call = "MarkPayloadRegistered"
        BY Zenon DEF Msg, Messages, Calls
      <3>1. /\ l \in Launchers /\ l.pc = "calling" /\ l.call = "MarkPayloadRegistered"
            /\ l.lease = lch[L].lease
        BY <1>0, Zenon DEF Launchers, LauncherPcs, Calls
      <3>2. lch' = [lch EXCEPT ![L] = l] /\ mbox' = Append(mbox, m) /\ wrk' = [wrk EXCEPT ![L] = w]
        BY <1>7, <2>2, LauncherIs, Zenon DEF AfterRecord, Send
      <3>3. WorkerLeft(L, w) /\ w \in Workers
        BY Lefts, Zenon DEF WorkerLeft
      <3>4. LauncherTakes(L, l, w)
        BY <1>7, <3>2, Zenon DEF LauncherTakes, AfterRecord
      <3>. HIDE DEF l, m, w
      <3>5. /\ lch[L].pc = "replied" /\ lch[L].call = "RecordPreparedScope" /\ lch[L].lease # NoId
            /\ ~GaveUp(lch[L]) /\ ~wrk[L].reader
        BY <1>0, <1>7, <2>2, LauncherIs, Zenon
        DEF AfterRecord, Returned, HoldsLease, GaveUp, ReportsHold
      <3>6. /\ pend[L].st = "PayloadPrepared" /\ pend[L].release = "NotRequested" /\ ~pend[L].terminal
        BY <1>7, <2>2, LauncherIs, Zenon DEF AfterRecord, EntryFollows
      <3>7. /\ w.reader = wrk[L].reader /\ ReportsHold(w, l) /\ (w.pc = "none" => wrk[L].pc = "none")
            /\ w.pc \in DeadPcs \/ Alive(L) \/ wrk[L].pc = "none"
        BY <3>1, <3>3, <3>5, ReportsKept
      <3>8. LastCall(l) /\ HoldsLease(l)
        BY <1>0, <3>1, Zenon DEF LastCall, HoldsLease, VtCalls
      <3>9. LauncherMay(L, l, w)
        BY <3>1, <3>5, <3>6, <3>7, <3>8, Zenon DEF LauncherMay, HasPayload
      <3>. QED
        BY <3>0, <3>1, <3>2, <3>3, <3>4, <3>5, <3>6, <3>9, SendingKeeps, Zenon
        DEF LeaseCalls, VtCalls
    <2>. QED
      BY <2>1, <2>2, Zenon
  <1>. QED
    BY <1>1, <1>2, <1>3, <1>4, <1>5, <1>6, <1>7, Zenon

\* The launcher's other steps.
LEMMA EndSteps ==
    ASSUME IInv, NEW L \in LifecycleIds,
           \/ ReadStarted(L) \/ Register(L) \/ AfterRegister(L) \/ ReadResponse(L)
           \/ WorkerExitSeen(L) \/ WorkerLost(L) \/ DeadlinePasses(L) \/ AfterAbort(L)
    PROVE  IInv'
  <1>0. /\ LastCall(lch[L]) /\ (lch[L].lease # NoId <=> HoldsLease(lch[L])) /\ lch[L] \in Launchers
        /\ wrk = [wrk EXCEPT ![L] = wrk[L]]
    BY LauncherIs, WorkerIs, Zenon
  <1>. DEFINE tail == [wrk[L] EXCEPT !.out = Tail(@)]
  <1>r. ASSUME NEW x, Reads(L, x)
        PROVE  /\ wrk' = [wrk EXCEPT ![L] = tail]
               /\ WorkerLeft(L, tail) /\ tail.pc = wrk[L].pc
               /\ lch[L].pc = "reading" /\ Has(wrk[L].out, x)
    <2>1. wrk[L].out \in Seq(Responses) /\ wrk[L].out # <<>>
      BY <1>r, WorkerIs, Zenon DEF Reads
    <2>2. Has(wrk[L].out, x)
      BY <1>r, <2>1, Outputs, Zenon DEF Reads, Responses
    <2>. QED
      BY <1>r, <2>1, <2>2, WorkerIs, LauncherIs, Lefts, Zenon DEF Reads, Workers
  <1>. HIDE DEF tail
  <1>1. CASE ReadStarted(L)
    <2>0. Reads(L, "Started")
      BY <1>1, Zenon DEF ReadStarted
    <2>1. CASE lch[L].registered /\ Alive(L)
      <3>. DEFINE l == [lch[L] EXCEPT !.pc = "registering"]
      <3>1. l.pc = "registering" /\ l.call = lch[L].call /\ l.registered = lch[L].registered
        BY <1>0, Zenon DEF Launchers
      <3>2. wrk[L].pc \in StartedPcs /\ lch[L].call \notin {"BeginRelease", "CompleteRelease"}
        BY <1>r, <2>0, LauncherIs, Zenon DEF ReportsHold
      <3>3. lch[L].call = "MarkPayloadRegistered"
        BY <1>0, <1>r, <2>0, <2>1, <3>2, Zenon DEF LastCall
      <3>4. wrk[L].pc \in {"running", "wantIntent"}
        BY <2>1, <3>2, <3>3, LauncherIs, Zenon
        DEF ReportsHold, StartedPcs, Alive, DeadPcs
      <3>5. Registrable(L)
        BY <1>r, <2>0, <3>3, LauncherIs, Zenon DEF EntryFollows
      <3>6. LastCall(l) /\ (HoldsLease(l) <=> HoldsLease(lch[L]))
        BY <1>0, <1>r, <2>0, <3>1, <3>3, Zenon DEF LastCall, HoldsLease
      <3>7. /\ lch' = [lch EXCEPT ![L].pc = "registering"] /\ mbox' = mbox /\ faults' = faults
            /\ UNCHANGED LauncherVars
        BY <1>1, <2>1, Zenon DEF ReadStarted, Goto
      <3>. QED
        BY <1>r, <2>0, <3>4, <3>5, <3>6, <3>7, GotoKeeps, Zenon
    <2>2. CASE ~(lch[L].registered /\ Alive(L))
      BY <1>1, <1>r, <2>0, <2>2, AbortKeeps, Zenon DEF ReadStarted
    <2>. QED
      BY <2>1, <2>2, Zenon
  <1>2. CASE Register(L)
    <2>0. /\ lch[L].pc = "registering" /\ lch[L].call = "MarkPayloadRegistered" /\ lch[L].lease # NoId
          /\ faults' = faults /\ UNCHANGED LauncherVars /\ ~GaveUp(lch[L])
          /\ wrk[L].pc \in StartedPcs /\ Registrable(L) /\ ~wrk[L].reader
      BY <1>0, <1>2, LauncherIs, Zenon
      DEF Register, LastCall, HoldsLease, ReportsHold, EntryFollows, GaveUp
    <2>1. CASE ~Alive(L)
      <3>1. faults # 0
        BY <2>0, <2>1, Zenon DEF IInv, LoginInv, NoFaultYet, Alive, DeadPcs
      <3>. QED
        BY <1>2, <2>0, <2>1, <3>1, FailKeeps, Zenon DEF Register
    <2>2. CASE Alive(L)
      <3>. DEFINE m == Msg("Register", L, lch[L].lease, FALSE, 0)
                  l == CallTo(L, m, NoId)
      <3>0. m \in Messages /\ m.id = L /\ m.call = "Register" /\ m.lease = lch[L].lease
        BY <1>0, Zenon DEF Msg, Messages, Calls, Launchers
      <3>1. /\ l \in Launchers /\ l.pc = "calling" /\ l.call = "Register" /\ l.lease = NoId
            /\ lch' = [lch EXCEPT ![L] = l] /\ mbox' = Append(mbox, m)
        BY <1>2, <2>2, <3>0, CallIs, Zenon DEF Register
      <3>2. LauncherTakes(L, l, wrk[L]) /\ wrk[L] \in Workers
        BY <1>0, <1>2, <2>0, <2>2, <3>1, WorkerIs, Zenon DEF LauncherTakes, Register
      <3>. HIDE DEF l, m
      <3>3. ReportsHold(wrk[L], l)
        BY <2>0, <3>1, ReportsKept, Lefts, Zenon
      <3>4. LastCall(l) /\ ~HoldsLease(l)
        BY <3>1, Zenon DEF LastCall, HoldsLease, EntryCalls, VtCalls
      <3>5. wrk[L].pc # "none"
        BY <2>0, Zenon DEF StartedPcs
      <3>6. LauncherMay(L, l, wrk[L])
        BY <2>0, <2>2, <3>1, <3>3, <3>4, <3>5, Zenon DEF LauncherMay
      <3>. QED
        BY <2>0, <3>0, <3>1, <3>2, <3>6, SendingKeeps, Zenon DEF LeaseCalls, VtCalls
    <2>. QED
      BY <2>1, <2>2, Zenon
  <1>3. CASE AfterRegister(L)
    <2>0. lch[L].lease = NoId /\ lch[L].call \notin EntryCalls /\ lch[L].pc = "replied"
          /\ lch[L].call = "Register"
      BY <1>0, <1>3, Zenon DEF HoldsLease, Returned, EntryCalls, AfterRegister
    <2>1. CASE lch[L].ok
      <3>. DEFINE l == [lch[L] EXCEPT !.pc = "started"]
      <3>1. l.pc = "started" /\ l.call = lch[L].call /\ l.registered = lch[L].registered
        BY <1>0, Zenon DEF Launchers
      <3>2. LastCall(l) /\ (HoldsLease(l) <=> HoldsLease(lch[L]))
        BY <1>0, <2>0, <3>1, Zenon DEF LastCall, HoldsLease, VtCalls, EntryCalls
      <3>. QED
        BY <1>0, <1>3, <2>0, <2>1, <3>2, GotoKeeps, Lefts, Zenon
        DEF AfterRegister, Goto
    <2>2. CASE ~lch[L].ok
      BY <1>3, <2>0, <2>2, FailKeeps, Zenon DEF AfterRegister
    <2>. QED
      BY <2>1, <2>2, Zenon
  <1>4. CASE ReadResponse(L)
    <2>0. Reads(L, "Response")
      BY <1>4, Zenon DEF ReadResponse
    <2>. DEFINE l == [lch[L] EXCEPT !.pc = "waitExit"]
    <2>1. l.pc = "waitExit" /\ l.call = lch[L].call /\ l.registered = lch[L].registered
      BY <1>0, Zenon DEF Launchers
    <2>2. LastCall(l) /\ (HoldsLease(l) <=> HoldsLease(lch[L]))
      BY <1>0, <1>r, <2>0, <2>1, Zenon DEF LastCall, HoldsLease
    <2>3. /\ lch' = [lch EXCEPT ![L].pc = "waitExit"] /\ mbox' = mbox /\ faults' = faults
          /\ UNCHANGED LauncherVars
      BY <1>4, Zenon DEF ReadResponse, Goto
    <2>. QED
      BY <1>r, <2>0, <2>2, <2>3, GotoKeeps, Zenon
  <1>5. CASE WorkerExitSeen(L)
    BY <1>0, <1>5, Lefts, AbortKeeps, Zenon DEF WorkerExitSeen
  <1>6. CASE WorkerLost(L)
    BY <1>0, <1>6, Lefts, AbortKeeps, Zenon DEF WorkerLost
  <1>7. CASE DeadlinePasses(L)
    <2>1. faults' = faults \/ Spend(1)
      BY <1>7 DEF DeadlinePasses, Cost, Spend, IInv, TypeOK
    <2>2. wrk' = [wrk EXCEPT ![L] = Killed(wrk[L])]
      BY <1>7, LauncherIs, Zenon DEF DeadlinePasses
    <2>. QED
      BY <1>7, <2>1, <2>2, Lefts, AbortKeeps, Zenon DEF DeadlinePasses
  <1>8. CASE AfterAbort(L)
    <2>1. lch[L].lease = NoId /\ lch[L].call \notin EntryCalls
      BY <1>0, <1>8, Zenon DEF HoldsLease, Returned, EntryCalls, AfterAbort
    <2>. QED
      BY <1>8, <2>1, FailKeeps, Zenon DEF AfterAbort, Returned
  <1>. QED
    BY <1>1, <1>2, <1>3, <1>4, <1>5, <1>6, <1>7, <1>8

\* Every step of a launcher keeps the invariant.
LEMMA LauncherStep ==
    ASSUME IInv, NEW L \in LifecycleIds, LauncherNext(L)
    PROVE  IInv'
  BY StartSteps, PromptSteps, ScopeSteps, EndSteps, Zenon
  DEF LauncherNext, LauncherSteps

-----------------------------------------------------------------------------
(* A call is handled.                                                      *)

Waitable == {"ReserveSeat", "BeginPending", "Register", "AbortPending"} \cup EntryCalls

\* The queue and the launcher of login L after a reply to its call c.
AfterCall(L, c, ok, lease) ==
    /\ mbox' \in Seq(Messages) /\ CallsAreUnique' /\ Box' \subseteq Box
    /\ \A id \in LifecycleIds \ {L} : SameCalls(id) /\ lch'[id] = lch[id]
    /\ \A x : x \notin VtCalls => (InBox(L, x)' <=> InBox(L, x) /\ x # c)
    /\ InBox(L, c) /\ lch' \in [LifecycleIds -> Launchers]
    /\ lch'[L].call = lch[L].call
    /\ Waiting(L, c) => lch'[L].pc = "replied" /\ lch'[L].ok = ok /\ lch'[L].lease = lease
    /\ ~Waiting(L, c) => lch'[L] = lch[L]
    /\ LastCall(lch[L])' /\ QueuedCalls(L)'
    /\ faults = 0 => \A x \in Waitable : ~InBox(L, x)'
    /\ faults = 0 /\ c # "CancelAdmission" => Waiting(L, c)

\* The supervisor takes a call from its channel and replies: what is left in the
\* channel, and what the launcher of that call knows then.
LEMMA Handled ==
    ASSUME IInv, NEW L \in LifecycleIds, NEW c \in Calls \ VtCalls, Handle(c), Head(mbox).id = L,
           NEW ok \in BOOLEAN, NEW lease \in Tokens \union {NoId}, NEW gen \in Nat,
           Reply(L, c, ok, lease, gen)
    PROVE  AfterCall(L, c, ok, lease)
  <1>0. /\ mbox \in Seq(Messages) /\ CallsAreUnique /\ mbox # <<>> /\ mbox' = Tail(mbox)
        /\ Head(mbox).call = c /\ LoginInv(L) /\ c \notin VtCalls
    BY Zenon DEF IInv, TypeOK, Handle
  <1>1. /\ mbox' \in Seq(Messages) /\ CallsAreUnique' /\ Head(mbox) \in Box
        /\ Box' \subseteq Box /\ Box \ {Head(mbox)} \subseteq Box'
        /\ \A m \in Box' : ~(m.id = L /\ m.call = c)
    BY <1>0, Received, Zenon
  <1>2. \A id \in LifecycleIds \ {L} : SameCalls(id)
    BY <1>1, Zenon DEF SameCalls
  <1>3. InBox(L, c) /\ \A x : InBox(L, x)' <=> InBox(L, x) /\ x # c
    BY <1>0, <1>1, Zenon DEF InBox
  <1>4. lch[L] \in Launchers /\ lch \in [LifecycleIds -> Launchers]
    BY Zenon DEF IInv, TypeOK
  <1>. DEFINE l == [lch[L] EXCEPT !.pc = "replied", !.ok = ok, !.lease = lease, !.gen = gen]
  <1>5. /\ l \in Launchers /\ l.pc = "replied" /\ l.ok = ok /\ l.lease = lease
        /\ l.call = lch[L].call /\ l.registered = lch[L].registered
    BY <1>4, Zenon DEF Launchers, LauncherPcs
  <1>6. /\ Waiting(L, c) => lch' = [lch EXCEPT ![L] = l]
        /\ ~Waiting(L, c) => lch' = lch
    BY <1>4, Zenon DEF Reply
  <1>. HIDE DEF l
  <1>7. /\ lch' \in [LifecycleIds -> Launchers]
        /\ \A id \in LifecycleIds \ {L} : lch'[id] = lch[id]
        /\ Waiting(L, c) => lch'[L] = l
        /\ ~Waiting(L, c) => lch'[L] = lch[L]
    BY <1>4, <1>5, <1>6, Zenon
  <1>8. lch'[L].call = lch[L].call /\ lch'[L].registered = lch[L].registered
    BY <1>5, <1>7, Zenon
  <1>9. LastCall(lch[L])'
    BY <1>0, <1>5, <1>7, <1>8, ZenonT(60) DEF LoginInv, LastCall
  <1>10. QueuedCalls(L)'
    <2>1. ASSUME NEW x, x # c, lch[L].call = x
          PROVE  lch'[L] = lch[L]
      BY <1>7, <2>1, Zenon DEF Waiting
    <2>2. lch[L].pc = "failed" => lch'[L] = lch[L]
      BY <1>7, Zenon DEF Waiting
    <2>. QED
      BY <1>0, <1>3, <1>8, <2>1, <2>2 DEF LoginInv, QueuedCalls, GaveUp
  <1>11. ASSUME faults = 0
         PROVE  /\ c # "CancelAdmission" => Waiting(L, c)
                /\ \A x \in Waitable : ~InBox(L, x)'
    <2>1. /\ \A x \in Waitable : InBox(L, x) => Waiting(L, x)
          /\ InBox(L, "CancelAdmission") => lch[L].pc = "failed"
      BY <1>0, <1>11, Zenon DEF LoginInv, NoFaultYet, QueuedCalls, Waitable
    <2>2. c \in Waitable \cup {"CancelAdmission"}
      BY <1>0, Zenon DEF Waitable, Calls, VtCalls, EntryCalls
    <2>. QED
      BY <1>3, <2>1, <2>2, Zenon DEF Waiting
  <1>. QED
    BY <1>1, <1>2, <1>3, <1>5, <1>7, <1>8, <1>9, <1>10, <1>11 DEF AfterCall

\* The seat is taken, moved or freed for login L only.
SeatMoves(L) == adm' = adm \/ (Owner \in {NoId, L} /\ (Owner' \in {NoId, L}))

\* Everything else that the supervisor writes for login L.
Writes(L, e, k, r, w, z) ==
    /\ pend' = [pend EXCEPT ![L] = e] /\ kids' = [kids EXCEPT ![L] = k]
    /\ rec' = [rec EXCEPT ![L] = r] /\ wrk' = [wrk EXCEPT ![L] = w]
    /\ scope' = [scope EXCEPT ![L] = z]

\* Such a step keeps the invariant when login L's is kept.
LEMMA SupervisorWrites ==
    ASSUME IInv, NEW L \in LifecycleIds, NEW e \in Entries, NEW k \in Kids, NEW r \in Records,
           NEW w \in Workers, NEW z \in ScopeStates, Writes(L, e, k, r, w, z)
    PROVE  /\ pend'[L] = e /\ kids'[L] = k /\ rec'[L] = r /\ wrk'[L] = w /\ scope'[L] = z
           /\ /\ mbox' \in Seq(Messages) /\ CallsAreUnique' /\ loop' \in {"recv", "reap", "down"}
              /\ \A id \in LifecycleIds \ {L} : SameCalls(id) /\ lch'[id] = lch[id]
              /\ lch' \in [LifecycleIds -> Launchers]
              /\ adm' \in Controllers /\ AdmissionExclusive' /\ SeatMoves(L)
              /\ faults' \in 0 .. MaxFaults /\ (faults' = 0 => faults = 0)
              /\ LoginInv(L)'
              => IInv'
  <1>0. TypeOK
    BY Zenon DEF IInv
  <1>1. pend'[L] = e /\ \A id \in LifecycleIds \ {L} : pend'[id] = pend[id]
    BY <1>0, Zenon DEF TypeOK, Writes
  <1>2. kids'[L] = k /\ \A id \in LifecycleIds \ {L} : kids'[id] = kids[id]
    BY <1>0, Zenon DEF TypeOK, Writes
  <1>3. rec'[L] = r /\ \A id \in LifecycleIds \ {L} : rec'[id] = rec[id]
    BY <1>0, Zenon DEF TypeOK, Writes
  <1>4. wrk'[L] = w /\ \A id \in LifecycleIds \ {L} : wrk'[id] = wrk[id]
    BY <1>0, Zenon DEF TypeOK, Writes
  <1>5. scope'[L] = z /\ \A id \in LifecycleIds \ {L} : scope'[id] = scope[id]
    BY <1>0, Zenon DEF TypeOK, Writes
  <1>6. /\ pend' \in [LifecycleIds -> Entries] /\ kids' \in [LifecycleIds -> Kids]
        /\ rec' \in [LifecycleIds -> Records]
    BY <1>0, Zenon DEF TypeOK, Writes
  <1>7. wrk' \in [LifecycleIds -> Workers] /\ scope' \in [LifecycleIds -> ScopeStates]
    BY <1>0, Zenon DEF TypeOK, Writes
  <1>8. ASSUME /\ mbox' \in Seq(Messages) /\ CallsAreUnique' /\ loop' \in {"recv", "reap", "down"}
               /\ \A id \in LifecycleIds \ {L} : SameCalls(id) /\ lch'[id] = lch[id]
               /\ lch' \in [LifecycleIds -> Launchers]
               /\ adm' \in Controllers /\ AdmissionExclusive' /\ SeatMoves(L)
               /\ faults' \in 0 .. MaxFaults /\ (faults' = 0 => faults = 0)
               /\ LoginInv(L)'
        PROVE  IInv'
    <2>1. TypeOK'
      BY <1>6, <1>7, <1>8, Zenon DEF TypeOK
    <2>2. \A id \in LifecycleIds \ {L} : Elsewhere(id)
      BY <1>8, NoIdAssumption DEF SeatMoves, Elsewhere
    <2>3. \A id \in LifecycleIds \ {L} : Untouched(id)
      BY <1>1, <1>2, <1>3, <1>4, <1>5, <1>8, <2>2, ZenonT(60) DEF Untouched
    <2>. QED
      BY <1>8, <2>1, <2>3, OneLogin, Zenon
  <1>. QED
    BY <1>1, <1>2, <1>3, <1>4, <1>5, <1>8, Zenon

\* What the supervisor knows of a login.
LEMMA LoginIs ==
    ASSUME IInv, NEW L \in LifecycleIds
    PROVE  /\ pend[L] \in Entries /\ kids[L] \in Kids /\ rec[L] \in Records /\ wrk[L] \in Workers
           /\ scope[L] \in ScopeStates /\ lch[L] \in Launchers /\ adm \in Controllers
           /\ pend = [pend EXCEPT ![L] = pend[L]] /\ kids = [kids EXCEPT ![L] = kids[L]]
           /\ rec = [rec EXCEPT ![L] = rec[L]] /\ wrk = [wrk EXCEPT ![L] = wrk[L]]
           /\ scope = [scope EXCEPT ![L] = scope[L]]
           /\ LoginInv(L) /\ AdmissionExclusive /\ faults \in 0 .. MaxFaults
  BY Zenon DEF IInv, TypeOK

-----------------------------------------------------------------------------
(* What the supervisor does to the seat.                                   *)

\* The seat of login L moves to a lifecycle of L.
LEMMA SeatMovesOn ==
    ASSUME IInv, NEW L \in LifecycleIds, NEW tag \in {"Active", "Recovering", "Quarantined"},
           Owner = L,
           \/ adm' = DoLeavePending(adm, tag, L)
           \/ adm.phase.tag = "Free" /\ adm' = DoMoveLifecycle(adm, tag, L)
    PROVE  /\ adm' \in Controllers /\ AdmissionExclusive' /\ SeatMoves(L) /\ (Owner' = L)
           /\ adm'.phase = NoPhase /\ adm'.lifecycle = SeatIs(tag, L)
           /\ adm'.generation = adm.generation
  <1>0. adm \in Controllers /\ L # NoId /\ AdmissionExclusive
    BY NoIdAssumption, Zenon DEF IInv, TypeOK
  <1>1. NoPhase \in Phases /\ SeatIs(tag, L) \in Lifecycles /\ NoPhase.tag = "Free"
    BY Zenon DEF NoPhase, Phases, PhaseTags, Ids, SeatIs, Lifecycles, LifecycleTags
  <1>2. /\ adm' \in Controllers /\ adm'.phase = NoPhase /\ adm'.lifecycle = SeatIs(tag, L)
        /\ adm'.generation = adm.generation
    BY <1>0, <1>1, Zenon
    DEF DoLeavePending, DoMoveLifecycle, Controllers, AdmissionExclusive
  <1>3. SeatIs(tag, L).tag = tag /\ SeatIs(tag, L).id = L /\ tag # "Free"
    BY Zenon DEF SeatIs
  <1>4. AdmissionExclusive' /\ (Owner' = L)
    BY <1>0, <1>1, <1>2, <1>3, Zenon DEF AdmissionExclusive, Owner
  <1>. QED
    BY <1>2, <1>4, Zenon DEF SeatMoves

\* The seat of login L is freed.
LEMMA SeatIsFreed ==
    ASSUME IInv, NEW L \in LifecycleIds, Owner = L,
           \/ adm' = DoRelease(DoLeavePending(adm, "Recovering", L))
           \/ adm.phase.tag # "Free" /\ adm' = DoCancel(adm)
           \/ adm.phase.tag = "Free" /\ adm' = DoRelease(adm)
    PROVE  /\ adm' \in Controllers /\ AdmissionExclusive' /\ SeatMoves(L) /\ (Owner' = NoId)
           /\ adm'.phase = NoPhase /\ adm'.lifecycle = FreeSeat
           /\ adm'.generation = adm.generation
  <1>0. adm \in Controllers /\ AdmissionExclusive
    BY Zenon DEF IInv, TypeOK
  <1>1. /\ NoPhase \in Phases /\ FreeSeat \in Lifecycles /\ NoPhase.tag = "Free"
        /\ FreeSeat.tag = "Free" /\ FreeSeat.id = NoId
    BY Zenon DEF NoPhase, Phases, PhaseTags, Ids, FreeSeat, Lifecycles, LifecycleTags
  <1>2. /\ adm' \in Controllers /\ adm'.phase = NoPhase /\ adm'.lifecycle = FreeSeat
        /\ adm'.generation = adm.generation
    <2>1. CASE adm' = DoRelease(DoLeavePending(adm, "Recovering", L))
      BY <1>0, <1>1, <2>1, Zenon DEF DoLeavePending, DoRelease, Controllers
    <2>2. CASE adm.phase.tag # "Free" /\ adm' = DoCancel(adm)
      BY <1>0, <1>1, <2>2, Zenon DEF DoCancel, Controllers, AdmissionExclusive
    <2>3. CASE adm.phase.tag = "Free" /\ adm' = DoRelease(adm)
      BY <1>0, <1>1, <2>3, Zenon DEF DoRelease, Controllers, AdmissionExclusive
    <2>. QED
      BY <2>1, <2>2, <2>3, Zenon
  <1>3. AdmissionExclusive' /\ (Owner' = NoId)
    BY <1>1, <1>2, Zenon DEF AdmissionExclusive, Owner
  <1>. QED
    BY <1>2, <1>3, Zenon DEF SeatMoves

\* The seat enters a phase of login L: from free, or from its phase before.
LEMMA SeatInPhase ==
    ASSUME IInv, NEW L \in LifecycleIds, NEW t \in Tokens, t.id = L, t.kind \in LeaseKinds,
           \/ /\ CanReserve(adm, "Clear") /\ adm' = DoReserve(adm, L)
              /\ t = [ReserveLease(adm, L) EXCEPT !.bound = TRUE]
           \/ /\ Owner = L /\ adm.phase.tag # "Free" /\ adm' = DoAdvance(adm, t, t.kind)
              /\ adm.phase.gen = t.gen /\ adm.generation = t.gen
    PROVE  /\ adm' \in Controllers /\ AdmissionExclusive' /\ SeatMoves(L) /\ (Owner' = L)
           /\ adm'.phase.tag = t.kind /\ adm'.phase.tag # "Free" /\ adm'.lifecycle = FreeSeat
           /\ adm.lifecycle = FreeSeat /\ (MatchesPhase(adm, t)')
  <1>0. adm \in Controllers /\ AdmissionExclusive /\ L # NoId /\ L \in Ids
    BY NoIdAssumption, Zenon DEF IInv, TypeOK, Ids
  <1>1. adm.generation \in Nat /\ adm.nextAttempt \in Nat /\ adm.phase \in Phases
    BY <1>0, Zenon DEF Controllers
  <1>2. t.attempt \in Nat /\ t.gen \in Nat /\ t.kind \in PhaseTags /\ t.kind # "Free"
    BY Zenon DEF Tokens, LeaseKinds, PhaseTags
  <1>3. CASE /\ CanReserve(adm, "Clear") /\ adm' = DoReserve(adm, L)
             /\ t = [ReserveLease(adm, L) EXCEPT !.bound = TRUE]
    <2>1. /\ t.kind = "Reserved" /\ t.attempt = adm.nextAttempt /\ t.gen = adm.generation + 1
      BY <1>3, Zenon DEF ReserveLease, Lease
    <2>. DEFINE p == [tag |-> "Reserved", attempt |-> adm.nextAttempt,
                      id |-> L, gen |-> adm.generation + 1]
    <2>2. p \in Phases
      BY <1>0, <1>1 DEF Phases, PhaseTags
    <2>3. /\ adm' \in Controllers /\ adm'.phase = p /\ adm'.lifecycle = adm.lifecycle
          /\ adm'.generation = adm.generation + 1
      <3>1. adm' = [adm EXCEPT !.nextAttempt = adm.nextAttempt + 1,
                               !.generation = adm.generation + 1, !.phase = p]
        BY <1>3, Zenon DEF DoReserve
      <3>. HIDE DEF p
      <3>2. adm.nextAttempt + 1 \in Nat /\ adm.generation + 1 \in Nat
        BY <1>1
      <3>. QED
        BY <1>0, <2>2, <3>1, <3>2, Zenon DEF Controllers
    <2>4. adm.phase.tag = "Free" /\ adm.lifecycle = FreeSeat /\ Owner = NoId
      BY <1>0, <1>3 DEF CanReserve, AdmissionExclusive, Owner, FreeSeat
    <2>5. AdmissionExclusive' /\ (Owner' = L) /\ (MatchesPhase(adm, t)')
      BY <1>0, <2>1, <2>3, <2>4 DEF AdmissionExclusive, Owner, MatchesPhase, FreeSeat
    <2>. QED
      BY <1>2, <2>1, <2>3, <2>4, <2>5 DEF SeatMoves
  <1>4. CASE /\ Owner = L /\ adm.phase.tag # "Free" /\ adm' = DoAdvance(adm, t, t.kind)
             /\ adm.phase.gen = t.gen /\ adm.generation = t.gen
    <2>. DEFINE p == [tag |-> t.kind, attempt |-> t.attempt, id |-> t.id, gen |-> t.gen]
    <2>1. p \in Phases
      BY <1>0, <1>2, Zenon DEF Phases
    <2>2. /\ adm' \in Controllers /\ adm'.phase = p /\ adm'.lifecycle = adm.lifecycle
          /\ adm'.generation = adm.generation
      BY <1>0, <1>4, <2>1, Zenon DEF DoAdvance, Controllers
    <2>3. adm.lifecycle = FreeSeat
      BY <1>0, <1>4, Zenon DEF AdmissionExclusive
    <2>4. AdmissionExclusive' /\ (Owner' = L) /\ (MatchesPhase(adm, t)')
      BY <1>0, <1>2, <1>4, <2>2, <2>3
      DEF AdmissionExclusive, Owner, MatchesPhase, FreeSeat
    <2>. QED
      BY <1>2, <1>4, <2>2, <2>3, <2>4 DEF SeatMoves
  <1>. QED
    BY <1>3, <1>4, Zenon

-----------------------------------------------------------------------------
(* The calls about an entry.                                               *)

\* A lease stays good when the seat does not change or the phase is left.
LEMMA LeasesLast ==
    ASSUME NEW L \in LifecycleIds, NEW t, LeaseOf(L, t), adm' = adm \/ adm'.phase.tag = "Free"
    PROVE  LeaseOf(L, t)'
  BY Zenon DEF LeaseOf, Owner

\* The entry becomes e, the record r; the seat stays, or is quarantined.
EntryMoves(L, c, ok, e, r) ==
    /\ pend' = [pend EXCEPT ![L] = e] /\ rec' = [rec EXCEPT ![L] = r]
    /\ UNCHANGED <<kids, wrk, scope>>
    /\ e.st = "none" <=> pend[L].st = "none"
    /\ pend[L].st = "Quarantined" => e.st = "Quarantined"
    /\ HasPayload(pend[L]) => HasPayload(e)
    /\ HasPayload(e) => HasPayload(pend[L]) \/ r.state # "none"
    /\ \/ r.state = rec[L].state
       \/ pend[L].st # "none" /\ HasPayload(e) /\ r.state \notin {"none", "vt_disallocate_failed_busy"}
    /\ \/ adm' = adm
       \/ /\ pend[L].st \notin {"none", "Quarantined"} /\ e.st = "Quarantined"
          /\ adm' = DoLeavePending(adm, "Quarantined", L)
    /\ c = "RecordPreparedScope" /\ ok =>
           e.st = "PayloadPrepared" /\ e.release = "NotRequested" /\ ~e.terminal
    /\ c = "MarkPayloadRegistered" /\ ok /\ Waiting(L, c) =>
           e.st = "PayloadRegistered" /\ e.release = "NotRequested" /\ ~e.terminal

\* A call that only moves the pending entry and its record keeps the inductive
\* invariant.
LEMMA EntryKeeps ==
    ASSUME IInv, NEW L \in LifecycleIds, NEW c \in EntryCalls, Handle(c), Head(mbox).id = L,
           NEW ok \in BOOLEAN, NEW gen \in Nat, Reply(L, c, ok, lch[L].lease, gen),
           NEW e \in Entries, NEW r \in Records, EntryMoves(L, c, ok, e, r),
           faults' = faults \/ Spend(1)
    PROVE  IInv'
  <1>0. LoginInv(L) /\ AdmissionExclusive
    BY LoginIs, Zenon
  <1>h. AfterCall(L, c, ok, lch[L].lease)
    <2>1. c \in Calls \ VtCalls
      BY Zenon DEF EntryCalls, Calls, VtCalls
    <2>2. lch[L].lease \in Tokens \union {NoId}
      BY LoginIs, Zenon DEF Launchers
    <2>3. PICK t \in Tokens \union {NoId} : t = lch[L].lease
      BY <2>2, Zenon
    <2>4. Reply(L, c, ok, t, gen)
      BY <2>3, Zenon
    <2>. QED
      BY <2>1, <2>3, <2>4, Handled, Zenon
  <1>1. Writes(L, e, kids[L], r, wrk[L], scope[L])
    BY LoginIs, Zenon DEF Writes, EntryMoves
  <1>2. /\ pend'[L] = e /\ rec'[L] = r /\ kids'[L] = kids[L] /\ wrk'[L] = wrk[L]
        /\ scope'[L] = scope[L]
    BY <1>1, LoginIs, SupervisorWrites
  <1>3. pend[L].st \notin {"none", "Quarantined"} => Owner = L /\ adm.phase.tag = "PendingLifecycle"
    BY <1>0, Zenon DEF LoginInv, EntryHasSeat
  <1>4. /\ adm' \in Controllers /\ AdmissionExclusive' /\ SeatMoves(L)
        /\ (Owner = L)' <=> Owner = L
        /\ \/ adm' = adm
           \/ /\ pend[L].st \notin {"none", "Quarantined"} /\ e.st = "Quarantined" /\ Owner = L
              /\ adm'.phase = NoPhase /\ adm'.lifecycle = SeatIs("Quarantined", L)
    <2>1. CASE adm' = adm
      BY <2>1, LoginIs, Zenon DEF SeatMoves, AdmissionExclusive, Owner
    <2>2. CASE adm' # adm
      BY <1>3, <2>2, SeatMovesOn, Zenon DEF EntryMoves
    <2>. QED
      BY <2>1, <2>2, Zenon
  <1>5. faults' \in 0 .. MaxFaults /\ (faults' = 0 => faults = 0)
    BY LoginIs, Counted, Zenon DEF IInv
  <1>6. lch'[L].lease = lch[L].lease /\ (HoldsLease(lch[L])' <=> HoldsLease(lch[L]))
    BY <1>h, Zenon DEF AfterCall, HoldsLease, Waiting, EntryCalls
  <1>7. NoLease(L)' <=> NoLease(L)
    BY <1>h, <1>6, Kinds, Zenon DEF AfterCall, NoLease
  <1>8. Leases(L)'
    <2>1. adm' = adm \/ adm'.phase.tag = "Free"
      BY <1>4 DEF NoPhase
    <2>2. \A t : LeaseOf(L, t) => LeaseOf(L, t)'
      BY <2>1, LeasesLast, Zenon
    <2>. QED
      BY <1>0, <1>h, <1>6, <2>2, ZenonT(60) DEF AfterCall, LoginInv, Leases
  <1>9. lch[L].call \in {"AbortPending", c}
    BY <1>0, <1>h, ZenonT(60) DEF AfterCall, LoginInv, QueuedCalls
  <1>10. EntryFollows(L)'
    <2>1. ~InBox(L, "Register") /\ ~InBox(L, "BeginPending")
      BY <1>0, <1>9, Zenon DEF LoginInv, QueuedCalls, EntryCalls
    <2>2. c = lch[L].call => GaveUp(lch[L])
      BY <1>0, <1>h, Kinds, Zenon DEF AfterCall, LoginInv, QueuedCalls, EntryCalls
    <2>3. ~InBox(L, "Register")' /\ ~InBox(L, "BeginPending")'
      BY <1>h, <2>1, Kinds, Zenon DEF AfterCall
    <2>. QED
      BY <1>h, <1>2, <1>9, <2>2, <2>3
         DEF AfterCall, EntryFollows, Returned, Waiting, Registrable, EntryMoves,
             GaveUp
  <1>11. pend[L].st # "none" => wrk[L].pc # "none" /\ ~wrk[L].reader
    BY <1>0, ZenonT(60) DEF LoginInv, WorkerReports
  <1>12. WorkerReports(L)'
    <2>1. lch'[L].pc = "registering" => lch[L].pc = "registering"
      BY <1>h, ZenonT(60) DEF AfterCall
    <2>. QED
      BY <1>0, <1>h, <1>2, <1>11, <2>1
      DEF AfterCall, LoginInv, WorkerReports, HasRecord, EntryMoves
  <1>13. EntryHasSeat(L)'
    <2>1. HasPayload(e) => r.state # "none"
      BY <1>0, Zenon DEF EntryMoves, LoginInv, EntryHasSeat, HasRecord
    <2>2. e.st # "none" => Owner = L
      BY <1>0, Zenon DEF EntryMoves, LoginInv, EntryHasSeat
    <2>. QED
      BY <1>0, <1>2, <1>3, <1>4, <2>1, <2>2
         DEF EntryMoves, LoginInv, EntryHasSeat, HasRecord, SeatIs
  <1>14. ChildHasSeat(L)'
    <2>1. Supervised(L) => adm' = adm /\ r.state # "none"
      <3>1. SeatIs("Active", L).tag = "Active"
        BY Zenon DEF SeatIs
      <3>2. Supervised(L) => adm.lifecycle.tag = "Active" /\ HasRecord(L)
        BY <1>0, <3>1, Zenon DEF LoginInv, ChildHasSeat
      <3>3. pend[L].st \notin {"none", "Quarantined"} => adm.lifecycle.tag = "Free"
        BY <1>0, <1>3, Zenon DEF AdmissionExclusive
      <3>4. Supervised(L) => adm' = adm
        BY <1>4, <3>2, <3>3, Zenon
      <3>5. HasRecord(L) => r.state # "none"
        BY ZenonT(60) DEF HasRecord, EntryMoves
      <3>. QED
        BY <3>2, <3>4, <3>5, Zenon
    <2>. QED
      BY <1>0, <1>2, <2>1, Zenon DEF LoginInv, ChildHasSeat, Supervised, HasRecord
  <1>15. RecordHasSeat(L)'
    <2>1. rec[L].state = "vt_disallocate_failed_busy" => adm' = adm
      <3>1. pend[L].st \notin {"none", "Quarantined"} => adm.lifecycle = FreeSeat
        BY <1>0, <1>3, Zenon DEF AdmissionExclusive
      <3>2. FreeSeat.id # L
        BY NoIdAssumption, Zenon DEF FreeSeat
      <3>. QED
        BY <1>0, <1>4, <3>1, <3>2, Zenon DEF LoginInv, RecordHasSeat
    <2>2. pend[L].st # "none" => Owner = L
      BY <1>0, Zenon DEF LoginInv, EntryHasSeat
    <2>3. HasRecord(L)' => HasPayload(pend[L])' \/ NoLease(L)'
      BY <1>0, <1>2, <1>7, ZenonT(60)
      DEF LoginInv, RecordHasSeat, HasRecord, EntryMoves
    <2>4. /\ HasRecord(L) => r.state # "none"
          /\ r.state = "vt_disallocate_failed_busy" => rec[L].state = r.state
          /\ Owner # L => r.state = rec[L].state
      BY <2>2, Zenon DEF EntryMoves, HasRecord
    <2>5. RecordHasSeat(L)
      BY <1>0, Zenon DEF LoginInv
    <2>6. (wrk[L].pc = "acked" \/ scope[L] = "user")' => (Owner = L)' /\ HasRecord(L)'
      BY <1>2, <1>4, <2>4, <2>5, Zenon DEF RecordHasSeat, HasRecord
    <2>7. (rec[L].state = "vt_disallocate_failed_busy")' =>
              (adm.lifecycle.id = L /\ (Supervised(L) => kids[L].busy))'
      BY <1>2, <2>1, <2>4, <2>5, Zenon DEF RecordHasSeat, Supervised
    <2>8. (HasRecord(L) /\ Owner # L)' =>
              (/\ scope[L] = "empty" /\ ~Alive(L)
               /\ faults = 0 => rec[L].state = "worker_exited_unexpectedly")'
      BY <1>2, <1>4, <1>5, <2>4, <2>5, Zenon DEF RecordHasSeat, HasRecord, Alive
    <2>. QED
      BY <2>3, <2>6, <2>7, <2>8, Zenon DEF RecordHasSeat
  <1>16. NoFaultYet(L)'
    <2>1. lch'[L].pc = "registering" => lch[L].pc = "registering"
      BY <1>h DEF AfterCall
    <2>2. ASSUME faults' = 0
          PROVE  lch[L].pc = "registering" => wrk[L].pc \in {"running", "wantIntent"}
      BY <1>0, <1>5, <2>2, ZenonT(60) DEF LoginInv, NoFaultYet
    <2>3. ASSUME faults' = 0
          PROVE  /\ (Owner = L)' /\ adm'.phase.tag # "Free" => ~NoLease(L)'
                 /\ (Owner = L)' => adm'.lifecycle.tag # "Recovering"
      <3>1. /\ Owner = L /\ adm.phase.tag # "Free" => ~NoLease(L)
            /\ Owner = L => adm.lifecycle.tag # "Recovering"
        BY <1>0, <1>5, <2>3, Zenon DEF LoginInv, NoFaultYet
      <3>2. CASE adm' = adm
        BY <1>4, <1>7, <3>1, <3>2, Zenon
      <3>3. CASE adm'.phase = NoPhase /\ adm'.lifecycle = SeatIs("Quarantined", L)
        <4>1. adm'.phase.tag = "Free"
          BY <3>3 DEF NoPhase
        <4>2. adm'.lifecycle.tag = "Quarantined"
          BY <3>3, SMTT(30) DEF SeatIs
        <4>. QED
          BY <4>1, <4>2, ZenonT(60)
      <3>. QED
        BY <1>4, <3>2, <3>3, Zenon
    <2>4. faults' = 0 => \A x \in Waitable : ~InBox(L, x)'
      BY <1>h, <1>5, Zenon DEF AfterCall
    <2>5. faults' = 0 => (lch[L].pc = "registering" => wrk[L].pc \in {"running", "wantIntent"})'
      BY <1>2, <2>1, <2>2, Zenon
    <2>. QED
      BY <2>3, <2>4, <2>5, Zenon DEF NoFaultYet, Waitable
  <1>17. LoginInv(L)'
    BY <1>h, <1>8, <1>10, <1>12, <1>13, <1>14, <1>15, <1>16, SMTT(30)
    DEF AfterCall, LoginInv
  <1>. QED
    BY <1>h, <1>1, <1>4, <1>5, <1>17, LoginIs, SupervisorWrites DEF AfterCall, Handle

\* The login that a message is about.
LEMMA HandledLogin ==
    ASSUME IInv, NEW c, Handle(c)
    PROVE  \E L \in LifecycleIds : L = Head(mbox).id
  <1>1. mbox \in Seq(Messages) /\ mbox # <<>>
    BY Zenon DEF IInv, TypeOK, Handle
  <1>2. Head(mbox) \in Messages
    BY <1>1
  <1>. QED
    BY <1>2, Zenon DEF Messages

\* What a store that may fail costs.
LEMMA Costs ==
    ASSUME IInv, NEW b, b \in BOOLEAN, Spend(Cost(b))
    PROVE  (faults' = faults \/ Spend(1)) /\ (faults' = 0 => b)
  <1>1. faults \in Nat /\ faults + 0 = faults
    BY MaxFaultsAssumption DEF IInv, TypeOK
  <1>. QED
    BY <1>1 DEF Spend, Cost

\* An error reply leaves everything as it is.
LEMMA EntryRefused ==
    ASSUME IInv, NEW L \in LifecycleIds, NEW c \in EntryCalls, Handle(c), Head(mbox).id = L,
           ReplyErr(L, c), UNCHANGED <<adm, pend, kids, rec, wrk, scope, faults>>
    PROVE  IInv'
  <1>1. EntryMoves(L, c, FALSE, pend[L], rec[L])
    BY LoginIs, Zenon DEF EntryMoves
  <1>2. Reply(L, c, FALSE, lch[L].lease, lch[L].gen) /\ lch[L].gen \in Nat
    BY LoginIs, Zenon DEF ReplyErr, Launchers
  <1>. QED
    BY <1>1, <1>2, LoginIs, EntryKeeps, Zenon

\* record_prepared_scope keeps the inductive invariant.
LEMMA RecordPreparedScopeStep ==
    ASSUME IInv, HandleRecordPreparedScope
    PROVE  IInv'
  <1>. DEFINE c == "RecordPreparedScope"
  <1>0. Handle(c) /\ UNCHANGED <<kids, wrk, scope>> /\ c \in EntryCalls
    BY Zenon DEF HandleRecordPreparedScope, EntryCalls
  <1>1. PICK L \in LifecycleIds : L = Head(mbox).id
    BY <1>0, HandledLogin, Zenon
  <1>. DEFINE e == pend[L]
              accepted == e.st = "WorkerSpawned" /\ ~e.terminal /\ e.release = "NotRequested"
  <1>2. e \in Entries /\ rec[L] \in Records /\ lch[L].gen \in Nat
        /\ pend \in [LifecycleIds -> Entries] /\ rec \in [LifecycleIds -> Records]
    BY LoginIs, Zenon DEF Launchers, IInv, TypeOK
  <1>3. CASE ReplyErr(L, c) /\ UNCHANGED <<adm, pend, rec, faults>>
    BY <1>0, <1>1, <1>3, EntryRefused, Zenon
  <1>4. ASSUME accepted, NEW stored \in BOOLEAN, Spend(Cost(stored)), adm' = adm,
               rec' = IF stored THEN [rec EXCEPT ![L].state = "payload_prepared"] ELSE rec,
               pend' = IF stored
                       THEN [pend EXCEPT ![L].st = "PayloadPrepared", ![L].gen = @ + 1]
                       ELSE [pend EXCEPT ![L].st = "Quarantined"],
               Reply(L, c, stored, lch[L].lease, 0)
        PROVE  IInv'
    <2>1. faults' = faults \/ Spend(1)
      BY <1>4, Costs, ZenonT(60)
    <2>2. CASE stored
      <3>. DEFINE x == [e EXCEPT !.st = "PayloadPrepared", !.gen = @ + 1]
                  r == [rec[L] EXCEPT !.state = "payload_prepared"]
      <3>1. /\ x \in Entries /\ x.st = "PayloadPrepared" /\ x.terminal = e.terminal
            /\ x.release = e.release /\ pend' = [pend EXCEPT ![L] = x]
        BY <1>2, <1>4, <2>2 DEF Entries, PendingStates
      <3>2. r \in Records /\ r.state = "payload_prepared" /\ rec' = [rec EXCEPT ![L] = r]
        BY <1>2, <1>4, <2>2, Zenon DEF Records, RecordStates
      <3>. HIDE DEF x, r
      <3>3. EntryMoves(L, c, stored, x, r)
        BY <1>0, <1>4, <3>1, <3>2, Zenon DEF EntryMoves, HasPayload
      <3>. QED
        BY <1>0, <1>1, <1>4, <2>1, <3>1, <3>2, <3>3, EntryKeeps, SMTT(30)
    <2>3. CASE ~stored
      <3>. DEFINE x == [e EXCEPT !.st = "Quarantined"]
      <3>1. x \in Entries /\ x.st = "Quarantined" /\ pend' = [pend EXCEPT ![L] = x]
        BY <1>2, <1>4, <2>3, Zenon DEF Entries, PendingStates
      <3>. HIDE DEF x
      <3>2. EntryMoves(L, c, stored, x, rec[L])
        BY <1>0, <1>2, <1>4, <2>3, <3>1, LoginIs, Zenon DEF EntryMoves, HasPayload
      <3>3. Reply(L, c, stored, lch[L].lease, 0)
        BY <1>4, Zenon
      <3>. QED
        BY <1>0, <1>1, <1>2, <2>1, <3>1, <3>2, <3>3, EntryKeeps, Zenon
    <2>. QED
      BY <2>2, <2>3, Zenon
  <1>5. CASE /\ accepted
             /\ Spend(Cost(scope[L] # "held"))
             /\ pend' = [pend EXCEPT ![L].st = "Quarantined", ![L].terminal = TRUE]
             /\ adm' = IF PendingIs(adm, L) THEN DoLeavePending(adm, "Quarantined", L) ELSE adm
             /\ ReplyErr(L, c)
             /\ UNCHANGED rec
    <2>1. faults' = faults \/ Spend(1)
      BY <1>5, Costs, Zenon
    <2>. DEFINE x == [e EXCEPT !.st = "Quarantined", !.terminal = TRUE]
    <2>2. x \in Entries /\ x.st = "Quarantined" /\ pend' = [pend EXCEPT ![L] = x]
      BY <1>2, <1>5, Zenon DEF Entries, PendingStates
    <2>. HIDE DEF x
    <2>3. EntryMoves(L, c, FALSE, x, rec[L])
      BY <1>0, <1>2, <1>5, <2>2, LoginIs, Zenon DEF EntryMoves, HasPayload
    <2>4. Reply(L, c, FALSE, lch[L].lease, lch[L].gen)
      BY <1>5, Zenon DEF ReplyErr
    <2>. QED
      BY <1>0, <1>1, <1>2, <2>1, <2>2, <2>3, <2>4, EntryKeeps, Zenon
  <1>. QED
    BY <1>1, <1>3, <1>4, <1>5, Zenon DEF HandleRecordPreparedScope

\* mark_payload_registered keeps the inductive invariant.
LEMMA MarkPayloadRegisteredStep ==
    ASSUME IInv, HandleMarkPayloadRegistered
    PROVE  IInv'
  <1>. DEFINE c == "MarkPayloadRegistered"
  <1>0. Handle(c) /\ UNCHANGED <<adm, kids, wrk, scope>> /\ c \in EntryCalls
    BY Zenon DEF HandleMarkPayloadRegistered, EntryCalls
  <1>1. PICK L \in LifecycleIds : L = Head(mbox).id
    BY <1>0, HandledLogin, Zenon
  <1>. DEFINE e == pend[L]
  <1>2. e \in Entries /\ rec[L] \in Records
        /\ pend \in [LifecycleIds -> Entries] /\ rec \in [LifecycleIds -> Records]
    BY LoginIs, Zenon DEF IInv, TypeOK
  <1>3. CASE ReplyErr(L, c) /\ UNCHANGED <<pend, rec, faults>>
    BY <1>0, <1>1, <1>3, EntryRefused, Zenon
  <1>4. ASSUME e.st = "PayloadPrepared", NEW stored \in BOOLEAN, Spend(Cost(stored)),
               pend' = [pend EXCEPT ![L].st = "PayloadRegistered"],
               rec' = IF stored THEN [rec EXCEPT ![L].state = "payload_registered"] ELSE rec,
               Reply(L, c, stored, lch[L].lease, 0)
        PROVE  IInv'
    <2>1. faults' = faults \/ Spend(1)
      BY <1>4, Costs, Zenon
    <2>. DEFINE x == [e EXCEPT !.st = "PayloadRegistered"]
    <2>2. /\ x \in Entries /\ x.st = "PayloadRegistered" /\ x.terminal = e.terminal
          /\ x.release = e.release /\ pend' = [pend EXCEPT ![L] = x]
      BY <1>2, <1>4, Zenon DEF Entries, PendingStates
    <2>. HIDE DEF x
    <2>3. PICK r \in Records : /\ rec' = [rec EXCEPT ![L] = r]
                               /\ r.state \in {rec[L].state, "payload_registered"}
      <3>1. [rec[L] EXCEPT !.state = "payload_registered"] \in Records
        BY <1>2, Zenon DEF Records, RecordStates
      <3>2. [rec[L] EXCEPT !.state = "payload_registered"].state = "payload_registered"
        BY <1>2, Zenon DEF Records
      <3>. QED
        BY <1>2, <1>4, <3>1, <3>2, LoginIs, Zenon
    <2>4. Waiting(L, c) => e.release = "NotRequested" /\ ~e.terminal
      BY LoginIs, Zenon DEF LoginInv, EntryFollows
    <2>5. EntryMoves(L, c, stored, x, r)
      BY <1>0, <1>4, <2>2, <2>3, <2>4, Zenon DEF EntryMoves, HasPayload
    <2>. QED
      BY <1>0, <1>1, <1>4, <2>1, <2>2, <2>5, EntryKeeps
  <1>. QED
    BY <1>1, <1>3, <1>4, Zenon DEF HandleMarkPayloadRegistered

\* begin_release keeps the inductive invariant.
LEMMA BeginReleaseStep ==
    ASSUME IInv, HandleBeginRelease
    PROVE  IInv'
  <1>. DEFINE c == "BeginRelease"
  <1>0. Handle(c) /\ UNCHANGED <<adm, kids, rec, wrk, scope, faults>> /\ c \in EntryCalls
    BY Zenon DEF HandleBeginRelease, EntryCalls
  <1>1. PICK L \in LifecycleIds : L = Head(mbox).id
    BY <1>0, HandledLogin, Zenon
  <1>. DEFINE e == pend[L]
  <1>2. e \in Entries /\ rec[L] \in Records /\ pend \in [LifecycleIds -> Entries]
    BY LoginIs, Zenon DEF IInv, TypeOK
  <1>3. CASE ReplyErr(L, c) /\ UNCHANGED pend
    BY <1>0, <1>1, <1>3, EntryRefused, Zenon
  <1>4. CASE /\ e.st \in {"PayloadPrepared", "PayloadRegistered"}
             /\ pend' = [pend EXCEPT ![L].release = "Requested", ![L].gen = @ + 1]
             /\ Reply(L, c, TRUE, lch[L].lease, e.gen + 1)
    <2>. DEFINE x == [e EXCEPT !.release = "Requested", !.gen = @ + 1]
    <2>1. x \in Entries /\ x.st = e.st /\ pend' = [pend EXCEPT ![L] = x] /\ e.gen + 1 \in Nat
      BY <1>2, <1>4 DEF Entries
    <2>. HIDE DEF x
    <2>2. EntryMoves(L, c, TRUE, x, rec[L])
      BY <1>0, <1>4, <2>1, LoginIs, Zenon DEF EntryMoves, HasPayload
    <2>3. Reply(L, c, TRUE, lch[L].lease, e.gen + 1)
      BY <1>4, Zenon
    <2>. QED
      BY <1>0, <1>1, <1>2, <2>1, <2>2, <2>3, EntryKeeps, Zenon
  <1>. QED
    BY <1>1, <1>3, <1>4, Zenon DEF HandleBeginRelease

\* complete_release keeps the inductive invariant.
LEMMA CompleteReleaseStep ==
    ASSUME IInv, HandleCompleteRelease
    PROVE  IInv'
  <1>. DEFINE c == "CompleteRelease"
  <1>0. Handle(c) /\ UNCHANGED <<adm, kids, wrk, scope>> /\ c \in EntryCalls
    BY Zenon DEF HandleCompleteRelease, EntryCalls
  <1>1. PICK L \in LifecycleIds : L = Head(mbox).id
    BY <1>0, HandledLogin, Zenon
  <1>. DEFINE e == pend[L]
              payload == e.st \in {"PayloadPrepared", "PayloadRegistered"}
  <1>2. e \in Entries /\ rec[L] \in Records /\ lch[L].gen \in Nat
        /\ pend \in [LifecycleIds -> Entries] /\ rec \in [LifecycleIds -> Records]
    BY LoginIs DEF Launchers, IInv, TypeOK
  <1>3. CASE ReplyErr(L, c) /\ UNCHANGED <<pend, rec, faults>>
    BY <1>0, <1>1, <1>3, EntryRefused, ZenonT(60)
  <1>4. ASSUME payload, NEW stored \in BOOLEAN, Spend(Cost(stored)),
               pend' = [pend EXCEPT ![L].st = "PayloadReleased"],
               rec' = IF stored THEN [rec EXCEPT ![L].state = "payload_boundary_proven_empty"]
                      ELSE rec,
               Reply(L, c, stored, lch[L].lease, 0)
        PROVE  IInv'
    <2>1. faults' = faults \/ Spend(1)
      BY <1>4, Costs, Zenon
    <2>. DEFINE x == [e EXCEPT !.st = "PayloadReleased"]
    <2>2. x \in Entries /\ x.st = "PayloadReleased" /\ pend' = [pend EXCEPT ![L] = x]
      BY <1>2, <1>4, Zenon DEF Entries, PendingStates
    <2>. HIDE DEF x
    <2>3. PICK r \in Records : /\ rec' = [rec EXCEPT ![L] = r]
                               /\ r.state \in {rec[L].state, "payload_boundary_proven_empty"}
      <3>1. [rec[L] EXCEPT !.state = "payload_boundary_proven_empty"] \in Records
        BY <1>2, Zenon DEF Records, RecordStates
      <3>2. [rec[L] EXCEPT !.state = "payload_boundary_proven_empty"].state
                = "payload_boundary_proven_empty"
        BY <1>2, Zenon DEF Records
      <3>. QED
        BY <1>2, <1>4, <3>1, <3>2, LoginIs, Zenon
    <2>4. EntryMoves(L, c, stored, x, r)
      BY <1>0, <1>4, <2>2, <2>3, Zenon DEF EntryMoves, HasPayload
    <2>. QED
      BY <1>0, <1>1, <1>4, <2>1, <2>2, <2>4, EntryKeeps, SMTT(30)
  <1>5. CASE /\ payload
             /\ pend' = [pend EXCEPT ![L].release = "RecoveryRequired", ![L].terminal = TRUE]
             /\ ReplyOk(L, c)
             /\ UNCHANGED <<rec, faults>>
    <2>. DEFINE x == [e EXCEPT !.release = "RecoveryRequired", !.terminal = TRUE]
    <2>1. x \in Entries /\ x.st = e.st /\ pend' = [pend EXCEPT ![L] = x]
      BY <1>2, <1>5, Zenon DEF Entries
    <2>. HIDE DEF x
    <2>2. EntryMoves(L, c, TRUE, x, rec[L])
      BY <1>0, <1>5, <2>1, LoginIs, Zenon DEF EntryMoves, HasPayload
    <2>3. Reply(L, c, TRUE, lch[L].lease, lch[L].gen) /\ faults' = faults
      BY <1>5, Zenon DEF ReplyOk
    <2>. QED
      BY <1>0, <1>1, <1>2, <2>1, <2>2, <2>3, EntryKeeps, Zenon
  <1>. QED
    BY <1>1, <1>3, <1>4, <1>5, Zenon DEF HandleCompleteRelease

=============================================================================
