------------------------ MODULE SeatAdmissionProofs ------------------------
(***************************************************************************)
(* For every set of lifecycle identifiers and every bound: the admission   *)
(* controller keeps its invariants and implements the abstract seat.       *)
(***************************************************************************)
EXTENDS SeatAdmission, TLAPS

\* The steps by which a capability is used up, one disjunct per method.
TokenStep(t) ==
    \/ AttachPrecommitRuntime(t)
    \/ \E r \in RecoveryStates : Promote(t, r)
    \/ \E r \in RecoveryStates : Commit(t, r)
    \/ PromoteCommittedToRunning(t)
    \/ Cancel(t)
    \/ EnterRecovery(t)
    \/ EnterQuarantineFromPending(t)
    \/ EnterQuarantineFromReceipt(t)
    \/ ReleaseAfterFinalization(t)
    \/ Abandon(t)

IdStep(id) ==
    \/ \E r \in RecoveryStates : Reserve(id, r)
    \/ QuarantinePendingLifecycle(id)
    \/ PendingRecovery(id)
    \/ EnterQuarantineForAdmin(id)
    \/ IssueAdminFinalizationReceipt(id)

\* Next is a step of one capability or of one identifier.
LEMMA NextCases ==
    Next => (\E t \in held : TokenStep(t)) \/ (\E id \in LifecycleIds : IdStep(id))
  BY DEF Next, TokenStep, IdStep

\* What a matching lease or receipt says of the controller.
LEMMA MatchesKinds ==
    ASSUME NEW c \in Controllers, NEW t \in Tokens
    PROVE  /\ t.kind \in LeaseKinds => (Matches(c, t) <=> MatchesPhase(c, t))
           /\ t.kind \in ReceiptKinds => (Matches(c, t) <=> MatchesLifecycle(c, t))
           /\ MatchesPhase(c, t) /\ t.kind \in PhaseTags \ {"Free"} => c.phase.tag # "Free"
           /\ MatchesLifecycle(c, t) /\ t.kind \in ReceiptKinds => c.lifecycle.tag # "Free"
  BY DEF Matches, MatchesPhase, MatchesLifecycle, LeaseKinds, ReceiptKinds,
         Tokens, SeatIs, PhaseTags

\* The inductive invariant gives the uniqueness of authority: leases and
\* receipts cannot match together, and either kind is unique by itself.
LEMMA AuthorityFromIInv == IInv => AuthorityUnique
<1> SUFFICES ASSUME IInv, NEW t \in held, NEW u \in held,
                    Matches(adm, t), Matches(adm, u)
             PROVE  t = u
    BY DEF AuthorityUnique
<1>1. t \in Tokens /\ u \in Tokens /\ adm \in Controllers
    BY DEF IInv, TypeOK
<1>2. CASE t.kind \in LeaseKinds /\ u.kind \in LeaseKinds
    BY <1>1, <1>2, MatchesKinds DEF IInv, CapabilitiesCoherent, MatchesPhase
<1>3. CASE t.kind \in ReceiptKinds /\ u.kind \in ReceiptKinds
    <2>0. MatchesLifecycle(adm, t) /\ MatchesLifecycle(adm, u)
        BY <1>1, <1>3, MatchesKinds
    <2>1. t.kind = u.kind /\ t.id = u.id /\ t.gen = u.gen
        <3>1. adm.lifecycle.tag = t.kind /\ adm.lifecycle.id = t.id /\ adm.generation = t.gen
            BY <2>0 DEF MatchesLifecycle, SeatIs
        <3>2. adm.lifecycle.tag = u.kind /\ adm.lifecycle.id = u.id /\ adm.generation = u.gen
            BY <2>0 DEF MatchesLifecycle, SeatIs
        <3> QED BY <3>1, <3>2
    <2>2. t.attempt = u.attempt /\ t.bound = u.bound
        BY <1>1, <1>3 DEF IInv, CapabilitiesCoherent, Tokens
    <2> QED BY <1>1, <2>1, <2>2 DEF Tokens
<1>4. CASE ~(t.kind \in LeaseKinds <=> u.kind \in LeaseKinds)
    BY <1>1, <1>4, MatchesKinds DEF IInv, SeatExclusive, Tokens, LeaseKinds,
       ReceiptKinds, PhaseTags
<1> QED BY <1>1, <1>2, <1>3, <1>4 DEF Tokens

-----------------------------------------------------------------------------
\* A new controller, on a free seat or on one that startup quarantined,
\* satisfies the invariant.
LEMMA InitIInv == Init => IInv
<1> SUFFICES ASSUME Init PROVE IInv
    OBVIOUS
<1>1. PICK l \in {FreeSeat} \union {SeatIs("Quarantined", id) : id \in LifecycleIds} :
          adm = NewController(l)
    BY DEF Init
<1>2. /\ adm = [phase |-> NoPhase, lifecycle |-> l,
                generation |-> IF l.tag = "Free" THEN 0 ELSE 1, nextAttempt |-> 1]
      /\ held = {} /\ lost = FALSE
    BY <1>1 DEF NewController, Init
<1>3. /\ l = FreeSeat \/ (l.tag = "Quarantined" /\ l.id \in LifecycleIds)
      /\ l \in Lifecycles
    BY DEF FreeSeat, SeatIs, Lifecycles, LifecycleTags, Ids
<1>4. NoPhase \in Phases /\ NoPhase.tag = "Free"
    BY DEF NoPhase, Phases, PhaseTags, Ids
<1>5. adm \in Controllers /\ adm.phase.tag = "Free"
    BY <1>2, <1>3, <1>4 DEF Controllers
<1>6. TypeOK /\ SeatExclusive /\ CapabilitiesCoherent /\ NothingMatchesWhenLost
    BY <1>2, <1>5 DEF TypeOK, SeatExclusive, CapabilitiesCoherent, NothingMatchesWhenLost
<1>7. OccupiedHasGeneration /\ OrphanedOnlyWhenDropped /\ ControllerCoherent
    BY <1>2, <1>3, <1>5 DEF OccupiedHasGeneration, OrphanedOnlyWhenDropped,
       ControllerCoherent, FreeSeat
<1> QED BY <1>6, <1>7 DEF IInv

-----------------------------------------------------------------------------
\* The four things a matching capability can do to the seat.
OnlyUses(t, new) ==
    /\ adm' \in Controllers
    /\ adm'.generation = adm.generation
    /\ held' = (held \ {t}) \union new
    /\ lost' = FALSE

AdvancesTo(t, k) ==
    /\ t.kind \in LeaseKinds /\ k \in LeaseKinds
    /\ adm'.phase = [tag |-> k, attempt |-> t.attempt, id |-> t.id, gen |-> t.gen]
    /\ adm'.lifecycle = adm.lifecycle
    /\ OnlyUses(t, {Advanced(t, k)})

HandsOn(t, k) ==
    /\ \/ t.kind = "LaunchCommitted" /\ k = "Active"
       \/ t.kind = "Active" /\ k = "Recovering"
    /\ adm'.phase = NoPhase
    /\ adm'.lifecycle = SeatIs(k, t.id)
    /\ OnlyUses(t, {Receipt(k, t.id, t.gen)})

Quarantines(t) ==
    /\ t.kind \in {"PendingLifecycle", "Active", "Recovering"}
    /\ adm'.phase = NoPhase
    /\ adm'.lifecycle = SeatIs("Quarantined", t.id)
    /\ OnlyUses(t, {})

Frees(t) ==
    /\ adm'.phase = NoPhase
    /\ adm'.lifecycle = FreeSeat
    /\ OnlyUses(t, {})

\* Every method either drops a capability, binds a lease to its pre-commit
\* file, or does one of the four things with a matching one.
LEMMA TokenStepCases ==
    ASSUME IInv, NEW t \in held, TokenStep(t)
    PROVE  \/ Dropped(t)
           \/ AttachPrecommitRuntime(t)
           \/ /\ Matches(adm, t)
              /\ \/ \E k \in LeaseKinds : AdvancesTo(t, k)
                 \/ \E k \in {"Active", "Recovering"} : HandsOn(t, k)
                 \/ Quarantines(t)
                 \/ Frees(t)
<1> USE DEF OnlyUses
<1>0. t \in Tokens /\ adm \in Controllers /\ t.id \in LifecycleIds
    BY DEF IInv, TypeOK, Tokens
<1>a. ASSUME MatchesPhase(adm, t), t.kind \in LeaseKinds
      PROVE  Matches(adm, t) /\ adm.lifecycle = FreeSeat
    BY <1>0, <1>a DEF Matches, MatchesPhase, IInv, SeatExclusive, ControllerCoherent, LeaseKinds
<1>b. ASSUME MatchesLifecycle(adm, t), t.kind \in ReceiptKinds
      PROVE  Matches(adm, t) /\ adm.phase = NoPhase
    BY <1>0, <1>b, MatchesKinds DEF Matches, IInv, SeatExclusive, ControllerCoherent
<1>c. \A tag \in LifecycleTags : SeatIs(tag, t.id) \in Lifecycles
    BY <1>0 DEF SeatIs, Lifecycles, Ids
<1>d. NoPhase \in Phases /\ FreeSeat \in Lifecycles
    BY DEF NoPhase, Phases, PhaseTags, Ids, FreeSeat, Lifecycles, LifecycleTags
<1>e. \A k \in LeaseKinds :
         [tag |-> k, attempt |-> t.attempt, id |-> t.id, gen |-> t.gen] \in Phases
    BY <1>0 DEF Phases, PhaseTags, LeaseKinds, Ids, Tokens
<1>1. CASE AttachPrecommitRuntime(t)
    BY <1>1
<1>2. ASSUME NEW r \in RecoveryStates, Promote(t, r) \/ Commit(t, r)
      PROVE  Matches(adm, t) /\ \E k \in LeaseKinds : AdvancesTo(t, k)
    <2>1. t.kind \in LeaseKinds /\ MatchesPhase(adm, t)
        BY <1>2 DEF Promote, Commit, CanAdvance, LeaseKinds
    <2>2. CASE Promote(t, r)
        <3>1. AdvancesTo(t, "PendingLifecycle")
            BY <1>0, <1>e, <2>1, <2>2 DEF Promote, Moved, DoAdvance, AdvancesTo,
               LeaseKinds, Controllers
        <3> QED BY <3>1, <2>1, <1>a DEF LeaseKinds
    <2>3. CASE Commit(t, r)
        <3>1. AdvancesTo(t, "LaunchCommitted")
            BY <1>0, <1>e, <2>1, <2>3 DEF Commit, Moved, DoAdvance, AdvancesTo,
               LeaseKinds, Controllers
        <3> QED BY <3>1, <2>1, <1>a DEF LeaseKinds
    <2> QED BY <1>2, <2>2, <2>3
<1>3. CASE PromoteCommittedToRunning(t)
    <2>1. CASE MatchesPhase(adm, t) /\ ~Dropped(t)
        <3>1. HandsOn(t, "Active")
            BY <1>0, <1>c, <1>d, <1>3, <2>1 DEF PromoteCommittedToRunning, Moved,
               DoPromoteToRunning, HandsOn, Controllers, LifecycleTags
        <3> QED BY <3>1, <2>1, <1>a, <1>3 DEF PromoteCommittedToRunning, LeaseKinds
    <2> QED BY <1>3, <2>1 DEF PromoteCommittedToRunning
<1>4. CASE Cancel(t)
    <2>1. CASE MatchesPhase(adm, t) /\ ~Dropped(t)
        <3>1. t.kind \in LeaseKinds
            BY <1>4 DEF Cancel, LeaseKinds
        <3>2. Frees(t)
            BY <1>0, <1>a, <1>d, <1>4, <2>1, <3>1 DEF Cancel, Moved, DoCancel, Frees, Controllers
        <3> QED BY <3>1, <3>2, <2>1, <1>a
    <2> QED BY <1>4, <2>1 DEF Cancel
<1>5. CASE EnterRecovery(t)
    <2>1. CASE MatchesLifecycle(adm, t)
        <3>1. t.kind \in ReceiptKinds
            BY <1>5 DEF EnterRecovery, ReceiptKinds
        <3>2. HandsOn(t, "Recovering")
            BY <1>0, <1>b, <1>c, <1>5, <2>1, <3>1 DEF EnterRecovery, Moved,
               DoMoveLifecycle, HandsOn, Controllers, LifecycleTags
        <3> QED BY <3>1, <3>2, <2>1, <1>b
    <2> QED BY <1>5, <2>1 DEF EnterRecovery
<1>6. CASE EnterQuarantineFromPending(t)
    <2>1. CASE MatchesPhase(adm, t)
        <3>1. t.kind \in LeaseKinds
            BY <1>6 DEF EnterQuarantineFromPending, LeaseKinds
        <3>2. Quarantines(t)
            BY <1>0, <1>c, <1>d, <1>6, <2>1 DEF EnterQuarantineFromPending, Moved,
               DoLeavePending, Quarantines, Controllers, LifecycleTags
        <3> QED BY <3>1, <3>2, <2>1, <1>a
    <2> QED BY <1>6, <2>1 DEF EnterQuarantineFromPending
<1>7. CASE EnterQuarantineFromReceipt(t)
    <2>1. CASE MatchesLifecycle(adm, t)
        <3>1. t.kind \in ReceiptKinds
            BY <1>7 DEF EnterQuarantineFromReceipt, ReceiptKinds
        <3>2. Quarantines(t)
            BY <1>0, <1>b, <1>c, <1>7, <2>1, <3>1 DEF EnterQuarantineFromReceipt, Moved,
               DoMoveLifecycle, Quarantines, Controllers, LifecycleTags
        <3> QED BY <3>1, <3>2, <2>1, <1>b
    <2> QED BY <1>7, <2>1 DEF EnterQuarantineFromReceipt
<1>8. CASE ReleaseAfterFinalization(t)
    <2>1. CASE MatchesLifecycle(adm, t)
        <3>1. t.kind \in ReceiptKinds
            BY <1>8 DEF ReleaseAfterFinalization
        <3>2. Frees(t)
            BY <1>0, <1>b, <1>d, <1>8, <2>1, <3>1 DEF ReleaseAfterFinalization, Moved,
               DoRelease, Frees, Controllers
        <3> QED BY <3>1, <3>2, <2>1, <1>b
    <2> QED BY <1>8, <2>1 DEF ReleaseAfterFinalization
<1>9. CASE Abandon(t)
    BY <1>9 DEF Abandon
<1> QED BY <1>1, <1>2, <1>3, <1>4, <1>5, <1>6, <1>7, <1>8, <1>9 DEF TokenStep

\* A dropped capability leaves the invariant: only the flag and the set move.
LEMMA DroppedKeepsIInv ==
    ASSUME IInv, NEW t \in held, Dropped(t)
    PROVE  IInv'
<1>1. adm' = adm /\ held' = held \ {t} /\ lost' = (lost \/ Matches(adm, t))
    BY DEF Dropped
<1>2. TypeOK' /\ SeatExclusive' /\ OccupiedHasGeneration' /\ ControllerCoherent'
    BY <1>1 DEF IInv, TypeOK, SeatExclusive, OccupiedHasGeneration, ControllerCoherent,
       Matches, MatchesPhase, MatchesLifecycle
<1>3. CapabilitiesCoherent'
    BY <1>1 DEF IInv, CapabilitiesCoherent
<1>4. NothingMatchesWhenLost'
    <2>1. CASE lost
        BY <1>1, <2>1 DEF IInv, NothingMatchesWhenLost
    <2>2. CASE ~lost
        BY <1>1, <2>2, AuthorityFromIInv DEF AuthorityUnique, NothingMatchesWhenLost
    <2> QED BY <2>1, <2>2
<1>5. OrphanedOnlyWhenDropped'
    BY <1>1 DEF IInv, OrphanedOnlyWhenDropped
<1> QED BY <1>2, <1>3, <1>4, <1>5 DEF IInv

\* Binding a reserved lease to its pre-commit file keeps the invariant: the
\* bound lease matches exactly when the unbound one did.
LEMMA AttachKeepsIInv ==
    ASSUME IInv, NEW t \in held, AttachPrecommitRuntime(t)
    PROVE  IInv'
<1> DEFINE n == [t EXCEPT !.bound = TRUE]
<1>1. adm' = adm /\ held' = (held \ {t}) \union {n} /\ lost' = lost /\ t.kind = "Reserved"
    BY DEF AttachPrecommitRuntime
<1>2. t \in Tokens /\ adm \in Controllers
    BY DEF IInv, TypeOK
<1>3. /\ n \in Tokens /\ n.kind = t.kind /\ n.attempt = t.attempt
      /\ n.id = t.id /\ n.gen = t.gen
    BY <1>2 DEF Tokens
<1>4. Matches(adm, n) <=> Matches(adm, t)
    BY <1>3 DEF Matches, MatchesPhase, MatchesLifecycle
<1> HIDE DEF n
<1>5. TypeOK' /\ SeatExclusive' /\ OccupiedHasGeneration' /\ ControllerCoherent'
    BY <1>1, <1>3 DEF IInv, TypeOK, SeatExclusive, OccupiedHasGeneration, ControllerCoherent
<1>6. CapabilitiesCoherent'
    BY <1>1, <1>3 DEF IInv, CapabilitiesCoherent, LeaseKinds, ReceiptKinds
<1>7. NothingMatchesWhenLost' /\ OrphanedOnlyWhenDropped'
    BY <1>1, <1>4 DEF IInv, NothingMatchesWhenLost, OrphanedOnlyWhenDropped
<1> QED BY <1>5, <1>6, <1>7 DEF IInv

\* Using a matching lease for the next phase keeps the invariant.
LEMMA AdvanceKeepsIInv ==
    ASSUME IInv, NEW t \in held, Matches(adm, t), NEW k \in LeaseKinds, AdvancesTo(t, k)
    PROVE  IInv'
<1> DEFINE n == Advanced(t, k)
<1>1. /\ t \in Tokens /\ adm \in Controllers /\ t.kind \in LeaseKinds
      /\ MatchesPhase(adm, t)
    BY MatchesKinds DEF IInv, TypeOK, AdvancesTo
<1>2. /\ n \in Tokens /\ n.kind = k /\ n.attempt = t.attempt
      /\ n.id = t.id /\ n.gen = t.gen
    BY <1>1 DEF Tokens, Advanced, LeaseKinds
<1>3. /\ adm' \in Controllers /\ adm'.generation = adm.generation
      /\ adm'.lifecycle = adm.lifecycle
      /\ adm'.phase.tag = k /\ adm'.phase.attempt = t.attempt
      /\ adm'.phase.id = t.id /\ adm'.phase.gen = t.gen
      /\ held' = (held \ {t}) \union {n} /\ lost' = FALSE
    BY DEF AdvancesTo, OnlyUses
<1> HIDE DEF n
<1>4. adm.generation = t.gen /\ adm.lifecycle.tag = "Free" /\ adm.phase.tag # "Free" /\ k # "Free"
    BY <1>1 DEF MatchesPhase, IInv, SeatExclusive, LeaseKinds
<1>5. TypeOK' /\ SeatExclusive' /\ OccupiedHasGeneration'
    BY <1>2, <1>3, <1>4 DEF IInv, TypeOK, SeatExclusive, OccupiedHasGeneration
<1>6. ControllerCoherent'
    BY <1>1, <1>3, <1>4 DEF IInv, ControllerCoherent, Tokens
<1>7. CapabilitiesCoherent'
    BY <1>1, <1>2, <1>3 DEF IInv, CapabilitiesCoherent, LeaseKinds, ReceiptKinds
<1>8. Matches(adm', n)
    BY <1>2, <1>3, <1>4 DEF Matches, MatchesPhase
<1>9. NothingMatchesWhenLost' /\ OrphanedOnlyWhenDropped'
    BY <1>3, <1>8 DEF NothingMatchesWhenLost, OrphanedOnlyWhenDropped
<1> QED BY <1>5, <1>6, <1>7, <1>9 DEF IInv

\* The phase closes for a lifecycle l, or for none: what survives of the
\* capabilities is S, and the new ones are current receipts of l.
Settles(S, l, new) ==
    /\ S \in SUBSET held /\ new \in SUBSET Tokens /\ held' = S \union new
    /\ lost' = FALSE
    /\ adm' \in Controllers /\ adm'.phase = NoPhase /\ adm'.lifecycle = l
    /\ l \in Lifecycles
    /\ adm'.generation = adm.generation
    /\ l = FreeSeat \/ (l.tag # "Free" /\ l.id \in LifecycleIds /\ adm'.generation > 0)
    /\ \A n \in new : n = Receipt(l.tag, l.id, adm'.generation) /\ n.kind \in ReceiptKinds
    /\ l.tag \in {"Active", "Recovering"} => new # {}

\* Settling the seat keeps the invariant.
LEMMA SettleKeepsIInv ==
    ASSUME IInv, NEW S, NEW l, NEW new, Settles(S, l, new)
    PROVE  IInv'
<1> USE DEF Settles
<1>0. NoPhase.tag = "Free" /\ FreeSeat.tag = "Free"
    BY DEF NoPhase, FreeSeat
<1>1. TypeOK' /\ SeatExclusive' /\ OccupiedHasGeneration' /\ ControllerCoherent'
    BY <1>0 DEF IInv, TypeOK, SeatExclusive, OccupiedHasGeneration, ControllerCoherent
<1>2. \A n \in new : /\ n.kind = l.tag /\ n.kind \in ReceiptKinds /\ n.id = l.id
                     /\ n.gen = adm'.generation /\ n.attempt = 0 /\ n.bound = FALSE
    BY DEF Receipt, Lease
<1>3. adm.generation \in Nat /\ \A t \in held : t.gen \in Nat
    BY DEF IInv, TypeOK, Controllers, Tokens
<1>4. CapabilitiesCoherent'
    BY <1>2, <1>3 DEF IInv, CapabilitiesCoherent, LeaseKinds, ReceiptKinds
<1>5. NothingMatchesWhenLost'
    BY DEF NothingMatchesWhenLost
<1>6. OrphanedOnlyWhenDropped'
    <2> SUFFICES ASSUME adm'.lifecycle.tag \in {"Active", "Recovering"}
                 PROVE  \E t \in held' : Matches(adm', t)
        BY <1>0 DEF OrphanedOnlyWhenDropped
    <2>1. PICK n \in new : TRUE
        OBVIOUS
    <2>2. l = SeatIs(l.tag, l.id)
        BY DEF Lifecycles, SeatIs
    <2>3. Matches(adm', n)
        BY <1>2, <2>2 DEF Matches, MatchesLifecycle
    <2> QED BY <2>3
<1> QED BY <1>1, <1>4, <1>5, <1>6 DEF IInv

\* Every use of a capability keeps the invariant.
LEMMA TokenStepKeepsIInv ==
    ASSUME IInv, NEW t \in held, TokenStep(t)
    PROVE  IInv'
<1>0. /\ t \in Tokens /\ adm \in Controllers /\ t.id \in LifecycleIds
      /\ held \in SUBSET Tokens /\ adm.generation \in Nat
    BY DEF IInv, TypeOK, Tokens, Controllers
<1>1. CASE Dropped(t)
    BY <1>1, DroppedKeepsIInv
<1>2. CASE AttachPrecommitRuntime(t)
    BY <1>2, AttachKeepsIInv
<1>3. ASSUME Matches(adm, t), NEW k \in LeaseKinds, AdvancesTo(t, k)
      PROVE  IInv'
    BY <1>3, AdvanceKeepsIInv
<1>4. ASSUME Matches(adm, t)
      PROVE  t.gen = adm.generation /\ adm.generation > 0
    BY <1>0, <1>4, MatchesKinds DEF Matches, MatchesPhase, MatchesLifecycle, IInv,
       OccupiedHasGeneration, LeaseKinds, PhaseTags
<1>5. ASSUME Matches(adm, t), NEW k \in {"Active", "Recovering"}, HandsOn(t, k)
      PROVE  IInv'
    <2> DEFINE l == SeatIs(k, t.id)
               new == {Receipt(k, t.id, t.gen)}
    <2>1. l \in Lifecycles /\ l.tag = k /\ l.id = t.id
        BY <1>0 DEF SeatIs, Lifecycles, LifecycleTags, Ids
    <2>2. /\ new \in SUBSET Tokens
          /\ \A n \in new : n.kind \in ReceiptKinds
        BY <1>0, <1>4, <1>5 DEF Receipt, Lease, Tokens, ReceiptKinds
    <2>3. /\ adm' \in Controllers /\ adm'.phase = NoPhase /\ adm'.lifecycle = l
          /\ adm'.generation = adm.generation /\ held' = (held \ {t}) \union new
          /\ lost' = FALSE
        BY <1>5 DEF HandsOn, OnlyUses
    <2>4. \A n \in new : n = Receipt(l.tag, l.id, adm'.generation)
        BY <1>4, <1>5, <2>1, <2>3
    <2>5. new # {}
        OBVIOUS
    <2> HIDE DEF l, new
    <2> DEFINE S == held \ {t}
    <2>6. S \in SUBSET held /\ held' = S \union new
        BY <2>3
    <2> HIDE DEF S
    <2>7. l.tag # "Free" /\ l.id \in LifecycleIds /\ adm'.generation > 0
        BY <1>0, <1>4, <1>5, <2>1, <2>3
    <2>8. Settles(S, l, new)
        BY <1>0, <2>1, <2>2, <2>3, <2>4, <2>5, <2>6, <2>7 DEF Settles
    <2> QED BY <2>8, SettleKeepsIInv
<1>6. ASSUME Matches(adm, t), Quarantines(t) \/ Frees(t)
      PROVE  IInv'
    <2> DEFINE l == adm'.lifecycle
               new == {}
               S == held \ {t}
    <2>1. /\ adm' \in Controllers /\ adm'.phase = NoPhase
          /\ adm'.generation = adm.generation /\ held' = S \union new
          /\ lost' = FALSE /\ S \in SUBSET held /\ new \in SUBSET Tokens
          /\ l \in Lifecycles /\ l.tag \notin {"Active", "Recovering"}
        BY <1>6 DEF Quarantines, Frees, OnlyUses, Controllers, SeatIs, FreeSeat
    <2>2. l = FreeSeat \/ (l.tag # "Free" /\ l.id \in LifecycleIds /\ adm'.generation > 0)
        BY <1>0, <1>4, <1>6, <2>1 DEF Quarantines, Frees, SeatIs
    <2>3. \A n \in new : n = Receipt(l.tag, l.id, adm'.generation) /\ n.kind \in ReceiptKinds
        OBVIOUS
    <2>4. Settles(S, l, new)
        BY <1>0, <2>1, <2>2, <2>3 DEF Settles
    <2> QED BY <2>4, SettleKeepsIInv
<1> QED BY <1>1, <1>2, <1>3, <1>5, <1>6, TokenStepCases

\* Every method called with an identifier alone keeps the invariant.
LEMMA IdStepKeepsIInv ==
    ASSUME IInv, NEW id \in LifecycleIds, IdStep(id)
    PROVE  IInv'
<1>0. /\ adm \in Controllers /\ held \in SUBSET Tokens /\ lost \in BOOLEAN
      /\ adm.generation \in Nat /\ adm.nextAttempt \in Nat
    BY DEF IInv, TypeOK, Controllers
<1>1. ASSUME NEW r \in RecoveryStates, Reserve(id, r)
      PROVE  IInv'
    <2> DEFINE n == ReserveLease(adm, id)
    <2>1. /\ adm.phase.tag = "Free" /\ adm.lifecycle.tag = "Free"
          /\ adm' = DoReserve(adm, id) /\ held' = held \union {n} /\ lost' = FALSE
        BY <1>1 DEF Reserve, CanReserve
    <2>2. /\ n \in Tokens /\ n.kind = "Reserved" /\ n.gen = adm.generation + 1
          /\ n.attempt = adm.nextAttempt /\ n.id = id
        BY <1>0 DEF ReserveLease, Lease, Tokens, LeaseKinds
    <2>3. [tag |-> "Reserved", attempt |-> adm.nextAttempt, id |-> id,
           gen |-> adm.generation + 1] \in Phases
        BY <1>0 DEF Phases, PhaseTags, Ids
    <2>4. /\ adm' \in Controllers /\ adm'.generation = adm.generation + 1
          /\ adm'.lifecycle = adm.lifecycle
          /\ adm'.phase.tag = "Reserved" /\ adm'.phase.attempt = adm.nextAttempt
          /\ adm'.phase.id = id /\ adm'.phase.gen = adm.generation + 1
        <3> DEFINE p == [tag |-> "Reserved", attempt |-> adm.nextAttempt, id |-> id,
                         gen |-> adm.generation + 1]
                   g == adm.generation + 1
                   a == adm.nextAttempt + 1
        <3>1. g \in Nat /\ a \in Nat /\ p \in Phases /\ adm.lifecycle \in Lifecycles
            BY <1>0, <2>3 DEF Controllers
        <3>2. adm' = [adm EXCEPT !.nextAttempt = a, !.generation = g, !.phase = p]
            BY <2>1 DEF DoReserve
        <3> HIDE DEF p, g, a
        <3>3. /\ adm' \in Controllers /\ adm'.generation = g /\ adm'.phase = p
              /\ adm'.lifecycle = adm.lifecycle
            BY <1>0, <3>1, <3>2 DEF Controllers
        <3> QED BY <3>3 DEF p, g, a
    <2> HIDE DEF n
    <2>5. TypeOK' /\ SeatExclusive' /\ OccupiedHasGeneration' /\ ControllerCoherent'
        <3>1. TypeOK'
            BY <1>0, <2>1, <2>2, <2>4 DEF TypeOK
        <3>2. SeatExclusive' /\ OccupiedHasGeneration'
            BY <1>0, <2>1, <2>4 DEF SeatExclusive, OccupiedHasGeneration
        <3>3. ControllerCoherent'
            BY <2>1, <2>4 DEF IInv, ControllerCoherent
        <3> QED BY <3>1, <3>2, <3>3
    <2>6. CapabilitiesCoherent'
        <3>1. \A t \in held : t.gen \in Nat /\ t.gen <= adm.generation
            BY <1>0 DEF IInv, CapabilitiesCoherent, Tokens
        <3> QED BY <1>0, <2>1, <2>2, <2>4, <3>1 DEF IInv, CapabilitiesCoherent,
               LeaseKinds, ReceiptKinds
    <2>7. Matches(adm', n)
        BY <2>2, <2>4 DEF Matches, MatchesPhase, LeaseKinds
    <2> QED BY <2>1, <2>5, <2>6, <2>7 DEF IInv, NothingMatchesWhenLost, OrphanedOnlyWhenDropped
<1>2. ASSUME QuarantinePendingLifecycle(id) \/ PendingRecovery(id)
      PROVE  IInv'
    <2> DEFINE l == adm'.lifecycle
               new == IF QuarantinePendingLifecycle(id) THEN {}
                      ELSE {Receipt("Recovering", id, adm.generation)}
               S == held
    <2>0. adm.phase.tag = "PendingLifecycle" /\ adm.generation > 0
        BY <1>2 DEF QuarantinePendingLifecycle, PendingRecovery, PendingIs, IInv,
           OccupiedHasGeneration
    <2>1. PICK tag \in {"Quarantined", "Recovering"} :
              /\ adm' = DoLeavePending(adm, tag, id)
              /\ tag = "Quarantined" <=> QuarantinePendingLifecycle(id)
        BY <1>2 DEF QuarantinePendingLifecycle, PendingRecovery, DoLeavePending, SeatIs
    <2>2. SeatIs(tag, id) \in Lifecycles /\ NoPhase \in Phases
        BY DEF SeatIs, Lifecycles, LifecycleTags, Ids, NoPhase, Phases, PhaseTags
    <2>3. /\ adm' \in Controllers /\ adm'.phase = NoPhase /\ l = SeatIs(tag, id)
          /\ adm'.generation = adm.generation
        BY <1>0, <2>1, <2>2 DEF DoLeavePending, Controllers
    <2>4. l \in Lifecycles /\ l.tag = tag /\ l.id = id
        BY <2>2, <2>3 DEF SeatIs
    <2>5. held' = S \union new /\ lost' = FALSE /\ S \in SUBSET held
        BY <1>2, <2>1 DEF QuarantinePendingLifecycle, PendingRecovery
    <2>6. /\ new \in SUBSET Tokens
          /\ \A n \in new : n = Receipt(l.tag, l.id, adm'.generation) /\ n.kind \in ReceiptKinds
          /\ l.tag \in {"Active", "Recovering"} => new # {}
        <3>1. CASE QuarantinePendingLifecycle(id)
            BY <2>1, <2>4, <3>1
        <3>2. CASE ~QuarantinePendingLifecycle(id)
            <4>1. new = {Receipt("Recovering", id, adm.generation)} /\ tag = "Recovering"
                BY <2>1, <3>2
            <4> HIDE DEF new
            <4> QED BY <1>0, <2>3, <2>4, <4>1 DEF Receipt, Lease, Tokens, ReceiptKinds
        <3> QED BY <3>1, <3>2
    <2> HIDE DEF new, S
    <2>7. Settles(S, l, new)
        BY <1>0, <2>0, <2>3, <2>4, <2>5, <2>6 DEF Settles
    <2> QED BY <2>7, SettleKeepsIInv
<1>3. CASE EnterQuarantineForAdmin(id)
    <2>1. CASE AlreadyQuarantined(adm, id)
        <3>1. UNCHANGED vars
            BY <1>3, <2>1 DEF EnterQuarantineForAdmin, DoQuarantineForAdmin, vars
        <3> QED BY <3>1 DEF vars, IInv, TypeOK, SeatExclusive, OccupiedHasGeneration,
               ControllerCoherent, CapabilitiesCoherent, NothingMatchesWhenLost,
               OrphanedOnlyWhenDropped, Matches, MatchesPhase, MatchesLifecycle
    <2>2. CASE ~AlreadyQuarantined(adm, id)
        <3>1. /\ adm.phase.tag = "Free" /\ adm.lifecycle.tag = "Free"
              /\ adm' = [adm EXCEPT !.generation = adm.generation + 1,
                                    !.lifecycle = SeatIs("Quarantined", id)]
              /\ held' = held /\ lost' = lost
            BY <1>3, <2>2 DEF EnterQuarantineForAdmin, CanQuarantineForAdmin, DoQuarantineForAdmin
        <3>2. SeatIs("Quarantined", id) \in Lifecycles
            BY DEF SeatIs, Lifecycles, LifecycleTags, Ids
        <3>3. /\ adm' \in Controllers /\ adm'.generation = adm.generation + 1
              /\ adm'.phase = adm.phase
              /\ adm'.lifecycle.tag = "Quarantined" /\ adm'.lifecycle.id = id
            <4> DEFINE g == adm.generation + 1
                       l == SeatIs("Quarantined", id)
            <4>1. g \in Nat /\ l \in Lifecycles /\ adm.phase \in Phases
                  /\ adm' = [adm EXCEPT !.generation = g, !.lifecycle = l]
                BY <1>0, <3>1, <3>2 DEF Controllers
            <4> HIDE DEF g, l
            <4>2. /\ adm' \in Controllers /\ adm'.generation = g /\ adm'.lifecycle = l
                  /\ adm'.phase = adm.phase
                BY <1>0, <4>1 DEF Controllers
            <4> QED BY <4>2 DEF g, l, SeatIs
        <3>4. TypeOK' /\ SeatExclusive' /\ OccupiedHasGeneration' /\ ControllerCoherent'
            BY <1>0, <3>1, <3>3 DEF IInv, TypeOK, SeatExclusive, OccupiedHasGeneration,
               ControllerCoherent
        <3>5. \A t \in held : t.gen \in Nat /\ t.gen <= adm.generation
            BY <1>0 DEF IInv, CapabilitiesCoherent, Tokens
        <3>6. CapabilitiesCoherent'
            BY <1>0, <3>1, <3>3, <3>5 DEF IInv, CapabilitiesCoherent
        <3>7. \A t \in held : ~Matches(adm', t)
            BY <1>0, <3>3, <3>5 DEF Matches, MatchesPhase, MatchesLifecycle
        <3> QED BY <3>1, <3>3, <3>4, <3>6, <3>7 DEF IInv, NothingMatchesWhenLost,
               OrphanedOnlyWhenDropped
    <2> QED BY <2>1, <2>2
<1>4. CASE IssueAdminFinalizationReceipt(id)
    <2> DEFINE new == {Receipt("Quarantined", id, adm.generation)}
    <2>1. /\ adm' = adm /\ adm.lifecycle = SeatIs("Quarantined", id)
          /\ held' = held \union new /\ lost' = FALSE
        BY <1>4 DEF IssueAdminFinalizationReceipt, CanIssueAdminReceipt, AlreadyQuarantined
    <2>2. adm.lifecycle.tag = "Quarantined" /\ adm.lifecycle.id = id
        BY <2>1 DEF SeatIs
    <2>3. adm.phase = NoPhase /\ adm.generation > 0 /\ adm.lifecycle \in Lifecycles
        BY <1>0, <2>2 DEF IInv, SeatExclusive, ControllerCoherent, OccupiedHasGeneration, Controllers
    <2>4. new \in SUBSET Tokens /\ \A n \in new : n.kind \in ReceiptKinds
        BY <1>0 DEF Receipt, Lease, Tokens, ReceiptKinds
    <2>5. \A n \in new : n = Receipt(adm.lifecycle.tag, adm.lifecycle.id, adm'.generation)
        BY <2>1, <2>2
    <2> HIDE DEF new
    <2>6. Settles(held, adm.lifecycle, new)
        BY <1>0, <2>1, <2>2, <2>3, <2>4, <2>5 DEF Settles
    <2> QED BY <2>6, SettleKeepsIInv
<1> QED BY <1>1, <1>2, <1>3, <1>4 DEF IdStep

\* A step of the controller, or none, keeps the invariant.
LEMMA NextKeepsIInv == IInv /\ [Next]_vars => IInv'
<1> SUFFICES ASSUME IInv, [Next]_vars PROVE IInv'
    OBVIOUS
<1>1. CASE Next
    BY <1>1, NextCases, TokenStepKeepsIInv, IdStepKeepsIInv
<1>2. CASE UNCHANGED vars
    BY <1>2 DEF vars, IInv, TypeOK, SeatExclusive, OccupiedHasGeneration,
       ControllerCoherent, CapabilitiesCoherent, NothingMatchesWhenLost,
       OrphanedOnlyWhenDropped, Matches, MatchesPhase, MatchesLifecycle
<1> QED BY <1>1, <1>2

\* The methods keep what their checks rely on, in every order of calls.
THEOREM InductiveInvariant == Spec => []IInv
  BY InitIInv, NextKeepsIInv, PTL DEF Spec

\* Every variable keeps its type, for any identifiers and any bound.
THEOREM TypeCorrect == Spec => []TypeOK
<1>1. IInv => TypeOK
    BY DEF IInv
<1> QED BY <1>1, InductiveInvariant, PTL

\* A login in progress never shares the seat with a session, a recovery or a
\* quarantine.
THEOREM SeatIsExclusive == Spec => []SeatExclusive
<1>1. IInv => SeatExclusive
    BY DEF IInv
<1> QED BY <1>1, InductiveInvariant, PTL

\* At most one of the capabilities in the daemon can still move the seat.
THEOREM AuthorityIsUnique == Spec => []AuthorityUnique
  BY AuthorityFromIInv, InductiveInvariant, PTL

\* An occupied seat has a holder unless its capability was dropped.
THEOREM HolderExists == Spec => []OrphanedOnlyWhenDropped
<1>1. IInv => OrphanedOnlyWhenDropped
    BY DEF IInv
<1> QED BY <1>1, InductiveInvariant, PTL

-----------------------------------------------------------------------------
\* What a step may do to the controller: nothing, or it uses a matching
\* capability, or it is one of the methods called with an identifier.
LEMMA StepEffects ==
    ASSUME IInv, [Next]_vars
    PROVE  \/ adm' = adm
           \/ \E t \in held :
                 /\ Matches(adm, t) /\ t.gen = adm.generation
                 /\ held \ held' \in SUBSET {t}
                 /\ adm'.lifecycle.tag # adm.lifecycle.tag => t \notin held'
           \/ /\ held \in SUBSET held'
              /\ adm.phase.tag \in {"Free", "PendingLifecycle"}
              /\ adm.lifecycle.tag # "Free" => adm'.lifecycle.tag # "Free"
<1>1. CASE UNCHANGED vars
    BY <1>1 DEF vars
<1>2. ASSUME NEW t \in held, TokenStep(t), adm' # adm
      PROVE  /\ Matches(adm, t) /\ t.gen = adm.generation
             /\ held \ held' \in SUBSET {t}
             /\ adm'.lifecycle.tag # adm.lifecycle.tag => t \notin held'
    <2>1. /\ Matches(adm, t)
          /\ \/ \E k \in LeaseKinds : AdvancesTo(t, k)
             \/ \E k \in {"Active", "Recovering"} : HandsOn(t, k)
             \/ Quarantines(t)
             \/ Frees(t)
        BY <1>2, TokenStepCases DEF Dropped, AttachPrecommitRuntime
    <2>2. t.gen = adm.generation
        BY <2>1 DEF Matches, MatchesPhase, MatchesLifecycle
    <2>3. held \ held' \in SUBSET {t}
        BY <2>1 DEF AdvancesTo, HandsOn, Quarantines, Frees, OnlyUses
    <2>4. ASSUME NEW k, HandsOn(t, k)
          PROVE  t \notin held'
        <3>1. t # Receipt(k, t.id, t.gen)
            BY <2>4 DEF HandsOn, Receipt, Lease
        <3> QED BY <2>4, <3>1 DEF HandsOn, OnlyUses
    <2>5. Quarantines(t) \/ Frees(t) => t \notin held'
        BY DEF Quarantines, Frees, OnlyUses
    <2>6. ASSUME NEW k, AdvancesTo(t, k)
          PROVE  adm'.lifecycle = adm.lifecycle
        BY <2>6 DEF AdvancesTo
    <2> QED BY <2>1, <2>2, <2>3, <2>4, <2>5, <2>6
<1>3. ASSUME NEW id \in LifecycleIds, IdStep(id), adm' # adm
      PROVE  /\ held \in SUBSET held'
             /\ adm.phase.tag \in {"Free", "PendingLifecycle"}
             /\ adm.lifecycle.tag # "Free" => adm'.lifecycle.tag # "Free"
    <2>0. adm \in Controllers
        BY DEF IInv, TypeOK
    <2>1. held \in SUBSET held'
        BY <1>3 DEF IdStep, Reserve, QuarantinePendingLifecycle, PendingRecovery,
           EnterQuarantineForAdmin, IssueAdminFinalizationReceipt
    <2>2. ASSUME NEW r \in RecoveryStates, Reserve(id, r)
          PROVE  adm.phase.tag = "Free" /\ adm.lifecycle.tag = "Free"
        BY <2>2 DEF Reserve, CanReserve
    <2>3. ASSUME QuarantinePendingLifecycle(id) \/ PendingRecovery(id)
          PROVE  adm.phase.tag = "PendingLifecycle" /\ adm.lifecycle.tag = "Free"
        BY <2>3 DEF QuarantinePendingLifecycle, PendingRecovery, PendingIs, IInv, SeatExclusive
    <2>4. EnterQuarantineForAdmin(id) => adm.phase.tag = "Free" /\ adm.lifecycle.tag = "Free"
        BY <1>3 DEF EnterQuarantineForAdmin, CanQuarantineForAdmin, DoQuarantineForAdmin
    <2>5. ~IssueAdminFinalizationReceipt(id)
        BY <1>3 DEF IssueAdminFinalizationReceipt
    <2> QED BY <1>3, <2>1, <2>2, <2>3, <2>4, <2>5 DEF IdStep
<1> QED BY <1>1, <1>2, <1>3, NextCases

\* Only the current receipt of an occupied lifecycle frees the seat, and the
\* step that does so uses it up.
THEOREM FreeingNeedsReceipt == Spec => FreedOnlyByItsReceipt
<1>1. ASSUME IInv, [Next]_vars, adm.lifecycle.tag # "Free", adm'.lifecycle.tag = "Free"
      PROVE  \E t \in held \ held' :
                /\ t.kind = adm.lifecycle.tag
                /\ t.id = adm.lifecycle.id
                /\ t.gen = adm.generation
    <2>1. PICK t \in held : Matches(adm, t) /\ t.gen = adm.generation /\ t \notin held'
        BY <1>1, StepEffects
    <2>2. t \in Tokens /\ adm \in Controllers /\ adm.phase.tag = "Free"
        BY <1>1 DEF IInv, TypeOK, SeatExclusive
    <2>3. MatchesLifecycle(adm, t)
        BY <2>1, <2>2 DEF Matches, MatchesPhase, LeaseKinds
    <2>4. t.kind = adm.lifecycle.tag /\ t.id = adm.lifecycle.id
        BY <2>3 DEF MatchesLifecycle, SeatIs
    <2> QED BY <2>1, <2>4
<1> QED BY <1>1, InductiveInvariant, PTL DEF Spec, FreedOnlyByItsReceipt

\* A capability of an older generation never moves the seat.
THEOREM StaleIsPowerless == Spec => StaleCapabilityIsPowerless
<1>1. IInv /\ [Next]_vars
      => \A t \in held \ held' : t.gen # adm.generation => adm' = adm
    BY StepEffects
<1> QED BY <1>1, InductiveInvariant, PTL DEF Spec, StaleCapabilityIsPowerless

\* A dropped Reserved or LaunchCommitted capability blocks the seat until the
\* daemon restarts.
THEOREM DroppedIsPermanent == Spec => DroppedLeaseIsPermanent
<1>1. ASSUME IInv, [Next]_vars, lost, adm.phase.tag \in {"Reserved", "LaunchCommitted"}
      PROVE  adm' = adm
    BY <1>1, StepEffects DEF IInv, NothingMatchesWhenLost
<1> QED BY <1>1, InductiveInvariant, PTL DEF Spec, DroppedLeaseIsPermanent

-----------------------------------------------------------------------------
\* The abstract seat, read off the controller.
LEMMA SeatView ==
    /\ adm.phase.tag # "Free" => SeatState = "launching"
    /\ adm.phase.tag = "Free" =>
          /\ adm.lifecycle.tag = "Free" => SeatState = "free"
          /\ adm.lifecycle.tag = "Active" => SeatState = "running"
          /\ adm.lifecycle.tag = "Recovering" => SeatState = "recovering"
          /\ adm.lifecycle.tag = "Quarantined" => SeatState = "quarantined"
  BY DEF SeatState

\* The same for the state after a step.
LEMMA SeatViewNext ==
    /\ adm'.phase.tag # "Free" => SeatState' = "launching"
    /\ adm'.phase.tag = "Free" =>
          /\ adm'.lifecycle.tag = "Free" => SeatState' = "free"
          /\ adm'.lifecycle.tag = "Active" => SeatState' = "running"
          /\ adm'.lifecycle.tag = "Recovering" => SeatState' = "recovering"
          /\ adm'.lifecycle.tag = "Quarantined" => SeatState' = "quarantined"
  BY DEF SeatState

\* The use of a capability is a step of the abstract seat or none.
LEMMA TokenStepRefines ==
    ASSUME IInv, NEW t \in held, TokenStep(t)
    PROVE  [AbstractSeat!Next]_(AbstractSeat!seatVars)
<1> USE DEF AbstractSeat!Next, AbstractSeat!seatVars, AbstractSeat!Progress, AbstractSeat!Release
<1>0. t \in Tokens /\ adm \in Controllers
    BY DEF IInv, TypeOK
<1>1. CASE adm' = adm
    BY <1>1 DEF SeatOwner, SeatState
<1>2. ASSUME Matches(adm, t), NEW k \in LeaseKinds, AdvancesTo(t, k)
      PROVE  UNCHANGED AbstractSeat!seatVars
    <2>1. adm'.phase.tag # "Free" /\ adm.phase.tag # "Free" /\ adm'.generation = adm.generation
        BY <1>0, <1>2, MatchesKinds DEF AdvancesTo, OnlyUses, LeaseKinds, PhaseTags
    <2>2. SeatState = "launching" /\ SeatState' = "launching"
        BY <2>1, SeatView, SeatViewNext
    <2> QED BY <2>1, <2>2 DEF SeatOwner
<1>3. ASSUME Matches(adm, t), NEW k \in {"Active", "Recovering"}, HandsOn(t, k)
      PROVE  AbstractSeat!Progress
    <2>1. /\ adm'.phase.tag = "Free" /\ adm'.lifecycle.tag = k
          /\ adm'.generation = adm.generation
        BY <1>3 DEF HandsOn, OnlyUses, NoPhase, SeatIs
    <2>2. CASE t.kind = "LaunchCommitted" /\ k = "Active"
        <3>1. adm.phase.tag # "Free"
            BY <1>0, <1>3, <2>2, MatchesKinds DEF LeaseKinds, PhaseTags
        <3>2. SeatState = "launching" /\ SeatState' = "running"
            BY <2>1, <2>2, <3>1, SeatView, SeatViewNext
        <3> QED BY <2>1, <3>2 DEF SeatOwner
    <2>3. CASE t.kind = "Active" /\ k = "Recovering"
        <3>1. adm.lifecycle.tag = "Active"
            BY <1>3, <2>3 DEF Matches, MatchesLifecycle, LeaseKinds, SeatIs
        <3>2. adm.phase.tag = "Free"
            BY <3>1 DEF IInv, SeatExclusive
        <3>3. SeatState = "running" /\ SeatState' = "recovering"
            BY <2>1, <2>3, <3>1, <3>2, SeatView, SeatViewNext
        <3> QED BY <2>1, <3>3 DEF SeatOwner
    <2> QED BY <1>3, <2>2, <2>3 DEF HandsOn
<1>4. ASSUME Matches(adm, t), Quarantines(t)
      PROVE  AbstractSeat!Progress
    <2>1. SeatState' = "quarantined" /\ adm'.generation = adm.generation
        BY <1>4, SeatViewNext DEF Quarantines, OnlyUses, NoPhase, SeatIs
    <2>2. CASE t.kind = "PendingLifecycle"
        <3>1. SeatState = "launching"
            BY <1>0, <1>4, <2>2, MatchesKinds, SeatView DEF LeaseKinds, PhaseTags
        <3> QED BY <2>1, <3>1 DEF SeatOwner
    <2>3. CASE t.kind \in {"Active", "Recovering"}
        <3>1. adm.lifecycle.tag = t.kind
            BY <1>4, <2>3 DEF Matches, MatchesLifecycle, LeaseKinds, SeatIs
        <3>2. adm.phase.tag = "Free"
            BY <2>3, <3>1 DEF IInv, SeatExclusive
        <3>3. SeatState \in {"running", "recovering"}
            BY <2>3, <3>1, <3>2, SeatView
        <3> QED BY <2>1, <3>3 DEF SeatOwner
    <2> QED BY <1>4, <2>2, <2>3 DEF Quarantines
<1>5. ASSUME Matches(adm, t), Frees(t)
      PROVE  AbstractSeat!Release
    <2>1. SeatState' = "free" /\ adm'.generation = adm.generation
        BY <1>5, SeatViewNext DEF Frees, OnlyUses, NoPhase, FreeSeat
    <2>2. adm.phase.tag # "Free" \/ adm.lifecycle.tag # "Free"
        BY <1>0, <1>5, MatchesKinds DEF Tokens, LeaseKinds, ReceiptKinds, PhaseTags
    <2>3. adm.lifecycle.tag \in LifecycleTags
        BY <1>0 DEF Controllers, Lifecycles
    <2>4. SeatState # "free"
        BY <2>2, <2>3, SeatView DEF LifecycleTags
    <2> QED BY <2>1, <2>4 DEF SeatOwner
<1>6. Dropped(t) \/ AttachPrecommitRuntime(t) => adm' = adm
    BY DEF Dropped, AttachPrecommitRuntime
<1> QED BY <1>1, <1>2, <1>3, <1>4, <1>5, <1>6, TokenStepCases

\* A method called with an identifier is a step of the abstract seat or none.
LEMMA IdStepRefines ==
    ASSUME IInv, NEW id \in LifecycleIds, IdStep(id)
    PROVE  [AbstractSeat!Next]_(AbstractSeat!seatVars)
<1> USE DEF AbstractSeat!Next, AbstractSeat!seatVars, AbstractSeat!Claim, AbstractSeat!Progress
<1>0. adm \in Controllers /\ adm.generation \in Nat
    BY DEF IInv, TypeOK, Controllers
<1>1. CASE adm' = adm
    BY <1>1 DEF SeatOwner, SeatState
<1>2. ASSUME NEW r \in RecoveryStates, Reserve(id, r)
      PROVE  AbstractSeat!Claim
    <2>1. SeatState = "free"
        BY <1>2, SeatView DEF Reserve, CanReserve
    <2>2. adm'.generation = adm.generation + 1 /\ adm'.phase.tag = "Reserved"
        BY <1>0, <1>2 DEF Reserve, DoReserve, Controllers
    <2>3. SeatState' = "launching"
        BY <2>2, SeatViewNext
    <2> QED BY <2>1, <2>2, <2>3 DEF SeatOwner
<1>3. ASSUME NEW k \in {"Quarantined", "Recovering"}, PendingIs(adm, id),
             adm' = DoLeavePending(adm, k, id)
      PROVE  AbstractSeat!Progress
    <2>1. SeatState = "launching"
        BY <1>3, SeatView DEF PendingIs
    <2>2. /\ adm'.phase.tag = "Free" /\ adm'.lifecycle.tag = k
          /\ adm'.generation = adm.generation
        BY <1>0, <1>3 DEF DoLeavePending, Controllers, NoPhase, SeatIs
    <2>3. SeatState' \in {"quarantined", "recovering"}
        BY <2>2, SeatViewNext
    <2> QED BY <2>1, <2>2, <2>3 DEF SeatOwner
<1>4. ASSUME EnterQuarantineForAdmin(id), adm' # adm
      PROVE  AbstractSeat!Claim
    <2>1. /\ adm.phase.tag = "Free" /\ adm.lifecycle.tag = "Free"
          /\ adm' = [adm EXCEPT !.generation = adm.generation + 1,
                                !.lifecycle = SeatIs("Quarantined", id)]
        BY <1>4 DEF EnterQuarantineForAdmin, CanQuarantineForAdmin, DoQuarantineForAdmin
    <2>2. /\ adm'.generation = adm.generation + 1 /\ adm'.phase = adm.phase
          /\ adm'.lifecycle.tag = "Quarantined"
        BY <1>0, <2>1 DEF Controllers, SeatIs
    <2>3. SeatState = "free" /\ SeatState' = "quarantined"
        BY <2>1, <2>2, SeatView, SeatViewNext
    <2> QED BY <2>2, <2>3 DEF SeatOwner
<1>5. IssueAdminFinalizationReceipt(id) => adm' = adm
    BY DEF IssueAdminFinalizationReceipt
<1> QED BY <1>1, <1>2, <1>3, <1>4, <1>5 DEF IdStep, QuarantinePendingLifecycle, PendingRecovery

\* The controller implements the abstract seat: one numbered tenure at a time.
THEOREM Refinement == Spec => ImplementsSeat
<1>1. Init => AbstractSeat!Init
    <2> SUFFICES ASSUME Init PROVE AbstractSeat!Init
        OBVIOUS
    <2>1. PICK l \in {FreeSeat} \union {SeatIs("Quarantined", id) : id \in LifecycleIds} :
              adm = NewController(l)
        BY DEF Init
    <2>2. l.tag \in {"Free", "Quarantined"}
        BY DEF FreeSeat, SeatIs
    <2>3. /\ adm.phase.tag = "Free" /\ adm.lifecycle.tag = l.tag
          /\ adm.generation = IF l.tag = "Free" THEN 0 ELSE 1
        BY <2>1 DEF NewController, NoPhase
    <2> QED BY <2>2, <2>3, SeatView DEF AbstractSeat!Init, SeatOwner
<1>2. IInv /\ [Next]_vars => [AbstractSeat!Next]_(AbstractSeat!seatVars)
    <2>1. UNCHANGED vars => UNCHANGED AbstractSeat!seatVars
        BY DEF vars, AbstractSeat!seatVars, SeatOwner, SeatState
    <2> QED BY <2>1, NextCases, TokenStepRefines, IdStepRefines
<1> QED BY <1>1, <1>2, InductiveInvariant, PTL DEF Spec, ImplementsSeat, AbstractSeat!Spec
=============================================================================
