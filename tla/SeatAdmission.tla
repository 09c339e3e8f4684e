--------------------------- MODULE SeatAdmission ---------------------------
(***************************************************************************)
(* The seat admission controller and the capabilities it hands out.        *)
(* held is the set of leases and receipts that exist anywhere in the       *)
(* daemon: in a launcher thread, in a message to the supervisor, in the    *)
(* reply to one, in a supervised worker's entry.  A method consumes the    *)
(* capability it is given; one that fails usually drops it.                *)
(***************************************************************************)
EXTENDS AdmissionController

CONSTANT MaxGeneration    \* bound on reservations and administrative entries

ASSUME MaxGenerationAssumption == MaxGeneration \in Nat

VARIABLES adm,    \* the controller
          held,   \* every capability in existence
          lost    \* the capability that matched adm was dropped

vars == <<adm, held, lost>>

\* What recovery_admission_state reports to reserve, promote and commit.
RecoveryStates == {"Clear", "SeatBlocked", "GloballyBlocked"}

Init ==
    /\ \E l \in {FreeSeat} \union {SeatIs("Quarantined", id) : id \in LifecycleIds} :
          adm = NewController(l)
    /\ held = {}
    /\ lost = FALSE

-----------------------------------------------------------------------------
\* The capability is gone and the controller did not move.
Dropped(t) ==
    /\ held' = held \ {t}
    /\ lost' = (lost \/ Matches(adm, t))
    /\ UNCHANGED adm

\* The controller moves to c; t is used up and the capabilities new appear.
Moved(c, t, new) ==
    /\ adm' = c
    /\ held' = (held \ {t}) \union new
    /\ lost' = FALSE

\* remove_precommit_runtime: nothing to remove, or the store may fail.
Removals(t) == IF t.bound THEN BOOLEAN ELSE {TRUE}

Reserve(id, recovery) ==
    /\ CanReserve(adm, recovery)
    /\ adm.generation < MaxGeneration
    /\ adm' = DoReserve(adm, id)
    /\ held' = held \union {ReserveLease(adm, id)}
    /\ lost' = FALSE

AttachPrecommitRuntime(t) ==
    /\ t.kind = "Reserved" /\ ~t.bound
    /\ held' = (held \ {t}) \union {[t EXCEPT !.bound = TRUE]}
    /\ UNCHANGED <<adm, lost>>

\* promote and commit give the lease back when they refuse.
Promote(t, recovery) ==
    /\ t.kind = "Reserved"
    /\ CanAdvance(adm, recovery, t)
    /\ Moved(DoAdvance(adm, t, "PendingLifecycle"), t, {Advanced(t, "PendingLifecycle")})

Commit(t, recovery) ==
    /\ t.kind = "PendingLifecycle"
    /\ CanAdvance(adm, recovery, t)
    /\ Moved(DoAdvance(adm, t, "LaunchCommitted"), t, {Advanced(t, "LaunchCommitted")})

PromoteCommittedToRunning(t) ==
    /\ t.kind = "LaunchCommitted"
    /\ \E removed \in Removals(t) :
          IF MatchesPhase(adm, t) /\ removed
          THEN Moved(DoPromoteToRunning(adm, t), t, {Receipt("Active", t.id, t.gen)})
          ELSE Dropped(t)

Cancel(t) ==
    /\ t.kind \in {"Reserved", "PendingLifecycle"}
    /\ \E removed \in Removals(t) :
          IF MatchesPhase(adm, t) /\ removed
          THEN Moved(DoCancel(adm), t, {})
          ELSE Dropped(t)

EnterRecovery(t) ==
    /\ t.kind = "Active"
    /\ IF MatchesLifecycle(adm, t)
       THEN Moved(DoMoveLifecycle(adm, "Recovering", t.id), t,
                  {Receipt("Recovering", t.id, t.gen)})
       ELSE Dropped(t)

EnterQuarantineFromPending(t) ==
    /\ t.kind = "PendingLifecycle"
    /\ IF MatchesPhase(adm, t)
       THEN Moved(DoLeavePending(adm, "Quarantined", t.id), t, {})
       ELSE Dropped(t)

EnterQuarantineFromReceipt(t) ==
    /\ t.kind \in {"Active", "Recovering"}
    /\ IF MatchesLifecycle(adm, t)
       THEN Moved(DoMoveLifecycle(adm, "Quarantined", t.id), t, {})
       ELSE Dropped(t)

\* release_after_a3_finalization, release_running_after_a3_finalization and
\* release_after_admin_finalization
ReleaseAfterFinalization(t) ==
    /\ t.kind \in ReceiptKinds
    /\ IF MatchesLifecycle(adm, t)
       THEN Moved(DoRelease(adm), t, {})
       ELSE Dropped(t)

QuarantinePendingLifecycle(id) ==
    /\ PendingIs(adm, id)
    /\ adm' = DoLeavePending(adm, "Quarantined", id)
    /\ lost' = FALSE
    /\ UNCHANGED held

PendingRecovery(id) ==
    /\ PendingIs(adm, id)
    /\ adm' = DoLeavePending(adm, "Recovering", id)
    /\ held' = held \union {Receipt("Recovering", id, adm.generation)}
    /\ lost' = FALSE

EnterQuarantineForAdmin(id) ==
    /\ CanQuarantineForAdmin(adm, id)
    /\ adm.generation < MaxGeneration
    /\ adm' = DoQuarantineForAdmin(adm, id)
    /\ UNCHANGED <<held, lost>>

IssueAdminFinalizationReceipt(id) ==
    /\ CanIssueAdminReceipt(adm, id)
    /\ held' = held \union {Receipt("Quarantined", id, adm.generation)}
    /\ lost' = FALSE
    /\ UNCHANGED adm

\* A capability goes out of scope unused: the reply that carries it arrives
\* after recv_timeout gave up, or a handler returns early with `?`.
Abandon(t) == Dropped(t)

Next ==
    \/ \E id \in LifecycleIds, r \in RecoveryStates : Reserve(id, r)
    \/ \E t \in held, r \in RecoveryStates : Promote(t, r) \/ Commit(t, r)
    \/ \E t \in held :
          \/ AttachPrecommitRuntime(t)
          \/ PromoteCommittedToRunning(t)
          \/ Cancel(t)
          \/ EnterRecovery(t)
          \/ EnterQuarantineFromPending(t)
          \/ EnterQuarantineFromReceipt(t)
          \/ ReleaseAfterFinalization(t)
          \/ Abandon(t)
    \/ \E id \in LifecycleIds :
          \/ QuarantinePendingLifecycle(id)
          \/ PendingRecovery(id)
          \/ EnterQuarantineForAdmin(id)
          \/ IssueAdminFinalizationReceipt(id)

Spec == Init /\ [][Next]_vars

-----------------------------------------------------------------------------
\* Every variable has its type.
TypeOK ==
    /\ adm \in Controllers
    /\ held \in SUBSET Tokens
    /\ lost \in BOOLEAN

\* A login in progress and a session, a recovery or a quarantine never hold
\* the seat together: while a pre-commit phase is open the lifecycle is Free.
SeatExclusive == adm.phase.tag # "Free" => adm.lifecycle.tag = "Free"

\* Of all the leases and receipts in the daemon at most one can still move
\* the seat; the others are stale and every method refuses them.
AuthorityUnique ==
    \A t, u \in held : Matches(adm, t) /\ Matches(adm, u) => t = u

\* Somebody holds the capability of an occupied seat, unless that very
\* capability was dropped: no sequence of methods loses it otherwise.
OrphanedOnlyWhenDropped ==
    /\ adm.phase.tag # "Free" \/ adm.lifecycle.tag \in {"Active", "Recovering"}
    /\ ~lost
    => \E t \in held : Matches(adm, t)

\* issue_admin_finalization_receipt's test of generation 0 never fires: a
\* seat in any lifecycle but Free has a generation to bind a receipt to.
OccupiedHasGeneration ==
    adm.phase.tag # "Free" \/ adm.lifecycle.tag # "Free" => adm.generation > 0

\* A seat whose Reserved or LaunchCommitted capability was dropped stays
\* as it is: no timeout, no message and no administrative command of the
\* controller reclaims it.
DroppedLeaseIsPermanent ==
    [][ lost /\ adm.phase.tag \in {"Reserved", "LaunchCommitted"} => adm' = adm ]_vars

\* The lifecycle becomes Free only in a step that uses up a receipt of that
\* same lifecycle and generation.
FreedOnlyByItsReceipt ==
    [][ adm.lifecycle.tag # "Free" /\ adm'.lifecycle.tag = "Free"
        => \E t \in held \ held' :
              /\ t.kind = adm.lifecycle.tag
              /\ t.id = adm.lifecycle.id
              /\ t.gen = adm.generation ]_vars

\* A step that uses up a capability of an older generation leaves the
\* controller as it was.
StaleCapabilityIsPowerless ==
    [][ \A t \in held \ held' : t.gen # adm.generation => adm' = adm ]_vars

-----------------------------------------------------------------------------
\* An open phase is the current generation's, a closed one is blank, and
\* only an occupied lifecycle names somebody.
ControllerCoherent ==
    /\ IF adm.phase.tag = "Free"
       THEN adm.phase = NoPhase
       ELSE adm.phase.gen = adm.generation /\ adm.phase.id \in LifecycleIds
    /\ IF adm.lifecycle.tag = "Free"
       THEN adm.lifecycle = FreeSeat
       ELSE adm.lifecycle.id \in LifecycleIds

\* No capability is from the future, receipts carry nothing but identity,
\* and one generation has at most one lease.
CapabilitiesCoherent ==
    /\ \A t \in held : t.gen <= adm.generation
    /\ \A t \in held : t.kind \in ReceiptKinds => t.attempt = 0 /\ ~t.bound
    /\ \A t, u \in held :
          t.kind \in LeaseKinds /\ u.kind \in LeaseKinds /\ t.gen = u.gen => t = u

\* Once the matching capability was dropped none in existence matches.
NothingMatchesWhenLost == lost => \A t \in held : ~Matches(adm, t)

\* The inductive invariant behind the properties of this module: what the
\* checks of the methods rely on and never test.
IInv ==
    /\ TypeOK
    /\ SeatExclusive
    /\ OccupiedHasGeneration
    /\ ControllerCoherent
    /\ CapabilitiesCoherent
    /\ NothingMatchesWhenLost
    /\ OrphanedOnlyWhenDropped

-----------------------------------------------------------------------------
\* The seat as its observers see it.
SeatState ==
    CASE adm.phase.tag # "Free" -> "launching"
      [] adm.phase.tag = "Free" /\ adm.lifecycle.tag = "Free" -> "free"
      [] adm.phase.tag = "Free" /\ adm.lifecycle.tag = "Active" -> "running"
      [] adm.phase.tag = "Free" /\ adm.lifecycle.tag = "Recovering" -> "recovering"
      [] OTHER -> "quarantined"

SeatOwner == IF SeatState = "free" THEN 0 ELSE adm.generation

AbstractSeat == INSTANCE Seat WITH
    state <- SeatState, owner <- SeatOwner, last <- adm.generation

\* The controller, driven in any order by any holder of a capability,
\* implements the abstract seat: one numbered tenure at a time.
ImplementsSeat == AbstractSeat!Spec
=============================================================================
