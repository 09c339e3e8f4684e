------------------------ MODULE AdmissionController ------------------------
(***************************************************************************)
(* The data and the methods of SeatAdmissionController, the object that    *)
(* decides who owns the seat (launcher/supervisor_loop/admission.rs).      *)
(* Every method is a predicate (its early returns) and an operator from    *)
(* controller to controller (its assignments), so that a handler which     *)
(* calls several methods in one step composes the operators.               *)
(*                                                                         *)
(* Capabilities are linear Rust values (neither Clone nor Copy); they are  *)
(* the records of Tokens.  The seat name is the same everywhere (one       *)
(* controller, one seat) and is left out.  Generations and attempts are    *)
(* u64 with wrapping_add; 2^64 reservations are out of reach, so they are  *)
(* naturals here.                                                          *)
(***************************************************************************)
EXTENDS Naturals

CONSTANTS LifecycleIds,   \* the worker / lifecycle identifiers
          NoId            \* the absence of one

ASSUME NoIdAssumption == NoId \notin LifecycleIds

Ids == LifecycleIds \union {NoId}

PhaseTags == {"Free", "Reserved", "PendingLifecycle", "LaunchCommitted"}
Phases == [tag : PhaseTags, attempt : Nat, id : Ids, gen : Nat]
NoPhase == [tag |-> "Free", attempt |-> 0, id |-> NoId, gen |-> 0]

LifecycleTags == {"Free", "Active", "Recovering", "Quarantined"}
Lifecycles == [tag : LifecycleTags, id : Ids]
FreeSeat == [tag |-> "Free", id |-> NoId]
SeatIs(tag, id) == [tag |-> tag, id |-> id]

Controllers == [phase : Phases, lifecycle : Lifecycles,
                generation : Nat, nextAttempt : Nat]

\* A lease or receipt; bound says that it still carries the binding of the
\* pre-commit runtime file (Option<PreCommitRuntimeBinding>).
LeaseKinds == {"Reserved", "PendingLifecycle", "LaunchCommitted"}
ReceiptKinds == {"Active", "Recovering", "Quarantined"}
Tokens == [kind : LeaseKinds \union ReceiptKinds, attempt : Nat,
           id : LifecycleIds, gen : Nat, bound : BOOLEAN]

Lease(kind, a, id, g, b) ==
    [kind |-> kind, attempt |-> a, id |-> id, gen |-> g, bound |-> b]
Receipt(kind, id, g) == Lease(kind, 0, id, g, FALSE)

-----------------------------------------------------------------------------
\* SeatAdmissionController::new
NewController(lifecycle) ==
    [phase |-> NoPhase, lifecycle |-> lifecycle,
     generation |-> IF lifecycle.tag = "Free" THEN 0 ELSE 1,
     nextAttempt |-> 1]

\* A lease matches the phase it was issued for, in every field, and the
\* current generation (matches_reserved, matches_pending and the checks of
\* promote_committed_to_running); a receipt matches the lifecycle it was
\* issued for and the current generation.
MatchesPhase(c, t) ==
    /\ c.phase.tag = t.kind
    /\ c.phase.attempt = t.attempt
    /\ c.phase.id = t.id
    /\ c.phase.gen = t.gen
    /\ c.generation = t.gen

MatchesLifecycle(c, t) ==
    /\ c.lifecycle = SeatIs(t.kind, t.id)
    /\ c.generation = t.gen

Matches(c, t) ==
    \/ t.kind \in LeaseKinds /\ MatchesPhase(c, t)
    \/ t.kind \in ReceiptKinds /\ MatchesLifecycle(c, t)

\* Mutant: the phase of another login is not looked at.
CanReserveIgnoringPhase(c, recovery) ==
    recovery = "Clear" /\ c.lifecycle.tag = "Free"

\* reserve: the only way out of Free into a pre-commit lifecycle.
CanReserve(c, recovery) ==
    /\ recovery = "Clear"
    /\ c.phase.tag = "Free"
    /\ c.lifecycle.tag = "Free"

ReserveLease(c, id) ==
    Lease("Reserved", c.nextAttempt, id, c.generation + 1, FALSE)

\* Mutant: the generation of the lease is not stored in the controller.
DoReserveSameGeneration(c, id) ==
    [c EXCEPT !.nextAttempt = c.nextAttempt + 1,
              !.phase = [tag |-> "Reserved", attempt |-> c.nextAttempt,
                         id |-> id, gen |-> c.generation + 1]]

DoReserve(c, id) ==
    [c EXCEPT !.nextAttempt = c.nextAttempt + 1,
              !.generation = c.generation + 1,
              !.phase = [tag |-> "Reserved", attempt |-> c.nextAttempt,
                         id |-> id, gen |-> c.generation + 1]]

\* promote and commit move a matching lease to the next phase.
CanAdvance(c, recovery, t) == recovery = "Clear" /\ MatchesPhase(c, t)

Advanced(t, kind) == [t EXCEPT !.kind = kind]

DoAdvance(c, t, kind) ==
    [c EXCEPT !.phase = [tag |-> kind, attempt |-> t.attempt,
                         id |-> t.id, gen |-> t.gen]]

\* promote_committed_to_running, after the pre-commit file is removed.
DoPromoteToRunning(c, t) ==
    [c EXCEPT !.phase = NoPhase, !.lifecycle = SeatIs("Active", t.id)]

\* enter_recovery, enter_quarantine_from_*, release_*: a matching receipt
\* moves the lifecycle.
DoMoveLifecycle(c, tag, id) == [c EXCEPT !.lifecycle = SeatIs(tag, id)]

DoRelease(c) == [c EXCEPT !.lifecycle = FreeSeat]

\* quarantine_pending_lifecycle, pending_recovery: by identifier, without
\* the lease, which its holder keeps.
PendingIs(c, id) ==
    c.phase.tag = "PendingLifecycle" /\ c.phase.id = id

DoLeavePending(c, tag, id) ==
    [c EXCEPT !.phase = NoPhase, !.lifecycle = SeatIs(tag, id)]

\* enter_quarantine_for_admin
AlreadyQuarantined(c, id) == c.lifecycle = SeatIs("Quarantined", id)

CanQuarantineForAdmin(c, id) ==
    \/ AlreadyQuarantined(c, id)
    \/ c.lifecycle.tag = "Free" /\ c.phase.tag = "Free"

\* Mutant: the administrative tenure gets no number of its own.
DoQuarantineForAdminSameGeneration(c, id) ==
    [c EXCEPT !.lifecycle = SeatIs("Quarantined", id)]

DoQuarantineForAdmin(c, id) ==
    IF AlreadyQuarantined(c, id) THEN c
    ELSE [c EXCEPT !.generation = c.generation + 1,
                   !.lifecycle = SeatIs("Quarantined", id)]

\* issue_admin_finalization_receipt for the removed record of lifecycle id.
CanIssueAdminReceipt(c, id) ==
    AlreadyQuarantined(c, id) /\ c.generation # 0

\* cancel, after the pre-commit file is removed.
DoCancel(c) == [c EXCEPT !.phase = NoPhase]
=============================================================================
