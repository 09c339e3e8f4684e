--------------------------- MODULE SupervisorLoop ---------------------------
(***************************************************************************)
(* The supervisor thread (launcher/supervisor_loop): it takes one message  *)
(* or waits 25 ms, then reaps the exited workers, and starts again.  A     *)
(* handler runs to its end before the next message is looked at.  The      *)
(* recovery state of the seat is computed once when the ledger is opened   *)
(* and is Clear here; a seat that is blocked at startup refuses the first  *)
(* message of every login.                                                 *)
(***************************************************************************)
EXTENDS SupervisionState

Handle(call) ==
    /\ loop = "recv"
    /\ mbox # <<>>
    /\ Head(mbox).call = call
    /\ mbox' = Tail(mbox)
    /\ loop' = "reap"

\* recv_timeout expires
RecvTimeout ==
    /\ loop = "recv"
    /\ mbox = <<>>
    /\ loop' = "reap"
    /\ UNCHANGED <<adm, pend, kids, rec, mbox, lch, wrk, scope, faults>>

HandleReserveSeat ==
    /\ Handle("ReserveSeat")
    /\ LET id == Head(mbox).id
           lease == [ReserveLease(adm, id) EXCEPT !.bound = TRUE]
       IN  \/ /\ ~CanReserve(adm, "Clear")
              /\ ReplyErr(id, "ReserveSeat")
              /\ UNCHANGED <<adm, faults>>
           \/ /\ CanReserve(adm, "Clear")       \* capture_previous_vt fails
              /\ Spend(1)
              /\ ReplyErr(id, "ReserveSeat")
              /\ UNCHANGED adm
           \/ /\ CanReserve(adm, "Clear")
              /\ adm' = DoReserve(adm, id)
              /\ \E stored \in BOOLEAN :        \* create_reserved
                    /\ Spend(Cost(stored))
                    /\ Reply(id, "ReserveSeat", stored, IF stored THEN lease ELSE NoId, 0)
    /\ UNCHANGED <<pend, kids, rec, wrk, scope>>

\* cancel: the phase is left only when the pre-commit file is gone.
CancelLease(t) ==
    \/ /\ MatchesPhase(adm, t)
       /\ \E removed \in BOOLEAN :
             /\ Spend(Cost(removed))
             /\ adm' = IF removed THEN DoCancel(adm) ELSE adm
    \/ /\ ~MatchesPhase(adm, t)
       /\ UNCHANGED <<adm, faults>>

HandleCancelAdmission ==
    /\ Handle("CancelAdmission")
    /\ CancelLease(Head(mbox).lease)
    /\ UNCHANGED <<pend, kids, rec, lch, wrk, scope>>

HandleBeginPending ==
    /\ Handle("BeginPending")
    /\ LET id == Head(mbox).id
           t == Head(mbox).lease
       IN  \/ /\ CanAdvance(adm, "Clear", t)
              /\ adm' = DoAdvance(adm, t, "PendingLifecycle")
              /\ pend' = [pend EXCEPT ![id] = [NoEntry EXCEPT !.st = "WorkerSpawned"]]
              /\ Reply(id, "BeginPending", TRUE, Advanced(t, "PendingLifecycle"), 0)
              /\ UNCHANGED faults
           \/ /\ ~CanAdvance(adm, "Clear", t)
              /\ CancelLease(t)
              /\ ReplyErr(id, "BeginPending")
              /\ UNCHANGED pend
    /\ UNCHANGED <<kids, rec, wrk, scope>>

\* record_prepared_scope.  prepare_payload validates the live scope; when it
\* fails the seat is quarantined at once and the entry stays.  A record that
\* cannot be stored leaves the entry in the state taken out of it.
HandleRecordPreparedScope ==
    /\ Handle("RecordPreparedScope")
    /\ LET id == Head(mbox).id
           e == pend[id]
           accepted == e.st = "WorkerSpawned" /\ ~e.terminal /\ e.release = "NotRequested"
       IN  \/ /\ ~accepted
              /\ ReplyErr(id, "RecordPreparedScope")
              /\ UNCHANGED <<adm, pend, rec, faults>>
           \/ /\ accepted /\ scope[id] = "held"
              /\ \E stored \in BOOLEAN :
                    /\ Spend(Cost(stored))
                    /\ rec' = IF stored THEN [rec EXCEPT ![id].state = "payload_prepared"] ELSE rec
                    /\ pend' = IF stored
                               THEN [pend EXCEPT ![id].st = "PayloadPrepared", ![id].gen = @ + 1]
                               ELSE [pend EXCEPT ![id].st = "Quarantined"]
                    /\ Reply(id, "RecordPreparedScope", stored, lch[id].lease, 0)
              /\ UNCHANGED adm
           \/ /\ accepted
              /\ Spend(Cost(scope[id] # "held"))
              /\ pend' = [pend EXCEPT ![id].st = "Quarantined", ![id].terminal = TRUE]
              /\ adm' = IF PendingIs(adm, id) THEN DoLeavePending(adm, "Quarantined", id) ELSE adm
              /\ ReplyErr(id, "RecordPreparedScope")
              /\ UNCHANGED rec
    /\ UNCHANGED <<kids, wrk, scope>>

\* mark_payload_registered: the entry moves before the record does.
HandleMarkPayloadRegistered ==
    /\ Handle("MarkPayloadRegistered")
    /\ LET id == Head(mbox).id
       IN  \/ /\ pend[id].st = "PayloadPrepared"
              /\ pend' = [pend EXCEPT ![id].st = "PayloadRegistered"]
              /\ \E stored \in BOOLEAN :
                    /\ Spend(Cost(stored))
                    /\ rec' = IF stored THEN [rec EXCEPT ![id].state = "payload_registered"] ELSE rec
                    /\ Reply(id, "MarkPayloadRegistered", stored, lch[id].lease, 0)
           \/ /\ pend[id].st # "PayloadPrepared"
              /\ ReplyErr(id, "MarkPayloadRegistered")
              /\ UNCHANGED <<pend, rec, faults>>
    /\ UNCHANGED <<adm, kids, wrk, scope>>

HandleBeginRelease ==
    /\ Handle("BeginRelease")
    /\ LET id == Head(mbox).id
           e == pend[id]
       IN  \/ /\ e.st \in {"PayloadPrepared", "PayloadRegistered"}
              /\ ~e.terminal /\ e.release = "NotRequested"
              /\ pend' = [pend EXCEPT ![id].release = "Requested", ![id].gen = @ + 1]
              /\ Reply(id, "BeginRelease", TRUE, lch[id].lease, e.gen + 1)
           \/ /\ e.st \notin {"PayloadPrepared", "PayloadRegistered"}
                 \/ e.terminal \/ e.release # "NotRequested"
              /\ ReplyErr(id, "BeginRelease")
              /\ UNCHANGED pend
    /\ UNCHANGED <<adm, kids, rec, wrk, scope, faults>>

\* complete_release, for the token of the last begin_release only.
HandleCompleteRelease ==
    /\ Handle("CompleteRelease")
    /\ LET id == Head(mbox).id
           e == pend[id]
           current == /\ e.st \in {"PayloadPrepared", "PayloadRegistered"}
                      /\ e.release = "Requested"
                      /\ e.gen = Head(mbox).gen
       IN  \/ /\ current /\ Head(mbox).flag
              /\ pend' = [pend EXCEPT ![id].st = "PayloadReleased"]
              /\ \E stored \in BOOLEAN :
                    /\ Spend(Cost(stored))
                    /\ rec' = IF stored
                              THEN [rec EXCEPT ![id].state = "payload_boundary_proven_empty"]
                              ELSE rec
                    /\ Reply(id, "CompleteRelease", stored, lch[id].lease, 0)
           \/ /\ current /\ ~Head(mbox).flag
              /\ pend' = [pend EXCEPT ![id].release = "RecoveryRequired", ![id].terminal = TRUE]
              /\ ReplyOk(id, "CompleteRelease")
              /\ UNCHANGED <<rec, faults>>
           \/ /\ ~current
              /\ ReplyErr(id, "CompleteRelease")
              /\ UNCHANGED <<pend, rec, faults>>
    /\ UNCHANGED <<adm, kids, wrk, scope>>

-----------------------------------------------------------------------------
\* register_running: what the predicate over the pending entries asks for.
Registrable(id) ==
    /\ pend[id].st = "PayloadRegistered"
    /\ pend[id].release = "NotRequested"
    /\ ~pend[id].terminal

\* The five ways out of register_running once the entry was found: the
\* worker's Started disagrees with the prepared payload; "started" cannot be
\* stored; the pre-commit file cannot be marked or removed; the control
\* channel cannot be cloned; success.
RegisterFound(id, t) ==
    \/ /\ Spend(1)
       /\ adm' = IF MatchesPhase(adm, t) THEN DoLeavePending(adm, "Quarantined", id) ELSE adm
       /\ wrk' = [wrk EXCEPT ![id] = Killed(@)]
       /\ ReplyErr(id, "Register")
       /\ UNCHANGED <<kids, rec>>
    \/ /\ Spend(1)
       /\ ReplyErr(id, "Register")
       /\ UNCHANGED <<adm, kids, rec, wrk>>
    \/ /\ MatchesPhase(adm, t)
       /\ Spend(1)
       /\ rec' = [rec EXCEPT ![id].state = "started"]
       /\ adm' = DoAdvance(adm, t, "LaunchCommitted")
       /\ ReplyErr(id, "Register")
       /\ UNCHANGED <<kids, wrk>>
    \/ /\ MatchesPhase(adm, t)
       /\ rec' = [rec EXCEPT ![id].state = "started"]
       /\ adm' = DoPromoteToRunning(adm, t)
       /\ kids' = [kids EXCEPT ![id].receipt = Receipt("Active", id, t.gen)]
       /\ \E cloned \in BOOLEAN :
             /\ Spend(Cost(cloned))
             /\ wrk' = [wrk EXCEPT ![id].reader = cloned]
             /\ Reply(id, "Register", cloned, NoId, 0)

HandleRegister ==
    /\ Handle("Register")
    /\ LET id == Head(mbox).id
           t == Head(mbox).lease
       IN  \/ /\ Registrable(id)
              /\ pend' = [pend EXCEPT ![id] = NoEntry]
              /\ RegisterFound(id, t)
           \/ /\ ~Registrable(id)
              /\ CancelLease(t)
              /\ ReplyErr(id, "Register")
              /\ UNCHANGED <<pend, kids, rec, wrk>>
    /\ UNCHANGED scope

-----------------------------------------------------------------------------
\* SupervisorEmergencyRecoveryCoordinator::recover on a dead worker's
\* payload.  Only a proven empty boundary goes on to logind and the VT.
Outcomes == {"Recovered", "Busy", "Quarantined"}

RecoverBoundary(id, outcome) ==
    \/ scope' = [scope EXCEPT ![id] = "empty"]
    \/ outcome = "Quarantined" /\ UNCHANGED scope

\* resolve_and_remove; when it fails the record is there, resolved or not.
Unresolved(r) == {r, [r EXCEPT !.state = "record_resolved"]}
Resolutions(r, ok) == IF ok THEN {NoRecord} ELSE Unresolved(r)

\* recover_payload_entry: pending_recovery made the seat Recovering.
RecoverPayloadEntry(id) ==
    \E outcome \in Outcomes, noted, settled \in BOOLEAN :
       LET r == IF noted THEN [rec[id] EXCEPT !.state = "emergency_recovery_started"] ELSE rec[id]
       IN  /\ RecoverBoundary(id, outcome)
           /\ Spend(Cost(noted) + Cost(settled))
           /\ \/ /\ outcome = "Recovered"
                 /\ \E n \in Resolutions(r, settled) : rec' = [rec EXCEPT ![id] = n]
                 /\ adm' = IF settled THEN DoRelease(DoLeavePending(adm, "Recovering", id))
                           ELSE DoLeavePending(adm, "Recovering", id)
              \/ /\ outcome = "Busy"
                 /\ rec' = [rec EXCEPT ![id] = IF settled
                               THEN [r EXCEPT !.state = "vt_disallocate_failed_busy"] ELSE r]
                 /\ adm' = DoLeavePending(adm, "Quarantined", id)
              \/ /\ outcome = "Quarantined" /\ settled
                 /\ rec' = [rec EXCEPT ![id] = r]
                 /\ adm' = DoLeavePending(adm, "Quarantined", id)

\* recover_pre_payload_entry: logind and the VT are recovered by the
\* worker's pid, for an entry that never saw a payload.
RecoverPrePayloadEntry(id) ==
    /\ \/ pend[id].st = "WorkerSpawned" /\ adm' = DoRelease(DoLeavePending(adm, "Recovering", id))
       \/ adm' = DoLeavePending(adm, "Quarantined", id)
    /\ UNCHANGED <<rec, scope, faults>>

\* Mutant: the launcher's word is enough, the scope is not looked at.
CleanExitUnverified(id) == Head(mbox).flag

\* finalize_expected_prestarted_exit: a payload must be released, empty and
\* unknown to logind; without a payload there is nothing to prove.
CleanExit(id) ==
    /\ Head(mbox).flag
    /\ HasPayload(pend[id]) => pend[id].st = "PayloadReleased" /\ scope[id] = "empty"

\* A failed persist_resolve is ignored.
FinalizeClean(id, t) ==
    /\ CleanExit(id)
    /\ \E resolved, removed \in BOOLEAN :
          /\ Spend(Cost(resolved) + Cost(removed))
          /\ \E n \in Resolutions(rec[id], resolved) :
                rec' = IF HasRecord(id) THEN [rec EXCEPT ![id] = n] ELSE rec
          /\ adm' = IF removed THEN DoCancel(adm) ELSE adm
    /\ UNCHANGED scope

HandleAbortPending ==
    /\ Handle("AbortPending")
    /\ LET id == Head(mbox).id
           t == Head(mbox).lease
       IN  \/ /\ ~MatchesPhase(adm, t)
              /\ ReplyErr(id, "AbortPending")
              /\ UNCHANGED <<adm, pend, rec, wrk, scope, faults>>
           \/ /\ MatchesPhase(adm, t)
              /\ pend' = [pend EXCEPT ![id] = NoEntry]
              /\ wrk' = [wrk EXCEPT ![id] = Killed(@)]     \* reap_pending_worker
              /\ ReplyOk(id, "AbortPending")
              /\ \/ FinalizeClean(id, t)
                 \/ /\ Head(mbox).flag => HasPayload(pend[id])
                    /\ IF HasPayload(pend[id]) THEN RecoverPayloadEntry(id)
                       ELSE RecoverPrePayloadEntry(id)
    /\ UNCHANGED kids

-----------------------------------------------------------------------------
\* accept_terminal_vt_intent: persisted before the worker touches the VT.
HandleTerminalVtIntent ==
    /\ Handle("TerminalVtIntent")
    /\ LET id == Head(mbox).id
       IN  \/ /\ Supervised(id) /\ rec[id].state = "started"
              /\ rec' = [rec EXCEPT ![id].vt = "IntentPersisted"]
              /\ wrk' = IF wrk[id].pc = "vtIntent" THEN [wrk EXCEPT ![id].pc = "vtRelease"] ELSE wrk
              /\ UNCHANGED faults
           \/ /\ Spend(Cost(~(Supervised(id) /\ rec[id].state = "started")))
              /\ UNCHANGED <<rec, wrk>>
    /\ UNCHANGED <<adm, pend, kids, lch, scope>>

HandleTerminalVtResult ==
    /\ Handle("TerminalVtResult")
    /\ LET id == Head(mbox).id
           busy == Head(mbox).flag
           accepted == Supervised(id) /\ rec[id].vt = "IntentPersisted"
       IN  \/ /\ accepted
              /\ rec' = [rec EXCEPT ![id] = IF busy
                            THEN [state |-> "vt_disallocate_failed_busy", vt |-> "Failed"]
                            ELSE [state |-> "started", vt |-> "Confirmed"]]
              /\ kids' = [kids EXCEPT ![id].busy = busy]
              /\ wrk' = IF wrk[id].pc = "vtResult" THEN [wrk EXCEPT ![id].pc = "closing"] ELSE wrk
              /\ UNCHANGED faults
           \/ /\ Spend(Cost(~accepted))
              /\ UNCHANGED <<rec, kids, wrk>>
    /\ UNCHANGED <<adm, pend, lch, scope>>

-----------------------------------------------------------------------------
\* finish_exited_worker, its three endings.
Exited(id) == Supervised(id) /\ ~Alive(id)

\* Mutant: a worker that reported a busy VT frees the seat.
FinishBusyFrees(id) ==
    /\ kids[id].busy
    /\ adm' = DoRelease(adm)
    /\ UNCHANGED <<rec, scope, faults>>

FinishBusy(id) ==
    /\ kids[id].busy
    /\ adm' = DoMoveLifecycle(adm, "Quarantined", id)
    /\ UNCHANGED <<rec, scope, faults>>

\* Mutant: the seat of a clean exit is freed with its record in place.
FinishCleanKeepsRecord(id) ==
    /\ ~kids[id].busy
    /\ wrk[id].pc = "exitOk" /\ scope[id] = "empty"
    /\ adm' = DoRelease(adm)
    /\ UNCHANGED <<rec, scope, faults>>

FinishClean(id) ==
    /\ ~kids[id].busy
    /\ wrk[id].pc = "exitOk" /\ scope[id] = "empty"
    /\ rec' = [rec EXCEPT ![id] = NoRecord]
    /\ adm' = DoRelease(adm)
    /\ UNCHANGED <<scope, faults>>

\* Mutant: the receipt of a failed recovery is dropped.
FinishUnexpectedDropsReceipt(id) ==
    /\ ~kids[id].busy
    /\ \E outcome \in Outcomes :
          /\ RecoverBoundary(id, outcome)
          /\ adm' = IF outcome = "Recovered" THEN DoRelease(adm)
                    ELSE DoMoveLifecycle(adm, "Recovering", id)
    /\ UNCHANGED <<rec, faults>>

\* A failed exit, a scope or a logind session still there, or a record that
\* cannot be resolved.  A recovered worker's record is not resolved.
FinishUnexpected(id) ==
    /\ ~kids[id].busy
    /\ \E outcome \in Outcomes, noted, settled \in BOOLEAN :
         LET r == IF noted THEN [rec[id] EXCEPT !.state = "worker_exited_unexpectedly"] ELSE rec[id]
         IN  /\ RecoverBoundary(id, outcome)
             /\ Spend(Cost(noted) + Cost(settled))
             /\ outcome # "Busy" => settled
             /\ rec' = [rec EXCEPT ![id] = IF outcome = "Busy" /\ settled
                            THEN [r EXCEPT !.state = "vt_disallocate_failed_busy"] ELSE r]
             /\ adm' = IF outcome = "Recovered" THEN DoRelease(adm)
                       ELSE DoMoveLifecycle(adm, "Quarantined", id)

FinishExitedWorker(id) ==
    /\ loop = "reap"
    /\ Exited(id)
    /\ kids' = [kids EXCEPT ![id] = NoKid]
    /\ IF MatchesLifecycle(adm, kids[id].receipt)
       THEN FinishBusy(id) \/ FinishClean(id) \/ FinishUnexpected(id)
       ELSE UNCHANGED <<rec, scope, adm, faults>>
    /\ UNCHANGED <<pend, loop, mbox, lch, wrk>>

\* reap_exited_workers is done
Reaped ==
    /\ loop = "reap"
    /\ \A id \in LifecycleIds : ~Exited(id)
    /\ loop' = "recv"
    /\ UNCHANGED <<adm, pend, kids, rec, mbox, lch, wrk, scope, faults>>

\* WorkerSupervisor is dropped with its last launcher: shutdown_workers ends
\* the supervised workers, and nothing is finished or recorded any more.
Shutdown ==
    /\ loop = "recv" /\ mbox = <<>>
    /\ \A id \in LifecycleIds : AtRest(id)
    /\ loop' = "down"
    /\ wrk' = [id \in LifecycleIds |-> IF Supervised(id) THEN Killed(wrk[id]) ELSE wrk[id]]
    /\ kids' = [id \in LifecycleIds |-> NoKid]
    /\ UNCHANGED <<adm, pend, rec, mbox, lch, scope, faults>>

SupervisorSteps ==
    \/ RecvTimeout
    \/ HandleReserveSeat
    \/ HandleCancelAdmission
    \/ HandleBeginPending
    \/ HandleRecordPreparedScope
    \/ HandleMarkPayloadRegistered
    \/ HandleBeginRelease
    \/ HandleCompleteRelease
    \/ HandleRegister
    \/ HandleAbortPending
    \/ HandleTerminalVtIntent
    \/ HandleTerminalVtResult
    \/ \E id \in LifecycleIds : FinishExitedWorker(id)
    \/ Reaped

SupervisorNext == SupervisorSteps \/ Shutdown
=============================================================================
