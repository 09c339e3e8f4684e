--------------------------- MODULE RecoveryAdmin ----------------------------
(***************************************************************************)
(* recovery_admin (supervisor_loop/admin.rs): an operator retries the      *)
(* VT_DISALLOCATE of a record that is quarantined because the VT was busy. *)
(* The supervisor's thread does the whole retry, with the ledger locked;   *)
(* the daemon can die within it.                                           *)
(***************************************************************************)
EXTENDS RecoveryLedger

CONSTANT MaxAttempts   \* retries of one record in a behaviour
ASSUME AdminAssumption == MaxAttempts \in Nat

AdminRest == UNCHANGED <<boot, journal, flags, todo, clash, ctx, sess>>
Confirmed(rec, op) == rec.ops[op].tag = "Confirmed"

\* The record is one that may be retried, and ack acknowledges its last attempt.
Eligible(r, ack) ==
    LET rec == mem[r] IN
    /\ rec # None /\ rec.boot = boot /\ rec.state = "quarantined" /\ rec.reason = "busy"
    /\ ~\E q \in Recs \ {r} : mem[q] # None /\ mem[q].seq >= rec.seq
    /\ rec.busy
    /\ rec.attempts # <<>> =>
          /\ LastAttempt(rec).state = "Indeterminate" => ack = LastAttempt(rec).id
          /\ LastAttempt(rec).state # "IntentPersisted"
    /\ Confirmed(rec, "payload_kill") /\ Confirmed(rec, "supervisor_unref")
    /\ ~host[r].worker /\ host[r].scope = "absent" /\ ~host[r].logind

\* next_attempt_id: an attempt's id is one more than the last one's.
NewAttempt(rec, state) == [id |-> Len(rec.attempts) + 1, seq |-> rec.seq, state |-> state]

\* The VT is in the foreground or held: the retry is rejected, on record.
RejectRetry(r, ack) ==
    LET rec == WithAttempt(mem[r], NewAttempt(mem[r], "Rejected")) IN
    /\ pc = "up" /\ Eligible(r, ack) /\ Len(mem[r].attempts) < MaxAttempts
    /\ Committed(r, rec) \/ CommitFailed(r, rec)
    /\ UNCHANGED <<pc, cur, seat, host, calls>> /\ AdminRest

\* Mutant: the ioctl is issued although the intent was not written.
BeginRetryUnrecorded(r, ack) ==
    LET rec == WithAttempt(mem[r], NewAttempt(mem[r], "IntentPersisted")) IN
    /\ pc = "up" /\ Eligible(r, ack) /\ Len(mem[r].attempts) < MaxAttempts
    /\ seat \in {"free", r} /\ seat' = r
    /\ Committed(r, rec) \/ CommitFailed(r, rec)
    /\ pc' = "ioctl" /\ cur' = r
    /\ UNCHANGED <<host, calls>> /\ AdminRest

\* enter_quarantine_for_admin, then the intent.
BeginRetry(r, ack) ==
    LET rec == WithAttempt(mem[r], NewAttempt(mem[r], "IntentPersisted")) IN
    /\ pc = "up" /\ Eligible(r, ack) /\ Len(mem[r].attempts) < MaxAttempts
    /\ seat \in {"free", r} /\ seat' = r
    /\ \/ Committed(r, rec) /\ pc' = "ioctl" /\ cur' = r
       \/ CommitFailed(r, rec) /\ UNCHANGED <<pc, cur>>
    /\ UNCHANGED <<host, calls>> /\ AdminRest

\* disallocate_vt_once: done, done but the VT is in the foreground again, busy,
\* or another error.
RetryIoctl ==
    /\ pc = "ioctl" /\ Count(cur, "admin")
    /\ \/ /\ pc' \in {"adminConfirm", "adminIndeterminate"}
          /\ host' = [host EXCEPT ![cur].vt = FALSE]
       \/ pc' \in {"adminBusy", "adminFailed"} /\ UNCHANGED host
    /\ UNCHANGED <<files, cur, seat, faults>> /\ AdminRest

\* A write of the retry, then the step next; the retry ends when it fails.
RetryWrites(rec, next) ==
    /\ \/ Committed(cur, rec) /\ pc' = next /\ cur' = IF next = "up" THEN None ELSE cur
       \/ CommitFailed(cur, rec) /\ pc' = "up" /\ cur' = None
    /\ UNCHANGED <<seat, host, calls>> /\ AdminRest

RetryId == LastAttempt(mem[cur]).id

RetryFinish ==
    \/ pc = "adminIndeterminate" /\ RetryWrites(Finished(mem[cur], "Indeterminate"), "up")
    \/ pc = "adminFailed" /\ RetryWrites(Finished(mem[cur], "Failed"), "up")
    \/ pc = "adminBusy" /\ RetryWrites(Finished(mem[cur], "Failed"), "adminProvenance")
    \/ pc = "adminProvenance" /\ RetryWrites(Transition(mem[cur], mem[cur].state), "up")

RetryConfirm ==
    \/ /\ pc = "adminConfirm"
       /\ RetryWrites(WithOp(mem[cur], "vt_disallocate", "Confirmed", RetryId), "adminFinish")
    \/ pc = "adminFinish" /\ RetryWrites(Finished(mem[cur], "Confirmed"), "adminResolve")

\* finalize_admin_success: mark_record_resolved_typed ...
AdminResolve ==
    \/ /\ pc = "adminResolve" /\ ~Started(mem[cur], "record_resolution")
       /\ RetryWrites(WithOp(mem[cur], "record_resolution", "Intent", mem[cur].seq + 1), "adminResolving")
    \/ /\ pc = "adminResolve" /\ Confirmed(mem[cur], "record_resolution") /\ pc' = "adminMark"
       /\ UNCHANGED <<files, cur, seat, host, calls, faults>> /\ AdminRest
    \/ /\ pc = "adminResolve" /\ mem[cur].ops["record_resolution"].tag \notin {"NotStarted", "Confirmed"}
       /\ pc' = "up" /\ cur' = None
       /\ UNCHANGED <<files, seat, host, calls, faults>> /\ AdminRest
    \/ /\ pc = "adminResolving"
       /\ RetryWrites(WithOp(mem[cur], "record_resolution", "Confirmed",
                             mem[cur].ops["record_resolution"].id), "adminMark")
    \/ pc = "adminMark" /\ RetryWrites(Transition(mem[cur], "record_resolved"), "adminRelease")

\* ... then the runtime release, which may fail, under the attempt's id ...
AdminRelease ==
    /\ pc = "adminRelease"
    /\ \/ RetryWrites(WithOp(mem[cur], "runtime_release", "Confirmed", mem[cur].seq), "adminRemove")
       \/ RetryWrites(WithOp(mem[cur], "runtime_release", "Failed", RetryId), "up")

\* Mutant: the seat is freed although the record could not be removed.
AdminRemoveFreesAnyway ==
    /\ pc = "adminRemove" /\ pc' = "up" /\ cur' = None /\ seat' = "free"
    /\ Removed(cur) \/ RemoveFailed(cur)
    /\ UNCHANGED <<host, calls>> /\ AdminRest

\* ... and the removal, which frees the seat.
AdminRemove ==
    /\ pc = "adminRemove" /\ pc' = "up" /\ cur' = None
    /\ \/ Removed(cur) /\ seat' = IF Competing(cur) THEN seat ELSE "free"
       \/ RemoveFailed(cur) /\ UNCHANGED seat
    /\ UNCHANGED <<host, calls>> /\ AdminRest

AdminStep ==
    \/ \E r \in Recs, ack \in 0..MaxAttempts : RejectRetry(r, ack) \/ BeginRetry(r, ack)
    \/ RetryIoctl \/ RetryFinish \/ RetryConfirm \/ AdminResolve \/ AdminRelease \/ AdminRemove

AdminWritePcs == {"adminIndeterminate", "adminFailed", "adminBusy", "adminProvenance",
                  "adminConfirm", "adminFinish", "adminResolve", "adminResolving",
                  "adminMark", "adminRelease"}
=============================================================================
