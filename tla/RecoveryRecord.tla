--------------------------- MODULE RecoveryRecord ---------------------------
(***************************************************************************)
(* PersistentRecoveryRecord and its operation ledger (persistent.rs,       *)
(* persistent_operations.rs), and what a daemon that reads the record back *)
(* requires of it (persistent_taxonomy.rs).  Process, unit and session     *)
(* identities are left out: they never change after the record is created. *)
(***************************************************************************)
EXTENDS Naturals, Sequences

\* DurableOperationLedger, in the order validate_historical_record reads it.
Operations == <<"payload_kill", "supervisor_unref", "logind_termination",
                "selinux_restore", "vt_activation", "vt_disallocate",
                "record_resolution", "runtime_release">>
Ranks == 1..8
OperationNames == {Operations[i] : i \in Ranks}

\* DurableOperationState
OperationTags == {"NotStarted", "Intent", "Confirmed", "Failed", "Indeterminate"}
NotStarted == [tag |-> "NotStarted", id |-> 0]
Op(tag, id) == [tag |-> tag, id |-> id]
OperationStates == [tag : OperationTags, id : Nat]

\* The states the supervisor, the startup recovery and the previous-boot
\* finalization write.
RecordStates == {"started", "worker_exited_unexpectedly", "vt_disallocate_failed_busy",
                 "quarantined", "previous_boot_resolution_intent", "record_resolved"}

\* quarantine_reason, up to what the code does with it: a retryable identity
\* change, a busy VT, or anything else.
QuarantineReasons == {"none", "identity", "busy", "other"}

\* VtRecoveryAttempt: an administrative retry, with the sequence it was asked for.
AttemptStates == {"IntentPersisted", "Confirmed", "Failed", "Indeterminate", "Rejected"}
Attempts == [id : Nat, seq : Nat, state : AttemptStates]

\* busy: it has a vt_busy_provenance.
Records == [state : RecordStates, seq : Nat, boot : Nat, reason : QuarantineReasons,
            ops : [OperationNames -> OperationStates], busy : BOOLEAN,
            attempts : Seq(Attempts)]

\* PersistentRecoveryRecord::prepared, then payload_registered, then started.
StartedRecord(boot) ==
    [state |-> "started", seq |-> 3, boot |-> boot, reason |-> "none",
     ops |-> [o \in OperationNames |-> NotStarted], busy |-> FALSE,
     attempts |-> <<>>]

-----------------------------------------------------------------------------
\* PersistentRecoveryRecord::transition
Transition(rec, state) == [rec EXCEPT !.state = state, !.seq = @ + 1]

\* update_operation: the operation changes, the state stays.
WithOp(rec, op, tag, id) ==
    [Transition(rec, rec.state) EXCEPT !.ops[op] = Op(tag, id)]

\* transition_with_operation
WithOpIn(rec, state, op, tag, id) ==
    [Transition(rec, state) EXCEPT !.ops[op] = Op(tag, id)]

\* append_vt_recovery_attempt and finish_vt_recovery_attempt
WithAttempt(rec, attempt) ==
    [Transition(rec, rec.state) EXCEPT !.attempts = Append(@, attempt)]
LastAttempt(rec) == rec.attempts[Len(rec.attempts)]
Pending(rec) == rec.attempts # <<>> /\ LastAttempt(rec).state = "IntentPersisted"
Finished(rec, state) ==
    [Transition(rec, rec.state) EXCEPT !.attempts[Len(rec.attempts)].state = state]

Started(rec, op) == rec.ops[op].tag # "NotStarted"
AttemptIds(rec) == {rec.ops[o].id : o \in {p \in OperationNames : Started(rec, p)}}

\* next_operation_attempt_id
NextAttemptId(rec) ==
    (CHOOSE n \in AttemptIds(rec) \union {0} : \A m \in AttemptIds(rec) : m <= n) + 1

-----------------------------------------------------------------------------
\* AttemptIdZero, AttemptIdRegression and DuplicateAttemptId: the ids of the
\* operations that were started grow in the order of the ledger.
IdsRegress(rec) ==
    \/ 0 \in AttemptIds(rec)
    \/ \E i, j \in Ranks :
          /\ i < j /\ Started(rec, Operations[i]) /\ Started(rec, Operations[j])
          /\ rec.ops[Operations[j]].id <= rec.ops[Operations[i]].id

\* RuntimeReleaseBeforeRecordResolved and OperationAfterRecordResolved
ResolutionBroken(rec) ==
    \/ rec.ops["runtime_release"].tag = "Confirmed" /\ rec.state # "record_resolved"
    \/ /\ rec.state = "record_resolved"
       /\ rec.ops["record_resolution"].tag \notin {"Confirmed", "NotStarted"}
    \/ rec.ops["record_resolution"].tag = "Confirmed" /\ rec.state # "record_resolved"

\* The rules for the administrative attempts, which are appended in order.
AttemptsBroken(rec) ==
    LET done == {"Confirmed", "Failed", "Indeterminate"} IN
    \/ \E i \in DOMAIN rec.attempts : rec.attempts[i].id = 0 \/ rec.attempts[i].seq = 0
    \/ \E i, j \in DOMAIN rec.attempts :
          /\ i < j
          /\ \/ rec.attempts[j].id <= rec.attempts[i].id
             \/ rec.attempts[j].seq <= rec.attempts[i].seq
    \/ /\ \E i \in DOMAIN rec.attempts : rec.attempts[i].state \in done
       /\ rec.ops["vt_disallocate"].tag \notin done

\* validate_historical_record finds a violation.  load_records then leaves
\* the record out and puts the whole ledger in quarantine.
Violated(rec) ==
    rec.seq = 0 \/ IdsRegress(rec) \/ ResolutionBroken(rec) \/ AttemptsBroken(rec)
=============================================================================
