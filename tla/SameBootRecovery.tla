-------------------------- MODULE SameBootRecovery --------------------------
(***************************************************************************)
(* reconcile_same_boot_record and finalize_startup_record: how the startup *)
(* recovers a session of the same boot that an earlier daemon left behind. *)
(* Every effect on the machine is between an intent and a confirmation in  *)
(* the record; what goes wrong quarantines the record.  Attempt ids come   *)
(* from the snapshot, which the release of the worker leaves stale.        *)
(***************************************************************************)
EXTENDS RecoveryLedger

Unmoved == UNCHANGED <<boot, journal, sq, blocked, todo, clash, sess, seat>>
Tag(rec, op) == rec.ops[op].tag
MemId(op) == mem[cur].ops[op].id

\* StartupRecoveryOutcome::Quarantined(why)
Quarantined(why) ==
    /\ pc' = "quarantine" /\ ctx' = [ctx EXCEPT !.why = why]
    /\ UNCHANGED <<gq, cur, calls>>

\* An identity, an owner or an observation cannot be confirmed.
Indeterminate(why) == Fault("facts") /\ Quarantined(why) /\ UNCHANGED <<files, host>>

Reject(why) == Quarantined(why) /\ UNCHANGED <<files, host, faults>>
Go(next) == pc' = next /\ UNCHANGED <<files, gq, cur, ctx, host, calls, faults>>

\* A write of the record, after which the snapshot is read again (or not).
Persist(rec, next, refresh) ==
    /\ \/ /\ Committed(cur, rec) /\ pc' = next
          /\ ctx' = IF refresh THEN [ctx EXCEPT !.rec = rec] ELSE ctx
          /\ UNCHANGED <<gq, cur, calls>>
       \/ CommitFailed(cur, rec) /\ Quarantined("other")
    /\ UNCHANGED host

\* An effect on the machine.
Called(effect) == Count(cur, effect)
Leaves(field, value) == host' = [host EXCEPT ![cur][field] = value]

-----------------------------------------------------------------------------
\* recover_validated_runtime_release: a worker that is still alive.
CheckWorker ==
    LET tag == Tag(ctx.rec, "runtime_release") IN
    /\ pc = "worker"
    /\ \/ Indeterminate("other")
       \/ ~host[cur].worker /\ Go("leader")
       \/ /\ host[cur].worker /\ tag = "NotStarted"
          /\ Persist(WithOp(mem[cur], "runtime_release", "Intent", ctx.rec.seq + 1), "sigterm", FALSE)
       \/ host[cur].worker /\ tag = "Intent" /\ Go("sigterm")
       \/ host[cur].worker /\ tag = "Indeterminate" /\ Go("sigkill")
       \/ host[cur].worker /\ tag \in {"Confirmed", "Failed"} /\ Reject("other")

Sigterm ==
    /\ pc = "sigterm"
    /\ \/ Leaves("worker", FALSE) /\ pc' = "released" /\ UNCHANGED <<files, gq, cur, ctx, calls, faults>>
       \/ Go("insufficient")

SigtermInsufficient ==
    /\ pc = "insufficient"
    /\ Persist(WithOpIn(mem[cur], "started", "runtime_release", "Indeterminate",
                        MemId("runtime_release")), "sigkill", FALSE)

Sigkill ==
    /\ pc = "sigkill"
    /\ \/ Leaves("worker", FALSE) /\ pc' = "released" /\ UNCHANGED <<files, gq, cur, ctx, calls, faults>>
       \/ Indeterminate("other")

\* Mutant: the confirmation is built on the stale snapshot.
WorkerReleasedFromSnapshot ==
    /\ pc = "released"
    /\ Persist(WithOp(ctx.rec, "runtime_release", "Confirmed", MemId("runtime_release")),
               "leader", FALSE)

WorkerReleased ==
    /\ pc = "released"
    /\ Persist(WithOp(mem[cur], "runtime_release", "Confirmed", MemId("runtime_release")),
               "leader", FALSE)

-----------------------------------------------------------------------------
\* The leader is looked up once; then the payload's unit, if it still exists.
\* Without one, prove_startup_absent_boundary and
\* confirm_absent_boundary_logind_and_vt take over.
CheckLeader ==
    /\ pc = "leader"
    /\ \/ Indeterminate("other")
       \/ /\ pc' = IF host[cur].scope = "absent" THEN "absent" ELSE "payload"
          /\ ctx' = [ctx EXCEPT !.leader = host[cur].scope = "leader"]
          /\ UNCHANGED <<files, gq, cur, host, calls, faults>>

AbsentBoundary ==
    LET tag == Tag(ctx.rec, "selinux_restore") IN
    /\ pc = "absent"
    /\ \/ Indeterminate("identity")
       \/ host[cur].logind /\ Reject("identity")
       \/ ~host[cur].logind /\ host[cur].vt /\ Go("vt")
       \/ /\ ~host[cur].logind /\ ~host[cur].vt
          /\ \/ /\ tag = "NotStarted"
                /\ Persist(WithOp(mem[cur], "selinux_restore", "Intent", ctx.rec.seq + 1),
                           "relabel", FALSE)
             \/ tag = "Confirmed" /\ Go("finalize")
             \/ tag \notin {"NotStarted", "Confirmed"} /\ Reject("identity")

Relabel ==
    /\ pc = "relabel"
    /\ \/ Indeterminate("identity")
       \/ Persist(WithOp(mem[cur], "selinux_restore", "Confirmed", MemId("selinux_restore")),
                  "finalize", FALSE)

\* reconcile_payload
Populated == host[cur].scope \in {"leader", "populated"}

CheckPayload ==
    /\ pc = "payload"
    /\ \/ Indeterminate("identity")
       \/ ~Populated /\ Go("unref")
       \/ Populated /\ Tag(ctx.rec, "payload_kill") \in {"Intent", "Indeterminate"} /\ Reject("identity")
       \/ /\ Populated /\ Tag(ctx.rec, "payload_kill") \notin {"Intent", "Indeterminate"}
          /\ Persist(WithOp(mem[cur], "payload_kill", "Intent", ctx.rec.seq + 1), "kill", TRUE)

\* The kill is asked for; it empties the scope, or it does not in time.
KillPayload ==
    /\ pc = "kill" /\ Called("kill")
    /\ \/ Leaves("scope", "empty") /\ pc' = "killed" /\ UNCHANGED <<ctx, faults>>
       \/ /\ Fault("facts") /\ pc' = "quarantine" /\ ctx' = [ctx EXCEPT !.why = "identity"]
          /\ UNCHANGED host
    /\ UNCHANGED <<files, gq, cur>>

PayloadKilled ==
    /\ pc = "killed"
    /\ Persist(WithOp(mem[cur], "payload_kill", "Confirmed", MemId("payload_kill")),
               "payloadGone", TRUE)

\* What the leader was before the kill decides.
CheckStaleLeader ==
    /\ pc = "payloadGone"
    /\ \/ ctx.leader /\ Reject("other")
       \/ ~ctx.leader /\ Go("unref")

\* persist_recovery_unref_intent and release_recovery.  systemd may collect
\* the unit once it is released.
UnrefIntent ==
    /\ pc = "unref"
    /\ \/ Indeterminate("identity")
       \/ Persist(WithOp(mem[cur], "supervisor_unref", "Intent", ctx.rec.seq + 1), "release_unit", TRUE)

ReleaseUnit ==
    /\ pc = "release_unit"
    /\ \/ Indeterminate("identity")
       \/ /\ \E s \in {"empty", "absent"} : Leaves("scope", s)
          /\ pc' = "unrefDone" /\ UNCHANGED <<files, gq, cur, ctx, calls, faults>>

Unreffed ==
    /\ pc = "unrefDone"
    /\ Persist(WithOp(mem[cur], "supervisor_unref", "Confirmed", MemId("supervisor_unref")),
               "logind", TRUE)

-----------------------------------------------------------------------------
\* reconcile_logind_and_vt
LogindIntent ==
    /\ pc = "logind"
    /\ \/ Indeterminate("other")
       \/ ~host[cur].logind /\ Go("vt")
       \/ /\ host[cur].logind
          /\ Persist(WithOp(mem[cur], "logind_termination", "Intent", ctx.rec.seq + 2),
                     "terminate", TRUE)

\* The owner of the bus name may change while the call is in flight, whether
\* or not it ended the session.
Terminate ==
    /\ pc = "terminate" /\ Called("terminate")
    /\ \/ Leaves("logind", FALSE) /\ pc' = "terminated" /\ UNCHANGED <<ctx, faults>>
       \/ /\ Fault("facts") /\ pc' = "quarantine" /\ ctx' = [ctx EXCEPT !.why = "other"]
          /\ \E alive \in BOOLEAN : Leaves("logind", alive)
    /\ UNCHANGED <<files, gq, cur>>

Terminated ==
    /\ pc = "terminated"
    /\ Persist(WithOp(mem[cur], "logind_termination", "Confirmed", MemId("logind_termination")),
               "vt", TRUE)

\* Mutant: an intent of an earlier daemon does not hold the call back.
VtIntentAgain ==
    /\ pc = "vt"
    /\ Persist(WithOp(mem[cur], "vt_disallocate", "Intent", ctx.rec.seq + 3), "disallocate", TRUE)

\* reconcile_startup_vt
VtIntent ==
    LET tag == Tag(ctx.rec, "vt_disallocate") IN
    /\ pc = "vt"
    /\ \/ Indeterminate("other")
       \/ tag = "Confirmed" /\ Go("finalize")
       \/ tag = "Failed" /\ Reject("busy")
       \/ tag \in {"Intent", "Indeterminate"} /\ Reject("identity")
       \/ /\ tag = "NotStarted"
          /\ Persist(WithOp(mem[cur], "vt_disallocate", "Intent", ctx.rec.seq + 3), "disallocate", TRUE)

\* VT_DISALLOCATE: done, EBUSY because another process holds the VT, or another error.
Disallocate ==
    /\ pc = "disallocate" /\ Called("disallocate")
    /\ \/ Leaves("vt", FALSE) /\ pc' = "vtDone" /\ UNCHANGED <<ctx, faults>>
       \/ pc' = "vtBusy" /\ UNCHANGED <<host, ctx, faults>>
       \/ /\ Fault("facts") /\ pc' = "quarantine" /\ ctx' = [ctx EXCEPT !.why = "identity"]
          /\ UNCHANGED host
    /\ UNCHANGED <<files, gq, cur>>

VtDisallocated ==
    /\ pc = "vtDone"
    /\ Persist(WithOp(mem[cur], "vt_disallocate", "Confirmed", MemId("vt_disallocate")),
               "finalize", FALSE)

VtBusy ==
    /\ pc = "vtBusy"
    /\ Persist(WithOp(mem[cur], "vt_disallocate", "Failed", MemId("vt_disallocate")),
               "provenance", FALSE)

\* record_vt_busy_provenance, then VtDisallocateBusy
RecordProvenance ==
    LET rec == [Transition(mem[cur], mem[cur].state) EXCEPT !.busy = TRUE] IN
    /\ pc = "provenance"
    /\ \/ Committed(cur, rec) /\ Quarantined("busy")
       \/ CommitFailed(cur, rec) /\ Quarantined("other")
    /\ UNCHANGED host

-----------------------------------------------------------------------------
\* finalize_startup_record and mark_record_resolved_typed.  The resolution is
\* confirmed before the state says so.
StartFinalize ==
    LET rec == mem[cur]
        unreplayable == Tag(rec, "runtime_release") \in {"Intent", "Indeterminate", "Failed"}
        resolution == Tag(rec, "record_resolution")
    IN /\ pc = "finalize"
       /\ \/ unreplayable /\ Reject("other")
          \/ ~unreplayable /\ rec.state = "record_resolved" /\ Go("startRelease")
          \/ /\ ~unreplayable /\ rec.state # "record_resolved"
             /\ \/ /\ resolution = "NotStarted"
                   /\ Persist(WithOp(rec, "record_resolution", "Intent", rec.seq + 1), "resolving", FALSE)
                \/ resolution = "Confirmed" /\ Go("markResolved")
                \/ resolution \notin {"NotStarted", "Confirmed"} /\ Reject("other")

ConfirmResolution ==
    /\ pc = "resolving"
    /\ Persist(WithOp(mem[cur], "record_resolution", "Confirmed", MemId("record_resolution")),
               "markResolved", FALSE)

MarkResolved ==
    pc = "markResolved" /\ Persist(Transition(mem[cur], "record_resolved"), "startRelease", FALSE)

StartRelease ==
    /\ pc = "startRelease"
    /\ \/ Tag(mem[cur], "runtime_release") = "Confirmed" /\ Go("unlink")
       \/ /\ Tag(mem[cur], "runtime_release") # "Confirmed"
          /\ Persist(WithOp(mem[cur], "runtime_release", "Intent", mem[cur].seq + 1), "releasing", FALSE)

FinishRelease ==
    /\ pc = "releasing"
    /\ Persist(WithOp(mem[cur], "runtime_release", "Confirmed", MemId("runtime_release")),
               "unlink", FALSE)

\* remove_record_typed, then issue_seat_free_permit: a record left for the
\* seat, or a quarantine, makes the finalization fail after the removal.
RemoveRecord ==
    /\ pc = "unlink"
    /\ \/ Removed(cur) /\ ~Competing(cur) /\ Proceed /\ UNCHANGED <<gq, calls>>
       \/ Removed(cur) /\ Competing(cur) /\ Quarantined("other")
       \/ RemoveFailed(cur) /\ Quarantined("other")
    /\ UNCHANGED host

\* Mutant: a quarantine that cannot be written is forgotten.
QuarantineRecordIgnoringFailure ==
    LET next == [Transition(mem[cur], "quarantined") EXCEPT !.reason = ctx.why] IN
    /\ pc = "quarantine" /\ mem[cur] # None /\ Proceed
    /\ Committed(cur, next) \/ CommitFailed(cur, next)
    /\ UNCHANGED <<gq, host, calls>>

\* quarantine_startup_record.  A record already quarantined for the same reason
\* is left alone; "identity" and "other" each stand for several reasons.
QuarantineRecord ==
    LET rec == mem[cur]
        next == [Transition(rec, "quarantined") EXCEPT !.reason = ctx.why]
        same == rec.state = "quarantined" /\ rec.reason = ctx.why
    IN /\ pc = "quarantine" /\ Proceed
       /\ \/ rec = None /\ gq' = TRUE /\ UNCHANGED <<files, faults>>
          \/ rec # None /\ same /\ UNCHANGED <<files, gq, faults>>
          \/ rec # None /\ (same => ctx.why # "busy") /\ Committed(cur, next) /\ UNCHANGED gq
          \/ rec # None /\ (same => ctx.why # "busy") /\ CommitFailed(cur, next) /\ gq' = TRUE
       /\ UNCHANGED <<host, calls>>

\* An administrative attempt whose outcome was not recorded: the ioctl is not
\* repeated, and a write that fails is ignored.
FinishPending ==
    LET rec == Finished(mem[cur], "Indeterminate") IN
    /\ pc = "pending" /\ Proceed
    /\ Committed(cur, rec) \/ CommitFailed(cur, rec)
    /\ UNCHANGED <<gq, host, calls>>

SameBootStep ==
    /\ \/ FinishPending \/ CheckWorker \/ Sigterm \/ SigtermInsufficient \/ Sigkill \/ WorkerReleased
       \/ CheckLeader \/ AbsentBoundary \/ Relabel \/ CheckPayload \/ KillPayload
       \/ PayloadKilled \/ CheckStaleLeader \/ UnrefIntent \/ ReleaseUnit \/ Unreffed
       \/ LogindIntent \/ Terminate \/ Terminated \/ VtIntent \/ Disallocate
       \/ VtDisallocated \/ VtBusy \/ RecordProvenance \/ StartFinalize
       \/ ConfirmResolution \/ MarkResolved \/ StartRelease \/ FinishRelease
       \/ RemoveRecord \/ QuarantineRecord
    /\ Unmoved

SameBootWritePcs ==
    {"pending", "worker", "insufficient", "released", "absent", "relabel", "payload", "killed", "unref",
     "unrefDone", "logind", "terminated", "vt", "vtDone", "vtBusy", "provenance", "finalize",
     "resolving", "markResolved", "startRelease", "releasing", "quarantine"}
=============================================================================
