---------------------- MODULE PreviousBootFinalization ----------------------
(***************************************************************************)
(* execute_previous_boot_plan (previous_boot_finalization_tail.rs): how    *)
(* the startup finalizes the record of a session of an earlier boot.  Each *)
(* step of the record is followed by a stage in the journal; what the      *)
(* operations did in their own boot is not replayed.  The order is the     *)
(* resolution, the runtime release, the removal of the record, and the     *)
(* seat.  The authority each step checks names the record's sequence and   *)
(* inode: the ledger's lock is held and a failed write abandons the plan,  *)
(* so it holds whenever a step is reached and is not modelled.             *)
(***************************************************************************)
EXTENDS RecoveryLedger

\* The effect of a step on the rest of the state.
Abandon == Proceed /\ UNCHANGED flags

\* guard_current_boot, or the inspection of the machine, fails.
Unstable == Fault("facts") /\ Abandon /\ UNCHANGED <<files, journal>>

Entry(stage) == [stage |-> stage, seq |-> mem[cur].seq, ino |-> disk[cur].ino]
JournalWith(entry) == [jrn EXCEPT ![cur] = entry]

\* Mutant: a journal that cannot be written does not stop the plan.
LogIgnoringFailure(entry, next) ==
    /\ Persisted(JournalWith(entry)) \/ PersistFailed(JournalWith(entry))
    /\ pc' = next /\ ctx' = [ctx EXCEPT !.stage = entry.stage]
    /\ UNCHANGED <<files, flags, cur>>

\* upsert and persist, then on to the step next.
Log(entry, next) ==
    /\ \/ /\ Persisted(JournalWith(entry)) /\ UNCHANGED flags
          /\ pc' = next /\ UNCHANGED cur /\ ctx' = [ctx EXCEPT !.stage = entry.stage]
       \/ PersistFailed(JournalWith(entry)) /\ Abandon
    /\ UNCHANGED files

\* advance and advance_runtime_release, then on to the step next.
Advance(rec, next) ==
    /\ \/ Committed(cur, rec) /\ pc' = next /\ UNCHANGED <<flags, cur, ctx>>
       \/ CommitFailed(cur, rec) /\ Abandon
    /\ UNCHANGED journal

Skip(next) == pc' = next /\ UNCHANGED <<files, journal, flags, cur, ctx, faults>>

-----------------------------------------------------------------------------
\* plan_previous_boot_reconciliation, revalidate and validate_against_ledger.
\* The record's state decides between resolving it and finalizing it.
Plan ==
    /\ pc = "plan"
    /\ \/ Unstable
       \/ /\ gq \/ mem[cur].state = "quarantined" \/ jtmp \/ JournalConflict
          /\ Abandon /\ UNCHANGED <<files, journal, faults>>
       \/ /\ ~gq /\ ~jtmp /\ ~JournalConflict
          /\ mem[cur].state \notin {"quarantined", "record_resolved"}
          /\ Skip(IF jrn[cur] = None THEN "notReplayed"
                  ELSE IF mem[cur].state = "previous_boot_resolution_intent"
                  THEN "intentLogged" ELSE "intent")
       \/ /\ ~gq /\ ~jtmp /\ ~JournalConflict
          /\ mem[cur].state = "record_resolved"
          /\ Skip(IF Started(mem[cur], "record_resolution") THEN "release" ELSE "adopt")

LogNotReplayed ==
    pc = "notReplayed" /\ Log(Entry("NotReplayed"), "resolutionIntent")

LogResolutionIntent ==
    /\ pc = "resolutionIntent"
    /\ Log(Entry("ResolutionIntent"),
           IF mem[cur].state = "previous_boot_resolution_intent" THEN "intentLogged" ELSE "intent")

ResolutionIntent ==
    /\ pc = "intent"
    /\ \/ Unstable
       \/ Advance(WithOpIn(mem[cur], "previous_boot_resolution_intent", "record_resolution",
                           "Intent", NextAttemptId(mem[cur])), "intentLogged")

\* The entry keeps the stage it has in memory: a plan that found an entry
\* starts again from NotReplayed.
LogIntent == pc = "intentLogged" /\ Log(Entry(ctx.stage), "resolve")

Resolved(rec) ==
    LET op == rec.ops["record_resolution"]
    IN WithOpIn(rec, "record_resolved", "record_resolution", "Confirmed",
                IF op.tag = "Intent" THEN op.id ELSE NextAttemptId(rec))

Resolve ==
    /\ pc = "resolve"
    /\ \/ Unstable
       \/ /\ mem[cur].ops["record_resolution"].tag \in {"Intent", "NotStarted"}
          /\ Advance(Resolved(mem[cur]), "resolved")
       \/ /\ mem[cur].ops["record_resolution"].tag \notin {"Intent", "NotStarted"}
          /\ Abandon /\ UNCHANGED <<files, journal, faults>>

LogResolved == pc = "resolved" /\ Log(Entry("RecordResolved"), "release")

\* The record was resolved in its own boot: its resolution is confirmed now.
AdoptResolution == pc = "adopt" /\ Advance(Resolved(mem[cur]), "release")

ReleaseIntent ==
    LET tag == mem[cur].ops["runtime_release"].tag IN
    /\ pc = "release"
    /\ \/ /\ tag = "NotStarted"
          /\ Advance(WithOp(mem[cur], "runtime_release", "Intent", NextAttemptId(mem[cur])),
                     "releaseLogged")
       \/ tag \in {"Intent", "Confirmed"} /\ Skip("confirm")
       \/ /\ tag \in {"Failed", "Indeterminate"}
          /\ Abandon /\ UNCHANGED <<files, journal, faults>>

LogReleaseIntent == pc = "releaseLogged" /\ Log(Entry("RuntimeReleaseIntent"), "confirm")

ConfirmRelease ==
    LET op == mem[cur].ops["runtime_release"] IN
    /\ pc = "confirm"
    /\ \/ Unstable
       \/ op.tag = "Confirmed" /\ Skip("confirmed")
       \/ /\ op.tag # "Confirmed"
          /\ Advance(WithOp(mem[cur], "runtime_release", "Confirmed", op.id), "confirmed")

LogReleaseConfirmed ==
    pc = "confirmed" /\ Log(Entry("RuntimeReleaseConfirmed"), "removalIntent")

LogRemovalIntent == pc = "removalIntent" /\ Log(Entry("RemovalIntent"), "remove")

\* Mutant: the record is forgotten, its file is not unlinked.
RemoveFromMemoryOnly ==
    /\ pc = "remove" /\ pc' = "removed" /\ mem' = [mem EXCEPT ![cur] = None]
    /\ UNCHANGED <<disk, rtmp, journal, flags, cur, ctx, faults>>

\* remove_record_exact
Remove ==
    /\ pc = "remove"
    /\ \/ Unstable
       \/ Removed(cur) /\ pc' = "removed" /\ UNCHANGED <<journal, flags, cur, ctx>>
       \/ RemoveFailed(cur) /\ Abandon /\ UNCHANGED journal

LogRemoved ==
    pc = "removed" /\ Log([jrn[cur] EXCEPT !.stage = "Removed"], "free")

\* The seat's quarantine is cleared before FreePublished is written, and stays
\* cleared when that write fails.
PublishFree ==
    LET j == JournalWith([jrn[cur] EXCEPT !.stage = "FreePublished"]) IN
    /\ pc = "free"
    /\ Persisted(j) \/ PersistFailed(j)
    /\ sq' = FALSE
    /\ Proceed
    /\ UNCHANGED <<files, gq, blocked>>

PreviousBootStep ==
    /\ \/ Plan \/ LogNotReplayed \/ LogResolutionIntent \/ ResolutionIntent \/ LogIntent
       \/ Resolve \/ LogResolved \/ AdoptResolution \/ ReleaseIntent \/ LogReleaseIntent
       \/ ConfirmRelease \/ LogReleaseConfirmed \/ LogRemovalIntent \/ Remove \/ LogRemoved
       \/ PublishFree
    /\ UNCHANGED <<scan, machine>>

-----------------------------------------------------------------------------
\* resume_removed_previous_boot_finalization: every entry whose record is gone
\* frees its seat.
RemovableWithReceipt(r) ==   \* Mutant: an unlink without its receipt is not resumed.
    jrn[r] # None /\ jrn[r].stage = "Removed" /\ mem[r] = None

Removable(r) ==
    /\ jrn[r] # None /\ jrn[r].stage \in {"Removed", "RemovalIntent"}
    /\ mem[r] = None
    /\ jrn[r].stage = "RemovalIntent" => disk[r] = None

ResumeRemoved ==
    LET done == {r \in Recs : Removable(r)}
        j == [r \in Recs |-> IF r \in done THEN [jrn[r] EXCEPT !.stage = "FreePublished"]
                             ELSE jrn[r]]
        resumes == ~jtmp /\ ~JournalConflict /\ ~gq /\ done # {}
    IN /\ pc = "scan" /\ todo = {} /\ pc' = "ready"
       /\ \/ resumes /\ sq' = FALSE /\ (Persisted(j) \/ PersistFailed(j))
          \/ ~resumes /\ UNCHANGED <<sq, journal, faults>>
       /\ UNCHANGED <<scan, machine, files, gq, blocked, cur, ctx>>

\* The points where the reboot tests stop the daemon: hit_previous_boot_failpoint.
FailpointPcs == {"plan", "resolutionIntent", "resolve", "release", "confirm",
                 "removalIntent", "remove", "removed", "free"}
RecordWritePcs == {"intent", "resolve", "adopt", "release", "confirm"}
JournalWritePcs == {"notReplayed", "resolutionIntent", "intentLogged", "resolved",
                    "releaseLogged", "confirmed", "removalIntent", "removed", "free"}
=============================================================================
