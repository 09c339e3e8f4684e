--------------------------- MODULE RecoveryLedger ---------------------------
(***************************************************************************)
(* PersistentRecoveryLedger (persistent_storage.rs): the record files, the *)
(* copy of them in memory, the journal of the previous-boot finalization,  *)
(* and the quarantine flags computed when the ledger is opened; with the   *)
(* control state of the daemon that starts up on it.  There is one seat.   *)
(* A file is its content and its inode.  A write creates a temporary file, *)
(* renames it over the old one and syncs the directory; it can fail, or    *)
(* the daemon can die, between any two of these.                           *)
(***************************************************************************)
EXTENDS RecoveryRecord, FiniteSets

CONSTANTS Recs,         \* lifecycle identifiers
          None,
          MaxBoot,      \* boots of the machine in a behaviour
          MaxFaults,    \* faults in a behaviour
          FaultKinds,   \* which faults: subset of {"crash", "failpoint", "io", "facts"}
          MaxEntries,   \* MAX_JOURNAL_ENTRIES
          MaxOld,       \* of which older sessions may have taken
          Counted       \* the effects whose requests are counted

ASSUME LedgerAssumption ==
    /\ MaxBoot \in Nat \ {0} /\ MaxFaults \in Nat /\ MaxEntries \in Nat \ {0}
    /\ MaxOld \in 0..MaxEntries
    /\ FaultKinds \subseteq {"crash", "failpoint", "io", "facts"}

VARIABLES boot,     \* the boot the machine is in
          disk,     \* the record files
          rtmp,     \* records whose temporary file was left behind
          jrn,      \* the journal's entries
          jtmp,     \* the journal's temporary file was left behind
          old,      \* entries of sessions before these: no entry is ever removed
          mem,      \* the records in memory
          gq,       \* startup_quarantined or record_set.global_quarantine
          sq,       \* the seat is in startup_quarantined_seats
          blocked,  \* the seat is in record_set.blocked_seats
          pc,       \* where the daemon is
          cur,      \* the record it is handling
          todo,     \* the records reconcile has still to handle
          clash,    \* conflicts(&same_boot_records) is not empty
          ctx,      \* the locals of the handling of cur
          host,     \* what is left of each session on the machine
          sess,     \* the record of the running session
          seat,     \* the seat: free, running, quarantined, or the record an
                    \* administrative retry quarantined it for
          calls,    \* how often each effect on the host was asked for, per record
          faults    \* faults so far

files == <<disk, rtmp, mem>>
journal == <<jrn, jtmp>>
flags == <<gq, sq, blocked>>
scan == <<boot, todo, clash>>
machine == <<host, sess, seat, calls>>
vars == <<boot, disk, rtmp, jrn, jtmp, mem, gq, sq, blocked, pc, cur, todo, clash, ctx,
          host, sess, seat, calls, faults, old>>

Inodes == 1..2
Files == [rec : Records, ino : Inodes]
Stages == {"NotReplayed", "ResolutionIntent", "RecordResolved", "RuntimeReleaseIntent",
           "RuntimeReleaseConfirmed", "RemovalIntent", "Removed", "FreePublished"}
Entries == [stage : Stages, seq : Nat, ino : Inodes]

\* The snapshot and the leader that the same-boot recovery read, the reason it
\* is about to quarantine for, and the stage of the entry being finalized.
NoContext == [rec |-> None, leader |-> FALSE, why |-> "none", stage |-> "NotReplayed"]

\* What is left of a session: its worker, its payload scope (with the leader
\* alive, populated, empty, or gone), its logind session and its VT.
Scopes == {"leader", "populated", "empty", "absent"}
Hosts == [worker : BOOLEAN, scope : Scopes, logind : BOOLEAN, vt : BOOLEAN]
Running == [worker |-> TRUE, scope |-> "leader", logind |-> TRUE, vt |-> TRUE]
Gone == [worker |-> FALSE, scope |-> "absent", logind |-> FALSE, vt |-> FALSE]
\* The effects under an intent of the record, the administrative ioctl, and
\* those without an intent: of the worker and of the emergency recovery.
Effects == {"kill", "terminate", "disallocate", "admin", "workerDisallocate",
            "emergencyKill", "emergencyTerminate", "emergencyDisallocate"}
Count(r, effect) ==
    calls' = IF effect \in Counted THEN [calls EXCEPT ![r][effect] = IF @ = 2 THEN 2 ELSE @ + 1]
                                   ELSE calls

Fault(kind) == kind \in FaultKinds /\ faults < MaxFaults /\ faults' = faults + 1

-----------------------------------------------------------------------------
\* The record files.  A new file has another inode than the one it replaces.
NewFile(r, rec) ==
    [rec |-> rec, ino |-> IF disk[r] = None \/ disk[r].ino = 2 THEN 1 ELSE 2]

Committed(r, rec) ==
    /\ r \notin rtmp
    /\ disk' = [disk EXCEPT ![r] = NewFile(r, rec)]
    /\ mem' = [mem EXCEPT ![r] = rec]
    /\ UNCHANGED <<rtmp, faults>>

\* The temporary file cannot be created (for ever, once one was left), is not
\* completed or renamed, or the directory is not synced.
CommitFailed(r, rec) ==
    /\ UNCHANGED mem
    /\ \/ r \in rtmp /\ UNCHANGED <<disk, rtmp, faults>>
       \/ r \notin rtmp /\ Fault("io") /\ UNCHANGED <<disk, rtmp>>
       \/ r \notin rtmp /\ Fault("io") /\ rtmp' = rtmp \union {r} /\ UNCHANGED disk
       \/ /\ r \notin rtmp /\ Fault("io")
          /\ disk' = [disk EXCEPT ![r] = NewFile(r, rec)] /\ UNCHANGED rtmp

\* remove_resolved and remove_record_exact
Removed(r) ==
    /\ disk' = [disk EXCEPT ![r] = None]
    /\ mem' = [mem EXCEPT ![r] = None]
    /\ UNCHANGED <<rtmp, faults>>
RemoveFailed(r) ==
    /\ Fault("io") /\ UNCHANGED <<mem, rtmp>>
    /\ \/ UNCHANGED disk
       \/ disk' = [disk EXCEPT ![r] = None]

-----------------------------------------------------------------------------
\* HistoricalFinalizationJournal
JournalExists == old > 0 \/ \E r \in Recs : jrn[r] # None
JournalSize(j) == old + Cardinality({r \in Recs : j[r] # None})

Persisted(j) ==
    /\ ~jtmp /\ JournalSize(j) <= MaxEntries
    /\ jrn' = j
    /\ UNCHANGED <<jtmp, faults>>
PersistFailed(j) ==
    \/ (jtmp \/ JournalSize(j) > MaxEntries) /\ UNCHANGED <<jrn, jtmp, faults>>
    \/ ~jtmp /\ Fault("io") /\ UNCHANGED <<jrn, jtmp>>
    \/ ~jtmp /\ Fault("io") /\ jtmp' = TRUE /\ UNCHANGED jrn
    \/ ~jtmp /\ Fault("io") /\ jrn' = j /\ UNCHANGED jtmp

\* validate_against_ledger rejects the entry e of record r.
EntryConflict(r, e) ==
    IF mem[r] = None THEN e.stage \notin {"RemovalIntent", "Removed", "FreePublished"}
    ELSE LET release == mem[r].ops["runtime_release"].tag IN
         \/ e.seq > mem[r].seq
         \/ e.stage \in {"Removed", "FreePublished"}
         \/ /\ e.stage \in {"RecordResolved", "RuntimeReleaseIntent",
                            "RuntimeReleaseConfirmed", "RemovalIntent"}
            /\ mem[r].state # "record_resolved"
         \/ e.stage = "RuntimeReleaseIntent" /\ release \notin {"Intent", "Confirmed"}
         \/ e.stage = "RecordResolved" /\ release # "NotStarted"
         \/ e.stage \in {"RuntimeReleaseConfirmed", "RemovalIntent"} /\ release # "Confirmed"
         \/ disk[r] = None
         \/ disk[r] # None /\ disk[r].ino # e.ino

JournalConflict == \E r \in Recs : jrn[r] # None /\ EntryConflict(r, jrn[r])

-----------------------------------------------------------------------------
\* PersistentRecoveryLedger::open: load_records, classify_recovery_record_set
\* and apply_historical_journal_quarantine.  reconcile then handles no record
\* when one is broken, or when inventory_unknown_scopes cannot rule out a
\* payload scope that no record accounts for.
Readable(r) == disk[r] # None /\ ~Violated(disk[r].rec)
SameBootRecs == {r \in Recs : Readable(r) /\ disk[r].rec.boot = boot}
PreviousBootRecs == {r \in Recs : Readable(r) /\ disk[r].rec.boot # boot}

OpenLedger(unknown) ==
    LET broken == \E r \in Recs : disk[r] # None /\ ~Readable(r)
        unfinished == \E r \in Recs : jrn[r] # None /\ jrn[r].stage # "FreePublished"
        same == Cardinality(SameBootRecs)
        previous == Cardinality(PreviousBootRecs)
    IN /\ mem' = [r \in Recs |-> IF Readable(r) THEN disk[r].rec ELSE None]
       /\ gq' = (broken \/ unknown \/ (JournalExists /\ jtmp))
       /\ sq' = (~jtmp /\ unfinished)
       /\ blocked' = ((same > 0 /\ previous > 0) \/ same > 1 \/ previous > 1)
       /\ clash' = (same > 1)
       /\ todo' = IF broken \/ unknown THEN {} ELSE SameBootRecs \union PreviousBootRecs
       /\ pc' = IF broken \/ unknown THEN "ready" ELSE "scan"

\* issue_seat_free_permit refuses: a record of the seat, or a quarantine.
Competing(r) == sq \/ gq \/ \E q \in Recs \ {r} : mem[q] # None

\* The startup is done with the record: reconcile goes on to the next one.
Proceed == pc' = "scan" /\ cur' = None /\ ctx' = NoContext
=============================================================================
