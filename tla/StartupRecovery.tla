-------------------------- MODULE StartupRecovery ---------------------------
(***************************************************************************)
(* The daemon across its restarts and the machine's reboots: it opens the  *)
(* ledger, reconciles every record, serves one session at a time on the    *)
(* seat, and can stop at any point (StartupRecoveryCoordinator::reconcile, *)
(* SupervisorLoopState).  PreviousBootFinalization and SameBootRecovery    *)
(* are its two ways of handling a record, RecoveryAdmin what an operator   *)
(* can ask of it.                                                          *)
(***************************************************************************)
EXTENDS PreviousBootFinalization, SameBootRecovery, RecoveryAdmin

CONSTANT Leftovers   \* what a daemon may find of a session without supervisor

ASSUME LeftoversAssumption == Leftovers \subseteq Hosts /\ Gone \in Leftovers

Init ==
    /\ boot = 1 /\ pc = "off" /\ faults = 0
    /\ disk = [r \in Recs |-> None] /\ rtmp = {}
    /\ jrn = [r \in Recs |-> None] /\ jtmp = FALSE /\ old \in 0..MaxOld
    /\ mem = [r \in Recs |-> None]
    /\ gq = FALSE /\ sq = FALSE /\ blocked = FALSE
    /\ cur = None /\ todo = {} /\ clash = FALSE /\ ctx = NoContext
    /\ host = [r \in Recs |-> None]
    /\ sess = None /\ seat = "free"
    /\ calls = [r \in Recs |-> [e \in Effects |-> 0]]

-----------------------------------------------------------------------------
\* What happens to a session that no daemon supervises: its processes end, and
\* its worker, if it outlived the daemon, ends the session and releases the VT.
\* The next daemon may be up by then.
ScopeRank(s) == CASE s = "leader" -> 3 [] s = "populated" -> 2 [] s = "empty" -> 1 [] s = "absent" -> 0

Decays(g, h) ==
    /\ h.worker => g.worker
    /\ ScopeRank(h.scope) <= ScopeRank(g.scope)
    /\ h.logind => g.logind
    /\ h.vt => g.vt

\* VirtualTerminalGuard::release: a worker tries VT_DISALLOCATE once, under the
\* intent that accept_terminal_vt_intent wrote, or without one when it has no
\* supervisor or fails.
CanRelease(rec) == rec.ops["vt_disallocate"].tag \in {"NotStarted", "Intent"}
Release(r, rec) ==
    Count(r, IF Started(rec, "vt_disallocate") THEN "disallocate" ELSE "workerDisallocate")

\* finalize_terminal_after_supervisor_disconnect.  A worker whose release fails
\* exits.
Releases(g, h) == g.vt /\ h.scope \in {"empty", "absent"} /\ (h.worker => ~h.vt)

HostDecays ==
    /\ \E r \in Recs \ {sess} :
          /\ host[r] # None /\ (pc = "off" \/ host[r].worker)
          /\ \E h \in Leftovers \ {host[r]} :
                /\ Decays(host[r], h) /\ host' = [host EXCEPT ![r] = h]
                /\ \/ /\ host[r].worker /\ Releases(host[r], h)
                      /\ CanRelease(disk[r].rec) /\ Release(r, disk[r].rec)
                   \/ h.vt = host[r].vt /\ UNCHANGED calls
    /\ UNCHANGED <<boot, files, journal, flags, pc, cur, todo, clash, ctx, sess, seat, faults>>

\* A daemon starts: PersistentRecoveryLedger::open.
Start ==
    /\ pc = "off"
    /\ \A r \in Recs : host[r] # None => host[r] \in Leftovers
    /\ \/ OpenLedger(FALSE) /\ UNCHANGED faults
       \/ OpenLedger(TRUE) /\ Fault("facts")
    /\ UNCHANGED <<boot, disk, rtmp, journal, cur, ctx, machine>>

-----------------------------------------------------------------------------
\* reconcile, for one record.
Take(r) == pc = "scan" /\ cur = None /\ r \in todo /\ todo' = todo \ {r}

HandlePreviousBoot(r) ==
    /\ Take(r) /\ mem[r].boot # boot
    /\ sq' = TRUE
    /\ \/ blocked /\ UNCHANGED <<pc, cur>>
       \/ ~blocked /\ pc' = "plan" /\ cur' = r
    /\ UNCHANGED <<boot, files, journal, gq, blocked, clash, ctx, machine, faults>>

\* can_retry_coherent_absent_boundary
CanRetry(rec) ==
    rec.state = "quarantined" /\ rec.reason = "identity" /\ AttemptIds(rec) = {}

Preserved(rec) ==
    rec.state \in {"quarantined", "vt_disallocate_failed_busy"} /\ ~CanRetry(rec)

\* Mutant: the boot of the record is not compared.
HandleSameBootOfAnyBoot(r) ==
    /\ Take(r) /\ pc' = "worker" /\ cur' = r /\ ctx' = [NoContext EXCEPT !.rec = mem[r]]
    /\ UNCHANGED <<boot, files, journal, flags, clash, machine, faults>>

HandleSameBoot(r) ==
    LET pending == Pending(mem[r])
        resolved == mem[r].state = "record_resolved"
        goTo(p, why) == /\ pc' = p /\ cur' = r
                        /\ ctx' = [NoContext EXCEPT !.rec = mem[r], !.why = why]
    IN /\ Take(r) /\ mem[r].boot = boot
       /\ \/ pending /\ goTo("pending", "none")
          \/ ~pending /\ resolved /\ goTo("finalize", "none")
          \/ ~pending /\ ~resolved /\ clash /\ goTo("quarantine", "other")
          \/ ~pending /\ ~resolved /\ ~clash /\ Preserved(mem[r]) /\ UNCHANGED <<pc, cur, ctx>>
          \/ ~pending /\ ~resolved /\ ~clash /\ ~Preserved(mem[r]) /\ goTo("worker", "none")
       /\ UNCHANGED <<boot, files, journal, flags, clash, machine, faults>>

SeatOpenUnlessBlocked == ~gq /\ ~blocked   \* Mutant: startup_quarantined_seats is not asked.

\* SupervisorLoopState::new
SeatOpen == ~gq /\ ~sq /\ ~blocked

Serve ==
    /\ pc = "ready" /\ pc' = "up"
    /\ seat' = IF SeatOpen THEN "free" ELSE "quarantined"
    /\ UNCHANGED <<boot, files, journal, flags, cur, todo, clash, ctx, host, sess, calls, faults>>

-----------------------------------------------------------------------------
\* The running daemon.  A session has a record from its start to its end.
Serving == UNCHANGED <<boot, journal, flags, cur, todo, clash, ctx>>

Login(r) ==
    /\ pc = "up" /\ sess = None /\ seat = "free" /\ host[r] = None
    /\ \/ /\ Committed(r, StartedRecord(boot))
          /\ sess' = r /\ seat' = "running" /\ host' = [host EXCEPT ![r] = Running]
       \/ /\ CommitFailed(r, StartedRecord(boot))
          /\ host' = [host EXCEPT ![r] = Gone] /\ UNCHANGED <<sess, seat>>
    /\ Serving /\ UNCHANGED <<pc, calls>>

\* accept_terminal_vt_intent: the worker is about to release the VT.  A
\* request of its that fails makes the worker exit with an error, which
\* releases the VT all the same.
WorkerFails ==
    /\ pc' = "unexpected" /\ Count(sess, "workerDisallocate")
    /\ \E busy \in BOOLEAN : host' = [host EXCEPT ![sess] = [Gone EXCEPT !.vt = busy]]

TerminalVtIntent ==
    LET next == WithOpIn(mem[sess], "started", "vt_disallocate", "Intent", mem[sess].seq + 1) IN
    /\ pc = "up" /\ sess # None
    /\ mem[sess].state = "started" /\ ~Started(mem[sess], "vt_disallocate")
    /\ \/ Committed(sess, next) /\ UNCHANGED <<pc, host, calls>>
       \/ CommitFailed(sess, next) /\ WorkerFails
    /\ Serving /\ UNCHANGED <<sess, seat>>

\* The worker's VT_DISALLOCATE, and accept_terminal_vt_result.
TerminalVtResult ==
    LET op == mem[sess].ops["vt_disallocate"]
        result(tag) == WithOpIn(mem[sess], IF tag = "Failed" THEN "vt_disallocate_failed_busy" ELSE "started",
                                "vt_disallocate", tag, op.id)
    IN /\ pc = "up" /\ sess # None /\ op.tag = "Intent"
       /\ Count(sess, "disallocate")
       /\ \E tag \in {"Confirmed", "Failed"}, alive \in BOOLEAN :
             /\ host' = [host EXCEPT ![sess] = [Gone EXCEPT !.worker = alive, !.vt = tag = "Failed"]]
             /\ \/ alive /\ Committed(sess, result(tag)) /\ UNCHANGED pc
                \/ ~alive /\ CommitFailed(sess, result(tag)) /\ pc' = "unexpected"
       /\ Serving /\ UNCHANGED <<sess, seat>>

\* finish_exited_worker
ExitBusy ==
    /\ pc = "up" /\ sess # None /\ mem[sess].ops["vt_disallocate"].tag = "Failed"
    /\ seat' = "quarantined" /\ sess' = None
    /\ host' = [host EXCEPT ![sess].worker = FALSE]
    /\ Serving /\ UNCHANGED <<pc, files, calls, faults>>

ExitClean ==
    LET next == Transition(mem[sess], "record_resolved") IN
    /\ pc = "up" /\ sess # None /\ mem[sess].ops["vt_disallocate"].tag = "Confirmed"
    /\ host' = [host EXCEPT ![sess] = Gone]
    /\ \/ Committed(sess, next) /\ pc' = "removeClean"
       \/ CommitFailed(sess, next) /\ pc' = "unexpected"
    /\ Serving /\ UNCHANGED <<sess, seat, calls>>

RemoveClean ==
    /\ pc = "removeClean"
    /\ \/ Removed(sess) /\ pc' = "up" /\ sess' = None /\ seat' = "free"
       \/ RemoveFailed(sess) /\ pc' = "unexpected" /\ UNCHANGED <<sess, seat>>
    /\ Serving /\ UNCHANGED <<host, calls>>

\* A worker that is killed releases nothing; one that fails does.
ExitUnexpected ==
    /\ pc = "up" /\ sess # None /\ mem[sess].ops["vt_disallocate"].tag # "Failed"
    /\ pc' = "unexpected"
    /\ \/ host' = [host EXCEPT ![sess].worker = FALSE] /\ UNCHANGED calls
       \/ /\ CanRelease(mem[sess]) /\ Release(sess, mem[sess])
          /\ \E busy \in BOOLEAN : host' = [host EXCEPT ![sess].worker = FALSE, ![sess].vt = busy]
    /\ Serving /\ UNCHANGED <<files, sess, seat, faults>>

MarkUnexpected ==
    LET next == Transition(mem[sess], "worker_exited_unexpectedly") IN
    /\ pc = "unexpected" /\ pc' = "emergency"
    /\ Committed(sess, next) \/ CommitFailed(sess, next)
    /\ Serving /\ UNCHANGED machine

\* SupervisorEmergencyRecoveryCoordinator: the boundary is killed when it is
\* populated, the logind session terminated and the VT disallocated, each
\* without an intent in the record; an error quarantines the seat where it is.
EmergencyEnds(free) == pc' = "up" /\ sess' = None /\ seat' = IF free THEN "free" ELSE "quarantined"
EmergencyFails == EmergencyEnds(FALSE) /\ UNCHANGED <<files, host, calls, faults>> /\ Serving

\* recover_live_emergency and release_live.
EmergencyBoundary ==
    LET populated == host[sess].scope \in {"leader", "populated"} IN
    /\ pc = "emergency"
    /\ IF populated THEN Count(sess, "emergencyKill") ELSE UNCHANGED calls
    /\ \/ /\ pc' = "emergencyLogind" /\ UNCHANGED <<sess, seat>>
          /\ \E s \in {"empty", "absent"} : host' = [host EXCEPT ![sess].scope = s]
       \/ EmergencyEnds(FALSE) /\ UNCHANGED host
    /\ Serving /\ UNCHANGED <<files, faults>>

\* cleanup_logind
EmergencyLogind ==
    /\ pc = "emergencyLogind"
    /\ IF host[sess].logind THEN Count(sess, "emergencyTerminate") ELSE UNCHANGED calls
    /\ \/ /\ pc' = "emergencyVt" /\ UNCHANGED <<sess, seat>>
          /\ host' = [host EXCEPT ![sess].logind = FALSE]
       \/ EmergencyEnds(FALSE) /\ UNCHANGED host
    /\ Serving /\ UNCHANGED <<files, faults>>

\* recover_vt.  The seat is quarantined after a success too, when release_live
\* failed; a busy VT is said in the record.
EmergencyVt ==
    LET next == Transition(mem[sess], "vt_disallocate_failed_busy") IN
    /\ pc = "emergencyVt" /\ Count(sess, "emergencyDisallocate")
    /\ \/ /\ host' = [host EXCEPT ![sess].vt = FALSE] /\ UNCHANGED <<files, faults>>
          /\ \E free \in BOOLEAN : EmergencyEnds(free)
       \/ EmergencyEnds(FALSE) /\ UNCHANGED <<files, host, faults>>
       \/ /\ EmergencyEnds(FALSE) /\ UNCHANGED host
          /\ Committed(sess, next) \/ CommitFailed(sess, next)
    /\ Serving

Emergency ==
    \/ EmergencyBoundary \/ EmergencyLogind \/ EmergencyVt
    \/ pc \in {"emergency", "emergencyLogind", "emergencyVt"} /\ EmergencyFails

-----------------------------------------------------------------------------
\* The daemon dies: between two steps, within a write, or where a test stops
\* it; the machine reboots, and nothing is left of any session.
SessionWritePcs == {"up", "unexpected", "emergencyVt"}
Writing == IF cur # None THEN cur ELSE sess
WritesRecord ==
    \/ pc \in RecordWritePcs \union SameBootWritePcs \union AdminWritePcs
    \/ pc \in SessionWritePcs /\ sess # None
WritesJournal == pc \in JournalWritePcs

Down == /\ pc' = "off" /\ cur' = None /\ todo' = {} /\ clash' = FALSE /\ ctx' = NoContext
        /\ mem' = [r \in Recs |-> None] /\ gq' = FALSE /\ sq' = FALSE /\ blocked' = FALSE
        /\ sess' = None /\ seat' = "free"

Crash ==
    /\ pc # "off" /\ Down
    /\ \/ Fault("crash") /\ UNCHANGED <<rtmp, jtmp>>
       \/ Fault("crash") /\ WritesRecord /\ rtmp' = rtmp \union {Writing} /\ UNCHANGED jtmp
       \/ Fault("crash") /\ WritesJournal /\ jtmp' = TRUE /\ UNCHANGED rtmp
       \/ Fault("failpoint") /\ pc \in FailpointPcs /\ UNCHANGED <<rtmp, jtmp>>
    /\ UNCHANGED <<boot, disk, jrn, host, calls>>

Reboot ==
    /\ pc \in {"off", "up"} /\ boot < MaxBoot /\ Down
    /\ boot' = boot + 1
    /\ host' = [r \in Recs |-> IF host[r] = None THEN None ELSE Gone]
    /\ UNCHANGED <<disk, rtmp, journal, calls, faults>>

Startup ==
    \/ Start \/ ResumeRemoved \/ Serve \/ PreviousBootStep \/ SameBootStep
    \/ \E r \in Recs : HandlePreviousBoot(r) \/ HandleSameBoot(r)

Session ==
    \/ \E r \in Recs : Login(r)
    \/ TerminalVtIntent \/ TerminalVtResult \/ ExitBusy \/ ExitClean \/ RemoveClean
    \/ ExitUnexpected \/ MarkUnexpected \/ Emergency

Next ==
    /\ Startup \/ Session \/ AdminStep \/ HostDecays \/ Crash \/ Reboot
    /\ UNCHANGED old

Spec == Init /\ [][Next]_vars

\* A daemon that runs gets on with its startup, and one that is down is started
\* again (by systemd).  Nothing is assumed of sessions, crashes or reboots.
FairSpec == Spec /\ WF_vars(Startup /\ UNCHANGED old)

-----------------------------------------------------------------------------
\* The state is well formed.
TypeOK ==
    /\ boot \in 1..MaxBoot /\ faults \in 0..MaxFaults /\ old \in 0..MaxOld
    /\ \A r \in Recs :
          /\ disk[r] = None \/ (disk[r].rec \in Records /\ disk[r].ino \in Inodes)
          /\ mem[r] = None \/ mem[r] \in Records
          /\ jrn[r] = None \/ jrn[r] \in Entries
          /\ host[r] = None \/ host[r] \in Hosts
    /\ rtmp \subseteq Recs /\ todo \subseteq Recs
    /\ cur \in Recs \union {None} /\ sess \in Recs \union {None}
    /\ {jtmp, gq, sq, blocked, clash} \subseteq BOOLEAN
    /\ seat \in {"free", "running", "quarantined"} \union Recs
    /\ calls \in [Recs -> [Effects -> 0..2]]

Historic(r) == disk[r] # None /\ disk[r].rec.boot # boot
HistoricOperations == {"payload_kill", "supervisor_unref", "logind_termination",
                       "selinux_restore", "vt_activation", "vt_disallocate"}

\* What the sessions of an earlier boot asked of the machine is neither done
\* again nor rewritten: no effect is asked for on behalf of such a record, and
\* its operations stay as they were (previous_boot_finalization_tail.rs).
HistoryIsNotReplayed ==
    [][\A r \in Recs : Historic(r) /\ pc' # "off" =>
          /\ calls'[r] = calls[r]
          /\ disk'[r] # None => \A o \in HistoricOperations :
                disk'[r].rec.ops[o] = disk[r].rec.ops[o]]_vars

\* A record's sequence on disk never goes back, whatever write fails and
\* wherever the daemon dies (PersistentRecoveryRecord::transition, commit).
SequencesNeverRegress ==
    [][\A r \in Recs : disk[r] # None /\ disk'[r] # None =>
          disk'[r].rec.seq >= disk[r].rec.seq]_vars

\* The record of an earlier boot goes away only resolved and released, with
\* its removal in the journal (remove_record_exact, RemovalIntent).
RemovalIsAnnounced ==
    [][\A r \in Recs : Historic(r) /\ disk'[r] = None =>
          /\ jrn[r] # None /\ jrn[r].stage = "RemovalIntent"
          /\ disk[r].rec.state = "record_resolved"
          /\ disk[r].rec.ops["runtime_release"].tag = "Confirmed"]_vars

\* Once the journal says that a record was removed there is no such record,
\* and none that is missing is in an earlier stage than its removal.
RemovalIsFinal ==
    \A r \in Recs : jrn[r] # None =>
        /\ jrn[r].stage \in {"Removed", "FreePublished"} => disk[r] = None
        /\ disk[r] = None => jrn[r].stage \in {"RemovalIntent", "Removed", "FreePublished"}

HistoryIsDone ==
    \A r \in Recs : ~Historic(r) /\ (jrn[r] # None => jrn[r].stage = "FreePublished")

\* The seat takes logins only after the final historical completion
\* (docs/a3-4-3c-reboot-validation.md): no session of an earlier boot has a
\* record left, or an entry short of the last stage.  It is so wherever the
\* daemon dies, as long as no write fails.
LoginOnlyAfterHistory == pc = "up" /\ seat \in {"free", "running"} => HistoryIsDone

\* The seat of a session that ended with its VT busy takes no login while the
\* record is there (docs/recovery-administration.md: it remains quarantined).
BusyRecordKeepsSeat ==
    pc = "up" /\ seat \in {"free", "running"} =>
        \A r \in Recs \ {sess} : mem[r] # None => mem[r].ops["vt_disallocate"].tag # "Failed"

\* A session's payload is killed and its VT disallocated at most once under an
\* intent of the record, by the worker or by a daemon, however often daemons
\* die.  What leaves no intent comes on top, but is not repeated either: the
\* release of a worker that failed or lost its supervisor, and the emergency
\* recovery of the daemon that saw the worker exit.
EffectsAtMostOnce ==
    \A r \in Recs, e \in Effects \ {"terminate", "admin"} : calls[r][e] <= 1

\* The termination of the logind session is asked for at most once
\* (startup_same_boot_logind.rs: the intent is left unconfirmed so that a later
\* daemon cannot repeat it).
TerminationAtMostOnce == \A r \in Recs : calls[r]["terminate"] <= 1

\* When a daemon takes logins, what the sessions of this boot left behind is
\* recovered or quarantined: no record is half way (reconcile).
NothingHalfRecovered ==
    pc = "ready" /\ ~gq /\ ~blocked /\ ~sq =>
        \A r \in Recs : mem[r] # None =>
            mem[r].state \in {"quarantined", "vt_disallocate_failed_busy"}

\* Every VT_DISALLOCATE of an administrative retry has an attempt of its own,
\* on disk before the call (append_vt_recovery_attempt).
RetriesAreRecorded ==
    \A r \in Recs : disk[r] # None =>
        calls[r]["admin"] <= Cardinality({i \in DOMAIN disk[r].rec.attempts :
                                             disk[r].rec.attempts[i].state # "Rejected"})

\* The seat of a record under administrative retry is freed only by the removal
\* of that record, or by a daemon that starts again (finalize_admin_success).
RetryFreesSeatLast ==
    [][\A r \in Recs : seat = r /\ seat' # r => disk'[r] = None \/ pc' = "off"]_vars

Alone(r) == \A q \in Recs \ {r} : disk[q] = None
HasRoom(r) == jrn[r] # None \/ JournalSize(jrn) < MaxEntries
Torn(r) == r \in rtmp \/ jtmp \/ (jrn[r] # None /\ EntryConflict(r, jrn[r]))
ToFinalize(r) == Historic(r) /\ Readable(r) /\ disk[r].rec.state # "quarantined" /\ HasRoom(r)
Finalized(r) == jrn[r] # None /\ jrn[r].stage = "FreePublished"

\* A session of an earlier boot whose record is readable and not quarantined is
\* finalized and frees the seat (docs/a3-4-3c-reboot-validation.md), when the
\* journal has room for it.
HistoryIsFinalized == \A r \in Recs : ToFinalize(r) ~> Finalized(r)

\* So it is when it is the only record of the seat, wherever the daemon dies;
\* unless a start finds what a crash within a write left, which stops every
\* later one: a temporary file, or an entry that names a file that was replaced
\* since.
LoneHistoryIsFinalized ==
    (\E r \in Recs : ToFinalize(r) /\ Alone(r))
        ~> HistoryIsDone \/ (pc \in {"ready", "up"} /\ \E r \in Recs : Torn(r))
=============================================================================
