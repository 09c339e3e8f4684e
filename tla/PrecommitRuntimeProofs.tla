----------------------- MODULE PrecommitRuntimeProofs -----------------------
(***************************************************************************)
(* Proofs about PrecommitRuntime, for every set of ids and every bound.    *)
(***************************************************************************)
EXTENDS PrecommitRuntime, TLAPS

\* The values that the bounds admit.
LEMMA Bounded ==
    ASSUME TypeOK
    PROVE  /\ NoRecord \in Records
           /\ Fault => faults' \in 0..MaxFaults /\ faults' > 0
  BY StoreBounds DEF NoRecord, Records, Pids, TypeOK, Fault

-----------------------------------------------------------------------------
(* Startup and the host.  No login is worked on.                           *)

Others == LoginById /\ BindingFollowsLogin /\ LostBindingIsAFault /\ NoLoginBesideLiveWorker

\* Without a login and without a binding there is nothing to follow.
LEMMA NobodyLogsIn ==
    ASSUME login.pc = "idle", login.id = NoId, ~binding.held
    PROVE  Others
  BY Zenon
  DEF Others, LoginById, BindingFollowsLogin, LostBindingIsAFault,
      NoLoginBesideLiveWorker

\* Until a daemon is up nothing is worked on.
LEMMA IdleBefore ==
    ASSUME IInv, daemon.pc # "up"
    PROVE  /\ login.pc = "idle" /\ login.id = NoId /\ ~binding.held
           /\ UNCHANGED <<login, binding>> => Others'
  <1>1. login.pc = "idle" /\ login.id = NoId /\ ~binding.held
    BY Zenon DEF IInv, LoginById, BindingFollowsLogin
  <1>2. ASSUME UNCHANGED <<login, binding>>
        PROVE  Others'
    BY <1>1, <1>2, Zenon
    DEF Others, LoginById, BindingFollowsLogin, LostBindingIsAFault,
       NoLoginBesideLiveWorker
  <1>. QED
    BY <1>1, <1>2, Zenon

\* open
LEMMA OpenStoreKeeps ==
    ASSUME IInv, OpenStore
    PROVE  IInv'
  <1>. USE StoreBounds
  <1>1. Others'
    BY IdleBefore, Zenon DEF OpenStore, KeepLogin
  <1>2. TypeOK'
    <2>1. TypeOK /\ UNCHANGED <<disk, worker>> /\ KeepLogin
      BY Zenon DEF IInv, OpenStore
    <2>2. faults' \in 0..MaxFaults
      BY <2>1, Bounded, Zenon DEF OpenStore, TypeOK
    <2>3. open' \in BOOLEAN /\ quar' \in BOOLEAN
      BY Zenon DEF OpenStore
    <2>7. fenced' \in BOOLEAN
      BY Zenon DEF OpenStore, Conflict
    <2>5. mem' = disk \/ mem' = [id \in Ids |-> NoRecord]
      BY Zenon DEF OpenStore
    <2>6. mem' \in [Ids -> Records]
      BY <2>1, <2>5, Bounded DEF TypeOK
    <2>4. \E pc \in DaemonPcs, t \in SUBSET Ids :
             daemon' = [daemon EXCEPT !.pc = pc, !.todo = t]
      <3>1. "reconcile" \in DaemonPcs /\ "ledger" \in DaemonPcs
        BY Zenon DEF DaemonPcs
      <3>2. CASE daemon' = [daemon EXCEPT !.pc = "reconcile",
                                          !.todo = {id \in Ids : Exists(disk[id])}]
        BY <3>1, <3>2, Zenon
      <3>3. CASE ToLedger
        BY <2>1, <3>1, <3>3, Zenon DEF TypeOK, ToLedger
      <3>. QED
        BY <3>2, <3>3, Zenon DEF OpenStore
    <2>. QED
      BY <2>1, <2>2, <2>3, <2>4, <2>6, <2>7, Zenon DEF TypeOK, KeepLogin
  <1>3. RecordsById'
    BY Zenon DEF IInv, RecordsById, OpenStore, KeepLogin, ToLedger, TypeOK
  <1>4. ReconcileList'
    <2>1. CASE /\ mem' = disk
               /\ daemon' = [daemon EXCEPT !.pc = "reconcile",
                                           !.todo = {id \in Ids : Exists(disk[id])}]
      BY <2>1, Zenon DEF IInv, ReconcileList, OpenStore, KeepLogin, TypeOK
    <2>2. CASE ToLedger
      BY <2>2, Zenon DEF IInv, ReconcileList, OpenStore, KeepLogin, TypeOK, ToLedger
    <2>. QED
      BY <2>1, <2>2, Zenon DEF OpenStore
  <1>5. WorkerAlwaysFindable'
    BY Zenon DEF IInv, WorkerAlwaysFindable, OpenStore, KeepLogin
  <1>6. SurvivorsAreKnown'
    <2>1. \A id \in attached : worker[id] = "alive" => Exists(disk[id]) \/ id \in ledger
      BY Zenon DEF IInv, WorkerAlwaysFindable, Exists
    <2>2. CASE /\ open' = TRUE
               /\ daemon' = [daemon EXCEPT !.pc = "reconcile",
                                           !.todo = {id \in Ids : Exists(disk[id])}]
      BY <2>1, <2>2, Zenon DEF IInv, SurvivorsAreKnown, OpenStore, KeepLogin, TypeOK
    <2>3. CASE ToLedger /\ (quar' \/ ~open')
      BY <2>3, Zenon DEF IInv, SurvivorsAreKnown, OpenStore, KeepLogin, TypeOK, ToLedger
    <2>. QED
      BY <2>2, <2>3, Zenon DEF OpenStore
  <1>. QED
    BY <1>1, <1>2, <1>3, <1>4, <1>5, <1>6, Zenon DEF IInv, Others

\* What reconcile_startup may do with a record: the record leaves the list, and
\* it is removed only when no worker of it lives that the ledger does not have.
Settles(id) ==
    /\ daemon' = [daemon EXCEPT !.todo = @ \ {id}, !.target = NoId]
    /\ mem' \in {mem, [mem EXCEPT ![id] = NoRecord]}
    /\ disk' \in {disk, [disk EXCEPT ![id] = NoRecord]}
    /\ worker' \in {worker, [worker EXCEPT ![id] = IF @ = "alive" THEN "dead" ELSE @]}
    /\ quar' \in {quar, TRUE} /\ faults' \in 0..MaxFaults
    /\ UNCHANGED open /\ KeepAll
    /\ disk' # disk \/ ~quar' => id \notin attached \/ worker'[id] # "alive" \/ id \in ledger

\* A record that was settled leaves nothing behind.
LEMMA SettlesKeeps ==
    ASSUME IInv, NEW id \in Ids, daemon.pc = "reconcile", id \in daemon.todo, Settles(id)
    PROVE  IInv'
  <1>. USE StoreBounds
  <1>1. Others'
    BY IdleBefore, Zenon DEF Settles, KeepAll, KeepLogin
  <1>2. TypeOK'
    <2>1. TypeOK /\ KeepAll
      BY Zenon DEF IInv, Settles
    <2>2. disk' \in [Ids -> Records] /\ mem' \in [Ids -> Records]
      BY <2>1, Bounded DEF Settles, TypeOK
    <2>3. worker' \in [Ids -> WorkerStates] /\ faults' \in 0..MaxFaults
      BY <2>1 DEF Settles, TypeOK, WorkerStates
    <2>4. open' \in BOOLEAN /\ quar' \in BOOLEAN
      BY <2>1, Zenon DEF Settles, TypeOK
    <2>5. daemon' \in [pc : DaemonPcs, boot : 0..MaxCrashes, todo : SUBSET Ids,
                       target : Ids \cup {NoId}]
      BY <2>1, Zenon DEF Settles, TypeOK
    <2>. QED
      BY <2>1, <2>2, <2>3, <2>4, <2>5, Zenon DEF TypeOK, KeepAll, KeepLogin
  <1>3. RecordsById'
    BY DEF IInv, RecordsById, Settles, KeepAll, KeepLogin, TypeOK, NoRecord, Exists
  <1>4. ReconcileList'
    <2>1. /\ daemon'.todo = daemon.todo \ {id} /\ daemon'.target = NoId
          /\ daemon'.pc = "reconcile"
      BY Zenon DEF Settles, IInv, TypeOK
    <2>2. \A i \in Ids \ {id} : mem'[i] = mem[i] /\ disk'[i] = disk[i]
      BY DEF Settles, IInv, TypeOK
    <2>. QED
      BY <2>1, <2>2, Zenon DEF IInv, ReconcileList, TypeOK
  <1>5. WorkerAlwaysFindable'
    BY DEF IInv, WorkerAlwaysFindable, Settles, KeepAll, KeepLogin, TypeOK
  <1>6. SurvivorsAreKnown'
    <2>1. /\ daemon'.todo = daemon.todo \ {id} /\ daemon'.pc = "reconcile"
          /\ open' = open /\ ledger' = ledger /\ attached' = attached /\ login' = login
      BY Zenon DEF Settles, KeepAll, KeepLogin, IInv, TypeOK
    <2>3. \A i \in Ids : worker'[i] = "alive" => worker[i] = "alive"
      BY DEF Settles, IInv, TypeOK
    <2>4. ~quar' => ~quar
      BY Zenon DEF Settles
    <2>2. ~quar' => (worker'[id] = "alive" /\ id \in attached => id \in ledger)
      BY Zenon DEF Settles
    <2>. QED
      BY <2>1, <2>2, <2>3, <2>4, Zenon DEF IInv, SurvivorsAreKnown, TypeOK
  <1>. QED
    BY <1>1, <1>2, <1>3, <1>4, <1>5, <1>6, Zenon DEF IInv, Others

\* A removal, and the quarantine that replaces it, change at most the record.
LEMMA ClearSettles ==
    ASSUME IInv, NEW id \in Ids,
           \/ Quarantine(id)
           \/ /\ ClearOrQuarantine(id)
              /\ id \notin attached \/ worker'[id] # "alive" \/ id \in ledger,
           worker' \in {worker, [worker EXCEPT ![id] = IF @ = "alive" THEN "dead" ELSE @]},
           UNCHANGED open, KeepAll
    PROVE  Settles(id)
  <1>1. CASE /\ ClearOrQuarantine(id) /\ RemoveOk(id) /\ UNCHANGED quar
             /\ id \notin attached \/ worker'[id] # "alive" \/ id \in ledger
    BY <1>1, Zenon DEF Settles, ClearOrQuarantine, Handled, RemoveOk, IInv, TypeOK
  <1>2. CASE /\ ClearOrQuarantine(id) /\ RemoveFails(id) /\ quar' = TRUE
             /\ id \notin attached \/ worker'[id] # "alive" \/ id \in ledger
    BY <1>2, Bounded, Zenon DEF Settles, ClearOrQuarantine, Handled, RemoveFails, IInv
  <1>3. CASE Quarantine(id)
    BY <1>3, Zenon DEF Settles, Quarantine, Handled, IInv, TypeOK
  <1>. QED
    BY <1>1, <1>2, <1>3, Zenon DEF ClearOrQuarantine

\* One record of reconcile_startup.
LEMMA ReconcileKeeps ==
    ASSUME IInv, NEW id \in Ids, Reconcile(id)
    PROVE  IInv'
  <1>0. /\ daemon.pc = "reconcile" /\ id \in daemon.todo
        /\ UNCHANGED <<open, worker>> /\ KeepAll
    BY Zenon DEF Reconcile
  <1>1. mem[id] = disk[id] /\ Exists(disk[id])
    BY <1>0, Zenon DEF IInv, ReconcileList
  <1>3. CASE /\ mem[id].boot # daemon.boot \/ (mem[id].handoff /\ id \in ledger)
             /\ ClearOrQuarantine(id)
    <2>1. id \notin attached \/ worker'[id] # "alive" \/ id \in ledger
      BY <1>0, <1>1, <1>3, Zenon DEF IInv, RecordsById
    <2>. QED
      BY <1>0, <1>3, <2>1, ClearSettles, SettlesKeeps, Zenon
  <1>4. CASE Identity(id) = "Absent" /\ ClearOrQuarantine(id)
    <2>1. mem[id].pid = "none" \/ worker[id] = "dead"
      BY <1>4, Zenon DEF Identity
    <2>2. id \notin attached \/ worker'[id] # "alive" \/ id \in ledger
      BY <1>0, <1>1, <2>1, Zenon DEF IInv, WorkerAlwaysFindable
    <2>. QED
      BY <1>0, <1>4, <2>2, ClearSettles, SettlesKeeps, Zenon
  <1>5. CASE Quarantine(id)
    BY <1>0, <1>5, ClearSettles, SettlesKeeps, Zenon
  <1>2. CASE /\ daemon' = [daemon EXCEPT !.target = id]
             /\ UNCHANGED <<disk, mem, quar, faults>>
    <2>1. Others'
      BY <1>0, IdleBefore, Zenon DEF KeepAll, KeepLogin
    <2>2. TypeOK'
      BY <1>0, <1>2, Zenon DEF IInv, TypeOK, KeepAll, KeepLogin
    <2>3. RecordsById' /\ ReconcileList'
      BY <1>0, <1>2, Zenon DEF IInv, RecordsById, ReconcileList, KeepAll, KeepLogin, TypeOK
    <2>4. WorkerAlwaysFindable' /\ SurvivorsAreKnown'
      BY <1>0, <1>2, Zenon
      DEF IInv, WorkerAlwaysFindable, SurvivorsAreKnown, KeepAll, KeepLogin, TypeOK
    <2>. QED
      BY <2>1, <2>2, <2>3, <2>4, Zenon DEF IInv, Others
  <1>. QED
    BY <1>2, <1>3, <1>4, <1>5, Zenon DEF Reconcile

\* kill_exact_pid
LEMMA KillExactPidKeeps ==
    ASSUME IInv, NEW id \in Ids, KillExactPid(id)
    PROVE  IInv'
  <1>. DEFINE killed == [worker EXCEPT ![id] = IF @ = "alive" THEN "dead" ELSE @]
  <1>0. /\ daemon.pc = "reconcile" /\ id \in daemon.todo
        /\ UNCHANGED open /\ KeepAll
    BY StoreBounds, Zenon DEF KillExactPid, IInv, ReconcileList
  <1>1. CASE worker' = killed /\ ClearOrQuarantine(id)
    <2>1. worker'[id] # "alive"
      BY <1>1, Zenon DEF IInv, TypeOK
    <2>. QED
      BY <1>0, <1>1, <2>1, ClearSettles, SettlesKeeps, Zenon
  <1>2. CASE worker' \in {worker, killed} /\ Quarantine(id)
    BY <1>0, <1>2, ClearSettles, SettlesKeeps, Zenon
  <1>. QED
    BY <1>1, <1>2, Zenon DEF KillExactPid

\* reconcile_startup is through.
LEMMA ReconcileEndsKeeps ==
    ASSUME IInv, ReconcileEnds
    PROVE  IInv'
  <1>0. /\ daemon.pc = "reconcile" /\ daemon.todo = {} /\ daemon.target = NoId
        /\ ledger \subseteq Ids /\ UNCHANGED <<disk, mem, open, quar, worker, faults>> /\ KeepAll
    BY Zenon DEF ReconcileEnds, IInv, TypeOK, ReconcileList
  <1>5. /\ daemon'.pc = "ledger" /\ daemon'.todo = ledger /\ daemon'.target = NoId
        /\ daemon'.boot = daemon.boot
    BY <1>0, Zenon DEF ReconcileEnds, ToLedger, IInv, TypeOK
  <1>1. Others'
    BY <1>0, IdleBefore, Zenon DEF KeepAll, KeepLogin
  <1>2. TypeOK'
    <2>1. daemon' \in [pc : DaemonPcs, boot : 0..MaxCrashes, todo : SUBSET Ids,
                       target : Ids \cup {NoId}]
      BY <1>0, Zenon DEF ReconcileEnds, ToLedger, IInv, TypeOK, DaemonPcs
    <2>. QED
      BY <1>0, <2>1, Zenon DEF IInv, TypeOK, KeepAll, KeepLogin
  <1>3. RecordsById' /\ ReconcileList'
    BY <1>0, <1>5, Zenon DEF IInv, RecordsById, ReconcileList, KeepAll, KeepLogin
  <1>4. WorkerAlwaysFindable' /\ SurvivorsAreKnown'
    BY <1>0, <1>5, Zenon
    DEF IInv, WorkerAlwaysFindable, SurvivorsAreKnown, KeepAll, KeepLogin
  <1>. QED
    BY <1>1, <1>2, <1>3, <1>4, Zenon DEF IInv, Others

\* A record of the recovery ledger is resolved, or kept with its worker.
LEMMA RecoverLedgerKeeps ==
    ASSUME IInv, NEW id \in Ids, RecoverLedger(id)
    PROVE  IInv'
  <1>. DEFINE killed == [worker EXCEPT ![id] = IF @ = "alive" THEN "dead" ELSE @]
  <1>0. /\ daemon.pc = "ledger" /\ UNCHANGED Bounds /\ fenced' \in {fenced, TRUE}
        /\ UNCHANGED <<disk, tmp, mem, open, quar, binding, login, seat, used, attached>>
        /\ \/ worker' = killed /\ ledger' = ledger \ {id}
           \/ worker' \in {worker, killed} /\ ledger' = ledger
    BY Zenon DEF RecoverLedger
  <1>5. /\ worker' \in [Ids -> WorkerStates]
        /\ \A i \in Ids : worker'[i] = "alive" => worker[i] = "alive"
        /\ \A i \in Ids : worker'[i] = "alive" /\ i \in ledger => i \in ledger'
    BY <1>0 DEF IInv, TypeOK, WorkerStates
  <1>6. /\ daemon'.pc = "ledger" /\ daemon'.todo = daemon.todo \ {id} /\ daemon'.target = NoId
        /\ daemon'.boot = daemon.boot /\ daemon.todo \subseteq ledger
    BY <1>0, Zenon DEF RecoverLedger, Handled, IInv, TypeOK, ReconcileList
  <1>1. Others'
    BY <1>0, IdleBefore, Zenon
  <1>2. TypeOK'
    <2>1. daemon' \in [pc : DaemonPcs, boot : 0..MaxCrashes, todo : SUBSET Ids,
                       target : Ids \cup {NoId}]
      BY Zenon DEF RecoverLedger, Handled, IInv, TypeOK
    <2>2. ledger' \subseteq Ids /\ fenced' \in BOOLEAN
      BY <1>0, Zenon DEF IInv, TypeOK
    <2>. QED
      BY <1>0, <1>5, <2>1, <2>2, Zenon DEF IInv, TypeOK, Bounds
  <1>3. RecordsById'
    BY <1>0, <1>5, <1>6, Zenon DEF IInv, RecordsById
  <1>7. ReconcileList'
    BY <1>0, <1>6, Zenon DEF ReconcileList
  <1>8. WorkerAlwaysFindable'
    BY <1>0, <1>5, Zenon DEF IInv, WorkerAlwaysFindable, TypeOK
  <1>4. SurvivorsAreKnown'
    BY <1>0, <1>5, <1>6, Zenon DEF IInv, SurvivorsAreKnown, TypeOK
  <1>. QED
    BY <1>1, <1>2, <1>3, <1>4, <1>7, <1>8, Zenon DEF IInv, Others

\* The daemon is up.
LEMMA DaemonReadyKeeps ==
    ASSUME IInv, DaemonReady
    PROVE  IInv'
  <1>0. daemon.pc = "ledger" /\ daemon.todo = {}
    BY Zenon DEF DaemonReady, IInv, ReconcileList
  <1>1. Others'
    BY Zenon
    DEF DaemonReady, NoBinding, Others, LoginById, BindingFollowsLogin,
        LostBindingIsAFault,
       NoLoginBesideLiveWorker
  <1>2. TypeOK'
    BY DEF IInv, TypeOK, DaemonReady, DaemonPcs, LoginPcs, SeatStates, NoBinding,
           Bounds
  <1>3. login.id = NoId /\ login'.id = NoId
    BY <1>0, IdleBefore, Zenon DEF DaemonReady
  <1>4. RecordsById' /\ ReconcileList'
    BY <1>0, <1>3, Zenon DEF IInv, RecordsById, ReconcileList, DaemonReady, TypeOK
  <1>5. WorkerAlwaysFindable' /\ SurvivorsAreKnown'
    BY <1>0, <1>3, Zenon
    DEF IInv, WorkerAlwaysFindable, SurvivorsAreKnown, DaemonReady, TypeOK
  <1>. QED
    BY <1>1, <1>2, <1>4, <1>5 DEF IInv, Others

\* The daemon dies.
LEMMA DaemonCrashesKeeps ==
    ASSUME IInv, DaemonCrashes
    PROVE  IInv'
  <1>1. Others'
    BY Zenon DEF DaemonCrashes, NoBinding, Others, LoginById, BindingFollowsLogin,
       LostBindingIsAFault, NoLoginBesideLiveWorker
  <1>2. TypeOK'
    <2>1. mem' \in [Ids -> Records] /\ crashes' \in 0..MaxCrashes
      BY Bounded, StoreBounds DEF IInv, TypeOK, DaemonCrashes
    <2>2. daemon' \in [pc : DaemonPcs, boot : 0..MaxCrashes, todo : SUBSET Ids,
                       target : Ids \cup {NoId}]
      BY Zenon DEF IInv, TypeOK, DaemonCrashes, DaemonPcs
    <2>3. /\ login' \in [id : Ids \cup {NoId}, pc : LoginPcs] /\ seat' \in SeatStates
          /\ binding' \in [held : BOOLEAN, seq : 0..5]
      BY DEF DaemonCrashes, LoginPcs, SeatStates, NoBinding
    <2>. QED
      BY <2>1, <2>2, <2>3, Zenon DEF IInv, TypeOK, DaemonCrashes
  <1>3. RecordsById' /\ ReconcileList'
    BY StoreBounds, Zenon DEF IInv, RecordsById, ReconcileList, DaemonCrashes, TypeOK
  <1>4. WorkerAlwaysFindable' /\ SurvivorsAreKnown'
    BY Zenon DEF IInv, WorkerAlwaysFindable, SurvivorsAreKnown, DaemonCrashes, TypeOK
  <1>. QED
    BY <1>1, <1>2, <1>3, <1>4 DEF IInv, Others

\* The machine restarts.
LEMMA RebootsKeeps ==
    ASSUME IInv, Reboots
    PROVE  IInv'
  <1>0. /\ daemon.pc = "down" /\ daemon'.pc = "down" /\ daemon'.todo = {}
        /\ daemon'.target = daemon.target /\ daemon.target = NoId
        /\ \A id \in Ids : worker'[id] # "alive"
        /\ login.id = NoId
    BY IdleBefore, Zenon DEF Reboots, IInv, TypeOK, ReconcileList
  <1>1. Others'
    BY <1>0, IdleBefore, Zenon DEF Reboots
  <1>2. TypeOK'
    <2>1. disk' \in [Ids -> Records] /\ tmp' \subseteq Ids
      BY Bounded DEF IInv, TypeOK, Reboots
    <2>2. worker' \in [Ids -> WorkerStates]
      BY Zenon DEF IInv, TypeOK, Reboots, WorkerStates
    <2>3. daemon.boot + 1 \in 0..MaxCrashes
      BY StoreBounds DEF IInv, TypeOK, Reboots
    <2>. QED
      BY <2>1, <2>2, <2>3, Zenon DEF IInv, TypeOK, Reboots, Bounds
  <1>3. RecordsById' /\ ReconcileList'
    BY <1>0, StoreBounds
    DEF IInv, RecordsById, ReconcileList, Reboots, TypeOK, NoRecord, Exists
  <1>4. WorkerAlwaysFindable' /\ SurvivorsAreKnown'
    BY <1>0, Zenon DEF IInv, WorkerAlwaysFindable, SurvivorsAreKnown, Reboots, TypeOK
  <1>. QED
    BY <1>1, <1>2, <1>3, <1>4 DEF IInv, Others

\* A worker dies, or its number is given out again.
LEMMA WorkerGoes ==
    ASSUME IInv, NEW id \in Ids, WorkerDies(id) \/ PidIsReused(id)
    PROVE  IInv'
  <1>0. /\ \A i \in Ids : worker'[i] = "alive" => worker[i] = "alive"
        /\ worker' \in [Ids -> WorkerStates]
        /\ UNCHANGED <<ledger, login, seat, used, attached>> /\ KeepStore /\ KeepDaemon
    BY Zenon DEF WorkerDies, PidIsReused, IInv, TypeOK, WorkerStates
  <1>1. Others'
    BY <1>0, Zenon
    DEF KeepStore, KeepDaemon, IInv, TypeOK, Others, LoginById, BindingFollowsLogin,
       LostBindingIsAFault, NoLoginBesideLiveWorker, Exists
  <1>2. TypeOK'
    BY <1>0, Zenon DEF IInv, TypeOK, KeepStore, KeepDaemon
  <1>3. RecordsById' /\ ReconcileList'
    BY <1>0, Zenon DEF IInv, RecordsById, ReconcileList, KeepStore, KeepDaemon, TypeOK
  <1>4. WorkerAlwaysFindable' /\ SurvivorsAreKnown'
    BY <1>0, Zenon
    DEF IInv, WorkerAlwaysFindable, SurvivorsAreKnown, KeepStore, KeepDaemon, TypeOK
  <1>. QED
    BY <1>1, <1>2, <1>3, <1>4, Zenon DEF IInv, Others

-----------------------------------------------------------------------------
(* A login.                                                                *)

\* What a step of the login with id L changes in the store: nothing of any
\* other login.
StoreTouches(L) ==
    /\ disk' \in [Ids -> Records] /\ mem' \in [Ids -> Records]
    /\ \A id \in Ids \ {L} : disk'[id] = disk[id] /\ mem'[id] = mem[id]
    /\ tmp' \subseteq tmp \cup {L} /\ faults' \in 0..MaxFaults
    /\ binding' \in [held : BOOLEAN, seq : 0..5]

\* What it changes at all.
Touches(L) ==
    /\ StoreTouches(L) /\ KeepDaemon
    /\ worker' \in [Ids -> WorkerStates]
    /\ \A id \in Ids \ {L} : worker'[id] = worker[id]
    /\ attached' \in {attached, attached \cup {L}}
    /\ ledger' \in {ledger, ledger \cup {L}, ledger \ {L}} /\ seat' \in SeatStates
    /\ login' \in [id : {L}, pc : LoginPcs \ {"idle"}] \cup {[id |-> NoId, pc |-> "idle"]}
    /\ used' = used \cup {L}

\* What must be true of L itself after the step.
Stands(L) ==
    /\ LoginById /\ BindingFollowsLogin /\ LostBindingIsAFault
    /\ (worker[L] = "alive" \/ L = login.id) /\ Exists(disk[L]) => disk[L].boot = daemon.boot
    /\ L \in attached /\ worker[L] = "alive" =>
           /\ disk[L].pid \in {"exact", "partial"} \/ L \in ledger
           /\ open => login.id = L \/ L \in ledger

\* No step of a login disturbs what is true of the others.
LEMMA TouchesKeeps ==
    ASSUME IInv, NEW L \in Ids, daemon.pc = "up",
           open => ~quar /\ \A id \in attached \ {L} : worker[id] = "alive" => id \in ledger,
           login.id \in {L, NoId}, Touches(L), Stands(L)'
    PROVE  IInv'
  <1>0. L # NoId /\ UNCHANGED <<open, quar, fenced, daemon, crashes>> /\ daemon.todo = {} /\ IInv
    BY StoreBounds, Zenon DEF StoreTouches, Touches, KeepDaemon, IInv, ReconcileList
  <1>1. TypeOK'
    BY <1>0 DEF IInv, TypeOK, Touches, StoreTouches, LoginPcs
  <1>2. LoginById' /\ BindingFollowsLogin' /\ LostBindingIsAFault'
    BY Zenon DEF Stands
  <1>3. RecordsById'
    <2>1. \A id \in Ids : (worker'[id] = "alive" \/ id = login'.id) /\ Exists(disk'[id]) =>
             disk'[id].boot = daemon'.boot
      <3>1. ASSUME NEW id \in Ids \ {L}
            PROVE  (worker'[id] = "alive" \/ id = login'.id) /\ Exists(disk'[id]) =>
                       disk'[id].boot = daemon'.boot
        BY <1>0, <3>1, StoreBounds DEF StoreTouches, Touches, IInv, RecordsById
      <3>. QED
        BY <3>1, Zenon DEF Stands
    <2>2. attached' \cup tmp' \subseteq used'
      BY Zenon DEF StoreTouches, Touches, IInv, RecordsById
    <2>3. \A id \in Ids : Exists(disk'[id]) \/ worker'[id] = "alive" => id \in used'
      BY Zenon DEF StoreTouches, Touches, IInv, RecordsById
    <2>. QED
      BY <2>1, <2>2, <2>3, Zenon DEF RecordsById
  <1>4. ReconcileList'
    BY <1>0, Zenon DEF IInv, ReconcileList
  <1>5. WorkerAlwaysFindable'
    BY DEF IInv, WorkerAlwaysFindable, StoreTouches, Touches, Stands, TypeOK
  <1>6. open' => ~quar' /\ \A id \in attached' \ {L} : worker'[id] = "alive" => id \in ledger'
    BY <1>0 DEF StoreTouches, Touches, IInv, TypeOK
  <1>7. SurvivorsAreKnown'
    BY <1>0, <1>6, Zenon DEF SurvivorsAreKnown, Stands
  <1>8. NoLoginBesideLiveWorker'
    BY <1>6, StoreBounds DEF NoLoginBesideLiveWorker, Touches
  <1>. QED
    BY <1>1, <1>2, <1>3, <1>4, <1>5, <1>7, <1>8, Zenon DEF IInv

\* A login that is worked on is the only one.
LEMMA OneLogin ==
    ASSUME IInv, login.pc # "idle"
    PROVE  /\ login.id \in Ids /\ login.id \in used /\ daemon.pc = "up"
           /\ open => ~quar /\ \A id \in attached \ {login.id} : worker[id] = "alive" => id \in ledger
  BY Zenon DEF IInv, LoginById, SurvivorsAreKnown, NoLoginBesideLiveWorker, TypeOK

\* A step of the login that is worked on.
LEMMA LoginMoves ==
    ASSUME IInv, login.pc # "idle",
           \A L \in Ids : L = login.id => Touches(L) /\ Stands(L)'
    PROVE  IInv'
  <1>1. PICK L \in Ids : L = login.id
    BY OneLogin, Zenon
  <1>. QED
    BY <1>1, OneLogin, TouchesKeeps, Zenon

-----------------------------------------------------------------------------
(* The store operations of a login.                                        *)

UpdatePcs == {"spawned", "attached", "inflight", "authenticated", "durable"}

\* The record that an update writes.
LEMMA UpdatedIs ==
    ASSUME IInv, login.pc \in UpdatePcs, NEW change \in {"pid", "stage", "handoff"},
           NEW L \in Ids, L = login.id, binding.held
    PROVE  /\ Updated(change) \in Records /\ Exists(Updated(change))
           /\ Updated(change).seq = UpdatesBy(login.pc) + 1
           /\ Updated(change).boot = daemon.boot
           /\ Updated(change).pid = disk[L].pid \/ Updated(change).pid \in {"exact", "partial"}
           /\ change = "pid" => Updated(change).pid \in {"exact", "partial"}
  <1>1. /\ mem[L] \in Records /\ mem[L] = disk[L] /\ Exists(mem[L])
        /\ mem[L].boot = daemon.boot /\ mem[L].seq = UpdatesBy(login.pc)
    BY Zenon DEF IInv, TypeOK, BindingFollowsLogin, UpdatePcs
  <1>2. UpdatesBy(login.pc) \in 0..4
    BY DEF UpdatesBy, UpdatePcs
  <1>3. \E p \in Pids, h \in BOOLEAN :
           /\ Updated(change) = [mem[L] EXCEPT !.seq = @ + 1, !.pid = p, !.handoff = h]
           /\ p = mem[L].pid \/ p \in {"exact", "partial"}
           /\ change = "pid" => p \in {"exact", "partial"}
    <2>1. mem[L].pid \in Pids /\ mem[L].handoff \in BOOLEAN
      BY <1>1, Zenon DEF Records, Exists
    <2>2. CASE change = "pid"
      BY <2>1, <2>2, Zenon DEF Updated, Pids
    <2>3. CASE change # "pid"
      BY <2>1, <2>3, Zenon DEF Updated
    <2>. QED
      BY <2>2, <2>3, Zenon
  <1>4. PICK p \in Pids, h \in BOOLEAN :
           /\ Updated(change) = [mem[L] EXCEPT !.seq = @ + 1, !.pid = p, !.handoff = h]
           /\ p = mem[L].pid \/ p \in {"exact", "partial"}
           /\ change = "pid" => p \in {"exact", "partial"}
    BY <1>3, Zenon
  <1>5. /\ Updated(change).seq = mem[L].seq + 1 /\ Updated(change).pid = p
        /\ Updated(change).boot = mem[L].boot
    BY <1>1, <1>4, Zenon DEF Records
  <1>6. Updated(change) \in Records
    <2>1. mem[L].seq + 1 \in 0..5 /\ p \in Pids \cup {"absent"}
      BY <1>1, <1>2
    <2>. QED
      BY <1>1, <1>4, <2>1, Zenon DEF Records
  <1>7. Exists(Updated(change))
    BY <1>5, Zenon DEF Exists, Pids
  <1>. QED
    BY <1>1, <1>4, <1>5, <1>6, <1>7, Zenon

\* Nothing of the store changes but the binding, which stays or is dropped.
LEMMA StoreStays ==
    ASSUME IInv, NEW L \in Ids, UNCHANGED <<disk, mem, tmp>>, binding' \in {binding, NoBinding},
           faults' = faults \/ Fault
    PROVE  StoreTouches(L)
  <1>1. faults' \in 0..MaxFaults
    BY Bounded, Zenon DEF IInv, TypeOK
  <1>2. binding' \in [held : BOOLEAN, seq : 0..5]
    <2>1. NoBinding \in [held : BOOLEAN, seq : 0..5]
      BY DEF NoBinding
    <2>. QED
      BY <2>1, Zenon DEF IInv, TypeOK
  <1>. QED
    BY <1>1, <1>2, Zenon DEF IInv, TypeOK, StoreTouches

\* A commit and its error.
LEMMA CommitTouches ==
    ASSUME IInv, NEW L \in Ids, NEW rec \in Records, CommitOk(L, rec) \/ CommitFails(L, rec)
    PROVE  /\ StoreTouches(L) /\ disk'[L] \in {disk[L], rec}
           /\ CommitFails(L, rec) => binding' = NoBinding /\ faults' > 0
  <1>1. CASE CommitOk(L, rec)
    <2>1. rec.seq \in 0..5
      BY Zenon DEF Records
    <2>. QED
      BY <1>1, <2>1, Zenon
      DEF CommitOk, CommitFails, IInv, TypeOK, StoreTouches, NoBinding
  <1>2. CASE CommitFails(L, rec)
    <2>1. faults' \in 0..MaxFaults /\ faults' > 0
      BY <1>2, Bounded, Zenon DEF CommitFails, IInv
    <2>. QED
      BY <1>2, <2>1 DEF CommitFails, IInv, TypeOK, StoreTouches, NoBinding
  <1>. QED
    BY <1>1, <1>2, Zenon

\* A removal.
LEMMA RemoveTouches ==
    ASSUME IInv, NEW L \in Ids, L = login.id, RemoveBindingOk
    PROVE  /\ StoreTouches(L) /\ binding' = NoBinding
           /\ \/ disk'[L] = NoRecord
              \/ ~binding.held /\ disk'[L] = disk[L] /\ faults' = faults
  <1>1. CASE ~binding.held
    BY <1>1, StoreStays, Zenon DEF RemoveBindingOk
  <1>2. CASE binding.held
    <2>1. RemoveOk(L) /\ tmp' = tmp /\ binding' = NoBinding
      BY <1>2, Zenon DEF RemoveBindingOk
    <2>2. NoRecord \in Records
      BY Bounded, Zenon DEF IInv
    <2>3. binding' \in [held : BOOLEAN, seq : 0..5]
      BY <2>1 DEF NoBinding
    <2>. QED
      BY <2>1, <2>2, <2>3, Zenon DEF RemoveOk, IInv, TypeOK, StoreTouches
  <1>. QED
    BY <1>1, <1>2, Zenon

\* The error of a removal.
LEMMA RemoveErrs ==
    ASSUME IInv, NEW L \in Ids, L = login.id, RemoveBindingFails
    PROVE  /\ StoreTouches(L) /\ binding' = NoBinding /\ faults' > 0
           /\ disk'[L] \in {disk[L], NoRecord}
  <1>1. RemoveFails(L) /\ tmp' = tmp /\ binding' = NoBinding
    BY Zenon DEF RemoveBindingFails
  <1>2. NoRecord \in Records /\ faults' \in 0..MaxFaults /\ faults' > 0
    BY <1>1, Bounded, Zenon DEF RemoveFails, IInv
  <1>3. binding' \in [held : BOOLEAN, seq : 0..5]
    BY <1>1 DEF NoBinding
  <1>. QED
    BY <1>1, <1>2, <1>3 DEF RemoveFails, IInv, TypeOK, StoreTouches

\* What is known of the record of the login that is worked on.
LEMMA LoginRecord ==
    ASSUME IInv, NEW L \in Ids, L = login.id
    PROVE  /\ Exists(disk[L]) => disk[L].boot = daemon.boot
           /\ L \in attached /\ worker[L] = "alive" =>
                  disk[L].pid \in {"exact", "partial"} \/ L \in ledger
           /\ ~Exists(NoRecord)
  BY Zenon DEF IInv, RecordsById, WorkerAlwaysFindable, Exists, NoRecord

\* A binding that was given up after an error.
LEMMA BindingGone ==
    ASSUME binding' = NoBinding, faults' > 0
    PROVE  BindingFollowsLogin' /\ LostBindingIsAFault'
  BY Zenon DEF BindingFollowsLogin, LostBindingIsAFault, NoBinding

\* update_stage and mark_handoff_committed
LEMMA UpdateKeeps ==
    ASSUME IInv, login.pc \in UpdatePcs, NEW change \in {"pid", "stage", "handoff"},
           NEW L \in Ids, L = login.id, NEW q \in LoginPcs \ {"idle", "failed", "running"},
           UpdateOk(change), Goto(q), UpdatesBy(q) = UpdatesBy(login.pc) + 1, UNCHANGED daemon,
           L \in attached' => L \in attached \/ (change = "pid" /\ binding.held)
    PROVE  /\ StoreTouches(L) /\ BindingFollowsLogin' /\ LostBindingIsAFault'
           /\ Exists(disk'[L]) => disk'[L].boot = daemon.boot
           /\ disk'[L].pid = disk[L].pid \/ disk'[L].pid \in {"exact", "partial"}
           /\ change = "pid" /\ binding.held => disk'[L].pid \in {"exact", "partial"}
  <1>0. login' = [id |-> L, pc |-> q] /\ login.pc # "idle"
    BY Zenon DEF Goto, IInv, TypeOK, UpdatePcs
  <1>1. CASE ~binding.held
    <2>1. KeepStore
      BY <1>1, Zenon DEF UpdateOk
    <2>2. StoreTouches(L)
      BY <2>1, StoreStays, Zenon DEF KeepStore
    <2>3. BindingFollowsLogin' /\ LostBindingIsAFault'
      BY <1>0, <1>1, <2>1, Zenon
      DEF KeepStore, IInv, BindingFollowsLogin, LostBindingIsAFault
    <2>. QED
      BY <1>1, <2>1, <2>2, <2>3, LoginRecord, Zenon DEF KeepStore
  <1>2. CASE binding.held
    <2>1. CommitOk(L, Updated(change))
      BY <1>2, Zenon DEF UpdateOk
    <2>2. PICK rec \in Records : rec = Updated(change)
      BY <1>2, UpdatedIs, Zenon
    <2>3. /\ Exists(rec) /\ rec.seq = UpdatesBy(q) /\ rec.boot = daemon.boot
          /\ rec.pid = disk[L].pid \/ rec.pid \in {"exact", "partial"}
          /\ change = "pid" => rec.pid \in {"exact", "partial"}
      BY <1>2, <2>2, UpdatedIs, Zenon
    <2>4. /\ StoreTouches(L) /\ disk'[L] = rec /\ mem'[L] = rec /\ L \notin tmp'
          /\ binding' = [held |-> TRUE, seq |-> rec.seq]
      BY <2>1, <2>2, CommitTouches, Zenon DEF CommitOk, IInv, TypeOK
    <2>5. L \in attached' => rec.pid # "none"
      BY <1>2, <2>3, Zenon DEF IInv, BindingFollowsLogin
    <2>6. BindingFollowsLogin' /\ LostBindingIsAFault'
      BY <1>0, <2>3, <2>4, <2>5, Zenon DEF BindingFollowsLogin, LostBindingIsAFault
    <2>. QED
      BY <2>3, <2>4, <2>6, Zenon
  <1>. QED
    BY <1>1, <1>2, Zenon

\* Their errors.
LEMMA UpdateErrs ==
    ASSUME IInv, login.pc \in UpdatePcs, NEW change \in {"pid", "stage", "handoff"},
           NEW L \in Ids, L = login.id, UpdateFails(change)
    PROVE  /\ StoreTouches(L) /\ binding' = NoBinding /\ faults' > 0
           /\ BindingFollowsLogin' /\ LostBindingIsAFault'
           /\ Exists(disk'[L]) => disk'[L].boot = daemon.boot
           /\ disk'[L].pid = disk[L].pid \/ disk'[L].pid \in {"exact", "partial"}
  <1>1. binding.held /\ CommitFails(L, Updated(change))
    BY Zenon DEF UpdateFails
  <1>2. PICK rec \in Records : rec = Updated(change)
    BY <1>1, UpdatedIs, Zenon
  <1>3. /\ rec.boot = daemon.boot
        /\ rec.pid = disk[L].pid \/ rec.pid \in {"exact", "partial"}
    BY <1>1, <1>2, UpdatedIs, Zenon
  <1>4. StoreTouches(L) /\ disk'[L] \in {disk[L], rec} /\ binding' = NoBinding /\ faults' > 0
    BY <1>1, <1>2, CommitTouches, Zenon
  <1>. QED
    BY <1>3, <1>4, BindingGone, LoginRecord, Zenon

-----------------------------------------------------------------------------
(* The steps of a login.                                                   *)

\* The login goes on.
GoesOn(L, q) ==
    /\ Goto(q) /\ KeepDaemon /\ StoreTouches(L) /\ used' = used /\ seat' \in SeatStates
    /\ \E w \in WorkerStates : worker' = [worker EXCEPT ![L] = w]
    /\ attached' \in {attached, attached \cup {L}} /\ ledger' \in {ledger, ledger \cup {L}}
    /\ BindingFollowsLogin' /\ LostBindingIsAFault'
    /\ q \in {"reserved", "spawned"} => L \notin attached'
    /\ q \in {"durable", "committed", "running"} => L \in ledger'
    /\ q \in {"reserved", "cancel", "abort"} => worker'[L] # "alive"
    /\ Exists(disk'[L]) => disk'[L].boot = daemon.boot
    /\ L \in attached' /\ worker'[L] = "alive" =>
           disk'[L].pid \in {"exact", "partial"} \/ L \in ledger'

\* A step that goes on so keeps the invariant.
LEMMA GoesOnKeeps ==
    ASSUME IInv, login.pc # "idle",
           \A L \in Ids : L = login.id => \E q \in LoginPcs \ {"idle"} : GoesOn(L, q)
    PROVE  IInv'
  <1>1. SUFFICES ASSUME NEW L \in Ids, L = login.id, NEW q \in LoginPcs \ {"idle"}, GoesOn(L, q)
                 PROVE  Touches(L) /\ Stands(L)'
    BY LoginMoves, Zenon
  <1>2. L # NoId /\ L \in used /\ daemon.pc = "up" /\ daemon' = daemon
    BY <1>1, OneLogin, StoreBounds, Zenon DEF GoesOn, KeepDaemon
  <1>3. login' = [id |-> L, pc |-> q]
    BY <1>1, Zenon DEF GoesOn, Goto, IInv, TypeOK
  <1>4. /\ worker' \in [Ids -> WorkerStates]
        /\ \A id \in Ids \ {L} : worker'[id] = worker[id]
    BY <1>1 DEF GoesOn, IInv, TypeOK
  <1>5. Touches(L)
    BY <1>1, <1>2, <1>3, <1>4 DEF GoesOn, Touches
  <1>6. LoginById'
    BY <1>1, <1>2, <1>3, Zenon DEF GoesOn, LoginById
  <1>. QED
    BY <1>1, <1>2, <1>3, <1>5, <1>6, Zenon DEF GoesOn, Stands

\* The login is over: its worker is gone, and so is the binding.
GoesIdle(L) ==
    /\ Idle /\ KeepDaemon /\ StoreTouches(L) /\ UNCHANGED <<used, attached>>
    /\ seat' \in SeatStates /\ binding'.held = FALSE
    /\ \E w \in WorkerStates : worker' = [worker EXCEPT ![L] = w]
    /\ ledger' \in {ledger, ledger \ {L}} /\ worker'[L] # "alive"

\* A step that ends the login so keeps the invariant.
LEMMA GoesIdleKeeps ==
    ASSUME IInv, login.pc # "idle", \A L \in Ids : L = login.id => GoesIdle(L)
    PROVE  IInv'
  <1>1. SUFFICES ASSUME NEW L \in Ids, L = login.id, GoesIdle(L)
                 PROVE  Touches(L) /\ Stands(L)'
    BY LoginMoves, Zenon
  <1>2. L # NoId /\ L \in used /\ daemon.pc = "up" /\ daemon' = daemon
    BY <1>1, OneLogin, StoreBounds, Zenon DEF GoesIdle, KeepDaemon
  <1>3. /\ worker' \in [Ids -> WorkerStates]
        /\ \A id \in Ids \ {L} : worker'[id] = worker[id]
    BY <1>1 DEF GoesIdle, IInv, TypeOK
  <1>4. Touches(L)
    BY <1>1, <1>2, <1>3 DEF GoesIdle, Touches, Idle
  <1>5. LoginById' /\ BindingFollowsLogin' /\ LostBindingIsAFault'
    BY <1>1, Zenon
    DEF GoesIdle, Idle, LoginById, BindingFollowsLogin, LostBindingIsAFault
  <1>. QED
    BY <1>1, <1>2, <1>4, <1>5, Zenon DEF GoesIdle, Stands, Idle

\* A worker that a step leaves alone, and one that it kills.
LEMMA WorkerOr ==
    ASSUME IInv, NEW L \in Ids, L = login.id
    PROVE  /\ worker' = worker => \E w \in WorkerStates : worker' = [worker EXCEPT ![L] = w]
           /\ Kill => /\ worker'[L] # "alive"
                      /\ \E w \in WorkerStates : worker' = [worker EXCEPT ![L] = w]
  <1>1. worker[L] \in WorkerStates /\ "dead" \in WorkerStates /\ worker \in [Ids -> WorkerStates]
    BY Zenon DEF IInv, TypeOK, WorkerStates
  <1>2. worker = [worker EXCEPT ![L] = worker[L]]
    BY <1>1, Zenon
  <1>3. ASSUME Kill
        PROVE  /\ worker'[L] # "alive"
               /\ \E w \in WorkerStates : worker' = [worker EXCEPT ![L] = w]
    <2>1. CASE worker[L] = "alive"
      <3>1. worker' = [worker EXCEPT ![L] = "dead"]
        BY <1>3, <2>1, Zenon DEF Kill
      <3>. QED
        BY <1>1, <3>1, Zenon
    <2>2. CASE worker[L] # "alive"
      <3>1. worker' = [worker EXCEPT ![L] = worker[L]]
        BY <1>3, <2>2, Zenon DEF Kill
      <3>. QED
        BY <1>1, <2>2, <3>1, Zenon
    <2>. QED
      BY <2>1, <2>2, Zenon
  <1>. QED
    BY <1>1, <1>2, <1>3, Zenon

\* What stays true when the store is left alone and the login goes on.
LEMMA StoreLeft ==
    ASSUME IInv, NEW L \in Ids, L = login.id, login.pc # "idle", KeepStore, UNCHANGED daemon,
           NEW q \in LoginPcs \ {"idle", "failed", "running"}, Goto(q), attached' = attached,
           q \notin {"drop", "cancel", "abort"} =>
               /\ login.pc \notin {"drop", "cancel", "abort"}
               /\ UpdatesBy(q) = UpdatesBy(login.pc)
    PROVE  /\ StoreTouches(L) /\ BindingFollowsLogin' /\ LostBindingIsAFault'
           /\ Exists(disk'[L]) => disk'[L].boot = daemon.boot
           /\ disk'[L] = disk[L]
  <1>1. login' = [id |-> L, pc |-> q]
    BY Zenon DEF Goto, IInv, TypeOK
  <1>2. StoreTouches(L)
    BY StoreStays, Zenon DEF KeepStore
  <1>3. BindingFollowsLogin'
    BY <1>1, Zenon DEF KeepStore, IInv, BindingFollowsLogin
  <1>4. LostBindingIsAFault'
    BY <1>1, Zenon DEF KeepStore, IInv, LostBindingIsAFault
  <1>. QED
    BY <1>2, <1>3, <1>4, LoginRecord, Zenon DEF KeepStore

\* WorkerAttempt::spawn
LEMMA SpawnWorkerKeeps ==
    ASSUME IInv, SpawnWorker
    PROVE  IInv'
  <1>0. /\ login.pc = "reserved" /\ KeepStore /\ KeepDaemon /\ daemon' = daemon
        /\ UNCHANGED <<ledger, seat, used, attached>> /\ seat \in SeatStates
        /\ login.id \notin attached
    BY Zenon DEF SpawnWorker, At, KeepDaemon, IInv, TypeOK, LoginById
  <1>1. SUFFICES ASSUME NEW L \in Ids, L = login.id
                 PROVE  \E q \in LoginPcs \ {"idle"} : GoesOn(L, q)
    BY <1>0, GoesOnKeeps, Zenon
  <1>2. CASE Goto("spawned") /\ worker' = [worker EXCEPT ![login.id] = "alive"]
    <2>1. "spawned" \in LoginPcs \ {"idle", "failed", "running"} /\ "alive" \in WorkerStates
      BY Zenon DEF LoginPcs, PreCommitPcs, WorkerStates
    <2>2. UpdatesBy("spawned") = UpdatesBy(login.pc)
      BY <1>0, Zenon DEF UpdatesBy
    <2>3. GoesOn(L, "spawned")
      BY <1>0, <1>1, <1>2, <2>1, <2>2, StoreLeft, Zenon DEF GoesOn
    <2>. QED
      BY <2>1, <2>3, Zenon
  <1>3. CASE Goto("cancel") /\ UNCHANGED worker
    <2>1. "cancel" \in LoginPcs \ {"idle", "failed", "running"}
      BY Zenon DEF LoginPcs
    <2>2. worker[L] # "alive"
      BY <1>0, <1>1, Zenon DEF IInv, LoginById
    <2>3. GoesOn(L, "cancel")
      BY <1>0, <1>1, <1>3, <2>1, <2>2, StoreLeft, WorkerOr, Zenon DEF GoesOn
    <2>. QED
      BY <2>1, <2>3, Zenon
  <1>. QED
    BY <1>2, <1>3, Zenon DEF SpawnWorker

\* attach_backend
LEMMA AttachBackendKeeps ==
    ASSUME IInv, AttachBackend
    PROVE  IInv'
  <1>0. /\ login.pc = "spawned" /\ login.pc \in UpdatePcs /\ KeepDaemon /\ daemon' = daemon
        /\ UNCHANGED <<ledger, worker, seat, used>> /\ seat \in SeatStates
        /\ login.id \notin attached
    BY Zenon DEF AttachBackend, At, KeepDaemon, IInv, TypeOK, LoginById, UpdatePcs
  <1>1. SUFFICES ASSUME NEW L \in Ids, L = login.id
                 PROVE  \E q \in LoginPcs \ {"idle"} : GoesOn(L, q)
    BY <1>0, GoesOnKeeps, Zenon
  <1>2. CASE /\ UpdateOk("pid") /\ Goto("attached")
             /\ attached' = IF binding.held THEN attached \cup {login.id} ELSE attached
    <2>1. "attached" \in LoginPcs \ {"idle", "failed", "running"}
      BY Zenon DEF LoginPcs, PreCommitPcs
    <2>2. UpdatesBy("attached") = UpdatesBy(login.pc) + 1
      BY <1>0 DEF UpdatesBy
    <2>3. GoesOn(L, "attached")
      BY <1>0, <1>1, <1>2, <2>1, <2>2, UpdateKeeps, WorkerOr, Zenon DEF GoesOn
    <2>. QED
      BY <2>1, <2>3, Zenon
  <1>3. CASE UpdateFails("pid") /\ Goto("drop") /\ UNCHANGED attached
    <2>1. "drop" \in LoginPcs \ {"idle"}
      BY Zenon DEF LoginPcs
    <2>2. GoesOn(L, "drop")
      BY <1>0, <1>1, <1>3, UpdateErrs, WorkerOr, Zenon DEF GoesOn
    <2>. QED
      BY <2>1, <2>2, Zenon
  <1>. QED
    BY <1>2, <1>3, Zenon DEF AttachBackend

\* A step that updates the stage and goes on, with the update or without it.
LEMMA StageKeeps ==
    ASSUME IInv, login.pc \in UpdatePcs \ {"spawned"}, NEW change \in {"stage", "handoff"},
           NEW q \in LoginPcs \ {"idle", "running", "cancel", "abort", "reserved", "spawned"},
           q \in {"durable", "committed"} => login.pc = "durable",
           Goto(q), KeepDaemon, seat' \in SeatStates, UNCHANGED <<ledger, worker, used, attached>>,
           \/ /\ UpdateOk(change) /\ q # "failed"
              /\ UpdatesBy(q) = UpdatesBy(login.pc) + 1
           \/ UpdateFails(change)
           \/ Fault /\ binding' = NoBinding /\ UNCHANGED <<disk, tmp, mem>>
           \/ KeepStore /\ q = "drop"
    PROVE  IInv'
  <1>0. login.pc # "idle" /\ daemon' = daemon /\ (login.pc = "durable" => login.id \in ledger)
    BY Zenon DEF UpdatePcs, KeepDaemon, IInv, LoginById
  <1>1. SUFFICES ASSUME NEW L \in Ids, L = login.id
                 PROVE  GoesOn(L, q)
    BY <1>0, GoesOnKeeps, Zenon
  <1>2. /\ L \in attached /\ worker[L] = "alive" =>
               disk[L].pid \in {"exact", "partial"} \/ L \in ledger
        /\ \E w \in WorkerStates : worker' = [worker EXCEPT ![L] = w]
    BY <1>1, LoginRecord, WorkerOr, Zenon
  <1>3. CASE UpdateOk(change) /\ q # "failed" /\ UpdatesBy(q) = UpdatesBy(login.pc) + 1
    BY <1>0, <1>1, <1>2, <1>3, UpdateKeeps, Zenon DEF GoesOn
  <1>4. CASE UpdateFails(change)
    BY <1>0, <1>1, <1>2, <1>4, UpdateErrs, Zenon DEF GoesOn
  <1>5. CASE Fault /\ binding' = NoBinding /\ UNCHANGED <<disk, tmp, mem>>
    <2>1. faults' > 0 /\ StoreTouches(L)
      BY <1>1, <1>5, Bounded, StoreStays, Zenon DEF IInv
    <2>. QED
      BY <1>0, <1>1, <1>2, <1>5, <2>1, BindingGone, LoginRecord, Zenon DEF GoesOn
  <1>6. CASE KeepStore /\ q = "drop"
    BY <1>0, <1>1, <1>2, <1>6, StoreLeft, Zenon DEF GoesOn
  <1>. QED
    BY <1>3, <1>4, <1>5, <1>6, Zenon

\* authentication, authenticated and prepare
LEMMA StagesKeep ==
    ASSUME IInv, Authentication \/ Authenticated \/ Prepare
    PROVE  IInv'
  <1>0. /\ UNCHANGED <<ledger, worker, seat, used, attached>> /\ KeepDaemon
        /\ seat' \in SeatStates
    BY Zenon DEF Authentication, Authenticated, Prepare, Lenient, IInv, TypeOK
  <1>1. {"inflight", "drop", "authenticated", "prepared"} \subseteq
            LoginPcs \ {"idle", "running", "cancel", "abort", "reserved", "spawned"}
    BY Zenon DEF LoginPcs, PreCommitPcs
  <1>2. /\ UpdatesBy("attached") = 1 /\ UpdatesBy("inflight") = 2
        /\ UpdatesBy("authenticated") = 3 /\ UpdatesBy("prepared") = 4
    BY Zenon DEF UpdatesBy
  <1>3. CASE Authentication
    <2>1. login.pc = "attached" /\ login.pc \in UpdatePcs \ {"spawned"}
      BY <1>3, Zenon DEF Authentication, At, UpdatePcs
    <2>. QED
      BY <1>0, <1>1, <1>2, <1>3, <2>1, StageKeeps DEF Authentication
  <1>4. CASE Authenticated
    <2>1. login.pc = "inflight" /\ login.pc \in UpdatePcs \ {"spawned"}
      BY <1>4, Zenon DEF Authenticated, Lenient, At, UpdatePcs
    <2>. QED
      BY <1>0, <1>1, <1>2, <1>4, <2>1, StageKeeps DEF Authenticated, Lenient
  <1>5. CASE Prepare
    <2>1. login.pc = "authenticated" /\ login.pc \in UpdatePcs \ {"spawned"}
      BY <1>5, Zenon DEF Prepare, Lenient, At, UpdatePcs
    <2>. QED
      BY <1>0, <1>1, <1>2, <1>5, <2>1, StageKeeps DEF Prepare, Lenient
  <1>. QED
    BY <1>3, <1>4, <1>5, Zenon

\* begin_pending
LEMMA BeginPendingKeeps ==
    ASSUME IInv, BeginPending
    PROVE  IInv'
  <1>0. /\ login.pc = "prepared" /\ KeepStore /\ KeepDaemon /\ daemon' = daemon
        /\ UNCHANGED <<ledger, worker, used, attached>> /\ Goto("pending")
        /\ seat' \in SeatStates
    BY Zenon DEF BeginPending, At, KeepDaemon, SeatStates
  <1>1. "pending" \in LoginPcs \ {"idle", "failed", "running"}
    BY Zenon DEF LoginPcs
  <1>2. SUFFICES ASSUME NEW L \in Ids, L = login.id
                 PROVE  GoesOn(L, "pending")
    BY <1>0, <1>1, GoesOnKeeps, Zenon
  <1>3. UpdatesBy("pending") = UpdatesBy(login.pc)
    BY <1>0, Zenon DEF UpdatesBy
  <1>. QED
    BY <1>0, <1>1, <1>2, <1>3, StoreLeft, WorkerOr, LoginRecord, Zenon DEF GoesOn

\* record_prepared_scope
LEMMA RecordPreparedScopeKeeps ==
    ASSUME IInv, RecordPreparedScope
    PROVE  IInv'
  <1>0. /\ login.pc = "pending" /\ KeepStore /\ KeepDaemon /\ daemon' = daemon
        /\ UNCHANGED <<worker, seat, used, attached>> /\ Goto("durable")
        /\ ledger' = ledger \cup {login.id} /\ seat' \in SeatStates
    BY Zenon DEF RecordPreparedScope, At, KeepDaemon, IInv, TypeOK
  <1>1. "durable" \in LoginPcs \ {"idle", "failed", "running"}
    BY Zenon DEF LoginPcs
  <1>2. SUFFICES ASSUME NEW L \in Ids, L = login.id
                 PROVE  GoesOn(L, "durable")
    BY <1>0, <1>1, GoesOnKeeps, Zenon
  <1>3. UpdatesBy("durable") = UpdatesBy(login.pc)
    BY <1>0, Zenon DEF UpdatesBy
  <1>. QED
    BY <1>0, <1>1, <1>2, <1>3, StoreLeft, WorkerOr, Zenon DEF GoesOn

\* register_running
LEMMA CommitKeeps ==
    ASSUME IInv, Commit
    PROVE  IInv'
  <1>0. /\ login.pc = "durable" /\ login.pc \in UpdatePcs \ {"spawned"} /\ KeepDaemon
        /\ UNCHANGED <<ledger, worker, used, attached>> /\ seat' \in SeatStates
    BY Zenon DEF Commit, At, UpdatePcs, SeatStates, IInv, TypeOK
  <1>1. {"committed", "failed"} \subseteq
            LoginPcs \ {"idle", "running", "cancel", "abort", "reserved", "spawned"}
    BY Zenon DEF LoginPcs
  <1>2. UpdatesBy("committed") = UpdatesBy(login.pc) + 1
    BY <1>0 DEF UpdatesBy
  <1>. QED
    BY <1>0, <1>1, <1>2, StageKeeps, Zenon DEF Commit

\* promote_committed_to_running
LEMMA PromoteKeeps ==
    ASSUME IInv, PromoteCommittedToRunning
    PROVE  IInv'
  <1>0. /\ login.pc = "committed" /\ KeepDaemon /\ daemon' = daemon
        /\ UNCHANGED <<ledger, worker, used, attached>> /\ seat' \in SeatStates
        /\ login.id \in ledger
    BY Zenon
    DEF PromoteCommittedToRunning, At, SeatStates, KeepDaemon, IInv, TypeOK, LoginById
  <1>1. SUFFICES ASSUME NEW L \in Ids, L = login.id
                 PROVE  \E q \in LoginPcs \ {"idle"} : GoesOn(L, q)
    BY <1>0, GoesOnKeeps, Zenon
  <1>2. CASE RemoveBindingOk /\ Goto("running")
    <2>1. /\ StoreTouches(L) /\ binding' = NoBinding
          /\ \/ disk'[L] = NoRecord
             \/ ~binding.held /\ disk'[L] = disk[L] /\ faults' = faults
      BY <1>1, <1>2, RemoveTouches, Zenon
    <2>2. login' = [id |-> L, pc |-> "running"] /\ "running" \in LoginPcs \ {"idle"}
      BY <1>1, <1>2, Zenon DEF Goto, IInv, TypeOK, LoginPcs
    <2>3. Exists(disk'[L]) => disk'[L] = disk[L] /\ disk'[L].boot = daemon.boot
      BY <1>1, <2>1, LoginRecord, Zenon
    <2>4. BindingFollowsLogin'
      BY <2>1, Zenon DEF BindingFollowsLogin, NoBinding
    <2>5. LostBindingIsAFault'
      BY <1>0, <1>1, <2>1, <2>2, LoginRecord, Zenon DEF LostBindingIsAFault, IInv
    <2>6. GoesOn(L, "running")
      BY <1>0, <1>1, <1>2, <2>1, <2>3, <2>4, <2>5, WorkerOr, Zenon DEF GoesOn
    <2>. QED
      BY <2>2, <2>6, Zenon
  <1>3. CASE RemoveBindingFails /\ Goto("failed")
    <2>1. "failed" \in LoginPcs \ {"idle"}
      BY Zenon DEF LoginPcs
    <2>2. /\ StoreTouches(L) /\ binding' = NoBinding /\ faults' > 0
          /\ Exists(disk'[L]) => disk'[L] = disk[L] /\ disk'[L].boot = daemon.boot
      BY <1>1, <1>3, RemoveErrs, LoginRecord, Zenon
    <2>3. GoesOn(L, "failed")
      BY <1>0, <1>1, <1>3, <2>2, BindingGone, WorkerOr, Zenon DEF GoesOn
    <2>. QED
      BY <2>1, <2>3, Zenon
  <1>. QED
    BY <1>2, <1>3, Zenon DEF PromoteCommittedToRunning

\* The drop of WorkerAttempt.
LEMMA DropWorkerKeeps ==
    ASSUME IInv, DropWorker
    PROVE  IInv'
  <1>0. /\ Kill /\ KeepStore /\ KeepDaemon /\ daemon' = daemon
        /\ UNCHANGED <<ledger, seat, used, attached>> /\ seat' \in SeatStates
    BY Zenon DEF DropWorker, KeepDaemon, IInv, TypeOK
  <1>1. CASE login.pc = "drop" /\ Goto("cancel")
    <2>1. "cancel" \in LoginPcs \ {"idle", "failed", "running"} /\ login.pc # "idle"
      BY <1>1, Zenon DEF LoginPcs
    <2>2. SUFFICES ASSUME NEW L \in Ids, L = login.id
                   PROVE  GoesOn(L, "cancel")
      BY <2>1, GoesOnKeeps, Zenon
    <2>. QED
      BY <1>0, <1>1, <2>1, <2>2, StoreLeft, WorkerOr, Zenon DEF GoesOn
  <1>2. CASE login.pc = "failed" /\ Idle
    <2>1. SUFFICES ASSUME NEW L \in Ids, L = login.id
                   PROVE  GoesIdle(L)
      BY <1>2, GoesIdleKeeps, Zenon
    <2>2. binding'.held = FALSE
      BY <1>0, <1>2, Zenon DEF KeepStore, IInv, BindingFollowsLogin, TypeOK
    <2>3. StoreTouches(L)
      BY <1>0, StoreStays, Zenon DEF KeepStore
    <2>. QED
      BY <1>0, <1>2, <2>1, <2>2, <2>3, WorkerOr, Zenon DEF GoesIdle
  <1>. QED
    BY <1>1, <1>2, Zenon DEF DropWorker, At

\* SeatReservationGuard::drop and cancel
LEMMA CancelAdmissionKeeps ==
    ASSUME IInv, CancelAdmission
    PROVE  IInv'
  <1>0. /\ login.pc = "cancel" /\ Idle /\ KeepDaemon /\ worker[login.id] # "alive"
        /\ UNCHANGED <<ledger, worker, used, attached>> /\ seat' \in SeatStates
        /\ RemoveBindingOk \/ RemoveBindingFails
    BY Zenon DEF CancelAdmission, At, SeatStates, IInv, TypeOK, LoginById
  <1>1. SUFFICES ASSUME NEW L \in Ids, L = login.id
                 PROVE  GoesIdle(L)
    BY <1>0, GoesIdleKeeps, Zenon
  <1>2. StoreTouches(L) /\ binding'.held = FALSE
    BY <1>0, <1>1, RemoveTouches, RemoveErrs DEF NoBinding
  <1>. QED
    BY <1>0, <1>1, <1>2, WorkerOr, Zenon DEF GoesIdle

\* abort_pending begins.
LEMMA AbortPendingKeeps ==
    ASSUME IInv, AbortPending
    PROVE  IInv'
  <1>0. /\ login.pc # "idle" /\ Kill /\ KeepStore /\ KeepDaemon /\ daemon' = daemon
        /\ UNCHANGED <<ledger, seat, used, attached>> /\ seat' \in SeatStates /\ Goto("abort")
    BY Zenon DEF AbortPending, KeepDaemon, IInv, TypeOK
  <1>1. "abort" \in LoginPcs \ {"idle", "failed", "running"}
    BY Zenon DEF LoginPcs
  <1>2. SUFFICES ASSUME NEW L \in Ids, L = login.id
                 PROVE  GoesOn(L, "abort")
    BY <1>0, <1>1, GoesOnKeeps, Zenon
  <1>. QED
    BY <1>0, <1>1, <1>2, StoreLeft, WorkerOr, Zenon DEF GoesOn

\* abort_pending ends.
LEMMA FinishAbortKeeps ==
    ASSUME IInv, FinishAbort
    PROVE  IInv'
  <1>0. /\ login.pc = "abort" /\ Idle /\ KeepDaemon /\ worker[login.id] # "alive"
        /\ UNCHANGED <<worker, used, attached>> /\ seat' \in SeatStates
        /\ ledger' \in {ledger, ledger \ {login.id}}
        /\ \/ RemoveBindingOk \/ RemoveBindingFails
           \/ binding' = NoBinding /\ UNCHANGED <<disk, tmp, mem, faults>>
    BY Zenon DEF FinishAbort, At, SeatStates, IInv, TypeOK, LoginById
  <1>1. SUFFICES ASSUME NEW L \in Ids, L = login.id
                 PROVE  GoesIdle(L)
    BY <1>0, GoesIdleKeeps, Zenon
  <1>2. StoreTouches(L) /\ binding'.held = FALSE
    BY <1>0, <1>1, RemoveTouches, RemoveErrs, StoreStays DEF NoBinding
  <1>. QED
    BY <1>0, <1>1, <1>2, WorkerOr, Zenon DEF GoesIdle

\* finish_exited_worker
LEMMA SessionEndsKeeps ==
    ASSUME IInv, SessionEnds
    PROVE  IInv'
  <1>0. /\ login.pc = "running" /\ Idle /\ KeepDaemon /\ KeepStore /\ worker[login.id] # "alive"
        /\ UNCHANGED <<worker, used, attached>> /\ seat' \in SeatStates
        /\ ledger' \in {ledger, ledger \ {login.id}} /\ binding'.held = FALSE
    BY Zenon
    DEF SessionEnds, At, SeatStates, IInv, TypeOK, BindingFollowsLogin, KeepStore
  <1>1. SUFFICES ASSUME NEW L \in Ids, L = login.id
                 PROVE  GoesIdle(L)
    BY <1>0, GoesIdleKeeps, Zenon
  <1>2. StoreTouches(L)
    BY <1>0, StoreStays, Zenon DEF KeepStore
  <1>. QED
    BY <1>0, <1>1, <1>2, WorkerOr, Zenon DEF GoesIdle

\* reserve_seat
LEMMA ReserveSeatKeeps ==
    ASSUME IInv, NEW id \in Ids, ReserveSeat(id)
    PROVE  IInv'
  <1>. DEFINE rec == [seq |-> 0, pid |-> "none", handoff |-> FALSE, boot |-> daemon.boot]
  <1>0. /\ daemon.pc = "up" /\ login.pc = "idle" /\ login.id = NoId /\ id \notin used
        /\ ~(open /\ quar) /\ seat' \in SeatStates /\ used' = used \cup {id}
        /\ UNCHANGED <<ledger, worker, attached>> /\ KeepDaemon /\ daemon' = daemon
        /\ daemon.todo = {} /\ ~binding.held
    BY Zenon
    DEF ReserveSeat, At, Blocked, SeatStates, KeepDaemon, IInv, LoginById,
        ReconcileList,
       BindingFollowsLogin
  <1>1. /\ id \notin attached /\ ~Exists(disk[id]) /\ worker[id] # "alive" /\ id # NoId
        /\ open => ~quar /\ \A i \in attached \ {id} : worker[i] = "alive" => i \in ledger
    BY <1>0, StoreBounds, Zenon DEF IInv, RecordsById, SurvivorsAreKnown, TypeOK
  <1>2. SUFFICES Touches(id) /\ Stands(id)'
    BY <1>0, <1>1, TouchesKeeps, Zenon
  <1>3. rec \in Records /\ Exists(rec) /\ rec.boot = daemon.boot /\ rec.seq = 0
    BY DEF IInv, TypeOK, Records, Pids, Exists
  <1>4. worker' \in [Ids -> WorkerStates]
    BY <1>0, Zenon DEF IInv, TypeOK
  <1>5. {"reserved"} \subseteq LoginPcs \ {"idle"}
    BY Zenon DEF LoginPcs, PreCommitPcs
  <1>6. CASE CommitOk(id, rec) /\ login' = [id |-> id, pc |-> "reserved"]
    <2>1. StoreTouches(id)
      BY <1>3, <1>6, CommitTouches, Zenon
    <2>2. /\ disk'[id] = rec /\ mem'[id] = rec /\ id \notin tmp'
          /\ binding' = [held |-> TRUE, seq |-> 0]
      BY <1>3, <1>6, Zenon DEF CommitOk, IInv, TypeOK
    <2>3. UpdatesBy("reserved") = 0
      BY Zenon DEF UpdatesBy
    <2>4. BindingFollowsLogin' /\ LostBindingIsAFault'
      BY <1>0, <1>1, <1>3, <1>6, <2>2, <2>3, Zenon
      DEF BindingFollowsLogin, LostBindingIsAFault
    <2>5. LoginById'
      BY <1>0, <1>1, <1>6, Zenon DEF LoginById
    <2>. QED
      BY <1>0, <1>1, <1>3, <1>4, <1>5, <1>6, <2>1, <2>2, <2>4, <2>5, Zenon
      DEF Touches, Stands
  <1>7. CASE CommitFails(id, rec) /\ Idle
    <2>1. StoreTouches(id) /\ binding' = NoBinding /\ faults' > 0
      BY <1>3, <1>7, CommitTouches, Zenon
    <2>2. BindingFollowsLogin' /\ LostBindingIsAFault' /\ LoginById'
      BY <1>7, <2>1, BindingGone, Zenon DEF LoginById, Idle
    <2>. QED
      BY <1>0, <1>1, <1>4, <1>7, <2>1, <2>2, Zenon DEF Touches, Stands, Idle
  <1>8. CASE KeepStore /\ login' = [id |-> id, pc |-> "reserved"]
    <2>1. StoreTouches(id) /\ disk'[id] = disk[id] /\ ~binding'.held
      BY <1>0, <1>8, StoreStays, Zenon DEF KeepStore
    <2>2. BindingFollowsLogin' /\ LostBindingIsAFault'
      BY <1>1, <1>8, <2>1, Zenon DEF BindingFollowsLogin, LostBindingIsAFault
    <2>3. LoginById'
      BY <1>0, <1>1, <1>8, Zenon DEF LoginById
    <2>. QED
      BY <1>0, <1>1, <1>4, <1>5, <1>8, <2>1, <2>2, <2>3, Zenon DEF Touches, Stands
  <1>. QED
    BY <1>6, <1>7, <1>8, Zenon DEF ReserveSeat

-----------------------------------------------------------------------------
(* The theorems.                                                           *)

\* The first daemon finds an empty directory.
LEMMA InitHolds == Init => IInv
  <1>. SUFFICES ASSUME Init PROVE IInv
    BY Zenon
  <1>1. TypeOK
    <2>1. NoRecord \in Records
      BY StoreBounds DEF NoRecord, Records, Pids
    <2>2. 0 \in 0..MaxFaults /\ 0 \in 0..MaxCrashes
      BY StoreBounds
    <2>3. disk \in [Ids -> Records] /\ mem \in [Ids -> Records] /\ worker \in [Ids -> WorkerStates]
      BY <2>1, Zenon DEF Init, WorkerStates
    <2>4. /\ daemon \in [pc : DaemonPcs, boot : 0..MaxCrashes, todo : SUBSET Ids,
                         target : Ids \cup {NoId}]
          /\ login \in [id : Ids \cup {NoId}, pc : LoginPcs] /\ seat \in SeatStates
          /\ binding \in [held : BOOLEAN, seq : 0..5]
      BY <2>2 DEF Init, DaemonPcs, LoginPcs, SeatStates, NoBinding
    <2>. QED
      BY <2>2, <2>3, <2>4, Zenon DEF Init, TypeOK
  <1>2. Others
    BY NobodyLogsIn, Zenon DEF Init, NoBinding
  <1>3. RecordsById /\ ReconcileList /\ WorkerAlwaysFindable /\ SurvivorsAreKnown
    BY Zenon
    DEF Init, RecordsById, ReconcileList, WorkerAlwaysFindable, SurvivorsAreKnown,
        NoRecord, Exists
  <1>. QED
    BY <1>1, <1>2, <1>3, Zenon DEF IInv, Others

\* The inductive invariant of the store, the login and the start.
THEOREM InvariantHolds == Spec => []IInv
  <1>1. ASSUME IInv, [Next]_vars
        PROVE  IInv'
    <2>1. CASE StartupStep
      BY <1>1, <2>1, OpenStoreKeeps, ReconcileEndsKeeps, DaemonReadyKeeps,
         ReconcileKeeps,
         KillExactPidKeeps, RecoverLedgerKeeps, Zenon DEF StartupStep
    <2>2. CASE LoginStep
      BY <1>1, <2>2, SpawnWorkerKeeps, AttachBackendKeeps, StagesKeep,
         BeginPendingKeeps,
         RecordPreparedScopeKeeps, CommitKeeps, PromoteKeeps, DropWorkerKeeps,
         CancelAdmissionKeeps, AbortPendingKeeps, FinishAbortKeeps, SessionEndsKeeps,
         ReserveSeatKeeps, Zenon DEF LoginStep
    <2>3. CASE HostStep
      BY <1>1, <2>3, DaemonCrashesKeeps, RebootsKeeps, WorkerGoes, Zenon DEF HostStep
    <2>4. CASE UNCHANGED vars
      <3>1. TypeOK' /\ LoginById' /\ BindingFollowsLogin' /\ LostBindingIsAFault'
        BY <1>1, <2>4
        DEF vars, IInv, TypeOK, LoginById, BindingFollowsLogin, LostBindingIsAFault
      <3>2. RecordsById' /\ ReconcileList' /\ SurvivorsAreKnown'
        BY <1>1, <2>4, Zenon
        DEF vars, IInv, RecordsById, ReconcileList, SurvivorsAreKnown
      <3>3. WorkerAlwaysFindable' /\ NoLoginBesideLiveWorker'
        BY <1>1, <2>4, Zenon
        DEF vars, IInv, WorkerAlwaysFindable, NoLoginBesideLiveWorker
      <3>. QED
        BY <3>1, <3>2, <3>3, Zenon DEF IInv
    <2>. QED
      BY <1>1, <2>1, <2>2, <2>3, <2>4, Zenon DEF Next
  <1>. QED
    BY <1>1, InitHolds, PTL DEF Spec

\* A worker that was attached can always be found while it lives.
THEOREM FindableHolds == Spec => []WorkerAlwaysFindable
  <1>1. IInv => WorkerAlwaysFindable
    BY Zenon DEF IInv
  <1>. QED
    BY <1>1, InvariantHolds, PTL

\* No login is past its reservation next to a worker that an earlier login
\* attached and that still lives.
THEOREM NoNeighbourHolds == Spec => []NoLoginBesideLiveWorker
  <1>1. IInv => NoLoginBesideLiveWorker
    BY Zenon DEF IInv
  <1>. QED
    BY <1>1, InvariantHolds, PTL

\* The daemon's own binding is never refused.
THEOREM BindingHolds == Spec => []BindingIsCurrent
  <1>1. IInv => BindingIsCurrent
    BY Zenon DEF IInv, BindingFollowsLogin, BindingIsCurrent, Authority
  <1>. QED
    BY <1>1, InvariantHolds, PTL

\* The record of a session that runs is gone, or an error left it and the
\* recovery ledger has the session.
THEOREM HandOverHolds == Spec => []RunningSessionHandedOver
  <1>1. IInv => RunningSessionHandedOver
    BY Zenon
    DEF IInv, LoginById, BindingFollowsLogin, LostBindingIsAFault,
        RunningSessionHandedOver
  <1>. QED
    BY <1>1, InvariantHolds, PTL
=============================================================================
