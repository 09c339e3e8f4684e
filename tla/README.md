# Niralis: TLA+ models and proofs

Niralis is a Wayland display manager. A daemon (`niralisd`) answers a greeter,
runs one login at a time on a seat, starts a worker process per session, and
must never lose a user's processes, its record of them, or the seat, whatever
times out, fails to be written or crashes. This directory holds models of the
parts where that is hard, the TLC runs that check them and the TLAPS proofs.

## The system

| part | state | operations | hard behaviour |
|---|---|---|---|
| seat admission (`launcher/supervisor_loop/admission.rs`) | phase of the login under way, lifecycle of the session, generation, attempt | reserve, promote, commit, promote to running, cancel, recovery, quarantine, release, administrative receipt | linear leases and receipts that can be dropped or be stale |
| supervisor loop (`launcher/supervisor_loop/`) | pending workers, children, quarantined sessions, the ledger | one message at a time, reaping, recovery | answers nobody waits for, failed writes between two changes |
| launcher (`launcher/launch_*.rs`) | the login thread's protocol with worker and supervisor | reserve, spawn, scope registration, release, registration | one-second reply timeouts, worker death at any point |
| session worker (`niralis-session-worker/src/runtime`) | PAM session, scope, child, VT | launch stages, scope preparation, release handshake, running, VT report | messages read in the wrong place, a stage that fails after others succeeded |
| session child and probe (`session_child`, `bin/niralis-session-probe`) | the process between fork and the user's program | privilege drop, exec of the probe, ready, commit, exec | death or silence at any stage |
| payload scope (`payload_scope`) | systemd unit, cgroup, reference on the unit | create, pin, stop, proof that it is empty | processes and systemd move during a proof |
| termination (`termination`, `runtime/wait`, `runtime/lifecycle`) | cause, timers, leader's exit | graceful cycle, forced cycle, finalization | several sources ready at once, deadlines racing exits |
| recovery ledger (`launcher/recovery/persistent*.rs`) | durable record per session, operation ledger, sequence | create, transition, operation intent / confirmed / failed, resolve and remove, quarantine | crashes between writes, validation on reload |
| same-boot startup recovery (`launcher/recovery/startup*.rs`) | records of this boot | identity checks, kill, unref, logind, VT, finalization | restart in the middle of a recovery |
| previous-boot finalization (`launcher/recovery/previous_boot*.rs`) | journal and record | stages from NotReplayed to FreePublished | crash between record and journal |
| recovery administration (`supervisor_loop/admin*.rs`) | VT recovery attempts | retry with one VT_DISALLOCATE | at-most-once ioctl |
| pre-commit store (`launcher/precommit_runtime`) | file per login that has no session yet | create, update, remove, reconciliation of a start | leftovers of a crash, half-done writes, lost bindings |
| PAM conversation (`pam_conversation.rs`, `pam_wire.rs`, `pam_prompt.rs`) | sequence of prompts, the pending one | prompt, answer, expire, consume | late, early and foreign answers |
| request handler (`niralisd/src/handler`) | transaction table, rate limiter | login, cancel, disconnect | check and charge far apart |
| connections (`niralisd/src/server`) | a thread per greeter connection | accept, read, respond, clean up | a thread inside a login reads nothing else |

## Modules

Admission and supervision:

* `AdmissionController`: the operators of `SeatAdmissionController`, what each
  method requires and how it changes the controller. Used by the next two.
* `Seat`: the abstract seat: free, launching, running, recovering or
  quarantined, in numbered tenures, each beginning at a free seat.
* `SeatAdmission`: the controller with callers that hold its leases and
  receipts, call in any order with any token, and may drop a token.
* `SeatAdmissionProofs`: the inductive invariant and the theorems.
* `SupervisionState`, `SupervisorLoop`, `Launcher`, `SessionWorker`,
  `SessionSupervision`: the supervisor thread, a launcher thread and a worker
  per login, their channels, and their composition. The worker's PAM prompts
  are here too, because a launcher that has passed one on waits for its greeter.
* `SessionStepProofs`, `SessionSupervisionProofs`: the inductive invariant (the
  lemmas per step, then the handlers and the theorems).

Recovery, from one daemon start or one boot to the next:

* `RecoveryRecord`: `PersistentRecoveryRecord` as a value: state, sequence, the
  eight operations with their attempt ids, the administrative attempts, and the
  rules a record must satisfy to be accepted when it is read.
* `RecoveryLedger`: the files and the memory of `PersistentRecoveryLedger`. A
  commit writes a temporary file, renames it and syncs the directory; it can
  fail before or after the rename, and a crash can leave the temporary file,
  after which every commit of that record fails.
* `PreviousBootFinalization`: a record of an earlier boot: the plan, the stages
  of the journal, the removal, the receipt and the resumption.
* `SameBootRecovery`: a record of this boot: worker, payload, boundary, logind
  session and VT, with an intent before and a confirmation after each effect.
* `RecoveryAdmin`: the administrative `VT_DISALLOCATE` retry and what it does
  when it succeeds.
* `StartupRecovery`: their composition: loading, record-set classification, the
  order of a start, sessions of the running daemon, the supervisor's recovery
  of a session whose worker died (`Emergency*`: kill, logind, VT), a worker that
  outlives its daemon, crashes and reboots. `calls` counts every kill,
  termination and `VT_DISALLOCATE` of a session, whoever makes it; `Counted`
  names the effects a run counts.

The session worker, inside:

* `WorkerState`: the variables: the processes of the session, the unit and its
  cgroup, what the worker owns (reference, PAM session, VT), its inputs, its
  program counter.
* `PayloadScope`: what processes and systemd do on their own, and the reads of
  the scope that the worker makes, one action each: the members of the cgroup,
  the pinned unit, the three reads of the empty proof.
* `SessionLaunch`: `run_pam_session` from the request to `Started`, the child
  and the probe, and what each failure undoes.
* `SessionTermination`: the two poll cycles, the two coordinators and the
  finalization.
* `SessionEnd`: the abstract end of a session: finalized only when its payload
  is gone, or kept. `WorkerProcess` composes the four and implements it.
* `WorkerLaunchProofs`, `WorkerProcessProofs`: the inductive invariant (first
  the steps of a launch, then the others) and the theorems.

`SessionWorker` is the same process seen from the launcher and the supervisor:
there only its messages, prompts and exits count.

The login service of `niralisd`:

* `LoginState`, `ClientConnection` (a greeter connection and its thread),
  `LoginHandler` (rate limiter and transaction table), `LoginTransaction` (the
  launcher's side of a login and its results), `PamConversation` (worker,
  launcher and greeter exchanging prompts and answers), composed in
  `LoginService`. `Launcher` has the same thread's exchange with the supervisor
  in detail; `LoginTransaction` keeps of it what happens to the seat: a call
  that is not answered in time, a worker that is dead at `register` and a
  pre-commit record that cannot be removed lose the lease, and the seat stays
  taken for nobody.
* `LoginServiceProofs`: the inductive invariant and the theorems.

The pre-commit store:

* `PrecommitStore` (commits, updates, removals, bindings, the reconciliation of
  a start), `PrecommitLogin` (which calls of a login reach it and what an error
  does to seat, worker and record), `PrecommitRuntime` (their composition with
  crashes and reboots).
* `PrecommitRuntimeProofs`: the inductive invariant and the theorems.

State and actions keep the names of the code. A `pc` is the point a thread has
reached between two writes or effects. In the recovery models `disk` and `jrn`
survive a crash, `mem`, `ctx` and the quarantines do not, the host (processes,
logind session, VT) survives a crash and not a reboot.

Abstractions of the recovery models: a record starts at `started` with sequence
3 (the earlier states are in `SupervisionState`); the reasons of a quarantine
are identity, busy VT or other; what D-Bus, /proc and cgroups show is a
nondeterministic observation, constrained by the state of the host; the checks
of a snapshot against its own authority are left out, because the ledger is
locked during a start and a failed write abandons the record; an orderly stop
of the daemon is a crash between two actions; a reboot happens when the daemon
is down or serving; the trimming of the administrative history is replaced by a
bound (`MaxAttempts`); `old` entries of the journal belong to sessions before
the modelled ones, since the code never removes an entry.

Abstractions of the worker: the processes of a session are its leader and
"others"; a cgroup is populated or not, and gone once systemd has collected the
unit, which it does only when the cgroup is empty; a D-Bus call fails or
returns the state of that moment; a connection to the control socket is a valid
request, one of another user or a malformed one; a retained worker
(`wait_for_graceful_handoff`) stays so.

Abstractions of the login service: a frame is chosen when it is read, so a
greeter may send anything at any time; of the identities that both ends of a
prompt compare, the request and the sequence number are kept, the others are
constants of one login; time is a deadline that passes once per login and is
looked at where the code looks at it (`wait_thread_result`, `forward_pam_prompt`,
`consume_authenticated_conversation`).

Abstractions of the pre-commit store: a record is its sequence, how well its
worker is identified, the hand-over mark and its boot; the recovery ledger is
the set of logins that have a record there. At a start its recovery ends the
worker, the record, both or neither, and may close the seat (`fenced`, the
quarantines of `recovery_admission_state`); the recovery models have the detail.

## Runs

* `seat_admission` (two lifecycles, four generations): 15 451 states.
* `session_supervision` (two logins, one fault, fair scheduling): 105 608
  states. Every interleaving of two logins with a store failure, an expired wait
  or a crash anywhere, PAM prompts and their answers, and the daemon's shutdown.
  The inductive invariant, and with it every safety property of this run, was
  also checked with three faults (430 066 states, symmetric in the logins); the
  theorems hold for any number.
* `recovery_faults` (one session, three boots, two faults, two administrative
  attempts): 557 208 states. Three boots are needed for a finalization that is
  interrupted in one boot and resumed in the next; two faults for one that
  strikes the handling of another. Every effect is counted, and a daemon may
  find any part of a session still there, a live worker included.
* `recovery_sessions` (two sessions, three boots, one fault, `MaxEntries` 1 for
  the code's 64, fair starts): 109 380 states. Two sessions are the least for
  which the record set has a conflict; the journal has room for one session or
  (`MaxOld`) is full from the start, so both refusals of a full journal happen.
  No effect is counted and of a session without a daemon three leftovers are
  tried (all but its worker, a busy VT, nothing), as the two properties are
  about records and journal.
* `worker_lifecycle` (one worker, one fault): 157 865 states. A fault is a
  D-Bus failure, a failed or replaced unit, an odd connection, a lost
  supervisor or a crash; failures of a launch stage, signals, requests and
  expiring timers are free.
* `login_requests` (two connections of two requests, one user, one attempt
  allowed, two prompts): 154 371 states. Two connections are needed to pass the
  rate limit together, two requests for an answer or a cancellation that
  belongs to another one, two prompts for a stale sequence number. Both
  connections use one user: the limiter's entries are independent.
* `precommit_store` (two logins, two crashes, one failed write): 398 071 states.
  Two logins are needed for a leftover of one beside the other; two crashes for
  a reconciliation that is itself interrupted.

`MaxBoot`, `MaxFaults`, `MaxCrashes`, `MaxEntries`, `MaxOld`, `MaxAttempts`,
`MaxGeneration`, `MaxPrompts` and `MaxRequests` are the bounds; `FaultKinds` says which kinds of fault a run admits: `crash` (of the daemon, between any two
writes or effects or within a write), `io` (a write fails), `facts` (an
observation is unstable or an effect's outcome is not known), `failpoint` (the
daemon stops at a point of `previous_boot_failpoints.rs`).

A `TypeOK` gives the shape of each module's variables; it is a conjunct of `IInv`
and otherwise a reader's guide, the runs being spent on the other properties.

Deadlock checking is off: a seat whose lease was dropped admits nobody any more,
the daemon may be shut down, and boots are bounded, so behaviours may end.

### Where the code and its documents disagree

Five runs are expected to end in a violation. Each states what a document or a
comment of the repository says; the lines are in the findings of `PROJECT.json`.

* `termination_repeated`: `TerminateSession` is repeated after a crash.
* `history_of_two_sessions`: a session that the supervisor recovered keeps its
  record, and after one more session and a reboot the seat stays closed. With
  one record on the seat the same promise holds (`LoneHistoryIsFinalized`, in
  `recovery_sessions`).
* `login_before_history`: `authority_for_runtime` clears the seat's quarantine
  before it writes the last stage of the journal, and a failed write leaves the
  seat clear. `LoginOnlyAfterHistory` holds as long as no journal write fails
  (`recovery_sessions`).
* `seat_left_open`: a record of this boot whose VT is busy keeps the seat in the
  daemon that saw it happen, and no longer in the next one.
* `session_end_retained`: the worker opens the events file of the cgroup when
  the leader's exit reaches it; if systemd was faster the file is gone, and the
  worker keeps PAM session and VT for ever. No fault is needed.

Two more are in the models without a run of their own. `docs/security.md:234`
says that workers that hang are killed and reaped; a greeter that answers a
prompt with something else, or too late, leaves the launcher waiting for the
output of a worker that waits for the answer, which nobody kills (`Deadlocked`
in `LoginService`, `AwaitsAnswer` in `SessionSupervision`; both `LoginEnds`
except it). And `previous_boot_finalization_resume.rs:30` clears the seat for one
removed record although another one of that seat may still be kept.

## Fairness

The supervisor thread is weakly fair: it is a loop that blocks only on its own
channel. A launcher is weakly fair together with the deadline of a login whose
worker is silent in PAM or waits for ever (the wait is bounded in the code), but
not where it waits for its greeter: the read of the answer has no timeout
(`pam_prompt.rs:28`), and neither has the wait for the output of a worker that
waits for that answer (`launch_completion.rs`). A worker is weakly fair once PAM
is done. `LoginEnds` excepts exactly these two waits. A daemon's start is weakly
fair: the unit is restarted by systemd and the start has no unbounded wait. Ends
of sessions, logins, reboots and faults are not fair.

Inside the worker, its own steps outside PAM, an armed timer, the last step of a
dying process and systemd's collection of an empty cgroup are weakly fair; PAM
and the user who answers it take the time they take, and the session's processes
may live for ever. `WorkerSettles` promises accordingly that a launch ends or
stays in PAM.

In the login service the threads and the deadline are weakly fair, and a greeter
that was asked for an answer eventually sends a frame, any frame, or hangs up.
That last assumption is about the greeter, not the code; without it `LoginEnds`
fails, since a silent greeter keeps its login and the seat.

## Proofs

Five families of theorems, each for every value of the constants (any set of
logins, connections or ids, any bound on faults, crashes, generations, requests
or prompts). Each rests on an inductive invariant `IInv`, which TLC has checked
as well, with one lemma per action.

* `SeatAdmissionProofs`: `DroppedLeaseIsPermanent`, the refinement of `Seat`, and
  five facts that TLC need not repeat: `SeatExclusive`, `AuthorityUnique`,
  `OrphanedOnlyWhenDropped`, `FreedOnlyByItsReceipt` and
  `StaleCapabilityIsPowerless`. `IInv` ties the phase and the lifecycle to the
  tokens that exist: the seat's generation is the largest ever issued, a token
  that matches the current state is unique, and a state without a token is one
  whose token was dropped. The properties alone do not exclude two tokens for
  one generation.
* `SessionSupervisionProofs`: `PayloadOwnsSeat`, `PayloadIsDurable`,
  `BusyVtKeepsSeat`, `LeftoverRecordsAreDead`, `NoPhaseLeaksWithoutFault` and the
  refinement of `Seat` by launchers, supervisor and workers together. `IInv` says
  which calls of a launcher may be queued when it waits or has given up
  (`QueuedCalls`), that every lease, also one inside a queued call, is current as
  long as its login's phase is (`Leases`), and which records and entries a call
  will find (`EntryFollows`, `RecordHasSeat`). Without the queue the properties
  are not inductive: a late `Register` could start a session on another's seat.
* `WorkerProcessProofs`: `ProofMeansEmpty`, `SessionKeepsItsOwner`,
  `FailedLaunchIsClean`, `VtReleaseIsRecorded`, `TimeoutMeansNotProven` and the
  refinement of `SessionEnd`. `IInv` is a table: what each program point owns
  (PAM session, VT, reference on the unit) and knows (the leader's exit), and
  where the shared checks return to.
* `LoginServiceProofs`: `RateLimitOvershoot`, `SeatHeldByALogin`,
  `PreCommitWhileInLogin`, `AnswerIsForItsPrompt`, `OnlyVerdictsAreCharged` and
  `DeadlineIsFinal`. `IInv` relates launcher, worker and control channel at each
  prompt, and bounds the charges made together with the logins that may still be
  charged (`ChargesBounded`), which is why the overshoot is at most
  `MaxConnections - 1`.
* `PrecommitRuntimeProofs`: `WorkerAlwaysFindable`, `NoLoginBesideLiveWorker`,
  `BindingIsCurrent` and `RunningSessionHandedOver`. `IInv` counts the updates of a
  record by the point its login has reached, and says which of the attached
  workers may live during and after a reconciliation (`SurvivorsAreKnown`).

The assumptions are the named `ASSUME`s of the modules: bounds are natural numbers
and the "no id" values are not ids.

Only model-checked: the recovery models (`StartupRecovery` and what it composes),
and all liveness, which is beyond the prover.

## Plan

Theorems to come: `SequencesNeverRegress` and `RemovalIsFinal` of the recovery
models, which need an invariant that ties `pc` and `ctx` to `disk` and `jrn`.
Then the watch of a boundary's owner (`boundary*.rs`, `owner_watch.rs`).

## Not modelled

The components of `PROJECT.json` give the status of every part. Discovery,
encodings, `niralisctl`, the configuration and the creation of the socket are
sequential code without state that outlives a call. Identity, isolation,
SELinux and environment checks of the worker and the probe appear as steps that
succeed or fail; what they compare is not modelled. The D-Bus steps of the
supervisor's own recovery of a boundary are one action with three outcomes in
`SessionSupervision`, and in `StartupRecovery` the steps that end something. The
fixtures and test harnesses under `bin/` and `*_fixture*` are not modelled, as
they are not part of the running system.
