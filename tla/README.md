# Verification of Aptus in TLA+

Aptus plans, generates, validates and runs fine-tuning jobs on one local
accelerator.  Most of the program computes documents (plans, bundles, reports)
from facts.  A smaller part coordinates processes and files that outlive them:
it decides which job may use the GPU, what a persisted record says about a
process that may be gone, and what a project looks like after an interrupted
save.  That part is what this project models, checks and proves.

Paths below are relative to the root of the repository (`src/aptus/...`).

## 1. The system

| Component | State it keeps | Operations | Interacts with |
| --- | --- | --- | --- |
| managed job service (`execution.py`) | job records, one file each; the host-global lease file; permit files; `_threads`, `_processes` of the service object | submit, get, list, cancel, validation_guard, the worker `_run`, recovery at start | child processes by signals and the permit file; other services by the lease, the records and two file locks |
| portable GPU lease (`runtime_lease.py`, carried by every bundle) | the same lease file; a token in the environment | create or borrow the lease, run a child under it, give it back | nested bundle programs; the managed service |
| project repository (`projects.py`, `local_store.py`) | per project a manifest, revision files and a transaction receipt; one current-project pointer | create, create_revision, record_plan, recover, get, list, current, and the recovery that every read performs | HTTP API, under one repository lock |
| train attestation and reports (`execution.py`, `validation.py`, `attestation.py`) | `validation-report.json` of a bundle | the ladder static, dependencies, model, pilot, measured run; promotion by the parent | the worker, reconciliation, portable runs |
| HTTP API (`api.py`) | the current plan and bundle of the workspace | one handler per route, optimistic revision checks | all of the above |
| planning, contracts, policies (`planning.py`, `plan_contract.py`, `model_compatibility.py`, `policy_snapshot.py`, ...) | none | pure functions | API, generation |
| bundle generation, inspection, profiling | none that outlives a call | write a fresh directory, probe the host | API, command line |
| web workbench (`web/src`) | view state | polling, commands | HTTP API |
| macOS host (`desktop/macos/Sources`) | the service process, what is known of its descendants, the shutdown under way and who waits for it | start, health, retry, quit, crash of the service, escalation | the service by signals and HTTP; the window and the application by callbacks |
| CUDA campaign: the managed run (`tools/cuda_campaign/harness.py`, `outcomes.py`, `contracts.py`, `qualification.py`) | the event ledger of one run, what it knows of the job under way, the marker that blocks further submissions | start telemetry, submit, poll, drain boundaries, cancel, qualify, seal or fall back | the job service, the child's boundary journal, the telemetry session |
| CUDA campaign: telemetry session (`sidecar.py`, `monitoring.py`) | samples, heartbeat, safety events, failure codes, the first stop signal | start, sample, beat, poll for a signal, settle, stop | two threads and the harness, by one state lock and one safety lock |
| CUDA campaign: custody and publication (`cli.py`, `storage.py`, `eligibility.py`, `publication.py`, `admission.py`, `sanitizer.py`) | sealed artifacts and their copies, an operation journal, append-only receipts, a sealed candidate, a public directory | copy-seal, retrieve, resume-operation, seal a candidate, publish | what the managed run sealed; other commands by the lock of the receipt store |

What is hard about it:

* **Concurrency.** Several services may run on a host, two of them on one state
  root.  A job is served by a submitting call, a worker thread and cancelling
  calls; pollers reconcile records without the lease lock.
* **Crashes.** A service may vanish between any two writes.  Its child does not:
  it runs in a session of its own.
* **Ordering.** Record, lease binding and permit are three writes; the five
  writes of a save are another sequence; recovery of several interrupted saves
  may happen in any order.
* **Partial failure.** A process group may survive SIGKILL; the read that ends
  `submit()` may fail when the worker runs already; a receipt may be unreadable;
  the root of the desktop's service may die before its descendants.
* **Callbacks.** In the macOS host timers, health answers, termination notices and
  completions arrive on the main queue, some of them about a launch that is gone.
* **Watching what does not answer.** The campaign harness supervises a job through
  a service that may be slow, wrong or silent, on the word of two threads that
  watch the host and each other and may themselves die or hang.
* **Resumption.** A custody command may be interrupted between its journal, the
  bytes it copies and its receipt, and is resumed after others went on.

What makes each component correct:

* job service: one GPU child on the host; the lease always names it; one active
  record per root; a terminal record describes a child that stopped; completed
  means verified and promoted; cancelled means not promoted; every job ends.
* portable lease: one GPU action among portable and managed ones; whoever uses
  the GPU is visible in the lease; a lease is given back.
* project repository: a read leaves the same result whoever performs it and
  however often it is interrupted; acknowledged saves survive; what was rejected
  stays out; the current project is the one that was chosen last.
* macOS host: no live process of the service is ever forgotten; two launches never
  overlap; what the window shows belongs to the current launch; nothing forks
  between the last look and the kill; a request to quit is always answered.
* managed campaign run: what it records of a job is what became of the job; a job
  that may be alive is watched or blocks every further submission; what may be
  published is whole; the run ends.
* telemetry session: no alarm without its cause; a healthy capture has no hole; a
  thread that is stuck is noticed by another; start and stop return.
* custody and publication: a receipt says what its operation found and stands where
  its intent said; no directory counts as two copies; what is public is backed by
  two copies, a retrieval and no suspension.

The full list of hazards, each at its line, is in `PROJECT.json`.

## 2. Modules

### JobService, with GpuSlot and RunStates

`JobService.tla` models the managed service.  Its variables and the code:

| Variable | In the code |
| --- | --- |
| `rec[j]` | the record of job j: `state`, `owner_pid`, whether the child's start and finish were recorded, `return_code`, `completion_verification_started_at`, `verified_pending_evidence` |
| `lease` | `job_id`, `owner_pid`, `process_pid` of the lease file |
| `stage[j]`, `code[j]` | the process group of the child: launcher, action, descendants only, gone; its exit status |
| `permit` | the permit files |
| `sub`, `wpc`, `cpc` | where the submitting call, the worker `_run` and a cancelling call are |
| `owned[j]` | `_threads` and `_processes` of the owner |
| `glock`, `slock` | the locks |
| `promoted` | reports with a parent promotion |
| `snap[j]` | the record that the failed end of a submission has read |

One action is one write, or one section under a lock with one write; sections
that write several files are several actions that keep the lock, so that a
crash, the child or a lock-free reader comes between the writes.  The worker's
program points follow `_run` from the top: `RunBegin`, `RunSpawn`,
`RunRegister`, `RunBind`, `RunPermit`, `RunStop`, `RunWait`, `RunFinish`,
`RunTree`, `RunAuthorize`, `RunVerify`, `RunPend`, `RunPromote`, `RunFinal`,
`RunClear`, the exception handler `Except...`, and `RunExit`.

`glock` stands for the host lease lock together with the records lock of the
holder's root, because every holder of the former takes the latter inside it.
Pollers (`get`, `list`) take only the service lock and the records lock: they
are excluded by holders on their own root only.  The service lock is reentrant
and held by `submit` across its callback, hence `slock`.

The constant `SubmitFaults` says whether the files may fail under the end of a
submission: the `get()` that returns the record raises, `cancel()` may raise too
before it writes anything, the second reading may fail (`HandoffSnapshot` then
takes the queued record that `submit` still holds), and of what
`_fail_persisted_submission` writes, the record and the lease, either may stay
unwritten (`FailedSubmission`).  `sub[j] = "failed"` is a job that its submission
gave up in this way, whose worker and child may go on.

`GpuSlot.tla` is the promise of the lease to the host, a slot that is handed
over only when empty.  `RunStates.tla` is the promise of a record to its
readers, the lifecycle of `docs/reference/run-states.md`.  `JobService` is
shown to implement both (`ImplementsSlot`, `ImplementsLifecycle`).

### PortableLease

Bundle programs as a tree of processes: `validate.py` over `preflight.py` over
`train.py` probes, and `run.py` over `train.py`.  A program with children goes
through `Create` or `Borrow`, then for each child `Check`, `Spawn`, `Bind`,
`Wait`, `Restore`, and ends with `Leave`; a failure goes through `Abort`.  A
program without children checks the lease (`Require`) and uses the GPU.  Of the
managed service only the operations on the lease are kept, with its different
rule for what is stale (`ManagedStale` beside `LeaseLive`).

### ProjectRepository, with RevisionHistory

Files as variables (`health`, `index`, `rejected`, `updated` for the manifest,
`file` and `body` for revisions, `receipt`, `pointer`), and `op` for the method
that holds the repository lock.  One write of one file is one step, and
`Interrupt` ends a method between any two.  Recovery is written as it is in the
code, in four phases that every read of a manifest goes through: indexed
revisions, the pending receipt, orphans, the pointer.  What a file tells is
derived from its state at each step, so a recovery that is interrupted and
started again needs no memory.  `Harm` and the actions below it damage files from
outside between two methods.

`Outcome(p)` defines at once what a complete read makes of the files;
`RevisionHistory.tla` is what the repository promises about it: history grows by
whole saves and keeps every one that returned.  `ImplementsHistory` maps
`history` to `Outcome`, so that a save counts from the write of its revision
file on, whoever completes it.

### BackendController

The macOS host of the service.  `ctl` is the object: its fields, and the blocks
that wait on the main queue (`state` and exit notices, health answers,
completions).  The methods are operators on that record that keep the source's
names (`Fail`, `BeginShutdown`, `Cleanup`, `FinishShutdown`, ...), or, where they
signal processes, actions (`Stop`, `Start`, `EvaluateShutdown`); the actions call
them the way the handlers do.  A handler is one step, except for
`evaluateShutdown`, which suspends, searches, kills and looks again while the
processes run on (`Freeze`, `Scan`, `ForceTerminate`, `Deadline`), and for the
block that calls several completions (`Call`).

`st` holds the processes: a launch is a chain, each started by the one before it.
They fork and exit at any time and die of SIGKILL when the kernel likes, or never;
one that has lost its parent cannot be found from the root.  `seen` is a history
variable, the live processes that the controller has ever captured: a process
that was born and orphaned between two looks is beyond what the code can know,
and the properties do not speak of it.  `ui` and `pending` are the two callers:
`MainWindowController` (which shows Retry only on a failure) and
`ApplicationTerminationCoordinator`.

### CampaignRun

One managed sequence of `CaptureHarness` (`_run_managed_sequence_locked`), from the
first row of its ledger to what it leaves on disk.  `pc` follows the harness thread:
`StartTelemetry`; for each action `BeginAction`, `PreSubmit`, `Submit` (`Handoff` where
its end fails, that is the end of `JobService.submit` and what the harness makes of its
`JobSubmissionFailure`), `OpenReader`, then the poll `GetJob`, `Drain` and one of
`JobEnded`, `PollAgain`, `DecideStop` (with `Cancel`), then `Finalize` and `Record`;
after the actions `Cooldown`, `StopTelemetry`, `Qualify`, `Native`, `FinishLedger`,
`Profile`, `Seal`, or `Fallback`.  An exception that no handler on the way catches is
`Raise` with `CleanUp`.

`job`, `child`, `journal` and `deadline` are what goes on beside it: the service
of `execution.py` as this harness sees it, the child that journals its
boundaries, and the clock.  A job is `stranded` when its record stays queued without
a worker, and `disowned` when the record says failed and a worker will register its
child all the same.  `act.cur` is the answer of the last poll, and whether
it can be trusted; `act.drained` is how much of the journal has been copied.

`ledger` is a sequence of rows, an event with its action, outcome and reason.
Time stamps are kept as order: what the code asks of them is whether a row is
older than a signal or a boundary (`late`, `sig.at`).  The validators that read
the ledger again (`validate_event_ledger`, `validate_managed_sequence_outcome`,
`evaluate_passing_qualification`) are the operators `LedgerValid`,
`OutcomeValid` and `Qualifies`.

### TelemetrySidecar

The session of `sidecar.py` with the evaluator it feeds, `SafetyStateMachine` of
`monitoring.py`.  Three threads: the harness `h` (start, `safety_signal`,
settle, stop), the collector `c` and the watchdog `w`.  What a thread has read
and not used yet is kept in its record, so that another thread may act between
the reading and the judgement (`Poll`, `Look`, `Health`, `RecordHealth`;
`Observe`, `LookAtWatchdog`, `AppendSample`, `ObserveSample`, `RecordSample`).

A time stamp is kept as its age in ticks, capped just above the limit it is
compared with.  One tick is the sampling interval, and none passes between the
reading of a clock and its use, nor between the reading of the stop time and the
end (nothing asks for the time of day again).  `quiet` is a history variable, the
longest silence of the collector, which the properties compare with what the
session claims.  Of a sample is kept what the evaluator asks of it: when it was
taken, how old the heartbeat was, what the run had lost, and whether it shows a
reason to stop; the sustained limits are one such reason.

### EvidenceVault, with CustodyLog

The commands `copy-seal`, `retrieve` and `resume-operation` of `cli.py` over the
receipt store of `storage.py`, and the way from the receipts to a public directory
(`eligibility.py`, `publication.py`).

| Variable | In the code |
| --- | --- |
| `content[d]` | a destination directory: absent, equal to the sealed source, or anything else |
| `journal[o]` | the intent file of an operation with the chain it pins, and its outcome file |
| `chain`, `torn` | the receipts in the order of their predecessors; a receipt file that ends halfway |
| `cmd` | the command that holds the lock of the store, and what it has found out |
| `candidate`, `public` | the chain that the sealed candidate binds; the chain behind what is public |

A command holds the lock from its first look at the journal to its end, so there is
one `cmd`, and a step ends at each file that is written: `Begin`, `CreateDestination`,
`Fill` (or `RetrievalFails`), `WriteOutcome`, `AppendReceipt`; `Reconcile`, `Resume` and
`Check` are the ways through `_cmd_resume_operation`.  `Stop` ends a command between
any two of them, `TearReceipt` inside the last, `Alter` changes a directory and
`CleanUp` removes one.  `_publish_candidate_locked` is `Judge`, `Commit`, `Confirm` and
`Rollback`.  What an operation id asks for is a constant, `Asked`, because a command
that repeats an id with other arguments is refused.

`CustodyLog.tla` is what the chain promises to its readers: a log with one entry per
operation, in which whoever enters a pass has found the bytes equal without letting
go of the log.  `cmd.seen` is the history variable behind `ImplementsCustody`.

## 3. What is checked

All runs: `tlc -workers 2 -config <cfg> <module>`.  Deadlock is not checked in
any of them, because the systems may stop: services are not obliged to start,
users not obliged to submit, and identities and revisions are bounded.

| Run (cfg) | Question | Bounds | Result |
| --- | --- | --- | --- |
| `JobService_safety` | records, lease and child agree under crashes and surviving groups | services a, b on one root, c on another; two train jobs; 472 000 states | holds |
| `JobService_handoff` | whose lease and record can be lost when the end of `submit` fails? | service a; two train jobs; faults of submissions and of terminations; 1.6 million states | holds |
| `JobService_live` | jobs end, orphans are settled, the lease is freed | a, b on one root; two jobs; 166 000 states | holds |
| `PortableLease_pass` | nested programs and a managed job share the lease | six programs, one job; 116 000 states | holds |
| `PortableLease_interrupt` | Ctrl-C in the outermost program | the same | violation, finding 1 |
| `ProjectRepository_damage` | recovery is deterministic and complete, and loses nothing | one project, three revisions, two damages; 874 000 states | holds |
| `ProjectRepository_crash` | history and pointer over several projects | two projects, three revisions, one damage to a receipt or the pointer; 274 000 states | holds |
| `BackendController_pass` | containment, what is shown, answers | a launch of three processes and a replacement of one; one health request each; 355 000 states | holds |
| `CampaignRun_pass` | verdicts, the marker and the artifact agree with the job; the run ends | preflight, pilot and train; one fault of ten kinds; 572 000 states | holds |
| `TelemetrySidecar_pass` | alarms are true, a healthy capture is whole, stuck threads are seen, calls return | limits of 1, 2 and 1 ticks; one fault of six kinds; 523 000 states | holds |
| `TelemetrySidecar_stop` | is an orderly stop clean? | no fault; 30 000 states | violation, finding 2 |
| `EvidenceVault_pass` | receipts, copies and what is public agree, however commands are interrupted | three copies, two retrievals, one control receipt of each kind; two faults; 1.2 million states | holds |

Why the bounds are enough to be interesting: two jobs are needed for any overlap, and a
third only repeats the second; three services give a restart on one root and a foreign
root.  `Train` contains both jobs in the safety runs, so every completion goes through
verification and promotion; the live run has none, because promotion changes nothing
about progress.  The safety and the live run have no submission faults, because with
them alone their properties fail (first of the further observations); the handoff run
has every fault, with one service, whose two jobs are enough for one submission to harm
the job of the other; the theorem behind it holds for any number of services.  Three
revisions give a chain, a rival and a revision after a recovery; two damages hit, for
instance, a receipt and then a manifest that was restored from a backup.  A chain of
three has a process whose parent is neither the root nor alive, and forks during a
rescan; it never uses up the eight rescans of the code, which is the business of
`FrozenWhenKilled` and its hypothesis; the replacement needs no descendants, since
`OneLaunch` and `ReadyIsCurrent` are about the first meeting the second.  The campaign
run has all three actions, because the boundaries of pilot and train are journaled by
different children and a pass needs both; one fault is enough for every path that
differs (what fails at the end of a submission, the read, the cancellation and the
write, counts as one), and the proofs hold for any number.  The limits of the sidecar
run are the smallest that differ from each other: a silence that spoils a capture is
shorter than one that stops the run.  In the vault two copies name one directory, two
have one copy id on and off the host, and two retrievals read the same copy: the
smallest instance in which a directory could count twice, a pass be revoked and a
candidate reach the public; two faults interrupt one command and its resumption, or one
command and what it left behind.

A run checks the properties that say most about its question.  `GpuExclusive` follows
from `LeaseCoversChild` and is what `ImplementsSlot` says step by step; it is a theorem
and has no run of its own.  `TypeOK` is a theorem of the modules that
have proofs, except `CampaignRun`; it holds on the same instances and is left out of
the configurations, as is `SubmitsUnblocked`, which is proved.

Symmetry is used in runs whose properties are invariants or action properties
and whose constants are interchangeable; never in the live run.

### Fairness

`JobService!Fairness`: worker threads, calls that have begun and child steps are
scheduled; every child ends (the code waits without a timeout, so a child that
never ends is a job that never ends); a client polls.  Starting, crashing,
submitting, cancelling and failures get no fairness.  `OwnedJobEnds` and
`OrphanedRecordEnds` are stated without termination faults: a group that
survives SIGKILL is left to the operator by design.
`PortableLease!Fairness`: programs run and their work ends.
`BackendController!Fairness`: deadlines pass, timers fire and the main queue is
served.  No process is obliged to exit, not even after SIGKILL, no health request
to be answered, no button to be pressed: `QuitAnswered` and `StartSettles` rest on
the deadlines alone.

`CampaignRun!Fairness`: the harness thread runs and the deadline passes.  No child
is obliged to end, no worker to write its record and no signal to trip: `RunEnds`
rests on the deadline of the supervision.
`TelemetrySidecar!FairSpec`: each thread that is not stuck runs, a harness with a
session polls it and ends a stop it began, and time passes (strong fairness of
`Tick`, which is disabled again and again while a reading is held).  Nothing makes
the harness stop, and a thread that hangs hangs for ever.

### Findings

1. *Ctrl-C in a nested portable validation gives the lease back while a probe
   runs* (`PortableLease_interrupt`).  Every level launches its child in a session
   of its own, and an interrupt terminates one level only.
2. *An orderly stop may record a dead collector* (`TelemetrySidecar_stop`).  The
   watchdog, past its look at the stop flag, finds that the collector has obeyed
   it, and records a stop event in a capture that is healthy; the qualification
   then refuses the run for that event.

### Further observations

The modules state properties that TLC refutes on the instances above.
They have no configuration here; each is seen by checking the property, with the
constants given, under `Spec`.

* `JobService!GpuExclusive` (services a and c, `SubmitFaults` alone): the read that
  ends `submit` fails, `cancel()` raises for the same reason, and the second reading
  finds the job running.  `_fail_persisted_submission` clears its lease
  (`execution.py:3899`) and writes "failed" beside the child, and a second job is
  admitted while it runs, against "V0.2 runs one local GPU job at a time across all
  state roots" (`execution.py:3158`) and
  `docs/architecture/execution-orchestrator.md:55-59`.  `LeaseCoversChild` and
  `TerminalMeansStopped` fail in the same way, also where `cancel()` answers but
  could not confirm that the group stopped.  `HandoffLossConfined` is what holds.
* `JobService!TerminalIsFinal` (services a and c, `SubmitFaults`): the failed end of a
  submission overwrites a terminal record with a snapshot it read before it took the
  locks of the write (`execution.py:4147-4166`), or with the queued record in memory,
  and the registration of the worker makes a failed record "running" again;
  `docs/reference/run-states.md` calls such records terminal.
* A record that a failed submission could not write stays queued, and its lease may
  stay, until the service that owns it ends (`SubmitFail`).  `OwnedJobEnds` and
  `LeaseFreed` are therefore stated without submission faults.
* `CampaignRun`, after a submission that failed at its end: the harness records
  "failed" and writes no marker (`harness.py:2263-2297`), whatever the record says.
  The job may be active still, because the failed snapshot was not written or because
  the worker registers its child over it, and it may be completed
  (`execution.py:4138`, `4149`).  TLC reaches the end of a run beside a running job
  without the marker, and the record of a completed job as failed.
  `docs/operations/cuda-empirical-campaign.md:366-368` asks for more, "If ownership,
  termination, or lease reconciliation is uncertain, seal the incomplete attempt and
  block all further submissions"; the test of this path
  (`tests/tools/test_cuda_campaign_harness.py:2273-2276`) has a record that did end.
  `NoUnwatchedJob` and `VerdictMatchesJob` name this case as their one exception, and
  say that such a run is never valid evidence.
* `ProjectRepository!LastChoiceStands` (two projects, three revisions, no damage):
  recovery stamps the pointer with its own time (`projects.py:642`), and a later
  choice whose save was interrupted too then loses against that stamp.
* `BackendController!QuitMeansGone` (the constants of the run): a retry and a
  request to quit that wait for the same shutdown are answered by one block; the
  retry's completion launches a new service, and the quit's lets the application
  terminate beside it (`BackendController.swift:607`).
* `CampaignRun!SealedOrBlocked` (`MaxFaults = 0`): the export fails, the run is
  stopped before `training.finished` is written, and the cancelled outcome leaves
  `training.started` open; the validation of the ledger in `_finish_ledger`
  (called at `harness.py:3907`) raises outside every handler, so that the run
  leaves neither an artifact, nor the fallback, nor the marker, against
  `docs/operations/cuda-empirical-campaign.md:527-532`.
* `TelemetrySidecar!CleanStop` also fails in a second way: a probe that completes
  between the reading of the stop time and the setting of the flag leaves a sample
  that lies after the stop, and the capture is rejected as a whole.

Two things about the vault are no property of it.  A process that dies while it
writes a receipt leaves a file that ends halfway (`storage.py:5338`); every later read
of the chain refuses it, and no command removes it, so that the store is closed until
an operator does (`TearReceipt`; the safety properties hold, but no operation can be
promised to end).  And a retrieval names its source by copy id: the path it reads is
verified to be the artifact, but not to be the directory that was attested under
that id.

Exploring `BackendController` showed one more thing, which no run states because
no document speaks of it.  Retry during the shutdown that a failure caused shows
"Starting" at once (`MainWindowController.swift:96`); if that shutdown times out,
`reportShutdownTimeout` assigns no state (`BackendController.swift:557`), so the
window hears nothing and offers no second Retry, although the controller would
accept one.

## 4. What is proved

With TLAPS, for every set of services, roots and jobs, those marked * if the files hold
out under the end of every submission (`~SubmitFaults`):

| Theorem | Module | Statement |
| --- | --- | --- |
| `TypeCorrect` | `GpuExclusion_proofs` | `Spec => []TypeOK` |
| `InductiveInvariant` | `GpuExclusion_proofs` | `Spec => []IInv` |
| `LeaseCovers` * | `GpuExclusion_proofs` | `Spec => []LeaseCoversChild` |
| `OneGpuChild` * | `GpuExclusion_proofs` | `Spec => []GpuExclusive` |
| `SlotRefinement` * | `GpuExclusion_proofs` | `Spec => ImplementsSlot` |
| `RecordsInvariant` | `JobRecords_proofs` | `Spec => []RecordsInv` |
| `LossConfined` | `JobRecords_proofs` | `Spec => []HandoffLossConfined` |
| `TerminalStopped` * | `JobRecords_proofs` | `Spec => []TerminalMeansStopped` |
| `CompletedPromoted` | `JobRecords_proofs` | `Spec => []CompletedMeansPromoted` |
| `CancelledUnpromoted` | `JobRecords_proofs` | `Spec => []CancelledMeansUnpromoted` |
| `LifecycleRefinement` * | `JobRecords_proofs` | `Spec => ImplementsLifecycle` |
| `OneActive` * | `JobRecords_proofs` | `Spec => []OneActiveRecordPerRoot` |
| `TerminalFinal` * | `JobRecords_proofs` | `Spec => TerminalIsFinal` |

for every prefix of the actions, every set of faults and any number of them:

| Theorem | Module | Statement |
| --- | --- | --- |
| `RunInvariant` | `CampaignRun_proofs` | `Spec => []RunInv` |
| `VerdictIsTrue` | `CampaignRun_proofs` | `Spec => []VerdictMatchesJob` |
| `JobIsWatched` | `CampaignRun_proofs` | `Spec => []NoUnwatchedJob` |
| `BlockedMeansNoSubmit` | `CampaignRun_proofs` | `Spec => SubmitsUnblocked` |
| `PublishedIsWhole` | `CampaignRun_proofs` | `Spec => []PublishableMeansWhole` |
| `QualifiedIsAccepted` | `CampaignRun_proofs` | `Spec => []PassIsAccepted` |

for any number of launches, of descendants of each, of health requests and of rescans,
the last one if `ShallowTrees` holds:

| Theorem | Module | Statement |
| --- | --- | --- |
| `ControllerInvariant` | `BackendController_proofs` | `Spec => []BInv` |
| `TypeCorrect` | `BackendController_proofs` | `Spec => []TypeOK` |
| `NothingIsForgotten` | `BackendController_proofs` | `Spec => []NothingForgotten` |
| `OneLaunchAtATime` | `BackendController_proofs` | `Spec => []OneLaunch` |
| `SessionIsCurrent` | `BackendController_proofs` | `Spec => []ReadyIsCurrent` |
| `FrozenWhenKilled` | `BackendController_proofs` | `Spec => []FrozenBeforeKill` |

and for all limits with `QualGap < GapStop`, every set of faults and any number of
them:

| Theorem | Module | Statement |
| --- | --- | --- |
| `SessionTypes` | `TelemetrySidecar_proofs` | `Spec => []TypeOK` |
| `HealthyIsWhole` | `TelemetrySidecar_proofs` | `Spec => []CaptureIsWhole` |
| `AlarmsAreTrue` | `TelemetrySidecar_proofs` | `Spec => []AlarmIsTrue` |

and for all operations, whatever they ask for and however often they are interrupted:

| Theorem | Module | Statement |
| --- | --- | --- |
| `TypeCorrect` | `EvidenceVault_proofs` | `Spec => []TypeOK` |
| `Founded` | `EvidenceVault_proofs` | `Spec => []ReceiptsAreFounded` |
| `OnePerDirectory` | `EvidenceVault_proofs` | `Spec => []OneAttestationPerDirectory` |
| `Redundant` | `EvidenceVault_proofs` | `Spec => []PublicIsRedundant` |
| `CustodyImplemented` | `EvidenceVault_proofs` | `Spec => ImplementsCustody` |

and for any number of bundles and managed jobs on a host, if `BundleTree` and
`OrderlyFaults` hold:

| Theorem | Module | Statement |
| --- | --- | --- |
| `LeaseInvariant` | `PortableLease_proofs` | `Spec => []PInv` |
| `TypeCorrect` | `PortableLease_proofs` | `Spec => []TypeOK` |
| `OneAction` | `PortableLease_proofs` | `Spec => []OneGpuAction` |
| `UseIsVisible` | `PortableLease_proofs` | `Spec => []GpuUseIsVisible` |
| `PortableImplementsSlot` | `PortableLease_proofs` | `Spec => Slot!Spec` |

and for any projects, any number of revisions and damages of any kind, the last two
if `NoRollback` and `SlightOnly` hold:

| Theorem | Module | Statement |
| --- | --- | --- |
| `RepositoryInvariant` | `ProjectRepository_proofs` | `Spec => []RInv` |
| `TypeCorrect` | `ProjectRepository_proofs` | `Spec => []TypeOK` |
| `RejectedStay` | `ProjectRepository_proofs` | `Spec => []RejectedStaysOut` |
| `PointerIsLatest` | `ProjectRepository_proofs` | `Spec => []PointerFollows` |
| `ReadsSettle` | `ProjectRepository_proofs` | `Spec => []ReadSettles` |
| `AckedStay` | `ProjectRepository_proofs` | `Spec => []AckedSurvives` |
| `RecoveryKeeps` | `ProjectRepository_proofs` | `Spec => RecoveryKeepsOutcome` |
| `SelectionAdvances` | `ProjectRepository_proofs` | `Spec => SelectionNeverGoesBack` |
| `HistoryImplemented` | `ProjectRepository_proofs` | `Spec => ImplementsHistory` |

All of these rest on `ConstantsAssumption`; termination faults are allowed in every one.
Submission faults are allowed where there is no mark: types, both inductive invariants,
`LossConfined`, `CompletedPromoted` and `CancelledUnpromoted`.  The marked theorems are
false with them, as the first two of the further observations show: a submission that
fails at its end writes "failed" over a record whose worker goes on, clears the lease of
a child that runs, and lets another job be submitted in between.

Neither `GpuExclusive` nor `LeaseCoversChild` is inductive: that a child is
covered says nothing about why nobody will clear the lease.  `IInv` adds what
each program point knows:

* `LiveInv`: a call or worker in progress belongs to a service that lives;
* `LockInv`: who is inside a section, and that only one call is;
* `SubmitInv`: before the worker exists nothing of the job runs;
* `ChildInv`: no permit before the binding, no child after the worker saw the
  group gone;
* `CoverInv`: a child that has its permit, or whose worker is about to write it,
  is named by the lease and bound to it, or its own submission gave it up;
* `MapInv`, `RecordInv`: what the maps of the service and the record, or the snapshot
  of it, say of the child;
* `FaultInv`: a job is given up only under `SubmitFaults`.

Each conjunct has a lemma for its preservation, with one case per group of
actions.  A lease is reclaimed only when stale; with `CoverInv` the lease of a
hot child is never stale, whatever the record says, because the child itself is
bound to it.  `IInv` was checked by TLC on the instances above before it was
proved.

`RecordsInv` adds to `IInv` what the records say.  `Sound(j)` is, per job:

* `Stopping`: a record becomes terminal after its child and the worker that would
  launch it, or its submission gave the job up; a child that may run and was not given
  up was recorded as launched;
* `Cancelling`: a canceller inside its section has the record to itself;
* `Verified`: once verification is recorded no cancellation is accepted, and only a
  worker that promoted its job completes a successful train job;
* `Promoted`: a promoted job is past every cancellation, or its owner is dead;
* `Completed`: nothing writes a completed record again.

"Its owner is dead" must stay true while services start, which is `OriginInv`: an
owner was started once, and a restart is another service.  Without submission faults
`Ordered(j)` holds too: the worker finds its record in the state it left it in, or
cancelled, and evidence is recorded in "running" alone, so that a reconciliation
completes only records that were running.  With it every step is an arrow of
`RunStates`.  `ServiceEffects` says once what the steps of a service do to any
record, `OtherJobs` that the step of a job leaves the others alone; the rest is
about one job.

`BInv` of the supervisor has two halves.  `Core` is about processes: whatever is
owned or aimed at descends from the launch in `process`, a shutdown under way aims
at everything that is owned, and each live process that was seen is held.  `Flags`
is about the fields: a shutdown has a context exactly where the code relies on one
(`intentional` with a process, `polling`), and "starting" and "ready" have none.  The
methods call each other in many combinations, so there is one lemma per method
(`CaptureFacts`, `FinishFacts`, `BeginFacts`, `FailFacts`, `StopFacts`, `StartFacts`, ...)
about any record of fields, and the lemma of a handler applies those of the methods it
calls.  `CleanupFacts` is where the question is decided: it needs that nothing that is held
lives, and whoever calls it has to show that.  Forgetting is impossible because
a live target outlives every path but the one on which all are gone.  TLC checked
`BInv` on the instance of the run first.

`FInv` is the other invariant of the supervisor, about the tree that is killed.  Between
two handlers the targets of a forced shutdown are `Frozen`: nothing below them lives
outside of them, and none of them can fork.  It stays so because only a process that
nobody stopped forks, and a death or a signal brings nobody to life; the methods that do
not look at the forced part leave it alone (`Settled`, one lemma per method).  Getting
there is a matter of counting: each rescan that found something added a process of the
one launch, so that with `ShallowTrees` (a launch has no more descendants than there are
rescans) the last rescan finds nothing.  With a deeper tree it may, and the code kills
all the same; the loop `for _ in 0 ..< 8` has no other exit.

`RunInv` of the campaign run says what its properties leave out, the way there:
`AnswerInv`, that a terminal answer that is trusted is the state of the job, since a job
that ended does not change; `BlockInv`, that the marker is absent at every point from
which an action can still be submitted, and that no pass is recorded behind it;
`WatchInv`, that a job which is not over is known until its result is recorded and
blocks from then on, unless its submission failed at its end, which leaves a result
without evidence; `CaptureInv`, that no evidence is valid before it is judged.
`SealInv` follows the run from its last result to the seal: the job stays completed, the
session is stopped and can raise no further signal, and whoever seals had the outcome
accepted.  That the ledger has every boundary is then what the validator of the outcome
itself asks of a pass.

`PassInv` is the converse: what qualifies is accepted.  It says at each point what the
ledger of a run without a failure holds: no row of a signal and one observed pass for
each action that ended (`Tidy`), and results that repeat what was observed of their job
(`ResultsInv`).  What qualified has every boundary (`WholeOrder`): the places of the
runtime events in the ledger, read in their order, give `Order` (`Reads`).  As many places
as boundaries, each at its own rank, leave none of either out (`ReadsAll`, by counting);
so no start is left open, and neither `LedgerValid` nor `OutcomeValid` finds anything to
object to.  The ledger is taken apart with `Places` and `Reads`, sets of indices, because
the provers know nothing of `SelectSeq`.  TLC checked `PassInv` on all states of the run
`campaign` before it was proved.

`CaptureInv` of the session connects the faults with what is left of them:
`TraceInv`, that a thread which failed left its code and one that hangs is still
alive; `JoinedInv`, that after the joins whoever is alive is a failure; and that a
silence longer than the qualifying gap is either behind the last sample or
already counted between two.  `AlarmInv` adds what the readings of a thread that
has not judged them yet still mean (`ReadInv`: the dead stay dead and the lost
stays lost), what every recorded event means (`EventsInv`), and that the
evaluator's last sample is no older than the last one kept (`LastInv`).  It holds
until somebody sets the stop flag, and finding 2 shows why not longer.

`VaultInv` of the vault is about what is remembered between two commands.
`JournalInv`: the part of the chain that an intent pins holds, for a retrieval, an
off-host pass of its source as the last word and, for a copy, nobody who attested the
same directory.  It cannot change, since the pinned part does not; and it is true when
the intent is written because a directory that was attested is never absent
(`KeptInv`) while a new destination is.  `FoundedInv` ties each receipt to its
intent, and `CmdInv` says what the holder of the lock has behind it at each point; of
two receipts for one directory the later would have had the earlier in its pin.
`PublicIsRedundant` follows at the moment of the rename and then from the fact that
the chain only grows.  `KeptInv` rests on an assumption about the operators, that
copies which were attested are retained (`CleanUp`); altering them is allowed.

`PInv` of the portable lease says what the lease is to each kind of program.  A
program that launches GPU programs (`preflight.py`, `run.py`: a `Runner`) holds the
lease and is bound to it, or has bound its child, from the check before the launch
until the child is gone; a GPU program that uses the GPU has such a launcher, which
waits for it.  The program above (`validate.py`) holds the lease from its own check
until the one below has borrowed it.  The token in the environment proves nothing by
itself, since it outlives the lease: what counts is that whoever could take the lease
for free sees a live process in it.  The two hypotheses:

* `BundleTree`: a program that launches and is launched belongs to a shell's program
  that launches nothing else (`validate.py` runs `preflight.py`; `preflight.py` and
  `run.py` run `train.py`).  The argument goes by kinds of program, and these are all
  that a bundle has; any number of such trees may run.
* `OrderlyFaults`: whoever watches a GPU program is not killed, and Ctrl-C reaches a
  launcher of GPU programs, not one above it.  Beyond it the lease is lost: finding 1
  is the case of Ctrl-C in `validate.py`, and a `run.py` that is killed between the
  launch of `train.py` and its binding leaves a child that nothing names.  Killing
  `validate.py`, or the GPU programs themselves, is allowed, and so is any failure.

`RInv` of the repository says what every file may hold at every point where a method
may have been interrupted.  `ProjectOf`: an index is a history, each revision at its
ordinal and with its parent before it.  `ReceiptOf` is what decides: a receipt that was
left names the revision that follows those which it counted, the index holds these or
fewer or these and the revision, and a revision is rejected in spite of its readable
receipt only where the index lost some of what the receipt counted.  `Stage` says how
far a read has got, `Saving` that the revision being written is the newest, is known to
its receipt alone, and comes to the end of the index; `AckedOf` that a saved revision
is in the index and whole up to its ordinal, or was hit.  There are lemmas for what a
step makes of each kind of file (`IndexStep`, `FileSteps`, `ReceiptStep`, `RejectedStep`,
`HealthStep`, `PhaseStep`), and one for each conjunct of `RInv`, which uses those.
`ReadsSettle` and `AckedStay` then compare the files with `Outcome`, which is not
defined by the phases of the recovery.  Orphans are adopted by a recursive function;
what it returns (`AdoptedIs`: the sequence, extended by orphans to a history) is proved
by induction on its argument, by way of the least number that fails.  `RInv` and the
invariant behind the selection were checked by TLC, with one and two projects and all
kinds of damage, before they were proved.

`SelectionAdvances` needs `NoRollback`: no revision file is damaged and no manifest
replaced by an older one.  Where one is, the recovery that shortens the index dates the
manifest later than its latest revision, and the fallback of `current()`, which compares
these dates, may select a project that was saved earlier.  Damage to a receipt, to the
pointer, a manifest that cannot be read and revisions that appear from elsewhere are
allowed; the run has the first two.

`RecoveryKeeps` compares two values of the recursive function, before and after a step.
It rests on `OutcomeTold`: what a read shows is a function of the history it starts from
(`Base`: the readable part of the index, and the revision of a receipt that fits) and of
the orphans it considers (`Rest`), and of nothing else.  There is then a lemma for each
write of a recovery and of a save.  A recovery does change `Base` and `Rest`: it moves a
revision from one to the other, and what is to be shown is that the adoption would have
taken it first, or never.

`HistoryImplemented` needs `SlightOnly`: receipts and the pointer may be damaged, as in
the run, but no revision and no manifest, and no revision comes from elsewhere
(`RecoveryKeeps` and `AckedStay` say what is kept otherwise).  `HInv` then says that at
most one revision is outside the index, that of the last save, and that it follows the
index (`Strays`); what a read shows is the index and, if nothing speaks against it, this
revision (`ShownAre`).  A save is then the step of the history that adds it, and a
rejection the step that withdraws it, which is possible only before the save has
returned.  `HInv` was checked by TLC on two projects before it was proved.

Model-checked only:

* all liveness, which is out of the prover's reach: `OwnedJobEnds`,
  `OrphanedRecordEnds`, `LeaseFreed`, `RunEnds`, `StuckThreadIsSeen`,
  `SessionCallsReturn`, `QuitAnswered` and `StartSettles`.

Every other property of a passing run is stated by a theorem.

## 5. What is not modelled

* `JobService`: pid reuse (identities are exact; without a start time the code falls
  back to the bare pid, `execution.py:2970`), Windows, corrupted record and lease files.
  Reads and writes fail at the end of a submission only: failed disk writes inside the
  worker, in a cancellation somebody else asked for and in a reconciliation are left
  out, and so are the timing fields and their
  validation, the pilot gate's own probe processes, the contents of reports.
  A crash while admission or recovery settles *several* orphans is modelled
  between two records by the polling actions, which settle one at a time.
* `PortableLease`: more than one user and Windows.  A `run.py` that is killed in the
  moment between the launch of `train.py` and its binding leaves a child that nothing
  names; the `Killable` set of the run (`validate.py`, `train.py`) leaves this out.
* `ProjectRepository`: names, facts and plans inside revisions, the audit fields
  of the manifest, the import of the pre-project workspace, the rehash of bundles
  before a recovery.  Creation times are taken as increasing.
* `BackendController`: the signal to terminate (a process may exit at any time); the
  time between SIGSTOP and its effect (a process that was suspended no longer forks,
  while one that was killed may live on for as long as the kernel likes);
  a root that the kernel no longer shows while Foundation still says it runs
  (`forceTerminateRoot`), survivors that refuse signals for lack of permission,
  the paths and the log, which live and die with `process`.  A retry's signal and
  the evaluation that follows it are one step.  After the application is gone
  nothing moves.
* `CampaignRun`: direct runs (without the job service), the payloads and their
  digests, wall time, the retry of an append to the ledger (it is in memory), and
  whatever reads the artifact later.  The job service is the few transitions that
  the harness can tell apart; it is not composed with `JobService`.  What the child of
  a record that says failed does is not followed, since nobody reads it.
* `TelemetrySidecar`: warnings (nothing acts on them), the window of a sustained
  limit (one more reason to stop), the coverage ratio, failing clocks and sleeps,
  the readiness of production probes.
* `EvidenceVault`: times (cadences, deadlines, the order of stamps), the restoration
  and the withdrawal of a claim, roles, the evidence outside the repository, the
  completion file (it repeats outcome and receipt), journal files that end halfway
  (their operation is refused from then on, which is one that is never resumed), and
  how `RawArtifactWriter` seals an artifact in the first place.  Sanitizer and
  admission are documents that are validated.
* The remaining components of section 1, for the reasons in `PROJECT.json`.

## 6. Plan

Done: (1) `JobService` with both abstract specifications and the proofs of all its
safety properties; (2) `PortableLease`; (3) `ProjectRepository` with `RevisionHistory`;
(4) `BackendController`, (5) `CampaignRun`, (6) `TelemetrySidecar` and (7)
`EvidenceVault` with `CustodyLog`, each with proofs.

Open, in this order:

8. `ReportLadder`: the validation report of a bundle between validation, worker,
   child and reconciliation under the report lock, with idempotent promotion by
   receipt; abstract: a report state never claims more than the evidence under it.
9. `LeaseReader`: the lock-free snapshot of `campaign_lease_active` over the
   lease operations; abstract: never inactive while a child runs.
10. `JobApi`: submission with the recording of the project revision, composing
   `JobService` and `ProjectRepository` at their interfaces.
11. The composition of `CampaignRun` with `TelemetrySidecar`, in which the
   session's stop boundary meets the ledger's last row.
12. `PlanRanking` and `JobTiming`: pure definitions checked against references.
13. Time in the vault: cadences, and the restoration of a claim.

Proofs to come: those of the modules above, as they are written.
