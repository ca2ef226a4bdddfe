# Verification of the OpenCode MCP bridge

The bridge lets an MCP client run coding agents ("OpenCode jobs") against a git repository.
Several bridge processes (one per client, plus a queue worker) share one SQLite state database
per repository. Everything that keeps them from damaging each other's work, or the checkout, is
in that database: path locks with leases, a job queue with owners and generations, provider
slots, pipelines, and a journal of integrations. This directory holds TLA+ models of those
protocols, TLC configurations for small instances, and TLAPS proofs for arbitrary ones.

Paths below are relative to `src/`.

## Inventory

| Component | State it keeps | Operations that change it | Interacts with |
|---|---|---|---|
| Hard path locks (`lib/locks.js`, `lib/paths.js`) | tables `locks`, `runs`; per holder a heartbeat with `lastConfirmedExpiresAt` and a fence timer | `acquireHardLock`, `releaseHardLock`, `startHardLockHeartbeat`, `quarantineHardLock`, `cleanupExpiredLocks`, `beginFinalizerValidationProtection`, `restoreFinalizerReadLease` | every job, integration, recovery, finalizer; the queue's reconciliation deletes rows |
| Containment quarantine (`lib/provider-quarantine.js`, `lib/process-table.js`) | containment evidence in `runs` and in the provider tables | reclaim of locks and provider slots whose process tree is proven gone | locks, provider leases |
| Durable queue (`lib/queue/*.js`, `server.js`) | tables `opencode_jobs`, `bridge_instances`; per process the map `QUEUE_JOBS`, abort controllers, fence timers | enqueue, plan, claim, run, record an outcome, renew, cancel, reconcile, adopt | locks, pipelines, provider leases, tools |
| Queue scheduler and retries (`lib/queue/scheduler.js`, `retry.js`) | pass-in-progress flags, capacity, provider pauses; per job `requeuedAs`, attempt counters, the outcome of a retry decision | `scheduleQueue`, `applyQueueRetryPolicy`, `requeueQueueJob` | queue, provider leases |
| Queue worker process (`lib/queue/worker-files.js`, `bin/queue-worker.js`) | the presence, stop and parked files and their transition lock; per process the tick, the drain and what it enqueued | start, takeover of a stale presence, tick, stop, park, `--add`, `--release`, `--cancel-pending` | queue; client bridges look at the files |
| Pipelines (`lib/pipelines/*.js`, `lib/pipelines.js`) | table `opencode_pipelines`: status, phase, gates, batches, finalizer lease | activation of a batch, propagation of a child's end, gates, finalization | queue, locks, integration |
| Integration (`lib/integration*.js`) | table of integration operations (the journal), backups, preview receipts, the checkout | open, apply, commit, recover, preview, integrate serially, clean up | locks (serial lock), pipelines, rollback |
| Rollback (`lib/rollback.js`) | rollback points and their use | record, apply | integration journal, locks |
| Provider leases and rate limit (`lib/provider-leases.js`, `provider-wait.js`, `rate-limit.js`) | provider slots with leases, waits, quarantines; pauses after a rate limit | acquire, renew, release, quarantine, wait, pause | queue, job execution |
| Auto integration (`lib/queue/auto-integration.js`) | `autoIntegration` of a finished row with its claim, the tables of scheduled source removals; per bridge the chain of turns | claim, preview, apply, commit, record the outcome, sweep and drain removals | queue, integration, worktrees |
| Worktrees, snapshots (`lib/worktrees.js`, `file-snapshot.js`) | table `worktree_artifacts`, the directories | reserve, create, continue, measure, release, clean up, reconcile, collect (`bin/bridge-gc.js`) | job execution, integration |
| Job execution (`lib/execute-job.js`, `opencode-run.js`) | where a job is, its lock and slot, the process tree, snapshots, changed files, verdicts | prepare, lock, set up, run, capture, gate, fix pass, judge, clean up, release | locks, queue, provider leases, worktrees |
| Lock plans, scope contracts, agent policy | none (pure checks) | none | the requests locks start from |
| Parallel calls (`lib/parallel-*.js`, `lib/tools/parallel.js`) | five barriers, a stop, the snapshots and outcomes of the members | arrive, stop, verify the group, settle | job execution |
| State database (`lib/state/*.js`) | the SQLite file, instance leases, encryption keys | open, migrate, encrypt | all |
| MCP tools (`lib/tools/*.js`) | none of their own | check arguments, call the operations above, format reports | all |
| Process supervisor (`bin/process-supervisor.js`, `lib/run-command.js`) | the supervised tree, a watchdog, control pipes on both sides | launch, heartbeat, terminate, report | job execution, provider leases |
| External runners (`lib/external-runners.js`, `lib/pi-runner.js`) | captures of the checkout and of profile files, the event stream of pi | capture, run, compare, pause | job execution, integration journal |
| Release activation (`bin/release-activate.js`) | release folders, two client configurations, a recovery file | gate, publish, activate, restore, synchronise, prune | running bridges |
| Configuration, set-up, other maintenance programs | files | install, report | all |

`PROJECT.json` lists the same components with their status. Formatting, argument checking,
encryption, git plumbing and system calls are input and output around the protocols and are
left out for good.

What is hard to test in this code:

* processes that run concurrently on one database, each step of a handler a separate
  transaction, with state read before an `await` and used after it;
* leases: a process that slept, a renewal that races a takeover, a fence that fires late;
* crashes at any point: a lock without a holder, a running row without a worker, a half-applied
  integration;
* writes whose answer is lost or ambiguous (a COMMIT that reports an error, a throw);
* outcomes that race: a result, a cancellation, a reconciliation and a sibling's failure for
  the same row;
* files that are shared without a lock: the checkout, the client configurations, the files of a
  worker, the worktrees on the disk beside the registry that describes them;
* that everything ends: a job, a lock, a wait.

What makes the components correct: conflicting paths are never worked on at the same time;
a process tree that may survive keeps its lock; an unresolved integration keeps writers out;
a job has one worker; an end is final; a cancellation wins; a batch fails as a whole; nothing
is left behind for ever.

## Modules

| Module | Models | Used by |
|---|---|---|
| `HardLocks` | lock tables, heartbeat and fence, release, quarantine, reclaim, finalizer upgrade, the journal's use of the serial lock | `MCHardLocks`, `MCLocksJournal`, `HardLocksProofs` |
| `QueueJobs` | rows and records of jobs, writes in flight, claims and workers, leases, cancellation, recovery, propagation in a batch | `MCQueueJobs`, `MCBatch`, `QueueJobsProofs` |
| `IntegrationJournal` | the apply of a patch to the checkout, its journal row, the in-process undo, recovery by any process, quarantine and its resolution, and the user who works in the same files | `MCIntegrationJournal`, `MCLocksJournal`, `IntegrationJournalProofs` |
| `AgentLife` | what a caller of `runSpawnCommand` is promised of a process tree (abstract) | `SupervisedRun` refines it |
| `SupervisedRun` | the bridge, the supervisor process, the pipes between them and the tree of one agent | `MCAgentRun`, `AgentRunProofs` |
| `ProviderSlots` | slots of a provider over all bridges, their leases, waits, pauses, limits, quarantine | `MCAgentRun`, `AgentRunProofs` |
| `ExternalRun` | the guard around agy, pi and codex, and the event stream of pi | `MCAgentRun`, `ReleaseProofs` |
| `ReleaseActivation` | two runs of `release-activate.js` over folders and client configurations | `MCAgentRun`, `ReleaseProofs` |
| `JobGroup` | a job from preparation to its report, alone or in a parallel call with its barriers | `MCCalls`, `CallsProofs` |
| `RetryChain` | the decisions of the retry policy over the chain of jobs it makes | `MCCalls`, `CallsProofs` |
| `Pipelines` | the row and the in-memory objects of a pipeline under concurrent calls | `MCBatch`, `CallsProofs` |
| `AutoIntegration` | the landing of finished jobs by several bridges | `MCBatch`, `LandingProofs` |
| `Worktrees` | the registry, the directories, the jobs in them, their removal and collection | `MCWorktrees`, `MCBatch`, `WorktreesProofs` |
| `QueueWorkers` | the files, the life and the commands of an unattended queue worker | `MCBatch`, `LandingProofs` |
| `MC*` | the small instances of the `.cfg` files | TLC |
| `HardLocksProofs`, `QueueJobsProofs`, `IntegrationJournalProofs`, `AgentRunProofs`, `ReleaseProofs`, `CallsProofs`, `LandingProofs`, `WorktreesProofs` | theorems and their proofs | TLAPS |

A definition whose comment starts with "mutant" is a plausible bug of the definition that
follows it; no action uses it. `PROJECT.json` pairs each property with a mutant it catches.

### HardLocks

A run id addresses all its rows in every statement of `lib/locks.js`, so the rows of a run are
one record: `scope` (paths, mode, whether the checkout is edited) and `exp`. `status` and
`evidence` are table `runs`. `phase`, `req`, `stop`, `confirmed` and `pulse` are the memory of
the holder. `tree` says whether a recorded process of the payload may still run, and `journal`
holds the unresolved integration operations.

* A path is a sequence of segments, so the code's path-prefix test is `IsPrefix`; normalisation
  of strings is left out.
* `acquireHardLock` reads the clock before `BEGIN IMMEDIATE`. An older clock only prunes and
  grants less, so the transaction is one action at the later clock. A refusal rolls back and is
  no step. `AcquireCommitError` is a COMMIT that reports an error although it took effect.
* A heartbeat pulse is two actions around the `await` of `openLockDb`: `PulseBegin` reads the
  clock, and `PulseRenews`, `PulseRefused` or `PulseFails` uses it.
* `Timely` separates two readings of the fence timer. When it is TRUE, the clock does not pass
  a guarded deadline before the fence has fired. When it is FALSE, the machine may sleep past
  every deadline; then a holder may work without its lock, as in the code, and only the
  properties of the tables are claimed.
* `Reclaim` is one action although the code awaits between the evidence check and the delete:
  complete evidence names every process of the tree, a process that is gone does not come back,
  and nothing else changes a quarantined row. What the evidence is complete for is the verdict
  of the process supervisor, an input here.
* A crash takes one holder with it; a bridge with several holders is several crashes.

### QueueJobs

`st`, `owner`, `gen`, `cancel`, `lease` are the columns of a row of `opencode_jobs`; `mst`,
`mgen`, `mcan`, `mrev` are the record that instance `i` keeps of job `j` in `QUEUE_JOBS`. A
write through `updateQueueRecordDurable` copies the record, awaits, runs a transaction and
assigns the copy back: `Begin` puts it in flight (`fly`, `frev`, `fcan`), and it commits, is
refused, re-takes a lapsed lease or throws in another action. `work` is the worker of a claimed
record (`startQueueRecord`), `abort` its abort controller.

* A revision is only ever compared with the one of the row, so it is abstracted to how the row
  stands to a copy: `same`, `renewed` (ahead by lease renewals only, which
  `heartbeatOnlyQueueAdvance` accepts) or `newer`.
* Expiry times are Booleans. `LapseJob` and `LapseInst` let the clock pass them where nobody
  renews, or at any moment with the event `lapse`. With `Timely` the fence has stopped the
  worker by then.
* `openLockDb` renews the lease of the instance that opens the database, so the instance
  predicate of the writes is always true at that point and is not a guard.
* `held` exists only inside the transaction of `activatePipelineBatch`, and the active statuses
  (`running`, `validating`, `reviewing`, `testing`) are treated alike everywhere: they are one.
  `not_resumable` needs a row without a request, which no modelled operation writes.
* `WriteRetakes` joins a refused write with the re-acquisition of the lease that follows it
  (two transactions of the owner; what could come between them makes the second refuse).
* `Reconcile` and `Adopt` act on one row, as the loops of the code do.
* A crash always leaves one instance alive; a restarted bridge has a new instance id and is
  another element of `Inst`.
* `cancel_opencode_job` is modelled in the process that tracks the job (`CancelBegin`, then
  `CancelPersists`, or `CancelRefused` and `CancelRetried`, or `CancelThrows`) and everywhere
  else (`DurableCancel`). `Callers` says which instances call it, `told` remembers an answer.
* The event `exhaust` stands for the attempts of a worker to write its outcome all throwing;
  the number of attempts and their delays are left out.

### IntegrationJournal

One repository, the paths a patch touches (`File`) and the processes that integrate into it.
`disk` and `git` are those paths in the checkout and in HEAD with the index. `ost`, `own`, `why`,
`pre`, `org`, `post` are the columns of a row of `integration_operations`: status, owner
generation, the reason of a quarantine, the pre-images, the recorded HEAD and index, and the patch.
`lock` is the holder of the serial lease, `pc`, `goal`, `cur`, `base`, `todo`, `aborted`, `blocked`
the memory of a process. `safe`, `want`, `unconf`, `user` are history, read by properties only.

| Code | Actions |
|---|---|
| `integratePatchSerially`, `recoverIntegrationRepositorySerially` | `AcquireIntegration`, `AcquireRecovery`, `Release`, `Unblock` |
| `recoverIntegrationOperationsWhileLocked`, `requalifyStateDriftQuarantine` | `PassNothing`, `PassQuarantined` |
| `recoverSingleIntegrationOperationWhileLocked` | `BeginRecovery`, `EvidenceLost`, `Judge`, `RestoreOne`, `RestoreFailed`, `VerifyRestore` |
| `resolveIntegrationQuarantine` | `VerifyRestored`, `AcceptCurrent` |
| `integratePatchWithoutSerialLock` | `Snapshot`, `Prepare`, `PrepareRefused`, `OwnershipLost`, `StartApply`, `VerifyApplied`, `StartValidation`, `ValidationUnconfirmed`, `ValidationEnded`, `Accept`, `Commit`, `Finally` |
| `applyPatchFileUntimed` | `CheckTarget`, `WriteOne`, `WriteFailed` |
| `rollbackVerifiedOwnedChanges` | `Undo`, `UnrollOne`, `UnrollEnd` |
| heartbeat of the lease | `Abort`, `Lapse` |
| outside the code | `Edit`, `Discard`, `GitCommit`, `GitReset`, `Crash` |

* Reads of several files that decide one transition are one step with it. Writes are one step
  per file, and `todo` holds the files a process will write without looking at them again; that is
  where the code's classify-then-restore windows are. An edit made while its file is in somebody's
  `todo` is not owed to the user (`safe` = 0): the code does not look again, and neither
  `EditsSurvive` nor its theorem covers that window.
* A content is the committed one, a patch, or a user edit numbered by its event, so no edit
  equals another content. A patch changes every path it touches.
* `git` stands for everything `integrationRecoveryBaseline` compares (HEAD, index entries): it
  differs from `org` exactly when one of them changed for an affected path.
* `Timely` separates two readings of the lease. When it is TRUE a lease outlives every step but a
  validation run, whose fence has then aborted the process. When it is FALSE a lease may lapse at
  any step without the holder noticing. With late leases the code has no guard left on some writes
  (a restore looks neither at the lease nor at the abort signal), so only the properties of the
  journal and of user edits are claimed there, and `Whole` is claimed for timely leases.
* `MaxEvents` bounds the events of the environment together; `Kinds` chooses which there are.

### SupervisedRun and AgentLife

`run`, `gate`, `sent`, `lease`, `proving`, `seen`, `verdict` are the closure of `runSpawnCommand`;
`sup`, `watchdog`, `reason` that of `createSupervisor`; `stdin` and `events` the two pipes between
them; `child` and `desc` the direct child and one descendant, which may leave the process group
or keep the stdio pipes. Either program may die at any step, on either platform.

* A control message is a step when it is written and another when it is read. `MaxControl` bounds
  the messages in a pipe: a heartbeat waits above it.
* Killing a tree is its outcome per member (`KillChild`, `KillDesc`, `TerminatePosix`,
  `TerminateWindows`); whether a kill or a probe works is a choice.
* `AgentLife` is what the callers rely on: a tree starts at most once, a result is given at most
  once, and a result without `processTreeUnconfirmed` is given only for a tree that is gone and
  stays gone. `KeepsItsWord` is `Life!LifeSpec`, where `Life` is the instance of `AgentLife` that
  maps `tree` to the child and the descendant and `result` to `verdict`: the detailed program
  implements the abstract one.

### ProviderSlots

A slot is a row per run with an expiry (`row`), next to the memory of its holder (`job`,
`confirmed`, `pulse`) and the life of its agent (`live`). Pauses and strikes are keyed by provider or
model, limits are the environment's, an operator's or the global cap. A transaction of
`waitForProviderLease` is one step at the clock it reads; a renewal is two steps around its await.
The promises of `AgentLife` and the watchdog of `SupervisedRun` are its assumptions about the agent.

### ExternalRun, ReleaseActivation, JobGroup, RetryChain

* `ExternalRun` keeps who wrote each file of the target last; a capture reads all files in one step,
  and integrations (announced in the journal), other clients (announcing nothing) and the runner
  write between the captures. `pi` is what the program does, `heard` what its event stream said
  before it was cut off.
* `ReleaseActivation` has one place per read, write or command of the program, two runs in the
  modes of `MCModes`, edits of the config and the tree, new bridges, crashes and failing commands.
  `late`, `blink` and `overlap` remember that an edit or another run fell in a gap the code names as open
  ("The remaining gap is the instant between that read and the rename", line 542).
* `JobGroup` has a phase per await of `executeOpenCodeJob`, the five barriers as sets of arrivals, and
  per tree the files changed in it. A single job is a group whose other members are over. Routing
  and plan checks are one verdict.
* `RetryChain` has the rows of one chain with their counters; a decision reads, waits for the
  dead process's agent, enqueues, records, each a step that a crash may cut off. A model is its index
  in the policy.

### Pipelines

`row` is the row of `opencode_pipelines`, `heap` the record objects calls hold, `runs` the map
`PIPELINE_RUNS` of a bridge. A call is a sequence of steps (`call[c].pc`): read or reuse the record,
lock, write under the revision check, refuse or retry. The scenario (`plan`) lists the calls of a
behaviour: run, get, integrate, abandon, finalize, recover, at one of two bridges; edits, crashes
and slept leases happen between them. `promised`, `permitted` and `torn` are history; `torn` says that
a claim or a refused write brought a record object in use to the row's revision without the row's items.

### AutoIntegration

`record` is `autoIntegration` of a row with its claim; `turn` is the running turn of the chain of
a bridge, with what it has read; `checkout`, `head`, `copy` are the job's path in the target, in the
commit and in its worktree; `task` is the table of scheduled removals. The scenarios (`AiScenarios`)
fix which jobs run where and how often each event happens.

### Worktrees

`reg` is `worktree_artifacts`, `tree` and `content` the disk, `step` and `mem` the handler of each
job, `land` an integration or cleanup that holds the serial lock, `gc` a run of `bridge-gc.js`. A
reservation, a git command, a measurement, a reading of the disk are steps of their own. `adopted`
marks a worktree that met the race of `worktree_lost`, and the properties except it; `WorkingRegistered`
excepts only the job that continues in such a worktree, its creator stays covered. That this
property and `SourceSettled` need the exception came out of the proof: without it the invariant is not
inductive, and TLC shows the violation in scenes with two events.

### QueueWorkers

`presence`, `aside`, `stop`, `parked` are the files, `mutex` the holder of
`withQueueWorkerTransition`, `worker` the memory of each process, `line` the row of each job of the
enqueued files, `cli` a command in progress, `bridge` a client bridge's recovery pass. Heartbeat
ages are three classes (`nap`): fresh, over two minutes, over ten. A refresh is two steps, open and
write, and a takeover is three, judge, rename, compare, because the code keeps no lock on the file
against a sleeper that wakes between them.

Bounds: `MaxGen` (owner generations of a job: how often it is adopted), in `HardLocks` `MaxTime`, in
`IntegrationJournal` `MaxEvents`, in `SupervisedRun` `RunEnd` and `MaxControl`, in `ProviderSlots`
`SlotEnd` and `MaxMeddling`, in `JobGroup` `MaxWrites`, in `RetryChain` `MaxJobs`, `MaxRequeues`
and `MaxDrops`, in `ReleaseActivation` `MaxTouches` and `MaxFaults`, in `Pipelines` `PlMaxEvents`,
in `Worktrees` `WtMaxWork`, in `QueueWorkers` `MaxFaults` and `MaxCalls`. `Events`, `Callers`, `Kinds`
and the scenario constants (`PlScenarios`, `AiScenarios`, `WtScenarios`, `RunModes`, `Acting`)
choose what happens in a behaviour.

## Runs

Parts that share no state are checked in one run as a sum: a variable or the initial state says
which part moves in a behaviour, and the others keep a fixed state (`AtRest`). The states checked
are the sum of the parts' states, never their product. `MCBatch` has five such parts (`moving` is
`queue`, `pipeline`, `landing`, `worktree` or `worker`), `MCAgentRun` four, `MCCalls` and
`MCLocksJournal` two.

Several properties are conjunctions of named ones, each stated and commented in its module, so that
a run's list stays short. The table gives the conjuncts.

| Run | Instance | Checks |
|---|---|---|
| `locks_sleepy` | two runs; finalizer, reading job, manual writer, integration; clock to 4; timers may be late; fairness | `TypeOK`, `TableExclusion`, `ValidationExclusive`, `JournalExcludesWriters`, `QuarantineEndsProven`, `LocksEnd` |
| `leases` | locks: two runs of worktree writer, checkout writer on two paths, integration, recovery, clock to 5, timers on time. Journal: two processes, two operations on one file, one edit, leases that lapse at any step | `FencedExclusion`; `LapsedLeasesHarmless` = `OneOpen`, `EditsSurvive` |
| `queue_sleepy` | two instances, one job, two generations; lapses, throws, exhausted attempts, throwing cancellations; late timers | `TypeOK`, `OneWorker`, `LockFreed`, `TerminalStable`, `CancellationWins` |
| `queue_live` | two instances, a batch of one job, three generations, abandoned workers; fairness | `JobsEnd` |
| `journal_timely` | two processes, one operation on two files; three events of every kind; timely leases; fairness | `TypeOK`, `Whole`, `EditsSurvive`, `ResolvedFinal`, `QuarantineKept`, `Recovers` (`Settles`, `Unblocks`) |
| `agent_run` | slots: two runs, one provider of two in a quota group, clock to 4. Supervision: clock to 3, both platforms, fairness. External runner: one declared and one other file. Releases: six pairs of modes | `SlotsHeld` (`SlotTypeOK`, `RunningHoldsSlot`, `QuarantineHolds`), `AgentCovered` (`RunTypeOK`, `WithinLease`), `SlotsCount` (`GrantCountsAgents`, `PauseOnlyGrows`), `KeepsItsWord` (refinement of `AgentLife`), `NobodyWaits` (`OrphanStopped`, `RunSettles`), `GuardHonest` (`CleanIsChecked`, `PauseNotForBridge`, `FinalIsDone`), `ConfigSound` (`EditsKept`, `PinsArePublished`, `EntryRecoverable`), `ReleasesKept` (`GatedOnly`, `LiveExists`, `InUseKept`) |
| `calls` | groups of two members, one gated, alone or together, isolated or not; chains of four jobs, two bridges or a bridge and an operator, three budgets; fairness | `GroupSound` (`AcceptedIsOwn`, `SuccessAccounted`, `BaselineClean`, `LiveTreeHeld`, `OutputKept`), `ChainBounded` (`OneSuccessor`, `WithinBudget`), `CallsEnd` (`GroupEnds`, `DecisionSettles`) |
| `queue_batch` | a batch of two jobs over two instances; pipelines with one item, two bridges, six scenarios; landings of two jobs by two bridges, nine scenarios; worktrees of three jobs, ten scenarios; two workers, one line, one fault, one command | `BatchFailsTogether`, `WorkingOwns`; `SourcesKept` (`RemovedIsPermitted`, `OneCleaner`), `RowRespected` (`NoLateApply`, `AbandonedKept`, `IntegratedStays`, `JudgedAsApplied`); `LandedByOne` (`OneLander`, `CommittedLanded`), `LandsReviewedWork` (`OutcomeStays`, `LandsReviewed`, `RemovedLanded`); `ClaimsHold` (`OneUser`, `ClaimStands`, `WorkingRegistered`, `SourceSettled`, `BaseCurrent`), `RemovalsSafe` (`NotPulledAway`, `WorkKept`); `WorkersKeepOrder` (`PresenceHeld`, `StopHeld`, `RefusedLeavesNothing`, `BridgeKeepsOff`) |
| `queue_cancel_lost` | local cancellation; nothing fails | finds `CancelLands` violated |
| `queue_phantom` | lapsing leases | finds `RunningHasWorker` violated |
| `journal_stray` | two processes, one operation, one abort | finds `UnconfirmedHeld` violated |
| `worktree_lost` | two writers that start together, one that continues, one commit | finds `CreatorsFinish` violated |

Why the bounds are enough to be interesting: all the lock rules are about pairs of runs; a
clock of 4 or 5 with a lease of 2 lets one run be granted, renewed, expire and be overtaken by the
other; one path set has a directory, a file in it, the whole repository and an unrelated file,
so every case of the overlap test occurs. In the queue two instances and two generations let a
job be owned, lost, adopted and written to by the old owner; more generations repeat that.
The batch has two children because propagation looks at one child and the rest. The journal
needs two files for a half-written patch and a half-done restore, and three events for a crash,
a second crash or failure in the recovery of the first, and an edit or a commit between them;
two operations (in `leases`) for a late process that meets the next integration.
Two runs on one slot let one wait, be granted and meet the other's expired or quarantined row. A
supervised run needs a lease longer than a message's way through the pipe and a clock that
passes the watchdog. Two members give every order of arrival at a barrier; one of them gated gives
early captures. Two bridges decide, land, finalize and collect against each other; a third repeats
the second. The scenarios of `MCScenarios`, `MCLandings` and `MCScenes` pair every two operations
whose handlers overlap in the code, each with the events that can fall between their steps; three
jobs give a creator, one that continues and one that reconciles. One fault and one command in
`QueueWorkers` are enough for each of the races its comments name.
Deadlock checking is off: a queue whose jobs ended, a clock at its bound and a repository with no
operation left to open may stop.

`queue_batch` and `queue_live` run without local cancellation (`Callers = {}`) and without
lapsing leases, because with them the properties fail for reasons the findings below
name: a cancellation's late write can overtake its worker's outcome, which then reads as an
interruption; and a record loaded from a foreign row keeps this process from reconciling it.

### Fairness

`LocksEnd` assumes weak fairness of the clock, of the fence timer, of a stopped holder's way
out (`finally` blocks), of the finalizer's steps, of the exit of a killed process tree and of
the periodic reclaim. Nothing is assumed of a holder that works happily: it may renew for ever.

`JobsEnd` assumes weak fairness of what timers repeat (heartbeat, expiry, recovery), of the
database answering a write, and of the steps of worker and tool. Three actions have strong
fairness per record: planning, claiming and an execution that ends with something else than
another wait. Each waits for the outside world (a free capacity, a lock held by another job, an
agent that finishes), is tried again by every scheduler pass, and may be disabled in between by
a renewal or a blocked state; the assumption is that the world does not refuse for ever. It is
stated per record because the scheduler visits every record of a pass.

`Recovers` (`Settles` and `Unblocks`) assumes weak fairness of each process's next step (it runs or has
crashed), of the expiry of a lease nobody renews, of the deferred pass that drops stale writer
blocks in each process, and of the periodic recovery in *some* process: the timer of
`server.js` runs in every bridge, and one that goes on is enough. Nothing is assumed of the
operator: a quarantine may stay.

`NobodyWaits` assumes weak fairness of what an event loop does when something is there to be done:
the supervisor reads its stdin, watches its child, finishes a termination it began and fires its
timers; the bridge handles the events and fallback timers of a run and settles the identity it
began to persist; the clock moves. Nothing is assumed of the agent, of either program's survival or
of a heartbeat.

`CallsEnd` assumes weak fairness of a group as a whole (some member, the preparation or the group
check goes on): an agent ends by its own time limit, a lock wait by its maximum. For retries it
assumes weak fairness of the policy as a whole: begun decisions, the recovery pass of some bridge
and the end of a process left behind. `DropDecision` and jobs that fail are bounded, not fair.

The parts in `queue_batch` are checked for safety only.

## Findings

* **A cancellation can be lost in the owning process** (`queue_cancel_lost`).
  `cancel_opencode_job` marks the shared record and awaits its write. A write of the scheduler
  or of the worker copied before the mark commits meanwhile and `Object.assign(record,
  candidate)` (`lib/queue/store.js:1001`) puts the old fields back; the tool then persists a
  record without a cancellation and reports success.
* **A running record without a worker** (`queue_phantom`). The scheduler ignores the result of
  the write that blocks a record for a conflict (`lib/queue/scheduler.js:250`). If another
  process took the row over and started it, the refusal loads the foreign running row into the
  record; it counts against the capacity, nothing ends it, and this process will never
  reconcile it.

* **An unconfirmed validation tree loses its quarantine** (`journal_stray`). When the lease
  expires during validation, the branch that quarantines the operation
  (`lib/integration-apply.js:780`) needs that lease to write the row. All attempts are refused,
  the row stays `validating`, and the next recovery pass of any bridge rolls the checkout back
  while the tree may still write it.

* **A worktree is taken from its creator** (`worktree_lost`). Between the registration of a new
  worktree and `git worktree add` its row has no directory. A reconciliation by another job marks it
  cleaned (`lib/worktrees.js:404`), a third job adopts the directory under its basename, and a
  continuation claims it while its creator works there, although `claimRetainedWorktree` says that
  "Fresh writers register retained at creation too; they must finish before continuation".

Two windows are left open by the code and excluded from the properties as described above: a file
edited between its classification and its restore is overwritten (`docs/REFERENCE.md:681` says
only bytes that still match are rolled back), and a restore that stalls past its lease goes on.

Two smaller observations that no documentation contradicts: a cancellation whose write throws
leaves the record marked in memory while the row stays pending; and
`failPersistedQueueStartupRecovery` records `failed` for an unreadable request even when its
cancellation was requested, which is why `CancellationWins` speaks of started jobs.

### Observations

Races seen while modelling for which no property is kept, because no documentation promises more
or because the code names the gap itself. Where a property would be violated by one of them, the
module excepts exactly that case, in a definition with a comment.

Retries: an automatic requeue that repeats another one and would pick another model is refused with
`queue_idempotency_conflict`, and the decision is recorded as given up although the job has a
successor (`giveUp` in `lib/queue/retry.js`).

Release activation (`overlap`, `late`): two runs past their write at once may restore or prune what
the other activated, also by a rename that overwrites the other's restore; the clean-up of a failed
candidate does not look for running bridges; two Claude synchronisations that overlap and crash may
leave no entry; an edit of the staged tree that is undone again is not seen.

Pipelines: the policy rejection of a finalizer (`lib/pipelines/finalize.js:700`) can write over an
abandonment; an abandonment during the recovery of a failed clean-up, or while a finalizer is past
its claim, does not keep the sources, and `cancelled` becomes `completed` (`CleanupUnderWay`,
`ReopenedUnderWay`, `Promise`); a second integration of the same item that is refused for a lock
conflict puts the item back to `pending`, and a later one can reopen a pipeline after its clean-up was
authorized, which a recovery under way then completes without new gates (`Doubled`); of two starts of
one pipeline, the one that cannot prepare its children writes `failed` over what the other began
(`StartedTwice`); a late integration result writes
`awaiting_finalization` over `finalizing` (`lib/tools/integration.js:228`), after which a second finalizer
may work beside a recovery pass of its bridge that had claimed the failed clean-up before
(`OneCleaner`). A refused write copies the
row's revision, owner and generation into the record object and not its items
(`lib/pipelines/store.js:514`), and so does a claim (`:200`), so the next write through that object is
accepted and stores the items it had read before, although `:490` says that two callers do not
overwrite each other (`torn`). About one state in sixty of the run is past such a point, and the
parts of `RowRespected` hold there too; to lose an update takes a bridge that loses a pipeline and takes
it again while an older call of it still runs, more lapses than the one of a scenario.

Auto integration: a claim older than 30 minutes is taken over even from a live process, against the
comment at `lib/queue/auto-integration.js:235` (`aged` in `OneLander`); a commit by others between
the comparison of the files and the first reading of HEAD is not noticed; a file that came into HEAD
with other content ends as `failed` and not, as `:216` says, as `skipped_not_new_files`, because the
three-way check passes on an add/add conflict; a failed commit still schedules the removal of
the source once the whole target holds its files.

Worktrees: `removeEmptyRetryWorktree` (`lib/queue/retry.js:87`) looks at no claim and may remove a
worktree another job just claimed (not modelled); a bridge that comes up after the collector's last
look (`gc.woken`) loses the tree of a job it starts, and the collector does not look at the row
again; an edit during the single git command between the last look and the removal is lost.

Queue workers: a taker that dies between the rename and the create leaves a foreign stop file
that makes a later `--stop` throw; Ctrl+C in a worker that lost its presence writes the stop of
the new owner, the second one with `--now`; a stop for a worker asleep over ten minutes is removed by
the taker, and when that one leaves first the sleeper goes on without it (`slept` = 2 in `StopHeld`);
a failing write of the stop file drains without parking; a second refresh that fails at start-up
refuses without cancelling the rows of the file (`bin/queue-worker.js:687`); a kill in the middle of
`--enqueue` leaves a part of the file unparked; `--release` checks and removes in two steps.

## Proofs

TLAPS proves the theorems for every value of the constants that satisfies the assumptions named in
the components' modules: any sets of runs, paths, processes, instances, jobs, bridges, members, files
and releases, any scenario, any bound, and of the times only their order (`0 < Guard < Ttl < MaxTime`
for locks, `GuardMs < SlotLeaseMs` for slots). The assumptions say no more than that: bounds are
numbers, some sets are finite, the names the code reserves (`nobody`, the integrator that is no
bridge, a release no run made) are no element of a set of actors, and a scenario's parts fit together.
TLC evaluates each of them in the runs.

All safety proofs have one shape: an inductive invariant, first checked by TLC on the instances of the
runs or larger ones, that the initial states establish and every action keeps; the properties follow
from it, an action property together with the step it speaks of.

`HardLocksProofs`:

* `TypeCorrect`, then `Exclusion` (`TableExclusion`). The property is not inductive alone: the
  finalizer changes the mode of its row, so one must know that rows carry the paths their
  holder asked for, that a quarantine is the last thing a holder does, and that only the
  finalizer upgrades. That is `HolderInv`. A renewal may use an old clock because an expired row
  that is still in the table excluded every conflicting grant.
* `QuarantineIsHeld`, `ValidationIsExclusive`, `JournalBlocksWriters` and
  `QuarantineEndsOnlyProven` follow from the same invariant, with the journal's ownership check.
* `WorkingImpliesOwning` (`BelieverOwns`) rests on `FenceInv`: a working holder's confirmed
  expiry is the one in the table, still ahead, at most a lease away, and a pulse in flight only
  moves it forward. `HoldersExclude` (`FencedExclusion`) combines it with `Exclusion`.

`QueueJobsProofs`:

* `TypeCorrect`, then `QueueInvariant`. `OneWorker` is not inductive alone: a claim in one
  process could meet a worker in another. `QueueInv` adds that until its row ends a worker's row
  is running and its own under the record's generation (`WorkerOk`), and that a held lock has a
  worker that frees it or an owner that died (`LockOk`). A takeover needs a row that never
  started, so it cannot meet a worker; a claim needs the row in a state before running.
* `SingleWorker`, `LocksAreFreed` are parts of it. `OutcomesAreFinal` (`TerminalStable`) and
  `CancellationPrevails` (`CancellationWins`) are action properties: `RowStep` shows for every
  action that it leaves an ended row and a requested cancellation alone.
* `BatchEndsTogether` adds what `Finish` does to the siblings (`FinishKeepsBatch`).
* `WorkingImpliesOwning` (`WorkingOwns`) is inductive with `QueueInv`, by `Fenced`: the lease of
  a worker that was not stopped cannot lapse when the fence is on time, and without a lapse
  nobody ends, adopts or reconciles its row.

`IntegrationJournalProofs` (any number of processes, operations, files, patches and events, timely
leases or not, but for `CheckoutIsWhole`). The inductive invariant `IInv` (`JournalInvariant`) has five parts:

* `ProcOk`, `RowOk`, `ContentOk`: types, and that a process that works on a row has one. With them
  `TypeCorrect`. `ContentOk` says that contents are numbered no higher than the events so far, so
  that a new edit differs from everything recorded.
* `JournalInv`: `OneOpen` is not inductive alone, because `prepareIntegrationOperation` looks for
  quarantined rows and not for open ones. It needs that a lock holder on its way to a new row has
  seen none open and that nobody else can open one meanwhile. With it `OneOperationOpen`.
* `EditInv`: `EditsSurvive` is not inductive alone. An edit owed to the user is not in any
  process's `todo`, and equals no snapshot, no HEAD and no recorded HEAD, so none of the
  comparisons that precede a write can succeed on it. With it `EditsAreKept`, and with both
  `LapsesDoNoHarm` (`LapsedLeasesHarmless`): no lease on time is assumed.
* `MoveStep` says what a step may do to one row. `ResolutionIsFinal` (`ResolvedFinal`) and
  `QuarantineIsKept` (`QuarantineKept`) follow.
* `CheckoutIsWhole` (`Whole`) assumes `Timely` and adds `WholeInv` to `IInv`. `HolderActs`: a process
  that acts holds the lock, but for one whose lease lapsed in its aborted validation, which changes
  nothing any more (`LateLeaves`). `HolderKnows`: the row the holder works on is the open one, and
  what it compared still holds while nobody else writes. `FilesKnown`: the open row's pre-image is the
  content the last outcome left, so whichever process ends the row, and by whichever of the commit,
  the undo and the recovery, ends it with the checkout in a content that was accounted for. No
  step in between says anything of the half-written files: the comparison before each ending does.

`AgentRunProofs` (`ProviderSlots` and `SupervisedRun`):

* `SlotInvariant`, then `SlotsCoverAgents` (`SlotsHeld`) and `SlotsCountAgents` (`SlotsCount`). That a
  running agent has a live row is not inductive alone: a renewal that read an old clock could shorten
  the lease. `SlotInv` adds that a pulse in flight only ever extends what was confirmed
  (`PulseExtends`), and that the row of a run is what its holder last confirmed, also when its
  bridge is lost (`OwnsRow`); the fence fires before the clock passes the guard. `SlotsCount` needs
  the cardinality of the rows: every counted agent is in the set a grant compares with the limit.
* `RunInvariant`, then `LeaseCoversAgent` (`AgentCovered`). `RunInv` says that whatever
  stands in a pipe is true when it is read: an exit event in it means that the supervisor is done and
  the tree, if it said so, is gone (`PipesSound`), that a contained verdict is given only when the
  supervisor starts nothing any more (`TreeSound`), and that the supervisor's watchdog ends
  within the lease (`LeaseSound`).
* `KeepsPromise` (`KeepsItsWord`): the refinement of `AgentLife`. The initial states map to its initial
  state, and each action to a step of it or to a stutter, from `RunInv`.

`ReleaseProofs` (`ExternalRun` and `ReleaseActivation`):

* `VerdictsHonest` (`GuardHonest`). `ExternalInv` adds what is known at each position of the run: no
  capture before the start shows a write of the runner, a folder survives only a failed run, and
  a file the bridge wrote after the first capture has a journal row (`GuardSound`), which is why a
  pause cannot come from the bridge's own write.
* `ConfigSurvives` (`ConfigSound`) and `ReleasesAreKept` (`ReleasesKept`) share `RelInv`. Its parts: a
  published release is the tree that was tested (`RunSound`), or the tree moved in the instant the
  code names; a text that names a release names one that a run published, with its pin (`Names`,
  `TextSound`); two runs are past their write at once only if `overlap` says so (`Alone`); the release
  a text could bring to life is on the disk (`DiskSound`, `UseSound`); Claude Code's entry is on the
  disk or in the recovery file (`EntrySound`).

`CallsProofs` (`JobGroup`, `RetryChain` and `Pipelines`):

* `CallsReportTheirOwn` (`GroupSound`). `GroupInv` adds that no agent runs before all snapshots
  of its group are taken (`SetUpFirst`), that an agent that may be alive keeps its lock and its tree
  (`AgentHeld`), that what a tree holds was written by a member that works in it (`DiskIsWritten`), and
  where the evaluation of each member stands (`Judged`). `SuccessAccounted` is `AcceptedIsOwn` with
  `DiskIsWritten`.
* `ChainsAreBounded` (`ChainBounded`). `WithinBudget` needs that each automatic requeue is counted once
  and in a count that has a limit (`Counted`), that the rows form one chain (`Linked`), and that a
  decision read earlier still holds of its job when it is carried out (`StillDue`).
* `PipelineSourcesKept` (`SourcesKept`), for any bridges, items, calls and events. `PlInv` says of every
  version of the row, the stored one and those in memory, that it asks only for items whose patch is in
  the checkout and names only sources a user permitted (`PlHonest`): a removal goes by some such version,
  however old it is. `OneCleaner` needs that versions of one generation have one owner (`PlFenced`) and that
  a bridge runs one finalizer and one recovery of a pipeline at a time (`PlAlone`). The proof refuted an
  earlier statement that set a finalizer against a recovery pass too (see Observations).
* `PipelineRowRespected` (`RowRespected`), under the same parameters. `PlOrder` adds to `PlInv`: until
  `torn`, a record object in use at the row's revision has the row's content (`Synced`), so a write the
  row accepts goes by what the row says; none is ahead of the row (`Revisions`), and a call that has not
  claimed shares its object with nobody (`ObjectsApart`); an item counts as integrated only when
  the journal committed it (`RecordsSound`); what each position of a call has behind it (`Placed`); that
  the row holds the reservation of a patch being applied (`ApplyHolds`), stays `cancelled` while an
  abandonment's promise holds (`PromiseHolds`), and that nobody disturbs a recovery's clean-up through
  its object (`CleanHolds`). The actions fall into four classes, each with one lemma: a turn that
  leaves the row alone (`Orderly`), the world (`WorldMoves`), an object brought to the row's revision
  (`Shifts`), an accepted write (`Publishes`). The proof refuted earlier statements: the exceptions
  `torn` and `StartedTwice`, and the one of `JudgedAsApplied`, come from it (see Observations).

`LandingProofs` (`AutoIntegration` and `QueueWorkers`):

* `JobsLandOnce` (`LandedByOne`) and `ReviewedWorkLands` (`LandsReviewedWork`). `AiInv` says that a
  job is in one place of a bridge (`Placed`), what a bridge has compared at each position of its turn
  (`Staged`), that the jobs of a turn are claimed by it or by a bridge that took over a claim half an
  hour old (`ClaimKept`), and what a record and a scheduled removal say of the target (`ClaimsSound`,
  `TargetSound`). The step that moves HEAD is safe because the number of commits it compares has not
  changed since the base was read.
* `WorkersOrder` (`WorkersKeepOrder`), for any workers, lines and files, and any number of naps, kills
  and commands. `PresenceHeld` is not inductive alone: `WorkersInv` adds that while a transition runs
  every registered worker has slept ten minutes (`HoldsFile`, `MutexOk`), that nothing names a worker
  before its file is there (`Unnamed`), that the lines a starting worker added are pending and its own,
  or closed, unless its lease lapsed (`KeepsLines`), and that what a stop left behind is parked, or its
  worker is about to park it (`OwedOk`). One lemma covers a worker that only works on (`WorksOn`),
  one the steps that touch a file another worker might hold (`FilesStep`).

`WorktreesProofs` (`Worktrees`): `WorktreeInvariant`, then `ClaimsAlwaysHold` (`ClaimsHold`) and
`RemovalsAreSafe` (`RemovalsSafe`). `WtInv` ties the step of each job to its directory, its row and
its content: a creator's row names it and its directory is clean until it works (`CreatorOk`); one that
continues a worktree holds its row alone, and its creator ended (`FollowerOk`, `OneFollows`); what a
stored removal, an integration or a collection takes belongs to a job that ended and holds what was
integrated (`RemovalOk`, `LandingOk`, `CollectionOk`). The exceptions for `adopted` come from this proof.

The proofs are hierarchical: one step per action, then one per conjunct the action can
disturb, with lemmas for what an operator does to one row or one record (`FinishFacts`,
`CancelRowFacts`, `WorkerKept`, `LockKept`, `NoNewWorker`).

`BelieverOwns` (`WorkingImpliesOwning`), `QuarantineHeld` and the inductive invariants are proved without a
run that lists them: they are lemmas of properties that have one. The run `leases` checks
`LapsedLeasesHarmless` of an instance of `IntegrationJournal` (`Operations`); `LapsesDoNoHarm` proves it in the
module itself, for both values of `Timely`.

Only model-checked, on the instances above: the liveness properties `LocksEnd`, `JobsEnd`, `Recovers`,
`NobodyWaits` and `CallsEnd` (fairness and `ENABLED` are out of the prover's reach).

## Plan

Every safety property of the runs has a theorem. What is left is breadth: record objects of a
pipeline that two bridges take from each other more than once (the scenarios of `Pipelines` have one
lapse; the theorems have any number), the pruning of old rows, and lock plans (below).

### Not modelled

* Lock plans, scope contracts, agent policy, routing and attestation: pure functions of a request,
  without state; the models start from what they let through, or refuse at will.
* State encryption, schema migration, formatting, redaction, result texts, argument checks, logging,
  configuration, set-up and installation, the read-only maintenance programs: input and output.
* The contents of patches, git plumbing, file hashing and the parsing of agent output: content is what
  the properties tell apart, and an operation's outcome is a choice.
* The order of a scheduler pass, its capacity and memory gate: a record may be passed over at any
  pass, which includes every order; that no record starves is not claimed.
* The memory-only queue, the pruning of old rows, preview receipts, and the removal of an empty
  worktree before a retry.
* Leases that lapse under a running handler in `Worktrees` and `Pipelines` beyond the events listed
  there: those modules assume what `HardLocks` and `QueueJobs` show of leases on time.
