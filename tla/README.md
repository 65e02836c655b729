# TLA+ models of dspy-trainer

dspy-trainer imports DSPy modules, evaluates and optimizes them, builds an
immutable Docker image for each validated revision, and serves endpoints from
containers of those images.  This directory models the parts of it in which
several processes change shared state: the image queue of the deployer and the
child process that builds, the rollout of an image to an endpoint and the calls
of that endpoint, the evaluation and optimization jobs of the workers, and the
synchronization of a module with its branch.  TLC checks small instances.  TLAPS
proves, for every instance, the invariants and action properties of every module
and that the image queue implements its abstract specification; liveness is left
to TLC.

- [1. The system](#1-the-system) — inventory of components
- [2. Modules](#2-modules) — what models what
- [3. Runs](#3-runs) — what is checked, bounds, fairness
- [4. Proofs](#4-proofs)
- [5. Where the code departs from what it says](#5-where-the-code-departs-from-what-it-says)
- [6. What is not modelled](#6-what-is-not-modelled)
- [7. Plan](#7-plan)

Paths are relative to `src/`; `services.py`, `revision_image_*.py`,
`endpoint_container_reconciler.py` and `deployer_preflight.py` are in
`src/backend/app/`.

## 1. The system

| Component | State it keeps | Operations | Correct when |
|---|---|---|---|
| Image queue (`revision_image_coordinator.py`, `revision_images.py`, schema in `services.py` 2086–2190) | `revision_image_builds`: one row per revision and generation with status, owner, lease, attempt, image | reconcile eligible revisions, module build, retry, rebuild-all, claim, renew, complete, fail, release, recover, prune | one build at a time; the active row is the newest generation; at most one ready image per revision, built by the last claim, published only while eligible; a ready image survives failed replacements |
| Deployer process (`deployer.py`, coordinator) | advisory lock of a session, its current claim, the child that builds | leadership, the claim loop, stop, crash, restart | a claim of a dead process is recovered and that of a live one is not; a doomed build stops |
| Deployer preflight (`deployer_preflight.py`) | registered base image | refuse or accept a changed base tag | a refused deployer eventually starts (it need not) |
| Image retention (reconciler 1278–1327) | images of ready rows | rank, remove, record | enough images of each module are kept |
| Endpoint deployments (`services.py` 2195–2288, 3978–4223, 4634–4898) | `endpoint_deployments`: active, target, previous and failed build, phase, generation, replicas | create, update, scale, delete, schedule a rollout | a rollout is decided; a build that failed is not tried again |
| Container reconciler (`endpoint_container_reconciler.py`) | Docker containers, `managed_endpoint_containers` | the cycle: observe, start, drain, remove, promote, roll back, finalise | a slot is drained only for a registered successor; a claimed invocation is not cut off; a deleted endpoint disappears |
| Endpoint worker registry (`services.py` 1501–1861, `endpoint_worker.py`) | `endpoint_worker_registrations` | register, heartbeat, claim, answer, expire | a draining container does not register |
| Endpoint invocations (`services.py` 4995–5529, `main.py` 825–912) | Redis lists per build, publish/subscribe | enqueue, pop, claim or requeue, answer, wait | an accepted invocation is answered or reported as failed, once |
| Evaluation runs (`services.py` 7487–7566, 8073–8592; `worker.py`) | `agent_run_plans`, `agent_run_tasks`, a Redis list | create, enqueue, cancel, delete, run a task, reconcile, queue more | the verdict fits the tasks; `max_workers` holds; no task is lost; the plan ends |
| Optimization jobs (`services.py` 6700–7049, 5660–5870) | `optimization_jobs`, child process, a git branch per job | enqueue, run, cancel, delete, follow-up evaluation, push, materialize | what succeeded was evaluated and pushed once; a cancellation in time has no result; nobody waits in vain |
| Module import and validation (`services.py` 2619–3464, `main.py`, `validator/bundle.py`) | modules, revisions, one checkout per module | import, sync, status check, validate, delete | only validated snapshots are recorded; a revision holds the commit it names; a module can catch up with its branch |
| Build child process (`revision_image_build_process.py`), builder (`revision_image_builder.py`) | a process, pipes, Docker | build, report, terminate | no child outlives its build, none is touched once closed, what it found is what is published; a stop ends |
| Requirement installation (`services.py` 620–653) | advisory-lock slots, a pooled session each | install | slots are returned, nobody waits on itself |
| LM profiles, datasets, executor, HTTP layer, configuration, web UI, Compose files | single rows or none | create, read, update, delete | no interaction between steps |

How they interact:

- The backend inserts revisions and build requests; the deployer's *image
  coordinator* claims them one by one under an advisory lock, and its *endpoint
  coordinator* reads ready rows as candidates for rollouts and prunes images.
  All of it goes through PostgreSQL, statement by statement.
- The reconciler decides on one snapshot per cycle and acts on it with
  statements and Docker calls, while workers register, claim and heartbeat and
  operators update the endpoint.  Only row locks and unique indexes order them.
- A call is pushed to the list of the build it was routed to, before the client
  hears of it on a channel; a worker pops it and then claims it in its row,
  which the reconciler blocks when it drains the worker.
- API requests and worker processes share an evaluation plan without any
  transaction: every count, status read and status write is on its own.  The
  same workers run optimization jobs, and a job waits for an evaluation run of
  its own result.
- Requests for one module share its checkout without a lock: a sync merges and
  may reset it while a validation freezes it and a status check reads HEAD.
- In the deployer the event loop and the thread that builds share the child
  process under two locks.

What is hard, then: decisions taken on reads that are stale when acted upon;
leadership that moves while work goes on; generations that replace each other;
crashes between two statements; messages popped before their effect is stored;
and things that must happen eventually although every participant may restart.
`PROJECT.json` lists each hazard with its line and the property that covers it.

## 2. Modules

| Module | Models | |
|---|---|---|
| `RevisionImages` | `revision_images.py` | statuses, phases and the transition tables, with what the build trigger lets through |
| `RevisionHistory` | – | abstract specification of the queue as a deployment sees it: newest generation, whether it is open, which image is shown |
| `RevisionBuilds` | coordinator, store, preflight, build requests, retention | implements `RevisionHistory` |
| `RevisionBuildsProofs` | – | theorems of `RevisionBuilds` |
| `BuildProcess` | `revision_image_build_process.py`, the coordinator's handling of one claim | what `RevisionBuilds` calls `BuilderEnds` and `Unwind`, in detail |
| `BuildProcessProofs` | – | theorems of `BuildProcess` |
| `EndpointRollout` | reconciler, endpoint deployments, worker registry | uses the phases of `RevisionImages` |
| `EndpointRolloutProofs` | – | theorems of `EndpointRollout` |
| `EndpointInvocations` | the calls of an endpoint: routing, queue, claim, answer | the reconciler reduced to promotion and drain |
| `EndpointInvocationsProofs` | – | theorems of `EndpointInvocations` |
| `EvalRuns` | evaluation runs, worker loop | |
| `EvalRunsProofs` | – | theorems of `EvalRuns` |
| `OptimizationJobs` | optimization jobs, install slots, worker loop | a follow-up evaluation run is one message here |
| `OptimizationJobsProofs` | – | theorems of `OptimizationJobs` |
| `QueueLemmas` | – | what appending to and taking from a list does to its elements, for the three modules with a Redis list |
| `ModuleSync` | import, sync, status check and validation of a module | what `RevisionBuilds` calls `NewRevision`, `Validate`, `Revoke` |
| `ModuleSyncProofs` | – | theorems of `ModuleSync` |
| `MC…` | – | instances for TLC: model values, `ModuleOf`, symmetry, constraints |

### RevisionBuilds

`builds` is the table, a function from revision and generation to a row; the
row's helpers (`Claimed`, `Requeued`, `Failed`, `Published`, `Inserted`) are the
`SET` lists of the code's statements.  `before` is the order of `available_at`
among queued and of `finished_at` among ready rows, which is all that claiming
(oldest first) and retention need of time.  `lock` is the session that holds
the leader's advisory lock; `pc`, `claim`, `outcome` are the deployer process.
One action is one committed transaction, with four exceptions.  A module build, a
retry, a rebuild-all and a reconcile read the table in a statement that may then
wait for a row lock and is not evaluated again, because the request that held
the row only locked it.  They are a `Begin…` or `…Select` (what that statement
saw) and a second action that commits what follows from it, or is refused by one
of the table's unique indexes: `InsertRefused` (revision and generation) for a
reconcile, `HasActive` (one active row per revision) for a module build.

| Action | Code |
|---|---|
| `BackendSelect`/`BackendReconcile`, `ReconcileSelect`/`ReconcileEligibleRevisions` | `_reconcile_eligible_revisions` of the backend and of the leader |
| `BeginModuleBuild`/`ApplyModuleBuild`, `BeginRetry`/`ApplyRetry`, `BeginRebuildAll`/`ApplyRebuildAll`, their `Abort…` | the three build requests |
| `TryAcquireLeadership`, `RecoverExpiredClaims`, `ClaimNext` | one turn of `RevisionImageBuildCoordinator` |
| `WatchBuild`, `RenewClaim`, `BuilderEnds` | the monitor beside the builder |
| `CompleteClaim`, `FailClaim`, `ReleaseClaim`, `Unwind`, `Exit` | settlement and shutdown |
| `CommandFails`, `SessionLost`, `Crash`, `RequestStop`, `LeaseExpires` | environment; the first four are bounded by `MaxFaults` |
| `Start`, `Retag` | preflight; the operator moves the base tag |
| `PruneImage` | the endpoint coordinator's retention |
| `NewRevision`, `Validate`, `Revoke` | module import as the queue sees it |

Abstractions: `builds[b].leased` says whether `claim_expires_at` is in the
future; a builder's result is arbitrary; build logs are left out; `PruneImage`
also removes images a deployment refers to, which the code keeps — the module
prunes more than the code, so the retention properties are the stronger for it.
A reconcile retires queued rows when it commits; the backend has one at a time.
A deployer restarts under its configured instance id.

### EndpointRollout

A container is named by generation, slot and build, as `managed_container_name`
computes it, and so is its worker.  `worker` is Docker and the process in the
container, `record` its row, `registry`/`assigned` its registration,
`deployment` the latest row of `endpoint_deployments` and `generations` the
generations that still have a row.  A cycle of the reconciler is:
`ReconcileTargets` (schedule a new image), `Read` (the four lists and the rows
it brings up to date), whose result is `plan`, a short sequence of operations,
and then one action per operation: `StartContainer`, `ObserveContainer`,
`BlockWorkerClaims`, `MarkContainerDraining`, `StopRemoveContainer`,
`RecordContainerRemoved`, `MarkDeploymentRolling`, `FailOrRollbackDeployment`,
`CompleteDeployment`, `FinalizeEndpointDeletion`.  `CycleFails` gives the rest up
at any point.  `Converge`, `Repair` and `Drain` are `_reconcile_intent` and
`_drain_and_remove` with their early returns.  `view` keeps what the operations
and the properties need of the snapshot: the row's id, the replica count, and
whether the drain had timed out.

Worker steps: `Join` and `Register` are the registration statement before and
after its commit — it locks the container's row, which is what makes
`BlockWorkerClaims` wait, or miss a first registration its snapshot does not
contain.  `Listen` is a turn of the loop with its heartbeat, refused as
`validate_managed_endpoint_worker_identity` (`Validates`) does, which also asks
for a build that is `ready`; `Claim`, `Answer`, `Expire`, `Die` are the rest.
`NewImage` publishes a build: of a new revision, or of one that has a build
already, which it supersedes, as `complete_claim` does even if that build is active.

Abstractions: time is one bit per reading, the timeout the plan asks for has
elapsed or not (a plan asks for one only); a process that starts and one that
Docker restarts are both `"boot"`, which a reading may show as running or not;
heartbeats are late only when they are refused; whether the queue holds a job is
open; the four reads of a cycle are one step; one endpoint and one reconciler.

### EvalRuns

One plan with its rows, the Redis list, the workers and two API requests.
`task` has a row for each caller that may insert it, because two enqueue
requests can both find no rows.  Each statement is an action: the
worker's path is `Pop`, `ReadTask`, `CheckLimit`, `StartTask`, `StartPlan`,
`Install`, `Evaluate`, `Judge`, `SetResult`; `_reconcile_agent_run_plan` is
`CountDone`, `CountActive`, `ReadStatus`, `WritePlan`; `_queue_more_…` is
`QueueMore`, `CountMore`, `Select`, `Mark`, `Push`, the last three shared with
an enqueue (`Enqueue`, `Insert`, `CountTasks`, `SavePlan`).  `seen` is what a
process has read and will still use.  MLflow and payloads are left out; an
evaluation succeeds or fails.

### BuildProcess

`pc["loop"]` is where `_execute_claim` is on the event loop, `pc["thread"]` where
`RevisionImageBuildProcessRunner.build` is in its thread; `lock` and `lifecycle`
are `_lock` and `_lifecycle_lock` with their owners, `active` is
`_active_child`.  `_terminate` is `EnterTerminate`, `GraceEnds` and `JoinKilled`,
taken by either; the loop holds `_lock` around it, the thread does not.  The
child sends logs and a verdict through `pipe`, and ends after the verdict, by a
signal, or by a fault.  A cycle is `BeginCycle`, where the loop looks at
`_stopping`, and `TakeClaim` or `EndCycle`; a turn of the monitor is `Watch` (wait
for the thread, save the log), `CheckStop` and `RenewClaim`, each after an `await`
during which the thread may return.  `Cancel` remembers in `back` where the loop
goes on: `request_stop` is called by a signal handler between any two steps of the
loop, and before there is a claim it only sets the flag.
What a build costs in time, and what happens inside the builder, are left out;
a verdict is arbitrary.

### EndpointInvocations

`Route` looks for a target, subscribes and looks again; `Push` follows in a step
of its own, so a promotion or a drain may come between.  A worker goes through
`Boot` (registration), `ReadAssignment`, `BeatListening`, `Pop`, `Claim` or
`Requeue`, `Check`, `Run`, `Release`, one statement or Redis command each;
`hand` is the payload it has popped.  A worker whose assignment is gone, or
whose heartbeat is refused, dies and is restarted by Docker.  The reconciler is
`Block` (one cycle), then `Look` and `KeepDraining` or `Remove` (a later one).
`answered`, `heard` and `dropped` record what was published, who was sent it,
and what a process took with it when it died.  `Supersede` is the publication of
a rebuild, after which the workers of the build it replaces are refused
(`BuildIsReady`).  Left out: legacy static workers,
authentication, the deltas of a stream, and the heartbeat during an invocation,
whose only effect here would be to fail (`Release` has that outcome).

### OptimizationJobs

`run_optimization_job` step by step: `ReadJob`, `StartJob`, `Prepare`,
`AcquireSlot`, `Install`, `Drain` and `Look` (one turn of the loop that polls the
child and the job's status), `StartFollowup`, `AwaitFollowup`, `CreateBranch`,
`Push`, `Record`, `EndJob`.  The same process may be a worker, a request of
`POST /run` or one of `POST /materialize-bundle` (`kind`).  Messages are a job or a
follow-up run, on one list.  `inTime` holds the executions whose job was canceled
while they were still optimizing, as long as the row says so.  Executions are
numbered, and a follow-up run has the number of its execution.  Abstractions:
a follow-up run is evaluated by one worker in one go (`EvalRuns` has its tasks);
jobs are of GitHub modules with a child (the evaluate-only strategy has none);
requests share `_bundle_requirements_lock`, which with one request makes no
difference; logs and telemetry are left out.

### ModuleSync

Commits are numbers along a branch that is only appended to; `tree` is HEAD of
the checkout and `fetched` its FETCH_HEAD.  Requests share both; one may validate
or check, as it is used (`Validations`, `Checks`).  A sync is
`Start`, `Fetch`, `ReadHead`, `ReadUpstream`, `Compare` (the merge base) and
`Reread` (`refresh_module_sync_status`), `Fetch` again, `Merge`, `Name`, `Freeze`,
`Finalize`, and on failure `Rollback`; a status check goes from `ReadHead` to
`Persist`, where it writes what it read; a validation is `Resolve`, `Freeze`,
`RecordRevision`, `SetVerdict`; an import ends with `ImportVerdict` and
`ImportImage`, whose failure removes the checkout like any other of an import.  A
frozen source stands for the commit it was read from; `verdict` is the source that
passed.  A git command and a transaction are one step each; freezing reads the tree
in one step.  `stranded` records, for `SyncCatchesUp`, the commits at which the
checkout was left although no revision of them was finalized.  Left out:
edits of the metadata (they write `bundle.toml` into the checkout, after which a
source is no commit's), modules with a local source, and the reported status.
Clients know of a module once the import has answered; its row is visible a
little earlier, and a sync in that moment could overtake the import.

## 3. Runs

Sizes are distinct states.  `rollout_promoted` states what a document of the
repository says and ends with TLC's counterexample (section 5).

| Run | Instance | States | Shows |
|---|---|---|---|
| `builds_failover` | 2 deployers, 1 revision, 1 generation, 2 faults, fair | 101,000 | Whatever two stops, crashes, lost sessions or failed commands do, a published image is the one of the row's last claim and was eligible under the leader's lock (`PublishedByLastClaim`, `OnlyEligiblePublished`); nobody takes the build of a healthy leader (`NoStolenClaim`); orphaned claims are recovered, doomed builds stop, eligible revisions are queued (liveness) |
| `builds_requests` | 1 deployer, 2 revisions, 2 generations, two requests at a time, symmetric | 371,000 | Requests of every kind, overtaking each other, keep the table's contract (`ActiveIsNewest`, `OneReadyPerRevision`, `BuildContract`, `ReadyStaysUntilReplaced`), and the module implements `RevisionHistory` |
| `builds_retention` | 2 deployers, 3 revisions, a new base image or a fault | 610,000 | Builds stay serial across leaders; pruning keeps `Retention` images |
| `build_process` | 2 builds, 1 log message, 1 fault, fair | 275,000 | Whatever ends a build, its child is gone when its claim is settled (`NoChildOutlivesBuild`), nobody signals a closed child (`ClosedChildIsLeftAlone`), only what the child found is published, and nothing that was to be withdrawn (`PublishedAsFound`), and a stop ends the process (`StopEnds`) |
| `rollout_faults` | 1 slot, 2 builds, 1 rollout, 1 deletion, 1 fault | 1,792,000 | A slot is drained only when another container of it has registered (`SlotHandedOver`); a drained worker keeps its container until its invocation is answered, its registration lapses or the drain times out (`DrainKeepsClaim`) |
| `rollout_ends` | 1–2 slots, 2 modules, a build that never starts, 1 request, fair | 32,000 | Every rollout comes to rest (`RolloutEnds`) and a deleted endpoint is removed (`DeletionFinishes`) |
| `rollout_rebuilt` | 1 slot, 2 modules, 3 images that may supersede each other, one that never starts, fair | 150,000 | A rollout also comes to rest when a rebuild has superseded the build it replaces (`RolloutEnds`) |
| `invocations` | 2 calls, 1 worker of each of 2 builds, 1 fault, fair | 616,000 | A call is in one place until it is answered or lost with a process (`HandledOnce`); who waits has been sent the answer (`AnswerIsHeard`); a drain removes no worker that executes, unless it times out (`DrainSparesClaim`); a queued call is served (`InvocationServed`) |
| `eval_runs` | 2 workers, 2 tasks, 1–2 at a time, one disturbance, fair | 487,000 | A sequential plan gets the right verdict and counters, keeps its limit and results and ends; unless something fails, no task that is queued one at a time or all at once is without a message (`QueuedHasMessage`) |
| `optimization` | 2 jobs, 2 workers, 1 request, 1 install slot, 2 executions, 1 cancellation, 1 fault, fair | 106,000 | A job that succeeded names an execution that was evaluated, and whose commit is the only one pushed (`SucceededAsRecorded`); a cancellation in time leaves no result (`CanceledInTimeHasNoResult`); a follow-up run is not waited for in vain (`FollowupEnds`) |
| `module_sync` | a sync again and again, another client that validates or checks, 3 commits of which the second is bad, 2 faults, fair | 179,000 | Only validated snapshots are recorded (`RecordedWasValidated`); a sync's revision holds the commit it names (`SyncedRevisionIsItsCommit`); after failures, also two at one commit, and after a bad commit, syncs catch up with the branch (`SyncCatchesUp`) |
| `rollout_promoted` | 1 slot, small | – | section 5 |

**Bounds, and why they are enough.**  Two deployers are all that leadership can
move between; one revision with one generation is enough for a claim to be
taken, lost, recovered and finished late, and two faults for the successor to
fail as well.  Two generations of two revisions are what a request can confuse;
a third image is the first that retention may remove.  Two builds are what a
build process can confuse: one that is being ended and the next; a log message
is the one message that does not end a build.  A rollout involves the
old container of a slot, the new one and the one a rollback starts, which is
what two builds and two generations give; the second slot makes the reconciler
choose between slots.  Two calls are the least of which one waits while the
other is executed, and one worker of each build is what a promotion moves
between; two workers of one queue, whose pops Redis orders, are left out.
Two tasks and two workers are the least that can
race on a plan; two executions are a job and its repetition, or two jobs that
need each other's worker.  Three commits let a sync be overtaken by the branch,
meet a commit that fails and recover on the next; two faults let a sync fail twice
at one commit, which is what it takes to be reset to it.  Two clients share a
checkout, one that synchronizes and one that does whatever else moves or reads it.  Faults, requests, enqueues and cancellations are
budgets (`MaxFaults`, `MaxRequests`, `MaxEnqueues`, `MaxCancels`, `MaxRuns`); a
deletion counts as a fault in `ModuleSync` and `EndpointInvocations`, where a
drain that times out, a heartbeat that is missed and a rebuild do too; the generation and
replica bounds appear in guards (`HasRoom`, `Schedule`) and are
named where they are declared.  In `eval_runs` and `builds_retention`
a constraint admits one disturbance per behaviour; `WithoutRetries…` leaves
operators' requests out of the runs that are about failover and retention, whose
builds come from reconciles, and `TwoTransactions` lets two requests be open at
once where requests are the subject: one that is overtaken and one that overtakes.

**Deadlock** is checked in the `builds_*` runs.  Elsewhere the system may really
stop: a finished plan or job, an endpoint or module that is gone, a deployer that
was told to stop, all workers waiting for follow-up runs (see `FollowupEnds`).

**Fairness.**

- `RevisionBuilds`: every process keeps taking its steps (an asyncio loop and a
  child under Docker's restart policy), a process without its session finds
  out, a builder that is cancelled ends, leases run out.  Nothing makes a build
  end, a validation happen or an operator act.
- `EndpointRollout`: the reconciler's loop goes on and timeouts elapse;
  registrations that are committed, heartbeats and expiry happen; strong
  fairness that a container started again and again is seen running and that a
  worker that can register again and again does so (a build in `Broken` never
  does).  Invocations may run for ever.
- `EvalRuns`: workers and requests run on, evaluations and installations end.
- `BuildProcess`: loop and thread run on; a child that was killed, or has sent its
  verdict, exits.  A child may build, or ignore `SIGTERM`, for ever.
- `EndpointInvocations`: requests push and receive, workers run on and are
  restarted.  The reconciler, promotions and deadlines need not happen.
- `OptimizationJobs`: workers and requests run on, a free worker takes a message;
  `FollowupEnds` adds that no child optimizes for ever, as its premise.
- `ModuleSync`: a request that has begun goes on, and operators sync the module
  again and again, since nothing in the code does.

**Conditions inside properties.**  `EvalRuns` states most properties for a
`Sequential` plan (`max_workers` 1, enqueued once).  Outside it they fail in the
model as the code would: two workers reconcile from counts that never held
together, both mark the same tasks queued, and a worker that finds the limit
reached drops the message it took.  `QueuedHasMessage` is stated for plans whose
tasks are selected one at a time or all at once (`SelectedOnce`).  In between it
fails, with three workers, a limit of two and six tasks: a worker stalled between
selecting and marking marks a task that has succeeded meanwhile, pushes it, and
whoever pops it finds two others running and drops it (section 5).
`DrainKeepsClaim` leaves out surplus slots, which the code removes in the same
cycle, workers whose heartbeats are refused, and a worker whose first registration
the drain did not see.  `RolloutEnds`
excepts a rollback to a build that does not start, or that a rebuild has
superseded: it cannot end (section 5).
`InvocationServed` excepts a build that was promoted away or superseded and a
deleted endpoint, whose queues nobody may read any more, and calls a dying worker
took with it.
`CanceledInTimeHasNoResult` speaks of cancellations before the result is used; a
later one is overwritten.  `FollowupEnds` excepts a canceled follow-up, which the
code waits for without end, and all workers waiting at once.
`SyncedRevisionIsItsCommit` is stated for one sync at a time, and `SyncCatchesUp`
excepts a validation recorded after the sync, a bad commit, and one at which the
checkout was left without a revision: the backend died past the merge, the reset
failed, or the reset went to that very commit, which a status check had persisted
while an earlier sync was merging it.  Section 5 says what happens then.

## 4. Proofs

Each module's `ConstantsAssumption` is assumed and nothing else, except where a
theorem says so.

### RevisionBuildsProofs

For any number of deployers, modules, revisions, generations, base images and
faults:

| Theorem | Statement |
|---|---|
| `TypeCorrect` | `Spec => []TypeOK`, with the check constraint on claim columns |
| `BuildsAreSerial` | `Spec => []AtMostOneBuilding` |
| `ActiveRowIsNewest` | `Spec => []ActiveIsNewest` |
| `OneReadyImage` | `Spec => []OneReadyPerRevision` |
| `LastClaimPublishes` | `Spec => []PublishedByLastClaim` |
| `TriggerNeverRefuses` | `Spec => BuildContract` |
| `ReadyImageStays` | `Spec => ReadyStaysUntilReplaced` |
| `PublicationIsEligible` | `Spec => OnlyEligiblePublished` |
| `LeaderKeepsItsClaim` | `Spec => NoStolenClaim` |
| `TableImplementsHistory` | `Spec => ImplementsHistory`: the table implements `RevisionHistory` |
| `PruningKeepsTheRetained` | `Spec => RetentionKept`, when the revisions are finitely many |

The argument has three layers.

1. `TypeInv` is `TypeOK` with `ClaimHeld`: a process that is watching, renewing
   or settling has a claim.  Without it `TypeOK` is not inductive, because the
   settlement actions use the fields of the claim.  Lemmas give the type of each
   row helper, then of each way to write the table, then of each action.
2. `TableStep` says what any step may do to a row: keep it, add it as the next
   generation while no sibling stays active (`Added`: a retry and a rebuild-all
   fail the active one, a module build and a reconcile that were overtaken are
   refused by an index), claim it while nothing
   builds (`Taken`), fail, requeue, publish it while every sibling stops being
   ready (`Shown`), withdraw it, give it back (`Returned`: by a leader that
   recovers, or by a holder that stops), or change its lease; and what happens to
   the other rows meanwhile.  `RowSteps` proves that every step of the
   specification is a `TableStep`; each action is looked at once.
3. Every theorem follows from `TypeInv` and `TableStep`, mostly through
   `StatusAfter`, without looking at the actions again.  `LastClaimPublishes`
   needs the strengthening `ClaimedOnce` (a row that is building has been
   claimed), `ReadyImageStays` uses `ActiveIsNewest`, and `LeaderKeepsItsClaim`
   needs `ClaimInHand`: a process with a claim is working on it or unwinding, so
   a leader that recovers has none.  `PruningKeepsTheRetained` needs `Ordered`: no
   row precedes itself in `before`, so an image is not among those that rank above
   it, which are all ready when it is gone.

`TableImplementsHistory` maps a revision's rows to one entry: its newest
generation, whether that is open, and the image shown.  Its invariant
`HistoryInv` joins `TypeInv`, `ActiveIsNewest` and `OneReadyPerRevision` with
`Contiguous` (the generations of a revision have no gaps), under which "the
newest generation" names one row (`LatestIsOne`).  `EntryStep` then goes through
the cases of `TableStep`: an added row is `Request`, a shown one `Publish`, a
failed one `Abandon`, a pruned one `Prune`, and every other case a stutter.

### BuildProcessProofs

For any number of builds, log messages and faults:

| Theorem | Statement |
|---|---|
| `BuildProcessTypes` | `Spec => []TypeOK` |
| `NoChildOutlives` | `Spec => []NoChildOutlivesBuild` |
| `ClosedChildren` | `Spec => []ClosedChildIsLeftAlone` |
| `OnlyTheFoundIsPublished` | `Spec => PublishedAsFound` |

The invariant `Inv` adds three things to `TypeOK`.  `ActiveIsHeld`:
`_active_child` is the child the thread has started and not closed, and there is
no other process.  `LockOwned`: the loop holds `_lock` exactly while it ends the
child and the thread while it closes it, the loop ends a child only if there is
one, and the thread closes only a dead one.  `ThreadAwaited`: a claim is settled
with the thread idle, also when a stop interrupts the loop on its way there.  None
of them is inductive alone: that the child does not go away under the loop
(`ActiveIsHeld`) rests on the lock, and the lock on where the two are.  Each
action has its lemma, over `HeldKept`, `ThreadUnlocked` and `LoopUnlocked`, which
say once what the many steps that take no lock preserve.

`OnlyTheFoundIsPublished` follows a verdict from the child to the row.  A pipe
holds log messages and the child's verdict (`PipesFit`); what the thread has
received, and an outcome `ready`, are from the child of this claim
(`HeardFromChild`); and from the decision to publish until the claim is settled
the thread is idle and no reason is added, also when a stop cancels in between and
comes back to settle (`DecisionStands`).  That a build to be withdrawn is not
published is a property of two moments: at the first nothing has been settled for
it (`SettledOnce`), and from then on the decision is still to come or was another
(`Withheld`), because `Decide` looks at the reason and at the stop.

### ModuleSyncProofs

For any number of requests, commits and faults:

| Theorem | Statement |
|---|---|
| `ModuleSyncTypes` | `Spec => []TypeOK` |
| `OnlyValidatedIsRecorded` | `Spec => []RecordedWasValidated`, with any number of overlapping syncs |
| `OneSyncLabelsItsSource` | `OneSync` (at most one sync) implies `Spec => []SyncedRevisionIsItsCommit` |

`RecordedWasValidated` needs only that an import keeps its validated source
(`ImportPassed`).  `OneSyncLabelsItsSource` needs `Labelled`: nobody but a sync
moves the checkout once the import is done (`MoversAreSyncs`, `ImportAlone`), and
a sync that has named HEAD is still at it when it freezes (`NamedIsFrozen`).
Without `OneSync` the theorem is false (section 5).

### EndpointRolloutProofs

For any number of builds, replicas, generations, requests and faults:

| Theorem | Statement |
|---|---|
| `RolloutTypes` | `Spec => []TypeOK`, with the lock of a registration: the row it locks stays `ready` |
| `DrainingKeepsTheClaim` | `Spec => DrainKeepsClaim` |
| `DrainedSlotsAreTaken` | `Spec => SlotHandedOver` |

A cycle reads, plans and then acts while workers and operators go on, so the
question is what still holds of the reading when an operation is executed.
`Planned` answers it.  The steps of a plan are about one container.  The row of a
container is forgotten only when the container is absent or a stop comes before
it in the plan, and nothing in that plan starts it.  A stop is of a surplus slot,
or is the first step and its worker is `Spared` (it is not executing for a drain
to wait for, or the drain had timed out).  Claims are blocked for a surplus slot, a
deleted endpoint, or a container that was `Replaced` by a registered one.  Each of
these survives the steps of the others: a drained worker takes no claim, only the reconciler stops a container or
unassigns its worker, and `replicas` is the one that was read.  That a plan is
`Planned` when it is made is `Made` and `Orderly`, over `Converge`, `Repair` and
`Drain`.  `Sound` joins it with `TypeOK` and `Numbered` (an endpoint has no more
rows than generations), without which the types are not inductive.

### EndpointInvocationsProofs

For any number of calls, builds, workers and faults:

| Theorem | Statement |
|---|---|
| `InvocationTypes` | `Spec => []TypeOK` |
| `EachHandledOnce` | `Spec => []HandledOnce` |
| `AnswersAreHeard` | `Spec => []AnswerIsHeard` |
| `DrainSparesWork` | `Spec => DrainSparesClaim` |

`Typed` adds `HandIsUsed` to the types: a worker has a payload exactly from its
pop to its release.  `Placed` says where a call can be (`OnePlace`): it is
outstanding if and only if it is in some queue or in some hand, never in two, and
no queue has it twice.  `Push`, `Pop`, `Requeue` and the death of a worker move it
from one place to one other, by `QueueLemmas`.  `AnswersAreHeard` adds that who
may still be waiting has subscribed (`Listened`), which `Route` does before the
call is pushed.  `DrainSparesWork` rests on `DrainBlocksClaims`: a worker that a
drain looks at has a draining container, so it is no longer assigned and claims
nothing between the look and the removal.

### OptimizationJobsProofs

For any number of jobs, workers, requests, slots, executions, cancellations and
faults:

| Theorem | Statement |
|---|---|
| `OptimizationTypes` | `Spec => []TypeOK`, with the limit of the install slots |
| `SuccessIsRecorded` | `Spec => []SucceededAsRecorded` |
| `CancellationIsHeard` | `Spec => []CanceledInTimeHasNoResult` |

`Shaped` says what a process has at each place.  `Numbered`: an execution has a
number of its own from its request or message to its end.  `Followed`: its
follow-up run does not exist before the execution gets there, is taken by one
worker, and is not succeeded without its verdict.  `Evaluated`: an execution that
goes on to publish, and one a job has recorded, has a follow-up that succeeded for
good.  `Owned`: the process that has created a job's branch is alone with it, and
the branch holds what that process has pushed; nobody owns the branch of a job
that succeeded.  The five are proved in this order, each from those before it.
`SuccessIsRecorded` is `Evaluated` and `Owned`.  `CancellationIsHeard` is about
the window of a cancellation: an execution canceled in time is still optimizing
for a job whose row says so, or is at its end without success (`CanceledIsSeen`).

### EvalRunsProofs

For any number of tasks, workers, enqueues, cancellations and faults:

| Theorem | Statement |
|---|---|
| `EvalRunTypes` | `Spec => []TypeOK` |
| `OneTaskRuns` | `Spec => []RunningWithinLimit` |
| `ResultsAreFinal` | `Spec => ResultStays` |
| `QueuedTasksAreSent` | `Spec => []QueuedHasMessage` |
| `VerdictIsRight` | `Spec => []VerdictFits` |

The properties are those of a `Sequential` plan or of one that is `SelectedOnce`
(see *Conditions inside properties*).  `Alone` is what makes a sequential plan
one: a token is with one process, or in the queue as its only message
(`OneCarrier`), one task is selected (`OneSelected`), a running task is with the
carrier (`OneRunning`), and nothing selected or sent is done (`NotDone`).  None of
its parts is inductive without the others; `EnqueuedOnce` starts it, since before
the one enqueue there is nothing, and `OneTaskRuns` and `ResultsAreFinal` follow.
`VerdictIsRight` adds that the carrier's counts are still those of the table when
it writes the status (`CountsHold`, `Reported`): the counts are cardinalities, kept
because nobody else changes a row meanwhile, and `Undisturbed` keeps API requests
out while nothing is canceled.  `QueuedTasksAreSent` shows, step
by step, that a queued task leaves one of its places only for another.  The step
that could lose it is `CheckLimit`, and `RoomForQueued` says that it does not: with
a limit of one nothing else runs, because of `Alone`, and with a limit of all
tasks the others are too few to fill it.

### Only model-checked

Every invariant and action property of a passing run is proved
(`SyncedRevisionIsItsCommit` for syncs that do not overlap, as the run has it).
TLC alone checks the liveness properties (`OrphanedClaimRecovered`,
`DoomedBuildStops`, `EligibleRevisionQueued`, `PlanFinishes`, `RolloutEnds`,
`DeletionFinishes`, `InvocationServed`, `FollowupEnds`, `SyncCatchesUp`,
`StopEnds`): fairness and `ENABLED` are out of the prover's reach.
`RevisionBuilds`, `EvalRuns`, `BuildProcess` and `ModuleSync` have no type invariant
in a run, because it is proved.

## 5. Where the code departs from what it says

| Run | Said | Done |
|---|---|---|
| `rollout_promoted` | `docs/COMPOSE_RUNBOOK.md:143`: no traffic to a target "until every exact desired slot is ready" | `complete_deployment` promotes what the row targets when it runs; an update in place since the reading becomes active without a container |

Seen while modelling, without a run of their own:

- *Image queue.* `_enqueue_retry` looks for a retry of the same generation only:
  a retry of an older one fails the active build of the same revision and base
  instead of answering 409 (`README.md:806`).  Images rank by generation, which
  counts per revision: rebuilds of an old revision push out the newest
  revision's image (`docs/COMPOSE_RUNBOOK.md:222`).  A deployer refused for
  active builds waits for builds only it could run (`deployer_preflight.py:357`).
  Retry and rebuild-all read the base image before they wait for locks and act
  on it afterwards.  A module build decides that nothing is active before it
  waits for a retry or a rebuild-all of the same revision; it then inserts a
  second active row, gets a unique violation instead of the build that is active
  (`revision_image_coordinator.py:851`), and its caller an error.  Two reconciles,
  or a reconcile and a module build, may race to insert a first generation; the
  loser gets a unique violation, which the backend logs and which ends a leader's
  cycle.  A settlement and a retry lock rows in opposite order and may deadlock in
  PostgreSQL, which aborts one of them.
- *Build process.* A child that delivers its result between the thread's reading
  of the pipe and its `is_alive` is reported as having exited without one
  (`revision_image_build_process.py:184`); optimization jobs do the same
  (`services.py:958`).
- *Endpoints.* A rollback that times out overwrites `failed_build_id` with the
  active build, and the failed one is scheduled again (`README.md:597` says it is
  suppressed).  A container that is draining because its slot was surplus and
  whose slot is wanted again is never re-admitted, so the slot fails to become
  ready until it is replaced; the workers of an active build that a rebuild has
  superseded are refused from its publication on, not from the promotion of the
  new build, so the endpoint stops answering while that is rolled out
  (`docs/COMPOSE_RUNBOOK.md:177` says it remains routable), and if the rebuild does
  not start, the deployment rolls back to a build whose workers are still refused
  and stays in rollback (`README.md:597`: "Failed target startup or readiness
  restores the old revision capacity"); draining does not stop the next claim of a worker
  whose first registration commits while the drain waits (`README.md:595` says it
  does); phases change in ways `DEPLOYMENT_TRANSITIONS` does not list (from
  `ready` to `rollback`, from `pending` to `ready`), because the reconciler's
  statements do not consult it; `pending` has no timeout.
- *Calls.* A call queued for a build that is then drained stays in its list; the
  client's deadline ends the request.  A worker that dies after `BRPOP` takes the
  call with it.
- *Evaluation runs.* A plan's status is read, then written back: `running` over
  `canceled` (`web/src/runs/RunsPage.jsx:100` promises that the run stops).  A
  task is marked queued on a selection that may be stale, also over a result it
  has got since; its message may then be dropped at the limit, and the finished
  task stays queued.
- *Optimization jobs.* Every job that succeeded has left its branch, and the
  materialization of its artifact runs `git worktree add -b` for the same branch
  and fails (`docs/COMPOSE_RUNBOOK.md:39` shares the artifacts "so succeeded
  optimization artifacts can be materialized into new bundles").  A cancellation after the child has delivered is overwritten
  by `succeeded`, and by `failed` if a later step fails; `POST /run` executes a
  finished job again, which fails on the branch and turns `succeeded` into
  `failed`; a canceled follow-up run is waited for without end, and so are all
  follow-ups once every worker waits; deleting a running job does not stop it;
  the process log is read, extended and written back without a lock;
  `README.md:374` names push and follow-up in the other order.
- *Modules.* Two overlapping syncs share the checkout: the slower one finalizes
  the older commit last, or one resets between the other's naming and its
  freezing, and a revision is labelled with a commit it does not hold; afterwards
  HEAD equals the branch and every sync answers "synced".  The same answer hides
  a commit for ever when the backend dies, or the reset fails, between merge and
  finalization, or when a status check persists the HEAD of a sync under way that
  fails: the next sync to fail at that commit resets the checkout to it.  Until
  then the row already names that commit, which may have failed its validation
  (`README.md:795`: a failure "leaves passed/synced/current-revision state
  unchanged").  A status
  check that is overtaken writes an older HEAD over a finalization, a failing one
  the commit it read at its start.  A validation labels its revision with a commit
  read from the row earlier.  An import that fails
  after its row was written removes the checkout and keeps the row.

## 6. What is not modelled

`PROJECT.json` lists every component with its status.  In short: LM profiles,
datasets and evaluation plans are single-row operations; the bundle validator,
the executor and most of the HTTP layer are sequential or pure I/O, and their
results are nondeterministic in the modules that use them; configuration, web UI
and Compose files keep no state (the deployer's restart policy is assumed in
`Start`).  Within modelled components: logs of builds and jobs, the heartbeat
rows of the deployer's coordinators and of workers in Redis, containers with
duplicate or foreign identities, incomplete Docker listings, deployments in
`legacy_static`, two reconcilers at once, several endpoints sharing one
reconciler, two workers of one queue, metadata edits and local sources of
modules, and the pool of database sessions that installations share.

## 7. Plan

Done: `RevisionBuilds` with `RevisionHistory`, `EvalRuns`, `EndpointRollout`,
`EndpointInvocations`, `OptimizationJobs`, `BuildProcess` and `ModuleSync`, with
the proofs of section 4.

Next, in order of importance:

1. Refinements between modules: `ModuleSync` as an implementation of the
   revisions `RevisionBuilds` assumes, `BuildProcess` of its `BuilderEnds` and
   `Unwind`.
2. `ModuleSync` with metadata edits, where a source is a commit with an edit.
3. Two endpoints under one reconciler: the early return of a drain, and a failed
   deployment that keeps every image from being pruned.
4. The supervision of the deployer's two coordinators and their heartbeat rows.
