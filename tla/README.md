# The concurrent core of n8n (GaussDB fork): a TLA+ verification project

The repository is n8n 2.34.6 adapted to GaussDB. Most of it is a workflow editor,
an execution engine that runs one workflow's nodes in sequence, and hundreds of
integrations. Three parts of it are concurrent algorithms of its own, and these are
what this project specifies:

- the **durable scheduler**: schedule and poll triggers are rows of a database, and
  every main process of a cluster plans, claims, runs, retries, recovers and prunes
  them concurrently, with the database as the only coordination;
- the **life of an execution** in a main process: a bounded number of slots, a row
  claimed by whoever resumes it, waits, timers, stops, shutdown and recovery;
- the **task broker**, which hands code to task runner processes over connections
  that may lose them at any step.

Paths below are relative to `src/`; `core` is `packages/@n8n/scheduler/src/core`,
`db` is `packages/@n8n/db/src/repositories`, `cli` is `packages/cli/src`, `host` is
`cli/scheduling`.

## 1. Inventory

### The scheduler

| Component | State | Operations | Correct when |
|---|---|---|---|
| `scheduled_job` (`db/scheduled-job.repository.ts`) | a rule: schedule, `nextRunAt` (its clock, null when exhausted), `lastFiredAt`, misfire policy and grace | `claimDue` (FOR UPDATE SKIP LOCKED), `insertMany` (ignore on conflict), `updateDefinition`, `updateMisfirePolicy`, `advanceMany`, deletions | the clock passes no instant that is neither recorded nor discarded by a policy |
| `scheduled_task` (`db/scheduled-task.repository.ts`) | an occurrence: status, `runAt`, `attempts`, `claimedBy`, `leaseExpiresAt`, `leaseEpoch`, `startedAt` (dispatch mutex), `dispatchedAt` (marker), `missedAfter` | `claimDueTasks`, `beginDispatch`, `markDispatched`, `completeTask`, `failTaskTerminal`, `rescheduleTask`, `releaseClaim`, the reaper's and retention's statements; each fenced by (status, owner, epoch) or (status, expiry, epoch, marker) | a terminal status is final; every retry costs exactly one attempt; no stale write lands |
| Materializer (`core/materializer`) | none; one transaction per pass | claim due jobs, plan each (walk, cap, misfire policy) or defer it, record rows, retire superseded rows, advance clocks | concurrent passes lose and duplicate nothing |
| Executor (`core/executor`) | `claimedTaskById`, armed timers, `stopping` | `tick` (claim and arm), timer -> `runFire` (mutex, handler, marker, outcome), `stop` | handlers of one occurrence do not overlap unless a lease expired; stop leaves nothing armed |
| Reaper (`core/reaper`) | the list of rows one pass read | retire stale pending rows, read expired leases, resolve each: complete, dead-letter or reclaim | an orphaned claim is settled, charged once, and never against a dispatched run |
| Provisioner (`core/provisioning`, `host/durable-job-provisioner.ts`) | none; one transaction | diff the node's jobs, insert or redefine, withdraw queued rows, edit policy, seed the first window | an edit leaves nothing of the old rule queued |
| Recurrence (`core/recurrence`) | none | next and first run, the walk of occurrences, every-N filter | a walk yields the schedule's instants |
| Retention (`core/retention`) | none | delete terminal rows by window, in budgeted batches | no window starves another |
| Pass loop (`core/lifecycle`) | in-flight passes, timeline, alarm | tick, launch within a slot limit, abandon at timeout, abort at stop | passes keep starting |
| Handlers and registrars (`host/schedule-trigger-node`, `host/poll-trigger-node`) | none | start an execution with a deduplication key; poll and emit | an occurrence starts at most one execution |
| Factory, skew check, host (`core/factory.ts`, `core/clock-skew.ts`, `host/durable-scheduler.ts`) | none beyond the loops | wiring, metrics, warnings, transactions | - |

Interaction is only through the two tables. A trigger's activation provisions a
job and seeds its first rows; materializer passes of any main extend them; the
executor of any main claims a due row and hands it to a handler in its own
process; the reaper of any main settles a claim whose owner went quiet; retention
deletes what is finished. Deleting a job cascades to its rows.

What is hard: statements of different mains interleave freely; a claim's owner may
stall past its lease and wake up; a pass that timed out is abandoned, not stopped,
and its statements still commit; `stop()` races a claim under way; both the
executor and the reaper decide from snapshots of a row; the dispatch marker may
land between the reaper's read and its write; a capped or failed planning pass
must not skip instants; an activation that lost an insertion race plans from a row
it read without a lock. `PROJECT.json` lists these as hazards, each at its line.

### Executions of a main process (regular mode)

| Component | State | Operations | Correct when |
|---|---|---|---|
| `cli/concurrency` | capacity, queue of throttled calls, enabled | reserve, release, remove a queued execution, disable | every slot taken is given back once, and nobody queues while one is free |
| `cli/active-executions.ts` | registry: entry, its promise, its run, its status | `add` (create or claim the row), attach, stop, finalize, shutdown | an execution has one run; its entry is that of its run |
| `cli/workflow-runner.ts` | a call of `run` in flight, its timeout | register, mark running, launch, time out, finalize | a call ends in the registry it entered |
| `cli/wait-tracker.ts` | timers of waiting executions | poll, set timers, resume, stop | a wait is resumed once |
| `cli/executions/execution.service.ts` | a stop in progress | read, act on the process, write | a stop is final |
| `cli/executions/enqueued-execution-recovery.service.ts` | rows found at startup | read, run | no enqueued row is forgotten or run twice |

A call creates a row or loads one, waits for a slot, claims the row, registers,
runs, saves and is finalized, with an await between any two of these; stops, timers,
webhooks, polls, shutdown and crash come in between. The row is the only thing calls
have in common besides the registry, and most of its writes are unconditional.

### Task broker and runners

| Component | State | Operations | Correct when |
|---|---|---|---|
| `cli/task-runners/task-broker/task-broker.service.ts` | requests, offers, acceptances in progress, tasks, counts of failures | match, accept, refuse, defer, send settings, settle, time out, cancel, deregister | each waiting caller has its request or one task |
| `.../task-broker-ws-server.ts` | connections | register, route, heartbeat, remove, drain | a runner that is gone is deregistered |
| `cli/task-runners/task-managers/task-requester.ts` | callers and their tasks | start, cancel, settle | every call returns |
| `packages/@n8n/task-runner/src/task-runner.ts` | open offers, running tasks | offer, accept or refuse, run, abort, time out, stop | no more than its slots are out |

Each end decides from what it last heard: an offer may be stale, an acceptance late,
a request expired, a connection closing while its frames still arrive.

### The rest of the repository

Scaling mode (Bull and Redis), the workflow engine, the activation manager, the
GaussDB nodes, the workflow model and the frontend are listed in `PROJECT.json` as not
modelled, each with a reason: third-party protocols, sequential data flow, or I/O.

## 2. Modules

| Module | What it specifies |
|---|---|
| `TaskQueue` | the `scheduled_task` table, every statement that changes a row, and the processes around it: executors with claims, timers, handlers, crash, stop and restart; reaper passes |
| `Occurrence` | the abstract life cycle of an occurrence: status and attempts alone |
| `RetryBackoff` | `core/executor/backoff.ts`, the curve both retry paths use |
| `MCTaskQueue` | instances of `TaskQueue` for TLC |
| `TaskQueueProofs` | type correctness of `TaskQueue`, proved |
| `TaskQueueBudgetProofs` | the attempt budget and the dispatch marker, proved |
| `Materializer` | the `scheduled_job` clocks, materializer passes, provisioning with its seed pass, edits, and the rows they record |
| `MCMaterializer` | instances of `Materializer` for TLC |
| `TaskQueueLifecycleProofs` | `TaskQueue` implements `Occurrence`, proved |
| `TaskQueueClaimProofs` | the remaining safety of claims, handlers and hosts, proved |
| `ExecutionLifecycle` | slots, registry, claims, waits, stop, shutdown and recovery of the executions of one process |
| `ExecutionLifecycleProofs` | the shape of calls, queue and registry, who runs an execution, who owns a new row, proved |
| `ExecutionSlotsProofs` | the accounting of the concurrency limit, proved |
| `MaterializerProofs` | accounting of the clock, honesty of the queue, catch-ups and backlogs, proved |
| `TaskBroker` | the broker, the local requester and the runners, with the messages between them |
| `CodeCall` | what one call of `startTask` promises, without runners and messages |
| `TaskBrokerProofs` | slots, callers, acceptances and single execution, and that `TaskBroker` implements `CodeCall`, proved |

`TaskQueue` and `Materializer` share the rows: each keeps the other's steps on them
as far as its own properties can tell. `Materializer` has of an executor and a reaper
what they do to the status of a row: a claim takes it, its run settles, a release, a
retry or a reclaim puts it back to pending. `TaskQueue` has the materializer's
retirement and the provisioner's edits as statements on single rows.

### TaskQueue

*Claims.* A claim bumps `leaseEpoch`, so `<<t, e>>` names one claim for ever and
`fire[t][e]` is its life in the process that made it: reply under way, armed,
firing, in the handler, returned or threw, over. `tracked` is the `claimedTaskById`
map, keyed by task id alone as in the code. `replies` holds claim statements that
committed and have not resolved; `releases` holds `releaseClaim` statements that
were issued and have not committed.

*Steps.* One statement, or everything between two awaits, is one step. The claim
takes any set of due rows: other statements may hold rows locked, which SKIP LOCKED
passes over. Timers fire at any time after they are due. A rejected write leaves
the row to the reaper (a write that was applied and then reported an error is the
write followed by a stall). `stop()` cancels every timer and releases what the map
holds; a claim that resolves later, or in an aborted pass, is handed back. A main
whose executor stopped may still commit the claim of an abandoned pass.

*Time* is relative to the database clock: instants are distances from now, `Tick`
decrements them and stops following them where no guard can tell any more. `Skew`
is how far an instance clock may run ahead, which lets a timer fire early.

*Reaper.* `RetireMissedPending` and `FindExpiredLeases` are statements of their own;
the read takes no lock, and each row read is then resolved by its own statement,
in any order with everything else.

*Handlers* are external: they may report a dispatch, return or throw at any time,
or never. The branch for a task type without a handler is unreachable (claims are
scoped to the registered types) and left out. Retention's windows are abstracted
to the deletion of a terminal row.

### Materializer

*Passes.* A pass is one transaction. `Claim` takes the locks and reads the database
time, oldest due job first, jobs locked by another pass skipped; `Commit` makes all
its writes visible at once (planning or deferring each job, recording, retiring,
advancing); `Rollback` leaves no trace. Between `Claim` and `Commit` anything may
happen that does not need the lock. Collapsing the writes into the commit is sound
because nobody reads them earlier, and every other writer of the job waits.

*The plan* is a function of the job and the time: `OccurrencesFrom` (the walk, which
yields its first instant whatever it is), the window and the cap, the misfire
policy, the catch-up run. Instants are integers: a cron is a residue class, an
interval counts from the first instant, a one-off is one instant. `recurring_cron`,
time zones and cron parsing are left out.

*Provisioning.* `InsertMany` commits a job and its first window. An activation
whose insert was ignored reads the winner's job without a lock (`SeedRead`) and
writes its plan once no pass holds it (`SeedCommit`): the one reader that can be
stale, and the only one that moves a clock back. A deletion in between makes its
foreign key fail. `Redefine` withdraws the queued rows and starts afresh. The job
names a main chooses contain a fingerprint of the schedule, so for the host's own
triggers a changed schedule is a deletion and an insertion; `Redefine` is reached
through the package's interface or when a clock's liveness changed. `enabled` is
never cleared by the code and is left out. The instance clock that dates a first
run and the database clock are one clock here.

*Rows in flight.* The withdrawal of an edit (`deletePendingByJobIds`) and the
retirement of a catch-up (`updateToMissed`) touch pending rows only, so a row that is
claimed at that moment stays, and its executor or a reaper may put it back to pending
afterwards. `passedOver` remembers these instants, and two properties excuse exactly
them. `drifted` remembers the jobs whose clock need not be a fire of their definition:
those that were deferred, and those edited while a seed pass held what it had read.

*History.* `origin`, `dropped`, `caughtUp`, `passedOver` and `drifted` (and `charged`,
`lapsed`, `ran` in `TaskQueue`) are read by properties only; no guard looks at them.

### ExecutionLifecycle

*Calls.* A call is one `WorkflowRunner.run` in flight; `pc` is the await it is at. It
goes `created`, `queued` or `admitted`, `claimed`, `marked`, `registered`, `starting`,
`executing`, perhaps `parking` (its run asked to wait), `saved`, over. A run told to
stop is `cancelling`; a run whose entry is gone by the time it would be attached is
`stray`: nothing can stop it and nothing releases its slot. A run that threw is
`aborted` or `failed`, by whether its call is rejected or had returned, until
`processError` has saved it. A call that was rejected outside of the `try`
(`workflow-runner.ts:237-388`) is `stuck`: its entry and its slot stay.

*Errors.* A claim or a `setRunning` that fails in `add` gives the slot back and rejects the
run (`WriteFails`); the row stays as it was, and `refused` remembers it. (A statement
that was applied and reported as failed is not modelled.) `Stick` is every rejection
between the registration and the `try`, also the one the entry's absence causes.
`ProcessError` and `SaveFailed` are the two halves of `processError`. Rejections whose
message says `cancelled`, which `processError` ignores, are not modelled.

*The row* is a status and the number of waits behind it. `SetStatus` is
unconditional, as `setRunning` and the write of a stop are; the claim compares the
status alone; the save of a run refuses to replace `canceled`. An error before the run
starts ends the execution in error (`failExecution`).

*Slots.* The queue is that of production executions (`isUnlimited` is false);
evaluation has one of its own and no calls here. `held` is a reservation in hand.
`lost` counts reservations no code path can release any more: the registry entry
went without its promise being settled, or another call settled in its place.

*Faults* are what users and operators do and what fails: a stop, a timeout, a shutdown,
a crash, a request to resume, a failed statement, a rejected run. Timers fire at any time.

*Start.* `Reboot` is a new process with the recovery from the event log
(`performStartupRecovery`), which ends before the server listens. Which of the running
and waiting rows it marks `crashed` depends on the log, so it is any set of them
(`Crashable`); with one of them it may be the `new` rows of a workflow it deactivates.
`RecoveryRead`, the read of the enqueued rows, comes later, and executions are created
before it as well as after it (`commands/start.ts:403, 409, 415`): `early` remembers
which rows it read although a call of this process had them. It runs them one after
the other; what cannot be run is `unstartable` until `crashUnstartableExecution` has
marked it.

### TaskBroker

*Steps* are what a process does before its event loop turns: `settleTasks` never
yields, and the local requester answers within the step that asks it, so a request
has its task and its settings in one step. The disconnect analysis is an await,
hence `Disconnect` and `Deregister` are two steps.

*Names.* A task is named after the offer it came from; names are used again once
nothing mentions them, which keeps the instance finite. A runner process that went
away may come back only as a new process with the name free (`Connect`).

*Channels* are FIFO in each direction. A socket is open, closing (it buffered frames
that still arrive, nothing can be sent), removed from the connections, or off. What
is sent to a runner that is not listening is lost.

*Timeouts* (request, acceptance, task, offer validity at both ends, heartbeat) fire
at any time. `Internal` says whether a task timeout kills the process or sends a
cancellation. A report of an unresponsive runner disconnects it only while the broker
serves (`Heeded`): `stop` takes the listener off before it drains. A launcher, which is
not in this repository, may defer a task.

## 3. Runs

### TaskQueue

| Run | Checks | Instance |
|---|---|---|
| `TaskQueueSafety` | all safety invariants and the refinement of `Occurrence` | 1 row, 2 mains, 2 reaper passes, 2 attempts, 4 epochs, 2 disturbances |
| `TaskQueueLiveness` | every occurrence is settled, under fairness | 1 row, 2 mains, 1 reaper pass, 1 disturbance |
| `TaskQueueStop` | `stop()` releases every claim: **violated** | 1 main |
| `TaskQueueDispatch` | a dispatched run is not retried: **violated** | 1 main |

- `HandlersExclusive`: two handlers of one occurrence overlap only if the reaper took
  the older one's expired lease over; not through a release, a hand-back, a restart
  or a lost write.
- `AttemptsCountedOnce`: the owner's failure and any number of sweeps charge a claim
  once, although all of them may act on it.
- `AttemptBudgetExact`: a row fails exactly at `maxAttempts`, decided from snapshots.
- `DispatchedNeverFails`: a marker that lands in the middle of a sweep still saves the
  run from being recorded failed.
- `NoPhantomSuccess`: succeeded means that a handler returned or reported a dispatch.
- `RedeliveryStartsClean`: the next owner finds the mutex free and no old marker.
- `StoppedHostHoldsNothing`: nothing armed or tracked after `stop()`, whenever claims
  resolve.
- `Lifecycle`: `TaskQueue` implements `Occurrence`: settled is final, a retry costs one
  attempt, a hand-back none.
- `EventuallySettled`: no crash, stop, timeout or lost write leaves a row pending or
  running for ever.

The epoch bound is not a guard of the code; four epochs admit two full attempts, a
hand-back and a reclaim, which is every way a row changes owner, and the liveness
run needs at least `2 * MaxAttempts - 1 + MaxFaults` epochs so that the bound never
is what stops a row. Two mains and two sweeps are the smallest instance in which a
stale owner, a new owner and two readers of the same expired lease meet. Symmetry is
used in safety runs only. `MaxFaults` counts disturbances in a behaviour.

### Materializer

| Run | Checks | Instance |
|---|---|---|
| `MaterializerSafety` | accounting of fires, what an edit leaves, what a catch-up leaves | 1 job of any kind, any policy, 2 passes, 1 activation, cap 1, window 1, 5 ticks, 1 disturbance |
| `MaterializerSeed` | accounting, coverage of a backlog, no rerun, with a racing activation | 1 cron job, 2 passes, 2 activations, cap 4, window 1, 6 ticks, 2 disturbances |
| `MaterializerBoundary` | a coalesced backlog leaves a run: **violated** at the cap | 1 job, 1 pass, cap 2, no disturbance |
| `MaterializerDefer` | queued rows are fires: **violated** after a deferral | 1 job, 1 pass, 1 disturbance |

- `EveryFireAccounted`: whatever the clock of a job that has not drifted has left behind
  is recorded or was discarded by a policy, across caps, rollbacks, deferrals of other
  jobs, seeds from stale reads, edits and removals.
- `EditsWithdraw`: what is queued is an instant of the job's present definition, or was in
  flight when an edit came by and has been handed back; drifted jobs are excepted.
- `PendingAreFires`: the same without the exceptions, which the code does not keep
  (`MaterializerDefer`).
- `SupersededRetired`: nothing older than a catch-up run is left to run but what was in
  flight when it was recorded. A catch-up stands in for a backlog until the job is edited,
  or a late seed moves the clock back behind it.
- `BacklogCovered`: under coalesce a run newer than everything discarded exists once
  the clock is in the future.
- `NoRerun`: an instant that ran or was given up is never queued again, and one that is
  claimed only by whoever hands the claim back.

Five ticks cover a backlog of more than a pass takes, a grace running out, and two fires
of each schedule (periods of 2 and 3 ticks). `MaterializerSeed` keeps the cap out of reach,
so `BacklogCovered` is judged apart from the boundary defect that `MaterializerBoundary`
exhibits. Claims, outcomes and hand-backs are free in every run; failing plans, rollbacks,
edits and removals are the disturbances. Both instances have one job: that a job which
cannot be planned does not hold up the others of its batch is what the theorem adds, for
any number of jobs (a run of two, by hand, agrees).

That clocks catch up in the end is not claimed: a pass is capped, nothing in the code
relates its rate to that of a schedule, and `durable-scheduler.ts:143-161` warns that the
materializer may fall behind for good. In a model whose clock is bounded such a property
would hold for that reason alone. Deadlock is not checked in these runs: the clock stops
at `MaxTime`.

### ExecutionLifecycle

| Run | Checks | Instance |
|---|---|---|
| `ExecutionLifecycle` | slots, exclusive runs, recovery, final statuses, draining of the queue | 2 executions, 2 calls, 1 slot, 1 wait of the second, 1 disturbance |
| `ExecutionResume` | a claim takes the wait it loaded: **violated** | 2 executions, 3 calls, 1 slot, 2 waits of the first, no disturbance |
| `ExecutionRecovery` | the recovery runs only what an earlier process left: **violated** | 1 execution, 2 calls, 1 slot, no wait, no disturbance |

- `SlotsAccounted`: the capacity is what it should be after any order of reservations,
  releases, removals, failed claims and writes, leaked slots included.
- `QueueOnlyWhenFull`: nobody is throttled beside a free slot.
- `OversubscribedByRemovals`: more executions than the limit run only after a stop took
  one out of the queue, and by no more than the number of such stops.
- `OneRunner`: a timer, a webhook, a poll and the recovery never run an execution twice,
  but for the executions in `early`.
- `NewRowsOwned`: an enqueued row always has somebody who will run it or end it, unless a
  write of it failed in this process; then it waits for the recovery of the next start.
- `EndedStaysEnded`: an ended execution changes only by a stop, by a start under way
  that marks it running over a stop (both are what the code does), or by a stray run
  that ends after its execution was marked as crashed; those in `early` are excepted.
- `QueueDrains`: a throttled call gets its slot, unless slots leaked, a rejected call keeps
  one, or the process ends.
- `RecoveryRunsLeftOvers`: no call begins to recover an execution that a call of this
  process has.

Two calls are enough for a recovery beside the creator of a row, two resumptions of one
wait, a stop beside a start, and one call throttled behind another. `ExecutionResume` has
three, two for one execution and one for another that competes for the slot, so that a
resumption is throttled behind a run of the same execution. One disturbance is enough for
each hazard alone; what takes two (a stray run whose execution is marked as crashed, an
unstartable execution after a rejected run) is covered by the theorems, whose inductive
invariants TLC checked with two disturbances by hand. Deadlock is not checked: with
nothing in flight and no disturbance left the process is idle.

### TaskBroker

| Run | Checks | Instance |
|---|---|---|
| `TaskBroker` | callers, slots, acceptances, single execution, return of every call, and the refinement of `CodeCall` | 2 requests, 1 runner that is also a launcher, 1 slot, 2 offer names, 1 refresh, 1 disturbance |

- `SlotsRespected`: tasks and open offers of a runner never exceed its slots.
- `CallersTracked`: a waiting caller has its request queued or exactly one task, and no
  task is tracked for anybody else.
- `OneAcceptance`: a request is being accepted by exactly as many runners as it says.
- `SlotsOwned`: a slot of a connected runner is held only by a task the broker knows or
  has told the runner to drop.
- `RunsAtMostOnce`: code begins to run once, and never for a caller who was told that no
  runner took it.
- `CallsReturn`: every call of `startTask` returns, even if every runner is deaf.
- `CallLifecycle`, the refinement of `CodeCall`: a call is settled once and for all; its code
  begins once at most, after a runner took it. It may begin after the caller got an error or
  cancelled (the settings were on their way), never after the caller got the answer.

Two requests and one slot make requests compete, refusals and rematches cross, and an
offer name come back while messages about the earlier one are on their way. Larger
instances were run by hand with the same result: internal mode, two slots, and two
runners of which one is a launcher.

### Fairness

`TaskQueue!Fairness`: time passes; the executor loop of a main that is up keeps
claiming and the reaper keeps sweeping, because `Loop.tick` re-arms itself before it
launches a pass and a timed-out pass gives its slot back; a stopped process exits and
is started again by its supervisor. Nothing is assumed of handlers, timers, replies
or releases: these may stall for ever, and the lease is what recovers them.
Nothing is assumed of the materializer, of which only safety is checked.
`ExecutionLifecycle!Fairness`: a call in flight goes on (its awaits resolve and its run
ends or goes to wait, both of which a timeout of the workflow enforces); that it fails
instead is possible and not assumed. Nothing is assumed of users, webhooks, polls,
timers and the recovery. `TaskBroker!Fairness`: the timers of requests and tasks, which live in the main
process, go off; a timer that was started again is another timer, so each is fair for
each number of refreshes. Nothing is assumed of runners, connections and messages.

## 4. What the checks found

1. **stop() can leave a claim leased** (`TaskQueueStop`). The map of tracked claims is
   keyed by task id. When a main whose lease lapsed claims the row again, the older
   claim's timer removes the newer entry, and `stop()` cancels that timer without a
   release. The reaper recovers the row later, at the price of an attempt.
2. **A handler that reported its dispatch and throws is retried** while attempts are
   left (`TaskQueueDispatch`), against the promise in `task-handler.ts`; a test expects
   the code's behaviour.
3. **coalesce can drop a whole backlog** (`MaterializerBoundary`): if the cap ends the
   walk exactly at the newest missed instant while the next instant lies ahead in the
   window, the catch-up run is deferred to a pass that no longer sees a backlog. This
   is another case than the drain-rate gap `plan.test.ts` documents.
4. **A deferral leaves a clock that is no fire** (`MaterializerDefer`): the retry instant
   is recorded as an occurrence by the next pass.
5. **A throttled resumption takes over a later wait** (`ExecutionResume`). The claim of a
   waiting row compares its status, which is the same in every wait. A resumption that
   loaded the data of one wait and was throttled until the execution waited again
   claims it and runs from the old data. While a resumption is throttled the row still
   waits, so each poll of the wait tracker sets it off again.
6. **The recovery of enqueued rows takes rows of this process** (`ExecutionRecovery`). The
   server listens before the recovery reads the rows, so an execution created in between,
   still `new`, is taken for one that a shutdown left. Its creator marks it running
   whatever its status, and so both run it, each saving its own end.

Met while modelling, described by the properties rather than violated:

- A seed pass of an activation that lost the insertion race plans from the row it read
  (`durable-job-provisioner.ts:257`). If a pass has caught the job up meanwhile, the seed
  queues again instants which the catch-up dropped, older than the run that stood in for
  them; if the job was redefined meanwhile, it queues instants of the old schedule.
- Stopping a throttled execution frees capacity it never had and lets the next one
  through (`concurrency-queue.ts:44`): the limit is passed by one per stop.
- A stop or a timeout that finds the registry entry waiting while its run is still
  saving itself drops the entry and leaks its slot until the process restarts
  (`active-executions.ts:233`).
- A run settles whatever entry its execution has when it ends; if the execution was
  resumed between its save and that moment, the entry of the resumption goes, which
  is then out of control (`active-executions.ts:246`).
- A stop between registration and launch is overwritten by the unconditional
  `setRunning` (`workflow-runner.ts:388`), and the write of a stop replaces a final
  status saved since it read the row (`execution.service.ts:710`).
- A `setRunning` that fails in `add` (`active-executions.ts:145`) leaves a `new` row nobody
  has in hand until the next start, and a rejection before the `try` of `runMainProcess`
  (`workflow-runner.ts:388`) leaves the entry and its slot until a stop.
- A recovered execution whose entry is gone when its run would be attached is marked as
  crashed while the run goes on out of control, and its end replaces that status.
- A row that waits may be marked as crashed by the recovery from the event log
  (`execution-recovery.service.ts:126`, unguarded), against the comment at
  `execution.repository.ts:361` that only rows in progress should be; no run exhibits it.
- A parent resumed by a child that ended before the parent's wait was saved is not
  woken again (`workflow-helpers.ts:548`, `wait-tracker.ts:160`); not modelled.
- `WaitTracker.stopTracking` clears timers and keeps their entries
  (`wait-tracker.ts:255`), so that a main that leads again sets none for these
  executions; leader changes are not modelled.
- `flagSilentRunners` says a healthy runner with spare capacity keeps offers pending
  (`task-broker.service.ts:794`); one whose offers just expired and whose next are on
  their way is reported all the same. A cancellation while the request is still queued
  is lost, since `cancelTasks` knows tasks only (`task-requester.ts:221`).

## 5. Theorems

Proved with TLAPS for all sets of tasks, hosts and reapers and all values of the
constants that satisfy `TaskQueueAssumption` (nulls are distinct from values;
`maxAttempts`, lease and batch are positive; the retry curve is a natural number).

- `TypeCorrect`: `TypeOK` is invariant; it is inductive as it stands.
- `SnapshotsAgree`: the inductive strengthening. `AttemptBudgetExact` is not inductive:
  the executor compares the attempts it read at the claim, the reaper those it read
  in its sweep. `ClaimCurrent` says that a claim which still owns its row knows its
  attempts, and that the row has no marker the claim did not start; `SweepCurrent`
  says a sweep's epoch is never ahead of the row and its attempts are right while
  the epoch is the row's; `RowSound` is the row's own part; `ReplyInv` says a claim
  whose reply is under way is untouched. The proof is local to a row: a step either
  leaves what the invariant reads of a row, or is one of a few transitions.
- `BudgetCorrect`, `DispatchCorrect`: `AttemptBudgetExact` and `DispatchedNeverFails`
  follow.
- `LifecycleCorrect`: `TaskQueue` implements `Occurrence` under the mapping of a row to its
  status and attempts. A write of an owner or a sweep changes a row only from the
  running state it was fenced on, and the attempts it writes are those of its snapshot,
  plus one where the abstract step charges one; `SnapshotsAgree` supplies the latter.
- `ClaimsAgree`: the joint invariant `RowsInv /\ MainInv`, on top of `SnapshotsAgree`. Of a row:
  `Clean` (a row that can be claimed has no mutex and no marker), `Honest` (a marker, a
  completion in preparation and a success go back to a claim that returned or
  reported a dispatch), `Accounted` (the charged claims are as many as the attempts, and
  a claim that still can be charged is not among them), `Exclusive` (a claim in its
  handler that is older than the row's epoch has lapsed; the current one holds the
  mutex). Of a main: what it tracks is armed, a released claim is over, a stopped main
  tracks and arms nothing.
- `ExclusiveCorrect`, `CountedCorrect`, `SuccessCorrect`, `CleanCorrect`, `StoppedCorrect`: the five
  safety properties follow. None is inductive: exclusion rests on who may reset the
  mutex, counting on the epochs, cleanness on which status a row comes from.

With these every safety property of `TaskQueue` and its refinement are proved, for
batches of any size; no run of two rows is kept beside the proofs.

Of `ExecutionLifecycle`, for every limit and any numbers of executions, calls, waits and
faults (`ExecutionAssumption`: the first three are positive):

- `ShapeCorrect`: `Shape` is inductive: types, a call in flight has an execution, the queue
  names each throttled call once, the run of a registry entry is a call of that execution
  which started and is not finalized. `TypeCorrect` follows.
- Each action is shown once to be a step of one of a few kinds (`Quiet`, `Proceeds`,
  `Finishes`, `Told`, `Begins`, `Crashes`, `Cancels`, `Restarts`, `ReadsRecovery`), and every later
  argument is about the kinds alone.
- `NewRowsAreOwned`, from `RowsKnown`: whoever has a row in hand finds it, and a row that is
  past its start never becomes new again.
- `AtMostOneRunner` and `EndsAreKept` rest on `Ownership`, whose parts hold only together. A
  call owns its execution from the claim on, or from the creation of the row, unless the
  recovery read that execution too (`Pursues`, `Owns`). An execution has one owner
  (`OneOwner`), which a claim respects because the row of an owned execution is not one a
  claim expects (`OwnersAgree`); an execution the recovery has in hand and that is not in
  `early` has nobody else (`RecoveryApart`, by `Recovering` and `Alone`), which lasts
  because nobody else takes over a row that is new; and a run that ended while its entry
  still stands has written its row (`EndedRuns`), so that a stop of the entry cannot revive
  it. There is no premise: executions may start at any time.
- `CapacityAccounted`, `ThrottledOnlyWhenFull`, `LimitPassedByRemovals`: proved together. A slot
  given back is passed on to the queue without the capacity being taken, which keeps the
  count right only if calls queue when the limit is reached.

With these every safety property of the `ExecutionLifecycle` run is proved.

Of `Materializer`, for any jobs, passes, activations, windows, lookaheads, caps and graces
(`MaterializerAssumption`: nulls are distinct from values, a cron schedule fires first
within its first period, cap, batch and retry delay are positive):

- `TypeCorrect`, from `Shape`: types, one row per instant of a job, no job held by two
  passes, and the jobs held or being seeded have a live clock. Each action is shown once to be, for each job, one of a few
  kinds of change (`JobStep`: planned or deferred by a pass, seeded, defined, removed, a row
  settled, a policy edited, untouched); the later proofs are about one job and these.
- `NothingQueuedAgain`: a row that left the queue bars its instant, since every writer
  ignores instants that have a row.
- `ClockLosesNothing` and `QueueHoldsFires`, from `Accounts`: of a job that has not drifted,
  every fire before the clock is recorded or was dropped; what is queued is a fire or was
  passed over; and a seed under way read a clock of the present definition that the job has
  left behind, or still has. Plans may fail and edits come at any time: the properties
  except the jobs these set adrift, from then until their next edit.
- `NothingOlderWaits`, from `CatchUps`: `SupersededRetired` for every order of passes, seeds,
  deferrals, edits and hand-backs.
- `LatestIsKept`: `BacklogCovered` for policies that all coalesce, where no walk is cut by the cap
  (`[]WalksFit`), which is the boundary `MaterializerBoundary` violates it at.

The facts about walks (`LeastFacts`, `GreatestFacts`, the fires of a schedule, what a policy
keeps of them) are proved once and cited throughout.

Of `TaskBroker`, for any numbers of requests, runners, slots, names, refreshes and faults,
in both modes (`BrokerAssumption`: only what the bounds are; `MaxAcceptTimeouts`,
`MaxConcurrency` and the counts are positive), five invariants, each on top of the last:

- `Types`: types of the variables and of every message under way; a message to or from a
  runner is about one of its own offers. `SlotsRespected` is part of it, since it is
  inductive with types: `sendOffers` never makes more than the slots it counts free.
  `TypeCorrect` and `SlotsNeverExceeded` follow.
- `SlotLife`: what the name of an offer stands for in the six places that may mention it:
  the list, the acceptance, the task, the runner, and both channels. `SlotsOwned` alone is
  not inductive: it needs that the runner is asked first and once (`Leads`), that an offer
  on its way is mentioned nowhere else (`Sole`), that nothing is left of a runner that was
  deregistered. A name used again is safe because all its places are then empty.
  `SlotsAreOwned` follows.
- `QueueSound`: `Booked`, that marks and acceptances of queued requests agree, and `Tracked`,
  that results, queue and tasks do. Matching, refusal, deferral, time-out and
  deregistration each take a mark away exactly with its acceptance.
  `CallersAreTracked` and `AcceptedByOne` follow.
- `OnceSound`: the settings of a request are in one channel, once, and in none before a runner
  took the request or after the code began. `RunsOnce` follows.
- `Owed`: settings on their way to a task that waits are those of the request the broker
  tracks for it, or of a caller that has an error by now; and a runner is never asked for an
  offer while settings for it are under way. The first half needs the second, since a name
  is used again, and `SlotLife`, by which a runner that sent a result no longer waits.

`CallsImplemented` follows from all five, step by step: `Served` says that every step moves
calls as `CodeCall` does, of which `Take` and `Lose` are the two ends of an acceptance, `Fail`
ends several calls at once when a runner is deregistered, and `Begin` is the arrival of
settings.

The model's `Only`, which filters a sequence, is defined by positions because the provers can
make nothing of `SelectSeq`, which is recursive; `OnlyFacts` proves that it keeps what is in
the set, in order and without repetition.

With these every safety property that a passing run checks is proved. What is only
model-checked: liveness
(`EventuallySettled`, `QueueDrains`, `CallsReturn`), which is out of the
prover's reach and stays with TLC.

## 6. Not modelled

Cron parsing, time zones and `recurring_cron`; pass slots, timeouts and jitter of the
loop beyond "a pass may be abandoned"; retention windows and budget; the handlers'
deduplication key; the diff of a node's whole set of jobs; SQLite and legacy forms of
the statements; metrics, tracing and logging; a claim's chunking of its statements;
plan failures inside a seed pass.

Of executions: queue mode, evaluation executions and their queue, response promises and
streaming, parents and children, leadership of the wait tracker, the queue's
`cancelMany` at shutdown (its list is empty unless everything is cancelled), executions
deleted instead of saved. Of the broker: data requests and RPC between a task and its
caller, several task types, a runner that reconnects under the same identity while its
old connection is removed, start and health checks of runner processes, the
acceptance timeout of the requester (the local one answers at once).

## 7. Plan

In order of importance:

1. `TaskQueue`, `Occurrence`, `RetryBackoff` and their proofs (done).
2. `Materializer` and its proofs (done); left is an abstract specification of a job's queue
   (an instant is recorded once and then settles).
3. `ExecutionLifecycle`, `TaskBroker`, `CodeCall` and their proofs (done); left is an abstract
   specification of an execution's row.
4. `TriggerHandlers`: the schedule and poll handlers with the execution
   deduplication key and at-least-once redelivery. Property: one execution per
   occurrence; where poll, which has no key, differs.
5. `Provisioning`: the diff of a node's jobs, with two mains and the queue of
   activations; composed with `Materializer` to judge a redefinition between a stale
   read and its writes.
6. `PassLoop` and `Retention`: slots, timeouts and abandoned passes; window budgets.
   Small instances, liveness of both.
7. `Recurrence`: the every-N filter as pure functions against a reference definition.
