# TLA+ models of the agent control plane

This directory holds TLA+ models of the server in `src/server`: the service that
queues, runs, cancels and recovers the runs ("heartbeats") of AI agents, the
lock and the checkout that let one agent at a time own an issue, budgets,
routines, and the workers and jobs of plugins. TLC checks the models on
small instances; TLAPS proves the main invariants for every value of the
constants. `PROJECT.json` lists runs, theorems, hazards, and for each
definition the source lines it stands for.

Contents: [1 The system](#1-the-system) ·
[2 Modules and code](#2-modules-and-code) · [3 Runs](#3-runs) ·
[4 Disagreements with the documentation](#4-where-code-and-documentation-disagree) ·
[5 Proofs](#5-proofs) · [6 Not modelled](#6-not-modelled) · [7 Plan](#7-plan)

## 1 The system

The server is one Node process over PostgreSQL. Requests and background tasks
are chains of awaits over shared memory and single SQL statements, most of them
outside a transaction. So a step of one activity can land between any two
awaits of another, and a restart loses the memory and keeps the rows.

### Components

| component | state | operations | interacts with |
|---|---|---|---|
| **Heartbeat run scheduler** `services/heartbeat.ts` | rows `heartbeat_runs`, `agent_wakeup_requests`, `agents.status`; memory `startLocksByAgent`, `activeRunExecutions`, `runningProcesses` | `enqueueWakeup`, `startNextQueuedRunForAgent`, `claimQueuedRun`, `executeRun`, `finalizeAgentStatus`, `cancelRunInternal`, `cancelActiveForAgentInternal`, `cancelBudgetScopeWork`, `reapOrphanedRuns`, `resumeQueuedRuns` | everything below that starts or stops work |
| **Issue execution lock** `heartbeat.ts`, `issues.ts` | `issues.execution_run_id`, `execution_agent_name_key`, `checkout_run_id`; parked wakeups (`deferred_issue_execution`) | wakeup transaction, `releaseIssueExecutionAndPromote`, `enqueueProcessLossRetry`, `checkout`, `adoptStaleCheckoutRun` | run scheduler, issue service |
| **Issue service** `issues.ts` | issue status, assignee, checkout run | `checkout`, `assertCheckoutOwner`, `release`, `update` | lock, routines |
| **Agent service** `agents.ts` | `agents` rows, API keys, config revisions | `pause`, `resume`, `terminate`, `remove`, `activatePendingApproval` | scheduler (routes cancel the runs) |
| **Budgets and costs** `budgets.ts`, `costs.ts` | policies, incidents, override approvals, `pauseReason` of a scope | `evaluateCostEvent`, `upsertPolicy`, `resolveIncident`, `getInvocationBlock` | scheduler, through `cancelWorkForScope` and the claim's check |
| **Startup and recovery** `index.ts` | timers | startup reap and resume, the scheduler interval | scheduler, routines |
| **Child process runner** `adapter-utils/server-utils.ts` | `runningProcesses` | `runChildProcess` | adapters, scheduler |
| **Routines** `routines.ts`, `cron.ts` | routines, triggers with `next_run_at`, routine runs | `dispatchRoutineRun`, `tickScheduledTriggers`, `firePublicTrigger`, `syncRunStatusForIssue` | issues, scheduler |
| **Plugin worker manager** `plugin-worker-manager.ts` | registry of handles; per handle status, child, crash counter, back-off timer, pending RPCs | start, stop, restart, exit with back-off | plugin lifecycle, jobs |
| **Plugin lifecycle and loader** `plugin-lifecycle.ts`, `plugin-loader.ts` | `plugins.status` | load, enable, disable, unload, upgrade, restart | worker manager, jobs |
| **Plugin jobs** `plugin-job-*.ts` | `plugin_jobs`, `plugin_job_runs`, `activeJobs` | tick, trigger, dispatch, register, unregister | worker manager, loader |
| Workspace runtime services | services by id and reuse key, leases per run, idle timers | ensure, release, idle stop, child exit, adopt at startup | `executeRun` |
| Approvals and hiring | `approvals` | approve, reject, request revision, resubmit | agents, budgets |
| Others | see section 6 | | |

### How they interact

* A wakeup (timer, assignment, comment, mention, routine, API) enters
  `enqueueWakeup`. For an issue it goes through the wakeup transaction, which
  queues a run and takes the lock, merges the wakeup into the run that works on
  the issue, or parks it.
* Every event that adds a queued run or frees a slot calls
  `startNextQueuedRunForAgent`. It drains the agent's queue under a per-agent
  promise chain, the *start lock*.
* A run ends by its adapter's return, an exception, a cancellation, a pause, a
  budget stop or the reaper. Each of these writes the row, releases the issue
  lock (promoting a parked wakeup), recomputes the agent's status and starts the
  next run. They race with each other.
* Routes, routines and plugins each build their own `heartbeatService(db)`.
  The start locks and the child registry are shared by all instances of the
  process, `activeRunExecutions` is not.
* The budget hook and the pause route call the scheduler after they have written
  their own rows; the claim and the enqueue check those rows again, at another time.

### What is hard, and what makes it correct

* **Queue.** A run starts once, only from `queued`, only in a free slot, never
  after it has settled; every queued run is started or cancelled; every running
  run settles, also over a restart; a pause stays in force.
* **Issue lock.** A run created under the lock keeps it while it is active; somebody
  is still to serve each parked wakeup; at most one owner run per issue; an agent is
  parked at most once per issue. The code breaks each of the first three in known
  ways; the models name them and show that there are no others.
* **Issue service.** A run that was told it owns an issue keeps it until its
  checkout is ended; a stale checkout is adopted only from a finished run; checkout,
  status and assignee agree.
* **Budgets.** Beyond a hard limit that its claim looks at, nothing is at work once
  every request is over; no budget operation lifts a pause made by hand.
* **Routines.** A slot is claimed once; a key leaves one run per source and trigger; an
  execution issue and its run exist together or not at all, unless the dispatch is rolled
  back; a dispatch ends, unless its wakeup waits for good.
* **Plugins.** One worker process per plugin; a deleted worker stays down; an
  operation ends whatever the worker ignores; the schedule starts a job once each time
  it is due, and a due job gets its turn unless every tick is full without it.

`PROJECT.json` lists the hazards behind these sentences, each at its line, with
the property that covers it or the reason why none does.

## 2 Modules and code

### `IssueExecution.tla`: the issue execution lock

One action is one SQL statement or one transaction. The wakeup transaction is
two: `EnqueueBegin` locks the issue row and reads, `EnqueueCommit` writes,
because it decides from *run* rows it does not lock. Ending a run is two, because
the terminal status is committed before the transaction that releases the lock
(`settle` holds the callers that owe a release).

| action | code |
|---|---|
| `EnqueueBegin`, `EnqueueCommit` | `enqueueWakeup`, the transaction |
| `EnqueueUnlocked` | `enqueueWakeup` without an issue, or for a mention |
| `Claim`, `Finish`, `Cancel` | `claimQueuedRun`; end of `executeRun`; the cancel functions |
| `ListRunning`, `Detach`, `Reap`, `Unlist`, `Retry` | `reapOrphanedRuns` (the list it judges by, its two writes), `enqueueProcessLossRetry` |
| `Release` (`Promote`, `FreeLock`) | `releaseIssueExecutionAndPromote` |
| `Checkout`, `AdoptStaleCheckout`, `EndCheckout` | `issues.ts` checkout, adoption, release/update |
| `SetAgentStatus`, `CancelPending` | agent pause and resume; `cancelPendingWakeupsForBudgetScope` |
| `Exit`, `Crash` | a child that outlived the server ends; the server restarts |

The reaper judges by the rows it has listed (`listed`) and by the `activeRunExecutions`
of its own instance. So `Reap` fails a run that is at work or has ended since, and its
retry then runs beside the lock; and `Detach` writes "running" whatever the row says by
then, so that an ended run is active again without its lock.

Three history variables name what the code does to the lock: `stolen`, the issues whose
lock an adoption took from an active run; `revived`, the runs `Detach` has brought back;
`orphaned`, the issues whose lock was left to a run that had ended (by a crash before
the release, by a release that goes on with the first of two locked issues, or because
the run found by a wakeup ended before the wakeup was committed).

Abstractions: one terminal status; agents' names are the agents; which queued run
starts next is open; contexts are reduced to the issue. Of a checkout's conditions only
that on the execution lock is kept, so a checkout is possible more often than in the code
(`IssueCheckout` has the others). The check of the agent's status in `enqueueWakeup`, some
awaits before the transaction, constrains nothing: the agent may be paused in between.

### `RunScheduler.tla`: the run queue of an agent

One action is what happens between two awaits. `chain[a]` is the promise chain
of the start lock, with the callers that wait in it; `drain[a]` is the local
state of `startNextQueuedRunForAgent` for the caller at its head; `exec[r]` is
`executeRun(r)` with its service instance and child process; `job[t]` is a
caller of `finalizeAgentStatus` and of the start lock (an execution, a canceller,
the reaper); `waking`, `pauser`, `stop` and `recover` are the other chains of awaits.

| actions | code |
|---|---|
| `EnqueueCheck`, `EnqueueInsert` | `enqueueWakeup`: budget and status check, later the insert |
| `DrainNothing`, `DrainList`, `DrainLaunch` | `startNextQueuedRunForAgent` |
| `ClaimRefused`, `ClaimAllowed`, `ClaimCancelled`, `ClaimUpdate`, `ClaimWake` | `claimQueuedRun` |
| `ExecCheck` .. `ExecWrite`, `AdapterReturn`, `ExecThrow` | `executeRun` |
| `FinalizePaused`, `FinalizeCount`, `FinalizeWrite` | `finalizeAgentStatus`, then the start lock |
| `ApiCancel`, `CancelRead`, `CancelWrite` | the cancel route, `cancelRunInternal` |
| `Pause`, `PauseList`, `PauseCancel`, `PauseEnd`, `ResumeAgent` | the pause and resume routes, `cancelActiveForAgentInternal` |
| `BudgetStop` .. `BudgetEnd`, `BudgetRaised` | `pauseScopeForBudget`, `cancelBudgetScopeWork`, `resumeScopeFromBudget` of a company |
| `RecoveryBegin`, `ReapSkip`, `ReapDetached`, `ReapLost`, `Retry`, `ReapEnd`, `ResumeQueued`, `RecoveryEnd` | the interval: `reapOrphanedRuns`, `resumeQueuedRuns` |
| `Crash`, `ProcessExit` | restart with the startup pass; a detached child ends |

Abstractions: the issue lock (the other module); spend (the company is blocked or
not); `timed_out` is `failed`; `terminated` and `pending_approval` act like
`paused`; a run's status and its wakeup row's are one step except in the claim;
coalescing adds no run; the three reads of a drain (agent, count, list) are one step, as
are the two of `finalizeAgentStatus`; one pause pass per agent, one budget stop
and one recovery pass at a time (interval passes of the code can overlap);
wakeups come from an instance of the routes, the interval has its own. A run of another
instance may be stale for the interval's reaper while its workspace is set up or its
adapter is at work. Database errors and agent removal are left out.

### `RunLifecycle.tla`: the contract of the run rows

The abstract specification: `Submit`, `Start`, `Settle`. A run is submitted once,
starts once, from `queued` and only in a free slot, and never leaves the terminal
statuses. `RunScheduler` implements it with the mapping `RowsOf` (the property
`KeepsContract`).

### `IssueCheckout.tla`: who owns an issue

One row (status, assignee agent and user, checkout run, lock) and requests as
chains of awaits: `req[q]` is what a request has read and is about to write.
The claim and the adoption of `checkout` have their conditions in the `WHERE`
clause; `update` and `release` judge a row they read earlier and write by id.

| actions | code |
|---|---|
| `CheckoutBegin`, `CheckoutTry`, `CheckoutReread`, `CheckoutClaim` | the route, and `checkout`: claim, read again, take up an unclaimed issue |
| `Judge`, `Adopt` | `adoptStaleCheckoutRun`: the read of the run, the conditional update |
| `Arrive`, `AssertCheckoutOwner` | `assertAgentRunCheckoutOwnership` of the routes, `assertCheckoutOwner` |
| `UpdateRead`, `UpdateWrite`, `ReleaseRead`, `ReleaseWrite` | `update`, `release` |
| `StartRun`, `EndRun`, `ReleaseLock`, `Detach` | what `IssueExecution` has in detail: a run with or without the lock, its end, the release, the reaper's write over a terminal row |

`"todo"` stands for every status but `in_progress`: no statement tells the
others apart. A run that has ended may still send requests, as a cancelled run
does whose process is still there. `granted` is a history variable: the active
runs that were answered as the owner since the checkout was last ended; `raced`
tells that an update wrote against an assignee that had changed since its read;
`revived` are the runs that `Detach` has brought back. Such a run can be told that it owns
the issue between the judgement of its checkout as stale and the adoption.

### `Budget.tla`: hard limits

Scopes (a company, an agent, a project) have an amount, a pause and incidents. A
request `proc[p]` evaluates a cost event policy by policy (`ReadPolicies`,
`Evaluate`, `SoftIncident`, `HardIncident`, `LookFor`/`Insert` with the unique
index, `PauseScopeForBudget`, `CancelWork`), or changes a policy (`UpsertPolicy`,
`Observe`), raises it (`RaiseBudget`, `WriteRaise`, `ResumeScopeFromBudget`,
`ResolveOpenIncidents`) or dismisses an incident. `PauseByHand` and
`ResumeByHand` are the agent routes, `CheckRun` and `ClaimRun` the budget check of the claim
and the conditional claim of a run, `NewMonth` the turn of the window. `enqueueWakeup`
looks the project of an issue up, but inserts the run later, and the claim asks about a project
only if the context of the run names it; an assignment's does not
(`issue-assignment-wakeup.ts:41`). `Unnamed` are the runs whose context does not, and
`Checked(r)` the scopes the claim of `r` asks about. `missed` is a history
variable: the scopes an evaluation skipped because an insert aborted it, or that a
raise resumed after the spend had reached its amount.

### `Routine.tla`: dispatches of a routine

A dispatch is one transaction that holds the routine's row and a connection
from `Connect`/`LockRow` to `Finish` or `Undo`; `CreateIssue` and `Wake` run on
other connections. `TickClaim` is the conditional update of `nextRunAt`, `Missed` the
catch-up loop, `Call` a manual, API or webhook call (`Sources`) that names a trigger or
none (`Triggers`), with or without a key. A key is looked up with its source and
trigger (`origin`), so another source or trigger leaves another run. `FindLive` has both
queries of `findLiveExecutionIssue`. A wakeup awaits the start of the agent's next run, and
with it the start lock, for which there is no time-out: it may never return ("stuck"). `Undo`
deletes the issue; the database may refuse that or another statement (`Rollback`),
and then the issue stays (`leaked`). `SyncRead`/`SyncWrite` are `syncRunStatusForIssue`;
`IssueWake`, `RunEnds` and `ReleaseLock` are what the heartbeat service does to the issue's
lock. `Crash` rolls the open transactions back and keeps what other connections have committed.

### `PluginWorker.tla`, `PluginLifecycle.tla`: a plugin's worker

`PluginWorker` is the manager: the registry entry, handles with status, child and
back-off timer, children that answer `initialize`, hang, crash or ignore
signals, and stops that escalate from the shutdown call to SIGTERM to SIGKILL. An action is a
macrotask; the microtasks a settled promise runs come before any other (`Quiet`).
`PluginLifecycle` extends it with the row `plugins.status` and the operations that
drive the worker: `Enable`, `Disable`, `Unload`, `Upgrade`, `RestartWorker`, and
`loadAll` at startup. Its two lifecycle managers differ in how they stop a worker, as in
the code.

### `PluginJobs.tla`: scheduled jobs

A tick (`TickBegin`, `TickDispatch`, `TickEnd`) starts up to `MaxConcurrentJobs` due
jobs and waits for them; `Trigger`, `TriggerRows` are the call by hand; `Create`,
`Mark`, `Answer`, `Write`, `Advance` are `dispatchJob`; `TakeDown` .. `Registered` are
`unloadSingle` with `unregisterPlugin` and the next activation, in which `SyncJob` writes
the declared jobs one by one and `EnsureList` lists those without a time. The worker
is up or not, and may exit at any moment: what `PluginLifecycle` shows of it
(`RunningAnswers`) is all that the jobs use. `PassedOver(j)` is the tick that leaves a due
job out because others use up the limit.

### The other modules

The `MC...` modules instantiate a module for TLC where a configuration cannot do it
alone: symmetry sets, the runs and patches of `IssueCheckout`. The
`...Proofs` modules hold the theorems. Next to a definition there may be a
mutant of it (its comment says so, or its name does): the form a plausible bug
would give that code. No specification uses the mutants.

## 3 Runs

| run (module) | what it asks | instance |
|---|---|---|
| `lock_reaper` (`MCIssueExecution`) | Types, the inductive `LockInv`, and `DeferralAnswered` under fairness, with a reaper that acts on a list read earlier, from an instance that does not await the run | 2 agents, 1 issue, 3 runs, 1 parked wakeup, 1 mention; the first run may be listed while it is awaited |
| `lock_restart` (same) | `DeferredHasHolder`, `OneDeferralPerAgent`, `IssueRunHoldsLock`, `NoStranding`, `ActiveHolderKeepsLock`, with checkouts, adoptions, pauses, a crash, surviving children and the reaper | 2 agents (symmetric), 1 issue, 3 runs, 2 parked wakeups, 1 crash |
| `sched_drain` (`RunScheduler`) | `KeepsContract`, and `QueuedRunsDrain` without the scheduler interval | 2 runs, 1 slot, API cancels |
| `sched_pause` (same) | Types, `RunningIsOwned`, `KeepsContract` with pauses, resumes and a company stop | 2 runs, 1 slot |
| `sched_restart` (same) | `QueuedRunsDrain`, `RunningRunsSettle` over a crash | 2 runs, 2 slots, 1 crash, detached children |
| `issue_checkout` (`MCIssueCheckout`) | Types, `CheckoutInProgress`, `OwnersHold`, `OneAssignee` | 2 requests at a time (symmetric), runs `r1`, `r2` of `a1` (symmetric) and `r3` of `a2`, 2 patches, `r1` or `r2` revived |
| `budget` (`Budget`) | Types, `OverBudgetStops` and its inductive form `LimitInv`, `ManualPauseStands` | an agent and its project, 1 cost event and 1 board request at a time, 2 runs of which one does not name the project, amounts 0 and 2, spend up to 2, 1 turn of the month |
| `routine_ticks` (`Routine`) | Types, `ClaimedOnce`, `IssuesHaveRuns`, `DispatchEnds` | 2 ticks, a board request, 3 time steps, catch-up on and off, cap 2, wakeups that get stuck |
| `routine_calls` (same) | `KeyedOnce`, `IssuesHaveRuns` under each concurrency policy, with errors, refused statements and a crash | 2 calls, by hand (for the schedule's trigger) or by the webhook, 1 key or none, a board request |
| `plugin_worker` (`PluginLifecycle`) | Types, `OneWorker`, `UnregisteredIsDown`, `RunningAnswers`, `OperationsEnd` | 2 handles, 2 children, 1 crash before giving up, 1 server restart |
| `plugin_jobs` (`PluginJobs`) | Types, `ScheduledOnce`, `ActiveIsDispatched`, `RunsAreCompleted`, `DueJobsAreServed` | 2 jobs, 3 run rows, limit 1, 1 trigger, 1 take-down or restart |
| `bug_lock_deadlock` (`RunScheduler`) | section 4 | |

**Why these bounds.** Two agents and one issue make every outcome of the wakeup
transaction happen (merge for the owner, park for the other). Three runs are an
owner, its successor by promotion or retry, and one more. Two parked wakeups
let a promotion leave one behind. Two issues are needed only for a run that
holds two locks (`bug_checkout_strands`). The stale list of the reaper and the checkouts
are in two runs because each alone has every outcome of its own; the invariant that
holds for both together is proved. In the scheduler an agent's queue, slots, chain and status touch other
agents only through the budget stop and the order of `resumeQueuedRuns`; so one agent
with two runs is enough for one to hold the slot, the lock or the drain while the
other is queued, cancelled, reaped or retried. Two slots (`sched_restart`) give a drain
with several claims. One crash at any step reaches every half-done sequence; a second one
only repeats it with the rows the first has left.

A checkout can be taken over by another run of the same agent and by a run of
another one, so `issue_checkout` has two runs of one agent and one of a second; two
requests at a time are one that has read and one that writes in between, and each ends and
begins again without bound. Its two patches give the issue back to an agent or hand it to
a user; the four `bug_` configurations of the module use five, and the theorems hold for every set of
patches. In `budget` an agent's scope is inside its project's (a raise of one must not
lift the other) and one of the two runs does not name the project; a company differs from a
project that every run names only in what a pause stops, which `sched_pause` has. An evaluation
and a board request are the two actors that
race; the spend stops at the limit because more of it changes no comparison. In the routine
model two ticks or two calls race for a slot or a key, and three time steps let a tick be
late by more than the cap. For a plugin's worker two children are the old and the new one,
and for its jobs three rows are those of two ticks and one that a trigger adds; with two
jobs and room for one, a tick always leaves a due job out.

`RunRoom`, `DeferralRoom`, `With("none")`, `MaxUnlocked`, `MaxCrashes`, `Pausable` (the
agents that get paused) and `Listable` (the runs the reaper may list while they are
awaited) are the bounds on rows and events of the scheduler modules, `Revivals` of
`IssueCheckout`, `MaxSpend` and `MaxMonths` of `Budget`,
`MaxTime`, `Sources`, `Triggers` and `Faults` of `Routine`, `MaxRestarts` and `MaxConsecutiveCrashes` of
`PluginLifecycle`, `MaxTriggers` and `MaxOutages` of `PluginJobs`.
`CHECK_DEADLOCK FALSE` stands only where an instance whose run rows or time are
used up really stops (the scheduler and the routine runs).

**Fairness.** Weak fairness of each chain of awaits that has been started: the event
loop resumes it when its statement returns (`Continue`, `Dispatch`, `TaskStep`, `TickStep`).
Adapters return (`timeoutSec` for local
ones; an assumption for the rest), detached children exit, and the
scheduler interval fires when it is enabled; its reaper pass goes on with the runs nobody
awaits (`JudgeOrphan`), and nothing makes it judge one that is awaited. A wakeup of a
routine that waits for the start lock is not assumed to return. A plugin worker need not answer: the
timers of `initialize`, of each phase of a stop and of a job call fire, and SIGKILL ends a
process. Nothing obliges a user to wake, cancel, pause
or resume, a budget to be raised, or the server to crash. `sched_drain`
has no interval at all, so it shows that the calls of `startNextQueuedRunForAgent`
alone drive the queue.

Some guarantees hold only where a run's constants say so. `QueuedRunsDrain` fails
once pauses or budget stops occur (`bug_lock_deadlock`). `KeepsContract` is checked
with the interval disabled: its detach write can resurrect a settled run (see
below). `DispatchEnds` needs one database connection more than there are concurrent dispatches;
`OneWorker` needs operations that do not overlap, and a worker that hangs is assumed not to
outlive a hard restart of the server, which loses its handle; `ScheduledOnce` is about the
schedule, not about triggers.

Others name their exceptions in the property:

| property | except | shown to be needed by |
|---|---|---|
| `NoStranding`, `DeferralAnswered` | issues in `orphaned`; the second also while an agent is paused or a process outlives a restart | `bug_checkout_strands`, `bug_legacy_race` |
| `IssueRunHoldsLock` | issues in `stolen`, runs in `revived` | `bug_adoption`; (1) |
| `ActiveHolderKeepsLock` | the same | `bug_adoption`; (1) |
| `OwnersHold` | runs in `revived` | (1) |
| `OneAssignee` | after an update that `raced` | `bug_two_assignees` |
| `OverBudgetStops`, `LimitInv` | scopes in `missed`; scopes the claim of the run does not ask about | `bug_budget_skipped`, `bug_project_unchecked` |
| `ClaimedOnce` | slots in `rewound` | `bug_fired_twice` |
| `IssuesHaveRuns` | issues in `leaked`, which a crash or a refused statement left | |
| `KeyedOnce` | runs of another source or trigger, by the code's own condition | |
| `DispatchEnds` | a wakeup that waits for the start lock for good | `bug_lock_deadlock` |
| `DueJobsAreServed` | a job that full ticks pass over again and again | `bug_job_starved` |

(1) Without `revived` TLC finds these violated in `lock_reaper` and `issue_checkout`: a run is
listed by the reaper, cancelled, set back to running by `Detach`, and then its canceller
releases its lock, or a request that judged its checkout stale adopts it.

## 4 Where code and documentation disagree

The run `bug_lock_deadlock` must find `QueuedRunsDrain` violated: a refused claim cancels
its run inside the start lock and then waits for that lock (`heartbeat.ts:1762`), so the
agent's queue stands still until a restart.

The configurations below reproduce further counterexamples. They are not listed as
runs; TLC ends on the module named with the violation.

`MCIssueExecution`:

| cfg | property | what happens |
|---|---|---|
| `bug_checkout_strands` | `DeferralsServed` | A run that checked out a second issue holds two locks; its end releases one (`heartbeat.ts:2967`) and the wakeup parked on the other is never promoted. |
| `bug_retry_window` | `OneActiveRunPerIssue` | The reaper commits `failed` before the retry moves the lock (`:1893`); a wakeup in between takes it, and two owner runs are active. |
| `bug_legacy_race` | `DeferralsServed` | The legacy run found by the wakeup transaction ends before the commit gives it the lock. Here a mention created it; the retry of a run that the reaper took for an orphan, or a run that an adoption has deprived of the lock, is found the same way. |
| `bug_stale_name_key` | `CoalescesIntoOwnAgent` | A stale `execution_agent_name_key` merges a wakeup into a run of another agent. |
| `bug_adoption` | `OneActiveRunPerIssue` | Adopting a stale checkout takes the lock from an active run (`issues.ts:616`). |
| `doc_mention_concurrency` | `OneRunningAgentPerIssue` | A mention takes no lock and runs beside the owner; `doc/plans/2026-02-20-issue-run-orchestration-plan.md:136` says it does not. |

`RunScheduler`:

| cfg | property | what happens |
|---|---|---|
| `bug_pause_undone` | `PausedUntilResumed` | `executeRun` sets the agent `running` without looking (`heartbeat.ts:2501`), undoing a pause. |
| `bug_reaper_false_positive` | `ReaperSparesLiveRuns` | `activeRunExecutions` belongs to one service instance (`:1862`); the interval's reaper fails a run that another instance executes. |
| `bug_pause_leaves_process` | `PauseStopsProcesses` | A run in its setup when the pause lists the runs starts its process afterwards. |
| `bug_process_overlap` | `ProcessesPerAgent` | A cancellation starts the next run while the signalled process is still there. |
| `bug_resurrected_run` | `RunningRowsPerAgent` | The reaper's detach write, from a stale list, marks a cancelled run `running` again. |
| `bug_left_running` | `NotLeftRunning` | Two interleaved `finalizeAgentStatus` leave an idle agent `running`. |

`MCIssueCheckout`:

| cfg | property | what happens |
|---|---|---|
| `bug_two_assignees` | `SingleAssignee` | Two updates judged against the same row give the issue an agent and a user; `doc/SPEC-implementation.md:210` says "single assignee only". |
| `bug_unassigned` | `InProgressIsAssigned` | A patch that takes the assignee away leaves the issue in progress (`issues.ts:1093` looks only when the status is in the patch); `doc/SPEC-implementation.md:212` says "`in_progress` requires assignee". |
| `bug_self_conflict` | `NoSelfConflict` | A checkout sent twice: the second read the row before the first had claimed it and is refused; `issues.ts:1307` says "no self-409". |
| `bug_release_overtaken` | `OnlyOwnerReleases` | A release judged when its run held the checkout ends the checkout another run has taken since; `issues.ts:1399` says "Only checkout run can release issue". |

`Budget`:

| cfg | property | what happens |
|---|---|---|
| `bug_budget_skipped` | `HardLimitStops` | The unique index aborts one of two evaluations (`budgets.ts:394`), and the scopes it had not come to are not paused. |
| `bug_project_unchecked` | `EveryLimitStops` | A run for an issue whose context does not name the project (`budgets.ts:814`) is claimed although the project is over its limit and paused. |
| `bug_budget_unanswerable` | `StopIsAnswerable` | A scope is paused with the incident an earlier decision of the month has resolved, so the board is not asked. |
| `bug_budget_month` | `NewMonthResumes` | A scope that was paused for its budget stays paused in the next month. |

`Routine`:

| cfg | property | what happens |
|---|---|---|
| `bug_always_enqueue` | `AlwaysEnqueues` | The wakeup of a second issue (`routines.ts:633`) meets the index `issues_open_routine_execution_uq`; the dispatch deletes its issue and fails. `docs/api/routines.md:64` says "Always create a new run regardless of active runs". |
| `bug_routine_pool` | `DispatchEnds` | As many concurrent dispatches as connections: the one that holds the row waits for a connection, the others for the row. |
| `bug_run_follows` | `RunsFollowIssues` | An issue is done before its dispatch has committed; `syncRunStatusForIssue` finds no run, and the run stays `issue_created`. |
| `bug_fired_twice` | `FiredOnce` | A slow dispatch writes `nextRunAt` from its own, earlier time, and a claimed slot is due again. |

`PluginLifecycle`, `PluginJobs`:

| cfg | property | what happens |
|---|---|---|
| `bug_disabled_restarts` | `OfflineStaysDown` | `unloadSingle` stops only a running worker (`plugin-loader.ts:1607`): one in its back-off comes up again for a disabled plugin. |
| `bug_overlapping_restarts` | `OneWorker` | Two operations at a time leave two workers. |
| `bug_job_overlap` | `NoOverlap` | A trigger and a tick pass each other's checks (`plugin-job-scheduler.ts:455`) and a job runs twice at a time. |
| `bug_job_starved` | `EveryDueJobGetsItsTurn` | The query for due jobs has no order and the dispatch breaks off at the limit (`plugin-job-scheduler.ts:264`): every tick may take the other job. |

## 5 Proofs

Seven modules hold theorems, checked by TLAPS. Each assumes what its component's `ASSUME`
says of the constants (bounds are naturals, null values are not elements of the sets
beside them); TLC evaluates these assumptions in the runs. The sets of agents, issues, runs,
requests, scopes, keys are arbitrary.

| theorem | says |
|---|---|
| `LockInvariance`, `TypeCorrect` | `Spec => []LockInv`, `Spec => []TypeOK` of `IssueExecution` |
| `NoDeferralWithoutHolder` | `Spec => []DeferredHasHolder` |
| `DeferralsAreMerged` | `Spec => []OneDeferralPerAgent` |
| `IssueRunsHoldTheLock` | `Spec => []IssueRunHoldsLock` |
| `OneOwnerPerIssue` | two active runs created under the lock of an issue are one, unless an adoption interfered or one was revived |
| `HolderKeepsLock` | `Spec => ActiveHolderKeepsLock` |
| `NoWakeupIsStranded` | `Spec => []NoStranding` |
| `CheckoutTypeCorrect`, `CheckedOutInProgress`, `OwnersHoldTheIssue`, `AssigneesAgree` | the four properties of `issue_checkout` |
| `BudgetTypeCorrect`, `BudgetInvariance`, `HardLimitsStopWork`, `ManualPausesStand` | the four properties of `budget` |
| `RoutineTypeCorrect`, `SlotsClaimedOnce`, `IssuesAndRuns`, `KeysAnsweredOnce` | the safety properties of `routine_ticks` and `routine_calls` |
| `SchedInvHolds`, `TypesHold`, `RunningIsAlwaysOwned` | `Spec => []SchedInv`, `[]TypeOK`, `[]RunningIsOwned` of `RunScheduler` |
| `ContractIsKept`, `SlotsAreNotExceeded` | unless the server has both the reaper and local children: `Spec => KeepsContract` (the refinement of `RunLifecycle`), `[]RunningRowsPerAgent` |
| `JobTypesHold`, `JobsAreScheduledOnce`, `NoJobStaysBlocked`, `NoRunIsLeftOpen` | the safety properties of `plugin_jobs` |
| `LifecycleTypesHold` | `Spec => []TypeOK` of `PluginLifecycle` |
| `OneWorkerAtATime`, `DeletedStaysDown`, `RunningHasAnswered` | while operations do not overlap (`~Overlap`): the safety properties of `plugin_worker` |

**The issue lock.** `DeferredHasHolder`, `OneDeferralPerAgent` and
`IssueRunHoldsLock` are not inductive. The transaction that queues a run is safe
only because no active run holds the lock *at the commit*, while the code looked at
the *begin*. `LockInv` adds what bridges the two:

* `TransactionReadsHold`: an open transaction that decided "queued" still finds no
  active holder, and one that decided to merge or park still has its holder, or an
  inactive one. It holds because every writer of the issue row waits for the
  transaction; only the reaper's detach write, which looks at no issue row, can make a
  holder active again, and the exceptions of the definition say so.
* `SettledAreTerminal`: whoever owes a release has written the terminal status, so a
  release takes the lock from an active run only if the reaper has revived that run.
* `RowsInUse`: references go to rows that exist, so a new run is nobody's holder.
* `IssueRunsHaveIssue`: a run created under a lock has an issue.
* `NoStranding` and `TransactionIsServed`: see below.

One lemma per conjunct (`TypeStep`, `RowsInUseStep`, `SettledStep`,
`TransactionStep`, `IssueRunStep`, `DeferralStep`, `ServedSteps`) has one step per action.
`RowSteps` and `LockSteps` state once, for every action, how a run row and a lock may
change; the others cite them. `HolderKeepsLock` is an action property and follows from
`LockSteps` under the invariant. TLC checks `LockInv` in `lock_reaper`.

`NoStranding` says that the lock of an issue with a parked wakeup has a holder who will hand it
on: it is active, or its release is owed (`Served`). The code has several ways to leave the lock to a run
whose release is over; each makes the issue `orphaned` until the lock changes hands, and the
theorem says that these are all the ways there are. A transaction that has decided to park or merge
has found the holder at work, but commits later; `TransactionIsServed` says that the holder is
served from the decision on, because the release waits for the row. `BridgedStep` carries both
through every action: whoever ends the holder owes its release, and the release promotes a
wakeup or leaves nobody parked.

**The checkout.** `OwnersHold` says that an active run that was told it owns the issue has
it checked out. The claim's `WHERE` clause does not protect it: it looks at the checkout only
when the assignee is the requester. What does is the lock, and `LockInv` of
`IssueCheckoutProofs` says so: an active run with the checkout holds the lock as well, unless
it was revived. `OwedInv` keeps the release of an earlier end from taking the lock of a run at work.
`OwnerInv` (owners are runs that exist) keeps it over the creation of a run. `Sound` carries
what a request has read across its awaits: a run judged stale has ended or is revived, and a patch that
leaves the checkout alone names the assignee it was judged by. `TakesStep` shows that a step
that takes the issue finds no other owner at work; with `WritesOwner` and `RunOwner`
it makes `CheckoutInv` inductive.

**Hard limits.** `OverBudgetStops` speaks of the moments with no request in progress, and of
the scopes that the claim of a run asks about; `EveryLimitStops` is false.
`LimitInv` says what holds in between: while a run is cleared or at work beyond a limit,
some request is still *obliged* to enforce it (`Obliged`: it has the policy before it, has read an
amount the spend has reached, or is about to pause or to cancel). `LimitStep` shows for each
action that an obligation ends only by enforcing it, by finding the limit no longer reached, or by
making the scope `missed`.

**Routines.** All rests on the row lock: only its holder is between the look for the key and the
commit (`HolderInv`), and the rows each process is yet to insert are free (`RowsInv`).
The holder has found no run of its key, source and trigger (`KeyInv`), so its commit adds the first.
`KeyedOnce` and `IssuesHaveRuns` follow for the holder's step and are untouched by the others.
`SlotInv` places the clock: a claimed slot lies behind `nextRunAt` unless it was set back, so the
conditional update of a second tick, which expects the `nextRunAt` it has read, changes no row.

**The run queue.** `RunningIsOwned` says what a row that says "running" needs; for a proof
one has to say what every other record in memory tells of the row too. `SchedInv` does, run by
run and agent by agent. `RowInv`: a run that has not started has no execution, no process, and
is on no list of the reaper; a process belongs to an adapter at work, or is detached; an execution
that is being closed has settled its row. `DrainInv`: the rows a drain has listed and not yet
claimed belong to its agent and nobody executes them; at most the one whose wakeup is being
written says "running". `RowsInOrder` and `ListedRowsExist` keep a new row from being one that a
worker or a pass still has in hand. `TypeStep` has the types. `OwnedStep` does the rest with one
lemma per kind of step (`CreateStep`, `SettleStep`, `ExecuteStep`, `DropStep`, `ListStep`,
`DetachStep`, `CrashStep` ...): what it does to the rows (`RowChange`) and what to the memory.

The refinement needs that a slot counted free is still free when the claim is written. `SlotInv`
counts the running rows of an agent together with the queued ones its drain has listed
(`Reserved`), at most `MaxConcurrent`: only the drain at the head of the agent's chain lists more
(`ListsShrink`), up to the slots it has counted, and a claim moves a row within the set.
`ContractStep` maps each `RowChange` to a step or a stutter of `RunLifecycle`. The hypothesis
`~(Scheduler /\ LocalChildren)` is what the code needs: the interval's reaper marks a lost local
child as detached from a list it has read earlier, and writes "running" over a row that has been
cancelled meanwhile (`bug_resurrected_run`). `sched_drain` and `sched_pause` check the refinement
without the reaper.

**Plugin jobs.** `activeJobs` does not by itself keep a job from running twice, since a take-down
of the plugin empties it while the calls go on. The next tick waits for the dispatches of the last
one, so `JobsInv` says that nothing scheduled is in progress between ticks (`NoneBetweenTicks`),
and `ScheduledOnce` follows for the batch a tick starts: its runs are new and differ
(`NewRunsDiffer`), and there are no more of them than the limit allows (`BatchBound`). `OpenIsHandled`
(a queued or running row has not been written) gives `RunsAreCompleted`. `SafeStep` has one step
per action; `ScheduleStays`, `TrackingStays`, `HandlingStays` say when an action disturbs nothing.

**A plugin's worker.** The registry, the handle's `childProcess` and the process table record one
fact and are written at different moments. `SafeInv` says how they agree in between:
`ChildrenAreKnown` (a process or a pending start is the child of the registered handle),
`HandlesAreTrue` (what a handle's status says of its child), `TimersAreOwned` (a back-off timer
belongs to the registered handle, which has no process), `StopsAreTrue` (what a stop has seen at
each stage of its escalation), `OneOperation` and `CallsMatch` (one operation at work, and the call
it waits for). That a deleted handle has no process and that two are never there follow, as does
that `isRunning` tells the truth. `~Overlap` is needed: two operations at a time leave two workers
(`bug_overlapping_restarts`). Types hold either way (`TypesInv`, in which every process has a
handle, and every call that stops one).

**Only model-checked.** All liveness properties (`QueuedRunsDrain`, `RunningRunsSettle`,
`DeferralAnswered`, `DispatchEnds`, `OperationsEnd`, `DueJobsAreServed`), which are out of the
prover's reach. Every safety property of a run has its theorem.

## 6 Not modelled

No component is modelled in full; `PROJECT.json` says of each what is left out. What no
module covers:

* *Unreachable*: the leases, reuse and idle stop of workspace runtime services. A run
  never starts such a service (`heartbeat.ts:107` strips the configuration), so what is
  left is a start and a stop by the board.
* *One conditional statement and sequential effects*: approvals, hiring, documents.
* *Tables and validation without a protocol*: plugin host services, tools, event
  bus, companies, projects, goals, assets, work products, activity, dashboards,
  instance settings, portability, skills, instructions.
* *The outside world decides*: git worktrees, execution workspaces, adapters, storage,
  secrets, run logs, backups, database bootstrap.
* *Fire and forget*: live events and the WebSocket; nothing depends on a delivery.
* *Per-request decisions*: authentication, membership, permissions.
* *Clients and declarations*: CLI, web UI, shared types, evals, scripts. With the tables above
  they are most of the repository's lines, and they hold no state that other actors share.

Within the modelled components: overlapping recovery passes, agent removal, the context
snapshots of merged wakeups, and the coalescing of wakeups outside an issue; approvals of
budget overrides beyond their decision; cron expressions and time zones; the fields
a job run keeps after it is final (`completeRun` may overwrite a cancelled row).

## 7 Plan

1. **done** `IssueExecution`, its runs and proofs.
2. **done** `RunScheduler` refining `RunLifecycle`.
3. **done** `IssueCheckout`, its run and proofs.
4. **done** `Budget`, its run and proofs.
5. **done** `Routine`, its runs and proofs.
6. **done** `PluginWorker` and `PluginLifecycle`.
7. **done** `PluginJobs`.
8. **dropped** runtime services, for the reason in section 6.
9. Extensions of `RunScheduler`: two recovery passes, wakeup contexts of merged runs.

Theorems still worth proving: that `Budget` resumes what a raise covers, and the guarantees of
`PluginWorker` that remain when operations overlap (pending calls settle, a deleted handle
is never registered again).
