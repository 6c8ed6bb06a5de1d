----------------------------- MODULE PluginJobs -----------------------------
(***************************************************************************)
(* The scheduled jobs of one plugin                                        *)
(* (server/src/services/plugin-job-scheduler.ts, plugin-job-store.ts and   *)
(* what plugin-loader.ts does to them): a tick dispatches the due jobs and *)
(* waits for them, the API triggers a job by hand, the plugin is taken     *)
(* down and up again, its worker crashes, a call of it times out, and the  *)
(* server restarts.                                                        *)
(*                                                                         *)
(* One action is a database statement with the code that follows it up to  *)
(* the next await.  A run row and the chain of awaits that made it share   *)
(* an identity in Runs; an identity whose row is final (succeeded, failed  *)
(* or cancelled) is used again, and what the row says then is left out.    *)
(*                                                                         *)
(* Abstracted: cron expressions (a job has one, and time makes it due),    *)
(* payloads, durations, failing statements.                                *)
(***************************************************************************)
EXTENDS Naturals, FiniteSets

CONSTANTS
  Jobs, Runs, NoJob,
  MaxConcurrentJobs,
  MaxTriggers,   \* bound: calls of triggerJob
  MaxOutages     \* bound: take-downs of the plugin and restarts of the server

ASSUME JobsAssumption ==
  /\ IsFiniteSet(Runs) /\ IsFiniteSet(Jobs)
  /\ MaxConcurrentJobs \in Nat \ {0}
  /\ MaxTriggers \in Nat /\ MaxOutages \in Nat /\ NoJob \notin Jobs

VARIABLES
  due,    \* jobs whose next_run_at has passed
  paused, \* jobs with status paused
  row,    \* plugin_job_runs: status, and the job unless it is final
  task,   \* the dispatch or trigger of each run
  active, \* activeJobs
  tick,   \* the tick in progress and the due jobs it has read
  plugin, \* the take-down or activation in progress
  up,     \* workerManager.isRunning
  stale,  \* jobs with a row that an earlier server left running
  count   \* what the bounds count
vars == <<due, paused, row, task, active, tick, plugin, up, stale, count>>

Row == [status : {"final", "queued", "running"}, job : Jobs \cup {NoJob}]
FinalRow == [status |-> "final", job |-> NoJob]
Final(r) == row[r].status = "final"

\* pc: the statement (or worker call) the chain awaits next.
Task == [pc   : {"none", "rows", "create", "mark", "call", "write", "advance"},
         kind : {"schedule", "manual"},
         job  : Jobs \cup {NoJob},
         ok   : BOOLEAN]
NoTask == [pc |-> "none", kind |-> "manual", job |-> NoJob, ok |-> TRUE]

Free == {r \in Runs : task[r].pc = "none" /\ Final(r)
                      /\ r \notin plugin.runs}
Scheduled == {r \in Runs : task[r].pc # "none" /\ task[r].kind = "schedule"}

\* runs: what unregisterPlugin has left to cancel; jobs: what
\* syncJobDeclarations or ensureNextRunTimestamps has left to write.
Operation == [pc   : {"idle", "list", "cancel", "forget", "stop", "off", "sync", "ensure"},
              runs : SUBSET Runs, jobs : SUBSET Jobs]
PluginAt(pc) == [pc |-> pc, runs |-> {}, jobs |-> {}]

NoTick == [pc |-> "idle", list |-> {}]
NoCount == [triggers |-> 0, takedowns |-> 0, restarts |-> 0]
Outages == count.takedowns + count.restarts

Init ==
  /\ due = {} /\ paused = {}
  /\ row = [r \in Runs |-> FinalRow] /\ task = [r \in Runs |-> NoTask]
  /\ active = {} /\ stale = {}
  /\ tick = NoTick
  /\ plugin = PluginAt("idle") /\ up = TRUE
  /\ count = NoCount

TimePasses(j) ==
  /\ j \notin due /\ due' = due \cup {j}
  /\ UNCHANGED <<stale, paused, row, task, active, tick, plugin, up, count>>

-----------------------------------------------------------------------------
(* tick *)

TickBegin ==
  /\ tick.pc = "idle"
  /\ tick' = IF due \subseteq paused THEN NoTick
             ELSE [pc |-> "dispatch", list |-> due \ paused]
  /\ UNCHANGED <<stale, due, paused, row, task, active, plugin, up, count>>

\* The sets of jobs that the loop over the list can dispatch; the query has
\* no order.
Batches ==
  LET startable == IF up THEN tick.list \ active ELSE {}
      room == IF Cardinality(active) < MaxConcurrentJobs
              THEN MaxConcurrentJobs - Cardinality(active) ELSE 0 IN
  {s \in SUBSET startable : \/ Cardinality(s) = room
                            \/ Cardinality(s) < room /\ s = startable}

NewRuns(s) == CHOOSE f \in [s -> Free] : \A i, j \in s : i # j => f[i] # f[j]

TickDispatch ==
  /\ tick.pc = "dispatch"
  /\ \E s \in Batches :
       LET f == NewRuns(s) IN
       /\ Cardinality(s) <= Cardinality(Free)    \* bound
       /\ task' = [r \in Runs |->
                     IF \E j \in s : f[j] = r
                     THEN [pc |-> "create", kind |-> "schedule", ok |-> TRUE,
                           job |-> CHOOSE j \in s : f[j] = r]
                     ELSE task[r]]
       /\ active' = active \cup s
       /\ tick' = IF s = {} THEN NoTick ELSE [pc |-> "await", list |-> {}]
  /\ UNCHANGED <<stale, due, paused, row, plugin, up, count>>

\* Mutant: the tick does not wait for its dispatches.
TickEndNotAwaited ==
  /\ tick.pc = "await" /\ tick' = NoTick
  /\ UNCHANGED <<stale, due, paused, row, task, active, plugin, up, count>>

TickEnd ==
  /\ tick.pc = "await" /\ Scheduled = {}
  /\ tick' = NoTick
  /\ UNCHANGED <<stale, due, paused, row, task, active, plugin, up, count>>

-----------------------------------------------------------------------------
(* triggerJob; a refusal throws *)

Trigger(j) ==
  /\ count.triggers < MaxTriggers
  /\ Cardinality(Free) > MaxConcurrentJobs    \* bound: leave runs to the tick
  /\ j \notin paused \cup active
  /\ LET r == NewRuns({j})[j] IN
     task' = [task EXCEPT ![r] = [pc |-> "rows", kind |-> "manual", job |-> j, ok |-> TRUE]]
  /\ count' = [count EXCEPT !.triggers = @ + 1]
  /\ UNCHANGED <<stale, due, paused, row, active, tick, plugin, up>>

TriggerRows(r) ==
  LET j == task[r].job
      busy == j \in stale \/ \E q \in Runs : row[q].job = j /\ row[q].status = "running" IN
  /\ task[r].pc = "rows"
  /\ task' = [task EXCEPT ![r] = IF busy \/ ~up THEN NoTask
                                 ELSE [@ EXCEPT !.pc = "create"]]
  /\ UNCHANGED <<stale, due, paused, row, active, tick, plugin, up, count>>

-----------------------------------------------------------------------------
(* dispatchJob and dispatchManualRun *)

\* createRun; the manual dispatch begins now and marks its job active.
Create(r) ==
  /\ task[r].pc = "create"
  /\ row' = [row EXCEPT ![r] = [status |-> "queued", job |-> task[r].job]]
  /\ task' = [task EXCEPT ![r].pc = "mark"]
  /\ active' = IF task[r].kind = "manual" THEN active \cup {task[r].job} ELSE active
  /\ UNCHANGED <<stale, due, paused, tick, plugin, up, count>>

\* markRunning, whatever the row says; then the call of the worker.
Mark(r) ==
  /\ task[r].pc = "mark"
  /\ row' = [row EXCEPT ![r] = [status |-> "running", job |-> task[r].job]]
  /\ task' = IF up THEN [task EXCEPT ![r].pc = "call"]
                   ELSE [task EXCEPT ![r].pc = "write", ![r].ok = FALSE]
  /\ UNCHANGED <<stale, due, paused, active, tick, plugin, up, count>>

\* The worker answers, or the call times out (ok is FALSE): the worker is not
\* told that nobody waits for it any more.
Answer(r, ok) ==
  /\ task[r].pc = "call"
  /\ task' = [task EXCEPT ![r].pc = "write", ![r].ok = ok]
  /\ UNCHANGED <<stale, due, paused, row, active, tick, plugin, up, count>>

\* Mutant: a manual run moves the schedule pointer too.
AfterWriteAdvance(t) == [t EXCEPT !.pc = "advance"]

AfterWrite(t) == IF t.kind = "schedule" THEN [t EXCEPT !.pc = "advance"] ELSE NoTask

\* Mutants of Write: only a job that is still tracked is completed; a failed
\* scheduled run does not get as far as the schedule pointer; the job stays
\* tracked when the worker fails.
WriteIfTracked(r) ==
  /\ task[r].pc = "write"
  /\ row' = IF task[r].job \in active
            THEN [row EXCEPT ![r] = FinalRow]
            ELSE row
  /\ active' = active \ {task[r].job}
  /\ task' = [task EXCEPT ![r] = AfterWrite(@)]
  /\ UNCHANGED <<stale, due, paused, tick, plugin, up, count>>
WriteAdvancingOnSuccess(r) ==
  /\ task[r].pc = "write"
  /\ row' = [row EXCEPT ![r] = FinalRow]
  /\ active' = active \ {task[r].job}
  /\ task' = [task EXCEPT ![r] = IF @.ok THEN AfterWrite(@) ELSE NoTask]
  /\ UNCHANGED <<stale, due, paused, tick, plugin, up, count>>
WriteReleasingOnSuccess(r) ==
  /\ task[r].pc = "write"
  /\ row' = [row EXCEPT ![r] = FinalRow]
  /\ active' = IF task[r].ok THEN active \ {task[r].job} ELSE active
  /\ task' = [task EXCEPT ![r] = AfterWrite(@)]
  /\ UNCHANGED <<stale, due, paused, tick, plugin, up, count>>

\* completeRun, whatever the row says, and the finally block.
Write(r) ==
  /\ task[r].pc = "write"
  /\ row' = [row EXCEPT ![r] = FinalRow]
  /\ active' = active \ {task[r].job}
  /\ task' = [task EXCEPT ![r] = AfterWrite(@)]
  /\ UNCHANGED <<stale, due, paused, tick, plugin, up, count>>

\* advanceSchedulePointer
Advance(r) ==
  /\ task[r].pc = "advance"
  /\ due' = due \ {task[r].job}
  /\ task' = [task EXCEPT ![r] = NoTask]
  /\ UNCHANGED <<stale, paused, row, active, tick, plugin, up, count>>

-----------------------------------------------------------------------------
(* The plugin is taken down (unloadSingle) and up (activatePlugin) *)

TakeDown ==
  /\ plugin.pc = "idle" /\ Outages < MaxOutages
  /\ plugin' = PluginAt("list")
  /\ count' = [count EXCEPT !.takedowns = @ + 1]
  /\ UNCHANGED <<stale, due, paused, row, task, active, tick, up>>

\* unregisterPlugin: the running and queued rows are read, then cancelled
\* one by one (those of an earlier server at the end here); then the jobs
\* are forgotten.
UnregisterList ==
  /\ plugin.pc = "list"
  /\ plugin' = [PluginAt("cancel") EXCEPT
                  !.runs = {r \in Runs : row[r].status \in {"queued", "running"}}]
  /\ UNCHANGED <<stale, due, paused, row, task, active, tick, up, count>>

UnregisterCancel(r) ==
  /\ plugin.pc = "cancel" /\ r \in plugin.runs
  /\ row' = [row EXCEPT ![r] = FinalRow]
  /\ plugin' = [plugin EXCEPT !.runs = @ \ {r}]
  /\ UNCHANGED <<stale, due, paused, task, active, tick, up, count>>

UnregisterForget ==
  /\ plugin.pc = "cancel" /\ plugin.runs = {}
  /\ active' = {} /\ stale' = {}
  /\ plugin' = PluginAt("stop")
  /\ UNCHANGED <<due, paused, row, task, tick, up, count>>

\* The calls of a worker that is gone are rejected.
WorkerGone ==
  /\ up' = FALSE
  /\ task' = [r \in Runs |-> IF task[r].pc = "call"
                             THEN [task[r] EXCEPT !.pc = "write", !.ok = FALSE]
                             ELSE task[r]]

StopPluginWorker ==
  /\ plugin.pc = "stop"
  /\ WorkerGone /\ plugin' = PluginAt("off")
  /\ UNCHANGED <<stale, due, paused, row, active, tick, count>>

\* It exits by itself, and the back-off timer starts it again, also while the
\* plugin is taken down or registered.
WorkerExits ==
  /\ up /\ WorkerGone
  /\ UNCHANGED <<stale, due, paused, row, active, tick, plugin, count>>

WorkerComesBack ==
  /\ ~up /\ plugin.pc # "off" /\ up' = TRUE
  /\ UNCHANGED <<stale, due, paused, row, task, active, tick, plugin, count>>

ActivatePlugin ==
  /\ plugin.pc = "off"
  /\ up' = TRUE /\ plugin' = [PluginAt("sync") EXCEPT !.jobs = Jobs]
  /\ UNCHANGED <<stale, due, paused, row, task, active, tick, count>>

\* syncJobDeclarations writes the jobs one by one: a declared job is active,
\* one that the manifest has no more is paused.
SyncJob(j, declared) ==
  /\ plugin.pc = "sync" /\ j \in plugin.jobs
  /\ paused' = IF declared THEN paused \ {j} ELSE paused \cup {j}
  /\ plugin' = [plugin EXCEPT !.jobs = @ \ {j}]
  /\ UNCHANGED <<stale, due, row, task, active, tick, up, count>>

\* ensureNextRunTimestamps reads the active jobs.
EnsureList ==
  /\ plugin.pc = "sync" /\ plugin.jobs = {}
  /\ plugin' = [PluginAt("ensure") EXCEPT !.jobs = due \ paused]
  /\ UNCHANGED <<stale, due, paused, row, task, active, tick, up, count>>

EnsureNextRun(j) ==
  /\ plugin.pc = "ensure" /\ j \in plugin.jobs
  /\ due' = due \ {j}
  /\ plugin' = [plugin EXCEPT !.jobs = @ \ {j}]
  /\ UNCHANGED <<stale, paused, row, task, active, tick, up, count>>

Registered ==
  /\ plugin.pc = "ensure" /\ plugin.jobs = {}
  /\ plugin' = PluginAt("idle")
  /\ UNCHANGED <<stale, due, paused, row, task, active, tick, up, count>>

ServerRestart ==
  /\ Outages < MaxOutages
  /\ count' = [count EXCEPT !.restarts = @ + 1]
  /\ stale' = stale \cup {row[r].job : r \in {q \in Runs : row[q].status = "running"}}
  /\ row' = [r \in Runs |-> FinalRow] /\ task' = [r \in Runs |-> NoTask]
  /\ active' = {} /\ tick' = NoTick
  /\ up' = FALSE /\ plugin' = PluginAt("off")
  /\ UNCHANGED <<due, paused>>

-----------------------------------------------------------------------------
TickStep == TickDispatch \/ TickEnd

TaskStep(r) == TriggerRows(r) \/ Create(r) \/ Mark(r)
               \/ Answer(r, FALSE) \/ Write(r) \/ Advance(r)

PluginStep ==
  \/ UnregisterList \/ (\E r \in Runs : UnregisterCancel(r)) \/ UnregisterForget
  \/ StopPluginWorker
  \/ ActivatePlugin \/ (\E j \in Jobs, d \in BOOLEAN : SyncJob(j, d)) \/ EnsureList
  \/ (\E j \in Jobs : EnsureNextRun(j)) \/ Registered

Next ==
  \/ TickBegin \/ TickStep
  \/ \E j \in Jobs : TimePasses(j) \/ Trigger(j)
  \/ \E r \in Runs : TaskStep(r) \/ Answer(r, TRUE)
  \/ TakeDown \/ PluginStep
  \/ WorkerExits \/ WorkerComesBack
  \/ ServerRestart

\* The interval fires; what has been started goes on, a call of the worker
\* until its timeout at the latest.
Fairness ==
  /\ WF_vars(TickBegin) /\ WF_vars(TickStep)
  /\ \A r \in Runs : WF_vars(TaskStep(r))
  /\ WF_vars(PluginStep)

Spec == Init /\ [][Next]_vars /\ Fairness

-----------------------------------------------------------------------------
(* Properties *)

\* All fields are in their ranges; a final row and an ended task have no job,
\* and only a scheduled run moves the schedule pointer.
TypeOK ==
  /\ due \subseteq Jobs /\ paused \subseteq Jobs /\ stale \subseteq Jobs /\ active \subseteq Jobs
  /\ row \in [Runs -> Row] /\ task \in [Runs -> Task]
  /\ \A r \in Runs : /\ Final(r) <=> row[r].job = NoJob
                     /\ task[r].pc = "none" <=> task[r].job = NoJob
                     /\ task[r].pc = "advance" => task[r].kind = "schedule"
  /\ tick \in [pc : {"idle", "dispatch", "await"}, list : SUBSET Jobs]
  /\ plugin \in Operation /\ up \in BOOLEAN
  /\ count \in [triggers : 0 .. MaxTriggers, takedowns : 0 .. MaxOutages,
                restarts : 0 .. MaxOutages]

\* The schedule starts a job once for each time it is due, and keeps its
\* limit: a dispatch that is in progress is the only one of its job, also
\* when the plugin is taken down and up meanwhile (activeJobs then forgets
\* it, and only the tick that awaits it holds the next one back).
ScheduledOnce ==
  /\ \A q, r \in Scheduled : task[q].job = task[r].job => q = r
  /\ Cardinality(Scheduled) <= MaxConcurrentJobs

\* No job stays blocked: activeJobs names only jobs of which a dispatch is
\* in progress.
ActiveIsDispatched ==
  \A j \in active : \E r \in Runs :
    task[r].job = j /\ task[r].pc \in {"create", "mark", "call", "write"}

\* No run of this server is left queued or running when its dispatch is
\* over, whatever is cancelled, overwritten, forgotten or timed out.
RunsAreCompleted ==
  \A r \in Runs : ~Final(r) => task[r].pc # "none"

\* A tick that reads job j as due and leaves it out because the other jobs it
\* dispatches, or runs in progress, use up the limit.
PassedOver(j) ==
  /\ tick.pc = "dispatch" /\ tick'.pc # "dispatch" /\ up
  /\ j \in tick.list \ active'
  /\ Cardinality(active') >= MaxConcurrentJobs

\* Once the worker and the plugin stay up, a due job is run and gets its next
\* time: after failures, timeouts, a crash in the middle of a run, and after
\* manual triggers that were in the way.  Only the limit can keep it waiting:
\* the query for due jobs has no order, so a full tick may leave out the same
\* job every time.
DueJobsAreServed ==
  \A j \in Jobs : <>[](up /\ plugin.pc = "idle") =>
    []<>(j \notin due \ paused) \/ []<><<PassedOver(j)>>_vars

\* Every due job gets its turn, whatever the limit.  It does not, unless the
\* limit has room for all jobs.
EveryDueJobGetsItsTurn ==
  \A j \in Jobs : <>[](up /\ plugin.pc = "idle") => []<>(j \notin due \ paused)

\* The host never has two runs of a job executed at the same time.
NoOverlap ==
  \A r \in Runs : task[r].pc = "call" =>
    \A q \in Runs : task[q].pc = "call" /\ task[q].job = task[r].job => q = r
=============================================================================
