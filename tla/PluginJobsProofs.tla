-------------------------- MODULE PluginJobsProofs --------------------------
(***************************************************************************)
(* The scheduled jobs of a plugin, for any number of jobs, runs, triggers  *)
(* and outages and any concurrency limit: one dispatch of a job at a time, *)
(* no job left in activeJobs, no run left open.                            *)
(*                                                                         *)
(* Only the tick that awaits its dispatches keeps the next one from        *)
(* starting a job again (a take-down empties activeJobs), so the invariant *)
(* says that nothing scheduled is in progress while no tick awaits it.     *)
(***************************************************************************)
EXTENDS PluginJobs, FiniteSetTheorems, FunctionTheorems, TLAPS

USE JobsAssumption

\* Between ticks, and before a tick has dispatched, no scheduled dispatch is
\* in progress.
NoneBetweenTicks == tick.pc # "await" => Scheduled = {}

\* A row is queued or running only between its creation and the write that
\* completes it.
OpenIsHandled == \A r \in Runs : ~Final(r) => task[r].pc \in {"mark", "call", "write"}

JobsInv ==
  /\ TypeOK
  /\ NoneBetweenTicks /\ ScheduledOnce
  /\ ActiveIsDispatched
  /\ OpenIsHandled

-----------------------------------------------------------------------------
(* Runs for a batch of jobs.                                                *)

\* A set that is not larger than another has an injection into it.
LEMMA InjectionExists ==
  ASSUME NEW S, NEW T, IsFiniteSet(S), IsFiniteSet(T), Cardinality(S) <= Cardinality(T)
  PROVE  \E f \in [S -> T] : \A i, j \in S : i # j => f[i] # f[j]
<1> DEFINE m == Cardinality(S)
           n == Cardinality(T)
<1>1. m \in Nat /\ n \in Nat
  BY FS_CardinalityType
<1>2. PICK g \in Bijection(S, 1 .. m) : TRUE
  BY FS_CardinalityType, Fun_ExistsBijSymmetric, Fun_ExistsBij
<1>3. PICK h \in Bijection(1 .. n, T) : TRUE
  BY FS_CardinalityType, Fun_ExistsBij
<1> HIDE DEF m, n
<1>4. g \in [S -> 1 .. m] /\ \A i, j \in S : g[i] = g[j] => i = j
  BY <1>2, Fun_BijectionProperties
<1>5. h \in [1 .. n -> T] /\ \A k, l \in 1 .. n : h[k] = h[l] => k = l
  BY <1>3, Fun_BijectionProperties
<1> DEFINE f == [i \in S |-> h[g[i]]]
<1>6. \A i \in S : g[i] \in 1 .. n
  BY <1>1, <1>4 DEF m, n
<1>7. f \in [S -> T] /\ \A i, j \in S : i # j => f[i] # f[j]
  BY <1>4, <1>5, <1>6
<1> QED
  BY <1>7

LEMMA NewRunsDiffer ==
  ASSUME NEW S, IsFiniteSet(S), Cardinality(S) <= Cardinality(Free)
  PROVE  /\ NewRuns(S) \in [S -> Free]
         /\ \A i, j \in S : i # j => NewRuns(S)[i] # NewRuns(S)[j]
<1>1. Free \subseteq Runs
  BY DEF Free
<1>2. IsFiniteSet(Free)
  BY <1>1, FS_Subset
<1>3. \E f \in [S -> Free] : \A i, j \in S : i # j => f[i] # f[j]
  BY <1>2, InjectionExists
<1> QED
  BY <1>3 DEF NewRuns

\* A batch is a set of jobs, and at most as many as the limit has room for.
LEMMA BatchBound ==
  ASSUME TypeOK, NEW s \in Batches
  PROVE  /\ s \subseteq Jobs /\ IsFiniteSet(s)
         /\ Cardinality(s) \in Nat /\ Cardinality(s) <= MaxConcurrentJobs
<1>1. s \subseteq Jobs
  BY DEF Batches, TypeOK
<1>2. IsFiniteSet(s) /\ Cardinality(s) \in Nat
  BY <1>1, FS_Subset, FS_CardinalityType
<1>3. IsFiniteSet(active) /\ Cardinality(active) \in Nat
  BY FS_Subset, FS_CardinalityType DEF TypeOK
<1>4. Cardinality(s) <= MaxConcurrentJobs
  BY <1>2, <1>3 DEF Batches
<1> QED
  BY <1>1, <1>2, <1>4

-----------------------------------------------------------------------------
(* Types.                                                                   *)

RowsHaveJobs == \A r \in Runs : Final(r) <=> row[r].job = NoJob

TasksHaveJobs ==
  \A r \in Runs : /\ task[r].pc = "none" <=> task[r].job = NoJob
                  /\ task[r].pc = "advance" => task[r].kind = "schedule"

Dispatched(s) ==
  LET f == NewRuns(s) IN
  task' = [r \in Runs |->
             IF \E j \in s : f[j] = r
             THEN [pc |-> "create", kind |-> "schedule", ok |-> TRUE,
                   job |-> CHOOSE j \in s : f[j] = r]
             ELSE task[r]]

TriggerRun(j) == NewRuns({j})[j]

LEMMA NullTypes == NoTask \in Task /\ FinalRow \in Row
  BY DEF NoTask, Task, FinalRow, Row

LEMMA PluginTypes ==
  \A pc \in {"idle", "list", "stop", "off", "sync"} : PluginAt(pc) \in Operation
  BY DEF PluginAt, Operation

LEMMA TypedTasks ==
  TypeOK => task \in [Runs -> Task] /\ row \in [Runs -> Row] /\ TasksHaveJobs /\ RowsHaveJobs
  BY DEF TypeOK, TasksHaveJobs, RowsHaveJobs

LEMMA JobOfTask ==
  ASSUME TypeOK, NEW r \in Runs, task[r].pc # "none"
  PROVE  task[r].job \in Jobs
  BY TypedTasks DEF TasksHaveJobs, Task

\* The task of one run is over, is at its next step, or has its outcome.
LEMMA TaskIsOver ==
  ASSUME TypeOK, NEW r \in Runs, task' = [task EXCEPT ![r] = NoTask]
  PROVE  task' \in [Runs -> Task] /\ TasksHaveJobs'
<1>1. \A q \in Runs : task'[q] = task[q] \/ task'[q] = NoTask
  BY TypedTasks
<1> QED
  BY <1>1, TypedTasks, NullTypes DEF TasksHaveJobs, NoTask

LEMMA TaskMoves ==
  ASSUME TypeOK, NEW r \in Runs, task[r].pc # "none", NEW pc \in {"create", "mark", "call"},
         task' = [task EXCEPT ![r].pc = pc]
  PROVE  task' \in [Runs -> Task] /\ TasksHaveJobs'
<1>1. task[r] \in Task
  BY TypedTasks
<1>2. [task[r] EXCEPT !.pc = pc] \in Task
  BY <1>1 DEF Task
<1>3. task' \in [Runs -> Task]
  BY <1>2, TypedTasks
<1>4. TasksHaveJobs'
  BY <1>1, TypedTasks DEF TasksHaveJobs, Task
<1> QED
  BY <1>3, <1>4

LEMMA TaskAdvances ==
  ASSUME TypeOK, NEW r \in Runs, task[r].pc # "none", task[r].kind = "schedule",
         task' = [task EXCEPT ![r] = [task[r] EXCEPT !.pc = "advance"]]
  PROVE  task' \in [Runs -> Task] /\ TasksHaveJobs'
<1>1. task[r] \in Task
  BY TypedTasks
<1>2. [task[r] EXCEPT !.pc = "advance"] \in Task
  BY <1>1 DEF Task
<1>3. task' \in [Runs -> Task]
  BY <1>2, TypedTasks
<1>4. TasksHaveJobs'
  BY <1>1, TypedTasks DEF TasksHaveJobs, Task
<1> QED
  BY <1>3, <1>4

LEMMA TaskFails ==
  ASSUME TypeOK, NEW r \in Runs, task[r].pc # "none", NEW ok \in BOOLEAN,
         task' = [task EXCEPT ![r].pc = "write", ![r].ok = ok]
  PROVE  task' \in [Runs -> Task] /\ TasksHaveJobs'
<1>1. task[r] \in Task
  BY TypedTasks
<1>2. task' = [task EXCEPT ![r] = [task[r] EXCEPT !.pc = "write", !.ok = ok]]
  BY TypedTasks
<1>3. [task[r] EXCEPT !.pc = "write", !.ok = ok] \in Task
  BY <1>1 DEF Task
<1>4. task' \in [Runs -> Task]
  BY <1>2, <1>3, TypedTasks
<1>5. TasksHaveJobs'
  BY <1>1, <1>2, TypedTasks DEF TasksHaveJobs, Task
<1> QED
  BY <1>4, <1>5

LEMMA RejectedTasks ==
  ASSUME TypeOK, WorkerGone
  PROVE  task' \in [Runs -> Task] /\ TasksHaveJobs'
<1>1. \A r \in Runs : [task[r] EXCEPT !.pc = "write", !.ok = FALSE] \in Task
  <2> TAKE r \in Runs
  <2>1. task[r] \in Task
    BY TypedTasks
  <2> QED
    BY <2>1 DEF Task
<1>2. task' \in [Runs -> Task]
  BY <1>1, TypedTasks DEF WorkerGone
<1>3. TasksHaveJobs'
  BY TypedTasks DEF WorkerGone, TasksHaveJobs, Task
<1> QED
  BY <1>2, <1>3

LEMMA DispatchedTasks ==
  ASSUME TypeOK, NEW s, s \subseteq Jobs, Dispatched(s)
  PROVE  task' \in [Runs -> Task] /\ TasksHaveJobs'
<1>1. \A r \in Runs :
        \/ task'[r] = task[r]
        \/ \E j \in Jobs : task'[r] = [pc |-> "create", kind |-> "schedule", ok |-> TRUE, job |-> j]
  BY DEF Dispatched
<1>2. \A j \in Jobs : [pc |-> "create", kind |-> "schedule", ok |-> TRUE, job |-> j] \in Task
  BY DEF Task
<1>3. task' \in [Runs -> Task]
  <2>1. \A r \in Runs : task'[r] \in Task
    BY <1>1, <1>2, TypedTasks
  <2> QED
    BY <2>1, Zenon DEF Dispatched
<1>4. TasksHaveJobs'
  <2> SUFFICES ASSUME NEW r \in Runs
               PROVE  /\ task'[r].pc = "none" <=> task'[r].job = NoJob
                      /\ task'[r].pc = "advance" => task'[r].kind = "schedule"
    BY DEF TasksHaveJobs
  <2>1. CASE task'[r] = task[r]
    BY <2>1, TypedTasks DEF TasksHaveJobs
  <2>2. ASSUME NEW j \in Jobs,
               task'[r] = [pc |-> "create", kind |-> "schedule", ok |-> TRUE, job |-> j]
        PROVE  /\ task'[r].pc = "create" /\ task'[r].kind = "schedule"
               /\ task'[r].job # NoJob
    BY <2>2 DEF JobsAssumption
  <2> QED
    BY <1>1, <2>1, <2>2
<1> QED
  BY <1>3, <1>4

LEMMA TriggerRunIsFree ==
  ASSUME TypeOK, NEW j \in Jobs, Trigger(j)
  PROVE  TriggerRun(j) \in Free /\ TriggerRun(j) \in Runs
<1>1. Cardinality({j}) <= Cardinality(Free) /\ IsFiniteSet({j})
  <2>1. Free \subseteq Runs
    BY DEF Free
  <2>2. Cardinality(Free) \in Nat
    BY <2>1, FS_Subset, FS_CardinalityType
  <2>3. IsFiniteSet({j}) /\ Cardinality({j}) = 1
    BY FS_Singleton
  <2> QED
    BY <2>2, <2>3 DEF Trigger
<1>2. NewRuns({j}) \in [{j} -> Free]
  BY <1>1, NewRunsDiffer
<1> QED
  BY <1>2 DEF TriggerRun, Free

LEMMA RowIsFinal ==
  ASSUME TypeOK, NEW r \in Runs, row' = [row EXCEPT ![r] = FinalRow]
  PROVE  row' \in [Runs -> Row] /\ RowsHaveJobs'
<1>1. \A q \in Runs : row'[q] = row[q] \/ row'[q] = FinalRow
  BY TypedTasks
<1> QED
  BY <1>1, TypedTasks, NullTypes DEF RowsHaveJobs, Final, FinalRow

\* Every action keeps the rows, the tasks and the bookkeeping well-typed.
LEMMA TypeStep == TypeOK /\ [Next]_vars => TypeOK'
<1> SUFFICES ASSUME TypeOK, [Next]_vars PROVE TypeOK'
  OBVIOUS
<1> USE DEF TypeOK
<1>1. ASSUME NEW j \in Jobs, TimePasses(j)
      PROVE  TypeOK'
  BY <1>1 DEF TimePasses, Final
<1>2. ASSUME TickBegin
      PROVE  TypeOK'
  BY <1>2 DEF TickBegin, NoTick, Final
<1>3. ASSUME TickDispatch
      PROVE  TypeOK'
  <2>1. PICK s \in Batches : /\ Cardinality(s) <= Cardinality(Free)
                             /\ Dispatched(s)
                             /\ active' = active \cup s
                             /\ tick' = IF s = {} THEN NoTick ELSE [pc |-> "await", list |-> {}]
    BY <1>3 DEF TickDispatch, Dispatched
  <2>2. s \subseteq Jobs /\ IsFiniteSet(s)
    BY <2>1, BatchBound
  <2>3. task' \in [Runs -> Task] /\ TasksHaveJobs'
    BY <2>1, <2>2, DispatchedTasks
  <2> QED
    BY <1>3, <2>1, <2>2, <2>3 DEF TickDispatch, NoTick, TasksHaveJobs, Final
<1>4. ASSUME TickEnd
      PROVE  TypeOK'
  BY <1>4 DEF TickEnd, NoTick, Final
<1>5. ASSUME NEW j \in Jobs, Trigger(j)
      PROVE  TypeOK'
  <2>1. /\ TriggerRun(j) \in Free /\ TriggerRun(j) \in Runs
        /\ task' = [task EXCEPT ![TriggerRun(j)] =
                      [pc |-> "rows", kind |-> "manual", job |-> j, ok |-> TRUE]]
    BY <1>5, TriggerRunIsFree DEF Trigger, TriggerRun
  <2>2. task' \in [Runs -> Task] /\ TasksHaveJobs'
    BY <2>1 DEF Task, TasksHaveJobs
  <2>3. count' \in [triggers : 0 .. MaxTriggers, takedowns : 0 .. MaxOutages,
                    restarts : 0 .. MaxOutages]
    BY <1>5 DEF Trigger
  <2> QED
    BY <1>5, <2>2, <2>3 DEF Trigger, TasksHaveJobs, Final
<1>6. ASSUME NEW r \in Runs, TriggerRows(r)
      PROVE  TypeOK'
  <2>1. task' = [task EXCEPT ![r] = NoTask] \/ task' = [task EXCEPT ![r].pc = "create"]
    BY <1>6 DEF TriggerRows
  <2>2. task' \in [Runs -> Task] /\ TasksHaveJobs'
    BY <1>6, <2>1, TaskIsOver, TaskMoves DEF TriggerRows
  <2> QED
    BY <1>6, <2>2 DEF TriggerRows, TasksHaveJobs, Final
<1>7. ASSUME NEW r \in Runs, Create(r)
      PROVE  TypeOK'
  <2>1. task[r].job \in Jobs
    BY <1>7, JobOfTask DEF Create
  <2>2. task' \in [Runs -> Task] /\ TasksHaveJobs'
    BY <1>7, TaskMoves DEF Create
  <2>3. row' \in [Runs -> Row] /\ RowsHaveJobs'
    BY <1>7, <2>1 DEF Create, Row, RowsHaveJobs, Final
  <2> QED
    BY <1>7, <2>1, <2>2, <2>3 DEF Create, TasksHaveJobs, RowsHaveJobs
<1>8. ASSUME NEW r \in Runs, Mark(r)
      PROVE  TypeOK'
  <2>1. task[r].job \in Jobs
    BY <1>8, JobOfTask DEF Mark
  <2>2. task' \in [Runs -> Task] /\ TasksHaveJobs'
    BY <1>8, TaskMoves, TaskFails DEF Mark
  <2>3. row' \in [Runs -> Row] /\ RowsHaveJobs'
    BY <1>8, <2>1 DEF Mark, Row, RowsHaveJobs, Final
  <2> QED
    BY <1>8, <2>2, <2>3 DEF Mark, TasksHaveJobs, RowsHaveJobs
<1>9. ASSUME NEW r \in Runs, NEW ok \in BOOLEAN, Answer(r, ok)
      PROVE  TypeOK'
  <2>1. task' \in [Runs -> Task] /\ TasksHaveJobs'
    BY <1>9, TaskFails DEF Answer
  <2> QED
    BY <1>9, <2>1 DEF Answer, TasksHaveJobs, Final
<1>10. ASSUME NEW r \in Runs, Write(r)
      PROVE  TypeOK'
  <2>1. \/ task' = [task EXCEPT ![r] = NoTask]
        \/ /\ task[r].kind = "schedule"
           /\ task' = [task EXCEPT ![r] = [task[r] EXCEPT !.pc = "advance"]]
    <3>1. task' = [task EXCEPT ![r] = AfterWrite(task[r])]
      BY <1>10 DEF Write
    <3>2. CASE task[r].kind = "schedule"
      BY <3>1, <3>2, Zenon DEF AfterWrite
    <3>3. CASE task[r].kind # "schedule"
      BY <3>1, <3>3, Zenon DEF AfterWrite
    <3> QED
      BY <3>2, <3>3
  <2>2. task' \in [Runs -> Task] /\ TasksHaveJobs'
    BY <1>10, <2>1, TaskIsOver, TaskAdvances DEF Write
  <2>3. row' \in [Runs -> Row] /\ RowsHaveJobs'
    BY <1>10, RowIsFinal DEF Write
  <2> QED
    BY <1>10, <2>2, <2>3 DEF Write, TasksHaveJobs, RowsHaveJobs
<1>11. ASSUME NEW r \in Runs, Advance(r)
      PROVE  TypeOK'
  <2>1. task' \in [Runs -> Task] /\ TasksHaveJobs'
    BY <1>11, TaskIsOver DEF Advance
  <2> QED
    BY <1>11, <2>1 DEF Advance, TasksHaveJobs, Final
<1>12. ASSUME TakeDown
      PROVE  TypeOK'
  <2>1. count' \in [triggers : 0 .. MaxTriggers, takedowns : 0 .. MaxOutages,
                    restarts : 0 .. MaxOutages]
    BY <1>12 DEF TakeDown, Outages
  <2> QED
    BY <1>12, <2>1, PluginTypes DEF TakeDown, Final
<1>13. ASSUME UnregisterList
      PROVE  TypeOK'
  <2>1. plugin' \in Operation
    BY <1>13 DEF UnregisterList, PluginAt, Operation
  <2> QED
    BY <1>13, <2>1 DEF UnregisterList, Final
<1>14. ASSUME NEW r \in Runs, UnregisterCancel(r)
      PROVE  TypeOK'
  <2>1. plugin' \in Operation
    BY <1>14 DEF UnregisterCancel, Operation
  <2>2. row' \in [Runs -> Row] /\ RowsHaveJobs'
    BY <1>14, RowIsFinal DEF UnregisterCancel
  <2> QED
    BY <1>14, <2>1, <2>2 DEF UnregisterCancel, RowsHaveJobs
<1>15. ASSUME UnregisterForget
      PROVE  TypeOK'
  BY <1>15, PluginTypes DEF UnregisterForget, Final
<1>16. ASSUME StopPluginWorker
      PROVE  TypeOK'
  <2>1. task' \in [Runs -> Task] /\ TasksHaveJobs'
    BY <1>16, RejectedTasks DEF StopPluginWorker
  <2> QED
    BY <1>16, <2>1, PluginTypes DEF StopPluginWorker, WorkerGone, TasksHaveJobs, Final
<1>17. ASSUME WorkerExits
      PROVE  TypeOK'
  <2>1. task' \in [Runs -> Task] /\ TasksHaveJobs'
    BY <1>17, RejectedTasks DEF WorkerExits
  <2> QED
    BY <1>17, <2>1, PluginTypes DEF WorkerExits, WorkerGone, TasksHaveJobs, Final
<1>18. ASSUME WorkerComesBack
      PROVE  TypeOK'
  BY <1>18 DEF WorkerComesBack, Final
<1>19. ASSUME ActivatePlugin
      PROVE  TypeOK'
  <2>1. plugin' \in Operation
    BY <1>19 DEF ActivatePlugin, PluginAt, Operation
  <2> QED
    BY <1>19, <2>1 DEF ActivatePlugin, Final
<1>20. ASSUME NEW j \in Jobs, NEW d \in BOOLEAN, SyncJob(j, d)
      PROVE  TypeOK'
  <2>1. plugin' \in Operation
    BY <1>20 DEF SyncJob, Operation
  <2> QED
    BY <1>20, <2>1 DEF SyncJob, Final
<1>21. ASSUME NEW j \in Jobs, EnsureNextRun(j)
      PROVE  TypeOK'
  <2>1. plugin' \in Operation
    BY <1>21 DEF EnsureNextRun, Operation
  <2> QED
    BY <1>21, <2>1 DEF EnsureNextRun, Final
<1>22. ASSUME Registered
      PROVE  TypeOK'
  BY <1>22, PluginTypes DEF Registered, Final
<1>23. ASSUME ServerRestart
      PROVE  TypeOK'
  <2>1. count' \in [triggers : 0 .. MaxTriggers, takedowns : 0 .. MaxOutages,
                    restarts : 0 .. MaxOutages]
    BY <1>23 DEF ServerRestart, Outages
  <2>2. stale' \subseteq Jobs
    BY <1>23 DEF ServerRestart, Row, Final
  <2>3. row' \in [Runs -> Row] /\ task' \in [Runs -> Task] /\ TasksHaveJobs' /\ RowsHaveJobs'
    BY <1>23, NullTypes DEF ServerRestart, TasksHaveJobs, RowsHaveJobs, Final, FinalRow, NoTask
  <2> QED
    BY <1>23, <2>1, <2>2, <2>3, PluginTypes DEF ServerRestart, NoTick, TasksHaveJobs, RowsHaveJobs
<1>24. ASSUME EnsureList
      PROVE  TypeOK'
  <2>1. plugin' \in Operation
    BY <1>24 DEF EnsureList, PluginAt, Operation
  <2> QED
    BY <1>24, <2>1 DEF EnsureList, Final
<1>25. ASSUME UNCHANGED vars
      PROVE  TypeOK'
  BY <1>25 DEF vars, Final
<1> QED
  BY <1>1, <1>2, <1>3, <1>4, <1>5, <1>6, <1>7, <1>8, <1>9, <1>10, <1>11, <1>12, <1>13,
     <1>14, <1>15, <1>16, <1>17, <1>18, <1>19, <1>20, <1>21, <1>22, <1>23, <1>24, <1>25
  DEF Next, TickStep, TaskStep, PluginStep

-----------------------------------------------------------------------------
(* What a step does to the dispatches, the rows and activeJobs.             *)

\* The awaits between marking a job active and releasing it, and those in
\* which the row of the run is open.
Tracked == {"create", "mark", "call", "write"}
Open == {"mark", "call", "write"}

\* No scheduled dispatch begins, and those in progress keep their job.
StartsNothing ==
  \A r \in Runs :
    task'[r].pc # "none" /\ task'[r].kind = "schedule" =>
      task[r].pc # "none" /\ task[r].kind = "schedule" /\ task'[r].job = task[r].job

\* The tick goes on waiting, unless it has nothing to wait for.
TickIsPatient ==
  tick'.pc # "await" => tick.pc # "await" \/ Scheduled = {} \/ Scheduled' = {}

\* The dispatch of run r goes on.
GoesOn(r) ==
  /\ task[r].pc \in Tracked => task'[r].pc \in Tracked /\ task'[r].job = task[r].job
  /\ task[r].pc \in Open => task'[r].pc \in Open

LEMMA ScheduleStays ==
  ASSUME TypeOK, NoneBetweenTicks, ScheduledOnce, StartsNothing, TickIsPatient
  PROVE  NoneBetweenTicks' /\ ScheduledOnce'
<1>1. Scheduled' \subseteq Scheduled /\ \A r \in Scheduled' : task'[r].job = task[r].job
  BY DEF Scheduled, StartsNothing
<1>2. NoneBetweenTicks'
  BY <1>1 DEF NoneBetweenTicks, TickIsPatient
<1>3. \A q, r \in Scheduled' : task'[q].job = task'[r].job => q = r
  BY <1>1 DEF ScheduledOnce
<1>4. Scheduled \subseteq Runs
  BY DEF Scheduled
<1>5. IsFiniteSet(Scheduled) /\ IsFiniteSet(Scheduled')
  BY <1>1, <1>4, FS_Subset
<1>6. Cardinality(Scheduled') <= Cardinality(Scheduled)
      /\ Cardinality(Scheduled') \in Nat /\ Cardinality(Scheduled) \in Nat
  BY <1>1, <1>5, FS_Subset, FS_CardinalityType
<1>7. Cardinality(Scheduled') <= MaxConcurrentJobs
  BY <1>6 DEF ScheduledOnce
<1> QED
  BY <1>2, <1>3, <1>7 DEF ScheduledOnce

LEMMA TrackingStays ==
  ASSUME ActiveIsDispatched, active' \subseteq active,
         \A r \in Runs : task[r].job \in active' => GoesOn(r)
  PROVE  ActiveIsDispatched'
<1>1. SUFFICES ASSUME NEW j \in active'
               PROVE  \E r \in Runs : task'[r].job = j /\ task'[r].pc \in Tracked
  BY DEF ActiveIsDispatched, Tracked
<1>2. PICK r \in Runs : task[r].job = j /\ task[r].pc \in Tracked
  BY <1>1 DEF ActiveIsDispatched, Tracked
<1> QED
  BY <1>1, <1>2 DEF GoesOn

LEMMA HandlingStays ==
  ASSUME OpenIsHandled, \A r \in Runs : row'[r].status # "final" => ~Final(r) /\ GoesOn(r)
  PROVE  OpenIsHandled'
  BY DEF OpenIsHandled, Final, GoesOn, Open

\* The steps that change neither rows nor dispatches.
LEMMA QuietStep ==
  ASSUME JobsInv, UNCHANGED <<row, task, active>>, TickIsPatient
  PROVE  NoneBetweenTicks' /\ ScheduledOnce' /\ ActiveIsDispatched' /\ OpenIsHandled'
<1> USE DEF JobsInv
<1>1. StartsNothing /\ \A r \in Runs : GoesOn(r)
  BY DEF StartsNothing, GoesOn
<1> QED
  BY <1>1, ScheduleStays, TrackingStays, HandlingStays DEF Final


\* The tick dispatches while nothing scheduled is in progress, on free runs
\* and within the limit.
LEMMA DispatchStep ==
  ASSUME JobsInv, TickDispatch
  PROVE  NoneBetweenTicks' /\ ScheduledOnce' /\ ActiveIsDispatched' /\ OpenIsHandled'
<1> USE DEF JobsInv
<1>1. PICK s \in Batches : /\ Cardinality(s) <= Cardinality(Free)
                           /\ Dispatched(s)
                           /\ active' = active \cup s
                           /\ tick' = IF s = {} THEN NoTick ELSE [pc |-> "await", list |-> {}]
  BY DEF TickDispatch, Dispatched
<1>2. s \subseteq Jobs /\ IsFiniteSet(s) /\ Cardinality(s) \in Nat
      /\ Cardinality(s) <= MaxConcurrentJobs
  BY <1>1, BatchBound
<1> DEFINE f == NewRuns(s)
<1>3. /\ f \in [s -> Free]
      /\ \A i, j \in s : i # j => f[i] # f[j]
  BY <1>1, <1>2, NewRunsDiffer
<1>4. \A j \in s : f[j] \in Runs /\ task[f[j]].pc = "none" /\ Final(f[j])
  BY <1>3 DEF Free
<1> HIDE DEF f
<1>5. Scheduled = {}
  BY DEF TickDispatch, NoneBetweenTicks
<1>6. \A j \in s : task'[f[j]].pc = "create" /\ task'[f[j]].kind = "schedule" /\ task'[f[j]].job = j
  <2> TAKE j \in s
  <2>1. (CHOOSE i \in s : f[i] = f[j]) = j
    BY <1>3
  <2>2. task'[f[j]] = [pc |-> "create", kind |-> "schedule", ok |-> TRUE, job |-> j]
    BY <1>1, <1>4, <2>1 DEF Dispatched, f
  <2> QED
    BY <2>2
<1>7. \A r \in Runs : (\A j \in s : f[j] # r) => task'[r] = task[r]
  BY <1>1 DEF Dispatched, f
<1>8. \A r \in Scheduled' : \E j \in s : f[j] = r
  BY <1>5, <1>7 DEF Scheduled
<1>9. \A j \in s : f[j] \in Scheduled'
  BY <1>4, <1>6 DEF Scheduled
<1>10. NoneBetweenTicks'
  BY <1>1, <1>8 DEF NoneBetweenTicks
<1>11. ScheduledOnce'
  <2>1. \A q, r \in Scheduled' : task'[q].job = task'[r].job => q = r
    BY <1>6, <1>8
  <2>2. [j \in s |-> f[j]] \in Surjection(s, Scheduled')
    BY <1>8, <1>9, Fun_IsSurj
  <2>3. IsFiniteSet(Scheduled') /\ Cardinality(Scheduled') <= Cardinality(s)
    BY <1>2, <2>2, FS_Surjection
  <2>4. Cardinality(Scheduled') <= MaxConcurrentJobs
    BY <1>2, <2>3, FS_CardinalityType DEF JobsAssumption
  <2> QED
    BY <2>1, <2>4 DEF ScheduledOnce
<1>12. \A r \in Runs : task[r].pc # "none" => task'[r] = task[r]
  BY <1>4, <1>7
<1>13. ActiveIsDispatched'
  <2> SUFFICES ASSUME NEW j \in active'
               PROVE  \E r \in Runs : task'[r].job = j /\ task'[r].pc \in Tracked
    BY DEF ActiveIsDispatched, Tracked
  <2>1. CASE j \in s
    BY <1>4, <1>6, <2>1 DEF Tracked
  <2>2. CASE j \in active
    <3>1. PICK r \in Runs : task[r].job = j /\ task[r].pc \in Tracked
      BY <2>2 DEF ActiveIsDispatched, Tracked
    <3> QED
      BY <1>12, <3>1 DEF Tracked
  <2> QED
    BY <1>1, <2>1, <2>2
<1>14. OpenIsHandled'
  BY <1>12 DEF OpenIsHandled, Final, TickDispatch
<1> QED
  BY <1>10, <1>11, <1>13, <1>14

-----------------------------------------------------------------------------
(* Every action.                                                            *)

LEMMA SafeStep ==
  JobsInv /\ [Next]_vars =>
    NoneBetweenTicks' /\ ScheduledOnce' /\ ActiveIsDispatched' /\ OpenIsHandled'
<1> DEFINE Safe == NoneBetweenTicks /\ ScheduledOnce /\ ActiveIsDispatched /\ OpenIsHandled
<1> SUFFICES ASSUME JobsInv, [Next]_vars PROVE Safe'
  OBVIOUS
<1> HIDE DEF Safe
<1>0. /\ TypeOK /\ NoneBetweenTicks /\ ScheduledOnce /\ ActiveIsDispatched /\ OpenIsHandled
      /\ task \in [Runs -> Task] /\ row \in [Runs -> Row] /\ TasksHaveJobs /\ RowsHaveJobs
  BY TypedTasks DEF JobsInv
<1>1. ASSUME NEW j \in Jobs, TimePasses(j)
      PROVE  Safe'
  BY <1>1, QuietStep DEF Safe, TimePasses, TickIsPatient
<1>2. ASSUME TickBegin
      PROVE  Safe'
  BY <1>2, QuietStep DEF Safe, TickBegin, NoTick, TickIsPatient
<1>3. ASSUME TickDispatch
      PROVE  Safe'
  BY <1>3, DispatchStep DEF Safe
<1>4. ASSUME TickEnd
      PROVE  Safe'
  BY <1>4, QuietStep DEF Safe, TickEnd, NoTick, TickIsPatient
<1>5. ASSUME NEW j \in Jobs, Trigger(j)
      PROVE  Safe'
  <2>1. /\ TriggerRun(j) \in Free /\ TriggerRun(j) \in Runs
        /\ task' = [task EXCEPT ![TriggerRun(j)] =
                      [pc |-> "rows", kind |-> "manual", job |-> j, ok |-> TRUE]]
    BY <1>0, <1>5, TriggerRunIsFree DEF Trigger, TriggerRun
  <2>2. task[TriggerRun(j)].pc = "none" /\ task'[TriggerRun(j)].kind = "manual"
    BY <1>0, <2>1 DEF Free
  <2>3. \A q \in Runs : q # TriggerRun(j) => task'[q] = task[q]
    BY <1>0, <2>1
  <2>4. StartsNothing /\ TickIsPatient /\ \A q \in Runs : GoesOn(q)
    BY <1>5, <2>2, <2>3 DEF Trigger, StartsNothing, TickIsPatient, GoesOn, Tracked, Open
  <2>5. ActiveIsDispatched' /\ OpenIsHandled'
    BY <1>0, <1>5, <2>4, TrackingStays, HandlingStays DEF Trigger, Final
  <2> QED
    BY <1>0, <2>4, <2>5, ScheduleStays DEF Safe
<1>6. ASSUME NEW r \in Runs, TriggerRows(r)
      PROVE  Safe'
  <2>1. StartsNothing /\ TickIsPatient /\ \A q \in Runs : GoesOn(q)
    BY <1>0, <1>6 DEF TriggerRows, NoTask, Task, StartsNothing, TickIsPatient, GoesOn, Tracked, Open
  <2>2. ActiveIsDispatched' /\ OpenIsHandled'
    BY <1>0, <1>6, <2>1, TrackingStays, HandlingStays DEF TriggerRows, Final
  <2> QED
    BY <1>0, <2>1, <2>2, ScheduleStays DEF Safe
<1>7. ASSUME NEW r \in Runs, Create(r)
      PROVE  Safe'
  <2>1. StartsNothing /\ TickIsPatient /\ \A q \in Runs : GoesOn(q)
    BY <1>0, <1>7 DEF Create, Task, StartsNothing, TickIsPatient, GoesOn, Tracked, Open
  <2>2. task'[r].pc = "mark" /\ task'[r].job = task[r].job
    BY <1>0, <1>7 DEF Create, Task
  <2>3. ActiveIsDispatched'
    BY <1>0, <1>7, <2>1, <2>2 DEF Create, ActiveIsDispatched, GoesOn, Tracked
  <2>4. OpenIsHandled'
    BY <1>0, <1>7, <2>1, <2>2 DEF Create, OpenIsHandled, Final, GoesOn, Open
  <2> QED
    BY <1>0, <2>1, <2>3, <2>4, ScheduleStays DEF Safe
<1>8. ASSUME NEW r \in Runs, Mark(r)
      PROVE  Safe'
  <2>1. StartsNothing /\ TickIsPatient /\ \A q \in Runs : GoesOn(q)
    BY <1>0, <1>8 DEF Mark, Task, StartsNothing, TickIsPatient, GoesOn, Tracked, Open
  <2>2. ActiveIsDispatched'
    BY <1>0, <1>8, <2>1, TrackingStays DEF Mark
  <2>3. OpenIsHandled'
    BY <1>0, <1>8, <2>1 DEF Mark, OpenIsHandled, Final, GoesOn, Open
  <2> QED
    BY <1>0, <2>1, <2>2, <2>3, ScheduleStays DEF Safe
<1>9. ASSUME NEW r \in Runs, NEW ok \in BOOLEAN, Answer(r, ok)
      PROVE  Safe'
  <2>1. StartsNothing /\ TickIsPatient /\ \A q \in Runs : GoesOn(q)
    BY <1>0, <1>9 DEF Answer, NoTask, Task, StartsNothing, TickIsPatient, GoesOn, Tracked, Open
  <2>2. ActiveIsDispatched' /\ OpenIsHandled'
    BY <1>0, <1>9, <2>1, TrackingStays, HandlingStays DEF Answer, Final
  <2> QED
    BY <1>0, <2>1, <2>2, ScheduleStays DEF Safe
<1>10. ASSUME NEW r \in Runs, Write(r)
      PROVE  Safe'
  <2>1. StartsNothing /\ TickIsPatient /\ \A q \in Runs \ {r} : GoesOn(q)
    BY <1>0, <1>10 DEF Write, AfterWrite, NoTask, Task, StartsNothing, TickIsPatient, GoesOn
  <2>2. task[r].job \notin active' /\ active' \subseteq active
    BY <1>10 DEF Write
  <2>3. ActiveIsDispatched'
    BY <1>0, <2>1, <2>2, TrackingStays
  <2>4. \A q \in Runs : row'[q].status # "final" => ~Final(q) /\ q # r
    BY <1>0, <1>10 DEF Write, Final, FinalRow
  <2>5. OpenIsHandled'
    BY <1>0, <2>1, <2>4, HandlingStays
  <2> QED
    BY <1>0, <2>1, <2>3, <2>5, ScheduleStays DEF Safe
<1>11. ASSUME NEW r \in Runs, Advance(r)
      PROVE  Safe'
  <2>1. StartsNothing /\ TickIsPatient /\ \A q \in Runs : GoesOn(q)
    BY <1>0, <1>11 DEF Advance, NoTask, Task, StartsNothing, TickIsPatient, GoesOn, Tracked, Open
  <2>2. ActiveIsDispatched' /\ OpenIsHandled'
    BY <1>0, <1>11, <2>1, TrackingStays, HandlingStays DEF Advance, Final
  <2> QED
    BY <1>0, <2>1, <2>2, ScheduleStays DEF Safe
<1>12. ASSUME TakeDown
      PROVE  Safe'
  BY <1>12, QuietStep DEF Safe, TakeDown, TickIsPatient
<1>13. ASSUME UnregisterList
      PROVE  Safe'
  BY <1>13, QuietStep DEF Safe, UnregisterList, TickIsPatient
<1>14. ASSUME NEW r \in Runs, UnregisterCancel(r)
      PROVE  Safe'
  <2>1. StartsNothing /\ TickIsPatient /\ \A q \in Runs : GoesOn(q)
    BY <1>14 DEF UnregisterCancel, StartsNothing, TickIsPatient, GoesOn
  <2>2. \A q \in Runs : row'[q].status # "final" => ~Final(q)
    BY <1>0, <1>14 DEF UnregisterCancel, Final, FinalRow
  <2>3. ActiveIsDispatched' /\ OpenIsHandled'
    BY <1>0, <1>14, <2>1, <2>2, TrackingStays, HandlingStays DEF UnregisterCancel
  <2> QED
    BY <1>0, <2>1, <2>3, ScheduleStays DEF Safe
<1>15. ASSUME UnregisterForget
      PROVE  Safe'
  <2>1. StartsNothing /\ TickIsPatient /\ \A r \in Runs : GoesOn(r)
    BY <1>15 DEF UnregisterForget, StartsNothing, TickIsPatient, GoesOn
  <2>2. ActiveIsDispatched' /\ OpenIsHandled'
    BY <1>0, <1>15, <2>1, HandlingStays DEF UnregisterForget, ActiveIsDispatched, Final
  <2> QED
    BY <1>0, <2>1, <2>2, ScheduleStays DEF Safe
<1>16. ASSUME StopPluginWorker
      PROVE  Safe'
  <2>1. StartsNothing /\ TickIsPatient /\ \A r \in Runs : GoesOn(r)
    BY <1>0, <1>16
    DEF StopPluginWorker, WorkerGone, Task, StartsNothing, TickIsPatient, GoesOn, Tracked, Open
  <2>2. ActiveIsDispatched' /\ OpenIsHandled'
    BY <1>0, <1>16, <2>1, TrackingStays, HandlingStays DEF StopPluginWorker, Final
  <2> QED
    BY <1>0, <2>1, <2>2, ScheduleStays DEF Safe
<1>17. ASSUME WorkerExits
      PROVE  Safe'
  <2>1. StartsNothing /\ TickIsPatient /\ \A r \in Runs : GoesOn(r)
    BY <1>0, <1>17
    DEF WorkerExits, WorkerGone, Task, StartsNothing, TickIsPatient, GoesOn, Tracked, Open
  <2>2. ActiveIsDispatched' /\ OpenIsHandled'
    BY <1>0, <1>17, <2>1, TrackingStays, HandlingStays DEF WorkerExits, Final
  <2> QED
    BY <1>0, <2>1, <2>2, ScheduleStays DEF Safe
<1>18. ASSUME WorkerComesBack
      PROVE  Safe'
  BY <1>18, QuietStep DEF Safe, WorkerComesBack, TickIsPatient
<1>19. ASSUME ActivatePlugin
      PROVE  Safe'
  BY <1>19, QuietStep DEF Safe, ActivatePlugin, TickIsPatient
<1>20. ASSUME NEW j \in Jobs, NEW d \in BOOLEAN, SyncJob(j, d)
      PROVE  Safe'
  BY <1>20, QuietStep DEF Safe, SyncJob, TickIsPatient
<1>21. ASSUME NEW j \in Jobs, EnsureNextRun(j)
      PROVE  Safe'
  BY <1>21, QuietStep DEF Safe, EnsureNextRun, TickIsPatient
<1>22. ASSUME Registered
      PROVE  Safe'
  BY <1>22, QuietStep DEF Safe, Registered, TickIsPatient
<1>23. ASSUME ServerRestart
      PROVE  Safe'
  <2>1. Scheduled' = {} /\ StartsNothing /\ TickIsPatient
    BY <1>23 DEF ServerRestart, NoTask, Scheduled, StartsNothing, TickIsPatient
  <2>2. ActiveIsDispatched' /\ OpenIsHandled'
    BY <1>23 DEF ServerRestart, ActiveIsDispatched, OpenIsHandled, Final, FinalRow
  <2> QED
    BY <1>0, <2>1, <2>2, ScheduleStays DEF Safe
<1>24. ASSUME EnsureList
      PROVE  Safe'
  BY <1>24, QuietStep DEF Safe, EnsureList, TickIsPatient
<1>25. ASSUME UNCHANGED vars
      PROVE  Safe'
  BY <1>25, QuietStep DEF Safe, vars, TickIsPatient
<1> QED
  BY <1>1, <1>2, <1>3, <1>4, <1>5, <1>6, <1>7, <1>8, <1>9, <1>10, <1>11, <1>12,
     <1>13, <1>14, <1>15, <1>16, <1>17, <1>18, <1>19, <1>20, <1>21, <1>22, <1>23, <1>24, <1>25
  DEF Next, TickStep, TaskStep, PluginStep

LEMMA JobsInit == Init => JobsInv
<1> SUFFICES ASSUME Init PROVE JobsInv
  OBVIOUS
<1>1. TypeOK
  <2>1. row \in [Runs -> Row] /\ task \in [Runs -> Task]
    BY NullTypes DEF Init
  <2>2. RowsHaveJobs /\ TasksHaveJobs
    BY DEF Init, RowsHaveJobs, TasksHaveJobs, Final, FinalRow, NoTask
  <2>3. count \in [triggers : 0 .. MaxTriggers, takedowns : 0 .. MaxOutages,
                   restarts : 0 .. MaxOutages]
    BY DEF Init, NoCount, JobsAssumption
  <2> QED
    BY <2>1, <2>2, <2>3, PluginTypes DEF Init, TypeOK, RowsHaveJobs, TasksHaveJobs, NoTick
<1>2. Scheduled = {}
  BY DEF Init, Scheduled, NoTask
<1>3. ScheduledOnce
  BY <1>2, FS_EmptySet DEF ScheduledOnce, JobsAssumption
<1> QED
  BY <1>1, <1>2, <1>3
  DEF Init, JobsInv, NoneBetweenTicks, ActiveIsDispatched, OpenIsHandled, Final, FinalRow

LEMMA JobsInvHolds == Spec => []JobsInv
<1>1. JobsInv /\ [Next]_vars => JobsInv'
  BY TypeStep, SafeStep DEF JobsInv
<1> QED
  BY <1>1, JobsInit, PTL DEF Spec

-----------------------------------------------------------------------------
(* Theorems *)

\* Rows, dispatches and the scheduler's bookkeeping stay well-formed: a final
\* row and an ended dispatch belong to no job, and only a scheduled run gets
\* as far as the schedule pointer.
THEOREM JobTypesHold == Spec => []TypeOK
<1>1. JobsInv => TypeOK
  BY DEF JobsInv
<1> QED
  BY <1>1, JobsInvHolds, PTL

\* The schedule never starts a job a second time while its dispatch is in
\* progress, and never more jobs than the limit, also when unregisterPlugin
\* empties activeJobs in the middle: the tick that awaits its dispatches
\* holds the next one back.
THEOREM JobsAreScheduledOnce == Spec => []ScheduledOnce
<1>1. JobsInv => ScheduledOnce
  BY DEF JobsInv
<1> QED
  BY <1>1, JobsInvHolds, PTL

\* No job stays in activeJobs without a dispatch that will take it out: the
\* finally block of every dispatch does, however the call of the worker ends.
THEOREM NoJobStaysBlocked == Spec => []ActiveIsDispatched
<1>1. JobsInv => ActiveIsDispatched
  BY DEF JobsInv
<1> QED
  BY <1>1, JobsInvHolds, PTL

\* A row that is queued or running has a dispatch in progress that completes
\* it, whatever cancels, overwrites, forgets or times it out meanwhile.
THEOREM NoRunIsLeftOpen == Spec => []RunsAreCompleted
<1>1. JobsInv => RunsAreCompleted
  BY DEF JobsInv, OpenIsHandled, RunsAreCompleted
<1> QED
  BY <1>1, JobsInvHolds, PTL

=============================================================================
