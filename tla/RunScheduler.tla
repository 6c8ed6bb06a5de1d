---------------------------- MODULE RunScheduler ----------------------------
(***************************************************************************)
(* The run queue of the heartbeat service                                  *)
(* (server/src/services/heartbeat.ts): how queued runs are claimed under   *)
(* the per-agent start lock, executed, cancelled by the API, by an agent   *)
(* pause or by a company budget stop, reaped when their process is lost,   *)
(* and how the agent's status follows.                                     *)
(*                                                                         *)
(* The server is one Node process.  A request or a background task is a    *)
(* chain of awaits, so each action is what happens between two awaits: one *)
(* SQL statement with the memory accesses around it.  Callers of           *)
(* startNextQueuedRunForAgent wait in a FIFO promise chain per agent; the  *)
(* caller at the head of the chain drains the agent's queue.               *)
(*                                                                         *)
(* Abstracted: issues and the issue lock (module IssueExecution), projects *)
(* and spend (a company is blocked or not), coalescing of wakeups (it adds *)
(* no run), the status timed_out (it is written and treated like failed),  *)
(* the agent statuses terminated and pending_approval (they stop a claim   *)
(* as paused does).  A run's status and its wakeup row's are written in    *)
(* one step, except in claimQueuedRun, where the second write is late.     *)
(***************************************************************************)
EXTENDS Integers, Sequences, FiniteSets

CONSTANTS
  Agents,         \* agents of one company
  NoAgent,        \* no agent
  MaxRuns,        \* bound: rows of heartbeat_runs
  MaxConcurrent,  \* policy.maxConcurrentRuns, the same for every agent
  Operations,     \* which of "cancel", "pause" and "budget" the board uses
  Scheduler,      \* config.heartbeatSchedulerEnabled
  LocalChildren,  \* TRUE: adapters spawn a tracked local child process
  MaxCrashes      \* bound: restarts of the server

ASSUME SchedulerAssumption ==
  /\ NoAgent \notin Agents
  /\ MaxRuns \in Nat /\ MaxCrashes \in Nat
  /\ MaxConcurrent \in Nat \ {0}
  /\ Operations \subseteq {"cancel", "pause", "budget"}
  /\ Scheduler \in BOOLEAN /\ LocalChildren \in BOOLEAN

RunId    == 1 .. MaxRuns    \* in createdAt order
NoRun    == 0
Terminal == {"succeeded", "failed", "cancelled"}
Live     == {"queued", "running"}

Run == [agent  : Agents \cup {NoAgent},
        status : {"none"} \cup Live \cup Terminal,
        wake   : {"queued", "claimed", "finished"},  \* its wakeup request
        pid    : BOOLEAN,                            \* processPid is recorded
        retry  : BOOLEAN,                            \* processLossRetryCount > 0
        detached : BOOLEAN]                          \* errorCode = 'process_detached'

NoRow == [agent |-> NoAgent, status |-> "none", wake |-> "queued",
          pid |-> FALSE, retry |-> FALSE, detached |-> FALSE]

QueuedRowClaimed(a, retry) == [agent |-> a, status |-> "claimed", wake |-> "queued",
                               pid |-> FALSE, retry |-> retry, detached |-> FALSE]
QueuedRow(a, retry) == [agent |-> a, status |-> "queued", wake |-> "queued",
                        pid |-> FALSE, retry |-> retry, detached |-> FALSE]

(***************************************************************************)
(* Threads: the chains of awaits that may wait for a start lock.           *)
(***************************************************************************)
Exec(r)   == <<"exec", r>>      \* executeRun(r)
Claim(a)  == <<"claim", a>>     \* cancelRunInternal called by a claim of a
Api       == <<"api", 0>>       \* cancelRunInternal called by a route
Budget    == <<"budget", 0>>    \* cancelRunInternal called by a budget stop
Reaper    == <<"reaper", 0>>    \* reapOrphanedRuns
Wake(a)   == <<"wake", a>>      \* enqueueWakeup for a, after its insert
Resume(a) == <<"resume", a>>    \* resumeQueuedRuns, at agent a

Cancellers == {Api, Budget} \cup {Claim(a) : a \in Agents}
Workers    == Cancellers \cup {Reaper} \cup {Exec(r) : r \in RunId}
Threads    == Workers \cup {Wake(a) : a \in Agents} \cup {Resume(a) : a \in Agents}

\* What a worker is doing for a run: a cancellation starts at "read", every
\* worker ends with finalizeAgentStatus ("count", "settle") and
\* startNextQueuedRunForAgent ("lock"); "retry" is the reaper's.
Job  == [pc : {"idle", "read", "write", "retry", "count", "settle", "lock"},
         run : RunId \cup {NoRun}, next : {"idle", "running", "error"}]
Idle == [pc |-> "idle", run |-> NoRun, next |-> "idle"]
JobAt(pc, r) == [pc |-> pc, run |-> r, next |-> "idle"]

Drain   == [pc : {"open", "claim", "update", "wake", "cancel"},
            todo : SUBSET RunId, claimed : SUBSET RunId]
NoDrain == [pc |-> "open", todo |-> {}, claimed |-> {}]

\* An execution, the heartbeatService() instance it belongs to (each has
\* its own activeRunExecutions) and its child process: "registered" in
\* runningProcesses, "signalled" and dropped from it, or "detached" from
\* the server that spawned it.
Execution == [pc : {"none", "check", "setup", "launch", "adapter", "write", "closing"},
              inst : {"routes", "scheduler"},
              outcome : Terminal,
              process : {"none", "registered", "signalled", "detached"}]
NoExec == [pc |-> "none", inst |-> "routes", outcome |-> "succeeded", process |-> "none"]

VARIABLES
  agentStatus,  \* agents.status
  blocked,      \* companies.status = 'paused' for its budget
  runs,         \* heartbeat_runs with its agent_wakeup_requests
  chain,        \* startLocksByAgent: the callers in each agent's promise chain
  drain,        \* startNextQueuedRunForAgent of the caller at the head
  exec,         \* executeRun of each run
  job,          \* what each worker does
  waking,       \* agents for which enqueueWakeup has passed its checks
  pauser,       \* per agent: the runs cancelActiveForAgent has left
  stop,         \* the runs cancelBudgetScopeWork has left
  recover,      \* the recovery pass of the scheduler interval
  lost,         \* history: runs that were running when the server crashed
  crashes       \* restarts so far

vars == <<agentStatus, blocked, runs, chain, drain, exec, job, waking, pauser,
          stop, recover, lost, crashes>>

Pass == [pc : {"idle", "list", "cancel"}, todo : SUBSET RunId]
NoPass == [pc |-> "idle", todo |-> {}]

Recovery == [pc : {"idle", "reap", "resume"}, todo : SUBSET RunId,
             warned : SUBSET RunId,    \* those of todo listed as detached
             agents : SUBSET Agents, wait : Agents \cup {NoAgent}]
NoRecovery == [pc |-> "idle", todo |-> {}, warned |-> {}, agents |-> {}, wait |-> NoAgent]
Reap(list) == [NoRecovery EXCEPT !.pc = "reap", !.todo = list,
                                 !.warned = {r \in list : runs[r].detached}]

TypeOK ==
  /\ agentStatus \in [Agents -> {"idle", "running", "error", "paused"}]
  /\ blocked \in BOOLEAN
  /\ runs \in [RunId -> Run]
  /\ DOMAIN chain = Agents
  /\ \A a \in Agents : \A i \in 1 .. Len(chain[a]) : chain[a][i] \in Threads
  /\ drain \in [Agents -> Drain]
  /\ exec \in [RunId -> Execution]
  /\ job \in [Workers -> Job]
  /\ waking \subseteq Agents
  /\ pauser \in [Agents -> Pass]
  /\ stop \in Pass
  /\ recover \in Recovery
  /\ lost \subseteq RunId
  /\ crashes \in 0 .. MaxCrashes

-----------------------------------------------------------------------------
With(status) == {r \in RunId : runs[r].status = status}
OfAgent(a)   == {r \in RunId : runs[r].agent = a}
Active       == With("queued") \cup With("running")
Oldest(S)    == CHOOSE r \in S : \A q \in S : r <= q
FirstOf(S, n) == {r \in S : Cardinality({q \in S : q < r}) < n}
NewRun       == Cardinality(RunId \ With("none")) + 1

RunningOf(a) == OfAgent(a) \cap With("running")
AvailableSlotsIgnoringRunning(a) == MaxConcurrent
AvailableSlots(a) == MaxConcurrent - Cardinality(RunningOf(a))

\* The rows startNextQueuedRunForAgent selects: none for a paused agent or
\* without a free slot.
Startable(a) ==
  IF agentStatus[a] = "paused" THEN {}
  ELSE FirstOf(OfAgent(a) \cap With("queued"), AvailableSlots(a))

SetStatus(r, status) ==
  [runs EXCEPT ![r].status = status, ![r].wake = "finished", ![r].detached = FALSE]

InstanceOf(t) ==
  IF t[1] = "exec" THEN exec[t[2]].inst
  ELSE IF t[1] \in {"reaper", "resume"} THEN "scheduler" ELSE "routes"

-----------------------------------------------------------------------------
(***************************************************************************)
(* enqueueWakeup.  The company's budget and the agent's status are checked *)
(* first; the run is inserted some awaits later, without a new check.      *)
(***************************************************************************)
EnqueueCheck(a) ==
  /\ a \notin waking
  /\ With("none") # {}
  /\ agentStatus[a] # "paused" /\ ~blocked
  /\ waking' = waking \cup {a}
  /\ UNCHANGED <<agentStatus, blocked, runs, chain, drain, exec, job, pauser,
                 stop, recover, lost, crashes>>

EnqueueInsert(a) ==
  /\ a \in waking
  /\ waking' = waking \ {a}
  /\ IF With("none") = {} THEN UNCHANGED <<runs, chain>>   \* bound MaxRuns
     ELSE /\ runs' = [runs EXCEPT ![NewRun] = QueuedRow(a, FALSE)]
          /\ chain' = [chain EXCEPT ![a] = Append(@, Wake(a))]
  /\ UNCHANGED <<agentStatus, blocked, drain, exec, job, pauser, stop, recover,
                 lost, crashes>>

-----------------------------------------------------------------------------
(***************************************************************************)
(* startNextQueuedRunForAgent, by the caller at the head of the chain.     *)
(***************************************************************************)
Holding(a, pc) == chain[a] # <<>> /\ drain[a].pc = pc

\* The caller leaves the chain and goes on; so does the next one in it.
Return(a) ==
  LET t == Head(chain[a]) IN
  /\ chain' = [chain EXCEPT ![a] = Tail(@)]
  /\ drain' = [drain EXCEPT ![a] = NoDrain]
  /\ job' = IF t \in Workers THEN [job EXCEPT ![t] = Idle] ELSE job
  /\ recover' = IF t = Resume(a) THEN [recover EXCEPT !.wait = NoAgent] ELSE recover

DrainNothing(a) ==
  /\ Holding(a, "open")
  /\ Startable(a) = {}
  /\ Return(a)
  /\ UNCHANGED <<agentStatus, blocked, runs, exec, waking, pauser, stop, lost, crashes>>

DrainList(a) ==
  /\ Holding(a, "open")
  /\ Startable(a) # {}
  /\ drain' = [drain EXCEPT ![a] = [pc |-> "claim", todo |-> Startable(a), claimed |-> {}]]
  /\ UNCHANGED <<agentStatus, blocked, runs, chain, exec, job, waking, pauser,
                 stop, recover, lost, crashes>>

Claiming(a) == Oldest(drain[a].todo)
NextClaim(a, claimed) ==
  drain' = [drain EXCEPT ![a] = [pc |-> "claim", todo |-> @.todo \ {Claiming(a)},
                                 claimed |-> @.claimed \cup claimed]]

\* claimQueuedRun: a run that may not start is cancelled here, by the
\* caller that holds the start lock.
ClaimRefused(a) ==
  /\ Holding(a, "claim") /\ drain[a].todo # {}
  /\ agentStatus[a] = "paused" \/ blocked
  /\ drain' = [drain EXCEPT ![a].pc = "cancel"]
  /\ job' = [job EXCEPT ![Claim(a)] = JobAt("read", Claiming(a))]
  /\ UNCHANGED <<agentStatus, blocked, runs, chain, exec, waking, pauser, stop,
                 recover, lost, crashes>>

ClaimAllowed(a) ==
  /\ Holding(a, "claim") /\ drain[a].todo # {}
  /\ agentStatus[a] # "paused" /\ ~blocked
  /\ drain' = [drain EXCEPT ![a].pc = "update"]
  /\ UNCHANGED <<agentStatus, blocked, runs, chain, exec, job, waking, pauser,
                 stop, recover, lost, crashes>>

\* The cancellation found the run settled and returned at once.
ClaimCancelled(a) ==
  /\ Holding(a, "cancel") /\ job[Claim(a)].pc = "idle"
  /\ NextClaim(a, {})
  /\ UNCHANGED <<agentStatus, blocked, runs, chain, exec, job, waking, pauser,
                 stop, recover, lost, crashes>>

ClaimableWhateverStatus(r) == runs[r].status # "none"
Claimable(r) == runs[r].status = "queued"

ClaimUpdate(a) ==
  /\ Holding(a, "update")
  /\ IF Claimable(Claiming(a))
     THEN /\ runs' = [runs EXCEPT ![Claiming(a)].status = "running"]
          /\ drain' = [drain EXCEPT ![a].pc = "wake"]
     ELSE /\ NextClaim(a, {}) /\ UNCHANGED runs
  /\ UNCHANGED <<agentStatus, blocked, chain, exec, job, waking, pauser, stop,
                 recover, lost, crashes>>

ClaimWake(a) ==
  /\ Holding(a, "wake")
  /\ runs' = [runs EXCEPT ![Claiming(a)].wake = "claimed"]
  /\ NextClaim(a, {Claiming(a)})
  /\ UNCHANGED <<agentStatus, blocked, chain, exec, job, waking, pauser, stop,
                 recover, lost, crashes>>

\* The executions of the claimed runs are started and not awaited.
DrainLaunch(a) ==
  /\ Holding(a, "claim") /\ drain[a].todo = {}
  /\ exec' = [r \in RunId |->
                IF r \in drain[a].claimed
                THEN [NoExec EXCEPT !.pc = "check", !.inst = InstanceOf(Head(chain[a]))]
                ELSE exec[r]]
  /\ Return(a)
  /\ UNCHANGED <<agentStatus, blocked, runs, waking, pauser, stop, lost, crashes>>

-----------------------------------------------------------------------------
(***************************************************************************)
(* executeRun.                                                             *)
(***************************************************************************)
MayExecuteUnlessStopped(r) ==
  runs[r].status \in Live /\ agentStatus[runs[r].agent] # "paused" /\ ~blocked
MayExecute(r) == runs[r].status \in Live

ExecCheck(r) ==
  /\ exec[r].pc = "check"
  /\ exec' = [exec EXCEPT ![r].pc = IF MayExecute(r) THEN "setup" ELSE "none"]
  /\ UNCHANGED <<agentStatus, blocked, runs, chain, drain, job, waking, pauser,
                 stop, recover, lost, crashes>>

\* The agent becomes "running" whatever its status is by now.
ExecSetup(r) ==
  /\ exec[r].pc = "setup"
  /\ exec' = [exec EXCEPT ![r].pc = "launch"]
  /\ agentStatus' = [agentStatus EXCEPT ![runs[r].agent] = "running"]
  /\ UNCHANGED <<blocked, runs, chain, drain, job, waking, pauser, stop,
                 recover, lost, crashes>>

ExecLaunch(r) ==
  /\ exec[r].pc = "launch"
  /\ exec' = [exec EXCEPT ![r].pc = "adapter",
                          ![r].process = IF LocalChildren THEN "registered" ELSE "none"]
  /\ runs' = [runs EXCEPT ![r].pid = LocalChildren]
  /\ UNCHANGED <<agentStatus, blocked, chain, drain, job, waking, pauser, stop,
                 recover, lost, crashes>>

Finished(r, outcome) ==
  exec' = [exec EXCEPT ![r].pc = "write", ![r].outcome = outcome, ![r].process = "none"]

\* The adapter's result counts unless the row says "cancelled" by now.
AdapterReturn(r) ==
  /\ exec[r].pc = "adapter"
  /\ \E result \in {"succeeded", "failed"} :
       Finished(r, IF runs[r].status = "cancelled" THEN "cancelled" ELSE result)
  /\ UNCHANGED <<agentStatus, blocked, runs, chain, drain, job, waking, pauser,
                 stop, recover, lost, crashes>>

\* An exception in the setup or in the adapter: the row is not read again.
ExecThrow(r) ==
  /\ exec[r].pc \in {"setup", "adapter"}
  /\ Finished(r, "failed")
  /\ UNCHANGED <<agentStatus, blocked, runs, chain, drain, job, waking, pauser,
                 stop, recover, lost, crashes>>

ExecWrite(r) ==
  /\ exec[r].pc = "write"
  /\ exec' = [exec EXCEPT ![r].pc = "closing"]
  /\ runs' = SetStatus(r, exec[r].outcome)
  /\ job' = [job EXCEPT ![Exec(r)] = JobAt("count", r)]
  /\ UNCHANGED <<agentStatus, blocked, chain, drain, waking, pauser, stop,
                 recover, lost, crashes>>

-----------------------------------------------------------------------------
(***************************************************************************)
(* finalizeAgentStatus, then startNextQueuedRunForAgent: how executeRun,   *)
(* cancelRunInternal and reapOrphanedRuns all end.                         *)
(***************************************************************************)
AgentOf(t) == runs[job[t].run].agent

Outcome(t) ==
  IF t[1] = "exec" THEN exec[t[2]].outcome
  ELSE IF t = Reaper THEN "failed" ELSE "cancelled"

StartNextUnlessCanceller(t) ==
  /\ job' = [job EXCEPT ![t] = IF t \in Cancellers THEN Idle ELSE [@ EXCEPT !.pc = "lock"]]
  /\ chain' = IF t \in Cancellers THEN chain
              ELSE [chain EXCEPT ![AgentOf(t)] = Append(@, t)]
  /\ exec' = IF t[1] = "exec" THEN [exec EXCEPT ![t[2]] = [NoExec EXCEPT !.inst = InstanceOf(t)]]
             ELSE exec

\* startNextQueuedRunForAgent joins the chain; an execution has just left
\* activeRunExecutions.
StartNext(t) ==
  /\ job' = [job EXCEPT ![t].pc = "lock"]
  /\ chain' = [chain EXCEPT ![AgentOf(t)] = Append(@, t)]
  /\ exec' = IF t[1] = "exec" THEN [exec EXCEPT ![t[2]] = [NoExec EXCEPT !.inst = InstanceOf(t)]]
             ELSE exec

FinalizePaused(t) ==
  /\ job[t].pc = "count"
  /\ agentStatus[AgentOf(t)] = "paused"
  /\ StartNext(t)
  /\ UNCHANGED <<agentStatus, blocked, runs, drain, waking, pauser, stop,
                 recover, lost, crashes>>

FinalizeCount(t) ==
  /\ job[t].pc = "count"
  /\ agentStatus[AgentOf(t)] # "paused"
  /\ job' = [job EXCEPT ![t].pc = "settle",
                        ![t].next = IF RunningOf(AgentOf(t)) # {} THEN "running"
                                    ELSE IF Outcome(t) = "failed" THEN "error"
                                    ELSE "idle"]
  /\ UNCHANGED <<agentStatus, blocked, runs, chain, drain, exec, waking, pauser,
                 stop, recover, lost, crashes>>

FinalizeWrite(t) ==
  /\ job[t].pc = "settle"
  /\ agentStatus' = [agentStatus EXCEPT ![AgentOf(t)] = job[t].next]
  /\ StartNext(t)
  /\ UNCHANGED <<blocked, runs, drain, waking, pauser, stop, recover, lost, crashes>>

-----------------------------------------------------------------------------
(***************************************************************************)
(* cancelRunInternal: read, then kill and write without a condition.       *)
(***************************************************************************)
Killed(r) ==
  IF exec[r].process = "registered" THEN [exec EXCEPT ![r].process = "signalled"]
  ELSE exec

ApiCancel(r) ==
  /\ "cancel" \in Operations
  /\ job[Api] = Idle
  /\ r \in Active
  /\ job' = [job EXCEPT ![Api] = JobAt("read", r)]
  /\ UNCHANGED <<agentStatus, blocked, runs, chain, drain, exec, waking, pauser,
                 stop, recover, lost, crashes>>

CancelRead(t) ==
  /\ job[t].pc = "read"
  /\ job' = [job EXCEPT ![t] = IF job[t].run \in Active THEN JobAt("write", @.run)
                               ELSE Idle]
  /\ UNCHANGED <<agentStatus, blocked, runs, chain, drain, exec, waking, pauser,
                 stop, recover, lost, crashes>>

CancelWrite(t) ==
  /\ job[t].pc = "write"
  /\ runs' = SetStatus(job[t].run, "cancelled")
  /\ exec' = Killed(job[t].run)
  /\ job' = [job EXCEPT ![t].pc = "count"]
  /\ UNCHANGED <<agentStatus, blocked, chain, drain, waking, pauser, stop,
                 recover, lost, crashes>>

-----------------------------------------------------------------------------
(***************************************************************************)
(* Pausing an agent: the status first, then cancelActiveForAgent over the  *)
(* runs it lists (an agent budget stop does the same).  Resuming sets the  *)
(* agent idle and starts nothing.                                          *)
(***************************************************************************)
Pause(a) ==
  /\ "pause" \in Operations
  /\ pauser[a] = NoPass
  /\ agentStatus' = [agentStatus EXCEPT ![a] = "paused"]
  /\ pauser' = [pauser EXCEPT ![a].pc = "list"]
  /\ UNCHANGED <<blocked, runs, chain, drain, exec, job, waking, stop, recover,
                 lost, crashes>>

PauseList(a) ==
  /\ pauser[a].pc = "list"
  /\ pauser' = [pauser EXCEPT ![a] = [pc |-> "cancel", todo |-> OfAgent(a) \cap Active]]
  /\ UNCHANGED <<agentStatus, blocked, runs, chain, drain, exec, job, waking,
                 stop, recover, lost, crashes>>

PauseCancel(a) ==
  /\ pauser[a].pc = "cancel"
  /\ \E r \in pauser[a].todo :
       /\ runs' = SetStatus(r, "cancelled")
       /\ exec' = Killed(r)
       /\ pauser' = [pauser EXCEPT ![a].todo = @ \ {r}]
  /\ UNCHANGED <<agentStatus, blocked, chain, drain, job, waking, stop, recover,
                 lost, crashes>>

PauseEnd(a) ==
  /\ pauser[a].pc = "cancel" /\ pauser[a].todo = {}
  /\ pauser' = [pauser EXCEPT ![a] = NoPass]
  /\ UNCHANGED <<agentStatus, blocked, runs, chain, drain, exec, job, waking,
                 stop, recover, lost, crashes>>

ResumeAgent(a) ==
  /\ agentStatus[a] = "paused"
  /\ agentStatus' = [agentStatus EXCEPT ![a] = "idle"]
  /\ UNCHANGED <<blocked, runs, chain, drain, exec, job, waking, pauser, stop,
                 recover, lost, crashes>>

-----------------------------------------------------------------------------
(***************************************************************************)
(* A company budget stop: pauseScopeForBudget, then cancelBudgetScopeWork  *)
(* cancels the listed runs one after the other.                            *)
(***************************************************************************)
BudgetStop ==
  /\ "budget" \in Operations
  /\ stop = NoPass
  /\ blocked' = TRUE
  /\ stop' = [stop EXCEPT !.pc = "list"]
  /\ UNCHANGED <<agentStatus, runs, chain, drain, exec, job, waking, pauser,
                 recover, lost, crashes>>

BudgetList ==
  /\ stop.pc = "list"
  /\ stop' = [pc |-> "cancel", todo |-> Active]
  /\ UNCHANGED <<agentStatus, blocked, runs, chain, drain, exec, job, waking,
                 pauser, recover, lost, crashes>>

BudgetCancel ==
  /\ stop.pc = "cancel" /\ job[Budget] = Idle
  /\ \E r \in stop.todo :
       /\ stop' = [stop EXCEPT !.todo = @ \ {r}]
       /\ job' = [job EXCEPT ![Budget] = JobAt("read", r)]
  /\ UNCHANGED <<agentStatus, blocked, runs, chain, drain, exec, waking, pauser,
                 recover, lost, crashes>>

BudgetEnd ==
  /\ stop.pc = "cancel" /\ stop.todo = {} /\ job[Budget] = Idle
  /\ stop' = NoPass
  /\ UNCHANGED <<agentStatus, blocked, runs, chain, drain, exec, job, waking,
                 pauser, recover, lost, crashes>>

BudgetRaised ==
  /\ blocked
  /\ blocked' = FALSE
  /\ UNCHANGED <<agentStatus, runs, chain, drain, exec, job, waking, pauser,
                 stop, recover, lost, crashes>>

-----------------------------------------------------------------------------
(***************************************************************************)
(* The scheduler interval: reapOrphanedRuns, then resumeQueuedRuns.  The   *)
(* periodic pass lists runs whose row has not been updated for 5 minutes:  *)
(* of the runs in execution, those whose workspace is being prepared (the  *)
(* row is next written when that is over) or whose adapter is at work can  *)
(* be so quiet.  Rows are judged by that list, memory by what it holds     *)
(* when the loop gets to the run.                                          *)
(***************************************************************************)
InDrain(r)   == \E a \in Agents : r \in drain[a].todo \cup drain[a].claimed
Executing(r) == exec[r].pc # "none"
Orphaned     == {r \in With("running") : ~Executing(r) /\ ~InDrain(r)}
AtWork       == {r \in With("running") : exec[r].pc \in {"setup", "adapter"}}

RecoveryBegin ==
  /\ Scheduler
  /\ recover = NoRecovery
  /\ \E quiet \in SUBSET AtWork : recover' = Reap(Orphaned \cup quiet)
  /\ UNCHANGED <<agentStatus, blocked, runs, chain, drain, exec, job, waking,
                 pauser, stop, lost, crashes>>

\* runningProcesses is shared by all instances, activeRunExecutions is not.
InMemory(r) ==
  \/ exec[r].process = "registered"
  \/ exec[r].inst = "scheduler" /\ exec[r].pc \notin {"none", "check"}

ProcessAliveWhenRecorded(r) == runs[r].pid
ProcessAlive(r) == runs[r].pid /\ exec[r].process # "none"

Reaping(r) == recover.pc = "reap" /\ job[Reaper] = Idle /\ r \in recover.todo
Reaped(r)  == recover' = [recover EXCEPT !.todo = @ \ {r}, !.warned = @ \ {r}]

ReapSkip(r) ==
  /\ Reaping(r)
  /\ InMemory(r)
  /\ Reaped(r)
  /\ UNCHANGED <<agentStatus, blocked, runs, chain, drain, exec, job, waking,
                 pauser, stop, lost, crashes>>

\* The child is alive without its server: the row is marked, once.
ReapDetached(r) ==
  /\ Reaping(r)
  /\ ~InMemory(r) /\ ProcessAlive(r)
  /\ Reaped(r)
  /\ runs' = IF r \in recover.warned THEN runs
             ELSE [runs EXCEPT ![r].status = "running", ![r].detached = TRUE]
  /\ UNCHANGED <<agentStatus, blocked, chain, drain, exec, job, waking, pauser,
                 stop, lost, crashes>>

ShouldRetry(r) == LocalChildren /\ runs[r].pid /\ ~runs[r].retry

ReapLost(r) ==
  /\ Reaping(r)
  /\ ~InMemory(r) /\ ~ProcessAlive(r)
  /\ runs' = SetStatus(r, "failed")
  /\ Reaped(r)
  /\ job' = [job EXCEPT ![Reaper] = JobAt(IF ShouldRetry(r) THEN "retry" ELSE "count", r)]
  /\ UNCHANGED <<agentStatus, blocked, chain, drain, exec, waking, pauser, stop,
                 lost, crashes>>

\* enqueueProcessLossRetry: no budget or status check.
Retry ==
  /\ job[Reaper].pc = "retry"
  /\ job' = [job EXCEPT ![Reaper].pc = "count"]
  /\ runs' = IF With("none") = {} THEN runs                 \* bound MaxRuns
             ELSE [runs EXCEPT ![NewRun] = QueuedRow(AgentOf(Reaper), TRUE)]
  /\ UNCHANGED <<agentStatus, blocked, chain, drain, exec, waking, pauser, stop,
                 recover, lost, crashes>>

IdleWithQueuedRuns ==
  {a \in Agents : OfAgent(a) \cap With("queued") # {} /\ agentStatus[a] = "idle"}
WithQueuedRuns == {a \in Agents : OfAgent(a) \cap With("queued") # {}}

ReapEnd ==
  /\ recover.pc = "reap" /\ recover.todo = {} /\ job[Reaper] = Idle
  /\ recover' = [NoRecovery EXCEPT !.pc = "resume", !.agents = WithQueuedRuns]
  /\ UNCHANGED <<agentStatus, blocked, runs, chain, drain, exec, job, waking,
                 pauser, stop, lost, crashes>>

ResumeQueued ==
  /\ recover.pc = "resume" /\ recover.wait = NoAgent
  /\ \E a \in recover.agents :
       /\ recover' = [recover EXCEPT !.agents = @ \ {a}, !.wait = a]
       /\ chain' = [chain EXCEPT ![a] = Append(@, Resume(a))]
  /\ UNCHANGED <<agentStatus, blocked, runs, drain, exec, job, waking, pauser,
                 stop, lost, crashes>>

RecoveryEnd ==
  /\ recover.pc = "resume" /\ recover.agents = {} /\ recover.wait = NoAgent
  /\ recover' = NoRecovery
  /\ UNCHANGED <<agentStatus, blocked, runs, chain, drain, exec, job, waking,
                 pauser, stop, lost, crashes>>

-----------------------------------------------------------------------------
(***************************************************************************)
(* The server stops and starts again: rows stay, memory is gone, local     *)
(* children live on.  The first pass lists every running run at once,      *)
(* before the server listens.                                              *)
(***************************************************************************)
Crash ==
  /\ crashes < MaxCrashes
  /\ crashes' = crashes + 1
  /\ lost' = With("running")
  /\ chain' = [a \in Agents |-> <<>>]
  /\ drain' = [a \in Agents |-> NoDrain]
  /\ exec' = [r \in RunId |->
                [NoExec EXCEPT !.process = IF exec[r].process = "none" THEN "none"
                                           ELSE "detached"]]
  /\ job' = [t \in Workers |-> Idle]
  /\ waking' = {}
  /\ pauser' = [a \in Agents |-> NoPass]
  /\ stop' = NoPass
  /\ recover' = IF Scheduler THEN Reap(With("running")) ELSE NoRecovery
  /\ UNCHANGED <<agentStatus, blocked, runs>>

ProcessExit(r) ==
  /\ exec[r].process = "detached"
  /\ exec' = [exec EXCEPT ![r].process = "none"]
  /\ UNCHANGED <<agentStatus, blocked, runs, chain, drain, job, waking, pauser,
                 stop, recover, lost, crashes>>

-----------------------------------------------------------------------------
Init ==
  /\ agentStatus = [a \in Agents |-> "idle"]
  /\ blocked = FALSE
  /\ runs = [r \in RunId |-> NoRow]
  /\ chain = [a \in Agents |-> <<>>]
  /\ drain = [a \in Agents |-> NoDrain]
  /\ exec = [r \in RunId |-> NoExec]
  /\ job = [t \in Workers |-> Idle]
  /\ waking = {}
  /\ pauser = [a \in Agents |-> NoPass]
  /\ stop = NoPass
  /\ recover = NoRecovery
  /\ lost = {}
  /\ crashes = 0

DrainStep(a) ==
  \/ DrainNothing(a) \/ DrainList(a) \/ DrainLaunch(a)
  \/ ClaimRefused(a) \/ ClaimAllowed(a) \/ ClaimCancelled(a)
  \/ ClaimUpdate(a) \/ ClaimWake(a)

ExecStep(r) ==
  \/ ExecCheck(r) \/ ExecSetup(r) \/ ExecLaunch(r)
  \/ AdapterReturn(r) \/ ExecThrow(r) \/ ExecWrite(r)

FinalizeStep(t) == FinalizePaused(t) \/ FinalizeCount(t) \/ FinalizeWrite(t)
CancelStep(t)   == CancelRead(t) \/ CancelWrite(t)
PauseStep(a)    == PauseList(a) \/ PauseCancel(a) \/ PauseEnd(a)
BudgetStep      == BudgetList \/ BudgetCancel \/ BudgetEnd

RecoveryStep ==
  \/ RecoveryBegin \/ Retry \/ ReapEnd \/ ResumeQueued \/ RecoveryEnd
  \/ \E r \in RunId : ReapSkip(r) \/ ReapDetached(r) \/ ReapLost(r)

Next ==
  \/ \E a \in Agents :
       \/ EnqueueCheck(a) \/ EnqueueInsert(a) \/ DrainStep(a)
       \/ Pause(a) \/ PauseStep(a) \/ ResumeAgent(a)
  \/ \E r \in RunId : ExecStep(r) \/ ApiCancel(r) \/ ProcessExit(r)
  \/ \E t \in Workers : FinalizeStep(t)
  \/ \E t \in Cancellers : CancelStep(t)
  \/ BudgetStop \/ BudgetStep \/ BudgetRaised
  \/ RecoveryStep
  \/ Crash

Spec == Init /\ [][Next]_vars

\* Every started chain of awaits goes on, adapters return, the scheduler
\* interval fires; nothing obliges a user to act or the server to crash.
Fairness ==
  /\ \A a \in Agents : /\ WF_vars(EnqueueInsert(a))
                       /\ WF_vars(DrainStep(a))
                       /\ WF_vars(PauseStep(a))
  /\ \A r \in RunId : WF_vars(ExecStep(r)) /\ WF_vars(ProcessExit(r))
  /\ \A t \in Workers : WF_vars(FinalizeStep(t))
  /\ \A t \in Cancellers : WF_vars(CancelStep(t))
  /\ WF_vars(BudgetStep)
  /\ WF_vars(RecoveryStep)

FairSpec == Spec /\ Fairness

-----------------------------------------------------------------------------
(***************************************************************************)
(* Properties.                                                             *)
(***************************************************************************)
RowsOf == [r \in RunId |-> [agent |-> runs[r].agent, status |-> runs[r].status]]
Contract == INSTANCE RunLifecycle WITH rows <- RowsOf

\* The queue keeps the contract of RunLifecycle: whatever the order in
\* which wakeups, claims, completions, cancellations, pauses, budget stops
\* and the reaper get to the rows, a run starts only from "queued", only
\* while its agent has a free slot, and never after it has settled.
KeepsContract == Contract!Lifecycle

\* No slot leaks: a run whose row says "running" is being claimed or
\* executed by this server, or was running when the server crashed and is
\* left to the reaper.
RunningIsOwned ==
  \A r \in With("running") : InDrain(r) \/ Executing(r) \/ r \in lost

\* Every queued run is eventually started or cancelled: each event that
\* frees a slot or adds a run is followed by a call of
\* startNextQueuedRunForAgent that sees it.
QueuedRunsDrain ==
  \A r \in RunId : runs[r].status = "queued" ~> runs[r].status # "queued"

\* Every running run eventually settles, a restart included.
RunningRunsSettle ==
  \A r \in RunId : runs[r].status = "running" ~> runs[r].status \in Terminal

\* doc/SPEC-implementation.md:373: the only way out of "paused" is to be
\* resumed to idle (or terminated).
PausedUntilResumed ==
  [][\A a \in Agents : agentStatus[a] = "paused" => agentStatus'[a] \in {"paused", "idle"}]_vars

\* doc/spec/agent-runs.md:746: once a pause has been carried out, no local
\* process of the agent runs that has not been told to stop.
PauseStopsProcesses ==
  \A a \in Agents :
    agentStatus[a] = "paused" /\ pauser[a] = NoPass =>
      \A r \in OfAgent(a) : exec[r].process # "registered"

\* doc/spec/agent-runs.md:362: an agent has at most MaxConcurrent runs at
\* work, counting the adapter invocations and not the rows.
ProcessesPerAgent ==
  \A a \in Agents :
    Cardinality({r \in OfAgent(a) : exec[r].pc = "adapter"}) <= MaxConcurrent

\* The same of the rows: at most MaxConcurrent of an agent's runs are marked
\* "running", also when the reaper marks a run as detached.
RunningRowsPerAgent == \A a \in Agents : Cardinality(RunningOf(a)) <= MaxConcurrent

\* heartbeat.ts:1864: the reaper fails no run whose adapter is at work.
ReaperSparesLiveRuns ==
  [][\A r \in RunId : exec[r].pc = "adapter" /\ job[Reaper].run # r => job'[Reaper].run # r]_vars

\* heartbeat.ts:2951: an agent for which nothing is being done any more is
\* not left in "running".
Quiescent(a) ==
  /\ chain[a] = <<>> /\ pauser[a] = NoPass
  /\ \A r \in OfAgent(a) :
       /\ exec[r].pc = "none" /\ runs[r].status \notin Live
       /\ \A t \in Workers : job[t].run # r
NotLeftRunning == \A a \in Agents : Quiescent(a) => agentStatus[a] # "running"
=============================================================================
