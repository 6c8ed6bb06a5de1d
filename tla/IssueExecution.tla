--------------------------- MODULE IssueExecution ---------------------------
(***************************************************************************)
(* The issue execution lock of the heartbeat service                       *)
(* (server/src/services/heartbeat.ts) and of the issue service             *)
(* (server/src/services/issues.ts): the column issues.execution_run_id     *)
(* names the heartbeat run that currently works on the issue, wakeups of   *)
(* other agents for that issue are parked as "deferred_issue_execution",   *)
(* and a run that ends hands the lock to the oldest parked wakeup.         *)
(*                                                                         *)
(* Every action below is one database statement or one transaction, the    *)
(* unit other requests of the server can interleave with.  The wakeup      *)
(* transaction is two actions, because it decides from run rows it does    *)
(* not lock: EnqueueBegin locks the issue row and reads, EnqueueCommit     *)
(* writes.  Ending a run is two actions for the same reason: the terminal  *)
(* status is committed first, the lock is released by a later transaction. *)
(* The reaper reads the running runs (ListRunning) and acts on what it has *)
(* read, one run after the other, whatever became of them since.           *)
(*                                                                         *)
(* Abstracted: the four terminal run statuses are one ("terminal"), agent  *)
(* names are the agents themselves (two agents never share a normalized    *)
(* name), and which queued run an agent starts next is left open (module   *)
(* RunScheduler models that choice).                                       *)
(***************************************************************************)
EXTENDS Integers, FiniteSets

CONSTANTS
  Agents,        \* agents of one company
  Issues,        \* issues of that company
  NoAgent,       \* SQL null of an agent column
  NoIssue,       \* a run or wakeup without issue context
  MaxRuns,       \* bound: rows of heartbeat_runs
  MaxDeferrals,  \* bound: rows of agent_wakeup_requests that get deferred
  MaxUnlocked,   \* bound: wakeups that take no issue lock
  UnlockedContexts, \* the issues (mentions) or NoIssue (timers) they are for
  MaxCrashes,    \* bound: restarts of the server process
  Pausable,      \* bound: agents that get paused
  Listable,      \* bound: the runs the reaper lists though they are awaited
  Checkouts      \* TRUE: running agents call the checkout endpoints

ASSUME BoundsAssumption ==
  /\ MaxRuns \in Nat /\ MaxDeferrals \in Nat
  /\ MaxUnlocked \in Nat /\ MaxCrashes \in Nat
  /\ Checkouts \in BOOLEAN

ASSUME NullAssumption ==
  /\ NoAgent \notin Agents /\ NoIssue \notin Issues
  /\ UnlockedContexts \subseteq Issues \cup {NoIssue}

Runs  == 1 .. MaxRuns         \* run ids, in creation order

ASSUME ListableAssumption == Listable \subseteq Runs

NoRun == 0                    \* SQL null of a run column

RunStatus == {"none", "queued", "running", "terminal"}

\* How the run row came to be: inside the issue transaction ("issue"), on
\* the path that takes no issue lock ("unlocked"), or as the automatic
\* retry of a run whose process was lost ("retry").
RunKind == {"issue", "unlocked", "retry"}

Run == [status : RunStatus,
        agent  : Agents \cup {NoAgent},
        issue  : Issues \cup {NoIssue},    \* contextSnapshot.issueId
        kind   : RunKind]

NoRunRow == [status |-> "none", agent |-> NoAgent, issue |-> NoIssue,
             kind |-> "unlocked"]

\* A parked wakeup; ids are handed out in requested_at order.
Deferral == [id : 1 .. MaxDeferrals, agent : Agents, issue : Issues]

\* The wakeup transaction that holds an issue row, with what it decided.
TxKind == {"none", "queued", "coalesced", "deferred"}
Tx == [kind : TxKind, agent : Agents \cup {NoAgent}, holder : Runs \cup {NoRun}]
NoTx == [kind |-> "none", agent |-> NoAgent, holder |-> NoRun]

\* The caller that owes releaseIssueExecutionAndPromote or, for "retry",
\* enqueueProcessLossRetry to a run whose terminal status it has written.
Closer == {"execution", "canceller", "reaper", "retry"}

VARIABLES
  agentStatus,     \* agents.status: invokable ("idle") or "paused"
  runs,            \* heartbeat_runs
  nRuns,           \* rows in use
  deferred,        \* agent_wakeup_requests in deferred_issue_execution
  nDeferrals,      \* ids in use
  executionRunId,  \* issues.execution_run_id
  nameKey,         \* issues.execution_agent_name_key
  checkoutRunId,   \* issues.checkout_run_id
  tx,              \* open wakeup transaction per issue row
  executing,       \* runs the server is awaiting (activeRunExecutions)
  alive,           \* runs whose agent can still call the API
  settle,          \* <<run, closer>>: lock still to be handed on
  listed,          \* <<run, child lives>>: read by the reaper as running
  unlocked,        \* wakeups that took the lock-free path so far
  crashes,         \* restarts so far
  stolen,          \* issues whose lock an adoption took from an active run
  revived,         \* runs the reaper set from terminal back to running
  orphaned         \* issues whose lock was left to a run that has ended

vars == <<agentStatus, runs, nRuns, deferred, nDeferrals, executionRunId,
          nameKey, checkoutRunId, tx, executing, alive, settle, listed,
          unlocked, crashes, stolen, revived, orphaned>>

lockVars    == <<executionRunId, nameKey>>
processVars == <<executing, alive, settle>>
boundVars   == <<unlocked, crashes>>
historyVars == <<stolen, revived>>

-----------------------------------------------------------------------------
(* Helpers                                                                 *)

Active(r)    == runs[r].status \in {"queued", "running"}
Terminal(r)  == runs[r].status = "terminal"
Invokable(a) == agentStatus[a] # "paused"

\* Every request of the issue that is parked.
DeferredOn(i) == {w \in deferred : w.issue = i}

\* Room for one more run: each parked wakeup, each open transaction and each
\* pending retry may still need a row.
OpenTx == {i \in Issues : tx[i].kind # "none"}
Retries == {r \in Runs : <<r, "retry">> \in settle}
RunRoom == nRuns + Cardinality(deferred) + Cardinality(OpenTx)
             + Cardinality(Retries) < MaxRuns
DeferralRoom == nDeferrals + Cardinality(OpenTx) < MaxDeferrals

\* The queued or running runs with the issue in their context, the running
\* ones before the queued ones, older before newer.
ContextRuns(i) == {r \in Runs : Active(r) /\ runs[r].issue = i}
Before(r, s) ==
  \/ runs[r].status = "running" /\ runs[s].status = "queued"
  \/ runs[r].status = runs[s].status /\ r =< s

\* h is the run the wakeup transaction treats as working on the issue: the
\* lock holder while it is active, otherwise the "legacy" run, if any.
ActiveExecutionRun(i, h) ==
  IF executionRunId[i] # NoRun /\ Active(executionRunId[i])
    THEN h = executionRunId[i]
    ELSE \/ h \in ContextRuns(i) /\ \A r \in ContextRuns(i) : Before(h, r)
         \/ h = NoRun /\ ContextRuns(i) = {}

\* isSameExecutionAgent: the name key read with the issue row, else the name
\* of the holder's agent.
SameExecutionAgent(i, h, a) ==
  IF nameKey[i] # NoAgent THEN nameKey[i] = a ELSE runs[h].agent = a

\* What the transaction does with a wakeup of agent a when h is working on
\* the issue.  comment: the wakeup carries a wakeCommentId.
Outcome(i, h, a, comment) ==
  IF h = NoRun THEN "queued"
  ELSE IF SameExecutionAgent(i, h, a) /\ ~(comment /\ runs[h].status = "running")
    THEN "coalesced"
    ELSE "deferred"

\* Somebody is still to hand on what the run holds: it is active or awaited, or
\* its release is pending.
HandsOn(r) ==
  \/ Active(r)
  \/ r \in executing
  \/ \E closer \in Closer : <<r, closer>> \in settle

\* The lock of the issue goes to an existing run: a run that has ended, and
\* whose release is over, will never hand it on.
LockPassesTo(i, h) ==
  orphaned' = IF h = executionRunId[i] THEN orphaned
              ELSE IF HandsOn(h) THEN orphaned \ {i}
              ELSE orphaned \cup {i}

\* Mutant of NewRun: the row starts with a status nobody looks for.
NewRunPending(a, i, kind) ==
  [status |-> "pending", agent |-> a, issue |-> i, kind |-> kind]

NewRun(a, i, kind) == [status |-> "queued", agent |-> a, issue |-> i, kind |-> kind]

\* Mutant of OwesRelease: only the execution itself releases.
OwesReleaseIfExecuted(r, closer) ==
  settle' = IF closer = "canceller" THEN settle ELSE settle \cup {<<r, closer>>}

\* The caller that ended r goes on to hand r's lock on.
OwesRelease(r, closer) == settle' = settle \cup {<<r, closer>>}

-----------------------------------------------------------------------------
Init ==
  /\ agentStatus = [a \in Agents |-> "idle"]
  /\ runs = [r \in Runs |-> NoRunRow]
  /\ nRuns = 0
  /\ deferred = {}
  /\ nDeferrals = 0
  /\ executionRunId = [i \in Issues |-> NoRun]
  /\ nameKey = [i \in Issues |-> NoAgent]
  /\ checkoutRunId = [i \in Issues |-> NoRun]
  /\ tx = [i \in Issues |-> NoTx]
  /\ executing = {}
  /\ alive = {}
  /\ settle = {}
  /\ listed = {}
  /\ unlocked = 0
  /\ crashes = 0
  /\ stolen = {}
  /\ revived = {}
  /\ orphaned = {}

-----------------------------------------------------------------------------
(* Wakeups                                                                 *)

\* enqueueWakeup up to the reads of its transaction: the issue row is locked,
\* the working run is looked up.  The agent was found invokable some awaits
\* earlier, and may have been paused since.
EnqueueBegin(i, a, comment) ==
  /\ RunRoom /\ DeferralRoom
  /\ tx[i] = NoTx
  /\ \E h \in Runs \cup {NoRun} :
       /\ ActiveExecutionRun(i, h)
       /\ tx' = [tx EXCEPT ![i] = [kind |-> Outcome(i, h, a, comment),
                                   agent |-> a, holder |-> h]]
  /\ UNCHANGED <<agentStatus, runs, nRuns, deferred, nDeferrals, lockVars,
                 checkoutRunId, processVars, listed, boundVars, historyVars,
                 orphaned>>

\* No run works on the issue: a run and the lock are created together.
CommitQueued(i) ==
  LET a == tx[i].agent
      r == nRuns + 1
  IN /\ tx[i].kind = "queued"
     /\ r \in Runs
     /\ nRuns' = r
     /\ runs' = [runs EXCEPT ![r] = NewRun(a, i, "issue")]
     /\ executionRunId' = [executionRunId EXCEPT ![i] = r]
     /\ nameKey' = [nameKey EXCEPT ![i] = a]
     /\ orphaned' = orphaned \ {i}
     /\ UNCHANGED <<deferred, nDeferrals>>

\* A legacy run found without the lock is given it; the name key becomes the
\* name of its agent.
GiveLock(i, h) ==
  /\ executionRunId' = [executionRunId EXCEPT ![i] = h]
  /\ nameKey' = IF executionRunId[i] = h THEN nameKey
                ELSE [nameKey EXCEPT ![i] = runs[h].agent]
  /\ LockPassesTo(i, h)

\* The wakeup is merged into the context of the working run.
CommitCoalesced(i) ==
  /\ tx[i].kind = "coalesced"
  /\ GiveLock(i, tx[i].holder)
  /\ UNCHANGED <<runs, nRuns, deferred, nDeferrals>>

\* Mutant of Parked: the agent's parked wakeup is not looked for.
ParkedNotLookedFor(i, a) == FALSE

\* The agent already has a parked wakeup on the issue.
Parked(i, a) == \E w \in DeferredOn(i) : w.agent = a

\* The wakeup is parked, or merged into the one the agent already parked.
CommitDeferred(i) ==
  LET a == tx[i].agent
      w0 == [id |-> nDeferrals + 1, agent |-> a, issue |-> i]
  IN /\ tx[i].kind = "deferred"
     /\ GiveLock(i, tx[i].holder)
     /\ IF Parked(i, a)
          THEN UNCHANGED <<deferred, nDeferrals>>
          ELSE /\ nDeferrals + 1 =< MaxDeferrals
               /\ deferred' = deferred \cup {w0}
               /\ nDeferrals' = nDeferrals + 1
     /\ UNCHANGED <<runs, nRuns>>

EnqueueCommit(i) ==
  /\ CommitQueued(i) \/ CommitCoalesced(i) \/ CommitDeferred(i)
  /\ tx' = [tx EXCEPT ![i] = NoTx]
  /\ UNCHANGED <<agentStatus, checkoutRunId, processVars, listed, boundVars,
                 historyVars>>

\* The path of enqueueWakeup that takes no issue lock: wakeups without an
\* issue (timers) and comment mentions.  Within one agent and task a queued
\* run absorbs the wakeup, and so does a running one unless the wakeup
\* carries a comment, as a mention does.
EnqueueUnlocked(a, i) ==
  LET r == nRuns + 1
      sameScope(status) ==
        \E s \in Runs : /\ runs[s].status = status
                        /\ runs[s].agent = a
                        /\ runs[s].issue = i
  IN /\ unlocked < MaxUnlocked
     /\ RunRoom /\ r \in Runs
     /\ ~sameScope("queued")
     /\ i # NoIssue \/ ~sameScope("running")
     /\ nRuns' = r
     /\ runs' = [runs EXCEPT ![r] = NewRun(a, i, "unlocked")]
     /\ unlocked' = unlocked + 1
     /\ UNCHANGED <<agentStatus, deferred, nDeferrals, lockVars, checkoutRunId,
                    tx, processVars, listed, crashes, historyVars, orphaned>>

-----------------------------------------------------------------------------
(* Runs                                                                    *)

\* claimQueuedRun followed by executeRun.
Claim(r) ==
  /\ runs[r].status = "queued"
  /\ Invokable(runs[r].agent)
  /\ runs' = [runs EXCEPT ![r].status = "running"]
  /\ executing' = executing \cup {r}
  /\ alive' = alive \cup {r}
  /\ UNCHANGED <<agentStatus, nRuns, deferred, nDeferrals, lockVars,
                 checkoutRunId, tx, settle, listed, boundVars, historyVars,
                 orphaned>>

\* The adapter returned: executeRun writes the terminal status, whatever the
\* row holds by now.
Finish(r) ==
  /\ r \in executing
  /\ runs' = [runs EXCEPT ![r].status = "terminal"]
  /\ executing' = executing \ {r}
  /\ alive' = alive \ {r}
  /\ OwesRelease(r, "execution")
  /\ UNCHANGED <<agentStatus, nRuns, deferred, nDeferrals, lockVars,
                 checkoutRunId, tx, listed, boundVars, historyVars, orphaned>>

\* cancelRunInternal and cancelActiveForAgentInternal up to the terminal
\* status.  The agent is only signalled: it may still be alive.
Cancel(r) ==
  /\ Active(r)
  /\ runs' = [runs EXCEPT ![r].status = "terminal"]
  /\ OwesRelease(r, "canceller")
  /\ UNCHANGED <<agentStatus, nRuns, deferred, nDeferrals, lockVars,
                 checkoutRunId, tx, executing, alive, listed, boundVars,
                 historyVars, orphaned>>

\* reapOrphanedRuns reads the running runs, and with each the pid of its child.
\* A run the pass then skips, because this instance of the service awaits it
\* or because its row was written lately, counts as not listed.
ListRunning(r) ==
  /\ r \in executing => r \in Listable
  /\ runs[r].status = "running"
  /\ \A e \in listed : e[1] # r
  /\ listed' = listed \cup {<<r, r \in alive>>}
  /\ UNCHANGED <<agentStatus, runs, nRuns, deferred, nDeferrals, lockVars,
                 checkoutRunId, tx, processVars, boundVars, historyVars,
                 orphaned>>

Unlist(r) == listed' = {e \in listed : e[1] # r}

\* The child of a listed run was found alive: the run is marked as detached, by
\* an update that sets it running whatever became of it since the list.
Detach(r) ==
  /\ <<r, TRUE>> \in listed
  /\ Unlist(r)
  /\ runs' = [runs EXCEPT ![r].status = "running"]
  /\ revived' = IF Terminal(r) THEN revived \cup {r} ELSE revived
  /\ UNCHANGED <<agentStatus, nRuns, deferred, nDeferrals, lockVars,
                 checkoutRunId, tx, processVars, boundVars, stolen, orphaned>>

\* Any other listed run is failed, whatever became of it since the list (another
\* instance may still await it), and either retried once (a local child whose
\* pid is gone) or released.
Reap(r, closer) ==
  /\ \E child \in BOOLEAN : <<r, child>> \in listed
  /\ closer = "retry" => /\ runs[r].kind # "retry"
                         /\ r \in alive => r \in executing
                         /\ RunRoom
  /\ Unlist(r)
  /\ runs' = [runs EXCEPT ![r].status = "terminal"]
  /\ OwesRelease(r, closer)
  /\ UNCHANGED <<agentStatus, nRuns, deferred, nDeferrals, lockVars,
                 checkoutRunId, tx, executing, alive, boundVars, historyVars,
                 orphaned>>

\* A child that outlived the server process exits.
Exit(r) ==
  /\ r \in alive \ executing
  /\ alive' = alive \ {r}
  /\ UNCHANGED <<agentStatus, runs, nRuns, deferred, nDeferrals, lockVars,
                 checkoutRunId, tx, executing, settle, listed, boundVars,
                 historyVars, orphaned>>

-----------------------------------------------------------------------------
(* Handing the lock on                                                     *)

\* Mutant of HeldBy: the issue of the run's context, whoever holds its lock.
HeldByContext(r) == {i \in Issues : runs[r].issue = i}

\* The issues whose lock the run holds.
HeldBy(r) == {i \in Issues : executionRunId[i] = r}

\* The oldest parked wakeup of the issue whose agent is invokable gets a run
\* and the lock; the older ones, whose agents are not, are failed.
Promote(i, w) ==
  LET r == nRuns + 1
  IN /\ r \in Runs
     /\ w \in DeferredOn(i)
     /\ Invokable(w.agent)
     /\ \A v \in DeferredOn(i) : Invokable(v.agent) => w.id =< v.id
     /\ deferred' = {v \in deferred : v.issue = i => v.id > w.id}
     /\ nRuns' = r
     /\ runs' = [runs EXCEPT ![r] = NewRun(w.agent, i, "issue")]
     /\ executionRunId' = [executionRunId EXCEPT ![i] = r]
     /\ nameKey' = [nameKey EXCEPT ![i] = w.agent]

\* Mutant of FreeLock: gives up after the first wakeup that cannot be promoted.
FreeLockAfterFirst(i) ==
  /\ \A w \in DeferredOn(i) : ~Invokable(w.agent)
  /\ deferred' = deferred \ {w \in DeferredOn(i) :
                               \A v \in DeferredOn(i) : w.id =< v.id}
  /\ executionRunId' = [executionRunId EXCEPT ![i] = NoRun]
  /\ nameKey' = [nameKey EXCEPT ![i] = NoAgent]
  /\ UNCHANGED <<runs, nRuns>>

\* Nobody to promote: parked wakeups of agents that are not invokable fail,
\* and the lock is free.
FreeLock(i) ==
  /\ \A w \in DeferredOn(i) : ~Invokable(w.agent)
  /\ deferred' = deferred \ DeferredOn(i)
  /\ executionRunId' = [executionRunId EXCEPT ![i] = NoRun]
  /\ nameKey' = [nameKey EXCEPT ![i] = NoAgent]
  /\ UNCHANGED <<runs, nRuns>>

\* releaseIssueExecutionAndPromote: locks every issue row the run holds, but
\* goes on with one of them only; the others stay with the ended run.
Release(r, closer) ==
  /\ <<r, closer>> \in settle /\ closer # "retry"
  /\ \A i \in HeldBy(r) : tx[i] = NoTx
  /\ settle' = settle \ {<<r, closer>>}
  /\ \/ /\ HeldBy(r) = {}
        /\ UNCHANGED <<runs, nRuns, deferred, lockVars, orphaned>>
     \/ \E i \in HeldBy(r) :
          /\ (\E w \in deferred : Promote(i, w)) \/ FreeLock(i)
          /\ orphaned' = (orphaned \cup HeldBy(r)) \ {i}
  /\ UNCHANGED <<agentStatus, nDeferrals, checkoutRunId, tx, executing, alive,
                 listed, boundVars, historyVars>>

\* enqueueProcessLossRetry: a new run for the same agent and context, which
\* inherits the lock of its issue if the lost run still holds it.
Retry(r) ==
  LET s == nRuns + 1
      i == runs[r].issue
      inherits == i # NoIssue /\ executionRunId[i] = r
  IN /\ <<r, "retry">> \in settle
     /\ s \in Runs
     /\ inherits => tx[i] = NoTx
     /\ nRuns' = s
     /\ runs' = [runs EXCEPT ![s] = NewRun(runs[r].agent, i, "retry")]
     /\ IF inherits
          THEN /\ executionRunId' = [executionRunId EXCEPT ![i] = s]
               /\ nameKey' = [nameKey EXCEPT ![i] = runs[r].agent]
          ELSE UNCHANGED lockVars
     /\ orphaned' = (orphaned \cup HeldBy(r)) \ (HeldBy(r) \cap {i})
     /\ settle' = settle \ {<<r, "retry">>}
     /\ UNCHANGED <<agentStatus, deferred, nDeferrals, checkoutRunId, tx,
                    executing, alive, listed, boundVars, historyVars>>

-----------------------------------------------------------------------------
(* Checkout by a running agent (issues.ts)                                 *)

\* Mutant of ExecutionLockCondition: only the checkout is looked at.
ExecutionLockIgnored(r, i) == TRUE

\* The execution lock is free or already the caller's.
ExecutionLockCondition(r, i) == executionRunId[i] \in {NoRun, r}

\* checkout: one conditional UPDATE.  Of an issue without assignee it does not
\* look at the checkout run, which is left out here (module IssueCheckout).
Checkout(r, i) ==
  /\ Checkouts
  /\ r \in alive
  /\ tx[i] = NoTx
  /\ ExecutionLockCondition(r, i)
  /\ checkoutRunId' = [checkoutRunId EXCEPT ![i] = r]
  /\ executionRunId' = [executionRunId EXCEPT ![i] = r]
  /\ LockPassesTo(i, r)
  /\ UNCHANGED <<agentStatus, runs, nRuns, deferred, nDeferrals, nameKey, tx,
                 processVars, listed, boundVars, historyVars>>

\* adoptStaleCheckoutRun: the checkout of a finished run of the same agent is
\* taken over, and the execution lock with it, whoever holds that.
AdoptStaleCheckout(r, i) ==
  LET h == checkoutRunId[i]
      owner == executionRunId[i]
  IN /\ Checkouts
     /\ r \in alive
     /\ tx[i] = NoTx
     /\ h \notin {NoRun, r}
     /\ Terminal(h)
     /\ runs[h].agent = runs[r].agent
     /\ checkoutRunId' = [checkoutRunId EXCEPT ![i] = r]
     /\ executionRunId' = [executionRunId EXCEPT ![i] = r]
     /\ stolen' = IF owner \notin {NoRun, r} /\ Active(owner)
                    THEN stolen \cup {i} ELSE stolen
     /\ LockPassesTo(i, r)
     /\ UNCHANGED <<agentStatus, runs, nRuns, deferred, nDeferrals, nameKey,
                    tx, processVars, listed, boundVars, revived>>

\* release, or an update that moves the issue out of in_progress or to
\* another assignee: the checkout ends, the execution lock stays.
EndCheckout(i) ==
  /\ tx[i] = NoTx
  /\ checkoutRunId[i] # NoRun
  /\ checkoutRunId' = [checkoutRunId EXCEPT ![i] = NoRun]
  /\ UNCHANGED <<agentStatus, runs, nRuns, deferred, nDeferrals, lockVars, tx,
                 processVars, listed, boundVars, historyVars, orphaned>>

-----------------------------------------------------------------------------
(* Agents and the server process                                           *)

\* Pausing and resuming an agent (its runs are cancelled by Cancel).
SetAgentStatus(a) ==
  /\ a \in Pausable
  /\ agentStatus' = [agentStatus EXCEPT ![a] =
                       IF Invokable(a) THEN "paused" ELSE "idle"]
  /\ UNCHANGED <<runs, nRuns, deferred, nDeferrals, lockVars, checkoutRunId,
                 tx, processVars, listed, boundVars, historyVars, orphaned>>

\* cancelPendingWakeupsForBudgetScope for an agent: its parked wakeups end.
CancelPending(a) ==
  /\ \E w \in deferred : w.agent = a
  /\ deferred' = {w \in deferred : w.agent # a}
  /\ UNCHANGED <<agentStatus, runs, nRuns, nDeferrals, lockVars, checkoutRunId,
                 tx, processVars, listed, boundVars, historyVars, orphaned>>

\* The server dies: open transactions roll back, nothing is awaited any more,
\* pending releases are lost, local agent processes live on.
Crash ==
  /\ crashes < MaxCrashes
  /\ crashes' = crashes + 1
  /\ tx' = [i \in Issues |-> NoTx]
  /\ executing' = {}
  /\ settle' = {}
  /\ listed' = {}
  /\ orphaned' = orphaned \cup
       {i \in Issues : executionRunId[i] # NoRun /\ ~Active(executionRunId[i])}
  /\ UNCHANGED <<agentStatus, runs, nRuns, deferred, nDeferrals, lockVars,
                 checkoutRunId, alive, unlocked, historyVars>>

Next ==
  \/ \E i \in Issues, a \in Agents, comment \in BOOLEAN : EnqueueBegin(i, a, comment)
  \/ \E i \in Issues : EnqueueCommit(i)
  \/ \E a \in Agents, i \in UnlockedContexts : EnqueueUnlocked(a, i)
  \/ \E r \in Runs : Claim(r)
  \/ \E r \in Runs : Finish(r)
  \/ \E r \in Runs : Cancel(r)
  \/ \E r \in Runs : ListRunning(r)
  \/ \E r \in Runs : Detach(r)
  \/ \E r \in Runs, closer \in {"reaper", "retry"} : Reap(r, closer)
  \/ \E r \in Runs : Exit(r)
  \/ \E r \in Runs, closer \in Closer : Release(r, closer)
  \/ \E r \in Runs : Retry(r)
  \/ \E r \in Runs, i \in Issues : Checkout(r, i)
  \/ \E r \in Runs, i \in Issues : AdoptStaleCheckout(r, i)
  \/ \E i \in Issues : EndCheckout(i)
  \/ \E a \in Agents : SetAgentStatus(a)
  \/ \E a \in Agents : CancelPending(a)
  \/ Crash

Spec == Init /\ [][Next]_vars

\* A pass of the reaper goes on with a run nobody awaits.
JudgeOrphan(r) ==
  /\ r \notin executing
  /\ \/ ListRunning(r)
     \/ Detach(r)
     \/ \E closer \in {"reaper", "retry"} : Reap(r, closer)

\* What the running server keeps doing: transactions commit, queued runs of
\* invokable agents are claimed (startNextQueuedRunForAgent and, every tick,
\* resumeQueuedRuns), adapters return (adapter timeouts), the caller that ended
\* a run goes on to release its lock, and the periodic reaper runs.
Fairness ==
  /\ \A i \in Issues : WF_vars(EnqueueCommit(i))
  /\ \A r \in Runs :
       /\ WF_vars(Claim(r))
       /\ WF_vars(Finish(r))
       /\ WF_vars(JudgeOrphan(r))
       /\ WF_vars(\E closer \in Closer : Release(r, closer))
       /\ WF_vars(Retry(r))

FairSpec == Spec /\ Fairness

-----------------------------------------------------------------------------
(* Properties                                                              *)

\* The rows and the server's bookkeeping have the shapes the schema and the
\* service give them.
TypeOK ==
  /\ agentStatus \in [Agents -> {"idle", "paused"}]
  /\ runs \in [Runs -> Run]
  /\ nRuns \in 0 .. MaxRuns
  /\ deferred \in SUBSET Deferral
  /\ nDeferrals \in 0 .. MaxDeferrals
  /\ executionRunId \in [Issues -> Runs \cup {NoRun}]
  /\ nameKey \in [Issues -> Agents \cup {NoAgent}]
  /\ checkoutRunId \in [Issues -> Runs \cup {NoRun}]
  /\ tx \in [Issues -> Tx]
  /\ executing \in SUBSET Runs
  /\ alive \in SUBSET Runs
  /\ settle \in SUBSET (Runs \X Closer)
  /\ listed \in SUBSET (Runs \X BOOLEAN)
  /\ unlocked \in 0 .. MaxUnlocked
  /\ crashes \in 0 .. MaxCrashes
  /\ stolen \in SUBSET Issues
  /\ revived \in SUBSET Runs
  /\ orphaned \in SUBSET Issues

\* No wakeup waits for a lock nobody holds: whatever clears or moves
\* execution_run_id (promotion, stale-lock repair, retry, checkout, a crash in
\* between) leaves a holder in place while wakeups are parked on the issue.
DeferredHasHolder == \A w \in deferred : executionRunId[w.issue] # NoRun

\* An agent has at most one parked wakeup per issue: later ones are merged
\* into it, also when the lock changed hands in between.
OneDeferralPerAgent ==
  \A v, w \in deferred : v.issue = w.issue /\ v.agent = w.agent => v = w

\* A run created under the issue lock holds that lock for as long as it is
\* queued or running, through finishes, cancellations, retries, promotions,
\* repairs, restarts and the reaper's stale judgements; an adopted checkout
\* takes it away, and a run the reaper revives after its end comes back without
\* it.  Hence at most one run that is neither is active per issue.
IssueRunHoldsLock ==
  \A r \in Runs \ revived :
    LET i == runs[r].issue
    IN Active(r) /\ runs[r].kind = "issue" /\ i \notin stolen
         => executionRunId[i] = r

\* An active run never loses the execution lock of an issue, except to the
\* adoption of a stale checkout, or when the reaper revived it while the caller
\* that had ended it went on to release its lock.
ActiveHolderKeepsLock ==
  [][\A i \in Issues :
       LET h == executionRunId[i]
       IN h # NoRun /\ Active(h)
            => \/ executionRunId'[i] = h
               \/ i \in stolen'
               \/ h \in revived]_vars

\* The inductive strengthening of the lock's safety properties.  A reference to
\* a run is to a row that exists; whoever owes a run its release has written
\* its terminal status; and what an open transaction has read about the lock
\* holder stays true until it commits, because every other writer of the
\* issue row waits for it: both unless the reaper has revived the run since.
RowsInUse ==
  /\ \A r \in Runs : r > nRuns => runs[r].status = "none"
  /\ \A i \in Issues : executionRunId[i] # NoRun =>
                         runs[executionRunId[i]].status # "none"
  /\ \A r \in executing \cup alive : runs[r].status # "none"
  /\ \A e \in listed : runs[e[1]].status \in {"running", "terminal"}
  /\ \A i \in Issues : tx[i].holder # NoRun => runs[tx[i].holder].status # "none"

SettledAreTerminal == \A e \in settle : Terminal(e[1]) \/ e[1] \in revived

HolderActive(i) ==
  LET h == executionRunId[i] IN h # NoRun /\ Active(h) /\ h \notin revived

TransactionReadsHold ==
  \A i \in Issues :
    /\ tx[i].kind # "none" => tx[i].agent \in Agents
    /\ tx[i].kind = "queued" => ~HolderActive(i)
    /\ tx[i].kind \in {"coalesced", "deferred"} =>
         /\ tx[i].holder # NoRun
         /\ tx[i].holder = executionRunId[i] \/ ~HolderActive(i)

IssueRunsHaveIssue ==
  \A r \in Runs :
    runs[r].status # "none" /\ runs[r].kind = "issue" => runs[r].issue \in Issues

\* The lock holder of the issue will hand the lock on.
Served(i) == executionRunId[i] # NoRun /\ HandsOn(executionRunId[i])

\* Somebody still owes a parked wakeup its promotion, unless the lock of its
\* issue was left to a run that has ended: by a crash between the end of a run
\* and its release, by a release or retry of a run that held the locks of
\* several issues, or by giving the lock to a run that ended meanwhile (a
\* legacy run, or an agent that outlived its run).  That lasts until a wakeup
\* or a release gives the issue another holder.
NoStranding == \A w \in deferred : Served(w.issue) \/ w.issue \in orphaned

\* Without exception: somebody owes every parked wakeup its promotion.
DeferralsServed == \A w \in deferred : Served(w.issue)

\* What makes NoStranding inductive: the release of a lock holder that an open
\* transaction found at work waits for the transaction.
TransactionIsServed ==
  \A i \in Issues :
    tx[i].kind \in {"coalesced", "deferred"} /\ tx[i].holder = executionRunId[i]
      => Served(i) \/ i \in orphaned

LockInv ==
  /\ TypeOK
  /\ RowsInUse
  /\ SettledAreTerminal
  /\ TransactionReadsHold
  /\ IssueRunsHaveIssue
  /\ IssueRunHoldsLock
  /\ DeferredHasHolder
  /\ OneDeferralPerAgent
  /\ NoStranding
  /\ TransactionIsServed

\* The parked wakeups whose issue's lock was not left to an ended run.
Waiting == {w \in deferred : w.issue \notin orphaned}

\* While all agents are invokable, a parked wakeup does not wait for ever: it
\* is promoted (or cancelled with its agent's budget scope), unless the lock is
\* left to an ended run.  While an agent process outlives a restart of the
\* server, nothing bounds how long it works.
DeferralAnswered ==
  \A n \in 1 .. MaxDeferrals :
    (\E w \in Waiting : w.id = n)
      ~> \/ ~ \E w \in Waiting : w.id = n
         \/ \E a \in Agents : ~Invokable(a)
         \/ alive \ executing # {}

\* A wakeup is merged only into a run of the agent it is for.
CoalescesIntoOwnAgent ==
  \A i \in Issues :
    tx[i].kind = "coalesced" => runs[tx[i].holder].agent = tx[i].agent

\* No two agents run on an issue at the same time.
OneRunningAgentPerIssue ==
  \A r, s \in Runs :
    /\ runs[r].status = "running" /\ runs[s].status = "running"
    /\ runs[r].issue = runs[s].issue /\ runs[r].issue # NoIssue
    => runs[r].agent = runs[s].agent

\* A single issue has at most one active run among those that were started
\* to work on it as its owner (a mention wakes an agent beside the owner).
OneActiveRunPerIssue ==
  \A r, s \in Runs :
    /\ Active(r) /\ Active(s)
    /\ runs[r].kind # "unlocked" /\ runs[s].kind # "unlocked"
    /\ runs[r].issue = runs[s].issue /\ runs[r].issue # NoIssue
    => r = s
=============================================================================
