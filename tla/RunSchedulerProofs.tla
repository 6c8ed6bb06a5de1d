------------------------- MODULE RunSchedulerProofs -------------------------
(***************************************************************************)
(* The run queue, for any number of agents, runs, slots and restarts: no   *)
(* slot leaks (RunningIsOwned), and the rows keep the contract of          *)
(* RunLifecycle wherever the reaper cannot mark a row as detached.         *)
(*                                                                         *)
(* What a row says and what memory holds about its run are related by      *)
(* RowInv; what the caller at the head of an agent's chain has listed and  *)
(* claimed, by DrainInv.  Slots are counted with those a drain has         *)
(* reserved for the rows it has listed (Reserved).                         *)
(***************************************************************************)
EXTENDS RunScheduler, FiniteSetTheorems, WellFoundedInduction, TLAPS

USE SchedulerAssumption

Unstarted(r) == runs[r].status \in {"none", "queued"}

\* A run that has not started has left no trace in memory; a process belongs
\* to an adapter at work or to a server before the last crash; a run whose
\* execution is being closed has settled.
RowInv(r) ==
  /\ runs[r].status # "none" => runs[r].agent \in Agents
  /\ Unstarted(r) => /\ exec[r].pc = "none" /\ exec[r].process = "none"
                     /\ r \notin recover.todo \cup lost
  /\ exec[r].process # "none" => IF exec[r].pc = "none" THEN exec[r].process = "detached"
                                 ELSE exec[r].pc = "adapter" /\ exec[r].process # "detached"
  /\ exec[r].pc = "closing" => runs[r].status \in Terminal
  /\ job[Exec(r)].pc \in {"idle", "count", "settle", "lock"}
  /\ job[Exec(r)].pc \in {"count", "settle"} => exec[r].pc = "closing"
  /\ r \in recover.todo => r \in lost \/ exec[r].process # "detached"

\* The rows of a drain are rows of its agent that no execution and no
\* recovery pass knows; of those it has still to claim, only the one whose
\* wakeup it is about to write says "running".
DrainInv(a) ==
  /\ drain[a].pc = "open" => drain[a].todo = {} /\ drain[a].claimed = {}
  /\ drain[a].pc \in {"update", "wake", "cancel"} => drain[a].todo # {}
  /\ \A r \in drain[a].todo \cup drain[a].claimed :
       /\ runs[r].status # "none" /\ runs[r].agent = a
       /\ exec[r].pc = "none" /\ exec[r].process = "none"
       /\ r \notin recover.todo \cup lost
  /\ \A r \in drain[a].claimed : ~Unstarted(r)
  /\ \A r \in drain[a].todo :
       runs[r].status = "running" => drain[a].pc = "wake" /\ r = Claiming(a)
  /\ drain[a].pc = "wake" => ~Unstarted(Claiming(a))

\* Rows are created in order.
RowsInOrder ==
  \A q, r \in RunId : q < r /\ runs[r].status # "none" => runs[q].status # "none"

\* A worker or a pass that has a run to deal with has one that exists.
ListedRowsExist ==
  /\ \A t \in Workers :
       job[t].pc # "idle" => job[t].run \in RunId /\ runs[job[t].run].status # "none"
  /\ \A a \in Agents : \A r \in pauser[a].todo : runs[r].status # "none"
  /\ \A r \in stop.todo : runs[r].status # "none"

\* The types, with the chains as sequences of threads.
Typed ==
  /\ agentStatus \in [Agents -> {"idle", "running", "error", "paused"}]
  /\ blocked \in BOOLEAN
  /\ runs \in [RunId -> Run]
  /\ chain \in [Agents -> Seq(Threads)]
  /\ drain \in [Agents -> Drain]
  /\ exec \in [RunId -> Execution]
  /\ job \in [Workers -> Job]
  /\ waking \subseteq Agents
  /\ pauser \in [Agents -> Pass]
  /\ stop \in Pass
  /\ recover \in Recovery
  /\ lost \subseteq RunId
  /\ crashes \in 0 .. MaxCrashes

SchedInv ==
  /\ Typed
  /\ RowsInOrder /\ ListedRowsExist
  /\ \A r \in RunId : RowInv(r)
  /\ \A a \in Agents : DrainInv(a)
  /\ RunningIsOwned

\* The slots of an agent that are taken or that a drain has reserved.
Reserved(a) == RunningOf(a) \cup (drain[a].todo \cap With("queued"))

\* Without the reaper, or without local children, no row is ever marked as
\* detached.
NoDetaching ==
  /\ ~Scheduler => recover = NoRecovery
  /\ ~LocalChildren => \A r \in RunId : ~runs[r].pid

SlotInv ==
  /\ NoDetaching
  /\ \A a \in Agents : Cardinality(Reserved(a)) <= MaxConcurrent

-----------------------------------------------------------------------------
(* Sets of runs: the oldest and the newest, the first n, the next one.      *)

LEMMA LeastNatural ==
  ASSUME NEW S, S \subseteq Nat, S # {}
  PROVE  \E m \in S : \A n \in S : m <= n
<1>1. PICK m \in S : \A n \in S : ~(<<n, m>> \in OpToRel(<, Nat))
  BY NatLessThanWellFounded, WFMin, Zenon
<1>2. \A n \in S : ~(n < m)
  <2> SUFFICES ASSUME NEW n \in S, n < m PROVE FALSE
    OBVIOUS
  <2>1. <<n, m>> \in Nat \X Nat
    OBVIOUS
  <2>2. <<n, m>> \in OpToRel(<, Nat)
    BY <2>1, Zenon DEF OpToRel
  <2> QED
    BY <1>1, <2>2, Zenon
<1> QED
  BY <1>2

LEMMA OldestIsLeast ==
  ASSUME NEW S, S \subseteq RunId, S # {}
  PROVE  Oldest(S) \in S /\ \A q \in S : Oldest(S) <= q
<1>1. S \subseteq Nat
  BY DEF RunId
<1>2. \E r \in S : \A q \in S : r <= q
  BY <1>1, LeastNatural
<1> QED
  BY <1>2 DEF Oldest

LEMMA NewestExists ==
  ASSUME NEW S, S \subseteq RunId, S # {}
  PROVE  \E m \in S : \A q \in S : q <= m
<1> DEFINE T == {n \in Nat : \E r \in S : n = MaxRuns - r}
<1>1. T \subseteq Nat /\ T # {}
  <2>1. PICK r \in S : TRUE
    OBVIOUS
  <2>2. MaxRuns - r \in Nat
    BY <2>1 DEF RunId
  <2> QED
    BY <2>1, <2>2
<1>2. PICK n \in T : \A k \in T : n <= k
  <2> HIDE DEF T
  <2> QED
    BY <1>1, LeastNatural
<1>3. PICK m \in S : n = MaxRuns - m
  OBVIOUS
<1>4. ASSUME NEW q \in S
      PROVE  q <= m
  <2>1. MaxRuns - q \in T
    BY DEF RunId
  <2> QED
    BY <1>2, <1>3, <2>1 DEF RunId
<1> QED
  BY <1>4

LEMMA RunSetsAreFinite ==
  ASSUME NEW S, S \subseteq RunId
  PROVE  IsFiniteSet(S) /\ Cardinality(S) \in Nat
<1>1. IsFiniteSet(RunId)
  BY FS_Interval DEF RunId
<1> QED
  BY <1>1, FS_Subset, FS_CardinalityType

\* FirstOf(S, n) has at most n elements, and none if n is not positive.
LEMMA FirstOfBound ==
  ASSUME NEW S, S \subseteq RunId, NEW n \in Int
  PROVE  FirstOf(S, n) # {} => n > 0 /\ Cardinality(FirstOf(S, n)) <= n
<1> SUFFICES ASSUME FirstOf(S, n) # {}
             PROVE  n > 0 /\ Cardinality(FirstOf(S, n)) <= n
  OBVIOUS
<1>1. FirstOf(S, n) \subseteq S /\ FirstOf(S, n) \subseteq RunId
  BY DEF FirstOf
<1>2. PICK m \in FirstOf(S, n) : \A q \in FirstOf(S, n) : q <= m
  BY <1>1, NewestExists
<1> DEFINE before == {q \in S : q < m}
<1>3. Cardinality(before) \in Nat /\ IsFiniteSet(before) /\ Cardinality(before) < n
  <2>1. before \subseteq RunId
    OBVIOUS
  <2>2. Cardinality(before) < n
    BY <1>2 DEF FirstOf
  <2> QED
    BY <2>1, <2>2, RunSetsAreFinite
<1>4. FirstOf(S, n) \ {m} \subseteq before
  BY <1>1, <1>2 DEF RunId
<1>5. Cardinality(FirstOf(S, n) \ {m}) <= Cardinality(before)
  BY <1>3, <1>4, FS_Subset
<1>6. /\ Cardinality(FirstOf(S, n) \ {m}) = Cardinality(FirstOf(S, n)) - 1
      /\ Cardinality(FirstOf(S, n)) \in Nat
  BY <1>1, <1>2, RunSetsAreFinite, FS_RemoveElement
<1> QED
  BY <1>3, <1>5, <1>6

\* The next row is the first that does not exist.
LEMMA NewRunIsFree ==
  ASSUME RowsInOrder, With("none") # {}
  PROVE  /\ NewRun \in RunId /\ runs[NewRun].status = "none"
         /\ \A q \in RunId : q < NewRun => runs[q].status # "none"
<1>1. With("none") \subseteq RunId
  BY DEF With
<1>2. PICK m \in With("none") : \A q \in With("none") : m <= q
  BY <1>1, LeastNatural DEF RunId
<1>3. m \in RunId /\ runs[m].status = "none"
  BY <1>2 DEF With
<1>4. RunId \ With("none") = 1 .. m - 1
  <2>1. ASSUME NEW q \in RunId \ With("none")
        PROVE  q \in 1 .. m - 1
    BY <1>3, <2>1 DEF RowsInOrder, RunId, With
  <2>2. ASSUME NEW q \in 1 .. m - 1
        PROVE  q \in RunId \ With("none")
    BY <1>2, <1>3 DEF RunId
  <2> QED
    BY <2>1, <2>2
<1>5. Cardinality(1 .. m - 1) = m - 1
  BY <1>3, FS_Interval DEF RunId
<1>6. NewRun = m
  <2>1. m \in Nat
    BY <1>3 DEF RunId
  <2>2. Cardinality(RunId \ With("none")) = m - 1
    BY <1>4, <1>5
  <2> QED
    BY <2>1, <2>2 DEF NewRun
<1> QED
  <2>1. ASSUME NEW q \in RunId, q < m
        PROVE  runs[q].status # "none"
    BY <1>2, <1>3, <2>1 DEF With, RunId
  <2> QED
    BY <1>3, <1>6, <2>1

-----------------------------------------------------------------------------
(* Types.                                                                   *)

\* The thread of an execution names its run; no other thread is an execution.
LEMMA ExecutionThreads ==
  /\ \A t \in Threads : t[1] = "exec" => t[2] \in RunId /\ t = Exec(t[2])
  /\ \A t \in Cancellers \cup {Reaper} : t[1] # "exec"
  /\ \A r \in RunId : Exec(r) \in Workers \ (Cancellers \cup {Reaper})
  /\ Workers \subseteq Threads /\ Cancellers \subseteq Workers /\ Reaper \in Workers \ Cancellers
  /\ \A a \in Agents : {Claim(a), Wake(a), Resume(a)} \subseteq Threads
  /\ \A a \in Agents : Claim(a) \in Cancellers
  /\ Api \in Cancellers /\ Budget \in Cancellers
  BY DEF Threads, Workers, Cancellers, Exec, Claim, Api, Budget, Reaper, Wake, Resume

LEMMA RunIdIsNatural == RunId \subseteq Nat \ {0}
  BY DEF RunId

LEMMA ClaimingIsListed ==
  ASSUME Typed, NEW a \in Agents, drain[a].todo # {}
  PROVE  Claiming(a) \in drain[a].todo /\ Claiming(a) \in RunId
<1>1. drain[a].todo \subseteq RunId
  BY DEF Typed, Drain
<1> QED
  BY <1>1, OldestIsLeast DEF Claiming

(* Writing one field of a row, an execution, a job or a drain.              *)

LEMMA RunUpdates ==
  ASSUME NEW f \in [RunId -> Run], NEW r \in RunId
  PROVE  /\ \A s \in Live \cup Terminal : [f EXCEPT ![r].status = s] \in [RunId -> Run]
         /\ \A w \in {"claimed", "finished"} : [f EXCEPT ![r].wake = w] \in [RunId -> Run]
         /\ \A p \in BOOLEAN : [f EXCEPT ![r].pid = p] \in [RunId -> Run]
         /\ \A d \in BOOLEAN : [f EXCEPT ![r].detached = d] \in [RunId -> Run]
<1>1. f[r] \in Run
  OBVIOUS
<1>2. \A s \in Live \cup Terminal : [f[r] EXCEPT !.status = s] \in Run
  BY <1>1 DEF Run
<1>3. \A w \in {"claimed", "finished"} : [f[r] EXCEPT !.wake = w] \in Run
  BY <1>1 DEF Run
<1>4. \A p \in BOOLEAN : [f[r] EXCEPT !.pid = p] \in Run
  BY <1>1 DEF Run
<1>5. \A d \in BOOLEAN : [f[r] EXCEPT !.detached = d] \in Run
  BY <1>1 DEF Run
<1> QED
  BY <1>2, <1>3, <1>4, <1>5

LEMMA StatusKeepsPid ==
  ASSUME NEW f \in [RunId -> Run], NEW c, NEW s
  PROVE  \A q \in RunId : [f EXCEPT ![c].status = s][q].pid = f[q].pid
<1> SUFFICES ASSUME NEW q \in RunId PROVE [f EXCEPT ![c].status = s][q].pid = f[q].pid
  OBVIOUS
<1>1. f[q] \in Run /\ [f[q] EXCEPT !.status = s].pid = f[q].pid
  BY DEF Run
<1>2. [f EXCEPT ![c].status = s][q] = IF q = c THEN [f[q] EXCEPT !.status = s] ELSE f[q]
  OBVIOUS
<1> QED
  BY <1>1, <1>2

LEMMA ExecutionUpdates ==
  ASSUME NEW f \in [RunId -> Execution], NEW r \in RunId
  PROVE  /\ \A pc \in {"none", "check", "setup", "launch", "adapter", "write", "closing"} :
              [f EXCEPT ![r].pc = pc] \in [RunId -> Execution]
         /\ \A o \in Terminal : [f EXCEPT ![r].outcome = o] \in [RunId -> Execution]
         /\ \A k \in {"none", "registered", "signalled", "detached"} :
              [f EXCEPT ![r].process = k] \in [RunId -> Execution]
<1>1. f[r] \in Execution
  OBVIOUS
<1>2. \A pc \in {"none", "check", "setup", "launch", "adapter", "write", "closing"} :
        [f[r] EXCEPT !.pc = pc] \in Execution
  BY <1>1 DEF Execution
<1>3. \A o \in Terminal : [f[r] EXCEPT !.outcome = o] \in Execution
  BY <1>1 DEF Execution
<1>4. \A k \in {"none", "registered", "signalled", "detached"} :
        [f[r] EXCEPT !.process = k] \in Execution
  BY <1>1 DEF Execution
<1> QED
  BY <1>2, <1>3, <1>4

LEMMA JobUpdates ==
  ASSUME NEW f \in [Workers -> Job], NEW t \in Workers
  PROVE  /\ \A pc \in {"count", "settle", "lock"} : [f EXCEPT ![t].pc = pc] \in [Workers -> Job]
         /\ \A n \in {"idle", "running", "error"} : [f EXCEPT ![t].next = n] \in [Workers -> Job]
<1>1. f[t] \in Job
  OBVIOUS
<1>2. \A pc \in {"count", "settle", "lock"} : [f[t] EXCEPT !.pc = pc] \in Job
  BY <1>1 DEF Job
<1>3. \A n \in {"idle", "running", "error"} : [f[t] EXCEPT !.next = n] \in Job
  BY <1>1 DEF Job
<1> QED
  BY <1>2, <1>3

LEMMA DrainUpdates ==
  ASSUME NEW f \in [Agents -> Drain], NEW a \in Agents,
         NEW pc \in {"open", "claim", "update", "wake", "cancel"}
  PROVE  [f EXCEPT ![a].pc = pc] \in [Agents -> Drain]
<1>1. [f[a] EXCEPT !.pc = pc] \in Drain
  BY DEF Drain
<1> QED
  BY <1>1

\* The parts of Typed that single actions rest on.
LEMMA TypedParts ==
  Typed => /\ runs \in [RunId -> Run] /\ exec \in [RunId -> Execution]
           /\ job \in [Workers -> Job] /\ drain \in [Agents -> Drain]
           /\ chain \in [Agents -> Seq(Threads)] /\ recover \in Recovery
           /\ pauser \in [Agents -> Pass] /\ stop \in Pass
  BY DEF Typed

\* What SetStatus writes, column by column.
LEMMA SetStatusWrites ==
  ASSUME Typed, NEW r \in RunId, NEW status \in Live \cup Terminal
  PROVE  /\ SetStatus(r, status) \in [RunId -> Run]
         /\ SetStatus(r, status)[r].status = status
         /\ \A q \in RunId \ {r} : SetStatus(r, status)[q] = runs[q]
         /\ \A q \in RunId : /\ SetStatus(r, status)[q].agent = runs[q].agent
                             /\ SetStatus(r, status)[q].pid = runs[q].pid
<1> DEFINE one == [runs EXCEPT ![r].status = status]
           two == [one EXCEPT ![r].wake = "finished"]
           all == [two EXCEPT ![r].detached = FALSE]
<1>1. SetStatus(r, status) = all
  BY Zenon DEF SetStatus
<1>2. runs \in [RunId -> Run]
  BY TypedParts
<1>3. one \in [RunId -> Run] /\ two \in [RunId -> Run] /\ all \in [RunId -> Run]
  <2>1. one \in [RunId -> Run]
    BY <1>2, RunUpdates
  <2> HIDE DEF one
  <2>2. two \in [RunId -> Run]
    BY <2>1, RunUpdates
  <2> HIDE DEF two
  <2>3. all \in [RunId -> Run]
    BY <2>2, RunUpdates
  <2> QED
    BY <2>1, <2>2, <2>3
<1>4. /\ all[r].status = status
      /\ \A q \in RunId \ {r} : all[q] = runs[q]
      /\ \A q \in RunId : all[q].agent = runs[q].agent /\ all[q].pid = runs[q].pid
  BY <1>2 DEF Run
<1> HIDE DEF all
<1> QED
  BY <1>1, <1>3, <1>4

\* What the reaper writes when it marks a row as detached.
LEMMA DetachedWrites ==
  ASSUME Typed, NEW r \in RunId
  PROVE  LET table == [runs EXCEPT ![r].status = "running", ![r].detached = TRUE]
         IN  /\ table \in [RunId -> Run] /\ table[r].status = "running"
             /\ \A q \in RunId \ {r} : table[q] = runs[q]
             /\ \A q \in RunId : table[q].agent = runs[q].agent /\ table[q].pid = runs[q].pid
<1> DEFINE one == [runs EXCEPT ![r].status = "running"]
           all == [one EXCEPT ![r].detached = TRUE]
<1>1. [runs EXCEPT ![r].status = "running", ![r].detached = TRUE] = all
  BY Zenon
<1>2. runs \in [RunId -> Run]
  BY TypedParts
<1>3. all \in [RunId -> Run]
  <2>1. one \in [RunId -> Run]
    BY <1>2, RunUpdates DEF Live
  <2> HIDE DEF one
  <2> QED
    BY <2>1, RunUpdates
<1>4. /\ all[r].status = "running"
      /\ \A q \in RunId \ {r} : all[q] = runs[q]
      /\ \A q \in RunId : all[q].agent = runs[q].agent /\ all[q].pid = runs[q].pid
  BY <1>2 DEF Run
<1> HIDE DEF all
<1> QED
  BY <1>1, <1>3, <1>4

LEMMA QueuedRowType ==
  ASSUME NEW a \in Agents \cup {NoAgent}, NEW retry \in BOOLEAN
  PROVE  QueuedRow(a, retry) \in Run
  BY DEF QueuedRow, Run, Live

LEMMA KilledType ==
  ASSUME Typed, NEW r \in RunId
  PROVE  Killed(r) \in [RunId -> Execution]
  BY TypedParts, ExecutionUpdates DEF Killed

LEMMA NullTypes ==
  /\ NoDrain \in Drain /\ NoExec \in Execution /\ Idle \in Job /\ NoPass \in Pass
  /\ NoRecovery \in Recovery /\ NoRow \in Run
  /\ \A pc \in {"read", "write", "retry", "count"}, r \in RunId : JobAt(pc, r) \in Job
  BY DEF NoDrain, Drain, NoExec, Execution, Terminal, Idle, Job, NoPass, Pass, NoRecovery,
         Recovery, NoRow, Run, JobAt

LEMMA ReapType ==
  ASSUME Typed, NEW S \in SUBSET RunId
  PROVE  Reap(S) \in Recovery
  BY DEF Reap, NoRecovery, Recovery

\* The instance an execution is started by.
LEMMA InstanceType ==
  ASSUME Typed, NEW t \in Threads
  PROVE  InstanceOf(t) \in {"routes", "scheduler"}
  BY ExecutionThreads DEF InstanceOf, Typed, Execution

LEMMA TypedIsTypeOK == Typed => TypeOK
  BY DEF Typed, TypeOK

LEMMA ReturnType ==
  ASSUME Typed, NEW a \in Agents, chain[a] # <<>>, Return(a)
  PROVE  /\ Head(chain[a]) \in Threads
         /\ chain' \in [Agents -> Seq(Threads)]
         /\ drain' \in [Agents -> Drain] /\ job' \in [Workers -> Job]
         /\ recover' \in Recovery
<1>1. Head(chain[a]) \in Threads /\ Tail(chain[a]) \in Seq(Threads)
  BY DEF Typed
<1>2. chain' \in [Agents -> Seq(Threads)]
  BY <1>1 DEF Typed, Return
<1>3. drain' \in [Agents -> Drain] /\ job' \in [Workers -> Job]
  BY NullTypes DEF Return, Typed
<1>4. recover' \in Recovery
  BY DEF Return, Typed, Recovery
<1> QED
  BY <1>1, <1>2, <1>3, <1>4

LEMMA StartNextType ==
  ASSUME Typed, NEW t \in Workers, StartNext(t)
  PROVE  /\ chain' \in [Agents -> Seq(Threads)]
         /\ job' \in [Workers -> Job] /\ exec' \in [RunId -> Execution]
<1>1. chain' \in [Agents -> Seq(Threads)]
  <2>1. \A a \in Agents : Append(chain[a], t) \in Seq(Threads)
    BY ExecutionThreads DEF Typed
  <2> QED
    BY <2>1 DEF StartNext, Typed
<1>2. job' \in [Workers -> Job]
  BY TypedParts, JobUpdates DEF StartNext
<1>3. exec' \in [RunId -> Execution]
  <2>1. InstanceOf(t) \in {"routes", "scheduler"}
    BY InstanceType, ExecutionThreads
  <2>2. [NoExec EXCEPT !.inst = InstanceOf(t)] \in Execution
    BY <2>1 DEF NoExec, Execution, Terminal
  <2> QED
    BY <2>2 DEF StartNext, Typed
<1> QED
  BY <1>1, <1>2, <1>3

LEMMA NextClaimType ==
  ASSUME Typed, NEW a \in Agents, NEW claimed \in SUBSET RunId, NextClaim(a, claimed)
  PROVE  drain' \in [Agents -> Drain]
  BY DEF NextClaim, Typed, Drain

LEMMA FinishedType ==
  ASSUME Typed, NEW r \in RunId, NEW outcome \in Terminal, Finished(r, outcome)
  PROVE  exec' \in [RunId -> Execution]
<1> DEFINE one == [exec EXCEPT ![r].pc = "write"]
           two == [one EXCEPT ![r].outcome = outcome]
<1>1. exec' = [two EXCEPT ![r].process = "none"]
  BY Zenon DEF Finished
<1>2. one \in [RunId -> Execution]
  BY TypedParts, ExecutionUpdates
<1> HIDE DEF one
<1>3. two \in [RunId -> Execution]
  BY <1>2, ExecutionUpdates
<1> HIDE DEF two
<1> QED
  BY <1>1, <1>3, ExecutionUpdates

LEMMA LaunchType ==
  ASSUME Typed, NEW r \in RunId, ExecLaunch(r)
  PROVE  exec' \in [RunId -> Execution] /\ runs' \in [RunId -> Run]
<1> DEFINE process == IF LocalChildren THEN "registered" ELSE "none"
           one == [exec EXCEPT ![r].pc = "adapter"]
<1>1. exec' = [one EXCEPT ![r].process = process]
  BY Zenon DEF ExecLaunch
<1>2. one \in [RunId -> Execution]
  BY TypedParts, ExecutionUpdates
<1>3. process \in {"none", "registered", "signalled", "detached"}
  OBVIOUS
<1> HIDE DEF one, process
<1>4. exec' \in [RunId -> Execution]
  BY <1>1, <1>2, <1>3, ExecutionUpdates
<1>5. runs' \in [RunId -> Run]
  BY TypedParts, RunUpdates DEF ExecLaunch
<1> QED
  BY <1>4, <1>5

LEMMA CountType ==
  ASSUME Typed, NEW t \in Workers, FinalizeCount(t)
  PROVE  job' \in [Workers -> Job]
<1> DEFINE next == IF RunningOf(AgentOf(t)) # {} THEN "running"
                   ELSE IF Outcome(t) = "failed" THEN "error" ELSE "idle"
           one == [job EXCEPT ![t].pc = "settle"]
<1>1. job' = [one EXCEPT ![t].next = next]
  BY Zenon DEF FinalizeCount
<1>2. one \in [Workers -> Job]
  BY TypedParts, JobUpdates
<1>3. next \in {"idle", "running", "error"}
  OBVIOUS
<1> HIDE DEF one, next
<1> QED
  BY <1>1, <1>2, <1>3, JobUpdates

\* Every action keeps the rows, the chains and the bookkeeping well-typed.
LEMMA TypeStep == SchedInv /\ [Next]_vars => Typed'
<1> SUFFICES ASSUME SchedInv, [Next]_vars PROVE Typed'
  OBVIOUS
<1>0. Typed /\ ListedRowsExist /\ RowsInOrder /\ \A a \in Agents : DrainInv(a)
  BY DEF SchedInv
<1> USE <1>0 DEF Typed
<1>1. ASSUME NEW a \in Agents, EnqueueCheck(a)
      PROVE  Typed'
  BY <1>1 DEF EnqueueCheck
<1>2. ASSUME NEW a \in Agents, EnqueueInsert(a)
      PROVE  Typed'
  <2>1. CASE With("none") = {}
    BY <1>2, <2>1 DEF EnqueueInsert
  <2>2. CASE With("none") # {}
    <3>1. runs' \in [RunId -> Run]
      <4>1. QueuedRow(a, FALSE) \in Run
        BY QueuedRowType
      <4>2. runs' = [runs EXCEPT ![NewRun] = QueuedRow(a, FALSE)]
        BY <1>2, <2>2 DEF EnqueueInsert
      <4> QED
        BY <4>1, <4>2, TypedParts
    <3>2. chain' \in [Agents -> Seq(Threads)]
      <4>1. \A b \in Agents : Append(chain[b], Wake(a)) \in Seq(Threads)
        BY ExecutionThreads
      <4> QED
        BY <1>2, <2>2, <4>1 DEF EnqueueInsert
    <3> QED
      BY <1>2, <3>1, <3>2 DEF EnqueueInsert
  <2> QED
    BY <2>1, <2>2
<1>3. ASSUME NEW a \in Agents, DrainNothing(a)
      PROVE  Typed'
  BY <1>3, ReturnType DEF DrainNothing, Holding
<1>4. ASSUME NEW a \in Agents, DrainList(a)
      PROVE  Typed'
  <2>1. Startable(a) \subseteq RunId
    BY DEF Startable, FirstOf, OfAgent
  <2> QED
    BY <1>4, <2>1 DEF DrainList, Drain
<1>5. ASSUME NEW a \in Agents, ClaimRefused(a)
      PROVE  Typed'
  <2>1. JobAt("read", Claiming(a)) \in Job
    BY <1>5, ClaimingIsListed, NullTypes DEF ClaimRefused
  <2>2. drain' \in [Agents -> Drain]
    BY <1>5, DrainUpdates DEF ClaimRefused
  <2> QED
    BY <1>5, <2>1, <2>2 DEF ClaimRefused
<1>6. ASSUME NEW a \in Agents, ClaimAllowed(a)
      PROVE  Typed'
  BY <1>6, DrainUpdates DEF ClaimAllowed
<1>7. ASSUME NEW a \in Agents, ClaimCancelled(a)
      PROVE  Typed'
  <2>1. drain' \in [Agents -> Drain]
    BY <1>7, NextClaimType DEF ClaimCancelled
  <2> QED
    BY <1>7, <2>1 DEF ClaimCancelled
<1>8. ASSUME NEW a \in Agents, ClaimUpdate(a)
      PROVE  Typed'
  <2>1. CASE Claimable(Claiming(a))
    <3>1. drain' \in [Agents -> Drain]
      <4>1. drain' = [drain EXCEPT ![a].pc = "wake"]
        BY <1>8, <2>1 DEF ClaimUpdate
      <4> QED
        BY <4>1, DrainUpdates
    <3>2. runs' \in [RunId -> Run]
      <4>1. Claiming(a) \in RunId
        BY <1>8, ClaimingIsListed DEF ClaimUpdate, Holding, DrainInv
      <4>2. runs' = [runs EXCEPT ![Claiming(a)].status = "running"]
        BY <1>8, <2>1 DEF ClaimUpdate
      <4> QED
        BY <4>1, <4>2, RunUpdates DEF Live
    <3> QED
      BY <1>8, <2>1, <3>1, <3>2 DEF ClaimUpdate
  <2>2. CASE ~Claimable(Claiming(a))
    <3>1. drain' \in [Agents -> Drain]
      BY <1>8, <2>2, NextClaimType DEF ClaimUpdate
    <3> QED
      BY <1>8, <2>2, <3>1 DEF ClaimUpdate
  <2> QED
    BY <2>1, <2>2
<1>9. ASSUME NEW a \in Agents, ClaimWake(a)
      PROVE  Typed'
  <2>1. drain[a].todo # {}
    BY <1>9 DEF ClaimWake, Holding, DrainInv
  <2>2. drain' \in [Agents -> Drain]
    BY <1>9, <2>1, ClaimingIsListed, NextClaimType DEF ClaimWake
  <2>3. runs' \in [RunId -> Run]
    BY <1>9, <2>1, ClaimingIsListed, RunUpdates DEF ClaimWake
  <2> QED
    BY <1>9, <2>2, <2>3 DEF ClaimWake
<1>10. ASSUME NEW a \in Agents, DrainLaunch(a)
      PROVE  Typed'
  <2>1. InstanceOf(Head(chain[a])) \in {"routes", "scheduler"}
    BY <1>10, ReturnType, InstanceType DEF DrainLaunch, Holding
  <2>2. [NoExec EXCEPT !.pc = "check", !.inst = InstanceOf(Head(chain[a]))] \in Execution
    BY <2>1 DEF NoExec, Execution, Terminal
  <2>3. exec' \in [RunId -> Execution]
    BY <1>10, <2>2 DEF DrainLaunch
  <2> QED
    BY <1>10, <2>3, ReturnType DEF DrainLaunch, Holding
<1>11. ASSUME NEW a \in Agents, Pause(a)
      PROVE  Typed'
  <2>1. pauser' \in [Agents -> Pass]
    BY <1>11 DEF Pause, Pass
  <2> QED
    BY <1>11, <2>1 DEF Pause
<1>12. ASSUME NEW a \in Agents, PauseList(a)
      PROVE  Typed'
  <2>1. OfAgent(a) \cap Active \subseteq RunId
    BY DEF OfAgent
  <2>2. pauser' \in [Agents -> Pass]
    BY <1>12, <2>1 DEF PauseList, Pass
  <2> QED
    BY <1>12, <2>2 DEF PauseList
<1>13. ASSUME NEW a \in Agents, PauseCancel(a)
      PROVE  Typed'
  <2>1. PICK r \in pauser[a].todo : /\ runs' = SetStatus(r, "cancelled")
                                  /\ exec' = Killed(r)
                                  /\ pauser' = [pauser EXCEPT ![a].todo = @ \ {r}]
    BY <1>13 DEF PauseCancel
  <2>2. r \in RunId
    BY DEF Pass
  <2>3. runs' \in [RunId -> Run] /\ exec' \in [RunId -> Execution]
    BY <2>1, <2>2, SetStatusWrites, KilledType DEF Terminal
  <2>4. pauser' \in [Agents -> Pass]
    BY <2>1 DEF Pass
  <2> QED
    BY <1>13, <2>3, <2>4 DEF PauseCancel
<1>14. ASSUME NEW a \in Agents, PauseEnd(a)
      PROVE  Typed'
  BY <1>14, NullTypes DEF PauseEnd
<1>15. ASSUME NEW a \in Agents, ResumeAgent(a)
      PROVE  Typed'
  BY <1>15 DEF ResumeAgent
<1>16. ASSUME NEW r \in RunId, ExecCheck(r)
      PROVE  Typed'
  <2>1. PICK pc \in {"setup", "none"} : exec' = [exec EXCEPT ![r].pc = pc]
    BY <1>16 DEF ExecCheck
  <2>2. exec' \in [RunId -> Execution]
    BY <2>1, ExecutionUpdates
  <2> QED
    BY <1>16, <2>2 DEF ExecCheck
<1>17. ASSUME NEW r \in RunId, ExecSetup(r)
      PROVE  Typed'
  <2>1. exec' \in [RunId -> Execution]
    BY <1>17, ExecutionUpdates DEF ExecSetup
  <2> QED
    BY <1>17, <2>1 DEF ExecSetup
<1>18. ASSUME NEW r \in RunId, AdapterReturn(r)
      PROVE  Typed'
  <2>1. PICK o \in Terminal : Finished(r, o)
    BY <1>18 DEF AdapterReturn, Terminal
  <2>2. exec' \in [RunId -> Execution]
    BY <2>1, FinishedType
  <2> QED
    BY <1>18, <2>2 DEF AdapterReturn
<1>19. ASSUME NEW r \in RunId, ExecThrow(r)
      PROVE  Typed'
  <2>1. exec' \in [RunId -> Execution]
    BY <1>19, FinishedType DEF ExecThrow, Terminal
  <2> QED
    BY <1>19, <2>1 DEF ExecThrow
<1>20. ASSUME NEW r \in RunId, ExecLaunch(r)
      PROVE  Typed'
  <2>1. exec' \in [RunId -> Execution] /\ runs' \in [RunId -> Run]
    BY <1>20, LaunchType
  <2> QED
    BY <1>20, <2>1 DEF ExecLaunch
<1>21. ASSUME NEW r \in RunId, ExecWrite(r)
      PROVE  Typed'
  <2>1. exec' \in [RunId -> Execution] /\ exec[r].outcome \in Terminal
    <3>1. exec[r] \in Execution
      BY TypedParts
    <3> QED
      BY <1>21, <3>1, ExecutionUpdates DEF ExecWrite, Execution
  <2>2. runs' \in [RunId -> Run]
    BY <1>21, <2>1, SetStatusWrites DEF ExecWrite
  <2>3. job' \in [Workers -> Job]
    BY <1>21, NullTypes DEF ExecWrite
  <2> QED
    BY <1>21, <2>1, <2>2, <2>3 DEF ExecWrite
<1>22. ASSUME NEW r \in RunId, ApiCancel(r)
      PROVE  Typed'
  BY <1>22, NullTypes DEF ApiCancel
<1>23. ASSUME NEW r \in RunId, ProcessExit(r)
      PROVE  Typed'
  <2>1. exec' \in [RunId -> Execution]
    BY <1>23, ExecutionUpdates DEF ProcessExit
  <2> QED
    BY <1>23, <2>1 DEF ProcessExit
<1>24. ASSUME NEW t \in Workers, FinalizePaused(t)
      PROVE  Typed'
  BY <1>24, StartNextType DEF FinalizePaused
<1>25. ASSUME NEW t \in Workers, FinalizeCount(t)
      PROVE  Typed'
  <2>1. job' \in [Workers -> Job]
    BY <1>25, CountType
  <2> QED
    BY <1>25, <2>1 DEF FinalizeCount
<1>26. ASSUME NEW t \in Workers, FinalizeWrite(t)
      PROVE  Typed'
  <2>1. job[t].next \in {"idle", "running", "error"}
    BY DEF Job
  <2>2. agentStatus' \in [Agents -> {"idle", "running", "error", "paused"}]
    BY <1>26, <2>1 DEF FinalizeWrite
  <2> QED
    BY <1>26, <2>2, StartNextType DEF FinalizeWrite
<1>27. ASSUME NEW t \in Cancellers, CancelRead(t)
      PROVE  Typed'
  <2>1. t \in Workers /\ job[t].run \in RunId
    BY <1>27, ExecutionThreads DEF CancelRead, ListedRowsExist
  <2>2. job' \in [Workers -> Job]
    BY <1>27, <2>1, NullTypes DEF CancelRead
  <2> QED
    BY <1>27, <2>2 DEF CancelRead
<1>28. ASSUME NEW t \in Cancellers, CancelWrite(t)
      PROVE  Typed'
  <2>1. t \in Workers /\ job[t].run \in RunId
    BY <1>28, ExecutionThreads DEF CancelWrite, ListedRowsExist
  <2>2. runs' \in [RunId -> Run] /\ exec' \in [RunId -> Execution]
    BY <1>28, <2>1, SetStatusWrites, KilledType DEF CancelWrite, Terminal
  <2>3. job' \in [Workers -> Job]
    BY <1>28, <2>1, JobUpdates DEF CancelWrite
  <2> QED
    BY <1>28, <2>2, <2>3 DEF CancelWrite
<1>29. ASSUME BudgetStop
      PROVE  Typed'
  BY <1>29 DEF BudgetStop, Pass
<1>30. ASSUME BudgetList
      PROVE  Typed'
  <2>1. Active \subseteq RunId
    BY DEF Active, With
  <2> QED
    BY <1>30, <2>1 DEF BudgetList, Pass
<1>31. ASSUME BudgetCancel
      PROVE  Typed'
  <2>1. PICK r \in stop.todo : /\ stop' = [stop EXCEPT !.todo = @ \ {r}]
                             /\ job' = [job EXCEPT ![Budget] = JobAt("read", r)]
    BY <1>31 DEF BudgetCancel
  <2>2. r \in RunId
    BY DEF Pass
  <2>3. stop' \in Pass
    BY <2>1 DEF Pass
  <2>4. job' \in [Workers -> Job]
    BY <2>1, <2>2, NullTypes
  <2> QED
    BY <1>31, <2>3, <2>4 DEF BudgetCancel
<1>32. ASSUME BudgetEnd
      PROVE  Typed'
  BY <1>32, NullTypes DEF BudgetEnd
<1>33. ASSUME BudgetRaised
      PROVE  Typed'
  BY <1>33 DEF BudgetRaised
<1>34. ASSUME RecoveryBegin
      PROVE  Typed'
  <2>1. Orphaned \subseteq RunId /\ AtWork \subseteq RunId
    BY DEF Orphaned, AtWork, With
  <2>2. recover' \in Recovery
    BY <1>34, <2>1, ReapType DEF RecoveryBegin
  <2> QED
    BY <1>34, <2>2 DEF RecoveryBegin
<1>35. ASSUME Retry
      PROVE  Typed'
  <2>1. job[Reaper].run \in RunId
    BY <1>35, ExecutionThreads DEF Retry, ListedRowsExist
  <2>2. AgentOf(Reaper) \in Agents \cup {NoAgent}
    BY <2>1 DEF AgentOf, Run
  <2>3. runs' \in [RunId -> Run]
    BY <1>35, <2>2, QueuedRowType, NewRunIsFree DEF Retry
  <2>4. job' \in [Workers -> Job]
    BY <1>35, ExecutionThreads, JobUpdates DEF Retry
  <2> QED
    BY <1>35, <2>3, <2>4 DEF Retry
<1>36. ASSUME ReapEnd
      PROVE  Typed'
  <2>1. recover' \in Recovery
    BY <1>36 DEF ReapEnd, NoRecovery, Recovery, WithQueuedRuns
  <2> QED
    BY <1>36, <2>1 DEF ReapEnd
<1>37. ASSUME ResumeQueued
      PROVE  Typed'
  <2>1. PICK a \in recover.agents :
           /\ recover' = [recover EXCEPT !.agents = @ \ {a}, !.wait = a]
           /\ chain' = [chain EXCEPT ![a] = Append(@, Resume(a))]
    BY <1>37 DEF ResumeQueued
  <2>2. a \in Agents
    BY DEF Recovery
  <2>3. recover' \in Recovery
    BY <2>1, <2>2 DEF Recovery
  <2>4. chain' \in [Agents -> Seq(Threads)]
    <3>1. Append(chain[a], Resume(a)) \in Seq(Threads)
      BY <2>2, ExecutionThreads
    <3> QED
      BY <2>1, <2>2, <3>1
  <2> QED
    BY <1>37, <2>3, <2>4 DEF ResumeQueued
<1>38. ASSUME RecoveryEnd
      PROVE  Typed'
  BY <1>38, NullTypes DEF RecoveryEnd
<1>39. ASSUME NEW r \in RunId, ReapSkip(r)
      PROVE  Typed'
  <2>1. recover' \in Recovery
    BY <1>39 DEF ReapSkip, Reaped, Recovery
  <2> QED
    BY <1>39, <2>1 DEF ReapSkip
<1>40. ASSUME NEW r \in RunId, ReapDetached(r)
      PROVE  Typed'
  <2>1. recover' \in Recovery
    BY <1>40 DEF ReapDetached, Reaped, Recovery
  <2>2. runs' \in [RunId -> Run]
    BY <1>40, DetachedWrites DEF ReapDetached
  <2> QED
    BY <1>40, <2>1, <2>2 DEF ReapDetached
<1>41. ASSUME NEW r \in RunId, ReapLost(r)
      PROVE  Typed'
  <2>1. recover' \in Recovery
    BY <1>41 DEF ReapLost, Reaped, Recovery
  <2>2. runs' \in [RunId -> Run]
    BY <1>41, SetStatusWrites DEF ReapLost, Terminal
  <2>3. job' \in [Workers -> Job]
    BY <1>41, NullTypes DEF ReapLost
  <2> QED
    BY <1>41, <2>1, <2>2, <2>3 DEF ReapLost
<1>42. ASSUME Crash
      PROVE  Typed'
  <2>1. With("running") \subseteq RunId
    BY DEF With
  <2>2. recover' \in Recovery
    BY <1>42, <2>1, ReapType, NullTypes DEF Crash
  <2>3. exec' \in [RunId -> Execution]
    BY <1>42 DEF Crash, NoExec, Execution, Terminal
  <2>4. chain' \in [Agents -> Seq(Threads)]
    BY <1>42 DEF Crash
  <2> QED
    BY <1>42, <2>1, <2>2, <2>3, <2>4, NullTypes DEF Crash
<1>43. ASSUME UNCHANGED vars
      PROVE  Typed'
  BY <1>43 DEF vars
<1> QED
  BY <1>1, <1>2, <1>3, <1>4, <1>5, <1>6, <1>7, <1>8, <1>9, <1>10, <1>11, <1>12, <1>13,
     <1>14, <1>15, <1>16, <1>17, <1>18, <1>19, <1>20, <1>21, <1>22, <1>23, <1>24, <1>25,
     <1>26, <1>27, <1>28, <1>29, <1>30, <1>31, <1>32, <1>33, <1>34, <1>35, <1>36, <1>37,
     <1>38, <1>39, <1>40, <1>41, <1>42, <1>43
  DEF Next, DrainStep, ExecStep, FinalizeStep, CancelStep, PauseStep, BudgetStep, RecoveryStep

-----------------------------------------------------------------------------
(* What a step does to the rows, and to what memory holds about their runs. *)

RowsKeptBut(S) ==
  \A q \in RunId \ S : runs'[q].status = runs[q].status /\ runs'[q].agent = runs[q].agent

ExecKeptBut(S) ==
  \A q \in RunId \ S : /\ exec'[q].pc = exec[q].pc
                       /\ exec'[q].process = exec[q].process

ExecJobsKept == \A q \in RunId : job'[Exec(q)].pc = job[Exec(q)].pc

Created(r) ==
  /\ runs[r].status = "none" /\ \A q \in RunId : q < r => runs[q].status # "none"
  /\ runs'[r].status = "queued" /\ runs'[r].agent \in Agents
  /\ RowsKeptBut({r})

Written(r, status) ==
  /\ runs[r].status # "none"
  /\ runs'[r].status = status /\ runs'[r].agent = runs[r].agent
  /\ RowsKeptBut({r})

\* What RowInv and DrainInv say of the runs, the drains and RunningIsOwned.
Owned ==
  /\ \A r \in RunId : RowInv(r)
  /\ \A a \in Agents : DrainInv(a)
  /\ RunningIsOwned

\* A drain stays as good as its rows: they may settle, and no execution,
\* recovery pass or crash gets to know them.
LEMMA DrainKept ==
  ASSUME Owned, Typed, NEW a \in Agents, drain'[a] = drain[a],
         \A r \in drain[a].todo \cup drain[a].claimed :
           /\ runs'[r].agent = runs[r].agent
           /\ runs'[r].status = runs[r].status \/ runs'[r].status \in Terminal
           /\ exec'[r].pc = "none" /\ exec'[r].process = "none"
           /\ r \notin recover'.todo \cup lost'
  PROVE  DrainInv(a)'
<1>1. DrainInv(a)
  BY DEF Owned
<1>2. Claiming(a)' = Claiming(a)
  BY Zenon DEF Claiming, Oldest
<1>3. drain[a].pc = "wake" => Claiming(a) \in drain[a].todo
  BY <1>1, ClaimingIsListed DEF DrainInv
<1> QED
  BY <1>1, <1>2, <1>3 DEF DrainInv, Unstarted, Terminal

\* A step that writes none of them.
LEMMA QuietStep ==
  ASSUME Owned, Typed, RowsKeptBut({}), ExecKeptBut({}), ExecJobsKept,
         drain' = drain, lost' = lost, recover'.todo \subseteq recover.todo
  PROVE  Owned'
<1>1. \A r \in RunId : RowInv(r)'
  BY DEF Owned, RowInv, Unstarted, RowsKeptBut, ExecKeptBut, ExecJobsKept
<1>2. \A a \in Agents : DrainInv(a)'
  <2> SUFFICES ASSUME NEW a \in Agents
               PROVE  DrainInv(a)'
    OBVIOUS
  <2>1. drain[a].todo \subseteq RunId /\ drain[a].claimed \subseteq RunId /\ DrainInv(a)
    BY DEF Typed, Drain, Owned
  <2> QED
    BY <2>1, DrainKept DEF DrainInv, RowsKeptBut, ExecKeptBut
<1>3. RunningIsOwned'
  BY DEF Owned, RunningIsOwned, With, Executing, InDrain, RowsKeptBut, ExecKeptBut
<1> QED
  BY <1>1, <1>2, <1>3 DEF Owned

\* A new row.
LEMMA CreateStep ==
  ASSUME Owned, Typed, NEW n \in RunId, Created(n), ExecKeptBut({}), ExecJobsKept,
         drain' = drain, lost' = lost, recover' = recover
  PROVE  Owned'
<1>1. \A r \in RunId : RowInv(r)'
  BY DEF Owned, RowInv, Unstarted, Created, RowsKeptBut, ExecKeptBut, ExecJobsKept, Terminal
<1>2. \A a \in Agents : DrainInv(a)'
  <2> SUFFICES ASSUME NEW a \in Agents
               PROVE  DrainInv(a)'
    OBVIOUS
  <2>1. drain[a].todo \subseteq RunId /\ drain[a].claimed \subseteq RunId /\ DrainInv(a)
    BY DEF Typed, Drain, Owned
  <2> QED
    BY <2>1, DrainKept DEF DrainInv, Created, RowsKeptBut, ExecKeptBut
<1>3. RunningIsOwned'
  BY DEF Owned, RunningIsOwned, With, Executing, InDrain, Created, RowsKeptBut, ExecKeptBut
<1> QED
  BY <1>1, <1>2, <1>3 DEF Owned

\* A row gets a terminal status; a child of the run may be signalled.
LEMMA SettleStep ==
  ASSUME Owned, Typed, NEW s \in RunId, NEW status \in Terminal, Written(s, status),
         \A q \in RunId : /\ exec'[q].pc = exec[q].pc
                          /\ \/ exec'[q].process = exec[q].process
                             \/ exec[q].process = "registered" /\ exec'[q].process = "signalled",
         ExecJobsKept,
         drain' = drain, lost' = lost, recover'.todo \subseteq recover.todo
  PROVE  Owned'
<1>1. \A r \in RunId : RowInv(r)'
  BY DEF Owned, RowInv, Unstarted, Written, RowsKeptBut, ExecJobsKept, Terminal
<1>2. \A a \in Agents : DrainInv(a)'
  <2> SUFFICES ASSUME NEW a \in Agents
               PROVE  DrainInv(a)'
    OBVIOUS
  <2>1. drain[a].todo \subseteq RunId /\ drain[a].claimed \subseteq RunId /\ DrainInv(a)
    BY DEF Typed, Drain, Owned
  <2> QED
    BY <2>1, DrainKept DEF DrainInv, Written, RowsKeptBut
<1>3. RunningIsOwned'
  BY DEF Owned, RunningIsOwned, With, Executing, InDrain, Written, RowsKeptBut, Terminal
<1> QED
  BY <1>1, <1>2, <1>3 DEF Owned

\* An execution of a run moves on, or gives a settled run up.
LEMMA ExecuteStep ==
  ASSUME Owned, Typed, NEW r \in RunId, exec[r].pc \notin {"none", "closing"},
         exec'[r].pc # "closing", ExecKeptBut({r}), ExecJobsKept,
         exec'[r].process # "none" => exec'[r].pc = "adapter" /\ exec'[r].process # "detached",
         exec'[r].pc = "none" => runs[r].status # "running",
         RowsKeptBut({}), drain' = drain, lost' = lost, recover' = recover
  PROVE  Owned'
<1>1. \A q \in RunId : RowInv(q)'
  BY DEF Owned, RowInv, Unstarted, RowsKeptBut, ExecKeptBut, ExecJobsKept
<1>2. \A a \in Agents : DrainInv(a)'
  <2> SUFFICES ASSUME NEW a \in Agents
               PROVE  DrainInv(a)'
    OBVIOUS
  <2>1. drain[a].todo \subseteq RunId /\ drain[a].claimed \subseteq RunId /\ DrainInv(a)
    BY DEF Typed, Drain, Owned
  <2> QED
    BY <2>1, DrainKept DEF DrainInv, RowsKeptBut, ExecKeptBut
<1>3. RunningIsOwned'
  BY DEF Owned, RunningIsOwned, With, Executing, InDrain, RowsKeptBut, ExecKeptBut
<1> QED
  BY <1>1, <1>2, <1>3 DEF Owned

\* The head of an agent's chain is done with a row it has listed.
LEMMA DropStep ==
  ASSUME Owned, Typed, NEW a \in Agents, NEW claimed \in SUBSET {Claiming(a)},
         drain[a].pc \in {"update", "wake", "cancel"},
         NextClaim(a, claimed),
         IF drain[a].pc = "wake" THEN claimed = {Claiming(a)} ELSE claimed = {},
         RowsKeptBut({}), ExecKeptBut({}), ExecJobsKept,
         lost' = lost, recover' = recover
  PROVE  Owned'
<1>1. \A r \in RunId : RowInv(r)'
  BY DEF Owned, RowInv, Unstarted, RowsKeptBut, ExecKeptBut, ExecJobsKept
<1>2. DrainInv(a) /\ drain[a].todo \subseteq RunId /\ drain[a].claimed \subseteq RunId
  BY DEF Owned, Typed, Drain
<1>3. Claiming(a) \in drain[a].todo
  BY <1>2, ClaimingIsListed DEF DrainInv
<1>4. /\ drain'[a] = [pc |-> "claim", todo |-> drain[a].todo \ {Claiming(a)},
                      claimed |-> drain[a].claimed \cup claimed]
      /\ \A b \in Agents \ {a} : drain'[b] = drain[b]
  BY TypedParts DEF NextClaim
<1>5. ASSUME NEW b \in Agents
      PROVE  DrainInv(b)'
  <2>1. CASE b = a
    BY <1>2, <1>3, <1>4, <2>1 DEF DrainInv, Unstarted, RowsKeptBut, ExecKeptBut
  <2>2. CASE b # a
    <3>1. drain[b].todo \subseteq RunId /\ drain[b].claimed \subseteq RunId /\ DrainInv(b)
      BY DEF Typed, Drain, Owned
    <3> QED
      BY <1>4, <2>2, <3>1, DrainKept DEF DrainInv, RowsKeptBut, ExecKeptBut
  <2> QED
    BY <2>1, <2>2
<1>6. RunningIsOwned'
  <2> SUFFICES ASSUME NEW r \in With("running")'
               PROVE  InDrain(r)' \/ Executing(r)' \/ r \in lost'
    BY DEF RunningIsOwned
  <2>1. r \in RunId /\ runs[r].status = "running"
    BY DEF With, RowsKeptBut
  <2>2. InDrain(r) \/ Executing(r) \/ r \in lost
    BY <2>1 DEF Owned, RunningIsOwned, With
  <2>3. CASE InDrain(r)
    BY <1>2, <1>3, <1>4, <2>1, <2>3 DEF DrainInv, InDrain
  <2> QED
    BY <2>1, <2>2, <2>3 DEF Executing, ExecKeptBut
<1> QED
  BY <1>1, <1>5, <1>6 DEF Owned

\* The rows, the executions and the jobs of a step that does not write them.
LEMMA NothingKept ==
  /\ UNCHANGED runs => RowsKeptBut({})
  /\ UNCHANGED exec => ExecKeptBut({})
  /\ UNCHANGED job => ExecJobsKept
  BY DEF RowsKeptBut, ExecKeptBut, ExecJobsKept

LEMMA OtherJobs ==
  ASSUME Typed, NEW t \in Cancellers \cup {Reaper}, NEW j, job' = [job EXCEPT ![t] = j]
  PROVE  ExecJobsKept
  BY ExecutionThreads, TypedParts DEF ExecJobsKept

\* Threads of executions leave the chain idle; the others are no execution.
LEMMA ReturnJobs ==
  ASSUME Typed, NEW a \in Agents, chain[a] # <<>>, Return(a)
  PROVE  /\ \A q \in RunId : job'[Exec(q)].pc \in {job[Exec(q)].pc, "idle"}
         /\ recover'.todo = recover.todo
<1>1. job' \in {[job EXCEPT ![t] = Idle] : t \in Workers} \cup {job}
  BY DEF Return
<1>2. \A q \in RunId : job'[Exec(q)].pc \in {job[Exec(q)].pc, "idle"}
  BY <1>1, ExecutionThreads, TypedParts DEF Idle
<1>3. recover'.todo = recover.todo
  BY TypedParts DEF Return, Recovery
<1> QED
  BY <1>2, <1>3

LEMMA ReturnStep ==
  ASSUME Owned, Typed, NEW a \in Agents, Holding(a, "open"), Return(a),
         RowsKeptBut({}), ExecKeptBut({}), lost' = lost
  PROVE  Owned'
<1>1. /\ \A q \in RunId : job'[Exec(q)].pc \in {job[Exec(q)].pc, "idle"}
      /\ recover'.todo = recover.todo
  BY ReturnJobs DEF Holding
<1>2. /\ drain'[a] = NoDrain /\ \A b \in Agents \ {a} : drain'[b] = drain[b]
      /\ drain[a].todo = {} /\ drain[a].claimed = {}
  BY TypedParts DEF Return, Owned, DrainInv, Holding
<1>3. \A r \in RunId : RowInv(r)'
  BY <1>1 DEF Owned, RowInv, Unstarted, RowsKeptBut, ExecKeptBut
<1>4. ASSUME NEW b \in Agents
      PROVE  DrainInv(b)'
  <2>1. CASE b = a
    BY <1>2, <2>1 DEF DrainInv, NoDrain
  <2>2. CASE b # a
    <3>1. drain[b].todo \subseteq RunId /\ drain[b].claimed \subseteq RunId /\ DrainInv(b)
      BY DEF Typed, Drain, Owned
    <3> QED
      BY <1>1, <1>2, <2>2, <3>1, DrainKept DEF DrainInv, RowsKeptBut, ExecKeptBut
  <2> QED
    BY <2>1, <2>2
<1>5. RunningIsOwned'
  BY <1>2 DEF Owned, RunningIsOwned, With, Executing, InDrain, RowsKeptBut, ExecKeptBut
<1> QED
  BY <1>3, <1>4, <1>5 DEF Owned

LEMMA ListStep ==
  ASSUME Owned, Typed, NEW a \in Agents, DrainList(a)
  PROVE  Owned'
<1>1. /\ drain'[a] = [pc |-> "claim", todo |-> Startable(a), claimed |-> {}]
      /\ \A b \in Agents \ {a} : drain'[b] = drain[b]
      /\ drain[a].todo = {} /\ drain[a].claimed = {}
  BY TypedParts DEF DrainList, Owned, DrainInv, Holding
<1>2. \A r \in Startable(a) : r \in RunId /\ runs[r].status = "queued" /\ runs[r].agent = a
  BY DEF Startable, FirstOf, OfAgent, With
<1>3. RowsKeptBut({}) /\ ExecKeptBut({}) /\ ExecJobsKept
  BY NothingKept DEF DrainList
<1>4. lost' = lost /\ recover' = recover
  BY DEF DrainList
<1>5. \A r \in RunId : RowInv(r)'
  BY <1>3, <1>4 DEF Owned, RowInv, Unstarted, RowsKeptBut, ExecKeptBut, ExecJobsKept
<1>6. ASSUME NEW b \in Agents
      PROVE  DrainInv(b)'
  <2>1. CASE b = a
    <3>1. \A r \in Startable(a) : RowInv(r)
      BY <1>2 DEF Owned
    <3> QED
      BY <1>1, <1>2, <1>3, <1>4, <2>1, <3>1
      DEF DrainInv, RowInv, Unstarted, RowsKeptBut, ExecKeptBut
  <2>2. CASE b # a
    <3>1. drain[b].todo \subseteq RunId /\ drain[b].claimed \subseteq RunId /\ DrainInv(b)
      BY DEF Typed, Drain, Owned
    <3> QED
      BY <1>1, <1>3, <1>4, <2>2, <3>1, DrainKept DEF DrainInv, RowsKeptBut, ExecKeptBut
  <2> QED
    BY <2>1, <2>2
<1>7. RunningIsOwned'
  BY <1>1, <1>3, <1>4
  DEF Owned, RunningIsOwned, With, Executing, InDrain, RowsKeptBut, ExecKeptBut
<1> QED
  BY <1>5, <1>6, <1>7 DEF Owned

\* The head of a chain turns to the cancellation or to the update of a row.
LEMMA TurnStep ==
  ASSUME Owned, Typed, NEW a \in Agents, Holding(a, "claim"), drain[a].todo # {},
         NEW pc \in {"cancel", "update"}, drain' = [drain EXCEPT ![a].pc = pc],
         RowsKeptBut({}), ExecKeptBut({}), ExecJobsKept, lost' = lost, recover' = recover
  PROVE  Owned'
<1>1. /\ drain'[a].pc = pc /\ drain'[a].todo = drain[a].todo
      /\ drain'[a].claimed = drain[a].claimed
      /\ \A b \in Agents \ {a} : drain'[b] = drain[b]
  BY TypedParts DEF Drain
<1>2. \A r \in RunId : RowInv(r)'
  BY DEF Owned, RowInv, Unstarted, RowsKeptBut, ExecKeptBut, ExecJobsKept
<1>3. ASSUME NEW b \in Agents
      PROVE  DrainInv(b)'
  <2>1. drain[b].todo \subseteq RunId /\ drain[b].claimed \subseteq RunId /\ DrainInv(b)
    BY DEF Typed, Drain, Owned
  <2>2. CASE b = a
    BY <1>1, <2>1, <2>2 DEF DrainInv, Holding, Unstarted, RowsKeptBut, ExecKeptBut
  <2>3. CASE b # a
    BY <1>1, <2>1, <2>3, DrainKept DEF DrainInv, RowsKeptBut, ExecKeptBut
  <2> QED
    BY <2>2, <2>3
<1>4. RunningIsOwned'
  BY <1>1 DEF Owned, RunningIsOwned, With, Executing, InDrain, RowsKeptBut, ExecKeptBut
<1> QED
  BY <1>2, <1>3, <1>4 DEF Owned

\* A queued row is started.
LEMMA StartStep ==
  ASSUME Owned, Typed, NEW a \in Agents, ClaimUpdate(a), Claimable(Claiming(a))
  PROVE  /\ Owned'
         /\ Claiming(a) \in drain[a].todo /\ Claiming(a) \in RunId
         /\ Written(Claiming(a), "running")
<1> DEFINE c == Claiming(a)
<1>1. DrainInv(a) /\ drain[a].todo \subseteq RunId /\ drain[a].claimed \subseteq RunId
  BY DEF Owned, Typed, Drain
<1>2. c \in drain[a].todo /\ c \in RunId
  BY <1>1, ClaimingIsListed DEF DrainInv, ClaimUpdate, Holding
<1>3. Written(c, "running")
  BY <1>2, TypedParts DEF ClaimUpdate, Claimable, Written, RowsKeptBut, Run
<1>4. /\ drain'[a].pc = "wake" /\ drain'[a].todo = drain[a].todo
      /\ drain'[a].claimed = drain[a].claimed
      /\ \A b \in Agents \ {a} : drain'[b] = drain[b]
  BY TypedParts DEF ClaimUpdate, Drain
<1>5. ExecKeptBut({}) /\ ExecJobsKept /\ lost' = lost /\ recover' = recover
  BY NothingKept DEF ClaimUpdate
<1>6. runs[c].status = "queued" /\ drain[a].pc = "update"
  BY DEF ClaimUpdate, Claimable, Holding
<1>7. c' = c
  BY <1>4, Zenon DEF Claiming, Oldest
<1>8. \A r \in RunId : RowInv(r)'
  <2> HIDE DEF c
  <2> QED
    BY <1>1, <1>2, <1>3, <1>5, <1>6
    DEF Owned, RowInv, DrainInv, Unstarted, Written, RowsKeptBut, ExecKeptBut, ExecJobsKept,
        Terminal
<1>9. ASSUME NEW b \in Agents
      PROVE  DrainInv(b)'
  <2>1. drain[b].todo \subseteq RunId /\ drain[b].claimed \subseteq RunId /\ DrainInv(b)
    BY DEF Typed, Drain, Owned
  <2>2. CASE b = a
    BY <1>2, <1>3, <1>4, <1>5, <1>6, <1>7, <2>1, <2>2
    DEF DrainInv, Unstarted, Written, RowsKeptBut, ExecKeptBut
  <2>3. CASE b # a
    <3>1. c \notin drain[b].todo \cup drain[b].claimed
      BY <1>1, <1>2, <2>1, <2>3 DEF DrainInv
    <3> QED
      BY <1>3, <1>4, <1>5, <2>1, <2>3, <3>1, DrainKept
      DEF DrainInv, Written, RowsKeptBut, ExecKeptBut
  <2> QED
    BY <2>2, <2>3
<1>10. RunningIsOwned'
  BY <1>2, <1>3, <1>4, <1>5
  DEF Owned, RunningIsOwned, With, Executing, InDrain, Written, RowsKeptBut, ExecKeptBut
<1> QED
  BY <1>2, <1>3, <1>8, <1>9, <1>10 DEF Owned

\* The executions of the claimed rows start.
LEMMA LaunchStep ==
  ASSUME Owned, Typed, NEW a \in Agents, DrainLaunch(a)
  PROVE  Owned'
<1>1. /\ \A q \in RunId : job'[Exec(q)].pc \in {job[Exec(q)].pc, "idle"}
      /\ recover'.todo = recover.todo
  BY ReturnJobs DEF DrainLaunch, Holding
<1>2. /\ drain'[a] = NoDrain /\ \A b \in Agents \ {a} : drain'[b] = drain[b]
      /\ drain[a].todo = {} /\ DrainInv(a) /\ drain[a].claimed \subseteq RunId
  BY TypedParts DEF DrainLaunch, Return, Owned, Holding, Drain
<1>3. /\ \A r \in drain[a].claimed : exec'[r].pc = "check" /\ exec'[r].process = "none"
      /\ ExecKeptBut(drain[a].claimed)
  BY <1>2 DEF DrainLaunch, NoExec, ExecKeptBut
<1>4. RowsKeptBut({}) /\ lost' = lost
  BY NothingKept DEF DrainLaunch
<1>5. \A r \in RunId : RowInv(r)'
  BY <1>1, <1>2, <1>3, <1>4
  DEF Owned, RowInv, DrainInv, Unstarted, RowsKeptBut, ExecKeptBut
<1>6. ASSUME NEW b \in Agents
      PROVE  DrainInv(b)'
  <2>1. CASE b = a
    BY <1>2, <2>1 DEF DrainInv, NoDrain
  <2>2. CASE b # a
    <3>1. drain[b].todo \subseteq RunId /\ drain[b].claimed \subseteq RunId /\ DrainInv(b)
      BY DEF Typed, Drain, Owned
    <3>2. \A r \in drain[b].todo \cup drain[b].claimed : r \notin drain[a].claimed
      BY <1>2, <2>2, <3>1 DEF DrainInv
    <3> QED
      BY <1>1, <1>2, <1>3, <1>4, <2>2, <3>1, <3>2, DrainKept
      DEF DrainInv, RowsKeptBut, ExecKeptBut
  <2> QED
    BY <2>1, <2>2
<1>7. RunningIsOwned'
  BY <1>2, <1>3, <1>4
  DEF Owned, RunningIsOwned, With, Executing, InDrain, RowsKeptBut, ExecKeptBut
<1> QED
  BY <1>5, <1>6, <1>7 DEF Owned

\* An execution writes its outcome.
LEMMA OutcomeStep ==
  ASSUME Owned, Typed, NEW s \in RunId, ExecWrite(s)
  PROVE  /\ Owned'
         /\ exec[s].outcome \in Terminal /\ Written(s, exec[s].outcome)
<1>1. exec[s].outcome \in Terminal /\ exec[s].pc = "write" /\ exec[s].process = "none"
  <2>1. exec[s] \in Execution /\ exec[s].pc = "write"
    BY TypedParts DEF ExecWrite
  <2> QED
    BY <2>1 DEF Owned, RowInv, Execution
<1>2. runs[s].status # "none"
  BY <1>1 DEF Owned, RowInv, Unstarted
<1>3. Written(s, exec[s].outcome)
  BY <1>1, <1>2, SetStatusWrites DEF ExecWrite, Written, RowsKeptBut
<1>4. exec'[s].pc = "closing" /\ exec'[s].process = "none" /\ ExecKeptBut({s})
  BY <1>1, TypedParts DEF ExecWrite, ExecKeptBut, Execution
<1>5. /\ job'[Exec(s)].pc = "count"
      /\ \A q \in RunId \ {s} : job'[Exec(q)] = job[Exec(q)]
  <2>1. \A q \in RunId \ {s} : Exec(q) # Exec(s)
    BY DEF Exec
  <2> QED
    BY <2>1, ExecutionThreads, TypedParts DEF ExecWrite, JobAt
<1>6. drain' = drain /\ lost' = lost /\ recover' = recover
  BY DEF ExecWrite
<1>7. \A r \in RunId : RowInv(r)'
  BY <1>1, <1>3, <1>4, <1>5, <1>6
  DEF Owned, RowInv, Unstarted, Written, RowsKeptBut, ExecKeptBut, Terminal
<1>8. \A a \in Agents : DrainInv(a)'
  <2> SUFFICES ASSUME NEW a \in Agents
               PROVE  DrainInv(a)'
    OBVIOUS
  <2>1. drain[a].todo \subseteq RunId /\ drain[a].claimed \subseteq RunId /\ DrainInv(a)
    BY DEF Typed, Drain, Owned
  <2>2. s \notin drain[a].todo \cup drain[a].claimed
    BY <1>1, <2>1 DEF DrainInv
  <2> QED
    BY <1>3, <1>4, <1>6, <2>1, <2>2, DrainKept DEF DrainInv, Written, RowsKeptBut, ExecKeptBut
<1>9. RunningIsOwned'
  BY <1>3, <1>4, <1>6
  DEF Owned, RunningIsOwned, With, Executing, InDrain, Written, RowsKeptBut, ExecKeptBut
<1> QED
  BY <1>1, <1>3, <1>7, <1>8, <1>9 DEF Owned

\* A worker that has counted the running rows goes on to write the status.
LEMMA CountStep ==
  ASSUME Owned, Typed, NEW t \in Workers, FinalizeCount(t)
  PROVE  Owned'
<1>1. /\ RowsKeptBut({}) /\ ExecKeptBut({})
      /\ drain' = drain /\ lost' = lost /\ recover' = recover
  BY NothingKept DEF FinalizeCount
<1>2. \A q \in RunId : \/ job'[Exec(q)].pc = job[Exec(q)].pc
                       \/ job[Exec(q)].pc = "count" /\ job'[Exec(q)].pc = "settle"
  BY ExecutionThreads, TypedParts DEF FinalizeCount, Job
<1>3. \A r \in RunId : RowInv(r)'
  BY <1>1, <1>2 DEF Owned, RowInv, Unstarted, RowsKeptBut, ExecKeptBut
<1>4. \A a \in Agents : DrainInv(a)'
  <2> SUFFICES ASSUME NEW a \in Agents
               PROVE  DrainInv(a)'
    OBVIOUS
  <2>1. drain[a].todo \subseteq RunId /\ drain[a].claimed \subseteq RunId /\ DrainInv(a)
    BY DEF Typed, Drain, Owned
  <2> QED
    BY <1>1, <2>1, DrainKept DEF DrainInv, RowsKeptBut, ExecKeptBut
<1>5. RunningIsOwned'
  BY <1>1 DEF Owned, RunningIsOwned, With, Executing, InDrain, RowsKeptBut, ExecKeptBut
<1> QED
  BY <1>3, <1>4, <1>5 DEF Owned

\* A worker joins a chain; an execution that does so is forgotten.
LEMMA JoinStep ==
  ASSUME Owned, Typed, NEW t \in Workers, job[t].pc \in {"count", "settle"}, StartNext(t),
         RowsKeptBut({}), drain' = drain, lost' = lost, recover' = recover
  PROVE  Owned'
<1>1. /\ job'[t].pc = "lock"
      /\ \A u \in Workers \ {t} : job'[u] = job[u]
  BY TypedParts DEF StartNext, Job
<1>2. CASE t[1] # "exec"
  <2>1. \A q \in RunId : Exec(q) # t
    BY <1>2 DEF Exec
  <2>2. ExecJobsKept /\ ExecKeptBut({})
    BY <1>1, <1>2, <2>1, ExecutionThreads DEF StartNext, ExecJobsKept, ExecKeptBut
  <2> QED
    BY <2>2, QuietStep
<1>3. CASE t[1] = "exec"
  <2>1. PICK s \in RunId : t = Exec(s) /\ t[2] = s
    BY <1>3, ExecutionThreads
  <2>2. exec[s].pc = "closing" /\ exec[s].process = "none" /\ runs[s].status \in Terminal
    BY <2>1 DEF Owned, RowInv
  <2>3. exec'[s].pc = "none" /\ exec'[s].process = "none" /\ ExecKeptBut({s})
    BY <1>3, <2>1, TypedParts DEF StartNext, NoExec, ExecKeptBut
  <2>4. /\ job'[Exec(s)].pc = "lock"
        /\ \A q \in RunId \ {s} : job'[Exec(q)] = job[Exec(q)]
    <3>1. \A q \in RunId \ {s} : Exec(q) # t
      BY <2>1 DEF Exec
    <3> QED
      BY <1>1, <2>1, <3>1, ExecutionThreads
  <2>5. \A r \in RunId : RowInv(r)'
    BY <2>2, <2>3, <2>4 DEF Owned, RowInv, Unstarted, RowsKeptBut, ExecKeptBut, Terminal
  <2>6. \A a \in Agents : DrainInv(a)'
    <3> SUFFICES ASSUME NEW a \in Agents
                 PROVE  DrainInv(a)'
      OBVIOUS
    <3>1. drain[a].todo \subseteq RunId /\ drain[a].claimed \subseteq RunId /\ DrainInv(a)
      BY DEF Typed, Drain, Owned
    <3> QED
      BY <2>3, <3>1, DrainKept DEF DrainInv, RowsKeptBut, ExecKeptBut
  <2>7. RunningIsOwned'
    BY <2>2, <2>3
    DEF Owned, RunningIsOwned, With, Executing, InDrain, RowsKeptBut, ExecKeptBut, Terminal
  <2> QED
    BY <2>5, <2>6, <2>7 DEF Owned
<1> QED
  BY <1>2, <1>3

\* The recovery pass lists the runs that memory has lost, and the quiet ones.
LEMMA ListLostStep ==
  ASSUME Owned, Typed, RecoveryBegin
  PROVE  Owned'
<1>1. PICK quiet \in SUBSET AtWork : recover' = Reap(Orphaned \cup quiet)
  BY DEF RecoveryBegin
<1>2. recover'.todo = Orphaned \cup quiet
  BY <1>1 DEF Reap, NoRecovery
<1>3. \A r \in recover'.todo :
        /\ r \in RunId /\ runs[r].status = "running"
        /\ exec[r].pc \in {"setup", "adapter"} \/ (exec[r].pc = "none" /\ ~InDrain(r))
  BY <1>1, <1>2 DEF AtWork, Orphaned, With, Executing
<1>4. RowsKeptBut({}) /\ ExecKeptBut({}) /\ ExecJobsKept /\ drain' = drain /\ lost' = lost
  BY NothingKept DEF RecoveryBegin
<1>5. \A r \in recover'.todo : r \in lost \/ exec[r].pc \in {"setup", "adapter"}
  BY <1>3 DEF Owned, RunningIsOwned, With, Executing
<1>6. \A r \in RunId : RowInv(r)'
  BY <1>3, <1>4, <1>5 DEF Owned, RowInv, Unstarted, RowsKeptBut, ExecKeptBut, ExecJobsKept
<1>7. \A a \in Agents : DrainInv(a)'
  <2> SUFFICES ASSUME NEW a \in Agents
               PROVE  DrainInv(a)'
    OBVIOUS
  <2>1. drain[a].todo \subseteq RunId /\ drain[a].claimed \subseteq RunId /\ DrainInv(a)
    BY DEF Typed, Drain, Owned
  <2>2. \A r \in drain[a].todo \cup drain[a].claimed : r \notin recover'.todo
    BY <1>3, <2>1 DEF DrainInv, InDrain
  <2> QED
    BY <1>4, <2>1, <2>2, DrainKept DEF DrainInv, RowsKeptBut, ExecKeptBut
<1>8. RunningIsOwned'
  BY <1>4 DEF Owned, RunningIsOwned, With, Executing, InDrain, RowsKeptBut, ExecKeptBut
<1> QED
  BY <1>6, <1>7, <1>8 DEF Owned

\* A row is marked as detached: its child is alive and not of this server,
\* or an adapter of another instance is at work on it.
LEMMA DetachStep ==
  ASSUME Owned, Typed, NEW s \in RunId, ReapDetached(s)
  PROVE  /\ Owned'
         /\ \/ RowsKeptBut({})
            \/ s \in recover.todo /\ runs[s].pid /\ runs[s].status # "none" /\ Written(s, "running")
<1>1. s \in recover.todo /\ runs[s].pid /\ exec[s].process \notin {"none", "registered"}
  BY DEF ReapDetached, Reaping, InMemory, ProcessAlive
<1>2. ~Unstarted(s) /\ (exec[s].pc = "adapter" \/ (exec[s].pc = "none" /\ s \in lost))
  BY <1>1 DEF Owned, RowInv
<1>3. RowsKeptBut({}) \/ Written(s, "running")
  <2>1. CASE s \in recover.warned
    BY <2>1 DEF ReapDetached, RowsKeptBut
  <2>2. CASE s \notin recover.warned
    <3>1. runs' = [runs EXCEPT ![s].status = "running", ![s].detached = TRUE]
      BY <2>2 DEF ReapDetached
    <3> QED
      BY <1>2, <3>1, DetachedWrites DEF Written, RowsKeptBut, Unstarted
  <2> QED
    BY <2>1, <2>2
<1>4. RowsKeptBut({s}) /\ runs'[s].status \in {runs[s].status, "running"}
      /\ runs'[s].agent = runs[s].agent
  BY <1>3 DEF RowsKeptBut, Written
<1>5. ExecKeptBut({}) /\ ExecJobsKept /\ drain' = drain /\ lost' = lost
  BY NothingKept DEF ReapDetached
<1>6. recover'.todo \subseteq recover.todo
  BY TypedParts DEF ReapDetached, Reaped, Recovery
<1>7. \A r \in RunId : RowInv(r)'
  BY <1>2, <1>4, <1>5, <1>6
  DEF Owned, RowInv, Unstarted, RowsKeptBut, ExecKeptBut, ExecJobsKept
<1>8. \A a \in Agents : DrainInv(a)'
  <2> SUFFICES ASSUME NEW a \in Agents
               PROVE  DrainInv(a)'
    OBVIOUS
  <2>1. drain[a].todo \subseteq RunId /\ drain[a].claimed \subseteq RunId /\ DrainInv(a)
    BY DEF Typed, Drain, Owned
  <2>2. s \notin drain[a].todo \cup drain[a].claimed
    BY <1>1, <2>1 DEF DrainInv
  <2> QED
    BY <1>4, <1>5, <1>6, <2>1, <2>2, DrainKept DEF DrainInv, RowsKeptBut, ExecKeptBut
<1>9. RunningIsOwned'
  BY <1>2, <1>4, <1>5
  DEF Owned, RunningIsOwned, With, Executing, InDrain, RowsKeptBut, ExecKeptBut
<1> QED
  BY <1>1, <1>2, <1>3, <1>7, <1>8, <1>9 DEF Owned, Unstarted

\* A restart: the running rows are all that is left.
LEMMA CrashStep ==
  ASSUME Owned, Typed, Crash
  PROVE  Owned'
<1>1. /\ \A r \in RunId : exec'[r].pc = "none"
                          /\ exec'[r].process = IF exec[r].process = "none" THEN "none"
                                                ELSE "detached"
      /\ \A a \in Agents : drain'[a] = NoDrain
      /\ lost' = With("running") /\ recover'.todo \subseteq With("running")
      /\ \A r \in RunId : job'[Exec(r)].pc = "idle"
      /\ RowsKeptBut({})
  <2>1. \A r \in RunId : job'[Exec(r)].pc = "idle"
    BY ExecutionThreads DEF Crash, Idle
  <2>2. recover'.todo \subseteq With("running")
    BY DEF Crash, Reap, NoRecovery
  <2> QED
    BY <2>1, <2>2, NothingKept DEF Crash, NoExec
<1>2. \A r \in RunId : RowInv(r)'
  BY <1>1 DEF Owned, RowInv, Unstarted, RowsKeptBut, With
<1>3. \A a \in Agents : DrainInv(a)'
  BY <1>1 DEF DrainInv, NoDrain
<1>4. RunningIsOwned'
  BY <1>1 DEF RunningIsOwned, With, RowsKeptBut
<1> QED
  BY <1>2, <1>3, <1>4 DEF Owned

\* A detached child exits.
LEMMA ExitStep ==
  ASSUME Owned, Typed, NEW s \in RunId, ProcessExit(s)
  PROVE  Owned'
<1>1. /\ exec'[s].process = "none" /\ ExecKeptBut({s})
      /\ exec'[s].pc = exec[s].pc /\ exec[s].process = "detached"
  BY TypedParts DEF ProcessExit, ExecKeptBut, Execution
<1>2. RowsKeptBut({}) /\ ExecJobsKept /\ drain' = drain /\ lost' = lost /\ recover' = recover
  BY NothingKept DEF ProcessExit
<1>3. \A r \in RunId : RowInv(r)'
  BY <1>1, <1>2 DEF Owned, RowInv, Unstarted, RowsKeptBut, ExecKeptBut, ExecJobsKept
<1>4. \A a \in Agents : DrainInv(a)'
  <2> SUFFICES ASSUME NEW a \in Agents
               PROVE  DrainInv(a)'
    OBVIOUS
  <2>1. drain[a].todo \subseteq RunId /\ drain[a].claimed \subseteq RunId /\ DrainInv(a)
    BY DEF Typed, Drain, Owned
  <2> QED
    BY <1>1, <1>2, <2>1, DrainKept DEF DrainInv, RowsKeptBut, ExecKeptBut
<1>5. RunningIsOwned'
  BY <1>1, <1>2
  DEF Owned, RunningIsOwned, With, Executing, InDrain, RowsKeptBut, ExecKeptBut
<1> QED
  BY <1>3, <1>4, <1>5 DEF Owned

-----------------------------------------------------------------------------
(* Every step, row by row.                                                  *)

\* A step leaves the rows alone, creates the next one, settles one, starts
\* the queued row that a drain is claiming, or marks a row as detached.
RowChange ==
  \/ RowsKeptBut({})
  \/ \E n \in RunId : Created(n)
  \/ \E s \in RunId : \E status \in Terminal : Written(s, status)
  \/ \E a \in Agents : /\ ClaimUpdate(a) /\ Claimable(Claiming(a))
                       /\ Claiming(a) \in drain[a].todo /\ Claiming(a) \in RunId
                       /\ Written(Claiming(a), "running")
  \/ \E s \in RunId : s \in recover.todo /\ runs[s].pid /\ Written(s, "running")

LEMMA NewRowIsCreated ==
  ASSUME Typed, RowsInOrder, With("none") # {}, NEW a \in Agents, NEW retry \in BOOLEAN,
         runs' = [runs EXCEPT ![NewRun] = QueuedRow(a, retry)]
  PROVE  NewRun \in RunId /\ Created(NewRun)
<1>1. NewRun \in RunId
  BY NewRunIsFree
<1>2. runs'[NewRun] = QueuedRow(a, retry) /\ \A q \in RunId \ {NewRun} : runs'[q] = runs[q]
  BY <1>1, TypedParts
<1> QED
  BY <1>1, <1>2, NewRunIsFree DEF Created, RowsKeptBut, QueuedRow

LEMMA SetStatusIsWritten ==
  ASSUME Typed, NEW s \in RunId, runs[s].status # "none", NEW status \in Terminal,
         runs' = SetStatus(s, status)
  PROVE  Written(s, status)
  BY SetStatusWrites DEF Written, RowsKeptBut

LEMMA KilledKeeps ==
  ASSUME Typed, NEW s \in RunId, exec' = Killed(s)
  PROVE  \A q \in RunId : /\ exec'[q].pc = exec[q].pc
                          /\ \/ exec'[q].process = exec[q].process
                             \/ exec[q].process = "registered" /\ exec'[q].process = "signalled"
  BY TypedParts DEF Killed, Execution

LEMMA OwnedStep == SchedInv /\ [Next]_vars => Owned' /\ RowChange
<1> SUFFICES ASSUME SchedInv, [Next]_vars PROVE Owned' /\ RowChange
  OBVIOUS
<1>0. Typed /\ ListedRowsExist /\ RowsInOrder /\ Owned
  BY DEF SchedInv, Owned
<1> USE <1>0
<1>1. ASSUME NEW a \in Agents, EnqueueCheck(a)
      PROVE  Owned' /\ RowChange
  BY <1>1, NothingKept, QuietStep DEF EnqueueCheck, RowChange
<1>2. ASSUME NEW a \in Agents, EnqueueInsert(a)
      PROVE  Owned' /\ RowChange
  <2>1. CASE With("none") = {}
    BY <1>2, <2>1, NothingKept, QuietStep DEF EnqueueInsert, RowChange
  <2>2. CASE With("none") # {}
    <3>1. NewRun \in RunId /\ Created(NewRun)
      BY <1>2, <2>2, NewRowIsCreated DEF EnqueueInsert
    <3> QED
      BY <1>2, <3>1, NothingKept, CreateStep DEF EnqueueInsert, RowChange
  <2> QED
    BY <2>1, <2>2
<1>3. ASSUME NEW a \in Agents, DrainNothing(a)
      PROVE  Owned' /\ RowChange
  BY <1>3, NothingKept, ReturnStep DEF DrainNothing, RowChange
<1>4. ASSUME NEW a \in Agents, DrainList(a)
      PROVE  Owned' /\ RowChange
  BY <1>4, NothingKept, ListStep DEF DrainList, RowChange
<1>5. ASSUME NEW a \in Agents, ClaimRefused(a)
      PROVE  Owned' /\ RowChange
  <2>1. ExecJobsKept
    BY <1>5, OtherJobs, ExecutionThreads DEF ClaimRefused
  <2> QED
    BY <1>5, <2>1, NothingKept, TurnStep DEF ClaimRefused, RowChange
<1>6. ASSUME NEW a \in Agents, ClaimAllowed(a)
      PROVE  Owned' /\ RowChange
  BY <1>6, NothingKept, TurnStep DEF ClaimAllowed, RowChange
<1>7. ASSUME NEW a \in Agents, ClaimCancelled(a)
      PROVE  Owned' /\ RowChange
  <2>1. drain[a].pc = "cancel" /\ NextClaim(a, {})
    BY <1>7 DEF ClaimCancelled, Holding
  <2> QED
    BY <1>7, <2>1, NothingKept, DropStep DEF ClaimCancelled, RowChange
<1>8. ASSUME NEW a \in Agents, ClaimUpdate(a)
      PROVE  Owned' /\ RowChange
  <2>1. CASE Claimable(Claiming(a))
    BY <1>8, <2>1, StartStep DEF RowChange
  <2>2. CASE ~Claimable(Claiming(a))
    <3>1. drain[a].pc = "update" /\ NextClaim(a, {})
      BY <1>8, <2>2 DEF ClaimUpdate, Holding
    <3> QED
      BY <1>8, <2>2, <3>1, NothingKept, DropStep DEF ClaimUpdate, RowChange
  <2> QED
    BY <2>1, <2>2
<1>9. ASSUME NEW a \in Agents, ClaimWake(a)
      PROVE  Owned' /\ RowChange
  <2>1. drain[a].pc = "wake" /\ NextClaim(a, {Claiming(a)})
    BY <1>9 DEF ClaimWake, Holding
  <2>2. RowsKeptBut({})
    BY <1>9, TypedParts DEF ClaimWake, RowsKeptBut, Run
  <2> QED
    BY <1>9, <2>1, <2>2, NothingKept, DropStep DEF ClaimWake, RowChange
<1>10. ASSUME NEW a \in Agents, DrainLaunch(a)
      PROVE  Owned' /\ RowChange
  BY <1>10, NothingKept, LaunchStep DEF DrainLaunch, RowChange
<1>11. ASSUME NEW a \in Agents, Pause(a)
      PROVE  Owned' /\ RowChange
  BY <1>11, NothingKept, QuietStep DEF Pause, RowChange
<1>12. ASSUME NEW a \in Agents, PauseList(a)
      PROVE  Owned' /\ RowChange
  BY <1>12, NothingKept, QuietStep DEF PauseList, RowChange
<1>13. ASSUME NEW a \in Agents, PauseCancel(a)
      PROVE  Owned' /\ RowChange
  <2>1. PICK s \in pauser[a].todo : runs' = SetStatus(s, "cancelled") /\ exec' = Killed(s)
    BY <1>13 DEF PauseCancel
  <2>2. s \in RunId /\ runs[s].status # "none"
    BY <2>1, TypedParts DEF ListedRowsExist, Pass
  <2>3. Written(s, "cancelled")
    BY <2>1, <2>2, SetStatusIsWritten DEF Terminal
  <2> QED
    BY <1>13, <2>1, <2>2, <2>3, KilledKeeps, NothingKept, SettleStep
    DEF PauseCancel, RowChange, Terminal
<1>14. ASSUME NEW a \in Agents, PauseEnd(a)
      PROVE  Owned' /\ RowChange
  BY <1>14, NothingKept, QuietStep DEF PauseEnd, RowChange
<1>15. ASSUME NEW a \in Agents, ResumeAgent(a)
      PROVE  Owned' /\ RowChange
  BY <1>15, NothingKept, QuietStep DEF ResumeAgent, RowChange
<1>16. ASSUME NEW r \in RunId, ExecCheck(r)
      PROVE  Owned' /\ RowChange
  <2>1. exec[r] \in Execution /\ RowInv(r)
    BY TypedParts DEF Owned
  <2>2. /\ exec[r].pc \notin {"none", "closing"} /\ exec'[r].pc # "closing"
        /\ exec'[r].process # "none" => exec'[r].pc = "adapter" /\ exec'[r].process # "detached"
        /\ exec'[r].pc = "none" => runs[r].status # "running"
        /\ ExecKeptBut({r})
    BY <1>16, <2>1, TypedParts DEF ExecCheck, ExecKeptBut, Execution, RowInv, MayExecute, Live
  <2>3. RowsKeptBut({})
    BY <1>16, NothingKept DEF ExecCheck
  <2> QED
    BY <1>16, <2>2, <2>3, NothingKept, ExecuteStep DEF ExecCheck, RowChange
<1>17. ASSUME NEW r \in RunId, ExecSetup(r)
      PROVE  Owned' /\ RowChange
  <2>1. exec[r] \in Execution /\ RowInv(r)
    BY TypedParts DEF Owned
  <2>2. /\ exec[r].pc \notin {"none", "closing"} /\ exec'[r].pc # "closing"
        /\ exec'[r].process # "none" => exec'[r].pc = "adapter" /\ exec'[r].process # "detached"
        /\ exec'[r].pc = "none" => runs[r].status # "running"
        /\ ExecKeptBut({r})
    BY <1>17, <2>1, TypedParts DEF ExecSetup, ExecKeptBut, Execution, RowInv
  <2>3. RowsKeptBut({})
    BY <1>17, NothingKept DEF ExecSetup
  <2> QED
    BY <1>17, <2>2, <2>3, NothingKept, ExecuteStep DEF ExecSetup, RowChange
<1>18. ASSUME NEW r \in RunId, ExecLaunch(r)
      PROVE  Owned' /\ RowChange
  <2>1. exec[r] \in Execution /\ RowInv(r)
    BY TypedParts DEF Owned
  <2>2. /\ exec[r].pc \notin {"none", "closing"} /\ exec'[r].pc # "closing"
        /\ exec'[r].process # "none" => exec'[r].pc = "adapter" /\ exec'[r].process # "detached"
        /\ exec'[r].pc = "none" => runs[r].status # "running"
        /\ ExecKeptBut({r})
    BY <1>18, <2>1, TypedParts DEF ExecLaunch, ExecKeptBut, Execution, RowInv
  <2>3. RowsKeptBut({})
    BY <1>18, NothingKept, TypedParts DEF ExecLaunch, RowsKeptBut, Run
  <2> QED
    BY <1>18, <2>2, <2>3, NothingKept, ExecuteStep DEF ExecLaunch, RowChange
<1>19. ASSUME NEW r \in RunId, AdapterReturn(r)
      PROVE  Owned' /\ RowChange
  <2>1. exec[r] \in Execution /\ RowInv(r)
    BY TypedParts DEF Owned
  <2>2. /\ exec[r].pc \notin {"none", "closing"} /\ exec'[r].pc # "closing"
        /\ exec'[r].process # "none" => exec'[r].pc = "adapter" /\ exec'[r].process # "detached"
        /\ exec'[r].pc = "none" => runs[r].status # "running"
        /\ ExecKeptBut({r})
    BY <1>19, <2>1, TypedParts DEF AdapterReturn, ExecKeptBut, Execution, RowInv, Finished
  <2>3. RowsKeptBut({})
    BY <1>19, NothingKept DEF AdapterReturn
  <2> QED
    BY <1>19, <2>2, <2>3, NothingKept, ExecuteStep DEF AdapterReturn, RowChange
<1>20. ASSUME NEW r \in RunId, ExecThrow(r)
      PROVE  Owned' /\ RowChange
  <2>1. exec[r] \in Execution /\ RowInv(r)
    BY TypedParts DEF Owned
  <2>2. /\ exec[r].pc \notin {"none", "closing"} /\ exec'[r].pc # "closing"
        /\ exec'[r].process # "none" => exec'[r].pc = "adapter" /\ exec'[r].process # "detached"
        /\ exec'[r].pc = "none" => runs[r].status # "running"
        /\ ExecKeptBut({r})
    BY <1>20, <2>1, TypedParts DEF ExecThrow, ExecKeptBut, Execution, RowInv, Finished
  <2>3. RowsKeptBut({})
    BY <1>20, NothingKept DEF ExecThrow
  <2> QED
    BY <1>20, <2>2, <2>3, NothingKept, ExecuteStep DEF ExecThrow, RowChange
<1>21. ASSUME NEW r \in RunId, ExecWrite(r)
      PROVE  Owned' /\ RowChange
  BY <1>21, OutcomeStep DEF RowChange
<1>22. ASSUME NEW r \in RunId, ApiCancel(r)
      PROVE  Owned' /\ RowChange
  <2>1. ExecJobsKept
    BY <1>22, OtherJobs, ExecutionThreads DEF ApiCancel
  <2> QED
    BY <1>22, <2>1, NothingKept, QuietStep DEF ApiCancel, RowChange
<1>23. ASSUME NEW r \in RunId, ProcessExit(r)
      PROVE  Owned' /\ RowChange
  BY <1>23, NothingKept, ExitStep DEF ProcessExit, RowChange
<1>24. ASSUME NEW t \in Workers, FinalizePaused(t)
      PROVE  Owned' /\ RowChange
  BY <1>24, NothingKept, JoinStep DEF FinalizePaused, RowChange
<1>25. ASSUME NEW t \in Workers, FinalizeCount(t)
      PROVE  Owned' /\ RowChange
  BY <1>25, NothingKept, CountStep DEF FinalizeCount, RowChange
<1>26. ASSUME NEW t \in Workers, FinalizeWrite(t)
      PROVE  Owned' /\ RowChange
  BY <1>26, NothingKept, JoinStep DEF FinalizeWrite, RowChange
<1>27. ASSUME NEW t \in Cancellers, CancelRead(t)
      PROVE  Owned' /\ RowChange
  <2>1. ExecJobsKept
    BY <1>27, OtherJobs DEF CancelRead
  <2> QED
    BY <1>27, <2>1, NothingKept, QuietStep DEF CancelRead, RowChange
<1>28. ASSUME NEW t \in Cancellers, CancelWrite(t)
      PROVE  Owned' /\ RowChange
  <2>1. job[t].run \in RunId /\ runs[job[t].run].status # "none"
    BY <1>28, ExecutionThreads DEF CancelWrite, ListedRowsExist
  <2>2. Written(job[t].run, "cancelled")
    BY <1>28, <2>1, SetStatusIsWritten DEF CancelWrite, Terminal
  <2>3. ExecJobsKept
    BY <1>28, OtherJobs DEF CancelWrite
  <2> QED
    BY <1>28, <2>1, <2>2, <2>3, KilledKeeps, SettleStep DEF CancelWrite, RowChange, Terminal
<1>29. ASSUME BudgetStop
      PROVE  Owned' /\ RowChange
  BY <1>29, NothingKept, QuietStep DEF BudgetStop, RowChange
<1>30. ASSUME BudgetList
      PROVE  Owned' /\ RowChange
  BY <1>30, NothingKept, QuietStep DEF BudgetList, RowChange
<1>31. ASSUME BudgetCancel
      PROVE  Owned' /\ RowChange
  <2>1. ExecJobsKept
    BY <1>31, OtherJobs, ExecutionThreads DEF BudgetCancel
  <2> QED
    BY <1>31, <2>1, NothingKept, QuietStep DEF BudgetCancel, RowChange
<1>32. ASSUME BudgetEnd
      PROVE  Owned' /\ RowChange
  BY <1>32, NothingKept, QuietStep DEF BudgetEnd, RowChange
<1>33. ASSUME BudgetRaised
      PROVE  Owned' /\ RowChange
  BY <1>33, NothingKept, QuietStep DEF BudgetRaised, RowChange
<1>34. ASSUME RecoveryBegin
      PROVE  Owned' /\ RowChange
  BY <1>34, NothingKept, ListLostStep DEF RecoveryBegin, RowChange
<1>35. ASSUME Retry
      PROVE  Owned' /\ RowChange
  <2>1. job[Reaper].run \in RunId /\ AgentOf(Reaper) \in Agents
    BY <1>35, ExecutionThreads DEF Retry, ListedRowsExist, AgentOf, Owned, RowInv
  <2>2. ExecJobsKept
    BY <1>35, OtherJobs DEF Retry
  <2>3. CASE With("none") = {}
    BY <1>35, <2>2, <2>3, NothingKept, QuietStep DEF Retry, RowChange
  <2>4. CASE With("none") # {}
    <3>1. NewRun \in RunId /\ Created(NewRun)
      BY <1>35, <2>1, <2>4, NewRowIsCreated DEF Retry
    <3> QED
      BY <1>35, <2>2, <3>1, NothingKept, CreateStep DEF Retry, RowChange
  <2> QED
    BY <2>3, <2>4
<1>36. ASSUME ReapEnd
      PROVE  Owned' /\ RowChange
  <2>1. recover'.todo \subseteq recover.todo
    BY <1>36, TypedParts DEF ReapEnd, NoRecovery
  <2> QED
    BY <1>36, <2>1, NothingKept, QuietStep DEF ReapEnd, RowChange
<1>37. ASSUME ResumeQueued
      PROVE  Owned' /\ RowChange
  <2>1. recover'.todo \subseteq recover.todo
    BY <1>37, TypedParts DEF ResumeQueued, Recovery
  <2> QED
    BY <1>37, <2>1, NothingKept, QuietStep DEF ResumeQueued, RowChange
<1>38. ASSUME RecoveryEnd
      PROVE  Owned' /\ RowChange
  <2>1. recover'.todo \subseteq recover.todo
    BY <1>38, TypedParts DEF RecoveryEnd, NoRecovery
  <2> QED
    BY <1>38, <2>1, NothingKept, QuietStep DEF RecoveryEnd, RowChange
<1>39. ASSUME NEW r \in RunId, ReapSkip(r)
      PROVE  Owned' /\ RowChange
  <2>1. recover'.todo \subseteq recover.todo
    BY <1>39, TypedParts DEF ReapSkip, Reaped, Recovery
  <2> QED
    BY <1>39, <2>1, NothingKept, QuietStep DEF ReapSkip, RowChange
<1>40. ASSUME NEW r \in RunId, ReapDetached(r)
      PROVE  Owned' /\ RowChange
  BY <1>40, DetachStep DEF RowChange
<1>41. ASSUME NEW r \in RunId, ReapLost(r)
      PROVE  Owned' /\ RowChange
  <2>1. r \in recover.todo
    BY <1>41 DEF ReapLost, Reaping
  <2>2. Written(r, "failed")
    BY <1>41, <2>1, SetStatusIsWritten DEF ReapLost, Owned, RowInv, Unstarted, Terminal
  <2>3. recover'.todo \subseteq recover.todo
    BY <1>41, TypedParts DEF ReapLost, Reaped, Recovery
  <2>4. ExecJobsKept
    BY <1>41, OtherJobs DEF ReapLost
  <2> QED
    BY <1>41, <2>2, <2>3, <2>4, NothingKept, SettleStep
    DEF ReapLost, RowChange, Terminal, ExecKeptBut
<1>42. ASSUME Crash
      PROVE  Owned' /\ RowChange
  BY <1>42, NothingKept, CrashStep DEF Crash, RowChange
<1>43. ASSUME UNCHANGED vars
      PROVE  Owned' /\ RowChange
  BY <1>43, NothingKept, QuietStep DEF vars, RowChange
<1> QED
  BY <1>1, <1>2, <1>3, <1>4, <1>5, <1>6, <1>7, <1>8, <1>9, <1>10, <1>11, <1>12, <1>13,
     <1>14, <1>15, <1>16, <1>17, <1>18, <1>19, <1>20, <1>21, <1>22, <1>23, <1>24, <1>25,
     <1>26, <1>27, <1>28, <1>29, <1>30, <1>31, <1>32, <1>33, <1>34, <1>35, <1>36, <1>37,
     <1>38, <1>39, <1>40, <1>41, <1>42, <1>43
  DEF Next, DrainStep, ExecStep, FinalizeStep, CancelStep, PauseStep, BudgetStep, RecoveryStep

\* Rows stay, and stay in order.
LEMMA RowsStay ==
  ASSUME RowsInOrder, RowChange
  PROVE  /\ RowsInOrder'
         /\ \A r \in RunId : runs[r].status # "none" => runs'[r].status # "none"
<1>1. /\ \A r \in RunId : runs[r].status # "none" => runs'[r].status # "none"
      /\ \A r \in RunId : runs'[r].status # "none" =>
           \/ runs[r].status # "none"
           \/ \A q \in RunId : q < r => runs[q].status # "none"
  BY DEF RowChange, Created, Written, RowsKeptBut, Terminal
<1>2. RowsInOrder'
  BY <1>1 DEF RowsInOrder
<1> QED
  BY <1>1, <1>2

\* The runs that the workers and the passes have after a step were theirs
\* before it, or have a row.
JobsListed ==
  \A t \in Workers :
    \/ job'[t].pc = "idle"
    \/ job[t].pc # "idle" /\ job'[t].run = job[t].run
    \/ job'[t].run \in RunId /\ runs[job'[t].run].status # "none"

PassesListed ==
  /\ \A a \in Agents : \A r \in pauser'[a].todo :
       r \in pauser[a].todo \/ runs[r].status # "none"
  /\ \A r \in stop'.todo : r \in stop.todo \/ runs[r].status # "none"

LEMMA UnwrittenLists ==
  /\ UNCHANGED job => JobsListed
  /\ UNCHANGED <<pauser, stop>> => PassesListed
  BY DEF JobsListed, PassesListed

LEMMA JobIsListed ==
  ASSUME Typed, NEW t \in Workers, NEW s \in RunId, runs[s].status # "none", NEW pc,
         job' = [job EXCEPT ![t] = JobAt(pc, s)]
  PROVE  JobsListed
  BY TypedParts DEF JobsListed, JobAt

LEMMA ListedStep == SchedInv /\ [Next]_vars => JobsListed /\ PassesListed
<1> SUFFICES ASSUME SchedInv, [Next]_vars PROVE JobsListed /\ PassesListed
  OBVIOUS
<1>0. /\ Typed /\ ListedRowsExist
      /\ job \in [Workers -> Job] /\ pauser \in [Agents -> Pass] /\ stop \in Pass
  BY TypedParts DEF SchedInv
<1> USE <1>0
<1>1. ASSUME NEW a \in Agents, EnqueueCheck(a)
      PROVE  JobsListed /\ PassesListed
  BY <1>1, UnwrittenLists DEF EnqueueCheck
<1>2. ASSUME NEW a \in Agents, EnqueueInsert(a)
      PROVE  JobsListed /\ PassesListed
  BY <1>2, UnwrittenLists DEF EnqueueInsert
<1>3. ASSUME NEW a \in Agents, DrainNothing(a)
      PROVE  JobsListed /\ PassesListed
  <2>1. JobsListed
    BY <1>3 DEF DrainNothing, Return, JobsListed, Idle
  <2> QED
    BY <1>3, <2>1, UnwrittenLists DEF DrainNothing
<1>4. ASSUME NEW a \in Agents, DrainList(a)
      PROVE  JobsListed /\ PassesListed
  BY <1>4, UnwrittenLists DEF DrainList
<1>5. ASSUME NEW a \in Agents, ClaimRefused(a)
      PROVE  JobsListed /\ PassesListed
  <2>1. JobsListed
    <3>1. Claiming(a) \in RunId /\ runs[Claiming(a)].status # "none"
      BY <1>5, ClaimingIsListed DEF ClaimRefused, SchedInv, DrainInv
    <3> QED
      BY <1>5, <3>1, JobIsListed, ExecutionThreads DEF ClaimRefused
  <2> QED
    BY <1>5, <2>1, UnwrittenLists DEF ClaimRefused
<1>6. ASSUME NEW a \in Agents, ClaimAllowed(a)
      PROVE  JobsListed /\ PassesListed
  BY <1>6, UnwrittenLists DEF ClaimAllowed
<1>7. ASSUME NEW a \in Agents, ClaimCancelled(a)
      PROVE  JobsListed /\ PassesListed
  BY <1>7, UnwrittenLists DEF ClaimCancelled
<1>8. ASSUME NEW a \in Agents, ClaimUpdate(a)
      PROVE  JobsListed /\ PassesListed
  BY <1>8, UnwrittenLists DEF ClaimUpdate
<1>9. ASSUME NEW a \in Agents, ClaimWake(a)
      PROVE  JobsListed /\ PassesListed
  BY <1>9, UnwrittenLists DEF ClaimWake
<1>10. ASSUME NEW a \in Agents, DrainLaunch(a)
      PROVE  JobsListed /\ PassesListed
  <2>1. JobsListed
    BY <1>10 DEF DrainLaunch, Return, JobsListed, Idle
  <2> QED
    BY <1>10, <2>1, UnwrittenLists DEF DrainLaunch
<1>11. ASSUME NEW a \in Agents, Pause(a)
      PROVE  JobsListed /\ PassesListed
  <2>1. PassesListed
    BY <1>11 DEF Pause, PassesListed, Pass
  <2> QED
    BY <1>11, <2>1, UnwrittenLists DEF Pause
<1>12. ASSUME NEW a \in Agents, PauseList(a)
      PROVE  JobsListed /\ PassesListed
  <2>1. PassesListed
    BY <1>12 DEF PauseList, PassesListed, Pass, Active, With, Live
  <2> QED
    BY <1>12, <2>1, UnwrittenLists DEF PauseList
<1>13. ASSUME NEW a \in Agents, PauseCancel(a)
      PROVE  JobsListed /\ PassesListed
  <2>1. PassesListed
    BY <1>13 DEF PauseCancel, PassesListed, Pass
  <2> QED
    BY <1>13, <2>1, UnwrittenLists DEF PauseCancel
<1>14. ASSUME NEW a \in Agents, PauseEnd(a)
      PROVE  JobsListed /\ PassesListed
  <2>1. PassesListed
    BY <1>14 DEF PauseEnd, PassesListed, Pass, NoPass
  <2> QED
    BY <1>14, <2>1, UnwrittenLists DEF PauseEnd
<1>15. ASSUME NEW a \in Agents, ResumeAgent(a)
      PROVE  JobsListed /\ PassesListed
  BY <1>15, UnwrittenLists DEF ResumeAgent
<1>16. ASSUME NEW r \in RunId, ExecCheck(r)
      PROVE  JobsListed /\ PassesListed
  BY <1>16, UnwrittenLists DEF ExecCheck
<1>17. ASSUME NEW r \in RunId, ExecSetup(r)
      PROVE  JobsListed /\ PassesListed
  BY <1>17, UnwrittenLists DEF ExecSetup
<1>18. ASSUME NEW r \in RunId, ExecLaunch(r)
      PROVE  JobsListed /\ PassesListed
  BY <1>18, UnwrittenLists DEF ExecLaunch
<1>19. ASSUME NEW r \in RunId, AdapterReturn(r)
      PROVE  JobsListed /\ PassesListed
  BY <1>19, UnwrittenLists DEF AdapterReturn
<1>20. ASSUME NEW r \in RunId, ExecThrow(r)
      PROVE  JobsListed /\ PassesListed
  BY <1>20, UnwrittenLists DEF ExecThrow
<1>21. ASSUME NEW r \in RunId, ExecWrite(r)
      PROVE  JobsListed /\ PassesListed
  <2>1. JobsListed
    <3>1. runs[r].status # "none"
      BY <1>21 DEF ExecWrite, SchedInv, RowInv, Unstarted
    <3> QED
      BY <1>21, <3>1, JobIsListed, ExecutionThreads DEF ExecWrite
  <2> QED
    BY <1>21, <2>1, UnwrittenLists DEF ExecWrite
<1>22. ASSUME NEW r \in RunId, ApiCancel(r)
      PROVE  JobsListed /\ PassesListed
  <2>1. JobsListed
    <3>1. runs[r].status # "none"
      BY <1>22 DEF ApiCancel, Active, With
    <3> QED
      BY <1>22, <3>1, JobIsListed, ExecutionThreads DEF ApiCancel
  <2> QED
    BY <1>22, <2>1, UnwrittenLists DEF ApiCancel
<1>23. ASSUME NEW r \in RunId, ProcessExit(r)
      PROVE  JobsListed /\ PassesListed
  BY <1>23, UnwrittenLists DEF ProcessExit
<1>24. ASSUME NEW t \in Workers, FinalizePaused(t)
      PROVE  JobsListed /\ PassesListed
  <2>1. JobsListed
    BY <1>24 DEF FinalizePaused, StartNext, JobsListed, Job
  <2> QED
    BY <1>24, <2>1, UnwrittenLists DEF FinalizePaused
<1>25. ASSUME NEW t \in Workers, FinalizeCount(t)
      PROVE  JobsListed /\ PassesListed
  <2>1. JobsListed
    BY <1>25 DEF FinalizeCount, JobsListed, Job
  <2> QED
    BY <1>25, <2>1, UnwrittenLists DEF FinalizeCount
<1>26. ASSUME NEW t \in Workers, FinalizeWrite(t)
      PROVE  JobsListed /\ PassesListed
  <2>1. JobsListed
    BY <1>26 DEF FinalizeWrite, StartNext, JobsListed, Job
  <2> QED
    BY <1>26, <2>1, UnwrittenLists DEF FinalizeWrite
<1>27. ASSUME NEW t \in Cancellers, CancelRead(t)
      PROVE  JobsListed /\ PassesListed
  <2>1. JobsListed
    <3>1. t \in Workers
      BY ExecutionThreads
    <3> QED
      BY <1>27, <3>1 DEF CancelRead, JobsListed, JobAt, Idle
  <2> QED
    BY <1>27, <2>1, UnwrittenLists DEF CancelRead
<1>28. ASSUME NEW t \in Cancellers, CancelWrite(t)
      PROVE  JobsListed /\ PassesListed
  <2>1. JobsListed
    <3>1. t \in Workers
      BY ExecutionThreads
    <3> QED
      BY <1>28, <3>1 DEF CancelWrite, JobsListed, Job
  <2> QED
    BY <1>28, <2>1, UnwrittenLists DEF CancelWrite
<1>29. ASSUME BudgetStop
      PROVE  JobsListed /\ PassesListed
  <2>1. PassesListed
    BY <1>29 DEF BudgetStop, PassesListed, Pass
  <2> QED
    BY <1>29, <2>1, UnwrittenLists DEF BudgetStop
<1>30. ASSUME BudgetList
      PROVE  JobsListed /\ PassesListed
  <2>1. PassesListed
    BY <1>30 DEF BudgetList, PassesListed, Pass, Active, With, Live
  <2> QED
    BY <1>30, <2>1, UnwrittenLists DEF BudgetList
<1>31. ASSUME BudgetCancel
      PROVE  JobsListed /\ PassesListed
  <2>1. PICK s \in stop.todo : /\ stop' = [stop EXCEPT !.todo = @ \ {s}]
                             /\ job' = [job EXCEPT ![Budget] = JobAt("read", s)]
    BY <1>31 DEF BudgetCancel
  <2>2. s \in RunId /\ runs[s].status # "none"
    BY DEF ListedRowsExist, Pass
  <2>3. JobsListed
    BY <2>1, <2>2, JobIsListed, ExecutionThreads
  <2>4. PassesListed
    BY <1>31, <2>1 DEF BudgetCancel, PassesListed, Pass
  <2> QED
    BY <2>3, <2>4
<1>32. ASSUME BudgetEnd
      PROVE  JobsListed /\ PassesListed
  <2>1. PassesListed
    BY <1>32 DEF BudgetEnd, PassesListed, Pass, NoPass
  <2> QED
    BY <1>32, <2>1, UnwrittenLists DEF BudgetEnd
<1>33. ASSUME BudgetRaised
      PROVE  JobsListed /\ PassesListed
  BY <1>33, UnwrittenLists DEF BudgetRaised
<1>34. ASSUME RecoveryBegin
      PROVE  JobsListed /\ PassesListed
  BY <1>34, UnwrittenLists DEF RecoveryBegin
<1>35. ASSUME Retry
      PROVE  JobsListed /\ PassesListed
  <2>1. JobsListed
    BY <1>35, ExecutionThreads DEF Retry, JobsListed, Job
  <2> QED
    BY <1>35, <2>1, UnwrittenLists DEF Retry
<1>36. ASSUME ReapEnd
      PROVE  JobsListed /\ PassesListed
  BY <1>36, UnwrittenLists DEF ReapEnd
<1>37. ASSUME ResumeQueued
      PROVE  JobsListed /\ PassesListed
  BY <1>37, UnwrittenLists DEF ResumeQueued
<1>38. ASSUME RecoveryEnd
      PROVE  JobsListed /\ PassesListed
  BY <1>38, UnwrittenLists DEF RecoveryEnd
<1>39. ASSUME NEW r \in RunId, ReapSkip(r)
      PROVE  JobsListed /\ PassesListed
  BY <1>39, UnwrittenLists DEF ReapSkip
<1>40. ASSUME NEW r \in RunId, ReapDetached(r)
      PROVE  JobsListed /\ PassesListed
  BY <1>40, UnwrittenLists DEF ReapDetached
<1>41. ASSUME NEW r \in RunId, ReapLost(r)
      PROVE  JobsListed /\ PassesListed
  <2>1. JobsListed
    <3>1. runs[r].status # "none"
      BY <1>41 DEF ReapLost, Reaping, SchedInv, RowInv, Unstarted
    <3> QED
      BY <1>41, <3>1, JobIsListed, ExecutionThreads DEF ReapLost
  <2> QED
    BY <1>41, <2>1, UnwrittenLists DEF ReapLost
<1>42. ASSUME Crash
      PROVE  JobsListed /\ PassesListed
  BY <1>42 DEF Crash, JobsListed, PassesListed, Idle, NoPass
<1>43. ASSUME UNCHANGED vars
      PROVE  JobsListed /\ PassesListed
  BY <1>43, UnwrittenLists DEF vars
<1> QED
  BY <1>1, <1>2, <1>3, <1>4, <1>5, <1>6, <1>7, <1>8, <1>9, <1>10, <1>11, <1>12, <1>13,
     <1>14, <1>15, <1>16, <1>17, <1>18, <1>19, <1>20, <1>21, <1>22, <1>23, <1>24, <1>25,
     <1>26, <1>27, <1>28, <1>29, <1>30, <1>31, <1>32, <1>33, <1>34, <1>35, <1>36, <1>37,
     <1>38, <1>39, <1>40, <1>41, <1>42, <1>43
  DEF Next, DrainStep, ExecStep, FinalizeStep, CancelStep, PauseStep, BudgetStep, RecoveryStep

LEMMA InitHolds == Init => SchedInv
<1> SUFFICES ASSUME Init PROVE SchedInv
  OBVIOUS
<1>1. /\ \A r \in RunId : runs[r] = NoRow /\ exec[r] = NoExec
      /\ \A t \in Workers : job[t] = Idle
      /\ \A a \in Agents : drain[a] = NoDrain /\ pauser[a] = NoPass
      /\ stop = NoPass /\ recover = NoRecovery /\ lost = {}
  BY DEF Init
<1>2. Typed
  <2>1. runs \in [RunId -> Run] /\ exec \in [RunId -> Execution]
    BY NullTypes DEF Init
  <2>2. drain \in [Agents -> Drain] /\ job \in [Workers -> Job] /\ pauser \in [Agents -> Pass]
    BY NullTypes DEF Init
  <2>3. chain \in [Agents -> Seq(Threads)]
    BY DEF Init
  <2>4. /\ agentStatus \in [Agents -> {"idle", "running", "error", "paused"}]
        /\ crashes \in 0 .. MaxCrashes
    BY DEF Init
  <2> QED
    BY <2>1, <2>2, <2>3, <2>4, NullTypes DEF Init, Typed
<1>3. RowsInOrder /\ ListedRowsExist
  BY <1>1 DEF RowsInOrder, ListedRowsExist, NoRow, Idle, NoPass
<1>4. \A r \in RunId : RowInv(r)
  BY <1>1, ExecutionThreads DEF RowInv, NoRow, NoExec, NoRecovery, Idle
<1>5. \A a \in Agents : DrainInv(a)
  BY <1>1 DEF DrainInv, NoDrain
<1>6. RunningIsOwned
  BY <1>1 DEF RunningIsOwned, With, NoRow
<1> QED
  BY <1>2, <1>3, <1>4, <1>5, <1>6 DEF SchedInv

LEMMA NextHolds == SchedInv /\ [Next]_vars => SchedInv'
<1> SUFFICES ASSUME SchedInv, [Next]_vars PROVE SchedInv'
  OBVIOUS
<1>1. Typed' /\ Owned' /\ RowChange /\ JobsListed /\ PassesListed
  BY TypeStep, OwnedStep, ListedStep
<1>2. RowsInOrder' /\ \A r \in RunId : runs[r].status # "none" => runs'[r].status # "none"
  BY <1>1, RowsStay DEF SchedInv
<1>3. ListedRowsExist'
  <2>1. /\ \A a \in Agents : pauser'[a].todo \subseteq RunId
        /\ stop'.todo \subseteq RunId
    BY <1>1 DEF Typed, Pass
  <2> QED
    BY <1>1, <1>2, <2>1 DEF SchedInv, ListedRowsExist, JobsListed, PassesListed
<1> QED
  BY <1>1, <1>2, <1>3 DEF SchedInv, Owned

THEOREM SchedInvHolds == Spec => []SchedInv
  BY InitHolds, NextHolds, PTL DEF Spec

\* The queue, the chains, the executions and the passes of the heartbeat
\* service stay well-typed.
THEOREM TypesHold == Spec => []TypeOK
  BY SchedInvHolds, TypedIsTypeOK, PTL DEF SchedInv

\* No slot leaks, whatever the order of claims, completions, cancellations,
\* pauses, budget stops, reaping and restarts: a row that says "running" is
\* being claimed or executed by this server, or was running when the server
\* stopped and is left to the reaper.
THEOREM RunningIsAlwaysOwned == Spec => []RunningIsOwned
  BY SchedInvHolds, PTL DEF SchedInv

-----------------------------------------------------------------------------
(* The slots of an agent, and the contract of RunLifecycle.                 *)

\* Only DrainList adds to what a drain has listed.
ListsShrink == \A a \in Agents : drain'[a].todo \subseteq drain[a].todo \/ DrainList(a)

LEMMA ReturnRecovery ==
  ASSUME NEW a \in Agents, Return(a), recover = NoRecovery
  PROVE  recover' = NoRecovery
<1>1. [NoRecovery EXCEPT !.wait = NoAgent] = NoRecovery
  BY DEF NoRecovery
<1> QED
  BY <1>1, Zenon DEF Return

LEMMA ListsShrinkStep == SchedInv /\ NoDetaching /\ [Next]_vars => NoDetaching' /\ ListsShrink
<1> SUFFICES ASSUME SchedInv, NoDetaching, [Next]_vars PROVE NoDetaching' /\ ListsShrink
  OBVIOUS
<1>0. Typed /\ ListedRowsExist /\ RowsInOrder /\ NoDetaching
  BY DEF SchedInv
<1> USE <1>0
<1>1. ASSUME NEW a \in Agents, EnqueueCheck(a)
      PROVE  NoDetaching' /\ ListsShrink
  BY <1>1 DEF EnqueueCheck, NoDetaching, ListsShrink
<1>2. ASSUME NEW a \in Agents, EnqueueInsert(a)
      PROVE  NoDetaching' /\ ListsShrink
  <2>1. ~LocalChildren => \A q \in RunId : ~runs'[q].pid
    BY <1>2, TypedParts, NewRunIsFree DEF EnqueueInsert, NoDetaching, Run, QueuedRow
  <2> QED
    BY <1>2, <2>1 DEF EnqueueInsert, NoDetaching, ListsShrink
<1>3. ASSUME NEW a \in Agents, DrainNothing(a)
      PROVE  NoDetaching' /\ ListsShrink
  <2>1. ListsShrink
    BY <1>3, TypedParts DEF DrainNothing, Return, ListsShrink, NoDrain
  <2>2. ~Scheduler => recover' = NoRecovery
    BY <1>3, ReturnRecovery DEF DrainNothing, NoDetaching
  <2> QED
    BY <1>3, <2>1, <2>2 DEF DrainNothing, NoDetaching
<1>4. ASSUME NEW a \in Agents, DrainList(a)
      PROVE  NoDetaching' /\ ListsShrink
  <2>1. ListsShrink
    BY <1>4, TypedParts DEF DrainList, ListsShrink
  <2> QED
    BY <1>4, <2>1 DEF DrainList, NoDetaching
<1>5. ASSUME NEW a \in Agents, ClaimRefused(a)
      PROVE  NoDetaching' /\ ListsShrink
  <2>1. ListsShrink
    BY <1>5, TypedParts DEF ClaimRefused, ListsShrink, NextClaim, Drain
  <2> QED
    BY <1>5, <2>1 DEF ClaimRefused, NoDetaching
<1>6. ASSUME NEW a \in Agents, ClaimAllowed(a)
      PROVE  NoDetaching' /\ ListsShrink
  <2>1. ListsShrink
    BY <1>6, TypedParts DEF ClaimAllowed, ListsShrink, NextClaim, Drain
  <2> QED
    BY <1>6, <2>1 DEF ClaimAllowed, NoDetaching
<1>7. ASSUME NEW a \in Agents, ClaimCancelled(a)
      PROVE  NoDetaching' /\ ListsShrink
  <2>1. ListsShrink
    BY <1>7, TypedParts DEF ClaimCancelled, ListsShrink, NextClaim, Drain
  <2> QED
    BY <1>7, <2>1 DEF ClaimCancelled, NoDetaching
<1>8. ASSUME NEW a \in Agents, ClaimUpdate(a)
      PROVE  NoDetaching' /\ ListsShrink
  <2>1. ListsShrink
    <3>1. CASE Claimable(Claiming(a))
      <4>1. drain' = [drain EXCEPT ![a].pc = "wake"]
        BY <1>8, <3>1 DEF ClaimUpdate
      <4> QED
        BY <4>1, TypedParts DEF ListsShrink, Drain
    <3>2. CASE ~Claimable(Claiming(a))
      <4>1. NextClaim(a, {})
        BY <1>8, <3>2 DEF ClaimUpdate
      <4> QED
        BY <4>1, TypedParts DEF ListsShrink, NextClaim
    <3> QED
      BY <3>1, <3>2
  <2>2. ~LocalChildren => \A q \in RunId : ~runs'[q].pid
    <3>1. runs' = runs \/ runs' = [runs EXCEPT ![Claiming(a)].status = "running"]
      BY <1>8 DEF ClaimUpdate
    <3>2. ASSUME NEW c, runs' = [runs EXCEPT ![c].status = "running"], NEW q \in RunId
          PROVE  runs'[q].pid = runs[q].pid
      <4>1. runs \in [RunId -> Run]
        BY TypedParts
      <4> QED
        BY <3>2, <4>1, StatusKeepsPid
    <3>3. \A q \in RunId : runs'[q].pid = runs[q].pid
      BY <3>1, <3>2
    <3> QED
      BY <3>3 DEF NoDetaching
  <2> QED
    BY <1>8, <2>1, <2>2 DEF ClaimUpdate, NoDetaching
<1>9. ASSUME NEW a \in Agents, ClaimWake(a)
      PROVE  NoDetaching' /\ ListsShrink
  <2>1. ListsShrink
    BY <1>9, TypedParts DEF ClaimWake, ListsShrink, NextClaim, Drain
  <2>2. ~LocalChildren => \A q \in RunId : ~runs'[q].pid
    BY <1>9, TypedParts DEF ClaimWake, NoDetaching, Run
  <2> QED
    BY <1>9, <2>1, <2>2 DEF ClaimWake, NoDetaching
<1>10. ASSUME NEW a \in Agents, DrainLaunch(a)
      PROVE  NoDetaching' /\ ListsShrink
  <2>1. ListsShrink
    BY <1>10, TypedParts DEF DrainLaunch, Return, ListsShrink, NoDrain
  <2>2. ~Scheduler => recover' = NoRecovery
    BY <1>10, ReturnRecovery DEF DrainLaunch, NoDetaching
  <2> QED
    BY <1>10, <2>1, <2>2 DEF DrainLaunch, NoDetaching
<1>11. ASSUME NEW a \in Agents, Pause(a)
      PROVE  NoDetaching' /\ ListsShrink
  BY <1>11 DEF Pause, NoDetaching, ListsShrink
<1>12. ASSUME NEW a \in Agents, PauseList(a)
      PROVE  NoDetaching' /\ ListsShrink
  BY <1>12 DEF PauseList, NoDetaching, ListsShrink
<1>13. ASSUME NEW a \in Agents, PauseCancel(a)
      PROVE  NoDetaching' /\ ListsShrink
  <2>1. PICK s \in pauser[a].todo : runs' = SetStatus(s, "cancelled")
    BY <1>13 DEF PauseCancel
  <2>2. s \in RunId
    BY TypedParts DEF Pass
  <2>3. ~LocalChildren => \A q \in RunId : ~runs'[q].pid
    BY <2>1, <2>2, SetStatusWrites DEF NoDetaching, Terminal
  <2> QED
    BY <1>13, <2>3 DEF PauseCancel, NoDetaching, ListsShrink
<1>14. ASSUME NEW a \in Agents, PauseEnd(a)
      PROVE  NoDetaching' /\ ListsShrink
  BY <1>14 DEF PauseEnd, NoDetaching, ListsShrink
<1>15. ASSUME NEW a \in Agents, ResumeAgent(a)
      PROVE  NoDetaching' /\ ListsShrink
  BY <1>15 DEF ResumeAgent, NoDetaching, ListsShrink
<1>16. ASSUME NEW r \in RunId, ExecCheck(r)
      PROVE  NoDetaching' /\ ListsShrink
  BY <1>16 DEF ExecCheck, NoDetaching, ListsShrink
<1>17. ASSUME NEW r \in RunId, ExecSetup(r)
      PROVE  NoDetaching' /\ ListsShrink
  BY <1>17 DEF ExecSetup, NoDetaching, ListsShrink
<1>18. ASSUME NEW r \in RunId, ExecLaunch(r)
      PROVE  NoDetaching' /\ ListsShrink
  <2>1. ~LocalChildren => \A q \in RunId : ~runs'[q].pid
    BY <1>18, TypedParts DEF ExecLaunch, NoDetaching, Run
  <2> QED
    BY <1>18, <2>1 DEF ExecLaunch, NoDetaching, ListsShrink
<1>19. ASSUME NEW r \in RunId, AdapterReturn(r)
      PROVE  NoDetaching' /\ ListsShrink
  BY <1>19 DEF AdapterReturn, NoDetaching, ListsShrink
<1>20. ASSUME NEW r \in RunId, ExecThrow(r)
      PROVE  NoDetaching' /\ ListsShrink
  BY <1>20 DEF ExecThrow, NoDetaching, ListsShrink
<1>21. ASSUME NEW r \in RunId, ExecWrite(r)
      PROVE  NoDetaching' /\ ListsShrink
  <2>1. exec[r].outcome \in Terminal
    BY <1>21, TypedParts DEF Execution
  <2>2. ~LocalChildren => \A q \in RunId : ~runs'[q].pid
    BY <1>21, <2>1, SetStatusWrites DEF ExecWrite, NoDetaching
  <2> QED
    BY <1>21, <2>2 DEF ExecWrite, NoDetaching, ListsShrink
<1>22. ASSUME NEW r \in RunId, ApiCancel(r)
      PROVE  NoDetaching' /\ ListsShrink
  BY <1>22 DEF ApiCancel, NoDetaching, ListsShrink
<1>23. ASSUME NEW r \in RunId, ProcessExit(r)
      PROVE  NoDetaching' /\ ListsShrink
  BY <1>23 DEF ProcessExit, NoDetaching, ListsShrink
<1>24. ASSUME NEW t \in Workers, FinalizePaused(t)
      PROVE  NoDetaching' /\ ListsShrink
  BY <1>24 DEF FinalizePaused, NoDetaching, ListsShrink
<1>25. ASSUME NEW t \in Workers, FinalizeCount(t)
      PROVE  NoDetaching' /\ ListsShrink
  BY <1>25 DEF FinalizeCount, NoDetaching, ListsShrink
<1>26. ASSUME NEW t \in Workers, FinalizeWrite(t)
      PROVE  NoDetaching' /\ ListsShrink
  BY <1>26 DEF FinalizeWrite, NoDetaching, ListsShrink
<1>27. ASSUME NEW t \in Cancellers, CancelRead(t)
      PROVE  NoDetaching' /\ ListsShrink
  BY <1>27 DEF CancelRead, NoDetaching, ListsShrink
<1>28. ASSUME NEW t \in Cancellers, CancelWrite(t)
      PROVE  NoDetaching' /\ ListsShrink
  <2>1. job[t].run \in RunId
    BY <1>28, ExecutionThreads DEF CancelWrite, ListedRowsExist
  <2>2. ~LocalChildren => \A q \in RunId : ~runs'[q].pid
    BY <1>28, <2>1, SetStatusWrites DEF CancelWrite, NoDetaching, Terminal
  <2> QED
    BY <1>28, <2>2 DEF CancelWrite, NoDetaching, ListsShrink
<1>29. ASSUME BudgetStop
      PROVE  NoDetaching' /\ ListsShrink
  BY <1>29 DEF BudgetStop, NoDetaching, ListsShrink
<1>30. ASSUME BudgetList
      PROVE  NoDetaching' /\ ListsShrink
  BY <1>30 DEF BudgetList, NoDetaching, ListsShrink
<1>31. ASSUME BudgetCancel
      PROVE  NoDetaching' /\ ListsShrink
  BY <1>31 DEF BudgetCancel, NoDetaching, ListsShrink
<1>32. ASSUME BudgetEnd
      PROVE  NoDetaching' /\ ListsShrink
  BY <1>32 DEF BudgetEnd, NoDetaching, ListsShrink
<1>33. ASSUME BudgetRaised
      PROVE  NoDetaching' /\ ListsShrink
  BY <1>33 DEF BudgetRaised, NoDetaching, ListsShrink
<1>34. ASSUME RecoveryBegin
      PROVE  NoDetaching' /\ ListsShrink
  BY <1>34 DEF RecoveryBegin, NoDetaching, ListsShrink, NoRecovery
<1>35. ASSUME Retry
      PROVE  NoDetaching' /\ ListsShrink
  <2>1. ~LocalChildren => \A q \in RunId : ~runs'[q].pid
    BY <1>35, TypedParts, NewRunIsFree DEF Retry, NoDetaching, QueuedRow
  <2> QED
    BY <1>35, <2>1 DEF Retry, NoDetaching, ListsShrink
<1>36. ASSUME ReapEnd
      PROVE  NoDetaching' /\ ListsShrink
  BY <1>36 DEF ReapEnd, NoDetaching, ListsShrink, NoRecovery
<1>37. ASSUME ResumeQueued
      PROVE  NoDetaching' /\ ListsShrink
  BY <1>37 DEF ResumeQueued, NoDetaching, ListsShrink, NoRecovery
<1>38. ASSUME RecoveryEnd
      PROVE  NoDetaching' /\ ListsShrink
  BY <1>38 DEF RecoveryEnd, NoDetaching, ListsShrink, NoRecovery
<1>39. ASSUME NEW r \in RunId, ReapSkip(r)
      PROVE  NoDetaching' /\ ListsShrink
  BY <1>39 DEF ReapSkip, NoDetaching, ListsShrink, NoRecovery, Reaping
<1>40. ASSUME NEW r \in RunId, ReapDetached(r)
      PROVE  NoDetaching' /\ ListsShrink
  <2>1. Scheduler
    BY <1>40 DEF ReapDetached, Reaping, NoDetaching, NoRecovery
  <2>2. ~LocalChildren => \A q \in RunId : ~runs'[q].pid
    BY <1>40, DetachedWrites DEF ReapDetached, NoDetaching, Terminal
  <2> QED
    BY <1>40, <2>1, <2>2 DEF ReapDetached, NoDetaching, ListsShrink
<1>41. ASSUME NEW r \in RunId, ReapLost(r)
      PROVE  NoDetaching' /\ ListsShrink
  <2>1. Scheduler
    BY <1>41 DEF ReapLost, Reaping, NoDetaching, NoRecovery
  <2>2. ~LocalChildren => \A q \in RunId : ~runs'[q].pid
    BY <1>41, SetStatusWrites DEF ReapLost, NoDetaching, Terminal
  <2> QED
    BY <1>41, <2>1, <2>2 DEF ReapLost, NoDetaching, ListsShrink
<1>42. ASSUME Crash
      PROVE  NoDetaching' /\ ListsShrink
  BY <1>42 DEF Crash, NoDetaching, ListsShrink, NoDrain
<1>43. ASSUME UNCHANGED vars
      PROVE  NoDetaching' /\ ListsShrink
  BY <1>43 DEF vars, NoDetaching, ListsShrink
<1> QED
  BY <1>1, <1>2, <1>3, <1>4, <1>5, <1>6, <1>7, <1>8, <1>9, <1>10, <1>11, <1>12, <1>13,
     <1>14, <1>15, <1>16, <1>17, <1>18, <1>19, <1>20, <1>21, <1>22, <1>23, <1>24, <1>25,
     <1>26, <1>27, <1>28, <1>29, <1>30, <1>31, <1>32, <1>33, <1>34, <1>35, <1>36, <1>37,
     <1>38, <1>39, <1>40, <1>41, <1>42, <1>43
  DEF Next, DrainStep, ExecStep, FinalizeStep, CancelStep, PauseStep, BudgetStep, RecoveryStep

LEMMA SlotStep ==
  ASSUME ~(Scheduler /\ LocalChildren)
  PROVE  SchedInv /\ SlotInv /\ [Next]_vars => SlotInv'
<1> SUFFICES ASSUME SchedInv, SlotInv, [Next]_vars PROVE SlotInv'
  OBVIOUS
<1>1. NoDetaching' /\ ListsShrink /\ RowChange /\ Typed /\ \A a \in Agents : DrainInv(a)
  BY ListsShrinkStep, OwnedStep DEF SlotInv, SchedInv
<1>2. ~\E s \in RunId : s \in recover.todo /\ runs[s].pid
  BY DEF SlotInv, NoDetaching, NoRecovery
<1>3. ASSUME NEW a \in Agents
      PROVE  Cardinality(Reserved(a)') <= MaxConcurrent
  <2>1. drain[a].todo \subseteq RunId /\ DrainInv(a)
    BY <1>1 DEF Typed, Drain
  <2>2. Reserved(a) \subseteq RunId
    BY DEF Reserved, RunningOf, OfAgent, With
  <2>3. CASE drain'[a].todo \subseteq drain[a].todo
    <3>1. Reserved(a)' \subseteq Reserved(a)
      <4> SUFFICES ASSUME NEW r \in Reserved(a)'
                   PROVE  r \in Reserved(a)
        OBVIOUS
      <4>1. /\ r \in RunId
            /\ \/ runs'[r].status = "running" /\ runs'[r].agent = a
               \/ runs'[r].status = "queued" /\ r \in drain'[a].todo
        BY DEF Reserved, RunningOf, OfAgent, With
      <4>2. runs'[r].status = runs[r].status /\ runs'[r].agent = runs[r].agent
              => r \in Reserved(a)
        BY <2>3, <4>1 DEF Reserved, RunningOf, OfAgent, With
      <4>3. CASE \E n \in RunId : Created(n)
        BY <2>1, <2>3, <4>1, <4>2, <4>3 DEF Created, RowsKeptBut, DrainInv
      <4>4. CASE \E s \in RunId : \E status \in Terminal : Written(s, status)
        BY <4>1, <4>2, <4>4 DEF Written, RowsKeptBut, Terminal
      <4>5. ASSUME NEW b \in Agents, Claimable(Claiming(b)), Claiming(b) \in drain[b].todo,
                   Claiming(b) \in RunId, Written(Claiming(b), "running")
            PROVE  r \in Reserved(a)
        <5>1. CASE r # Claiming(b)
          BY <4>2, <4>5, <5>1, <4>1 DEF Written, RowsKeptBut
        <5>2. CASE r = Claiming(b)
          <6>1. runs[r].agent = b
            BY <1>1, <4>5, <5>2 DEF DrainInv
          <6>2. a = b
            BY <4>1, <4>5, <5>2, <6>1 DEF Written
          <6> QED
            BY <4>1, <4>5, <5>2, <6>2 DEF Reserved, With, Claimable
        <5> QED
          BY <5>1, <5>2
      <4>6. CASE RowsKeptBut({})
        BY <4>1, <4>2, <4>6 DEF RowsKeptBut
      <4> QED
        BY <1>1, <1>2, <4>3, <4>4, <4>5, <4>6 DEF RowChange
    <3>2. /\ IsFiniteSet(Reserved(a)) /\ Cardinality(Reserved(a)) \in Nat
          /\ Cardinality(Reserved(a)) <= MaxConcurrent
      BY <2>2, RunSetsAreFinite DEF SlotInv
    <3>3. IsFiniteSet(Reserved(a)') /\ Cardinality(Reserved(a)') \in Nat
      BY <2>2, <3>1, RunSetsAreFinite
    <3>4. Cardinality(Reserved(a)') <= Cardinality(Reserved(a))
      BY <3>1, <3>2, FS_Subset
    <3> QED
      BY <3>2, <3>3, <3>4
  <2>4. CASE DrainList(a)
    <3> DEFINE new == FirstOf(OfAgent(a) \cap With("queued"), AvailableSlots(a))
    <3>1. Startable(a) = new /\ new # {} /\ new \subseteq RunId
      BY <2>4 DEF DrainList, Startable, FirstOf, OfAgent
    <3>2. Reserved(a)' \subseteq RunningOf(a) \cup new
      <4>1. drain'[a].todo = Startable(a) /\ runs' = runs
        BY <1>1, <2>4, TypedParts DEF DrainList
      <4> QED
        BY <3>1, <4>1 DEF Reserved, RunningOf, OfAgent, With
    <3>3. RunningOf(a) \subseteq RunId
      BY DEF RunningOf, OfAgent
    <3>4. /\ IsFiniteSet(RunningOf(a)) /\ Cardinality(RunningOf(a)) \in Nat
          /\ IsFiniteSet(new) /\ Cardinality(new) \in Nat
      BY <3>1, <3>3, RunSetsAreFinite
    <3>5. Cardinality(new) <= MaxConcurrent - Cardinality(RunningOf(a))
      <4>1. MaxConcurrent - Cardinality(RunningOf(a)) \in Int
        BY <3>4
      <4>2. OfAgent(a) \cap With("queued") \subseteq RunId
        BY DEF OfAgent
      <4> QED
        BY <3>1, <4>1, <4>2, FirstOfBound DEF AvailableSlots
    <3> HIDE DEF new
    <3>6. /\ IsFiniteSet(RunningOf(a) \cup new)
          /\ Cardinality(RunningOf(a) \cup new) <= Cardinality(RunningOf(a)) + Cardinality(new)
      <4>1. /\ IsFiniteSet(RunningOf(a) \cup new) /\ IsFiniteSet(RunningOf(a) \cap new)
            /\ Cardinality(RunningOf(a) \cup new) =
                 Cardinality(RunningOf(a)) + Cardinality(new) - Cardinality(RunningOf(a) \cap new)
        BY <3>4, FS_Union, FS_Intersection
      <4>2. Cardinality(RunningOf(a) \cap new) \in Nat
        BY <4>1, FS_CardinalityType
      <4> QED
        BY <3>4, <4>1, <4>2
    <3>7. /\ Cardinality(RunningOf(a) \cup new) \in Nat
          /\ Cardinality(Reserved(a)') <= Cardinality(RunningOf(a) \cup new)
          /\ Cardinality(Reserved(a)') \in Nat
      BY <3>2, <3>6, FS_Subset, FS_CardinalityType
    <3> QED
      BY <3>4, <3>5, <3>6, <3>7
  <2> QED
    BY <1>1, <2>3, <2>4 DEF ListsShrink
<1> QED
  BY <1>1, <1>3 DEF SlotInv

LEMMA InitSlots == Init => SlotInv
<1> SUFFICES ASSUME Init PROVE SlotInv
  OBVIOUS
<1>1. \A a \in Agents : Reserved(a) = {}
  BY DEF Init, Reserved, RunningOf, OfAgent, With, NoRow, NoDrain
<1>2. NoDetaching
  BY DEF Init, NoDetaching, NoRow
<1> QED
  BY <1>1, <1>2, FS_EmptySet DEF SlotInv

\* A start: the row of a drain is reserved and not running, so the agent has
\* a free slot.
LEMMA FreeSlot ==
  ASSUME SchedInv, SlotInv, NEW a \in Agents, Claiming(a) \in drain[a].todo,
         Claiming(a) \in RunId, Claimable(Claiming(a))
  PROVE  runs[Claiming(a)].agent = a /\ Cardinality(RunningOf(a)) < MaxConcurrent
<1> DEFINE c == Claiming(a)
<1>1. runs[c].agent = a /\ runs[c].status = "queued"
  BY DEF SchedInv, DrainInv, Claimable
<1>2. c \in Reserved(a) /\ Reserved(a) \subseteq RunId
  BY <1>1 DEF Reserved, With, RunningOf, OfAgent
<1>3. RunningOf(a) \subseteq Reserved(a) \ {c} /\ RunningOf(a) \subseteq RunId
  BY <1>1 DEF Reserved, With, RunningOf, OfAgent
<1> HIDE DEF c
<1>4. /\ IsFiniteSet(Reserved(a)) /\ Cardinality(Reserved(a)) \in Nat
      /\ Cardinality(RunningOf(a)) \in Nat
  BY <1>2, <1>3, RunSetsAreFinite
<1>5. Cardinality(Reserved(a) \ {c}) = Cardinality(Reserved(a)) - 1 /\ IsFiniteSet(Reserved(a) \ {c})
  BY <1>2, <1>4, FS_RemoveElement
<1>6. Cardinality(RunningOf(a)) <= Cardinality(Reserved(a) \ {c})
  BY <1>3, <1>5, FS_Subset
<1>7. Cardinality(Reserved(a)) <= MaxConcurrent
  BY DEF SlotInv
<1> QED
  BY <1>1, <1>4, <1>5, <1>6, <1>7 DEF c

\* RunLifecycle counts with its own instance of the standard module.
LEMMA ContractCardinality == \A S : Contract!Cardinality(S) = Cardinality(S)
  BY Zenon DEF Contract!Cardinality, Contract!IsFiniteSet, Cardinality, IsFiniteSet

LEMMA ContractStep ==
  ASSUME ~(Scheduler /\ LocalChildren)
  PROVE  SchedInv /\ SlotInv /\ [Next]_vars => [Contract!LifecycleNext]_RowsOf
<1> SUFFICES ASSUME SchedInv, SlotInv, [Next]_vars
             PROVE  Contract!LifecycleNext \/ RowsOf' = RowsOf
  OBVIOUS
<1>1. RowChange
  BY OwnedStep
<1>2. ~\E s \in RunId : s \in recover.todo /\ runs[s].pid
  BY DEF SlotInv, NoDetaching, NoRecovery
<1>3. Contract!RunId = RunId /\ Contract!Terminal = Terminal
  BY DEF Contract!RunId, Contract!Terminal, RunId, Terminal
<1>4. CASE RowsKeptBut({})
  BY <1>4 DEF RowsKeptBut, RowsOf
<1>5. ASSUME NEW r \in RunId, Created(r)
      PROVE  Contract!LifecycleNext
  <2>1. Contract!Submit(r, runs'[r].agent)
    BY <1>5 DEF Contract!Submit, RowsOf, Created, RowsKeptBut
  <2>2. runs'[r].agent \in Agents
    BY <1>5 DEF Created
  <2> QED
    BY <1>3, <2>1, <2>2 DEF Contract!LifecycleNext
<1>6. ASSUME NEW r \in RunId, NEW status \in Terminal, Written(r, status)
      PROVE  Contract!LifecycleNext
  <2>1. Contract!Settle(r, status)
    BY <1>6 DEF Contract!Settle, RowsOf, Written, RowsKeptBut
  <2> QED
    BY <1>3, <2>1 DEF Contract!LifecycleNext
<1>7. ASSUME NEW a \in Agents, Claiming(a) \in drain[a].todo, Claiming(a) \in RunId,
             Claimable(Claiming(a)), Written(Claiming(a), "running")
      PROVE  Contract!LifecycleNext
  <2> DEFINE c == Claiming(a)
  <2>1. runs[c].agent = a /\ Cardinality(RunningOf(a)) < MaxConcurrent
    BY <1>7, FreeSlot
  <2>2. Contract!RunningOf(a) = RunningOf(a)
    BY <1>3 DEF Contract!RunningOf, RowsOf, RunningOf, OfAgent, With
  <2>3. Contract!Start(c)
    <3>1. c \in RunId /\ RowsOf[c] = [agent |-> a, status |-> "queued"]
      BY <1>7, <2>1 DEF RowsOf, Claimable
    <3>2. \A r \in RunId \ {c} : RowsOf'[r] = RowsOf[r]
      BY <1>7 DEF RowsOf, Written, RowsKeptBut
    <3>3. RowsOf'[c] = [agent |-> a, status |-> "running"]
      BY <1>7, <2>1 DEF RowsOf, Written
    <3>4. RowsOf = [r \in RunId |-> RowsOf[r]] /\ RowsOf' = [r \in RunId |-> RowsOf'[r]]
      BY DEF RowsOf
    <3> HIDE DEF c
    <3>5. RowsOf' = [RowsOf EXCEPT ![c].status = "running"]
      BY <3>1, <3>2, <3>3, <3>4
    <3>6. RowsOf[c].status = "queued" /\ RowsOf[c].agent = a
      BY <3>1
    <3>7. Cardinality(Contract!RunningOf(RowsOf[c].agent)) < MaxConcurrent
      BY <2>1, <2>2, <3>6, Zenon
    <3> QED
      BY <3>5, <3>6, <3>7, ContractCardinality, Zenon DEF Contract!Start
  <2> QED
    BY <1>3, <1>7, <2>3 DEF Contract!LifecycleNext
<1> QED
  BY <1>1, <1>2, <1>4, <1>5, <1>6, <1>7 DEF RowChange

LEMMA ContractInit == Init => Contract!LifecycleInit
  BY DEF Init, Contract!LifecycleInit, RowsOf, NoRow, Contract!RunId, RunId

\* The queue implements RunLifecycle on a server without the reaper, or with
\* adapters that spawn no local child: whatever the order of the handlers, a
\* run starts from "queued" only, while its agent has a free slot, and never
\* after it has settled.  With both, a row marked as detached may have
\* settled meanwhile.
THEOREM ContractIsKept ==
  ASSUME ~(Scheduler /\ LocalChildren)
  PROVE  Spec => KeepsContract
<1>1. Init => SchedInv /\ SlotInv
  BY InitHolds, InitSlots
<1>2. SchedInv /\ SlotInv /\ [Next]_vars => (SchedInv /\ SlotInv)'
  BY NextHolds, SlotStep
<1>3. SchedInv /\ SlotInv /\ [Next]_vars => [Contract!LifecycleNext]_RowsOf
  BY ContractStep
<1> QED
  BY <1>1, <1>2, <1>3, ContractInit, PTL DEF Spec, KeepsContract, Contract!Lifecycle

\* No agent ever has more rows that say "running" than slots, on the same
\* terms: a count that is read before the claims of a drain still holds when
\* they are written, since the chain of the agent keeps other drains out and
\* only a claim takes a slot.
THEOREM SlotsAreNotExceeded ==
  ASSUME ~(Scheduler /\ LocalChildren)
  PROVE  Spec => []RunningRowsPerAgent
<1>1. Init => SchedInv /\ SlotInv
  BY InitHolds, InitSlots
<1>2. SchedInv /\ SlotInv /\ [Next]_vars => (SchedInv /\ SlotInv)'
  BY NextHolds, SlotStep
<1>3. SchedInv /\ SlotInv => RunningRowsPerAgent
  <2> SUFFICES ASSUME SchedInv, SlotInv, NEW a \in Agents
               PROVE  Cardinality(RunningOf(a)) <= MaxConcurrent
    BY DEF RunningRowsPerAgent
  <2>1. RunningOf(a) \subseteq Reserved(a) /\ Reserved(a) \subseteq RunId
    BY DEF Reserved, RunningOf, With
  <2>2. Cardinality(RunningOf(a)) <= Cardinality(Reserved(a))
    BY <2>1, RunSetsAreFinite, FS_Subset
  <2>3. /\ Cardinality(RunningOf(a)) \in Nat
        /\ Cardinality(Reserved(a)) \in Nat
    BY <2>1, RunSetsAreFinite
  <2>4. MaxConcurrent \in Nat
    BY DEF SchedulerAssumption
  <2>5. Cardinality(Reserved(a)) <= MaxConcurrent
    BY DEF SlotInv
  <2> QED
    BY <2>2, <2>3, <2>4, <2>5
<1> QED
  BY <1>1, <1>2, <1>3, PTL DEF Spec

=============================================================================
