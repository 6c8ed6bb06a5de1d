----------------------- MODULE PluginLifecycleProofs -----------------------
(***************************************************************************)
(* The lifecycle of a plugin and its worker, for any number of callers,    *)
(* handles, children, crashes and server restarts: types in every case;    *)
(* and, while operations do not overlap, one process at most, no process   *)
(* and no timer of a handle that has been deleted, and a worker that is    *)
(* reported running has answered.                                          *)
(*                                                                         *)
(* The registry, the handle's childProcess and the process table are three *)
(* records of one fact and are written at different moments; the invariant *)
(* says how they agree between any two of those.                           *)
(***************************************************************************)
EXTENDS PluginLifecycle, TLAPS

USE WorkerAssumption, LifecycleAssumption

\* A stop, and a restart that goes on to a start, know their handle.
KnowsHandle(r) ==
  /\ r.pc \in Stopping \/ (r.op = "restart" /\ r.pc = "ret") => r.h \in Handles
  /\ r.pc = "start" => r.op # "restart"

StopsHaveHandles == \A p \in Callers : KnowsHandle(cmd[p])

ProcessesHaveHandles ==
  \A c \in Children : child[c].alive \/ child[c].init # "none" => child[c].of # NoHandle

WorkerTypes ==
  /\ registry \in Handles \cup {NoHandle}
  /\ handle \in [Handles -> Handle]
  /\ child \in [Children -> Child]
  /\ ProcessesHaveHandles
  /\ cmd \in [Callers -> Command]
  /\ StopsHaveHandles

LifecycleTypes ==
  /\ row \in RowStatus
  /\ op \in [Callers -> Operation]
  /\ restarts \in 0 .. MaxRestarts

TypesInv == WorkerTypes /\ LifecycleTypes

-----------------------------------------------------------------------------
(* Types.                                                                   *)

LEMMA NullTypes ==
  /\ FreshHandle \in Handle /\ NoProcess \in Child /\ Idle \in Command
  /\ NoOperation \in Operation /\ BootOperation \in Operation
<1>1. FreshHandle \in Handle
  BY DEF FreshHandle, Handle, WorkerStatus, WorkerAssumption
<1>2. NoProcess \in Child /\ Idle \in Command
  BY DEF NoProcess, Child, Idle, Command
<1>3. NoOperation \in Operation
  BY DEF NoOperation, Operation, RowStatus
<1>4. BootOperation \in Operation
  BY <1>3 DEF BootOperation, NoOperation, Operation, RowStatus
<1> QED
  BY <1>1, <1>2, <1>3, <1>4

LEMMA TypedWorker ==
  WorkerTypes => /\ handle \in [Handles -> Handle] /\ child \in [Children -> Child]
                 /\ cmd \in [Callers -> Command]
  BY DEF WorkerTypes

\* One record of a table changes.
LEMMA HandleChanges ==
  ASSUME NEW hs \in [Handles -> Handle], NEW h, NEW r,
         h \in Handles => r \in Handle
  PROVE  [hs EXCEPT ![h] = r] \in [Handles -> Handle]
  OBVIOUS

LEMMA ChildChanges ==
  ASSUME WorkerTypes, NEW c \in Children, NEW k \in Child, child' = [child EXCEPT ![c] = k],
         k.alive \/ k.init # "none" => k.of # NoHandle
  PROVE  child' \in [Children -> Child] /\ ProcessesHaveHandles'
<1>1. \A d \in Children : child'[d] = child[d] \/ child'[d] = k
  BY TypedWorker
<1> QED
  BY <1>1, TypedWorker DEF WorkerTypes, ProcessesHaveHandles

LEMMA CallChanges ==
  ASSUME WorkerTypes, NEW p \in Callers, NEW r \in Command, cmd' = [cmd EXCEPT ![p] = r],
         KnowsHandle(r)
  PROVE  cmd' \in [Callers -> Command] /\ StopsHaveHandles'
<1>1. \A q \in Callers : cmd'[q] = cmd[q] \/ cmd'[q] = r
  BY TypedWorker
<1> QED
  BY <1>1, TypedWorker DEF WorkerTypes, StopsHaveHandles

\* Callers that await a start get its outcome and keep the rest.
LEMMA SettledTypes ==
  ASSUME WorkerTypes, NEW c, NEW ok \in BOOLEAN, cmd' = Settled(c, ok)
  PROVE  cmd' \in [Callers -> Command] /\ StopsHaveHandles'
<1>1. \A p \in Callers : [cmd[p] EXCEPT !.pc = "ret", !.ok = ok] \in Command
  <2> TAKE p \in Callers
  <2>1. cmd[p] \in Command
    BY TypedWorker
  <2> QED
    BY <2>1 DEF Command
<1>2. cmd' \in [Callers -> Command]
  BY <1>1, TypedWorker DEF Settled
<1>3. StopsHaveHandles'
  BY TypedWorker DEF WorkerTypes, StopsHaveHandles, KnowsHandle, Settled, Command, Stopping
<1> QED
  BY <1>2, <1>3

LEMMA SpawnTypes ==
  ASSUME WorkerTypes, NEW hs \in [Handles -> Handle], NEW h \in Handles, NEW c \in Children,
         Spawn(hs, h, c)
  PROVE  handle' \in [Handles -> Handle] /\ child' \in [Children -> Child]
         /\ ProcessesHaveHandles'
<1>1. hs[h] \in Handle
  OBVIOUS
<1>2. [hs[h] EXCEPT !.status = "starting", !.stop = FALSE, !.child = c] \in Handle
  BY <1>1 DEF Handle, WorkerStatus
<1>3. handle' = [hs EXCEPT ![h] = [hs[h] EXCEPT !.status = "starting", !.stop = FALSE, !.child = c]]
  BY Zenon DEF Spawn
<1>4. [NoProcess EXCEPT !.alive = TRUE, !.of = h, !.init = "sent"] \in Child
  BY DEF NoProcess, Child
<1>5. child' \in [Children -> Child] /\ ProcessesHaveHandles'
  BY <1>4, ChildChanges DEF Spawn, NoProcess, WorkerAssumption
<1> QED
  BY <1>2, <1>3, <1>5, HandleChanges


LEMMA InitTypes ==
  ASSUME WorkerTypes, NEW c \in Children, InitOk(c) \/ InitFails(c)
  PROVE  WorkerTypes'
<1> DEFINE h == child[c].of
           k == handle[h].child
<1>1. child[c] \in Child /\ child[c].init = "sent" /\ h \in Handles
  BY TypedWorker DEF InitOk, InitFails, WorkerTypes, ProcessesHaveHandles, Child
<1>2. handle[h] \in Handle /\ k \in Children \cup {NoChild}
  BY <1>1, TypedWorker DEF Handle
<1> DEFINE settled == [child[c] EXCEPT !.init = "none"]
<1>3. settled \in Child /\ settled.of # NoHandle
  BY <1>1 DEF Child, WorkerAssumption
<1>4. CASE InitOk(c)
  <2>0. 0 \in 0 .. MaxConsecutiveCrashes + 1
    BY DEF WorkerAssumption
  <2>1. [handle[h] EXCEPT !.status = "running", !.crashes = 0] \in Handle
    BY <1>2, <2>0 DEF Handle, WorkerStatus
  <2>2. handle' = [handle EXCEPT ![h] = [handle[h] EXCEPT !.status = "running", !.crashes = 0]]
    BY <1>4, TypedWorker, Zenon DEF InitOk
  <2>3. handle' \in [Handles -> Handle]
    BY <2>1, <2>2, TypedWorker, HandleChanges
  <2>4. child' \in [Children -> Child] /\ ProcessesHaveHandles'
    BY <1>3, <1>4, ChildChanges DEF InitOk
  <2> QED
    BY <1>4, <2>3, <2>4, SettledTypes DEF InitOk, WorkerTypes
<1>5. CASE InitFails(c) /\ k = NoChild
  <2>1. [handle[h] EXCEPT !.status = "crashed"] \in Handle
    BY <1>2 DEF Handle, WorkerStatus
  <2>2. handle' \in [Handles -> Handle]
    BY <1>5, <2>1, TypedWorker, HandleChanges DEF InitFails
  <2>3. child' \in [Children -> Child] /\ ProcessesHaveHandles'
    BY <1>3, <1>5, ChildChanges DEF InitFails
  <2> QED
    BY <1>5, <2>2, <2>3, SettledTypes DEF InitFails, WorkerTypes
<1>6. CASE InitFails(c) /\ k # NoChild
  <2> DEFINE signalled == [child EXCEPT ![k].killed = TRUE]
  <2>1. k \in Children
    BY <1>2, <1>6
  <2>2. [handle[h] EXCEPT !.stop = TRUE] \in Handle
    BY <1>2 DEF Handle
  <2>3. handle' \in [Handles -> Handle]
    BY <1>6, <2>2, TypedWorker, HandleChanges DEF InitFails
  <2>4. child[k] \in Child
    BY <2>1, TypedWorker
  <2>5. signalled \in [Children -> Child]
        /\ \A d \in Children : signalled[d].alive = child[d].alive
             /\ signalled[d].of = child[d].of /\ signalled[d].init = child[d].init
    <3>1. [child[k] EXCEPT !.killed = TRUE] \in Child
      BY <2>4 DEF Child
    <3> QED
      BY <2>1, <2>4, <3>1, TypedWorker DEF Child
  <2>6. child' = [signalled EXCEPT ![c].init = "killing", ![c].victim = k]
    BY <1>6 DEF InitFails
  <2> HIDE DEF signalled
  <2>7. child' = [signalled EXCEPT ![c] = [signalled[c] EXCEPT !.init = "killing", !.victim = k]]
    BY <2>5, <2>6, Zenon
  <2>8. [signalled[c] EXCEPT !.init = "killing", !.victim = k] \in Child
    BY <2>1, <2>5 DEF Child
  <2>9. child' \in [Children -> Child]
    BY <2>5, <2>7, <2>8
  <2>10. \A d \in Children : child'[d].alive = child[d].alive /\ child'[d].of = child[d].of
           /\ (child'[d].init = child[d].init \/ d = c)
    BY <2>5, <2>7 DEF Child
  <2>11. ProcessesHaveHandles'
    BY <1>1, <2>10 DEF WorkerTypes, ProcessesHaveHandles, WorkerAssumption
  <2> QED
    BY <1>6, <2>3, <2>9, <2>11 DEF InitFails, WorkerTypes, StopsHaveHandles
<1> QED
  BY <1>4, <1>5, <1>6

LEMMA AfterExitType ==
  ASSUME NEW r \in Handle, NEW within \in BOOLEAN, NEW last \in WorkerStatus
  PROVE  AfterExit(r, within) \in Handle
         /\ [AfterExit(r, within) EXCEPT !.status = last] \in Handle
<1> DEFINE n == IF within THEN r.crashes + 1 ELSE 1
<1>1. n \in 1 .. MaxConsecutiveCrashes + 2
  BY DEF Handle, WorkerAssumption
<1>2. CASE r.stop
  BY <1>2 DEF AfterExit, Handle, WorkerStatus
<1>3. CASE ~r.stop /\ n <= MaxConsecutiveCrashes
  <2>1. AfterExit(r, within) = [r EXCEPT !.child = NoChild, !.crashes = n, !.status = "backoff",
                                         !.timer = TRUE]
    BY <1>3 DEF AfterExit, Crashed
  <2>2. n \in 0 .. MaxConsecutiveCrashes + 1
    BY <1>1, <1>3 DEF WorkerAssumption
  <2> HIDE DEF n
  <2> QED
    BY <2>1, <2>2 DEF Handle, WorkerStatus
<1>4. CASE ~r.stop /\ ~(n <= MaxConsecutiveCrashes)
  <2>1. AfterExit(r, within) = [r EXCEPT !.child = NoChild, !.crashes = MaxConsecutiveCrashes + 1,
                                         !.status = "crashed"]
    BY <1>4 DEF AfterExit, Crashed
  <2>2. MaxConsecutiveCrashes + 1 \in 0 .. MaxConsecutiveCrashes + 1
    BY DEF WorkerAssumption
  <2> QED
    BY <2>1, <2>2 DEF Handle, WorkerStatus
<1> QED
  BY <1>2, <1>3, <1>4

LEMMA AfterExitShape ==
  ASSUME NEW r \in Handle, NEW within \in BOOLEAN, ~r.timer
  PROVE  LET a == AfterExit(r, within) IN
         /\ a.child = NoChild
         /\ a.status \in {"stopped", "backoff", "crashed"}
         /\ r.stop => ~a.timer
         /\ a.timer => a.status \in {"backoff", "crashed"}
<1> DEFINE n == IF within THEN r.crashes + 1 ELSE 1
<1>1. \/ AfterExit(r, within) = [r EXCEPT !.child = NoChild, !.status = "stopped"]
      \/ /\ ~r.stop
         /\ AfterExit(r, within) = [r EXCEPT !.child = NoChild, !.crashes = n, !.status = "backoff",
                                             !.timer = TRUE]
      \/ AfterExit(r, within) = [r EXCEPT !.child = NoChild, !.crashes = MaxConsecutiveCrashes + 1,
                                          !.status = "crashed"]
  BY DEF AfterExit, Crashed
<1> HIDE DEF n
<1> QED
  BY <1>1 DEF Handle

LEMMA ExitTypes ==
  ASSUME WorkerTypes, NEW c \in Children, Exit(c)
  PROVE  WorkerTypes'
<1> DEFINE h == child[c].of
<1>1. child[c] \in Child /\ h \in Handles
  BY TypedWorker DEF Exit, WorkerTypes, ProcessesHaveHandles, Child
<1>2. handle' \in [Handles -> Handle]
  <2>1. PICK within \in BOOLEAN, last \in WorkerStatus :
          handle' = [handle EXCEPT ![h] = [AfterExit(handle[h], within) EXCEPT !.status = last]]
    BY DEF Exit
  <2> QED
    BY <1>1, <2>1, TypedWorker, AfterExitType, HandleChanges
<1>3. \A d \in Children : \/ child'[d] = NoProcess
                          \/ d = c /\ child'[d] = [child[c] EXCEPT !.alive = FALSE]
                          \/ child'[d] = [child[d] EXCEPT !.init = "none", !.victim = NoChild]
                          \/ child'[d] = child[d]
  BY Zenon DEF Exit
<1>4. \A d \in Children : /\ [child[c] EXCEPT !.alive = FALSE] \in Child
                          /\ [child[d] EXCEPT !.init = "none", !.victim = NoChild] \in Child
  <2> TAKE d \in Children
  <2>1. child[d] \in Child
    BY TypedWorker
  <2> QED
    BY <1>1, <2>1 DEF Child
<1>5. \A d \in Children : child'[d] \in Child
  BY <1>3, <1>4, NullTypes, TypedWorker
<1>6. child' \in [Children -> Child]
  BY <1>5, Zenon DEF Exit
<1>7. ProcessesHaveHandles'
  <2> SUFFICES ASSUME NEW d \in Children
               PROVE  child'[d].alive \/ child'[d].init # "none" => child'[d].of # NoHandle
    BY DEF ProcessesHaveHandles
  <2>1. child[d] \in Child
    BY TypedWorker
  <2>2. child[d].alive \/ child[d].init # "none" => child[d].of # NoHandle
    BY DEF WorkerTypes, ProcessesHaveHandles
  <2>3. CASE child'[d] = NoProcess
    BY <2>3 DEF NoProcess
  <2>4. CASE d = c /\ child'[d] = [child[c] EXCEPT !.alive = FALSE]
    BY <1>1, <2>4 DEF WorkerAssumption, Child
  <2>5. CASE child'[d] = [child[d] EXCEPT !.init = "none", !.victim = NoChild]
    BY <2>1, <2>2, <2>5 DEF Child
  <2> QED
    BY <1>3, <2>2, <2>3, <2>4, <2>5
<1>8. \A p \in Callers : \/ cmd'[p] = [cmd[p] EXCEPT !.pc = "ret"] /\ cmd[p].pc \in Stopping
                         \/ cmd'[p] = [cmd[p] EXCEPT !.pc = "ret", !.ok = FALSE] /\ cmd[p].pc = "start"
                         \/ cmd'[p] = cmd[p]
  BY Zenon DEF Exit, Released
<1>9. \A p \in Callers : cmd'[p] \in Command /\ KnowsHandle(cmd'[p])
  <2> TAKE p \in Callers
  <2>1. cmd[p] \in Command /\ KnowsHandle(cmd[p])
    BY TypedWorker DEF WorkerTypes, StopsHaveHandles
  <2> QED
    BY <1>8, <2>1 DEF Command, KnowsHandle, Stopping
<1>10. cmd' \in [Callers -> Command]
  BY <1>9, Zenon DEF Exit
<1> QED
  BY <1>2, <1>6, <1>7, <1>9, <1>10 DEF Exit, WorkerTypes, StopsHaveHandles

LEMMA TimerTypes ==
  ASSUME WorkerTypes, NEW h \in Handles, TimerFires(h)
  PROVE  WorkerTypes'
<1> DEFINE hs == [handle EXCEPT ![h].timer = FALSE]
<1>1. [handle[h] EXCEPT !.timer = FALSE] \in Handle
  BY TypedWorker DEF Handle
<1>2. hs \in [Handles -> Handle]
  BY <1>1, TypedWorker
<1>3. (\E c \in Children : Spawn(hs, h, c)) \/ (handle' = hs /\ UNCHANGED child)
  BY DEF TimerFires
<1> HIDE DEF hs
<1>4. handle' \in [Handles -> Handle] /\ child' \in [Children -> Child] /\ ProcessesHaveHandles'
  <2>1. CASE handle' = hs /\ UNCHANGED child
    BY <1>2, <2>1 DEF WorkerTypes, ProcessesHaveHandles
  <2>2. CASE \E c \in Children : Spawn(hs, h, c)
    BY <1>2, <2>2, SpawnTypes
  <2> QED
    BY <1>3, <2>1, <2>2
<1> QED
  BY <1>4 DEF TimerFires, WorkerTypes, StopsHaveHandles

LEMMA EscalateTypes ==
  ASSUME WorkerTypes, NEW p \in Callers, Escalate(p)
  PROVE  WorkerTypes'
<1> DEFINE h == cmd[p].h
           k == handle[h].child
           next == NextPhase(cmd[p].pc)
<1>1. cmd[p] \in Command /\ h \in Handles
  BY TypedWorker DEF Escalate, WorkerTypes, StopsHaveHandles, KnowsHandle, Stopping
<1>2. handle[h] \in Handle /\ k \in Children \cup {NoChild} /\ next \in {"grace", "term", "kill"}
  BY <1>1, TypedWorker DEF Handle, Escalate, NextPhase
<1>3. CASE k = NoChild
  <2>1. [handle[h] EXCEPT !.status = "stopped"] \in Handle
    BY <1>2 DEF Handle, WorkerStatus
  <2>2. handle' \in [Handles -> Handle]
    BY <1>3, <2>1, TypedWorker, HandleChanges DEF Escalate
  <2>3. [cmd[p] EXCEPT !.pc = "ret"] \in Command /\ KnowsHandle([cmd[p] EXCEPT !.pc = "ret"])
    BY <1>1 DEF Command, KnowsHandle
  <2>4. cmd' \in [Callers -> Command] /\ StopsHaveHandles'
    BY <1>3, <2>3, CallChanges DEF Escalate
  <2> QED
    BY <1>3, <2>2, <2>4 DEF Escalate, WorkerTypes, ProcessesHaveHandles
<1>4. CASE k # NoChild
  <2>1. [cmd[p] EXCEPT !.pc = next, !.c = k] \in Command
        /\ KnowsHandle([cmd[p] EXCEPT !.pc = next, !.c = k])
    BY <1>1, <1>2 DEF Command, KnowsHandle
  <2>2. cmd' = [cmd EXCEPT ![p] = [cmd[p] EXCEPT !.pc = next, !.c = k]]
    BY <1>4, Zenon DEF Escalate
  <2>3. cmd' \in [Callers -> Command] /\ StopsHaveHandles'
    BY <2>1, <2>2, CallChanges
  <2>4. child' = child \/ child' = [child EXCEPT ![k] = [child[k] EXCEPT !.killed = TRUE]]
    BY <1>4 DEF Escalate
  <2>5. child' \in [Children -> Child] /\ ProcessesHaveHandles'
    <3> DEFINE signalled == [child[k] EXCEPT !.killed = TRUE]
    <3>1. k \in Children /\ child[k] \in Child
          /\ (child[k].alive \/ child[k].init # "none" => child[k].of # NoHandle)
      BY <1>2, <1>4, TypedWorker DEF WorkerTypes, ProcessesHaveHandles
    <3>2. signalled \in Child
          /\ (signalled.alive \/ signalled.init # "none" => signalled.of # NoHandle)
      BY <3>1 DEF Child
    <3>3. CASE child' = child
      BY <3>3 DEF WorkerTypes, ProcessesHaveHandles
    <3>4. CASE child' = [child EXCEPT ![k] = signalled]
      <4> HIDE DEF signalled
      <4> QED
        BY <3>1, <3>2, <3>4, ChildChanges
    <3> QED
      BY <2>4, <3>3, <3>4
  <2> QED
    BY <1>4, <2>3, <2>5 DEF Escalate, WorkerTypes
<1> QED
  BY <1>3, <1>4


\* A caller begins to await the start of child c of handle h, or is refused.
LEMMA AwaitTypes ==
  ASSUME WorkerTypes, NEW p \in Callers, NEW o \in {"start", "restarted"},
         NEW h \in Handles \cup {NoHandle}, NEW c \in Children,
         cmd' = [cmd EXCEPT ![p] = [op |-> o, pc |-> "start", h |-> h, c |-> c, ok |-> TRUE]]
  PROVE  cmd' \in [Callers -> Command] /\ StopsHaveHandles'
<1> DEFINE r == [op |-> o, pc |-> "start", h |-> h, c |-> c, ok |-> TRUE]
<1>1. r \in Command /\ KnowsHandle(r)
  BY DEF Command, KnowsHandle, Stopping
<1> HIDE DEF r
<1> QED
  BY <1>1, CallChanges DEF r

LEMMA RefusalTypes ==
  ASSUME WorkerTypes, NEW p \in Callers, NEW o \in {"start", "restarted"},
         cmd' = [cmd EXCEPT ![p] = [Idle EXCEPT !.op = o, !.pc = "ret", !.ok = FALSE]]
  PROVE  cmd' \in [Callers -> Command] /\ StopsHaveHandles'
<1> DEFINE r == [Idle EXCEPT !.op = o, !.pc = "ret", !.ok = FALSE]
<1>1. r \in Command /\ KnowsHandle(r)
  BY DEF Command, KnowsHandle, Stopping, Idle
<1> HIDE DEF r
<1> QED
  BY <1>1, CallChanges DEF r

\* A caller has the result it waited for.
LEMMA CallEnds ==
  ASSUME WorkerTypes, NEW p \in Callers, cmd' = [cmd EXCEPT ![p] = Idle]
  PROVE  cmd' \in [Callers -> Command] /\ StopsHaveHandles'
<1>1. KnowsHandle(Idle)
  BY DEF KnowsHandle, Stopping, Idle
<1> QED
  BY <1>1, NullTypes, CallChanges

LEMMA StartTypes ==
  ASSUME WorkerTypes, NEW p \in Callers, StartWorker(p)
  PROVE  WorkerTypes'
<1>1. CASE InFlight # {}
  <2>1. PICK c \in InFlight :
          cmd' = [cmd EXCEPT ![p] = [op |-> "start", pc |-> "start",
                                     h |-> child[c].of, c |-> c, ok |-> TRUE]]
    BY <1>1 DEF StartWorker
  <2>2. c \in Children /\ child[c].of \in Handles \cup {NoHandle}
    BY TypedWorker DEF InFlight, Child
  <2>3. cmd' \in [Callers -> Command] /\ StopsHaveHandles'
    BY <2>1, <2>2, AwaitTypes
  <2> QED
    BY <1>1, <2>3 DEF StartWorker, WorkerTypes, ProcessesHaveHandles
<1>2. CASE InFlight = {} /\ registry # NoHandle /\ handle[registry].status # "stopped"
  <2>1. cmd' \in [Callers -> Command] /\ StopsHaveHandles'
    BY <1>2, RefusalTypes DEF StartWorker
  <2> QED
    BY <1>2, <2>1 DEF StartWorker, WorkerTypes, ProcessesHaveHandles
<1>3. CASE InFlight = {} /\ ~(registry # NoHandle /\ handle[registry].status # "stopped")
  <2>1. PICK h \in Handles, c \in Children :
          /\ registry' = h
          /\ Spawn([handle EXCEPT ![h] = FreshHandle], h, c)
          /\ cmd' = [cmd EXCEPT ![p] = [op |-> "start", pc |-> "start", h |-> h,
                                        c |-> c, ok |-> TRUE]]
    BY <1>3 DEF StartWorker
  <2>2. cmd' \in [Callers -> Command] /\ StopsHaveHandles'
    BY <2>1, AwaitTypes
  <2>3. [handle EXCEPT ![h] = FreshHandle] \in [Handles -> Handle]
    BY NullTypes, TypedWorker, HandleChanges
  <2>4. handle' \in [Handles -> Handle] /\ child' \in [Children -> Child]
        /\ ProcessesHaveHandles'
    BY <2>1, <2>3, SpawnTypes
  <2> QED
    BY <2>1, <2>2, <2>4 DEF WorkerTypes
<1> QED
  BY <1>1, <1>2, <1>3

LEMMA StopTypes ==
  ASSUME WorkerTypes, NEW p \in Callers, NEW o \in {"stop", "restart"},
         registry # NoHandle, BeginStop(p, o, registry)
  PROVE  WorkerTypes'
<1>1. registry \in Handles
  BY DEF WorkerTypes
<1>2. handle[registry] \in Handle
  BY <1>1, TypedWorker
<1>3. StopBegin(handle[registry]) \in Handle
  BY <1>2 DEF StopBegin, Handle, WorkerStatus
<1>4. handle' \in [Handles -> Handle]
  BY <1>1, <1>3, TypedWorker, HandleChanges DEF BeginStop
<1> DEFINE r == [op |-> o, h |-> registry, ok |-> TRUE,
                 pc |-> IF StopAwaits(registry) THEN "drain" ELSE "ret",
                 c  |-> IF StopAwaits(registry) THEN handle[registry].child ELSE NoChild]
<1>5. r \in Command /\ KnowsHandle(r)
  BY <1>1, <1>2 DEF Command, KnowsHandle, Handle
<1>6. cmd' = [cmd EXCEPT ![p] = r]
  BY DEF BeginStop
<1> HIDE DEF r
<1>7. cmd' \in [Callers -> Command] /\ StopsHaveHandles'
  BY <1>5, <1>6, CallChanges
<1> QED
  BY <1>4, <1>7 DEF BeginStop, WorkerTypes, ProcessesHaveHandles

LEMMA ReturnTypes ==
  ASSUME WorkerTypes, NEW p \in Callers, ReturnStop(p) \/ ReturnRestart(p)
  PROVE  WorkerTypes'
<1>1. CASE ReturnStop(p)
  <2>1. cmd' \in [Callers -> Command] /\ StopsHaveHandles'
    BY <1>1, CallEnds DEF ReturnStop
  <2> QED
    BY <1>1, <2>1 DEF ReturnStop, WorkerTypes, ProcessesHaveHandles
<1>2. CASE ReturnRestart(p) /\ MayStart(cmd[p].h)
  <2>1. cmd[p].h \in Handles
    BY <1>2 DEF ReturnRestart, WorkerTypes, StopsHaveHandles, KnowsHandle
  <2>2. PICK c \in Children :
          /\ Spawn(handle, cmd[p].h, c)
          /\ cmd' = [cmd EXCEPT ![p] = [op |-> "restarted", pc |-> "start", h |-> cmd[p].h,
                                        c |-> c, ok |-> TRUE]]
    BY <1>2 DEF ReturnRestart
  <2>3. cmd' \in [Callers -> Command] /\ StopsHaveHandles'
    BY <2>1, <2>2, AwaitTypes
  <2>4. handle' \in [Handles -> Handle] /\ child' \in [Children -> Child]
        /\ ProcessesHaveHandles'
    BY <2>1, <2>2, SpawnTypes, TypedWorker
  <2> QED
    BY <1>2, <2>3, <2>4 DEF ReturnRestart, WorkerTypes
<1>3. CASE ReturnRestart(p) /\ ~MayStart(cmd[p].h)
  <2>1. cmd' \in [Callers -> Command] /\ StopsHaveHandles'
    BY <1>3, RefusalTypes DEF ReturnRestart
  <2> QED
    BY <1>3, <2>1 DEF ReturnRestart, WorkerTypes, ProcessesHaveHandles
<1> QED
  BY <1>1, <1>2, <1>3

LEMMA WorkerUnchanged == WorkerTypes /\ UNCHANGED workerVars => WorkerTypes'
  BY DEF WorkerTypes, workerVars, ProcessesHaveHandles, StopsHaveHandles

LEMMA CallEndTypes ==
  ASSUME WorkerTypes, NEW p \in Callers, cmd' = [cmd EXCEPT ![p] = Idle],
         UNCHANGED <<registry, handle, child>>
  PROVE  WorkerTypes'
<1>1. cmd' \in [Callers -> Command] /\ StopsHaveHandles'
  BY CallEnds
<1> QED
  BY <1>1 DEF WorkerTypes, ProcessesHaveHandles


-----------------------------------------------------------------------------
(* Types of the operations.                                                 *)

OperationPoints == {"idle", "ready", "load", "activate", "starting", "failed",
                    "errorStop", "error", "down", "downStop", "end", "restarting"}

LEMMA GotoTypes ==
  ASSUME LifecycleTypes, NEW p \in Callers, NEW pc \in OperationPoints, Goto(p, pc)
  PROVE  op' \in [Callers -> Operation]
<1>1. op[p] \in Operation
  BY DEF LifecycleTypes
<1>2. [op[p] EXCEPT !.pc = pc] \in Operation
  BY <1>1 DEF Operation, OperationPoints
<1> QED
  BY <1>2 DEF LifecycleTypes, Goto

LEMMA DoneTypes ==
  ASSUME LifecycleTypes, NEW p \in Callers, Done(p)
  PROVE  op' \in [Callers -> Operation]
  BY NullTypes DEF LifecycleTypes, Done

LEMMA BeginTypes ==
  ASSUME LifecycleTypes, NEW p \in Callers,
         NEW kind \in {"enable", "disable", "unload", "upgrade", "restart"},
         NEW pc \in OperationPoints, Begin(p, kind, pc)
  PROVE  op' \in [Callers -> Operation]
<1>1. [kind |-> kind, pc |-> pc, seen |-> row] \in Operation
  BY DEF LifecycleTypes, Operation, OperationPoints
<1> QED
  BY <1>1 DEF LifecycleTypes, Begin

LEMMA MarkErrorTypes ==
  ASSUME LifecycleTypes, NEW p \in Callers, NEW pc \in OperationPoints,
         op' = [op EXCEPT ![p].pc = pc, ![p].seen = row]
  PROVE  op' \in [Callers -> Operation]
<1>1. op[p] \in Operation
  BY DEF LifecycleTypes
<1>2. [op[p] EXCEPT !.pc = pc, !.seen = row] \in Operation
  BY <1>1 DEF LifecycleTypes, Operation, OperationPoints
<1>3. op' = [op EXCEPT ![p] = [op[p] EXCEPT !.pc = pc, !.seen = row]]
  BY Zenon DEF LifecycleTypes
<1> QED
  BY <1>2, <1>3 DEF LifecycleTypes

LEMMA TransitionTypes ==
  ASSUME LifecycleTypes, NEW p \in Callers, NEW to \in RowStatus, Transition(p, to)
  PROVE  row' \in RowStatus
  BY DEF LifecycleTypes, Transition

LEMMA TypesInit == Init => TypesInv
<1> SUFFICES ASSUME Init PROVE TypesInv
  OBVIOUS
<1>1. WorkerTypes
  BY NullTypes DEF Init, WorkerInit, WorkerTypes, ProcessesHaveHandles, StopsHaveHandles,
     KnowsHandle, NoProcess, Idle, Stopping
<1>2. LifecycleTypes
  BY NullTypes DEF Init, LifecycleTypes, RowStatus, LifecycleAssumption
<1> QED
  BY <1>1, <1>2 DEF TypesInv

LEMMA TypesStep == TypesInv /\ [Next]_vars => TypesInv'
<1> SUFFICES ASSUME TypesInv, [Next]_vars PROVE TypesInv'
  OBVIOUS
<1>0. WorkerTypes /\ LifecycleTypes /\ row \in RowStatus
  BY DEF TypesInv, LifecycleTypes
<1> USE DEF OperationPoints
<1>1. ASSUME NEW p \in Callers, Enable(p)
      PROVE  TypesInv'
  <2>1. WorkerTypes'
    BY <1>0, <1>1, WorkerUnchanged DEF Enable
  <2>2. op' \in [Callers -> Operation] /\ row' \in RowStatus
    BY <1>0, <1>1, BeginTypes DEF Enable
  <2> QED
    BY <1>0, <1>1, <2>1, <2>2 DEF Enable, TypesInv, LifecycleTypes
<1>2. ASSUME NEW p \in Callers, Disable(p)
      PROVE  TypesInv'
  <2>1. WorkerTypes'
    BY <1>0, <1>2, WorkerUnchanged DEF Disable
  <2>2. op' \in [Callers -> Operation] /\ row' \in RowStatus
    BY <1>0, <1>2, BeginTypes DEF Disable
  <2> QED
    BY <1>0, <1>2, <2>1, <2>2 DEF Disable, TypesInv, LifecycleTypes
<1>3. ASSUME NEW p \in Callers, Unload(p)
      PROVE  TypesInv'
  <2>1. WorkerTypes'
    BY <1>0, <1>3, WorkerUnchanged DEF Unload
  <2>2. op' \in [Callers -> Operation] /\ row' \in RowStatus
    BY <1>0, <1>3, BeginTypes DEF Unload
  <2> QED
    BY <1>0, <1>3, <2>1, <2>2 DEF Unload, TypesInv, LifecycleTypes
<1>4. ASSUME NEW p \in Callers, Upgrade(p)
      PROVE  TypesInv'
  <2>1. WorkerTypes'
    BY <1>0, <1>4, WorkerUnchanged DEF Upgrade
  <2>2. op' \in [Callers -> Operation] /\ row' \in RowStatus
    BY <1>0, <1>4, BeginTypes DEF Upgrade
  <2> QED
    BY <1>0, <1>4, <2>1, <2>2 DEF Upgrade, TypesInv, LifecycleTypes
<1>5. ASSUME NEW p \in Callers, Reinstall(p)
      PROVE  TypesInv'
  <2>1. WorkerTypes'
    BY <1>0, <1>5, WorkerUnchanged DEF Reinstall
  <2>2. op' \in [Callers -> Operation] /\ row' \in RowStatus
    BY <1>0, <1>5 DEF Reinstall, RowStatus, LifecycleTypes
  <2> QED
    BY <1>0, <1>5, <2>1, <2>2 DEF Reinstall, TypesInv, LifecycleTypes
<1>6. ASSUME NEW p \in Callers, RestartWorker(p)
      PROVE  TypesInv'
  <2>1. WorkerTypes'
    BY <1>0, <1>6, StopTypes DEF RestartWorker, Restart
  <2>2. op' \in [Callers -> Operation] /\ row' \in RowStatus
    BY <1>0, <1>6, BeginTypes DEF RestartWorker
  <2> QED
    BY <1>0, <1>6, <2>1, <2>2 DEF RestartWorker, TypesInv, LifecycleTypes
<1>7. ASSUME NEW p \in Callers, WriteReady(p)
      PROVE  TypesInv'
  <2>1. WorkerTypes'
    BY <1>0, <1>7, WorkerUnchanged DEF WriteReady
  <2>2. op' \in [Callers -> Operation] /\ row' \in RowStatus
    BY <1>0, <1>7, GotoTypes, TransitionTypes DEF WriteReady, RowStatus
  <2> QED
    BY <1>0, <1>7, <2>1, <2>2 DEF WriteReady, TypesInv, LifecycleTypes
<1>8. ASSUME NEW p \in Callers, LoadSingle(p)
      PROVE  TypesInv'
  <2>1. WorkerTypes'
    BY <1>0, <1>8, WorkerUnchanged DEF LoadSingle
  <2>2. op' \in [Callers -> Operation] /\ row' \in RowStatus
    BY <1>0, <1>8, GotoTypes, DoneTypes DEF LoadSingle
  <2> QED
    BY <1>0, <1>8, <2>1, <2>2 DEF LoadSingle, TypesInv, LifecycleTypes
<1>9. ASSUME NEW p \in Callers, Activate(p)
      PROVE  TypesInv'
  <2>1. WorkerTypes'
    BY <1>0, <1>9, StartTypes DEF Activate
  <2>2. op' \in [Callers -> Operation] /\ row' \in RowStatus
    BY <1>0, <1>9, GotoTypes DEF Activate
  <2> QED
    BY <1>0, <1>9, <2>1, <2>2 DEF Activate, TypesInv, LifecycleTypes
<1>10. ASSUME NEW p \in Callers, Activated(p)
      PROVE  TypesInv'
  <2>1. WorkerTypes'
    BY <1>0, <1>10, CallEndTypes DEF Activated
  <2>2. op' \in [Callers -> Operation] /\ row' \in RowStatus
    BY <1>0, <1>10, GotoTypes, DoneTypes DEF Activated
  <2> QED
    BY <1>0, <1>10, <2>1, <2>2 DEF Activated, TypesInv, LifecycleTypes
<1>11. ASSUME NEW p \in Callers, MarkError(p)
      PROVE  TypesInv'
  <2>1. WorkerTypes'
    BY <1>0, <1>11, WorkerUnchanged, StopTypes DEF MarkError, StopWorker
  <2>2. op' \in [Callers -> Operation] /\ row' \in RowStatus
    BY <1>0, <1>11, MarkErrorTypes DEF MarkError
  <2> QED
    BY <1>0, <1>11, <2>1, <2>2 DEF MarkError, TypesInv, LifecycleTypes
<1>12. ASSUME NEW p \in Callers, ErrorStopped(p)
      PROVE  TypesInv'
  <2>1. WorkerTypes'
    BY <1>0, <1>12, ReturnTypes DEF ErrorStopped
  <2>2. op' \in [Callers -> Operation] /\ row' \in RowStatus
    BY <1>0, <1>12, GotoTypes DEF ErrorStopped
  <2> QED
    BY <1>0, <1>12, <2>1, <2>2 DEF ErrorStopped, TypesInv, LifecycleTypes
<1>13. ASSUME NEW p \in Callers, WriteError(p)
      PROVE  TypesInv'
  <2>1. WorkerTypes'
    BY <1>0, <1>13, WorkerUnchanged DEF WriteError
  <2>2. op' \in [Callers -> Operation] /\ row' \in RowStatus
    BY <1>0, <1>13, DoneTypes, TransitionTypes DEF WriteError, RowStatus
  <2> QED
    BY <1>0, <1>13, <2>1, <2>2 DEF WriteError, TypesInv, LifecycleTypes
<1>14. ASSUME NEW p \in Callers, UnloadSingle(p)
      PROVE  TypesInv'
  <2>1. WorkerTypes'
    BY <1>0, <1>14, WorkerUnchanged, StopTypes DEF UnloadSingle, StopWorker, IsRunning
  <2>2. op' \in [Callers -> Operation] /\ row' \in RowStatus
    BY <1>0, <1>14, GotoTypes DEF UnloadSingle
  <2> QED
    BY <1>0, <1>14, <2>1, <2>2 DEF UnloadSingle, TypesInv, LifecycleTypes
<1>15. ASSUME NEW p \in Callers, Unloaded(p)
      PROVE  TypesInv'
  <2>1. WorkerTypes'
    BY <1>0, <1>15, ReturnTypes DEF Unloaded
  <2>2. op' \in [Callers -> Operation] /\ row' \in RowStatus
    BY <1>0, <1>15, GotoTypes DEF Unloaded
  <2> QED
    BY <1>0, <1>15, <2>1, <2>2 DEF Unloaded, TypesInv, LifecycleTypes
<1>16. ASSUME NEW p \in Callers, EndDisable(p)
      PROVE  TypesInv'
  <2>1. WorkerTypes'
    BY <1>0, <1>16, WorkerUnchanged DEF EndDisable
  <2>2. op' \in [Callers -> Operation] /\ row' \in RowStatus
    BY <1>0, <1>16, DoneTypes, TransitionTypes DEF EndDisable, RowStatus
  <2> QED
    BY <1>0, <1>16, <2>1, <2>2 DEF EndDisable, TypesInv, LifecycleTypes
<1>17. ASSUME NEW p \in Callers, EndUnload(p)
      PROVE  TypesInv'
  <2>1. WorkerTypes'
    BY <1>0, <1>17, WorkerUnchanged DEF EndUnload
  <2>2. op' \in [Callers -> Operation] /\ row' \in RowStatus
    BY <1>0, <1>17, DoneTypes DEF EndUnload, RowStatus
  <2> QED
    BY <1>0, <1>17, <2>1, <2>2 DEF EndUnload, TypesInv, LifecycleTypes
<1>18. ASSUME NEW p \in Callers, EndUpgrade(p)
      PROVE  TypesInv'
  <2>1. WorkerTypes'
    BY <1>0, <1>18, WorkerUnchanged DEF EndUpgrade
  <2>2. op' \in [Callers -> Operation] /\ row' \in RowStatus
    BY <1>0, <1>18, GotoTypes, DoneTypes, TransitionTypes DEF EndUpgrade, RowStatus
  <2> QED
    BY <1>0, <1>18, <2>1, <2>2 DEF EndUpgrade, TypesInv, LifecycleTypes
<1>19. ASSUME NEW p \in Callers, Restarting(p)
      PROVE  TypesInv'
  <2>1. WorkerTypes'
    BY <1>0, <1>19, ReturnTypes DEF Restarting
  <2>2. op' \in [Callers -> Operation] /\ row' \in RowStatus
    BY <1>0, <1>19 DEF Restarting, LifecycleTypes
  <2> QED
    BY <1>0, <1>19, <2>1, <2>2 DEF Restarting, TypesInv, LifecycleTypes
<1>20. ASSUME NEW p \in Callers, Restarted(p)
      PROVE  TypesInv'
  <2>1. WorkerTypes'
    BY <1>0, <1>20, CallEndTypes DEF Restarted
  <2>2. op' \in [Callers -> Operation] /\ row' \in RowStatus
    BY <1>0, <1>20, DoneTypes DEF Restarted
  <2> QED
    BY <1>0, <1>20, <2>1, <2>2 DEF Restarted, TypesInv, LifecycleTypes
<1>21. ASSUME WorkerAlone
      PROVE  TypesInv'
  <2>1. WorkerTypes'
    BY <1>0, <1>21, InitTypes, ExitTypes, TimerTypes, EscalateTypes DEF WorkerAlone
  <2> QED
    BY <1>0, <1>21, <2>1 DEF WorkerAlone, TypesInv, LifecycleTypes
<1>22. ASSUME ServerRestart
      PROVE  TypesInv'
  <2>1. WorkerTypes'
    BY <1>0, <1>22, NullTypes DEF ServerRestart, WorkerTypes, ProcessesHaveHandles,
       StopsHaveHandles, KnowsHandle, NoProcess, Idle, Stopping
  <2>2. restarts' \in 0 .. MaxRestarts
    BY <1>0, <1>22 DEF ServerRestart, LifecycleTypes, LifecycleAssumption
  <2>3. op' \in [Callers -> Operation]
    BY <1>22, NullTypes DEF ServerRestart
  <2> QED
    BY <1>0, <1>22, <2>1, <2>2, <2>3 DEF ServerRestart, TypesInv, LifecycleTypes
<1>23. ASSUME UNCHANGED vars
      PROVE  TypesInv'
  BY <1>0, <1>23, WorkerUnchanged DEF vars, TypesInv, LifecycleTypes
<1> QED
  BY <1>1, <1>2, <1>3, <1>4, <1>5, <1>6, <1>7, <1>8, <1>9, <1>10, <1>11, <1>12,
     <1>13, <1>14, <1>15, <1>16, <1>17, <1>18, <1>19, <1>20, <1>21, <1>22, <1>23
  DEF Next, Operate, Continue

LEMMA TypesHold == Spec => []TypesInv
  BY TypesInit, TypesStep, PTL DEF Spec


-----------------------------------------------------------------------------
(* One operation at a time.                                                 *)

\* While operations do not overlap, one caller at most is in one.
OneOperation == \A p, q \in Callers : ~At(p, "idle") /\ ~At(q, "idle") => p = q

\* Where a caller is in an operation says what it awaits in the manager.
Awaiting == {"starting", "errorStop", "downStop", "restarting"}

Matches(o, r) ==
  \/ o.pc = "starting" /\ r.op = "start" /\ r.pc \in {"start", "ret"}
  \/ /\ o.pc \in {"errorStop", "downStop"}
     /\ r.op = "stop" /\ r.pc \in Stopping \cup {"ret"}
  \/ /\ o.pc = "restarting"
     /\ \/ r.op = "restart" /\ r.pc \in Stopping \cup {"ret"}
        \/ r.op = "restarted" /\ r.pc \in {"start", "ret"}
  \/ o.pc \notin Awaiting /\ r.op = "none" /\ r.pc = "idle"

CallsMatch == \A p \in Callers : Matches(op[p], cmd[p])

\* A process is the child of the registered handle, which knows it; a slot
\* without a process is empty.
ChildrenAreKnown ==
  \A c \in Children :
    \/ child[c] = NoProcess
    \/ /\ child[c].alive /\ child[c].of = registry /\ registry \in Handles
       /\ handle[registry].child = c
       /\ child[c].victim = IF child[c].init = "killing" THEN c ELSE NoChild

\* A handle that refers to a child has a process; running, it has an answer
\* to initialize; stopped, it has no process.
HandlesAreTrue ==
  \A h \in Handles :
    /\ handle[h].child # NoChild => child[handle[h].child].alive /\ child[handle[h].child].of = h
    /\ handle[h].status = "running" =>
         handle[h].child # NoChild /\ child[handle[h].child].init = "none"
    /\ handle[h].status = "stopped" => handle[h].child = NoChild

\* Only the registered handle has a timer, and only while it has no process.
TimersAreOwned ==
  \A h \in Handles :
    handle[h].timer => /\ h = registry /\ handle[h].child = NoChild
                       /\ handle[h].status \in {"backoff", "crashed"}

\* A stop waits for the process of the registered handle to exit, and has
\* seen it gone, and no timer left, when it returns; a handle is "stopping"
\* during a stop only.
StopsAreTrue ==
  /\ \A p \in Callers :
       /\ cmd[p].pc \in Stopping =>
            /\ cmd[p].h = registry /\ registry \in Handles
            /\ handle[registry].stop
            /\ cmd[p].c = handle[registry].child /\ cmd[p].c # NoChild
       /\ cmd[p].op \in {"stop", "restart"} /\ cmd[p].pc = "ret" =>
            /\ cmd[p].h = registry /\ registry \in Handles
            /\ handle[registry].child = NoChild /\ ~handle[registry].timer
  /\ \A h \in Handles : handle[h].status = "stopping" =>
       \E p \in Callers : cmd[p].pc \in Stopping /\ cmd[p].h = h

WorkerSafe == ChildrenAreKnown /\ HandlesAreTrue /\ TimersAreOwned /\ StopsAreTrue

SafeInv == OneOperation /\ CallsMatch /\ WorkerSafe

\* The manager's operations: what the caller of one is in.
NoStop(r) == r.pc \notin Stopping /\ ~(r.op \in {"stop", "restart"} /\ r.pc = "ret")

\* A registered handle without a child means that there is no process at all.
LEMMA NoProcessLeft ==
  ASSUME WorkerTypes, WorkerSafe, registry # NoHandle => handle[registry].child = NoChild
  PROVE  /\ \A d \in Children : child[d] = NoProcess
         /\ \A x \in Handles : handle[x].child = NoChild /\ handle[x].status # "running"
<1>1. \A d \in Children : child[d] = NoProcess
  BY DEF WorkerSafe, ChildrenAreKnown, WorkerAssumption
<1>2. ASSUME NEW x \in Handles, handle[x].child # NoChild
      PROVE  FALSE
  <2>1. handle[x].child \in Children
    BY <1>2, TypedWorker DEF Handle
  <2>2. child[handle[x].child].alive
    BY <1>2 DEF WorkerSafe, HandlesAreTrue
  <2> QED
    BY <1>1, <2>1, <2>2 DEF NoProcess
<1> QED
  BY <1>1, <1>2 DEF WorkerSafe, HandlesAreTrue

\* A child is forked while there is no process, and its handle is the
\* registered one.
LEMMA SpawnSafe ==
  ASSUME WorkerTypes, NEW hs \in [Handles -> Handle], NEW h \in Handles, NEW c \in Children,
         Spawn(hs, h, c), registry' = h,
         \A d \in Children : child[d] = NoProcess,
         \A x \in Handles : hs[x].child = NoChild /\ ~hs[x].timer
                            /\ hs[x].status \notin {"running", "stopping"},
         \A p \in Callers : NoStop(cmd'[p])
  PROVE  WorkerSafe'
<1>1. /\ \A x \in Handles : x # h => handle'[x] = hs[x]
      /\ handle'[h].child = c /\ handle'[h].status = "starting" /\ ~handle'[h].timer
  <2>1. hs[h] \in Handle
    OBVIOUS
  <2>2. handle' = [hs EXCEPT ![h] = [hs[h] EXCEPT !.status = "starting", !.stop = FALSE, !.child = c]]
    BY Zenon DEF Spawn
  <2> QED
    BY <2>1, <2>2 DEF Handle
<1>2. /\ \A d \in Children : d # c => child'[d] = NoProcess
      /\ child'[c].alive /\ child'[c].of = h /\ child'[c].init = "sent"
      /\ child'[c].victim = NoChild
  BY TypedWorker DEF Spawn, NoProcess
<1>3. ChildrenAreKnown'
  BY <1>1, <1>2 DEF ChildrenAreKnown
<1>4. HandlesAreTrue'
  BY <1>1, <1>2 DEF HandlesAreTrue
<1>5. TimersAreOwned'
  BY <1>1 DEF TimersAreOwned
<1>6. StopsAreTrue'
  BY <1>1 DEF StopsAreTrue, NoStop
<1> QED
  BY <1>3, <1>4, <1>5, <1>6 DEF WorkerSafe

\* Only the calls change, and none enters or leaves a stop.
LEMMA CallsSafe ==
  ASSUME WorkerSafe, UNCHANGED <<registry, handle, child>>,
         \A p \in Callers : cmd'[p] = cmd[p] \/ (NoStop(cmd'[p]) /\ cmd[p].pc \notin Stopping)
  PROVE  WorkerSafe'
<1>1. ChildrenAreKnown' /\ HandlesAreTrue' /\ TimersAreOwned'
  BY DEF WorkerSafe, ChildrenAreKnown, HandlesAreTrue, TimersAreOwned
<1>2. StopsAreTrue'
  BY DEF WorkerSafe, StopsAreTrue, NoStop
<1> QED
  BY <1>1, <1>2 DEF WorkerSafe

LEMMA CallOfStart ==
  ASSUME CallsMatch, NEW p \in Callers, cmd[p].pc = "start"
  PROVE  cmd[p].op \in {"start", "restarted"}
  BY DEF CallsMatch, Matches, Stopping

LEMMA SettledKeeps ==
  ASSUME WorkerTypes, CallsMatch, NEW c, NEW ok, cmd' = Settled(c, ok)
  PROVE  \A p \in Callers : cmd'[p] = cmd[p] \/ (NoStop(cmd'[p]) /\ cmd[p].pc \notin Stopping)
<1> TAKE p \in Callers
<1>1. CASE cmd[p].pc = "start" /\ cmd[p].c = c
  <2>1. cmd'[p] = [cmd[p] EXCEPT !.pc = "ret", !.ok = ok]
    BY <1>1 DEF Settled
  <2>2. cmd[p] \in Command
    BY TypedWorker
  <2> QED
    BY <1>1, <2>1, <2>2, CallOfStart DEF Command, NoStop, Stopping
<1>2. CASE ~(cmd[p].pc = "start" /\ cmd[p].c = c)
  BY <1>2 DEF Settled
<1> QED
  BY <1>1, <1>2

\* A process of which initialize is awaited, or any other, is the child of
\* the registered handle.
LEMMA ProcessIsRegistered ==
  ASSUME WorkerTypes, WorkerSafe, NEW c \in Children, child[c] # NoProcess
  PROVE  /\ child[c].alive /\ child[c].of = registry /\ registry \in Handles
         /\ handle[registry].child = c
         /\ child[c].victim = IF child[c].init = "killing" THEN c ELSE NoChild
         /\ \A d \in Children : d # c => child[d] = NoProcess
         /\ ~handle[registry].timer
  BY DEF WorkerSafe, ChildrenAreKnown, TimersAreOwned, WorkerAssumption


LEMMA InitSafe ==
  ASSUME WorkerTypes, WorkerSafe, CallsMatch, NEW c \in Children, InitOk(c) \/ InitFails(c)
  PROVE  WorkerSafe'
<1> DEFINE h == registry
<1>1. child[c].init = "sent"
  BY DEF InitOk, InitFails
<1>2. /\ child[c].alive /\ child[c].of = h /\ h \in Handles
      /\ handle[h].child = c /\ child[c].victim = NoChild /\ ~handle[h].timer
      /\ \A d \in Children : d # c => child[d] = NoProcess
  <2>1. child[c] # NoProcess
    BY <1>1 DEF NoProcess
  <2> QED
    BY <1>1, <2>1, ProcessIsRegistered
<1>3. handle[h] \in Handle /\ child[c] \in Child /\ c # NoChild
  BY <1>2, TypedWorker DEF WorkerAssumption
<1>4. /\ UNCHANGED registry
      /\ \A p \in Callers : cmd'[p] = cmd[p] \/ (NoStop(cmd'[p]) /\ cmd[p].pc \notin Stopping)
  BY <1>2, <1>3, SettledKeeps DEF InitOk, InitFails
<1>5. /\ \A x \in Handles : x # h => handle'[x] = handle[x]
      /\ handle'[h].child = c /\ ~handle'[h].timer /\ (handle[h].stop => handle'[h].stop)
      /\ \/ handle'[h].status = "running" /\ child'[c].init = "none"
         \/ handle'[h].status = handle[h].status /\ child[c].init = "sent"
  <2>1. CASE InitOk(c)
    <3>1. handle' = [handle EXCEPT ![h] = [handle[h] EXCEPT !.status = "running", !.crashes = 0]]
      BY <1>2, <2>1, TypedWorker, Zenon DEF InitOk
    <3>2. child' = [child EXCEPT ![c] = [child[c] EXCEPT !.init = "none"]]
      BY <2>1 DEF InitOk
    <3> QED
      BY <1>2, <1>3, <3>1, <3>2, TypedWorker DEF Handle, Child
  <2>2. CASE InitFails(c)
    <3>1. handle' = [handle EXCEPT ![h] = [handle[h] EXCEPT !.stop = TRUE]]
      BY <1>2, <1>3, <2>2 DEF InitFails
    <3> QED
      BY <1>1, <1>2, <1>3, <3>1, TypedWorker DEF Handle
  <2> QED
    BY <2>1, <2>2
<1>6. /\ \A d \in Children : d # c => child'[d] = child[d]
      /\ child'[c].alive /\ child'[c].of = h
      /\ child'[c].victim = IF child'[c].init = "killing" THEN c ELSE NoChild
  <2>1. CASE InitOk(c)
    <3>1. child' = [child EXCEPT ![c] = [child[c] EXCEPT !.init = "none"]]
      BY <2>1 DEF InitOk
    <3> QED
      BY <1>2, <1>3, <3>1, TypedWorker DEF Child
  <2>2. CASE InitFails(c)
    <3>1. child' = [child EXCEPT ![c].killed = TRUE, ![c].init = "killing", ![c].victim = c]
      BY <1>2, <1>3, <2>2 DEF InitFails
    <3>2. child' = [child EXCEPT ![c] = [child[c] EXCEPT !.killed = TRUE, !.init = "killing",
                                                        !.victim = c]]
      BY <3>1, TypedWorker, Zenon
    <3> QED
      BY <1>2, <1>3, <3>2, TypedWorker DEF Child
  <2> QED
    BY <2>1, <2>2
<1> HIDE DEF h
<1>7. handle[h].status # "running"
  BY <1>1, <1>2 DEF WorkerSafe, HandlesAreTrue
<1>8. ChildrenAreKnown'
  BY <1>2, <1>4, <1>5, <1>6 DEF ChildrenAreKnown, h
<1>9. HandlesAreTrue'
  <2> SUFFICES ASSUME NEW x \in Handles
               PROVE  /\ handle'[x].child # NoChild => child'[handle'[x].child].alive
                                                       /\ child'[handle'[x].child].of = x
                      /\ handle'[x].status = "running" =>
                           handle'[x].child # NoChild /\ child'[handle'[x].child].init = "none"
                      /\ handle'[x].status = "stopped" => handle'[x].child = NoChild
    BY DEF HandlesAreTrue
  <2>1. CASE x = h
    BY <1>2, <1>3, <1>5, <1>6, <1>7, <2>1 DEF WorkerSafe, HandlesAreTrue
  <2>2. CASE x # h
    <3>1. handle[x].child = NoChild
      <4> SUFFICES ASSUME handle[x].child # NoChild PROVE FALSE
        OBVIOUS
      <4>1. handle[x].child \in Children /\ child[handle[x].child].of = x
            /\ child[handle[x].child].alive
        BY TypedWorker DEF Handle, WorkerSafe, HandlesAreTrue
      <4> QED
        BY <1>2, <2>2, <4>1 DEF NoProcess
    <3> QED
      BY <1>5, <2>2, <3>1 DEF WorkerSafe, HandlesAreTrue
  <2> QED
    BY <2>1, <2>2
<1>10. TimersAreOwned'
  BY <1>4, <1>5 DEF WorkerSafe, TimersAreOwned
<1>11. StopsAreTrue'
  <2>1. \A p \in Callers :
          /\ cmd'[p].pc \in Stopping =>
               /\ cmd'[p].h = registry /\ registry \in Handles
               /\ handle'[registry].stop
               /\ cmd'[p].c = handle'[registry].child /\ cmd'[p].c # NoChild
          /\ ~(cmd'[p].op \in {"stop", "restart"} /\ cmd'[p].pc = "ret")
    <3> TAKE p \in Callers
    <3>1. CASE cmd'[p] = cmd[p]
      BY <1>2, <1>3, <1>5, <3>1 DEF WorkerSafe, StopsAreTrue, h
    <3>2. CASE NoStop(cmd'[p])
      BY <3>2 DEF NoStop
    <3> QED
      BY <1>4, <3>1, <3>2
  <2>2. \A x \in Handles : handle'[x].status = "stopping" =>
          \E p \in Callers : cmd'[p].pc \in Stopping /\ cmd'[p].h = x
    <3> SUFFICES ASSUME NEW x \in Handles, handle'[x].status = "stopping"
                 PROVE  \E p \in Callers : cmd'[p].pc \in Stopping /\ cmd'[p].h = x
      OBVIOUS
    <3>1. handle[x].status = "stopping"
      BY <1>5
    <3>2. PICK p \in Callers : cmd[p].pc \in Stopping /\ cmd[p].h = x
      BY <3>1 DEF WorkerSafe, StopsAreTrue
    <3> QED
      BY <1>4, <3>2
  <2> QED
    BY <1>4, <2>1, <2>2 DEF StopsAreTrue
<1> QED
  BY <1>8, <1>9, <1>10, <1>11 DEF WorkerSafe

LEMMA ExitSafe ==
  ASSUME WorkerTypes, WorkerSafe, CallsMatch, NEW c \in Children, Exit(c)
  PROVE  WorkerSafe'
<1> DEFINE h == registry
           fail == FailedStarts(c)
           free == {p \in Callers : Released(p, c)}
<1>1. /\ child[c].alive /\ child[c].of = h /\ h \in Handles
      /\ handle[h].child = c
      /\ child[c].victim = IF child[c].init = "killing" THEN c ELSE NoChild
      /\ \A d \in Children : d # c => child[d] = NoProcess
      /\ ~handle[h].timer
  <2>1. child[c].alive
    BY DEF Exit
  <2>2. child[c] # NoProcess
    BY <2>1 DEF NoProcess
  <2> QED
    BY <2>2, ProcessIsRegistered
<1>2. handle[h] \in Handle /\ child[c] \in Child /\ c # NoChild
  BY <1>1, TypedWorker DEF WorkerAssumption
<1>3. fail \subseteq {c} /\ (child[c].init # "none" => c \in fail)
  BY <1>1, <1>2 DEF FailedStarts, NoProcess, Child, WorkerAssumption
<1>4. PICK within \in BOOLEAN, last \in WorkerStatus :
        /\ last \in IF fail # {} /\ free # {} THEN {"crashed", "stopped"}
                    ELSE IF fail # {} THEN {"crashed"}
                    ELSE IF free # {} THEN {"stopped"} ELSE {AfterExit(handle[h], within).status}
        /\ handle' = [handle EXCEPT ![h] = [AfterExit(handle[h], within) EXCEPT !.status = last]]
  BY <1>1 DEF Exit
<1>5. \A d \in Children : child'[d] = NoProcess
  <2> TAKE d \in Children
  <2>1. CASE d = c
    BY <1>3, <2>1 DEF Exit
  <2>2. CASE d # c
    BY <1>1, <1>3, <2>2, Zenon DEF Exit
  <2> QED
    BY <2>1, <2>2
<1>6. \A p \in Callers : cmd[p].pc \in Stopping => p \in free
  BY <1>1 DEF Released, WorkerSafe, StopsAreTrue
<1>7. /\ \A p \in free : cmd'[p] = [cmd[p] EXCEPT !.pc = "ret"] /\ cmd[p].pc \in Stopping
      /\ \A p \in Callers \ free : cmd'[p] = cmd[p]
           \/ (cmd'[p] = [cmd[p] EXCEPT !.pc = "ret", !.ok = FALSE] /\ cmd[p].pc = "start")
  BY Zenon DEF Exit, Released
<1>8. free # {} => handle[h].stop
  BY DEF Released, WorkerSafe, StopsAreTrue
<1> HIDE DEF free, fail
<1>9. /\ AfterExit(handle[h], within) \in Handle
      /\ AfterExit(handle[h], within).child = NoChild
      /\ AfterExit(handle[h], within).status \in {"stopped", "backoff", "crashed"}
      /\ handle[h].stop => ~AfterExit(handle[h], within).timer
      /\ AfterExit(handle[h], within).timer =>
           AfterExit(handle[h], within).status \in {"backoff", "crashed"}
  <2>1. AfterExit(handle[h], within) \in Handle
    BY <1>2, <1>4, AfterExitType
  <2> QED
    BY <1>1, <1>2, <2>1, AfterExitShape
<1>10. /\ \A x \in Handles : x # h => handle'[x] = handle[x]
       /\ handle'[h].child = NoChild /\ handle'[h].status = last
       /\ handle'[h].timer = AfterExit(handle[h], within).timer
  BY <1>1, <1>4, <1>9, TypedWorker DEF Handle
<1>11. last \in {"stopped", "backoff", "crashed"}
       /\ (handle'[h].timer => last \in {"backoff", "crashed"})
  BY <1>4, <1>8, <1>9, <1>10
<1>12. registry' = registry
  BY DEF Exit
<1>13. \A x \in Handles : x # h => handle[x].child = NoChild /\ handle[x].status # "running"
                                    /\ handle[x].status # "stopping" /\ ~handle[x].timer
  <2> SUFFICES ASSUME NEW x \in Handles, x # h
               PROVE  handle[x].child = NoChild /\ handle[x].status # "running"
                      /\ handle[x].status # "stopping" /\ ~handle[x].timer
    OBVIOUS
  <2>1. handle[x].child = NoChild
    <3> SUFFICES ASSUME handle[x].child # NoChild PROVE FALSE
      OBVIOUS
    <3>1. handle[x].child \in Children /\ child[handle[x].child].of = x
          /\ child[handle[x].child].alive
      BY TypedWorker DEF Handle, WorkerSafe, HandlesAreTrue
    <3> QED
      BY <1>1, <3>1 DEF NoProcess
  <2> QED
    BY <2>1 DEF WorkerSafe, HandlesAreTrue, StopsAreTrue, TimersAreOwned
<1> HIDE DEF h
<1>14. ChildrenAreKnown'
  BY <1>5 DEF ChildrenAreKnown, NoProcess
<1>15. HandlesAreTrue'
  BY <1>10, <1>11, <1>13 DEF HandlesAreTrue
<1>16. TimersAreOwned'
  BY <1>10, <1>11, <1>12, <1>13 DEF TimersAreOwned, h
<1>17. \A p \in Callers :
         /\ cmd'[p].pc \notin Stopping
         /\ cmd'[p].op \in {"stop", "restart"} /\ cmd'[p].pc = "ret" => p \in free
  <2> TAKE p \in Callers
  <2>1. cmd[p] \in Command
    BY TypedWorker
  <2>2. CASE p \in free
    BY <1>7, <2>1, <2>2 DEF Command, Stopping
  <2>3. CASE p \notin free /\ cmd'[p] = cmd[p]
    BY <1>6, <2>3 DEF Exit, Quiet
  <2>4. CASE p \notin free /\ cmd'[p] # cmd[p]
    BY <1>7, <2>1, <2>4, CallOfStart DEF Command, Stopping
  <2> QED
    BY <2>2, <2>3, <2>4
<1>18. StopsAreTrue'
  <2>1. \A p \in free : p \in Callers => cmd'[p].h = h /\ handle[h].stop
    <3> SUFFICES ASSUME NEW p \in Callers, p \in free PROVE cmd'[p].h = h /\ handle[h].stop
      OBVIOUS
    <3>1. cmd[p] \in Command /\ cmd[p].pc \in Stopping /\ cmd'[p] = [cmd[p] EXCEPT !.pc = "ret"]
      BY <1>7, TypedWorker
    <3>2. cmd[p].h = h /\ handle[h].stop
      BY <3>1 DEF WorkerSafe, StopsAreTrue, h
    <3> QED
      BY <3>1, <3>2 DEF Command
  <2> QED
    BY <1>1, <1>9, <1>10, <1>11, <1>12, <1>13, <1>17, <2>1 DEF StopsAreTrue, h
<1> QED
  BY <1>14, <1>15, <1>16, <1>18 DEF WorkerSafe


\* With no process, nobody is in a stop that waits, and no handle is stopping.
LEMMA NobodyStops ==
  ASSUME WorkerTypes, WorkerSafe, registry # NoHandle => handle[registry].child = NoChild
  PROVE  /\ \A p \in Callers : cmd[p].pc \notin Stopping
         /\ \A x \in Handles : handle[x].status # "stopping"
<1>1. \A p \in Callers : cmd[p].pc \notin Stopping
  BY DEF WorkerSafe, StopsAreTrue, WorkerAssumption
<1> QED
  BY <1>1 DEF WorkerSafe, StopsAreTrue

LEMMA TimerSafe ==
  ASSUME WorkerTypes, WorkerSafe, NEW h \in Handles, TimerFires(h)
  PROVE  WorkerSafe'
<1> DEFINE hs == [handle EXCEPT ![h].timer = FALSE]
<1>1. h = registry /\ handle[h].child = NoChild /\ handle[h].status \in {"backoff", "crashed"}
  BY DEF TimerFires, WorkerSafe, TimersAreOwned
<1>2. /\ \A d \in Children : child[d] = NoProcess
      /\ \A x \in Handles : handle[x].child = NoChild /\ handle[x].status # "running"
      /\ \A x \in Handles : handle[x].status # "stopping"
      /\ \A p \in Callers : cmd[p].pc \notin Stopping
  BY <1>1, NoProcessLeft, NobodyStops
<1>3. [handle[h] EXCEPT !.timer = FALSE] \in Handle
  BY TypedWorker DEF Handle
<1>4. hs \in [Handles -> Handle] /\ \A x \in Handles : /\ hs[x].child = handle[x].child
                                                      /\ hs[x].status = handle[x].status
                                                      /\ ~hs[x].timer
  <2>1. hs = [handle EXCEPT ![h] = [handle[h] EXCEPT !.timer = FALSE]]
    OBVIOUS
  <2> HIDE DEF hs
  <2> QED
    BY <1>1, <1>3, <2>1, TypedWorker DEF Handle, WorkerSafe, TimersAreOwned
<1>5. PICK c \in Children : Spawn(hs, h, c)
  BY <1>1 DEF TimerFires, MayStart
<1> HIDE DEF hs
<1>6. \A p \in Callers : NoStop(cmd'[p])
  BY <1>2 DEF TimerFires, NoStop, Quiet
<1>7. registry' = h
  BY <1>1 DEF TimerFires
<1> QED
  BY <1>2, <1>4, <1>5, <1>6, <1>7, SpawnSafe

LEMMA EscalateSafe ==
  ASSUME WorkerTypes, WorkerSafe, NEW p \in Callers, Escalate(p)
  PROVE  WorkerSafe'
<1> DEFINE k == handle[registry].child
<1>1. cmd[p].pc \in {"drain", "grace", "term"} /\ cmd[p].pc \in Stopping
  BY DEF Escalate, Stopping
<1>2. /\ cmd[p].h = registry /\ registry \in Handles /\ handle[registry].stop
      /\ cmd[p].c = k /\ k # NoChild
  BY <1>1 DEF WorkerSafe, StopsAreTrue
<1>3. k \in Children /\ child[k].alive /\ child[k].of = registry
  BY <1>2, TypedWorker DEF Handle, WorkerSafe, HandlesAreTrue
<1>4. NextPhase(cmd[p].pc) \in Stopping
  BY <1>1 DEF NextPhase, Stopping
<1>5. UNCHANGED <<registry, handle>>
      /\ cmd' = [cmd EXCEPT ![p] = [cmd[p] EXCEPT !.pc = NextPhase(cmd[p].pc), !.c = k]]
  BY <1>2, Zenon DEF Escalate
<1>6. child' = child \/ child' = [child EXCEPT ![k] = [child[k] EXCEPT !.killed = TRUE]]
  BY <1>2 DEF Escalate
<1>7. \A d \in Children : /\ child'[d].alive = child[d].alive /\ child'[d].of = child[d].of
                          /\ child'[d].init = child[d].init /\ child'[d].victim = child[d].victim
                          /\ child[d] = NoProcess => child'[d] = NoProcess
  <2>1. child[k] # NoProcess
    BY <1>3 DEF NoProcess
  <2> QED
    BY <1>3, <1>6, <2>1, TypedWorker DEF Child
<1> HIDE DEF k
<1>8. ChildrenAreKnown'
  BY <1>5, <1>7 DEF WorkerSafe, ChildrenAreKnown
<1>9. HandlesAreTrue'
  <2>1. \A x \in Handles : handle[x].child # NoChild => handle[x].child \in Children
    BY TypedWorker DEF Handle
  <2> QED
    BY <1>5, <1>7, <2>1 DEF WorkerSafe, HandlesAreTrue
<1>10. TimersAreOwned'
  BY <1>5 DEF WorkerSafe, TimersAreOwned
<1>11. /\ \A q \in Callers : q # p => cmd'[q] = cmd[q]
       /\ cmd'[p].pc \in Stopping /\ cmd'[p].h = registry /\ cmd'[p].c = k
  <2>1. cmd[p] \in Command
    BY TypedWorker
  <2> QED
    BY <1>2, <1>4, <1>5, <2>1, TypedWorker DEF Command
<1>12. cmd'[p].pc # "ret"
  BY <1>11 DEF Stopping
<1>13. StopsAreTrue'
  BY <1>2, <1>5, <1>11, <1>12 DEF WorkerSafe, StopsAreTrue, k
<1> QED
  BY <1>8, <1>9, <1>10, <1>13 DEF WorkerSafe

-----------------------------------------------------------------------------
(* Calls of the manager, while no other is in progress.                     *)

LEMMA StartSafe ==
  ASSUME WorkerTypes, WorkerSafe, NEW p \in Callers, StartWorker(p),
         \A q \in Callers : cmd[q].pc = "idle"
  PROVE  WorkerSafe'
<1>1. InFlight = {}
  BY DEF InFlight
<1>2. \A q \in Callers : cmd[q].pc \notin Stopping /\ NoStop(cmd[q])
  BY DEF Stopping, NoStop
<1>3. CASE registry # NoHandle /\ handle[registry].status # "stopped"
  <2>1. /\ cmd' = [cmd EXCEPT ![p] = [Idle EXCEPT !.op = "start", !.pc = "ret", !.ok = FALSE]]
        /\ UNCHANGED <<registry, handle, child>>
    BY <1>1, <1>3 DEF StartWorker
  <2>2. NoStop([Idle EXCEPT !.op = "start", !.pc = "ret", !.ok = FALSE])
    BY DEF NoStop, Idle, Stopping
  <2>3. \A q \in Callers : NoStop(cmd'[q])
    BY <1>2, <2>1, <2>2, TypedWorker
  <2> QED
    BY <1>2, <2>1, <2>3, CallsSafe
<1>4. CASE ~(registry # NoHandle /\ handle[registry].status # "stopped")
  <2>1. PICK h \in Handles, c \in Children :
          /\ Unused(h)
          /\ registry' = h
          /\ Spawn([handle EXCEPT ![h] = FreshHandle], h, c)
          /\ cmd' = [cmd EXCEPT ![p] = [op |-> "start", pc |-> "start", h |-> h,
                                        c |-> c, ok |-> TRUE]]
    BY <1>1, <1>4 DEF StartWorker
  <2> DEFINE hs == [handle EXCEPT ![h] = FreshHandle]
  <2>2. registry # NoHandle => registry \in Handles /\ handle[registry].child = NoChild
                               /\ ~handle[registry].timer
    BY <1>4 DEF WorkerTypes, WorkerSafe, HandlesAreTrue, TimersAreOwned
  <2>3. /\ \A d \in Children : child[d] = NoProcess
        /\ \A x \in Handles : handle[x].child = NoChild /\ handle[x].status # "running"
        /\ \A x \in Handles : handle[x].status # "stopping"
    BY <2>2, NoProcessLeft, NobodyStops
  <2>4. \A x \in Handles : ~handle[x].timer
    BY <2>2 DEF WorkerSafe, TimersAreOwned, WorkerAssumption
  <2>5. hs \in [Handles -> Handle] /\ \A x \in Handles : hs[x] = handle[x] \/ hs[x] = FreshHandle
    BY NullTypes, TypedWorker, HandleChanges
  <2> HIDE DEF hs
  <2>6. \A x \in Handles : hs[x].child = NoChild /\ ~hs[x].timer
                           /\ hs[x].status \notin {"running", "stopping"}
    BY <2>3, <2>4, <2>5 DEF FreshHandle
  <2>7. \A q \in Callers : NoStop(cmd'[q])
    <3>1. NoStop([op |-> "start", pc |-> "start", h |-> h, c |-> c, ok |-> TRUE])
      BY DEF NoStop, Stopping
    <3> QED
      BY <1>2, <2>1, <3>1, TypedWorker
  <2>8. Spawn(hs, h, c)
    BY <2>1 DEF hs
  <2> QED
    BY <2>1, <2>3, <2>5, <2>6, <2>7, <2>8, SpawnSafe
<1> QED
  BY <1>3, <1>4

LEMMA StopSafe ==
  ASSUME WorkerTypes, WorkerSafe, NEW p \in Callers, NEW o \in {"stop", "restart"},
         registry # NoHandle, BeginStop(p, o, registry),
         \A q \in Callers : cmd[q].pc = "idle"
  PROVE  WorkerSafe'
<1> DEFINE h == registry
           k == handle[h].child
           waits == StopAwaits(h)
<1>1. h \in Handles /\ handle[h] \in Handle
  BY TypedWorker DEF WorkerTypes
<1>2. \A x \in Handles : handle[x].status # "stopping"
  BY DEF WorkerSafe, StopsAreTrue, Stopping
<1>3. waits <=> k # NoChild
  BY <1>1, <1>2 DEF StopAwaits, WorkerSafe, HandlesAreTrue
<1>4. /\ \A x \in Handles : x # h => handle'[x] = handle[x]
      /\ handle'[h].child = k /\ ~handle'[h].timer
      /\ IF waits THEN handle'[h].status = "stopping" /\ handle'[h].stop
                  ELSE handle'[h].status = "stopped"
  <2>1. handle' = [handle EXCEPT ![h] = StopBegin(handle[h])]
    BY DEF BeginStop
  <2>2. handle'[h] = StopBegin(handle[h]) /\ \A x \in Handles : x # h => handle'[x] = handle[x]
    BY <1>1, <2>1, TypedWorker
  <2>3. /\ StopBegin(handle[h]).child = k /\ ~StopBegin(handle[h]).timer
        /\ IF waits THEN StopBegin(handle[h]).status = "stopping" /\ StopBegin(handle[h]).stop
                    ELSE StopBegin(handle[h]).status = "stopped"
    BY <1>1, <1>2, <1>3 DEF StopBegin, Handle, StopAwaits
  <2> QED
    BY <2>2, <2>3
<1>5. UNCHANGED <<registry, child>>
  BY DEF BeginStop
<1>6. /\ \A q \in Callers : q # p => cmd'[q].pc = "idle"
      /\ cmd'[p].h = h /\ cmd'[p].op = o
      /\ IF waits THEN cmd'[p].pc = "drain" /\ cmd'[p].c = k ELSE cmd'[p].pc = "ret"
  BY TypedWorker DEF BeginStop
<1> HIDE DEF waits, k
<1>7. ChildrenAreKnown'
  BY <1>4, <1>5 DEF WorkerSafe, ChildrenAreKnown, k
<1>8. HandlesAreTrue'
  BY <1>3, <1>4, <1>5 DEF WorkerSafe, HandlesAreTrue, k
<1>9. TimersAreOwned'
  BY <1>4, <1>5 DEF WorkerSafe, TimersAreOwned
<1>10. StopsAreTrue'
  BY <1>1, <1>2, <1>3, <1>4, <1>5, <1>6 DEF StopsAreTrue, Stopping
<1> QED
  BY <1>7, <1>8, <1>9, <1>10 DEF WorkerSafe

LEMMA ReturnSafe ==
  ASSUME WorkerTypes, WorkerSafe, NEW p \in Callers, ReturnStop(p) \/ ReturnRestart(p),
         \A q \in Callers : q # p => cmd[q].pc = "idle"
  PROVE  WorkerSafe'
<1>1. /\ cmd[p].h = registry /\ registry \in Handles
      /\ handle[registry].child = NoChild /\ ~handle[registry].timer
  BY DEF ReturnStop, ReturnRestart, WorkerSafe, StopsAreTrue
<1>2. /\ \A d \in Children : child[d] = NoProcess
      /\ \A x \in Handles : handle[x].child = NoChild /\ handle[x].status # "running"
      /\ \A x \in Handles : handle[x].status # "stopping"
  BY <1>1, NoProcessLeft, NobodyStops
<1>3. \A x \in Handles : ~handle[x].timer
  BY <1>1 DEF WorkerSafe, TimersAreOwned
<1>4. ASSUME NEW r, NoStop(r), cmd' = [cmd EXCEPT ![p] = r]
      PROVE  \A q \in Callers : NoStop(cmd'[q]) /\ (q # p => cmd'[q] = cmd[q])
  BY <1>4, TypedWorker DEF NoStop, Stopping
<1>5. CASE ReturnStop(p)
  <2>1. \A q \in Callers : NoStop(cmd'[q])
    <3>1. NoStop(Idle)
      BY DEF NoStop, Idle, Stopping
    <3> QED
      BY <1>4, <1>5, <3>1 DEF ReturnStop
  <2>2. ChildrenAreKnown' /\ HandlesAreTrue' /\ TimersAreOwned'
    BY <1>2, <1>3, <1>5
    DEF ReturnStop, ChildrenAreKnown, HandlesAreTrue, TimersAreOwned, NoProcess
  <2>3. StopsAreTrue'
    BY <1>2, <1>5, <2>1 DEF ReturnStop, StopsAreTrue, NoStop
  <2> QED
    BY <2>2, <2>3 DEF WorkerSafe
<1>6. CASE ReturnRestart(p) /\ MayStart(registry)
  <2>1. PICK c \in Children :
          /\ Spawn(handle, registry, c)
          /\ cmd' = [cmd EXCEPT ![p] = [op |-> "restarted", pc |-> "start", h |-> registry,
                                        c |-> c, ok |-> TRUE]]
    BY <1>1, <1>6 DEF ReturnRestart
  <2>2. NoStop([op |-> "restarted", pc |-> "start", h |-> registry, c |-> c, ok |-> TRUE])
    BY DEF NoStop, Stopping
  <2>3. \A q \in Callers : NoStop(cmd'[q])
    BY <1>4, <2>1, <2>2
  <2>4. registry' = registry
    BY <1>6 DEF ReturnRestart
  <2> QED
    BY <1>1, <1>2, <1>3, <2>1, <2>3, <2>4, SpawnSafe, TypedWorker
<1>7. CASE ReturnRestart(p) /\ ~MayStart(registry)
  <2>1. /\ cmd' = [cmd EXCEPT ![p] = [Idle EXCEPT !.op = "restarted", !.pc = "ret", !.ok = FALSE]]
        /\ UNCHANGED <<registry, handle, child>>
    BY <1>1, <1>7 DEF ReturnRestart
  <2>2. NoStop([Idle EXCEPT !.op = "restarted", !.pc = "ret", !.ok = FALSE])
    BY DEF NoStop, Idle, Stopping
  <2>3. \A q \in Callers : NoStop(cmd'[q]) /\ (q # p => cmd'[q] = cmd[q])
    BY <1>4, <2>1, <2>2
  <2>4. cmd[p].pc \notin Stopping
    BY <1>7 DEF ReturnRestart, Stopping
  <2> QED
    BY <2>1, <2>3, <2>4, CallsSafe
<1> QED
  BY <1>1, <1>5, <1>6, <1>7


-----------------------------------------------------------------------------
(* Every action, while operations do not overlap.                           *)

\* One caller moves on, and the others are idle.
LEMMA OperationMoves ==
  ASSUME NEW p \in Callers, OneOperation, CallsMatch,
         \A q \in Callers : q # p => op[q].pc = "idle" /\ op'[q] = op[q] /\ cmd'[q] = cmd[q],
         Matches(op'[p], cmd'[p])
  PROVE  OneOperation' /\ CallsMatch'
<1>1. OneOperation'
  BY DEF OneOperation, At
<1>2. CallsMatch'
  BY DEF CallsMatch
<1> QED
  BY <1>1, <1>2

LEMMA OthersIdle ==
  ASSUME NEW p \in Callers, OneOperation, CallsMatch, op[p].pc # "idle" \/ (MayBegin(p) /\ ~Overlap)
  PROVE  /\ \A q \in Callers : q # p => op[q].pc = "idle" /\ cmd[q].pc = "idle"
         /\ op[p].pc \notin Awaiting => cmd[p].op = "none" /\ cmd[p].pc = "idle"
         /\ MayBegin(p) => op[p].pc = "idle"
<1>1. \A q \in Callers : q # p => op[q].pc = "idle"
  BY DEF OneOperation, At, MayBegin
<1>2. \A q \in Callers : op[q].pc \notin Awaiting => cmd[q].op = "none" /\ cmd[q].pc = "idle"
  BY DEF CallsMatch, Matches, Awaiting
<1> QED
  BY <1>1, <1>2 DEF Awaiting, MayBegin, At

LEMMA TypedOperations == TypesInv => op \in [Callers -> Operation] /\ cmd \in [Callers -> Command]
  BY DEF TypesInv, LifecycleTypes, WorkerTypes

LEMMA UnchangedSafe == WorkerSafe /\ UNCHANGED workerVars => WorkerSafe'
  BY DEF WorkerSafe, ChildrenAreKnown, HandlesAreTrue, TimersAreOwned, StopsAreTrue, workerVars

\* A finished start leaves the worker as it is.
LEMMA CallEndSafe ==
  ASSUME WorkerTypes, WorkerSafe, NEW p \in Callers, cmd[p].pc = "ret",
         cmd' = [cmd EXCEPT ![p] = Idle], UNCHANGED <<registry, handle, child>>
  PROVE  WorkerSafe'
<1>1. NoStop(Idle) /\ cmd[p].pc \notin Stopping
  BY DEF NoStop, Idle, Stopping
<1>2. \A q \in Callers : cmd'[q] = cmd[q] \/ (NoStop(cmd'[q]) /\ cmd[q].pc \notin Stopping)
  BY <1>1, TypedWorker
<1> QED
  BY <1>2, CallsSafe

\* What the worker does on its own leaves every caller where it is.
LEMMA CallsGoOn ==
  ASSUME TypesInv, SafeInv, WorkerAlone
  PROVE  CallsMatch'
<1>1. op' = op
  BY DEF WorkerAlone
<1>2. \A p \in Callers :
        \/ cmd'[p] = cmd[p]
        \/ /\ cmd'[p].op = cmd[p].op
           /\ \/ cmd[p].pc = "start" /\ cmd'[p].pc = "ret"
              \/ cmd[p].pc \in Stopping /\ cmd'[p].pc \in Stopping \cup {"ret"}
  <2> TAKE p \in Callers
  <2>0. cmd[p] \in Command
    BY TypedOperations
  <2>1. ASSUME NEW c \in Children, InitOk(c) \/ InitFails(c)
        PROVE  cmd'[p] = cmd[p] \/ (cmd'[p].op = cmd[p].op /\ cmd[p].pc = "start" /\ cmd'[p].pc = "ret")
    <3>1. cmd' = cmd \/ cmd' = Settled(c, TRUE) \/ cmd' = Settled(c, FALSE)
      BY <2>1 DEF InitOk, InitFails
    <3>2. ASSUME NEW ok \in BOOLEAN, cmd' = Settled(c, ok)
          PROVE  cmd'[p] = cmd[p] \/ (cmd'[p] = [cmd[p] EXCEPT !.pc = "ret", !.ok = ok]
                                     /\ cmd[p].pc = "start")
      BY <3>2 DEF Settled
    <3>3. ASSUME NEW ok \in BOOLEAN, cmd' = Settled(c, ok)
          PROVE  cmd'[p] = cmd[p] \/ (cmd'[p].op = cmd[p].op /\ cmd[p].pc = "start"
                                     /\ cmd'[p].pc = "ret")
      BY <2>0, <3>2, <3>3 DEF Command
    <3> QED
      BY <3>1, <3>3
  <2>2. ASSUME NEW c \in Children, Exit(c)
        PROVE  \/ cmd'[p] = cmd[p]
               \/ cmd'[p].op = cmd[p].op /\ cmd[p].pc \in {"start"} \cup Stopping /\ cmd'[p].pc = "ret"
    <3>1. \/ cmd'[p] = [cmd[p] EXCEPT !.pc = "ret"] /\ cmd[p].pc \in Stopping
          \/ cmd'[p] = [cmd[p] EXCEPT !.pc = "ret", !.ok = FALSE] /\ cmd[p].pc = "start"
          \/ cmd'[p] = cmd[p]
      BY <2>2, Zenon DEF Exit, Released
    <3> QED
      BY <2>0, <3>1 DEF Command
  <2>3. ASSUME NEW h \in Handles, TimerFires(h)
        PROVE  cmd'[p] = cmd[p]
    BY <2>3 DEF TimerFires
  <2>4. ASSUME NEW q \in Callers, Escalate(q)
        PROVE  \/ cmd'[p] = cmd[p]
               \/ /\ cmd'[p].op = cmd[p].op
                  /\ cmd[p].pc \in Stopping /\ cmd'[p].pc \in Stopping \cup {"ret"}
    <3>1. cmd[q].pc \in {"drain", "grace", "term"}
          /\ NextPhase(cmd[q].pc) \in Stopping
      BY <2>4 DEF Escalate, Stopping, NextPhase
    <3> DEFINE next == NextPhase(cmd[q].pc)
               k == handle[cmd[q].h].child
    <3>2. \/ cmd' = [cmd EXCEPT ![q] = [cmd[q] EXCEPT !.pc = "ret"]]
          \/ cmd' = [cmd EXCEPT ![q] = [cmd[q] EXCEPT !.pc = next, !.c = k]]
      BY <2>4, Zenon DEF Escalate
    <3> HIDE DEF next, k
    <3>3. \/ cmd'[p] = cmd[p]
          \/ p = q /\ cmd'[p] = [cmd[p] EXCEPT !.pc = "ret"]
          \/ p = q /\ cmd'[p] = [cmd[p] EXCEPT !.pc = next, !.c = k]
      BY <3>2, TypedOperations
    <3> QED
      BY <2>0, <3>1, <3>3 DEF Command, Stopping, next
  <2> QED
    BY <2>1, <2>2, <2>3, <2>4 DEF WorkerAlone
<1> SUFFICES ASSUME NEW p \in Callers
             PROVE  Matches(op[p], cmd'[p])
  BY <1>1 DEF CallsMatch
<1>3. Matches(op[p], cmd[p])
  BY DEF SafeInv, CallsMatch
<1>4. CASE cmd'[p] = cmd[p]
  BY <1>3, <1>4
<1>5. CASE cmd'[p].op = cmd[p].op /\ cmd[p].pc = "start" /\ cmd'[p].pc = "ret"
  BY <1>3, <1>5 DEF Matches, Stopping
<1>6. CASE /\ cmd'[p].op = cmd[p].op
           /\ cmd[p].pc \in Stopping /\ cmd'[p].pc \in Stopping \cup {"ret"}
  BY <1>3, <1>6 DEF Matches, Stopping
<1> QED
  BY <1>2, <1>4, <1>5, <1>6

LEMMA SafeInit == Init => SafeInv
<1> SUFFICES ASSUME Init PROVE SafeInv
  OBVIOUS
<1>1. \A p \in Callers : p # Boot => op[p].pc = "idle"
  BY DEF Init, NoOperation
<1>2. \A p \in Callers : op[p].pc \notin Awaiting /\ cmd[p] = Idle
  BY DEF Init, WorkerInit, NoOperation, BootOperation, Awaiting
<1>3. OneOperation /\ CallsMatch
  BY <1>1, <1>2 DEF OneOperation, At, CallsMatch, Matches, Idle
<1>4. WorkerSafe
  BY <1>2 DEF Init, WorkerInit, WorkerSafe, ChildrenAreKnown, HandlesAreTrue, TimersAreOwned,
     StopsAreTrue, FreshHandle, Idle, Stopping
<1> QED
  BY <1>3, <1>4 DEF SafeInv

LEMMA SafeStep ==
  ASSUME ~Overlap, TypesInv, SafeInv, [Next]_vars
  PROVE  SafeInv'
<1>0. /\ WorkerTypes /\ OneOperation /\ CallsMatch /\ WorkerSafe
      /\ op \in [Callers -> Operation] /\ cmd \in [Callers -> Command]
  BY TypedOperations DEF TypesInv, SafeInv
<1>1. ASSUME NEW p \in Callers, Enable(p)
      PROVE  SafeInv'
  <2>1. /\ \A q \in Callers : q # p => op[q].pc = "idle" /\ cmd[q].pc = "idle"
        /\ op[p].pc \notin Awaiting => cmd[p].op = "none" /\ cmd[p].pc = "idle"
    BY <1>0, <1>1, OthersIdle DEF Enable
  <2>2. WorkerSafe'
    BY <1>0, <1>1, <2>1, UnchangedSafe DEF Enable
  <2>3. /\ \A q \in Callers : q # p => op'[q] = op[q] /\ cmd'[q] = cmd[q]
        /\ Matches(op'[p], cmd'[p])
    BY <1>0, <1>1, <2>1
    DEF Enable, Awaiting, Matches, Operation, Begin, MayBegin, At, workerVars
  <2> QED
    BY <1>0, <2>1, <2>2, <2>3, OperationMoves DEF SafeInv
<1>2. ASSUME NEW p \in Callers, Disable(p)
      PROVE  SafeInv'
  <2>1. /\ \A q \in Callers : q # p => op[q].pc = "idle" /\ cmd[q].pc = "idle"
        /\ op[p].pc \notin Awaiting => cmd[p].op = "none" /\ cmd[p].pc = "idle"
    BY <1>0, <1>2, OthersIdle DEF Disable
  <2>2. WorkerSafe'
    BY <1>0, <1>2, <2>1, UnchangedSafe DEF Disable
  <2>3. /\ \A q \in Callers : q # p => op'[q] = op[q] /\ cmd'[q] = cmd[q]
        /\ Matches(op'[p], cmd'[p])
    BY <1>0, <1>2, <2>1
    DEF Disable, Awaiting, Matches, Operation, Begin, MayBegin, At, workerVars
  <2> QED
    BY <1>0, <2>1, <2>2, <2>3, OperationMoves DEF SafeInv
<1>3. ASSUME NEW p \in Callers, Unload(p)
      PROVE  SafeInv'
  <2>1. /\ \A q \in Callers : q # p => op[q].pc = "idle" /\ cmd[q].pc = "idle"
        /\ op[p].pc \notin Awaiting => cmd[p].op = "none" /\ cmd[p].pc = "idle"
    BY <1>0, <1>3, OthersIdle DEF Unload
  <2>2. WorkerSafe'
    BY <1>0, <1>3, <2>1, UnchangedSafe DEF Unload
  <2>3. /\ \A q \in Callers : q # p => op'[q] = op[q] /\ cmd'[q] = cmd[q]
        /\ Matches(op'[p], cmd'[p])
    BY <1>0, <1>3, <2>1
    DEF Unload, Awaiting, Matches, Operation, Begin, MayBegin, At, workerVars
  <2> QED
    BY <1>0, <2>1, <2>2, <2>3, OperationMoves DEF SafeInv
<1>4. ASSUME NEW p \in Callers, Upgrade(p)
      PROVE  SafeInv'
  <2>1. /\ \A q \in Callers : q # p => op[q].pc = "idle" /\ cmd[q].pc = "idle"
        /\ op[p].pc \notin Awaiting => cmd[p].op = "none" /\ cmd[p].pc = "idle"
    BY <1>0, <1>4, OthersIdle DEF Upgrade
  <2>2. WorkerSafe'
    BY <1>0, <1>4, <2>1, UnchangedSafe DEF Upgrade
  <2>3. /\ \A q \in Callers : q # p => op'[q] = op[q] /\ cmd'[q] = cmd[q]
        /\ Matches(op'[p], cmd'[p])
    BY <1>0, <1>4, <2>1
    DEF Upgrade, Awaiting, Matches, Operation, Begin, MayBegin, At, workerVars
  <2> QED
    BY <1>0, <2>1, <2>2, <2>3, OperationMoves DEF SafeInv
<1>5. ASSUME NEW p \in Callers, Reinstall(p)
      PROVE  SafeInv'
  <2>1. /\ \A q \in Callers : q # p => op[q].pc = "idle" /\ cmd[q].pc = "idle"
        /\ op[p].pc \notin Awaiting => cmd[p].op = "none" /\ cmd[p].pc = "idle"
    BY <1>0, <1>5, OthersIdle DEF Reinstall
  <2>2. WorkerSafe'
    BY <1>0, <1>5, <2>1, UnchangedSafe DEF Reinstall
  <2>3. /\ \A q \in Callers : q # p => op'[q] = op[q] /\ cmd'[q] = cmd[q]
        /\ Matches(op'[p], cmd'[p])
    BY <1>0, <1>5, <2>1 DEF Reinstall, Awaiting, Matches, Operation, At, MayBegin, workerVars
  <2> QED
    BY <1>0, <2>1, <2>2, <2>3, OperationMoves DEF SafeInv
<1>6. ASSUME NEW p \in Callers, RestartWorker(p)
      PROVE  SafeInv'
  <2>1. /\ \A q \in Callers : q # p => op[q].pc = "idle" /\ cmd[q].pc = "idle"
        /\ op[p].pc \notin Awaiting => cmd[p].op = "none" /\ cmd[p].pc = "idle"
    BY <1>0, <1>6, OthersIdle DEF RestartWorker
  <2>2. WorkerSafe'
    BY <1>0, <1>6, <2>1, StopSafe DEF RestartWorker, Restart, Awaiting, MayBegin, At
  <2>3. /\ \A q \in Callers : q # p => op'[q] = op[q] /\ cmd'[q] = cmd[q]
        /\ Matches(op'[p], cmd'[p])
    BY <1>0, <1>6, <2>1
    DEF RestartWorker, Awaiting, Matches, Operation, Begin, MayBegin, At, Restart, BeginStop,
        Stopping
  <2> QED
    BY <1>0, <2>1, <2>2, <2>3, OperationMoves DEF SafeInv
<1>7. ASSUME NEW p \in Callers, WriteReady(p)
      PROVE  SafeInv'
  <2>1. /\ \A q \in Callers : q # p => op[q].pc = "idle" /\ cmd[q].pc = "idle"
        /\ op[p].pc \notin Awaiting => cmd[p].op = "none" /\ cmd[p].pc = "idle"
    BY <1>0, <1>7, OthersIdle DEF WriteReady, At
  <2>2. WorkerSafe'
    BY <1>0, <1>7, <2>1, UnchangedSafe DEF WriteReady
  <2>3. /\ \A q \in Callers : q # p => op'[q] = op[q] /\ cmd'[q] = cmd[q]
        /\ Matches(op'[p], cmd'[p])
    BY <1>0, <1>7, <2>1 DEF WriteReady, Awaiting, Matches, Operation, Goto, At, workerVars
  <2> QED
    BY <1>0, <2>1, <2>2, <2>3, OperationMoves DEF SafeInv
<1>8. ASSUME NEW p \in Callers, LoadSingle(p)
      PROVE  SafeInv'
  <2>1. /\ \A q \in Callers : q # p => op[q].pc = "idle" /\ cmd[q].pc = "idle"
        /\ op[p].pc \notin Awaiting => cmd[p].op = "none" /\ cmd[p].pc = "idle"
    BY <1>0, <1>8, OthersIdle DEF LoadSingle, At
  <2>2. WorkerSafe'
    BY <1>0, <1>8, <2>1, UnchangedSafe DEF LoadSingle
  <2>3. /\ \A q \in Callers : q # p => op'[q] = op[q] /\ cmd'[q] = cmd[q]
        /\ Matches(op'[p], cmd'[p])
    BY <1>0, <1>8, <2>1
    DEF LoadSingle, Awaiting, Matches, Operation, Goto, Done, NoOperation, At, workerVars
  <2> QED
    BY <1>0, <2>1, <2>2, <2>3, OperationMoves DEF SafeInv
<1>9. ASSUME NEW p \in Callers, Activate(p)
      PROVE  SafeInv'
  <2>1. /\ \A q \in Callers : q # p => op[q].pc = "idle" /\ cmd[q].pc = "idle"
        /\ op[p].pc \notin Awaiting => cmd[p].op = "none" /\ cmd[p].pc = "idle"
    BY <1>0, <1>9, OthersIdle DEF Activate, At
  <2>2. WorkerSafe'
    BY <1>0, <1>9, <2>1, StartSafe DEF Activate, Awaiting, At
  <2>3. /\ \A q \in Callers : q # p => op'[q] = op[q] /\ cmd'[q] = cmd[q]
        /\ Matches(op'[p], cmd'[p])
    <3>1. \/ \E h, c : cmd' = [cmd EXCEPT ![p] = [op |-> "start", pc |-> "start", h |-> h,
                                                 c |-> c, ok |-> TRUE]]
          \/ cmd' = [cmd EXCEPT ![p] = [Idle EXCEPT !.op = "start", !.pc = "ret", !.ok = FALSE]]
      BY <1>9 DEF Activate, StartWorker
    <3>2. /\ \A q \in Callers : q # p => cmd'[q] = cmd[q]
          /\ cmd'[p].op = "start" /\ cmd'[p].pc \in {"start", "ret"}
      <4>1. ASSUME NEW r, r.op = "start", r.pc \in {"start", "ret"}, cmd' = [cmd EXCEPT ![p] = r]
            PROVE  /\ \A q \in Callers : q # p => cmd'[q] = cmd[q]
                   /\ cmd'[p].op = "start" /\ cmd'[p].pc \in {"start", "ret"}
        BY <1>0, <4>1
      <4> DEFINE refusal == [Idle EXCEPT !.op = "start", !.pc = "ret", !.ok = FALSE]
                 await(h, c) == [op |-> "start", pc |-> "start", h |-> h, c |-> c, ok |-> TRUE]
      <4>2. refusal.op = "start" /\ refusal.pc = "ret"
        BY DEF Idle
      <4>3. \A h, c : await(h, c).op = "start" /\ await(h, c).pc = "start"
        OBVIOUS
      <4>4. cmd' = [cmd EXCEPT ![p] = refusal] \/ \E h, c : cmd' = [cmd EXCEPT ![p] = await(h, c)]
        BY <3>1
      <4> HIDE DEF refusal, await
      <4> QED
        BY <4>1, <4>2, <4>3, <4>4
    <3>3. /\ \A q \in Callers : q # p => op'[q] = op[q]
          /\ op'[p].pc = "starting"
      BY <1>0, <1>9 DEF Activate, Goto, Operation
    <3> QED
      BY <3>2, <3>3 DEF Matches
  <2> QED
    BY <1>0, <2>1, <2>2, <2>3, OperationMoves DEF SafeInv
<1>10. ASSUME NEW p \in Callers, Activated(p)
      PROVE  SafeInv'
  <2>1. /\ \A q \in Callers : q # p => op[q].pc = "idle" /\ cmd[q].pc = "idle"
        /\ op[p].pc \notin Awaiting => cmd[p].op = "none" /\ cmd[p].pc = "idle"
    BY <1>0, <1>10, OthersIdle DEF Activated, At
  <2>2. WorkerSafe'
    BY <1>0, <1>10, <2>1, CallEndSafe DEF Activated
  <2>3. /\ \A q \in Callers : q # p => op'[q] = op[q] /\ cmd'[q] = cmd[q]
        /\ Matches(op'[p], cmd'[p])
    BY <1>0, <1>10, <2>1
    DEF Activated, Awaiting, Matches, Operation, Goto, Done, NoOperation, At, Idle
  <2> QED
    BY <1>0, <2>1, <2>2, <2>3, OperationMoves DEF SafeInv
<1>11. ASSUME NEW p \in Callers, MarkError(p)
      PROVE  SafeInv'
  <2>1. /\ \A q \in Callers : q # p => op[q].pc = "idle" /\ cmd[q].pc = "idle"
        /\ op[p].pc \notin Awaiting => cmd[p].op = "none" /\ cmd[p].pc = "idle"
    BY <1>0, <1>11, OthersIdle DEF MarkError, At
  <2>2. WorkerSafe'
    BY <1>0, <1>11, <2>1, UnchangedSafe, StopSafe DEF MarkError, StopWorker, Awaiting, At
  <2>3. /\ \A q \in Callers : q # p => op'[q] = op[q] /\ cmd'[q] = cmd[q]
        /\ Matches(op'[p], cmd'[p])
    BY <1>0, <1>11, <2>1
    DEF MarkError, Awaiting, Matches, Operation, At, workerVars, StopWorker, BeginStop,
        Stopping
  <2> QED
    BY <1>0, <2>1, <2>2, <2>3, OperationMoves DEF SafeInv
<1>12. ASSUME NEW p \in Callers, ErrorStopped(p)
      PROVE  SafeInv'
  <2>1. /\ \A q \in Callers : q # p => op[q].pc = "idle" /\ cmd[q].pc = "idle"
        /\ op[p].pc \notin Awaiting => cmd[p].op = "none" /\ cmd[p].pc = "idle"
    BY <1>0, <1>12, OthersIdle DEF ErrorStopped, At
  <2>2. WorkerSafe'
    BY <1>0, <1>12, <2>1, ReturnSafe DEF ErrorStopped
  <2>3. /\ \A q \in Callers : q # p => op'[q] = op[q] /\ cmd'[q] = cmd[q]
        /\ Matches(op'[p], cmd'[p])
    BY <1>0, <1>12, <2>1
    DEF ErrorStopped, Awaiting, Matches, Operation, Goto, At, ReturnStop, Idle
  <2> QED
    BY <1>0, <2>1, <2>2, <2>3, OperationMoves DEF SafeInv
<1>13. ASSUME NEW p \in Callers, WriteError(p)
      PROVE  SafeInv'
  <2>1. /\ \A q \in Callers : q # p => op[q].pc = "idle" /\ cmd[q].pc = "idle"
        /\ op[p].pc \notin Awaiting => cmd[p].op = "none" /\ cmd[p].pc = "idle"
    BY <1>0, <1>13, OthersIdle DEF WriteError, At
  <2>2. WorkerSafe'
    BY <1>0, <1>13, <2>1, UnchangedSafe DEF WriteError
  <2>3. /\ \A q \in Callers : q # p => op'[q] = op[q] /\ cmd'[q] = cmd[q]
        /\ Matches(op'[p], cmd'[p])
    BY <1>0, <1>13, <2>1
    DEF WriteError, Awaiting, Matches, Operation, Done, NoOperation, At, workerVars
  <2> QED
    BY <1>0, <2>1, <2>2, <2>3, OperationMoves DEF SafeInv
<1>14. ASSUME NEW p \in Callers, UnloadSingle(p)
      PROVE  SafeInv'
  <2>1. /\ \A q \in Callers : q # p => op[q].pc = "idle" /\ cmd[q].pc = "idle"
        /\ op[p].pc \notin Awaiting => cmd[p].op = "none" /\ cmd[p].pc = "idle"
    BY <1>0, <1>14, OthersIdle DEF UnloadSingle, At
  <2>2. WorkerSafe'
    BY <1>0, <1>14, <2>1, UnchangedSafe, StopSafe
    DEF UnloadSingle, StopWorker, IsRunning, Awaiting, At
  <2>3. /\ \A q \in Callers : q # p => op'[q] = op[q] /\ cmd'[q] = cmd[q]
        /\ Matches(op'[p], cmd'[p])
    BY <1>0, <1>14, <2>1
    DEF UnloadSingle, Awaiting, Matches, Operation, Goto, At, workerVars, StopWorker,
        BeginStop, Stopping
  <2> QED
    BY <1>0, <2>1, <2>2, <2>3, OperationMoves DEF SafeInv
<1>15. ASSUME NEW p \in Callers, Unloaded(p)
      PROVE  SafeInv'
  <2>1. /\ \A q \in Callers : q # p => op[q].pc = "idle" /\ cmd[q].pc = "idle"
        /\ op[p].pc \notin Awaiting => cmd[p].op = "none" /\ cmd[p].pc = "idle"
    BY <1>0, <1>15, OthersIdle DEF Unloaded, At
  <2>2. WorkerSafe'
    BY <1>0, <1>15, <2>1, ReturnSafe DEF Unloaded
  <2>3. /\ \A q \in Callers : q # p => op'[q] = op[q] /\ cmd'[q] = cmd[q]
        /\ Matches(op'[p], cmd'[p])
    BY <1>0, <1>15, <2>1 DEF Unloaded, Awaiting, Matches, Operation, Goto, At, ReturnStop, Idle
  <2> QED
    BY <1>0, <2>1, <2>2, <2>3, OperationMoves DEF SafeInv
<1>16. ASSUME NEW p \in Callers, EndDisable(p)
      PROVE  SafeInv'
  <2>1. /\ \A q \in Callers : q # p => op[q].pc = "idle" /\ cmd[q].pc = "idle"
        /\ op[p].pc \notin Awaiting => cmd[p].op = "none" /\ cmd[p].pc = "idle"
    BY <1>0, <1>16, OthersIdle DEF EndDisable, At
  <2>2. WorkerSafe'
    BY <1>0, <1>16, <2>1, UnchangedSafe DEF EndDisable
  <2>3. /\ \A q \in Callers : q # p => op'[q] = op[q] /\ cmd'[q] = cmd[q]
        /\ Matches(op'[p], cmd'[p])
    BY <1>0, <1>16, <2>1
    DEF EndDisable, Awaiting, Matches, Operation, Done, NoOperation, At, workerVars
  <2> QED
    BY <1>0, <2>1, <2>2, <2>3, OperationMoves DEF SafeInv
<1>17. ASSUME NEW p \in Callers, EndUnload(p)
      PROVE  SafeInv'
  <2>1. /\ \A q \in Callers : q # p => op[q].pc = "idle" /\ cmd[q].pc = "idle"
        /\ op[p].pc \notin Awaiting => cmd[p].op = "none" /\ cmd[p].pc = "idle"
    BY <1>0, <1>17, OthersIdle DEF EndUnload, At
  <2>2. WorkerSafe'
    BY <1>0, <1>17, <2>1, UnchangedSafe DEF EndUnload
  <2>3. /\ \A q \in Callers : q # p => op'[q] = op[q] /\ cmd'[q] = cmd[q]
        /\ Matches(op'[p], cmd'[p])
    BY <1>0, <1>17, <2>1
    DEF EndUnload, Awaiting, Matches, Operation, Done, NoOperation, At, workerVars
  <2> QED
    BY <1>0, <2>1, <2>2, <2>3, OperationMoves DEF SafeInv
<1>18. ASSUME NEW p \in Callers, EndUpgrade(p)
      PROVE  SafeInv'
  <2>1. /\ \A q \in Callers : q # p => op[q].pc = "idle" /\ cmd[q].pc = "idle"
        /\ op[p].pc \notin Awaiting => cmd[p].op = "none" /\ cmd[p].pc = "idle"
    BY <1>0, <1>18, OthersIdle DEF EndUpgrade, At
  <2>2. WorkerSafe'
    BY <1>0, <1>18, <2>1, UnchangedSafe DEF EndUpgrade
  <2>3. /\ \A q \in Callers : q # p => op'[q] = op[q] /\ cmd'[q] = cmd[q]
        /\ Matches(op'[p], cmd'[p])
    BY <1>0, <1>18, <2>1
    DEF EndUpgrade, Awaiting, Matches, Operation, Goto, Done, NoOperation, At, workerVars
  <2> QED
    BY <1>0, <2>1, <2>2, <2>3, OperationMoves DEF SafeInv
<1>19. ASSUME NEW p \in Callers, Restarting(p)
      PROVE  SafeInv'
  <2>1. /\ \A q \in Callers : q # p => op[q].pc = "idle" /\ cmd[q].pc = "idle"
        /\ op[p].pc \notin Awaiting => cmd[p].op = "none" /\ cmd[p].pc = "idle"
    BY <1>0, <1>19, OthersIdle DEF Restarting, At
  <2>2. WorkerSafe'
    BY <1>0, <1>19, <2>1, ReturnSafe DEF Restarting
  <2>3. /\ \A q \in Callers : q # p => op'[q] = op[q] /\ cmd'[q] = cmd[q]
        /\ Matches(op'[p], cmd'[p])
    <3>1. \/ \E h, c : cmd' = [cmd EXCEPT ![p] = [op |-> "restarted", pc |-> "start", h |-> h,
                                                 c |-> c, ok |-> TRUE]]
          \/ cmd' = [cmd EXCEPT ![p] = [Idle EXCEPT !.op = "restarted", !.pc = "ret",
                                                   !.ok = FALSE]]
      BY <1>19 DEF Restarting, ReturnRestart
    <3>2. /\ \A q \in Callers : q # p => cmd'[q] = cmd[q]
          /\ cmd'[p].op = "restarted" /\ cmd'[p].pc \in {"start", "ret"}
      <4>1. ASSUME NEW r, r.op = "restarted", r.pc \in {"start", "ret"}, cmd' = [cmd EXCEPT ![p] = r]
            PROVE  /\ \A q \in Callers : q # p => cmd'[q] = cmd[q]
                   /\ cmd'[p].op = "restarted" /\ cmd'[p].pc \in {"start", "ret"}
        BY <1>0, <4>1
      <4> DEFINE refusal == [Idle EXCEPT !.op = "restarted", !.pc = "ret", !.ok = FALSE]
                 await(h, c) == [op |-> "restarted", pc |-> "start", h |-> h, c |-> c, ok |-> TRUE]
      <4>2. refusal.op = "restarted" /\ refusal.pc = "ret"
        BY DEF Idle
      <4>3. \A h, c : await(h, c).op = "restarted" /\ await(h, c).pc = "start"
        OBVIOUS
      <4>4. cmd' = [cmd EXCEPT ![p] = refusal] \/ \E h, c : cmd' = [cmd EXCEPT ![p] = await(h, c)]
        BY <3>1
      <4> HIDE DEF refusal, await
      <4> QED
        BY <4>1, <4>2, <4>3, <4>4
    <3>3. op' = op /\ op[p].pc = "restarting"
      BY <1>19 DEF Restarting, At
    <3> QED
      BY <3>2, <3>3 DEF Matches
  <2> QED
    BY <1>0, <2>1, <2>2, <2>3, OperationMoves DEF SafeInv
<1>20. ASSUME NEW p \in Callers, Restarted(p)
      PROVE  SafeInv'
  <2>1. /\ \A q \in Callers : q # p => op[q].pc = "idle" /\ cmd[q].pc = "idle"
        /\ op[p].pc \notin Awaiting => cmd[p].op = "none" /\ cmd[p].pc = "idle"
    BY <1>0, <1>20, OthersIdle DEF Restarted, At
  <2>2. WorkerSafe'
    BY <1>0, <1>20, <2>1, CallEndSafe DEF Restarted
  <2>3. /\ \A q \in Callers : q # p => op'[q] = op[q] /\ cmd'[q] = cmd[q]
        /\ Matches(op'[p], cmd'[p])
    BY <1>0, <1>20, <2>1
    DEF Restarted, Awaiting, Matches, Operation, Done, NoOperation, At, Idle
  <2> QED
    BY <1>0, <2>1, <2>2, <2>3, OperationMoves DEF SafeInv
<1>21. ASSUME WorkerAlone
      PROVE  SafeInv'
  <2>1. WorkerSafe'
    BY <1>0, <1>21, InitSafe, ExitSafe, TimerSafe, EscalateSafe DEF WorkerAlone
  <2>2. OneOperation'
    BY <1>0, <1>21 DEF WorkerAlone, OneOperation, At
  <2> QED
    BY <1>21, <2>1, <2>2, CallsGoOn DEF SafeInv
<1>22. ASSUME ServerRestart
      PROVE  SafeInv'
  <2>1. \A p \in Callers : p # Boot => op'[p].pc = "idle"
    BY <1>22 DEF ServerRestart, NoOperation
  <2>2. \A p \in Callers : op'[p].pc \notin Awaiting /\ cmd'[p] = Idle
    BY <1>22 DEF ServerRestart, NoOperation, BootOperation, Awaiting
  <2>3. OneOperation' /\ CallsMatch'
    BY <2>1, <2>2 DEF OneOperation, At, CallsMatch, Matches, Idle
  <2>4. WorkerSafe'
    BY <1>22, <2>2 DEF ServerRestart, WorkerSafe, ChildrenAreKnown, HandlesAreTrue,
       TimersAreOwned, StopsAreTrue, FreshHandle, Idle, Stopping
  <2> QED
    BY <2>3, <2>4 DEF SafeInv
<1>23. ASSUME UNCHANGED vars
      PROVE  SafeInv'
  <2>1. WorkerSafe'
    BY <1>0, <1>23, UnchangedSafe DEF vars
  <2>2. OneOperation' /\ CallsMatch'
    BY <1>0, <1>23 DEF vars, workerVars, OneOperation, At, CallsMatch
  <2> QED
    BY <2>1, <2>2 DEF SafeInv
<1> QED
  BY <1>1, <1>2, <1>3, <1>4, <1>5, <1>6, <1>7, <1>8, <1>9, <1>10, <1>11, <1>12,
     <1>13, <1>14, <1>15, <1>16, <1>17, <1>18, <1>19, <1>20, <1>21, <1>22, <1>23
  DEF Next, Operate, Continue

LEMMA SafeHolds ==
  ASSUME ~Overlap
  PROVE  Spec => []SafeInv
<1>1. TypesInv /\ SafeInv /\ [Next]_vars => SafeInv'
  BY SafeStep
<1> QED
  BY <1>1, SafeInit, TypesHold, PTL DEF Spec

-----------------------------------------------------------------------------
(* Theorems *)

\* The row, the registry, handles, processes and calls stay well-formed, and
\* a process belongs to a handle, also when operations overlap.
THEOREM LifecycleTypesHold == Spec => []TypeOK
<1>1. TypesInv => TypeOK
  BY DEF TypesInv, WorkerTypes, LifecycleTypes, ProcessesHaveHandles, TypeOK
<1> QED
  BY <1>1, TypesHold, PTL

\* While operations do not overlap, the plugin has one process at most: every
\* path that forks a child (startWorker, restart, the back-off timer) finds
\* no process, because handleProcessExit and the stop have seen the last one
\* exit.
THEOREM OneWorkerAtATime ==
  ASSUME ~Overlap
  PROVE  Spec => []OneWorker
<1>1. SafeInv => OneWorker
  BY DEF SafeInv, WorkerSafe, ChildrenAreKnown, OneWorker, NoProcess
<1> QED
  BY <1>1, SafeHolds, PTL

\* While operations do not overlap, a handle that has been deleted from the
\* registry has no process and no timer that would fork one.
THEOREM DeletedStaysDown ==
  ASSUME ~Overlap
  PROVE  Spec => []UnregisteredIsDown
<1>1. SafeInv => UnregisteredIsDown
  BY DEF SafeInv, WorkerSafe, ChildrenAreKnown, TimersAreOwned, UnregisteredIsDown, NoProcess,
     WorkerAssumption
<1> QED
  BY <1>1, SafeHolds, PTL

\* While operations do not overlap, isRunning is true only of a worker whose
\* process is there and has answered initialize.
THEOREM RunningHasAnswered ==
  ASSUME ~Overlap
  PROVE  Spec => []RunningAnswers
<1>1. TypesInv /\ SafeInv => RunningAnswers
  BY DEF TypesInv, WorkerTypes, SafeInv, WorkerSafe, HandlesAreTrue, RunningAnswers, IsRunning
<1> QED
  BY <1>1, SafeHolds, TypesHold, PTL

=============================================================================
