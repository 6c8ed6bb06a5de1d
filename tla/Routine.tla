------------------------------- MODULE Routine -------------------------------
(***************************************************************************)
(* One routine (server/src/services/routines.ts) with a schedule trigger:  *)
(* overlapping ticks of the scheduler and calls (manual, API, webhook)     *)
(* dispatch runs of it; a dispatch is one transaction that holds the row   *)
(* of the routine and its database connection to the end, and creates the  *)
(* execution issue and wakes the agent on other connections.  Meanwhile    *)
(* the heartbeat service moves the execution lock of the issues, the board *)
(* changes their status and the routine, and the server may crash.         *)
(*                                                                         *)
(* Time is counted in slots of the cron expression.  An issue is named by  *)
(* the run it was created for (originRunId).  A write inside a dispatch    *)
(* becomes visible with its commit, so the run row, its status and the     *)
(* trigger are written by the last action of a dispatch.  The lock of an   *)
(* issue is live, or stale once its run has ended (IssueExecution has it   *)
(* in detail).  Abstracted: webhook signatures, the contents of issues,    *)
(* activity, and the handler of an index conflict around issueSvc.create   *)
(* (600-630): the insert carries no execution run, so it meets none.  Runs *)
(* that work on an issue beside its lock are not rows of the model: a      *)
(* dispatch may find one for any open issue.                               *)
(***************************************************************************)
EXTENDS Naturals, FiniteSets

CONSTANTS
  Ticks,        \* invocations of tickScheduledTriggers
  Calls,        \* calls of runRoutine and firePublicTrigger
  Board,        \* requests of the board, one change each
  NoProc,
  Keys, NoKey,  \* idempotency keys
  Sources,      \* bound: the sources of the calls
  Triggers,     \* bound: the triggers they name, by kind, or "none"
  Concurrency,  \* concurrencyPolicy values the routine may have
  CatchUp,      \* catchUpPolicy: the values of "enqueue_missed_with_cap"
  Cap,          \* MAX_CATCH_UP_RUNS
  MaxTime,      \* bound: slots
  Connections,  \* size of the connection pool
  Faults        \* of "create", "wake", "late", "stuck", "rollback", "crash"

Procs == Ticks \cup Calls
Runs == (Ticks \X (1 .. Cap)) \cup (Calls \X {1})
NoRun == <<NoProc, 0>>
Slots == 1 .. MaxTime

ASSUME RoutineAssumption ==
  /\ Cap \in Nat \ {0} /\ MaxTime \in Nat /\ Connections \in Nat
  /\ Concurrency \subseteq {"coalesce_if_active", "skip_if_active", "always_enqueue"}
  /\ CatchUp \subseteq BOOLEAN
  /\ Faults \subseteq {"create", "wake", "late", "stuck", "rollback", "crash"}
  /\ Sources \subseteq {"manual", "api", "webhook"}
  /\ Triggers \subseteq {"none", "schedule", "api", "webhook"}
  /\ NoProc \notin Procs /\ NoKey \notin Keys /\ Ticks \cap Calls = {}

VARIABLES
  now,      \* the clock
  due,      \* nextRunAt of the trigger
  routine,  \* status and policies of the routine, enabled of its trigger
  issue,    \* the execution issues
  run,      \* the committed rows of routine_runs
  lock,     \* the dispatch that holds the row of the routine
  proc,     \* the ticks and calls
  sync,     \* the requests of the board
  fired,    \* history: how often each slot was claimed
  rewound,  \* history: claimed slots that a dispatch made due again
  leaked,   \* history: runs rolled back after their issue was committed
  crashed   \* history: the server has crashed
vars == <<now, due, routine, issue, run, lock, proc, sync, fired, rewound, leaked, crashed>>

IssueStatus == {"none", "todo", "blocked", "done", "cancelled"}
RunStatus == {"none", "issue_created", "coalesced", "skipped", "completed", "failed"}

Routines == [status : {"active", "paused", "archived"}, enabled : BOOLEAN,
             concurrency : Concurrency, catchUp : CatchUp]

\* What asks for a run: its source, and the trigger it names, of which the
\* routine has one of each kind.
Origins == [source : {"schedule", "manual", "api", "webhook"},
            trigger : {"none", "schedule", "api", "webhook"}]
Manual == [source |-> "manual", trigger |-> "none"]
Scheduled == [source |-> "schedule", trigger |-> "schedule"]
CallOrigins == {o \in Origins : /\ o.source \in Sources /\ o.trigger \in Triggers
                                /\ o.source = "webhook" => o.trigger = "webhook"}

\* seen: the nextRunAt a tick read; at: its clock, then triggeredAt; left: the
\* dispatches it still owes; policy and catchUp: of the row of the routine it
\* read.
Proc == [pc : {"idle", "listed", "called", "waiting", "locked", "create", "wake",
               "stuck", "finish", "undo", "done"},
         seen : Slots \cup {0}, at : 0 .. MaxTime, left : 0 .. Cap,
         key : Keys \cup {NoKey}, origin : Origins,
         catchUp : BOOLEAN, policy : Concurrency \cup {"none"}]

Rest(pc) == [pc |-> pc, seen |-> 0, at |-> 0, left |-> 0, key |-> NoKey,
             origin |-> Manual, catchUp |-> FALSE, policy |-> "none"]
Called(left, key, origin, policy) ==
  [pc |-> "called", seen |-> 0, at |-> 0, left |-> left, key |-> key,
   origin |-> origin, catchUp |-> FALSE, policy |-> policy]
NoPatch(pc) == [pc |-> pc, issue |-> NoRun, status |-> "none"]

Init ==
  /\ now = 0 /\ due = 1
  /\ routine \in {r \in Routines : r.status = "active" /\ r.enabled}
  /\ issue = [r \in Runs |-> [status |-> "none", lock |-> "free"]]
  /\ run = [r \in Runs |-> [status |-> "none", key |-> NoKey, origin |-> Manual, link |-> NoRun]]
  /\ lock = NoProc
  /\ proc = [p \in Procs |-> Rest("idle")]
  /\ sync = [b \in Board |-> NoPatch("idle")]
  /\ fired = [s \in Slots |-> 0] /\ rewound = {} /\ leaked = {} /\ crashed = FALSE

At(p, pc) == proc[p].pc = pc
Goto(p, pc) == proc' = [proc EXCEPT ![p].pc = pc]
\* The run row a dispatch has inserted.
Own(p) == <<p, proc[p].left>>
Timed(p) == proc[p].origin.trigger = "schedule"

Open(r) == issue[r].status \in {"todo", "blocked"}
\* The row is in the partial unique index issues_open_routine_execution_uq.
Indexed(r) == Open(r) /\ issue[r].lock # "free"
FreeFor(r) == \A i \in Runs \ {r} : ~Indexed(i)

\* Transactions of dispatches, waiting for the row or holding it.
Holding == {p \in Procs : proc[p].pc \in {"waiting", "locked", "create", "wake",
                                          "stuck", "finish", "undo"}}
Connected == Cardinality(Holding) < Connections

\* The claim of a slot, and a nextRunAt that lies behind claimed slots.
Claim(slots) == fired' = [s \in Slots |-> IF s \in slots THEN fired[s] + 1 ELSE fired[s]]
Rewind(slot) == rewound' = rewound \cup {s \in Slots : s >= slot /\ fired[s] > 0}

----------------------------------------------------------------------------
(* The scheduler.                                                           *)

Pass ==
  /\ now < MaxTime
  /\ now' = now + 1
  /\ UNCHANGED <<due, routine, issue, run, lock, proc, sync, fired, rewound, leaked, crashed>>

\* A tick lists the trigger when it is due.
List(t) ==
  /\ At(t, "idle") /\ Connected
  /\ due <= now /\ routine.status = "active" /\ routine.enabled
  /\ proc' = [proc EXCEPT ![t] =
       [pc |-> "listed", seen |-> due, at |-> now, left |-> 0, key |-> NoKey, origin |-> Manual,
        catchUp |-> routine.catchUp, policy |-> routine.concurrency]]
  /\ UNCHANGED <<now, due, routine, issue, run, lock, sync, fired, rewound, leaked, crashed>>

AllMissed(t) == proc[t].seen .. proc[t].at
\* The slots a tick takes on: with catch-up the first Cap of those missed, each
\* a dispatch; without it all, in one dispatch.
Missed(t) == IF proc[t].catchUp
             THEN {s \in proc[t].seen .. proc[t].at : s < proc[t].seen + Cap}
             ELSE proc[t].seen .. proc[t].at
Owed(t) == IF proc[t].catchUp THEN Cardinality(Missed(t)) ELSE 1

NeverRefused(t) == FALSE
NotClaimed(t) == ~routine.enabled \/ due # proc[t].seen

\* It claims them by a conditional update of nextRunAt, and dispatches.
TickClaim(t) ==
  /\ At(t, "listed") /\ Connected
  /\ IF NotClaimed(t)
     THEN proc' = [proc EXCEPT ![t] = Rest("done")] /\ UNCHANGED <<due, fired>>
     ELSE /\ due' = proc[t].seen + Cardinality(Missed(t))
          /\ Claim(Missed(t))
          /\ proc' = [proc EXCEPT ![t] = Called(Owed(t), NoKey, Scheduled, proc[t].policy)]
  /\ UNCHANGED <<now, routine, issue, run, lock, sync, rewound, leaked, crashed>>

\* runRoutine, with one of the triggers or without; firePublicTrigger, for an
\* active routine.
Call(c) ==
  /\ At(c, "idle") /\ Connected
  /\ routine.status # "archived"
  /\ \E key \in Keys \cup {NoKey}, origin \in CallOrigins :
       /\ origin.trigger = "schedule" => routine.enabled
       /\ origin.source = "webhook" => routine.status = "active"
       /\ proc' = [proc EXCEPT ![c] = Called(1, key, origin, routine.concurrency)]
  /\ UNCHANGED <<now, due, routine, issue, run, lock, sync, fired, rewound, leaked, crashed>>

----------------------------------------------------------------------------
(* dispatchRoutineRun.                                                      *)

\* The transaction takes a connection, and then waits for the row.
Connect(p) ==
  /\ At(p, "called") /\ Connected
  /\ Goto(p, "waiting")
  /\ UNCHANGED <<now, due, routine, issue, run, lock, sync, fired, rewound, leaked, crashed>>

\* The end of a dispatch: a tick turns to the next one it owes.
StillLocked == lock
Unlocked == NoProc
Leave(p) ==
  /\ lock' = Unlocked
  /\ proc' = [proc EXCEPT ![p] = IF proc[p].left > 1
                                 THEN [proc[p] EXCEPT !.pc = "called", !.at = 0,
                                                      !.left = proc[p].left - 1]
                                 ELSE Rest("done")]

\* The commit: the run row, and nextRunAt computed from triggeredAt.
Commit(p, status, link) ==
  /\ run' = [run EXCEPT ![Own(p)] = [status |-> status, key |-> proc[p].key,
                                     origin |-> proc[p].origin, link |-> link]]
  /\ IF Timed(p)
     THEN due' = proc[p].at + 1 /\ Rewind(proc[p].at + 1)
     ELSE UNCHANGED <<due, rewound>>
  /\ Leave(p)

NoRowLock == TRUE
RowFree == lock = NoProc

\* A committed run of the same key, source and trigger is the answer.
Repeated(p) ==
  /\ proc[p].key # NoKey
  /\ \E r \in Runs : run[r].status # "none" /\ run[r].key = proc[p].key
                     /\ run[r].origin = proc[p].origin

LockRow(p) ==
  /\ At(p, "waiting") /\ RowFree
  /\ IF Repeated(p)
     THEN Leave(p)
     ELSE lock' = p /\ proc' = [proc EXCEPT ![p] = [@ EXCEPT !.pc = "locked", !.at = now]]
  /\ UNCHANGED <<now, due, routine, issue, run, sync, fired, rewound, leaked, crashed>>

\* findLiveExecutionIssue: an open issue whose lock has a live holder; failing
\* that, an open issue some live run works on beside its lock.
LiveIssues == {r \in Runs : Open(r) /\ issue[r].lock = "live"}
Found == IF LiveIssues # {} THEN LiveIssues ELSE {r \in Runs : Open(r)}

FindLive(p) ==
  /\ At(p, "locked")
  /\ \/ /\ proc[p].policy # "always_enqueue"
        /\ \E r \in Found :
             Commit(p, IF proc[p].policy = "skip_if_active" THEN "skipped" ELSE "coalesced", r)
     \/ /\ LiveIssues = {} \/ proc[p].policy = "always_enqueue"
        /\ Goto(p, "create") /\ UNCHANGED <<due, run, lock, rewound>>
  /\ UNCHANGED <<now, routine, issue, sync, fired, leaked, crashed>>

\* issueSvc.create commits the issue by itself, or throws.
CreateIssue(p) ==
  /\ At(p, "create") /\ Connected
  /\ \/ /\ issue' = [issue EXCEPT ![Own(p)].status = "todo"]
        /\ Goto(p, "wake")
     \/ /\ "create" \in Faults
        /\ Goto(p, "undo") /\ UNCHANGED issue
  /\ UNCHANGED <<now, due, routine, run, lock, sync, fired, rewound, leaked, crashed>>

\* A wakeup for issue r: it joins a live run, or replaces a free or stale lock.
Woken(r) == IF issue[r].status = "none" \/ issue[r].lock = "live" THEN issue
            ELSE [issue EXCEPT ![r].lock = "live"]
Wakeable(r) == ~Open(r) \/ FreeFor(r)

\* queueIssueAssignmentWakeup.  An agent that is not woken on demand leaves the
\* issue without a run, which is no error.  A conflict in the index is rethrown,
\* as are refusals of enqueueWakeup before its transaction ("wake") and errors of
\* the start of the next run after it ("late").  That start awaits the agent's
\* start lock without a timeout, and may do so for ever ("stuck").
Wake(p) ==
  /\ At(p, "wake") /\ Connected
  /\ \/ Goto(p, "finish") /\ UNCHANGED issue
     \/ /\ Wakeable(Own(p))
        /\ issue' = Woken(Own(p))
        /\ \/ Goto(p, "finish")
           \/ "late" \in Faults /\ Goto(p, "undo")
           \/ "stuck" \in Faults /\ Goto(p, "stuck")
     \/ /\ ~Wakeable(Own(p)) \/ "wake" \in Faults
        /\ Goto(p, "undo") /\ UNCHANGED issue
  /\ UNCHANGED <<now, due, routine, run, lock, sync, fired, rewound, leaked, crashed>>

Finish(p) ==
  /\ At(p, "finish")
  /\ Commit(p, "issue_created", Own(p))
  /\ UNCHANGED <<now, routine, issue, sync, fired, leaked, crashed>>

NotDeleted(p) == issue
Deleted(p) == [issue EXCEPT ![Own(p)] = [status |-> "none", lock |-> "free"]]

\* The catch: delete the issue, fail the run.
Undo(p) ==
  /\ At(p, "undo")
  /\ issue' = Deleted(p)
  /\ Commit(p, "failed", NoRun)
  /\ UNCHANGED <<now, routine, sync, fired, leaked, crashed>>

\* The issues that stay behind when the dispatch in progress is rolled back.
InProgress(r) == \E p \in Procs : lock = p /\ Own(p) = r
Leaks == {r \in Runs : issue[r].status # "none" /\ InProgress(r)}

\* The database refuses a statement of the transaction, the delete of the catch
\* included (cost events and comments reference the issue): everything it wrote
\* is undone, the issue stays, and a tick gives up what it still owes.
Rollback(p) ==
  /\ "rollback" \in Faults
  /\ At(p, "locked") \/ At(p, "finish") \/ At(p, "undo")
  /\ leaked' = leaked \cup Leaks
  /\ lock' = Unlocked
  /\ proc' = [proc EXCEPT ![p] = Rest("done")]
  /\ UNCHANGED <<now, due, routine, issue, run, sync, fired, rewound, crashed>>

----------------------------------------------------------------------------
(* Everybody else.                                                          *)

\* The heartbeat service wakes the agent of an issue for another reason.
IssueWake(r) ==
  /\ Open(r) /\ issue[r].lock # "live" /\ Wakeable(r)
  /\ issue' = Woken(r)
  /\ UNCHANGED <<now, due, routine, run, lock, proc, sync, fired, rewound, leaked, crashed>>

\* The run of an issue ends, and its lock is released later.
RunEnds(r) ==
  /\ issue[r].lock = "live"
  /\ issue' = [issue EXCEPT ![r].lock = "stale"]
  /\ UNCHANGED <<now, due, routine, run, lock, proc, sync, fired, rewound, leaked, crashed>>

ReleaseLock(r) ==
  /\ issue[r].lock = "stale"
  /\ issue' = [issue EXCEPT ![r].lock = "free"]
  /\ UNCHANGED <<now, due, routine, run, lock, proc, sync, fired, rewound, leaked, crashed>>

Answered(b) == sync' = [sync EXCEPT ![b] = NoPatch("done")]

\* The board patches an issue; the route syncs the status of its run after it.
PatchIssue(b, r, status) ==
  /\ sync[b].pc = "idle" /\ issue[r].status \notin {"none", status} /\ Connected
  /\ status \in {"todo", "blocked"} /\ issue[r].lock # "free" => FreeFor(r)
  /\ issue' = [issue EXCEPT ![r].status = status]
  /\ sync' = [sync EXCEPT ![b] = [pc |-> "patched", issue |-> r, status |-> "none"]]
  /\ UNCHANGED <<now, due, routine, run, lock, proc, fired, rewound, leaked, crashed>>

SyncRead(b) ==
  /\ sync[b].pc = "patched" /\ Connected
  /\ LET r == sync[b].issue
         status == issue[r].status
     IN sync' = [sync EXCEPT ![b] =
                   IF status \in {"done", "blocked", "cancelled"}
                   THEN [pc |-> "read", issue |-> r, status |-> status]
                   ELSE NoPatch("done")]
  /\ UNCHANGED <<now, due, routine, issue, run, lock, proc, fired, rewound, leaked, crashed>>

Outcome(status) == IF status = "done" THEN "completed" ELSE "failed"

\* finalizeRun finds the row only if the dispatch of it has committed.
SyncWrite(b) ==
  /\ sync[b].pc = "read" /\ Connected
  /\ run' = [r \in Runs |->
               IF r = sync[b].issue /\ run[r].status # "none"
               THEN [run[r] EXCEPT !.status = Outcome(sync[b].status)] ELSE run[r]]
  /\ Answered(b)
  /\ UNCHANGED <<now, due, routine, issue, lock, proc, fired, rewound, leaked, crashed>>

\* The update waits for the dispatch that holds the row.
UpdateRoutine(b) ==
  /\ sync[b].pc = "idle" /\ RowFree /\ Connected
  /\ \E s \in {"active", "paused", "archived"}, c \in Concurrency, k \in CatchUp :
       routine' = [routine EXCEPT !.status = s, !.concurrency = c, !.catchUp = k]
  /\ Answered(b)
  /\ UNCHANGED <<now, due, issue, run, lock, proc, fired, rewound, leaked, crashed>>

\* Any patch of the schedule trigger computes nextRunAt from now.
UpdateTrigger(b) ==
  /\ sync[b].pc = "idle" /\ Connected
  /\ \E e \in BOOLEAN : routine' = [routine EXCEPT !.enabled = e]
  /\ due' = now + 1
  /\ Answered(b)
  /\ UNCHANGED <<now, issue, run, lock, proc, fired, rewound, leaked, crashed>>

\* A crash rolls dispatches back; issues and wakeups they committed stay.
Crash ==
  /\ "crash" \in Faults /\ ~crashed
  /\ crashed' = TRUE /\ lock' = NoProc /\ leaked' = leaked \cup Leaks
  /\ proc' = [p \in Procs |-> IF At(p, "idle") THEN proc[p] ELSE Rest("done")]
  /\ sync' = [b \in Board |-> IF sync[b].pc = "idle" THEN sync[b] ELSE NoPatch("done")]
  /\ UNCHANGED <<now, due, routine, issue, run, fired, rewound>>

Dispatch(p) ==
  \/ Connect(p) \/ LockRow(p) \/ FindLive(p) \/ CreateIssue(p) \/ Wake(p)
  \/ Finish(p) \/ Undo(p) \/ Rollback(p)

Next ==
  \/ Pass \/ Crash
  \/ \E t \in Ticks : List(t) \/ TickClaim(t)
  \/ \E c \in Calls : Call(c)
  \/ \E p \in Procs : Dispatch(p)
  \/ \E r \in Runs : IssueWake(r) \/ RunEnds(r) \/ ReleaseLock(r)
  \/ \E b \in Board, r \in Runs, s \in IssueStatus \ {"none"} : PatchIssue(b, r, s)
  \/ \E b \in Board : SyncRead(b) \/ SyncWrite(b) \/ UpdateRoutine(b) \/ UpdateTrigger(b)

\* A dispatch that has begun goes on: its steps are those of one async function.
Spec == Init /\ [][Next]_vars /\ \A p \in Procs : WF_vars(Dispatch(p))

----------------------------------------------------------------------------
(* Properties.                                                              *)

\* Routines, issues, runs, dispatches and requests are well-formed.
TypeOK ==
  /\ now \in 0 .. MaxTime /\ due \in 1 .. MaxTime + 1
  /\ routine \in Routines
  /\ issue \in [Runs -> [status : IssueStatus, lock : {"free", "live", "stale"}]]
  /\ run \in [Runs -> [status : RunStatus, key : Keys \cup {NoKey}, origin : Origins,
                       link : Runs \cup {NoRun}]]
  /\ lock \in Procs \cup {NoProc}
  /\ proc \in [Procs -> Proc]
  /\ sync \in [Board -> [pc : {"idle", "patched", "read", "done"}, issue : Runs \cup {NoRun},
                         status : IssueStatus]]
  /\ fired \in [Slots -> Nat] /\ rewound \subseteq Slots
  /\ leaked \subseteq Runs /\ crashed \in BOOLEAN

\* An idempotency key is answered by one run: two calls with it that come from
\* the same source and name the same trigger, or none, never both leave a run,
\* however their dispatches interleave.
KeyedOnce ==
  \A r, s \in Runs :
    /\ run[r].status # "none" /\ run[s].status # "none"
    /\ run[r].key # NoKey /\ run[r].key = run[s].key /\ run[r].origin = run[s].origin
    => r = s

\* A dispatch leaves an execution issue exactly when it leaves a run linked to it,
\* and a run that joined an issue points to a run that is there; only a dispatch
\* that was rolled back, by a crash or a refused statement, leaves an issue behind
\* that no run knows of.
IssuesHaveRuns ==
  \A r \in Runs \ leaked :
    /\ InProgress(r) \/ (issue[r].status # "none" <=> run[r].link = r)
    /\ run[r].link # NoRun => run[r].link \in leaked \/ run[run[r].link].status # "none"

\* Overlapping ticks claim a slot once, unless a dispatch that was triggered before
\* the slot ended after its claim and set nextRunAt back.
ClaimedOnce == \A s \in Slots \ rewound : fired[s] <= 1

\* A dispatch ends: the row of the routine is never held for good, unless a wakeup
\* waits for ever for the start lock of the agent, and if the pool has a connection
\* beyond those the dispatches of the routine hold.
DispatchEnds ==
  \A p \in Procs : At(p, "called") ~> At(p, "done") \/ \E q \in Procs : At(q, "stuck")

\* "Always create a new run": under always_enqueue no dispatch fails that met no
\* error but the index.
AlwaysEnqueues ==
  Concurrency = {"always_enqueue"} /\ Faults = {} =>
    \A r \in Runs : run[r].status = "failed" => run[r].link # NoRun

\* A run ends with its issue: with nothing in progress, the run of a done issue is
\* completed, and that of a blocked or cancelled one failed.
RunsFollowIssues ==
  (lock = NoProc /\ \A b \in Board : sync[b].pc \in {"idle", "done"}) =>
    \A r \in Runs : run[r].link = r =>
      /\ issue[r].status = "done" => run[r].status = "completed"
      /\ issue[r].status \in {"blocked", "cancelled"} => run[r].status = "failed"

\* A slot is dispatched once, whatever dispatches are slow.
FiredOnce == \A s \in Slots : fired[s] <= 1

=============================================================================
