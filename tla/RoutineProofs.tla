---------------------------- MODULE RoutineProofs ----------------------------
(***************************************************************************)
(* What the dispatches of a routine leave behind, for any number of ticks, *)
(* calls, board requests, keys and slots.  Everything rests on the lock of *)
(* the routine's row: only its holder commits a run, and the row each      *)
(* process is yet to insert is still free.                                 *)
(***************************************************************************)
EXTENDS Routine, FiniteSetTheorems, TLAPS

USE RoutineAssumption

Inside == {"locked", "create", "wake", "stuck", "finish", "undo"}
Begun == {"called", "waiting"} \cup Inside

\* The processes between the lock of the row and the commit: its holder.
HolderInv == \A p \in Procs : proc[p].pc \in Inside <=> lock = p

\* The row that process p may still insert as its n-th.
Ahead(p, n) == \/ proc[p].pc \in {"idle", "listed"}
               \/ proc[p].pc \in Begun /\ n <= proc[p].left

\* Rows ahead are free, and no issue names them but the one the holder created.
RowsInv ==
  /\ \A p \in Procs : proc[p].pc \in Begun => Own(p) \in Runs
  /\ \A p \in Procs, n \in Nat : <<p, n>> \in Runs /\ Ahead(p, n) =>
       /\ run[<<p, n>>].status = "none" /\ run[<<p, n>>].link = NoRun
       /\ issue[<<p, n>>].status # "none" =>
            proc[p].pc \in {"wake", "stuck", "finish", "undo"} /\ n = proc[p].left
  /\ \A p \in Procs : proc[p].pc \in {"wake", "finish"} => issue[Own(p)].status # "none"

\* The holder of the row has found no run of its key.
KeyInv == \A p \in Procs : lock = p => ~Repeated(p)

\* Claimed slots lie behind nextRunAt and behind the clock.
SlotInv ==
  /\ \A s \in Slots : fired[s] > 0 => s <= now /\ (s \in rewound \/ s < due)
  /\ \A p \in Procs : proc[p].pc = "listed" => proc[p].seen \in 1 .. proc[p].at
  /\ \A p \in Procs : proc[p].at <= now

RoutineInv ==
  /\ TypeOK /\ HolderInv /\ RowsInv /\ KeyInv /\ SlotInv
  /\ KeyedOnce /\ IssuesHaveRuns /\ ClaimedOnce
-----------------------------------------------------------------------------

LEMMA OriginFacts == Manual \in Origins /\ Scheduled \in Origins /\ CallOrigins \subseteq Origins
  BY DEF Manual, Scheduled, Origins, CallOrigins

LEMMA InitInv == Init => RoutineInv
<1> SUFFICES ASSUME Init PROVE RoutineInv
  OBVIOUS
<1>1. \A p \in Procs : proc[p].pc = "idle" /\ proc[p].at = 0
  BY DEF Init, Rest
<1>2. TypeOK
  <2>1. Rest("idle") \in Proc
    BY OriginFacts DEF Rest, Proc
  <2>2. now \in 0 .. MaxTime /\ due \in 1 .. MaxTime + 1 /\ routine \in Routines
    BY DEF Init
  <2>3. issue \in [Runs -> [status : IssueStatus, lock : {"free", "live", "stale"}]]
    BY DEF Init, IssueStatus
  <2>4. run \in [Runs -> [status : RunStatus, key : Keys \cup {NoKey}, origin : Origins,
                        link : Runs \cup {NoRun}]]
    BY OriginFacts DEF Init, RunStatus
  <2>5. sync \in [Board -> [pc : {"idle", "patched", "read", "done"},
                          issue : Runs \cup {NoRun}, status : IssueStatus]]
    BY DEF Init, IssueStatus, NoPatch
  <2>6. fired \in [Slots -> Nat] /\ rewound \subseteq Slots /\ leaked \subseteq Runs
    BY DEF Init
  <2> QED
    BY <2>1, <2>2, <2>3, <2>4, <2>5, <2>6 DEF Init, TypeOK
<1>3. HolderInv /\ KeyInv
  BY <1>1 DEF Init, HolderInv, KeyInv, Inside
<1>4. RowsInv
  BY <1>1 DEF Init, RowsInv, Begun, Inside, Ahead
<1>5. SlotInv /\ ClaimedOnce
  BY <1>1 DEF Init, SlotInv, ClaimedOnce, Slots
<1>6. KeyedOnce
  BY DEF Init, KeyedOnce
<1>7. IssuesHaveRuns
  <2>1. \A r \in Runs : NoRun # r
    BY DEF Runs, NoRun, Procs
  <2> QED
    BY <2>1 DEF Init, IssuesHaveRuns, InProgress
<1> QED
  BY <1>2, <1>3, <1>4, <1>5, <1>6, <1>7 DEF RoutineInv

-----------------------------------------------------------------------------

LEMMA Interval ==
  ASSUME NEW a \in Nat, NEW b \in Nat, a <= b
  PROVE  Cardinality(a .. b) = b - a + 1
<1>1. a \in Int /\ b \in Int
  OBVIOUS
<1>2. Cardinality(a .. b) = IF a > b THEN 0 ELSE b - a + 1
  BY <1>1, FS_Interval
<1> QED
  BY <1>2

\* The slots a tick claims form an interval that starts at the one it has seen.
LEMMA MissedInterval ==
  ASSUME TypeOK, NEW t \in Procs, proc[t].seen \in 1 .. proc[t].at
  PROVE  /\ Missed(t) \subseteq proc[t].seen .. proc[t].at
         /\ Cardinality(Missed(t)) \in Nat \ {0}
         /\ proc[t].seen + Cardinality(Missed(t)) <= proc[t].at + 1
         /\ \A s \in Missed(t) : s < proc[t].seen + Cardinality(Missed(t))
         /\ Owed(t) \in 1 .. Cap
<1>1. proc[t].seen \in Nat /\ proc[t].at \in Nat /\ Cap \in Nat \ {0}
  BY DEF TypeOK, Proc, Slots
<1>2. CASE ~proc[t].catchUp
  <2>1. Missed(t) = proc[t].seen .. proc[t].at
    BY <1>2 DEF Missed
  <2>2. Cardinality(Missed(t)) = proc[t].at - proc[t].seen + 1
    <3>1. proc[t].seen <= proc[t].at
      BY <1>1
    <3>2. Cardinality(proc[t].seen .. proc[t].at) = proc[t].at - proc[t].seen + 1
      BY <1>1, <3>1, Interval
    <3> QED
      BY <2>1, <3>2
  <2>3. Owed(t) = 1
    BY <1>2 DEF Owed
  <2> QED
    BY <2>1, <2>2, <2>3, <1>1
<1>3. CASE proc[t].catchUp
  <2> DEFINE last == IF proc[t].at < proc[t].seen + Cap THEN proc[t].at
                     ELSE proc[t].seen + Cap - 1
  <2>1. Missed(t) = proc[t].seen .. last
    BY <1>3, <1>1 DEF Missed
  <2>2. last \in Nat /\ last >= proc[t].seen
    BY <1>1
  <2>3. Cardinality(Missed(t)) = last - proc[t].seen + 1
    <3>1. Cardinality(proc[t].seen .. last) = last - proc[t].seen + 1
      <4> HIDE DEF last
      <4> QED
        BY <2>2, <1>1, Interval
    <3> QED
      BY <2>1, <3>1
  <2>4. Owed(t) = Cardinality(Missed(t))
    BY <1>3 DEF Owed
  <2>5. last <= proc[t].at /\ last - proc[t].seen + 1 <= Cap
    BY <1>1
  <2> HIDE DEF last
  <2> QED
    BY <2>1, <2>2, <2>3, <2>4, <2>5, <1>1
<1> QED
  BY <1>2, <1>3

Pcs == {"idle", "listed", "called", "waiting", "locked", "create", "wake", "stuck",
        "finish", "undo", "done"}

LEMMA MovedIsProc ==
  ASSUME NEW r \in Proc, NEW pc \in Pcs, NEW at \in 0 .. MaxTime, NEW left \in 0 .. Cap
  PROVE  [r EXCEPT !.pc = pc, !.at = at, !.left = left] \in Proc
  BY DEF Proc, Pcs

LEMMA LockedIsProc ==
  ASSUME NEW r \in Proc, NEW at \in 0 .. MaxTime
  PROVE  [r EXCEPT !.pc = "locked", !.at = at] \in Proc
  BY DEF Proc

LEMMA RecordIsProc ==
  ASSUME NEW pc \in Pcs, NEW seen \in Slots \cup {0}, NEW at \in 0 .. MaxTime,
         NEW left \in 0 .. Cap, NEW key \in Keys \cup {NoKey}, NEW origin \in Origins,
         NEW catchUp \in BOOLEAN, NEW policy \in Concurrency \cup {"none"}
  PROVE  [pc |-> pc, seen |-> seen, at |-> at, left |-> left, key |-> key,
          origin |-> origin, catchUp |-> catchUp, policy |-> policy] \in Proc
  BY DEF Proc, Pcs

LEMMA RestIsProc == \A pc \in {"idle", "listed", "called", "done"} : Rest(pc) \in Proc
  BY OriginFacts DEF Rest, Proc

\* What a commit writes is well-typed.
LEMMA LeaveType ==
  ASSUME TypeOK, NEW p \in Procs, Leave(p)
  PROVE  lock' \in Procs \cup {NoProc} /\ proc' \in [Procs -> Proc]
<1>1. proc[p] \in Proc /\ Rest("done") \in Proc
  BY RestIsProc DEF TypeOK
<1>2. proc[p].left > 1 =>
        [proc[p] EXCEPT !.pc = "called", !.at = 0, !.left = proc[p].left - 1] \in Proc
  <2>1. proc[p].left \in 0 .. Cap
    BY <1>1 DEF Proc
  <2>2. proc[p].left > 1 => proc[p].left - 1 \in 0 .. Cap
    BY <2>1
  <2>3. 0 \in 0 .. MaxTime /\ "called" \in Pcs
    BY DEF Pcs
  <2> QED
    BY <2>2, <2>3, <1>1, MovedIsProc
<1> QED
  BY <1>1, <1>2 DEF Leave, Unlocked, TypeOK

LEMMA CommitType ==
  ASSUME TypeOK, NEW p \in Procs, Own(p) \in Runs,
         NEW status \in RunStatus, NEW link \in Runs \cup {NoRun}, Commit(p, status, link)
  PROVE  /\ lock' \in Procs \cup {NoProc} /\ proc' \in [Procs -> Proc]
         /\ run' \in [Runs -> [status : RunStatus, key : Keys \cup {NoKey},
                               origin : Origins, link : Runs \cup {NoRun}]]
         /\ due' \in 1 .. MaxTime + 1 /\ rewound' \subseteq Slots
<1>1. proc[p] \in Proc
  BY DEF TypeOK
<1>2. lock' \in Procs \cup {NoProc} /\ proc' \in [Procs -> Proc]
  BY LeaveType DEF Commit
<1>3. run' \in [Runs -> [status : RunStatus, key : Keys \cup {NoKey},
                         origin : Origins, link : Runs \cup {NoRun}]]
  BY <1>1 DEF Commit, TypeOK, Proc
<1>4. due' \in 1 .. MaxTime + 1 /\ rewound' \subseteq Slots
  BY <1>1 DEF Commit, Rewind, TypeOK, Proc
<1> QED
  BY <1>2, <1>3, <1>4

LEMMA TypeStep == RoutineInv /\ [Next]_vars => TypeOK'
<1> SUFFICES ASSUME RoutineInv, [Next]_vars PROVE TypeOK'
  OBVIOUS
<1> USE DEF RoutineInv
<1>0. \A p \in Procs : proc[p] \in Proc
  BY DEF TypeOK
<1>1. CASE Pass
  BY <1>1 DEF Pass, TypeOK
<1>2. CASE Crash
  BY <1>2, RestIsProc, <1>0 DEF Crash, TypeOK, NoPatch, IssueStatus, Leaks
<1>3. ASSUME NEW t \in Ticks, List(t) PROVE TypeOK'
  <2>1. [pc |-> "listed", seen |-> due, at |-> now, left |-> 0, key |-> NoKey, origin |-> Manual,
         catchUp |-> routine.catchUp, policy |-> routine.concurrency] \in Proc
    <3>1. due \in Slots /\ now \in 0 .. MaxTime
      BY <1>3 DEF List, TypeOK, Slots
    <3>2. routine.concurrency \in Concurrency /\ routine.catchUp \in BOOLEAN
      BY DEF TypeOK, Routines
    <3>3. 0 \in 0 .. Cap /\ "listed" \in Pcs
      BY DEF Pcs
    <3> QED
      BY <3>1, <3>2, <3>3, OriginFacts, RecordIsProc
  <2> QED
    BY <1>3, <2>1 DEF List, TypeOK, Procs
<1>4. ASSUME NEW t \in Ticks, TickClaim(t) PROVE TypeOK'
  <2>1. t \in Procs /\ proc[t].seen \in 1 .. proc[t].at /\ proc[t] \in Proc
    BY <1>4, <1>0 DEF TickClaim, At, SlotInv, Procs
  <2>2. CASE NotClaimed(t)
    BY <1>4, <2>1, <2>2, RestIsProc DEF TickClaim, TypeOK
  <2>3. CASE ~NotClaimed(t)
    <3>1. Called(Owed(t), NoKey, Scheduled, proc[t].policy) \in Proc
      <4>1. Owed(t) \in 0 .. Cap
        BY <2>1, MissedInterval
      <4>2. proc[t].policy \in Concurrency \cup {"none"}
        BY <2>1 DEF Proc
      <4>3. 0 \in 0 .. MaxTime /\ "called" \in Pcs
        BY DEF Pcs
      <4> QED
        BY <4>1, <4>2, <4>3, OriginFacts, RecordIsProc DEF Called
    <3>2. due' \in 1 .. MaxTime + 1
      BY <1>4, <2>1, <2>3, MissedInterval DEF TickClaim, Proc
    <3>3. fired' \in [Slots -> Nat]
      BY <1>4, <2>3 DEF TickClaim, Claim, TypeOK
    <3>4. proc' \in [Procs -> Proc]
      BY <1>4, <2>3, <3>1 DEF TickClaim, TypeOK
    <3> QED
      BY <1>4, <3>2, <3>3, <3>4 DEF TickClaim, TypeOK
  <2> QED
    BY <2>2, <2>3
<1>5. ASSUME NEW c \in Calls, Call(c) PROVE TypeOK'
  <2>1. PICK key \in Keys \cup {NoKey}, origin \in CallOrigins :
          proc' = [proc EXCEPT ![c] = Called(1, key, origin, routine.concurrency)]
    BY <1>5 DEF Call
  <2>2. Called(1, key, origin, routine.concurrency) \in Proc
    <3>1. routine.concurrency \in Concurrency /\ 1 \in 0 .. Cap
      BY DEF TypeOK, Routines
    <3>2. 0 \in 0 .. MaxTime /\ "called" \in Pcs
      BY DEF Pcs
    <3> QED
      BY <3>1, <3>2, OriginFacts, RecordIsProc DEF Called
  <2> QED
    BY <1>5, <2>1, <2>2 DEF Call, TypeOK, Procs
<1>6. ASSUME NEW p \in Procs, Dispatch(p) PROVE TypeOK'
  <2>1. \A pc \in {"waiting", "create", "wake", "stuck", "finish", "undo"} :
          [proc EXCEPT ![p].pc = pc] \in [Procs -> Proc]
    BY DEF TypeOK, Proc
  <2>2. proc[p].pc \in Begun => Own(p) \in Runs
    BY DEF RowsInv
  <2>3. CASE Connect(p)
    BY <2>3, <2>1 DEF Connect, Goto, TypeOK
  <2>4. CASE LockRow(p)
    <3>1. CASE Repeated(p)
      BY <2>4, <3>1, LeaveType DEF LockRow, TypeOK
    <3>2. CASE ~Repeated(p)
      <4>1. [proc[p] EXCEPT !.pc = "locked", !.at = now] \in Proc
        BY <1>0, LockedIsProc DEF TypeOK
      <4> QED
        BY <2>4, <3>2, <4>1 DEF LockRow, TypeOK
    <3> QED
      BY <3>1, <3>2
  <2>5. CASE FindLive(p)
    <3>1. ASSUME NEW r \in Found,
                 Commit(p, IF proc[p].policy = "skip_if_active"
                           THEN "skipped" ELSE "coalesced", r)
          PROVE  TypeOK'
      <4>2. r \in Runs /\ Own(p) \in Runs
        BY <2>5, <2>2 DEF Found, LiveIssues, FindLive, At, Begun, Inside
      <4>3. (IF proc[p].policy = "skip_if_active" THEN "skipped" ELSE "coalesced") \in RunStatus
        BY DEF RunStatus
      <4> QED
        BY <2>5, <3>1, <4>2, <4>3, CommitType DEF FindLive, TypeOK
    <3>2. CASE Goto(p, "create") /\ UNCHANGED <<due, run, lock, rewound>>
      BY <2>5, <3>2, <2>1 DEF FindLive, Goto, TypeOK
    <3> QED
      BY <2>5, <3>1, <3>2 DEF FindLive
  <2>6. CASE CreateIssue(p)
    <3>1. proc' \in [Procs -> Proc]
      BY <2>6, <2>1 DEF CreateIssue, Goto
    <3>2. issue' \in [Runs -> [status : IssueStatus, lock : {"free", "live", "stale"}]]
      BY <2>6 DEF CreateIssue, TypeOK, IssueStatus
    <3> QED
      BY <2>6, <3>1, <3>2 DEF CreateIssue, TypeOK
  <2>7. CASE Wake(p)
    <3>1. Own(p) \in Runs
      BY <2>7, <2>2 DEF Wake, At, Begun, Inside
    <3>2. Woken(Own(p)) \in [Runs -> [status : IssueStatus, lock : {"free", "live", "stale"}]]
      BY <3>1 DEF Woken, TypeOK
    <3>3. issue' \in [Runs -> [status : IssueStatus, lock : {"free", "live", "stale"}]]
      BY <2>7, <3>2 DEF Wake, TypeOK
    <3>4. proc' \in [Procs -> Proc]
      BY <2>7, <2>1 DEF Wake, Goto
    <3> QED
      BY <2>7, <3>3, <3>4 DEF Wake, TypeOK
  <2>8. CASE Finish(p)
    <3>1. Own(p) \in Runs /\ "issue_created" \in RunStatus
      BY <2>8, <2>2 DEF Finish, At, Begun, Inside, RunStatus
    <3> QED
      BY <2>8, <3>1, CommitType DEF Finish, TypeOK
  <2>9. CASE Undo(p)
    <3>1. Own(p) \in Runs /\ "failed" \in RunStatus
      BY <2>9, <2>2 DEF Undo, At, Begun, Inside, RunStatus
    <3>2. issue' \in [Runs -> [status : IssueStatus, lock : {"free", "live", "stale"}]]
      BY <2>9, <3>1 DEF Undo, Deleted, TypeOK, IssueStatus
    <3> QED
      BY <2>9, <3>1, <3>2, CommitType DEF Undo, TypeOK
  <2>10. CASE Rollback(p)
    <3>1. Leaks \subseteq Runs
      BY DEF Leaks
    <3> QED
      BY <2>10, <3>1, RestIsProc DEF Rollback, Unlocked, TypeOK
  <2> QED
    BY <1>6, <2>3, <2>4, <2>5, <2>6, <2>7, <2>8, <2>9, <2>10 DEF Dispatch
<1>7. ASSUME NEW r \in Runs, IssueWake(r) \/ RunEnds(r) \/ ReleaseLock(r) PROVE TypeOK'
  <2>1. issue' \in [Runs -> [status : IssueStatus, lock : {"free", "live", "stale"}]]
    BY <1>7 DEF IssueWake, RunEnds, ReleaseLock, Woken, TypeOK
  <2> QED
    BY <1>7, <2>1 DEF IssueWake, RunEnds, ReleaseLock, TypeOK
<1>8. ASSUME NEW b \in Board, NEW r \in Runs, NEW s \in IssueStatus \ {"none"},
             PatchIssue(b, r, s)
      PROVE  TypeOK'
  BY <1>8 DEF PatchIssue, TypeOK, IssueStatus
<1>9. ASSUME NEW b \in Board,
             SyncRead(b) \/ SyncWrite(b) \/ UpdateRoutine(b) \/ UpdateTrigger(b)
      PROVE  TypeOK'
  <2>1. CASE SyncRead(b)
    BY <1>9, <2>1 DEF SyncRead, NoPatch, TypeOK, IssueStatus
  <2>2. CASE SyncWrite(b)
    <3>1. run' \in [Runs -> [status : RunStatus, key : Keys \cup {NoKey}, origin : Origins,
                           link : Runs \cup {NoRun}]]
      <4> DEFINE Row == [status : RunStatus, key : Keys \cup {NoKey}, origin : Origins,
                         link : Runs \cup {NoRun}]
                 new(r) == IF r = sync[b].issue /\ run[r].status # "none"
                           THEN [run[r] EXCEPT !.status = Outcome(sync[b].status)] ELSE run[r]
      <4>1. Outcome(sync[b].status) \in RunStatus
        BY DEF Outcome, RunStatus
      <4>2. \A r \in Runs : new(r) \in Row
        <5>1. ASSUME NEW r \in Runs
              PROVE  /\ run[r] \in Row
                     /\ [run[r] EXCEPT !.status = Outcome(sync[b].status)] \in Row
          <6>1. run[r] \in Row
            BY DEF TypeOK
          <6>2. \A x \in Row, s \in RunStatus : [x EXCEPT !.status = s] \in Row
            OBVIOUS
          <6> QED
            BY <6>1, <6>2, <4>1
        <5> HIDE DEF Row
        <5> QED
          BY <5>1
      <4>3. run' = [r \in Runs |-> new(r)]
        BY <2>2 DEF SyncWrite
      <4> HIDE DEF Row, new
      <4>4. run' \in [Runs -> Row]
        BY <4>2, <4>3
      <4> QED
        BY <4>4 DEF Row
    <3>2. sync' \in [Board -> [pc : {"idle", "patched", "read", "done"},
                             issue : Runs \cup {NoRun}, status : IssueStatus]]
      BY <2>2 DEF SyncWrite, Answered, NoPatch, TypeOK, IssueStatus
    <3> QED
      BY <2>2, <3>1, <3>2 DEF SyncWrite, TypeOK
  <2>0. ASSUME Answered(b)
        PROVE  sync' \in [Board -> [pc : {"idle", "patched", "read", "done"},
                                   issue : Runs \cup {NoRun}, status : IssueStatus]]
    BY <2>0 DEF Answered, NoPatch, TypeOK, IssueStatus
  <2>3. CASE UpdateRoutine(b)
    <3>1. routine' \in Routines
      <4>1. PICK s \in {"active", "paused", "archived"}, c \in Concurrency, k \in CatchUp :
              routine' = [routine EXCEPT !.status = s, !.concurrency = c, !.catchUp = k]
        BY <2>3 DEF UpdateRoutine
      <4>2. k \in BOOLEAN /\ routine \in Routines
        BY DEF TypeOK
      <4> QED
        BY <4>1, <4>2 DEF Routines
    <3> QED
      BY <2>0, <2>3, <3>1 DEF UpdateRoutine, TypeOK
  <2>4. CASE UpdateTrigger(b)
    <3>1. routine' \in Routines /\ due' \in 1 .. MaxTime + 1
      BY <2>4 DEF UpdateTrigger, TypeOK, Routines
    <3> QED
      BY <2>0, <2>4, <3>1 DEF UpdateTrigger, TypeOK
  <2> QED
    BY <1>9, <2>1, <2>2, <2>3, <2>4
<1>10. CASE UNCHANGED vars
  BY <1>10 DEF vars, TypeOK
<1> QED
  BY <1>1, <1>2, <1>3, <1>4, <1>5, <1>6, <1>7, <1>8, <1>9, <1>10 DEF Next

-----------------------------------------------------------------------------

\* What the lock of the row protects.
Core == HolderInv /\ RowsInv /\ KeyInv /\ KeyedOnce /\ IssuesHaveRuns

LEMMA RunFacts ==
  /\ \A r \in Runs : r # NoRun
  /\ \A p \in Procs : p # NoProc
  /\ \A p \in Procs, n \in Nat : n > 1 /\ <<p, n>> \in Runs => <<p, n - 1>> \in Runs
  /\ \A p \in Procs, n \in Nat : <<p, n>> \in Runs => n > 0
  /\ \A t \in Ticks : \A n \in 1 .. Cap : <<t, n>> \in Runs
  /\ \A c \in Calls : <<c, 1>> \in Runs
<1>1. \A r \in Runs : r # NoRun
  BY DEF Runs, NoRun, Procs
<1>2. \A p \in Procs : p # NoProc
  OBVIOUS
<1>3. ASSUME NEW p \in Procs, NEW n \in Nat, <<p, n>> \in Runs
      PROVE  n > 0 /\ (n > 1 => <<p, n - 1>> \in Runs)
  <2>1. (n \in 1 .. Cap /\ p \in Ticks) \/ n = 1
    BY <1>3 DEF Runs
  <2>2. n > 1 => p \in Ticks /\ n - 1 \in 1 .. Cap
    BY <2>1
  <2> QED
    BY <2>1, <2>2 DEF Runs
<1> QED
  BY <1>1, <1>2, <1>3 DEF Runs

\* A step outside the dispatches neither makes nor removes a run or an issue.
LEMMA OutsideStep ==
  ASSUME RoutineInv, UNCHANGED <<lock, proc, leaked>>,
         \A r \in Runs : /\ run'[r].status = "none" <=> run[r].status = "none"
                         /\ run'[r].key = run[r].key /\ run'[r].origin = run[r].origin
                         /\ run'[r].link = run[r].link
                         /\ issue'[r].status = "none" <=> issue[r].status = "none"
  PROVE  Core'
<1> USE DEF RoutineInv
<1>1. HolderInv'
  BY DEF HolderInv
<1>2. RowsInv'
  <2>1. \A p \in Procs : proc'[p].pc \in Begun => Own(p)' \in Runs
    BY DEF RowsInv, Own
  <2>2. ASSUME NEW p \in Procs, NEW n \in Nat, <<p, n>> \in Runs, Ahead(p, n)'
        PROVE  /\ run'[<<p, n>>].status = "none" /\ run'[<<p, n>>].link = NoRun
               /\ issue'[<<p, n>>].status # "none" =>
                    proc'[p].pc \in {"wake", "stuck", "finish", "undo"} /\ n = proc'[p].left
    BY <2>2 DEF RowsInv, Ahead
  <2>3. \A p \in Procs : proc'[p].pc \in {"wake", "finish"} => issue'[Own(p)'].status # "none"
    <3>1. \A p \in Procs : proc[p].pc \in {"wake", "finish"} =>
            Own(p) \in Runs /\ issue[Own(p)].status # "none" /\ Own(p)' = Own(p)
      BY DEF RowsInv, Own, Begun, Inside
    <3> QED
      BY <3>1
  <2> QED
    BY <2>1, <2>2, <2>3 DEF RowsInv
<1>3. KeyInv'
  BY DEF KeyInv, Repeated
<1>4. KeyedOnce'
  BY DEF KeyedOnce
<1>5. IssuesHaveRuns'
  <2>1. \A r \in Runs : run[r].link \in Runs \cup {NoRun}
    BY DEF TypeOK
  <2> QED
    BY <2>1 DEF IssuesHaveRuns, InProgress, Own
<1> QED
  BY <1>1, <1>2, <1>3, <1>4, <1>5 DEF Core


\* A step of one process that writes neither runs nor issues, and ends no dispatch.
LEMMA MoveStep ==
  ASSUME RoutineInv, NEW p \in Procs, NEW new \in Proc,
         proc' = [proc EXCEPT ![p] = new], UNCHANGED <<run, issue, leaked>>,
         {proc[p].pc, new.pc} \cap {"wake", "stuck", "finish", "undo"} = {},
         \/ lock' = lock /\ proc[p].pc \notin Inside /\ new.pc \notin Inside
         \/ /\ lock \in {p, NoProc} /\ lock' = p /\ ~Repeated(p)
            /\ new.pc \in Inside
            /\ new.left = proc[p].left /\ new.key = proc[p].key /\ new.origin = proc[p].origin,
         new.pc \in Begun => <<p, new.left>> \in Runs,
         new.pc \in {"idle", "listed"} => proc[p].pc \in {"idle", "listed"},
         new.pc \in Begun => \/ proc[p].pc \in {"idle", "listed"}
                             \/ proc[p].pc \in Begun /\ new.left = proc[p].left
  PROVE  Core'
<1> USE DEF RoutineInv
<1>1. proc'[p] = new /\ \A q \in Procs \ {p} : proc'[q] = proc[q]
  BY DEF TypeOK
<1>2. HolderInv'
  <2>1. \A q \in Procs : lock = q => q # NoProc
    OBVIOUS
  <2> QED
    BY <1>1, <2>1 DEF HolderInv
<1>3. \A q \in Procs, n \in Nat : Ahead(q, n)' => Ahead(q, n)
  <2>1. \A q \in Procs : q # p => \A n \in Nat : Ahead(q, n)' => Ahead(q, n)
    BY <1>1 DEF Ahead
  <2>2. \A n \in Nat : Ahead(p, n)' => Ahead(p, n)
    BY <1>1 DEF Ahead, Begun, Inside
  <2> QED
    BY <2>1, <2>2
<1>4. RowsInv'
  <2>1. \A q \in Procs : proc'[q].pc \in Begun => Own(q)' \in Runs
    BY <1>1 DEF RowsInv, Own
  <2>2. ASSUME NEW q \in Procs, NEW n \in Nat, <<q, n>> \in Runs, Ahead(q, n)'
        PROVE  /\ run'[<<q, n>>].status = "none" /\ run'[<<q, n>>].link = NoRun
               /\ issue'[<<q, n>>].status # "none" =>
                    proc'[q].pc \in {"wake", "stuck", "finish", "undo"} /\ n = proc'[q].left
    <3>1. /\ run[<<q, n>>].status = "none" /\ run[<<q, n>>].link = NoRun
          /\ issue[<<q, n>>].status # "none" =>
                    proc[q].pc \in {"wake", "stuck", "finish", "undo"} /\ n = proc[q].left
      BY <1>3, <2>2 DEF RowsInv
    <3> QED
      BY <3>1, <1>1
  <2>3. \A q \in Procs : proc'[q].pc \in {"wake", "finish"} => issue'[Own(q)'].status # "none"
    <3>1. \A q \in Procs : proc'[q].pc \in {"wake", "finish"} =>
            q # p /\ proc[q].pc \in {"wake", "finish"} /\ Own(q)' = Own(q)
      BY <1>1 DEF Own
    <3> QED
      BY <3>1 DEF RowsInv
  <2> QED
    BY <2>1, <2>2, <2>3 DEF RowsInv
<1>5. KeyInv'
  <2>1. \A q \in Procs : q # NoProc
    OBVIOUS
  <2> QED
    BY <1>1, <2>1 DEF KeyInv, Repeated, HolderInv
<1>6. KeyedOnce'
  BY DEF KeyedOnce
<1>7. IssuesHaveRuns'
  <2>1. \A q \in Procs : lock = q => lock' = q /\ Own(q)' = Own(q)
    BY <1>1 DEF Own, HolderInv
  <2> QED
    BY <2>1 DEF IssuesHaveRuns, InProgress
<1> QED
  BY <1>2, <1>4, <1>5, <1>6, <1>7 DEF Core

\* Before a dispatch: the list and the claim of a tick, a call, and the connection.
LEMMA BeforeStep ==
  ASSUME RoutineInv, NEW p \in Procs,
         \/ p \in Ticks /\ (List(p) \/ TickClaim(p))
         \/ p \in Calls /\ Call(p)
         \/ Connect(p)
  PROVE  Core'
<1> USE DEF RoutineInv
<1>0. proc[p] \in Proc /\ proc \in [Procs -> Proc]
  BY DEF TypeOK
<1>1. CASE p \in Ticks /\ List(p)
  <2> DEFINE new == [pc |-> "listed", seen |-> due, at |-> now, left |-> 0, key |-> NoKey,
                     origin |-> Manual, catchUp |-> routine.catchUp,
                     policy |-> routine.concurrency]
  <2>1. proc' = [proc EXCEPT ![p] = new] /\ new.pc = "listed" /\ proc[p].pc = "idle"
    BY <1>1 DEF List, At
  <2>2. new \in Proc
    <3>1. due \in Slots /\ now \in 0 .. MaxTime
      BY <1>1 DEF List, TypeOK, Slots
    <3>2. routine.concurrency \in Concurrency /\ routine.catchUp \in BOOLEAN
      BY DEF TypeOK, Routines
    <3>3. 0 \in 0 .. Cap /\ "listed" \in Pcs
      BY DEF Pcs
    <3> QED
      BY <3>1, <3>2, <3>3, OriginFacts, RecordIsProc
  <2>3. UNCHANGED <<run, issue, lock, leaked>>
    BY <1>1 DEF List
  <2> HIDE DEF new
  <2> QED
    BY <2>1, <2>2, <2>3, MoveStep DEF Inside, Begun
<1>2. CASE p \in Ticks /\ TickClaim(p)
  <2>1. UNCHANGED <<run, issue, lock, leaked>> /\ proc[p].pc = "listed"
        /\ proc[p].seen \in 1 .. proc[p].at
    BY <1>2 DEF TickClaim, At, SlotInv
  <2>2. CASE NotClaimed(p)
    <3>1. proc' = [proc EXCEPT ![p] = Rest("done")] /\ Rest("done").pc = "done"
      BY <1>2, <2>2 DEF TickClaim, Rest
    <3> QED
      BY <2>1, <3>1, RestIsProc, MoveStep DEF Inside, Begun
  <2>3. CASE ~NotClaimed(p)
    <3> DEFINE new == Called(Owed(p), NoKey, Scheduled, proc[p].policy)
    <3>1. proc' = [proc EXCEPT ![p] = new] /\ new.pc = "called" /\ new.left = Owed(p)
      BY <1>2, <2>3 DEF TickClaim, Called
    <3>2. Owed(p) \in 1 .. Cap
      BY <2>1, MissedInterval
    <3>3. new \in Proc
      <4>1. proc[p].policy \in Concurrency \cup {"none"} /\ Owed(p) \in 0 .. Cap
        BY <1>0, <3>2 DEF Proc
      <4>2. 0 \in 0 .. MaxTime /\ "called" \in Pcs
        BY DEF Pcs
      <4> QED
        BY <4>1, <4>2, OriginFacts, RecordIsProc DEF Called
    <3>4. <<p, new.left>> \in Runs
      BY <1>2, <3>1, <3>2, RunFacts
    <3> HIDE DEF new
    <3> QED
      BY <2>1, <3>1, <3>3, <3>4, MoveStep DEF Inside, Begun
  <2> QED
    BY <2>2, <2>3
<1>3. CASE p \in Calls /\ Call(p)
  <2>1. PICK key \in Keys \cup {NoKey}, origin \in CallOrigins :
          proc' = [proc EXCEPT ![p] = Called(1, key, origin, routine.concurrency)]
    BY <1>3 DEF Call
  <2> DEFINE new == Called(1, key, origin, routine.concurrency)
  <2>2. proc' = [proc EXCEPT ![p] = new] /\ new.pc = "called" /\ new.left = 1
    BY <2>1 DEF Called
  <2>3. new \in Proc
    <3>1. routine.concurrency \in Concurrency /\ 1 \in 0 .. Cap
      BY DEF TypeOK, Routines
    <3>2. 0 \in 0 .. MaxTime /\ "called" \in Pcs
      BY DEF Pcs
    <3> QED
      BY <3>1, <3>2, OriginFacts, RecordIsProc DEF Called
  <2>4. UNCHANGED <<run, issue, lock, leaked>> /\ proc[p].pc = "idle"
    BY <1>3 DEF Call, At
  <2>5. <<p, new.left>> \in Runs
    BY <1>3, <2>2, RunFacts
  <2> HIDE DEF new
  <2> QED
    BY <2>2, <2>3, <2>4, <2>5, MoveStep DEF Inside, Begun
<1>4. CASE Connect(p)
  <2> DEFINE new == [proc[p] EXCEPT !.pc = "waiting"]
  <2>1. proc' = [proc EXCEPT ![p] = new] /\ new.pc = "waiting" /\ new.left = proc[p].left
    BY <1>0, <1>4 DEF Connect, Goto, Proc
  <2>2. UNCHANGED <<run, issue, lock, leaked>> /\ proc[p].pc = "called"
    BY <1>4 DEF Connect, At
  <2>3. new \in Proc
    BY <1>0 DEF Proc
  <2>4. <<p, new.left>> \in Runs
    BY <2>1, <2>2 DEF RowsInv, Begun, Own
  <2> HIDE DEF new
  <2> QED
    BY <2>1, <2>2, <2>3, <2>4, MoveStep DEF Inside, Begun
<1> QED
  BY <1>1, <1>2, <1>3, <1>4

\* A step of the holder of the row before its commit, on its own issue.
LEMMA IssueStep ==
  ASSUME RoutineInv, NEW p \in Procs, proc[p].pc \in Inside,
         NEW pc \in {"wake", "stuck", "finish", "undo"}, Goto(p, pc), UNCHANGED <<run, lock, leaked>>,
         \A r \in Runs \ {Own(p)} : issue'[r] = issue[r],
         pc \in {"wake", "finish"} => issue'[Own(p)].status # "none"
  PROVE  Core'
<1> USE DEF RoutineInv
<1>1. /\ proc'[p].pc = pc /\ proc'[p].left = proc[p].left
      /\ proc'[p].key = proc[p].key /\ proc'[p].origin = proc[p].origin
      /\ \A q \in Procs \ {p} : proc'[q] = proc[q]
  BY DEF TypeOK, Goto, Proc
<1>2. lock = p /\ \A q \in Procs : proc[q].pc \in Inside => q = p
  BY DEF HolderInv
<1>3. HolderInv'
  BY <1>1, <1>2 DEF HolderInv, Inside
<1>4. \A q \in Procs : Own(q)' = Own(q)
  BY <1>1 DEF Own
<1>5. RowsInv'
  <2>1. \A q \in Procs : proc'[q].pc \in Begun => Own(q)' \in Runs
    BY <1>1, <1>4 DEF RowsInv, Begun
  <2>2. ASSUME NEW q \in Procs, NEW n \in Nat, <<q, n>> \in Runs, Ahead(q, n)'
        PROVE  /\ run'[<<q, n>>].status = "none" /\ run'[<<q, n>>].link = NoRun
               /\ issue'[<<q, n>>].status # "none" =>
                    proc'[q].pc \in {"wake", "stuck", "finish", "undo"} /\ n = proc'[q].left
    <3>1. Ahead(q, n)
      BY <1>1, <2>2 DEF Ahead, Begun, Inside
    <3>2. /\ run[<<q, n>>].status = "none" /\ run[<<q, n>>].link = NoRun
          /\ issue[<<q, n>>].status # "none" =>
                    proc[q].pc \in {"wake", "stuck", "finish", "undo"} /\ n = proc[q].left
      BY <3>1, <2>2 DEF RowsInv
    <3>3. <<q, n>> # Own(p) => issue'[<<q, n>>] = issue[<<q, n>>]
      BY <2>2
    <3> QED
      BY <3>2, <3>3, <1>1 DEF Own
  <2>3. \A q \in Procs : proc'[q].pc \in {"wake", "finish"} => issue'[Own(q)'].status # "none"
    <3>1. \A q \in Procs : proc'[q].pc \in {"wake", "finish"} => q = p
      BY <1>1, <1>2 DEF Inside
    <3> QED
      BY <3>1, <1>1, <1>4
  <2> QED
    BY <2>1, <2>2, <2>3 DEF RowsInv
<1>6. KeyInv'
  BY <1>1, <1>2 DEF KeyInv, Repeated
<1>7. KeyedOnce'
  BY DEF KeyedOnce
<1>8. IssuesHaveRuns'
  BY <1>2, <1>4 DEF IssuesHaveRuns, InProgress
<1> QED
  BY <1>3, <1>5, <1>6, <1>7, <1>8 DEF Core

\* A process that leaves its dispatch: the rows it still owes are others.
LEMMA LeaveFacts ==
  ASSUME RoutineInv, NEW p \in Procs, proc[p].pc \in Begun, lock \in {p, NoProc}, Leave(p)
  PROVE  /\ lock' = NoProc /\ HolderInv' /\ KeyInv'
         /\ \A q \in Procs : proc'[q].pc \in Begun => Own(q)' \in Runs
         /\ \A q \in Procs, n \in Nat : Ahead(q, n)' => Ahead(q, n) /\ <<q, n>> # Own(p)
         /\ \A q \in Procs : proc'[q].pc \notin Inside
<1> USE DEF RoutineInv
<1>1. proc[p] \in Proc /\ proc[p].left \in Nat
  BY DEF TypeOK, Proc
<1>2. /\ \A q \in Procs \ {p} : proc'[q] = proc[q]
      /\ \/ proc'[p].pc = "done"
         \/ proc'[p].pc = "called" /\ proc[p].left > 1 /\ proc'[p].left = proc[p].left - 1
  <2>1. proc' = [proc EXCEPT ![p] = IF proc[p].left > 1
                                    THEN [proc[p] EXCEPT !.pc = "called", !.at = 0,
                                                         !.left = proc[p].left - 1]
                                    ELSE Rest("done")]
    BY DEF Leave
  <2>2. [proc[p] EXCEPT !.pc = "called", !.at = 0, !.left = proc[p].left - 1].pc = "called"
        /\ [proc[p] EXCEPT !.pc = "called", !.at = 0,
                           !.left = proc[p].left - 1].left = proc[p].left - 1
    BY <1>1 DEF Proc
  <2>3. Rest("done").pc = "done"
    BY DEF Rest
  <2> QED
    BY <2>1, <2>2, <2>3 DEF TypeOK
<1>3. lock' = NoProc
  BY DEF Leave, Unlocked
<1>4. \A q \in Procs : q # p => proc[q].pc \notin Inside
  BY DEF HolderInv
<1>5. HolderInv' /\ \A q \in Procs : proc'[q].pc \notin Inside
  BY <1>2, <1>3, <1>4 DEF HolderInv, Inside
<1>6. KeyInv'
  BY <1>3 DEF KeyInv
<1>7. \A q \in Procs : proc'[q].pc \in Begun => Own(q)' \in Runs
  <2>1. proc'[p].pc \in Begun => Own(p)' \in Runs
    <3>1. CASE proc'[p].pc = "done"
      BY <3>1 DEF Begun, Inside
    <3>2. CASE proc[p].left > 1 /\ proc'[p].left = proc[p].left - 1
      <4>1. <<p, proc[p].left>> \in Runs
        BY DEF RowsInv, Own
      <4> QED
        BY <4>1, <1>1, <3>2, RunFacts DEF Own
    <3> QED
      BY <3>1, <3>2, <1>2
  <2>2. \A q \in Procs : q # p => (proc'[q].pc \in Begun => Own(q)' \in Runs)
    BY <1>2 DEF RowsInv, Own
  <2> QED
    BY <2>1, <2>2
<1>8. ASSUME NEW q \in Procs, NEW n \in Nat, Ahead(q, n)'
      PROVE  Ahead(q, n) /\ <<q, n>> # Own(p)
  <2>1. CASE q = p
    BY <2>1, <1>1, <1>2, <1>8 DEF Ahead, Own, Begun, Inside
  <2>2. CASE q # p
    BY <2>2, <1>2, <1>8 DEF Ahead, Own
  <2> QED
    BY <2>1, <2>2
<1> QED
  BY <1>3, <1>5, <1>6, <1>7, <1>8

LEMMA CommitStep ==
  ASSUME RoutineInv, NEW p \in Procs, proc[p].pc \in Inside, Own(p) \in Runs,
         NEW status \in RunStatus \ {"none"}, NEW link \in Runs \cup {NoRun},
         Commit(p, status, link), UNCHANGED leaked,
         \A r \in Runs \ {Own(p)} : issue'[r] = issue[r],
         issue'[Own(p)].status # "none" <=> link = Own(p),
         link \in {NoRun, Own(p)} \cup leaked \/ run[link].status # "none"
  PROVE  Core'
<1> USE DEF RoutineInv
<1>1. lock = p /\ proc[p].pc \in Begun
  BY DEF HolderInv, Begun
<1>2. Leave(p)
  BY DEF Commit
<1>3. /\ lock' = NoProc /\ HolderInv' /\ KeyInv'
      /\ \A q \in Procs : proc'[q].pc \in Begun => Own(q)' \in Runs
      /\ \A q \in Procs, n \in Nat : Ahead(q, n)' => Ahead(q, n) /\ <<q, n>> # Own(p)
      /\ \A q \in Procs : proc'[q].pc \notin Inside
  BY <1>1, <1>2, LeaveFacts
<1>4. /\ run'[Own(p)].status = status /\ run'[Own(p)].link = link
      /\ run'[Own(p)].key = proc[p].key /\ run'[Own(p)].origin = proc[p].origin
      /\ \A r \in Runs \ {Own(p)} : run'[r] = run[r]
  BY DEF Commit, TypeOK
<1>5. RowsInv'
  <2>1. ASSUME NEW q \in Procs, NEW n \in Nat, <<q, n>> \in Runs, Ahead(q, n)'
        PROVE  /\ run'[<<q, n>>].status = "none" /\ run'[<<q, n>>].link = NoRun
               /\ issue'[<<q, n>>].status = "none"
    <3>1. Ahead(q, n) /\ <<q, n>> # Own(p)
      BY <1>3, <2>1
    <3>2. /\ run[<<q, n>>].status = "none" /\ run[<<q, n>>].link = NoRun
          /\ issue[<<q, n>>].status # "none" =>
                    proc[q].pc \in {"wake", "stuck", "finish", "undo"} /\ n = proc[q].left
      BY <3>1, <2>1 DEF RowsInv
    <3>3. issue[<<q, n>>].status = "none"
      BY <3>1, <3>2, <1>1 DEF HolderInv, Inside, Own
    <3> QED
      BY <3>1, <3>2, <3>3, <2>1, <1>4
  <2>2. \A q \in Procs : proc'[q].pc \notin {"wake", "finish"}
    BY <1>3 DEF Inside
  <2> QED
    BY <1>3, <2>1, <2>2 DEF RowsInv
<1>6. KeyedOnce'
  <2>1. ~Repeated(p)
    BY <1>1 DEF KeyInv
  <2>2. ASSUME NEW r \in Runs, NEW s \in Runs,
               run'[r].status # "none", run'[s].status # "none", run'[r].key # NoKey,
               run'[r].key = run'[s].key, run'[r].origin = run'[s].origin
        PROVE  r = s
    <3>1. CASE r = Own(p) /\ s # Own(p)
      BY <3>1, <2>1, <2>2, <1>4 DEF Repeated
    <3>2. CASE r # Own(p) /\ s = Own(p)
      BY <3>2, <2>1, <2>2, <1>4 DEF Repeated
    <3>3. CASE r # Own(p) /\ s # Own(p)
      BY <3>3, <2>2, <1>4 DEF KeyedOnce
    <3> QED
      BY <3>1, <3>2, <3>3
  <2> QED
    BY <2>2 DEF KeyedOnce
<1>7. IssuesHaveRuns'
  <2> SUFFICES ASSUME NEW r \in Runs \ leaked
               PROVE  /\ issue'[r].status # "none" <=> run'[r].link = r
                      /\ run'[r].link # NoRun =>
                           run'[r].link \in leaked \/ run'[run'[r].link].status # "none"
    BY DEF IssuesHaveRuns, InProgress
  <2>1. CASE r = Own(p)
    <3>1. link \notin {NoRun, Own(p)} \cup leaked => run'[link].status # "none"
      BY <1>4
    <3> QED
      BY <2>1, <3>1, <1>4
  <2>2. CASE r # Own(p)
    <3>1. run[r].link \in Runs \cup {NoRun}
      BY DEF TypeOK
    <3>2. /\ issue[r].status # "none" <=> run[r].link = r
          /\ run[r].link # NoRun =>
               run[r].link \in leaked \/ run[run[r].link].status # "none"
      BY <2>2, <1>1 DEF IssuesHaveRuns, InProgress
    <3> QED
      BY <2>2, <3>1, <3>2, <1>4
  <2> QED
    BY <2>1, <2>2
<1> QED
  BY <1>3, <1>5, <1>6, <1>7 DEF Core

\* The dispatch in progress is rolled back: nobody holds the row, and what was
\* committed on other connections stays.
LEMMA RolledBackStep ==
  ASSUME RoutineInv, lock' = NoProc, leaked' = leaked \cup Leaks, UNCHANGED <<issue, run>>,
         \A q \in Procs : \/ proc[q].pc \notin Inside /\ proc'[q] = proc[q]
                         \/ proc'[q].pc = "done"
  PROVE  Core'
<1> USE DEF RoutineInv
<1>1. HolderInv' /\ KeyInv'
  BY DEF HolderInv, KeyInv, Inside
<1>2. KeyedOnce'
  BY DEF KeyedOnce
<1>3. IssuesHaveRuns'
  <2> SUFFICES ASSUME NEW r \in Runs, r \notin leaked, r \notin Leaks
               PROVE  /\ issue[r].status # "none" <=> run[r].link = r
                      /\ run[r].link # NoRun =>
                           run[r].link \in leaked \/ run[run[r].link].status # "none"
    BY DEF IssuesHaveRuns
  <2>1. CASE ~InProgress(r)
    BY <2>1 DEF IssuesHaveRuns
  <2>2. CASE InProgress(r)
    <3>1. PICK p \in Procs : lock = p /\ Own(p) = r
      BY <2>2 DEF InProgress
    <3>2. issue[r].status = "none"
      BY <2>2 DEF Leaks
    <3>3. run[r].link = NoRun
      <4>1. proc[p].pc \in Inside /\ proc[p].left \in Nat
        BY <3>1 DEF HolderInv, TypeOK, Proc
      <4>2. Ahead(p, proc[p].left)
        BY <4>1 DEF Ahead, Begun
      <4> QED
        BY <3>1, <4>1, <4>2 DEF RowsInv, Own
    <3> QED
      BY <3>2, <3>3, RunFacts
  <2> QED
    BY <2>1, <2>2
<1>4. RowsInv'
  <2>1. \A q \in Procs : proc'[q].pc \in Begun =>
          proc'[q] = proc[q] /\ proc[q].pc \notin Inside
    BY DEF Begun, Inside
  <2>2. ASSUME NEW q \in Procs, NEW n \in Nat, <<q, n>> \in Runs, Ahead(q, n)'
        PROVE  /\ run'[<<q, n>>].status = "none" /\ run'[<<q, n>>].link = NoRun
               /\ issue'[<<q, n>>].status = "none"
    <3>1. proc'[q] = proc[q] /\ proc[q].pc \notin Inside /\ Ahead(q, n)
      BY <2>2 DEF Ahead, Begun, Inside
    <3> QED
      BY <2>2, <3>1 DEF RowsInv, Inside
  <2>3. \A q \in Procs : proc'[q].pc \notin {"wake", "finish"}
    BY DEF Inside
  <2>4. \A q \in Procs : proc'[q].pc \in Begun => Own(q)' \in Runs
    BY <2>1 DEF RowsInv, Own
  <2> QED
    BY <2>2, <2>3, <2>4 DEF RowsInv
<1> QED
  BY <1>1, <1>2, <1>3, <1>4 DEF Core

LEMMA DispatchStep ==
  ASSUME RoutineInv, NEW p \in Procs, Dispatch(p)
  PROVE  Core'
<1> USE DEF RoutineInv
<1>0. proc[p] \in Proc /\ proc \in [Procs -> Proc]
      /\ (proc[p].pc \in Begun => Own(p) \in Runs)
      /\ (proc[p].pc \in Inside => lock = p /\ ~Repeated(p))
  BY DEF TypeOK, RowsInv, HolderInv, KeyInv
<1>1. CASE Connect(p)
  BY <1>1, BeforeStep
<1>2. CASE LockRow(p)
  <2>1. proc[p].pc = "waiting" /\ lock = NoProc /\ UNCHANGED <<issue, run, leaked>>
    BY <1>2 DEF LockRow, At, RowFree
  <2>2. CASE Repeated(p)
    <3>1. Leave(p) /\ proc[p].pc \in Begun
      BY <1>2, <2>1, <2>2 DEF LockRow, Begun
    <3>2. /\ lock' = NoProc /\ HolderInv' /\ KeyInv'
          /\ \A q \in Procs : proc'[q].pc \in Begun => Own(q)' \in Runs
          /\ \A q \in Procs, n \in Nat : Ahead(q, n)' => Ahead(q, n) /\ <<q, n>> # Own(p)
          /\ \A q \in Procs : proc'[q].pc \notin Inside
      BY <2>1, <3>1, LeaveFacts
    <3>3. \A q \in Procs : proc[q].pc \notin Inside
      BY <2>1 DEF HolderInv
    <3>4. RowsInv'
      <4>1. ASSUME NEW q \in Procs, NEW n \in Nat, <<q, n>> \in Runs, Ahead(q, n)'
            PROVE  /\ run'[<<q, n>>].status = "none" /\ run'[<<q, n>>].link = NoRun
                   /\ issue'[<<q, n>>].status = "none"
        BY <2>1, <3>2, <3>3, <4>1 DEF RowsInv, Inside
      <4> QED
        BY <3>2, <4>1 DEF RowsInv, Inside
    <3>5. KeyedOnce'
      BY <2>1 DEF KeyedOnce
    <3>6. IssuesHaveRuns'
      <4>1. \A q \in Procs : lock # q
        BY <2>1
      <4> QED
        BY <2>1, <4>1 DEF IssuesHaveRuns, InProgress
    <3> QED
      BY <3>2, <3>4, <3>5, <3>6 DEF Core
  <2>3. CASE ~Repeated(p)
    <3> DEFINE new == [proc[p] EXCEPT !.pc = "locked", !.at = now]
    <3>1. proc' = [proc EXCEPT ![p] = new] /\ lock' = p
      BY <1>0, <1>2, <2>3 DEF LockRow
    <3>2. /\ new.pc = "locked" /\ new.left = proc[p].left
          /\ new.key = proc[p].key /\ new.origin = proc[p].origin
      BY <1>0 DEF Proc
    <3>3. new \in Proc
      BY <1>0, LockedIsProc DEF TypeOK
    <3>4. <<p, new.left>> \in Runs /\ proc[p].pc \in Begun
      BY <1>0, <2>1, <3>2 DEF Own, Begun
    <3> HIDE DEF new
    <3> QED
      BY <2>1, <2>3, <3>1, <3>2, <3>3, <3>4, MoveStep DEF Inside, Begun
  <2> QED
    BY <2>2, <2>3
<1>3. CASE FindLive(p)
  <2>1. proc[p].pc = "locked" /\ UNCHANGED <<issue, leaked>> /\ proc[p].pc \in Inside
        /\ proc[p].pc \in Begun
    BY <1>3 DEF FindLive, At, Begun, Inside
  <2>2. ASSUME \E r \in Found : Commit(p, IF proc[p].policy = "skip_if_active"
                                         THEN "skipped" ELSE "coalesced", r)
        PROVE  Core'
    <3> DEFINE status == IF proc[p].policy = "skip_if_active" THEN "skipped" ELSE "coalesced"
    <3>1. PICK r \in Found : Commit(p, status, r)
      BY <2>2
    <3>2. r \in Runs /\ issue[r].status # "none"
      BY DEF Found, LiveIssues, Open
    <3>3. issue[Own(p)].status = "none"
      <4>1. Ahead(p, proc[p].left) /\ proc[p].left \in Nat
        BY <1>0, <2>1 DEF Ahead, Proc
      <4> QED
        BY <1>0, <2>1, <4>1 DEF RowsInv, Own
    <3>4. r \in leaked \/ run[r].status # "none"
      <4>1. r # Own(p) /\ lock = p
        BY <1>0, <2>1, <3>2, <3>3
      <4>2. \A q \in Procs : lock = q => Own(q) # r
        BY <4>1
      <4>3. r \notin leaked => run[r].link = r /\ run[run[r].link].status # "none"
        BY <3>2, <4>2, RunFacts DEF IssuesHaveRuns, InProgress
      <4> QED
        BY <4>3
    <3>5. status \in RunStatus \ {"none"}
      BY DEF RunStatus
    <3>6. \A i \in Runs \ {Own(p)} : issue'[i] = issue[i]
      BY <2>1
    <3>7. issue'[Own(p)].status # "none" <=> r = Own(p)
      BY <2>1, <3>2, <3>3
    <3> HIDE DEF status
    <3> QED
      BY <1>0, <2>1, <3>1, <3>2, <3>4, <3>5, <3>6, <3>7, CommitStep
  <2>3. CASE Goto(p, "create") /\ UNCHANGED <<due, run, lock, rewound>>
    <3> DEFINE new == [proc[p] EXCEPT !.pc = "create"]
    <3>1. proc' = [proc EXCEPT ![p] = new] /\ UNCHANGED <<run, lock>>
      BY <1>0, <2>3 DEF Goto
    <3>2. /\ new.pc = "create" /\ new.left = proc[p].left
          /\ new.key = proc[p].key /\ new.origin = proc[p].origin
      BY <1>0 DEF Proc
    <3>3. new \in Proc
      BY <1>0 DEF Proc
    <3>4. <<p, new.left>> \in Runs /\ lock = p /\ ~Repeated(p)
      BY <1>0, <2>1, <3>2 DEF Own
    <3> HIDE DEF new
    <3> QED
      BY <2>1, <3>1, <3>2, <3>3, <3>4, MoveStep DEF Inside
  <2> QED
    BY <1>3, <2>2, <2>3 DEF FindLive
<1>4. CASE CreateIssue(p)
  <2>1. proc[p].pc \in Inside /\ UNCHANGED <<run, lock, leaked>> /\ Own(p) \in Runs
    BY <1>0, <1>4 DEF CreateIssue, At, Inside, Begun
  <2>2. CASE issue' = [issue EXCEPT ![Own(p)].status = "todo"] /\ Goto(p, "wake")
    <3>1. \A r \in Runs \ {Own(p)} : issue'[r] = issue[r]
      BY <2>2 DEF TypeOK
    <3>2. issue'[Own(p)].status # "none"
      BY <2>1, <2>2 DEF TypeOK
    <3> QED
      BY <2>1, <2>2, <3>1, <3>2, IssueStep
  <2>3. CASE Goto(p, "undo") /\ UNCHANGED issue
    BY <2>1, <2>3, IssueStep
  <2> QED
    BY <1>4, <2>2, <2>3 DEF CreateIssue
<1>5. CASE Wake(p)
  <2>1. /\ proc[p].pc \in Inside /\ UNCHANGED <<run, lock, leaked>> /\ Own(p) \in Runs
        /\ issue[Own(p)].status # "none"
    BY <1>0, <1>5 DEF Wake, At, Inside, Begun, RowsInv
  <2>2. issue' = issue \/ issue' = Woken(Own(p))
    BY <1>5 DEF Wake
  <2>3. /\ \A r \in Runs \ {Own(p)} : issue'[r] = issue[r]
        /\ issue'[Own(p)].status # "none"
    BY <2>1, <2>2 DEF Woken, TypeOK
  <2>4. Goto(p, "finish") \/ Goto(p, "undo") \/ Goto(p, "stuck")
    BY <1>5 DEF Wake
  <2> QED
    BY <2>1, <2>3, <2>4, IssueStep
<1>6. CASE Finish(p)
  <2>1. /\ proc[p].pc \in Inside /\ UNCHANGED <<issue, leaked>> /\ Own(p) \in Runs
        /\ issue[Own(p)].status # "none" /\ Commit(p, "issue_created", Own(p))
    BY <1>0, <1>6 DEF Finish, At, Inside, Begun, RowsInv
  <2>2. "issue_created" \in RunStatus \ {"none"}
    BY DEF RunStatus
  <2> QED
    BY <2>1, <2>2, CommitStep
<1>7. CASE Undo(p)
  <2>1. /\ proc[p].pc \in Inside /\ UNCHANGED leaked /\ Own(p) \in Runs
        /\ Commit(p, "failed", NoRun)
    BY <1>0, <1>7 DEF Undo, At, Inside, Begun
  <2>2. /\ \A r \in Runs \ {Own(p)} : issue'[r] = issue[r]
        /\ issue'[Own(p)].status = "none"
    BY <1>7, <2>1 DEF Undo, Deleted, TypeOK
  <2>3. "failed" \in RunStatus \ {"none"} /\ NoRun # Own(p)
    BY <2>1, RunFacts DEF RunStatus
  <2> QED
    BY <2>1, <2>2, <2>3, CommitStep
<1>8. CASE Rollback(p)
  <2>1. /\ proc[p].pc \in Inside /\ lock = p
        /\ proc' = [proc EXCEPT ![p] = Rest("done")] /\ lock' = NoProc
        /\ leaked' = leaked \cup Leaks /\ UNCHANGED <<issue, run>>
    BY <1>0, <1>8 DEF Rollback, Unlocked, At, Inside
  <2>2. \A q \in Procs : q # p => proc[q].pc \notin Inside /\ proc'[q] = proc[q]
    BY <1>0, <2>1 DEF HolderInv
  <2>3. proc'[p].pc = "done"
    BY <1>0, <2>1 DEF Rest
  <2> QED
    BY <2>1, <2>2, <2>3, RolledBackStep DEF Begun
<1> QED
  BY <1>1, <1>2, <1>3, <1>4, <1>5, <1>6, <1>7, <1>8 DEF Dispatch

\* After a crash nobody holds the row; what was committed stays.
LEMMA CrashStep ==
  ASSUME RoutineInv, Crash
  PROVE  Core'
<1>1. /\ lock' = NoProc /\ leaked' = leaked \cup Leaks /\ UNCHANGED <<issue, run>>
      /\ \A p \in Procs : \/ proc[p].pc = "idle" /\ proc'[p] = proc[p]
                          \/ proc'[p].pc = "done"
  BY DEF Crash, At, Rest
<1> QED
  BY <1>1, RolledBackStep DEF Inside

LEMMA CoreStep == RoutineInv /\ [Next]_vars => Core'
<1> SUFFICES ASSUME RoutineInv, [Next]_vars PROVE Core'
  OBVIOUS
<1>1. CASE Pass
  BY <1>1, OutsideStep DEF Pass
<1>2. CASE Crash
  BY <1>2, CrashStep
<1>3. ASSUME NEW t \in Ticks, List(t) \/ TickClaim(t) PROVE Core'
  BY <1>3, BeforeStep DEF Procs
<1>4. ASSUME NEW c \in Calls, Call(c) PROVE Core'
  BY <1>4, BeforeStep DEF Procs
<1>5. ASSUME NEW p \in Procs, Dispatch(p) PROVE Core'
  BY <1>5, DispatchStep
<1>6. ASSUME NEW r \in Runs, IssueWake(r) \/ RunEnds(r) \/ ReleaseLock(r) PROVE Core'
  <2>1. \A i \in Runs : issue'[i].status = issue[i].status
    <3>1. issue' = issue \/ \E l \in {"free", "live", "stale"} :
                               issue' = [issue EXCEPT ![r] = [issue[r] EXCEPT !.lock = l]]
      BY <1>6 DEF IssueWake, Woken, RunEnds, ReleaseLock, RoutineInv, TypeOK
    <3>2. \A l \in {"free", "live", "stale"} :
            [issue[r] EXCEPT !.lock = l].status = issue[r].status
      BY DEF RoutineInv, TypeOK
    <3> QED
      BY <3>1, <3>2 DEF RoutineInv, TypeOK
  <2>2. UNCHANGED <<lock, proc, leaked, run>>
    BY <1>6 DEF IssueWake, RunEnds, ReleaseLock
  <2> QED
    BY <2>1, <2>2, OutsideStep
<1>7. ASSUME NEW b \in Board, NEW r \in Runs, NEW s \in IssueStatus \ {"none"},
             PatchIssue(b, r, s)
      PROVE  Core'
  <2>1. \A i \in Runs : issue'[i].status = "none" <=> issue[i].status = "none"
    BY <1>7 DEF RoutineInv, TypeOK, PatchIssue
  <2>2. UNCHANGED <<lock, proc, leaked, run>>
    BY <1>7 DEF PatchIssue
  <2> QED
    BY <2>1, <2>2, OutsideStep
<1>8. ASSUME NEW b \in Board,
             SyncRead(b) \/ SyncWrite(b) \/ UpdateRoutine(b) \/ UpdateTrigger(b)
      PROVE  Core'
  <2>1. UNCHANGED <<lock, proc, leaked, issue>>
    BY <1>8 DEF SyncRead, SyncWrite, UpdateRoutine, UpdateTrigger
  <2>2. \A r \in Runs : /\ run'[r].status = "none" <=> run[r].status = "none"
                        /\ run'[r].key = run[r].key /\ run'[r].origin = run[r].origin
                        /\ run'[r].link = run[r].link
    <3>1. CASE SyncWrite(b)
      <4> SUFFICES ASSUME NEW r \in Runs
                   PROVE  /\ run'[r].status = "none" <=> run[r].status = "none"
                          /\ run'[r].key = run[r].key /\ run'[r].origin = run[r].origin
                          /\ run'[r].link = run[r].link
        OBVIOUS
      <4> DEFINE status == Outcome(sync[b].status)
                 Row == [status : RunStatus, key : Keys \cup {NoKey}, origin : Origins,
                         link : Runs \cup {NoRun}]
                 row == [run[r] EXCEPT !.status = status]
      <4>1. status # "none"
        BY DEF Outcome
      <4>2. run[r] \in Row
        BY DEF RoutineInv, TypeOK
      <4>3. /\ row.status = status /\ row.key = run[r].key /\ row.origin = run[r].origin
            /\ row.link = run[r].link
        <5>1. \A x \in Row, st \in RunStatus :
                /\ [x EXCEPT !.status = st].status = st /\ [x EXCEPT !.status = st].key = x.key
                /\ [x EXCEPT !.status = st].origin = x.origin
                /\ [x EXCEPT !.status = st].link = x.link
          OBVIOUS
        <5>2. status \in RunStatus
          BY DEF Outcome, RunStatus
        <5> HIDE DEF status, Row
        <5> QED
          BY <4>2, <5>1, <5>2
      <4>4. run'[r] = run[r] \/ (run[r].status # "none" /\ run'[r] = row)
        BY <3>1 DEF SyncWrite
      <4> HIDE DEF status, row
      <4> QED
        BY <4>1, <4>3, <4>4
    <3>2. CASE SyncRead(b) \/ UpdateRoutine(b) \/ UpdateTrigger(b)
      BY <3>2 DEF SyncRead, UpdateRoutine, UpdateTrigger
    <3> QED
      BY <1>8, <3>1, <3>2
  <2> QED
    BY <2>1, <2>2, OutsideStep
<1>9. CASE UNCHANGED vars
  BY <1>9, OutsideStep DEF vars
<1> QED
  BY <1>1, <1>2, <1>3, <1>4, <1>5, <1>6, <1>7, <1>8, <1>9 DEF Next

-----------------------------------------------------------------------------

\* No process is ahead of the clock, and a tick has seen a slot that is due.
LEMMA ClockStep ==
  ASSUME RoutineInv, [Next]_vars
  PROVE  \A p \in Procs : /\ proc'[p].at <= now'
                          /\ proc'[p].pc = "listed" => proc'[p].seen \in 1 .. proc'[p].at
<1> USE DEF RoutineInv
<1> DEFINE Behind(r, n) == r.at <= n /\ (r.pc = "listed" => r.seen \in 1 .. r.at)
<1>0. /\ \A p \in Procs : Behind(proc[p], now) /\ proc[p] \in Proc
      /\ now \in 0 .. MaxTime /\ proc \in [Procs -> Proc]
  BY DEF SlotInv, TypeOK
<1> SUFFICES \A p \in Procs : Behind(proc'[p], now')
  OBVIOUS
<1>1. CASE Pass
  <2>1. \A p \in Procs : proc[p].at \in Nat
    BY <1>0 DEF Proc
  <2> QED
    BY <1>0, <1>1, <2>1 DEF Pass
<1>2. CASE Crash
  BY <1>0, <1>2 DEF Crash, Rest
<1>3. ASSUME NEW t \in Ticks, List(t) PROVE \A p \in Procs : Behind(proc'[p], now')
  <2> DEFINE new == [pc |-> "listed", seen |-> due, at |-> now, left |-> 0, key |-> NoKey,
                     origin |-> Manual, catchUp |-> routine.catchUp,
                     policy |-> routine.concurrency]
  <2>1. proc' = [proc EXCEPT ![t] = new] /\ now' = now
    BY <1>3 DEF List
  <2>2. Behind(new, now)
    BY <1>0, <1>3 DEF List, TypeOK
  <2> HIDE DEF new, Behind
  <2> QED
    BY <1>0, <2>1, <2>2
<1>4. ASSUME NEW t \in Ticks, TickClaim(t) PROVE \A p \in Procs : Behind(proc'[p], now')
  <2>1. Behind(Rest("done"), now) /\ Behind(Called(Owed(t), NoKey, Scheduled, proc[t].policy), now)
    BY <1>0 DEF Rest, Called
  <2> HIDE DEF Behind
  <2> QED
    BY <1>0, <1>4, <2>1 DEF TickClaim
<1>5. ASSUME NEW c \in Calls, Call(c) PROVE \A p \in Procs : Behind(proc'[p], now')
  <2>1. \A key, origin, policy : Behind(Called(1, key, origin, policy), now)
    BY <1>0 DEF Called
  <2> HIDE DEF Behind
  <2> QED
    BY <1>0, <1>5, <2>1 DEF Call
<1>6. ASSUME NEW p \in Procs, Dispatch(p) PROVE \A q \in Procs : Behind(proc'[q], now')
  <2>1. now' = now
    BY <1>6 DEF Dispatch, Connect, LockRow, FindLive, CreateIssue, Wake, Finish, Undo, Rollback
  <2>2. ASSUME NEW pc \in Begun, Goto(p, pc) PROVE \A q \in Procs : Behind(proc'[q], now')
    <3>1. [proc[p] EXCEPT !.pc = pc].pc # "listed"
          /\ [proc[p] EXCEPT !.pc = pc].at = proc[p].at
      BY <1>0 DEF Begun, Inside, Proc
    <3>2. Behind([proc[p] EXCEPT !.pc = pc], now)
      BY <1>0, <3>1
    <3>3. proc' = [proc EXCEPT ![p] = [proc[p] EXCEPT !.pc = pc]]
      BY <1>0, <2>2 DEF Goto
    <3> HIDE DEF Behind
    <3> QED
      BY <1>0, <2>1, <3>2, <3>3
  <2>3. ASSUME Leave(p) PROVE \A q \in Procs : Behind(proc'[q], now')
    <3> DEFINE new == [proc[p] EXCEPT !.pc = "called", !.at = 0, !.left = proc[p].left - 1]
    <3>1. new.pc = "called" /\ new.at = 0
      BY <1>0 DEF Proc
    <3>2. Behind(new, now) /\ Behind(Rest("done"), now)
      BY <1>0, <3>1 DEF Rest
    <3>3. proc' = [proc EXCEPT ![p] = new] \/ proc' = [proc EXCEPT ![p] = Rest("done")]
      BY <2>3 DEF Leave
    <3> HIDE DEF Behind, new
    <3> QED
      BY <1>0, <2>1, <3>2, <3>3
  <2>4. CASE LockRow(p)
    <3> DEFINE new == [proc[p] EXCEPT !.pc = "locked", !.at = now]
    <3>1. new.pc = "locked" /\ new.at = now
      BY <1>0 DEF Proc
    <3>2. Behind(new, now)
      BY <1>0, <3>1
    <3>3. Leave(p) \/ proc' = [proc EXCEPT ![p] = new]
      BY <1>0, <2>4 DEF LockRow
    <3> HIDE DEF Behind, new
    <3> QED
      BY <1>0, <2>1, <2>3, <3>2, <3>3
  <2>5. CASE Connect(p) \/ FindLive(p) \/ CreateIssue(p) \/ Wake(p) \/ Finish(p) \/ Undo(p)
    <3>1. Leave(p) \/ \E pc \in Begun : Goto(p, pc)
      BY <2>5 DEF Connect, FindLive, CreateIssue, Wake, Finish, Undo, Commit, Begun, Inside
    <3> QED
      BY <3>1, <2>2, <2>3
  <2>6. CASE Rollback(p)
    <3>1. Behind(Rest("done"), now)
      BY <1>0 DEF Rest
    <3>2. proc' = [proc EXCEPT ![p] = Rest("done")]
      BY <2>6 DEF Rollback
    <3> HIDE DEF Behind
    <3> QED
      BY <1>0, <2>1, <3>1, <3>2
  <2> QED
    BY <1>6, <2>4, <2>5, <2>6 DEF Dispatch
<1>7. CASE UNCHANGED <<now, proc>>
  BY <1>0, <1>7
<1>8. ASSUME NEW r \in Runs, \/ IssueWake(r) \/ RunEnds(r) \/ ReleaseLock(r)
                             \/ \E b \in Board, s \in IssueStatus \ {"none"} : PatchIssue(b, r, s)
      PROVE  UNCHANGED <<now, proc>>
  BY <1>8 DEF IssueWake, RunEnds, ReleaseLock, PatchIssue
<1>9. ASSUME NEW b \in Board,
             SyncRead(b) \/ SyncWrite(b) \/ UpdateRoutine(b) \/ UpdateTrigger(b)
      PROVE  UNCHANGED <<now, proc>>
  BY <1>9 DEF SyncRead, SyncWrite, UpdateRoutine, UpdateTrigger
<1>10. CASE UNCHANGED vars
  BY <1>10, <1>7 DEF vars
<1> HIDE DEF Behind
<1> QED
  BY <1>1, <1>2, <1>3, <1>4, <1>5, <1>6, <1>7, <1>8, <1>9, <1>10 DEF Next

\* What claims and commits do to the slots.
LEMMA SlotStep == RoutineInv /\ [Next]_vars => SlotInv' /\ ClaimedOnce'
<1> SUFFICES ASSUME RoutineInv, [Next]_vars PROVE SlotInv' /\ ClaimedOnce'
  OBVIOUS
<1> USE DEF RoutineInv
<1>0. /\ now \in Nat /\ due \in Nat /\ fired \in [Slots -> Nat] /\ rewound \subseteq Slots
      /\ \A s \in Slots : s \in Nat
      /\ \A s \in Slots : fired[s] > 0 => s <= now /\ (s \in rewound \/ s < due)
      /\ \A s \in Slots \ rewound : fired[s] <= 1
      /\ \A p \in Procs : proc[p] \in Proc
  BY DEF TypeOK, SlotInv, ClaimedOnce, Slots
<1> SUFFICES /\ \A s \in Slots : fired'[s] > 0 => s <= now' /\ (s \in rewound' \/ s < due')
             /\ \A s \in Slots \ rewound' : fired'[s] <= 1
  BY ClockStep DEF SlotInv, ClaimedOnce
<1>1. CASE now' \in Nat /\ now' >= now /\ UNCHANGED <<due, fired, rewound>>
  BY <1>0, <1>1
<1>2. ASSUME NEW t \in Ticks, TickClaim(t), ~NotClaimed(t)
      PROVE  /\ \A s \in Slots : fired'[s] > 0 => s <= now' /\ (s \in rewound' \/ s < due')
             /\ \A s \in Slots \ rewound' : fired'[s] <= 1
  <2>1. /\ due = proc[t].seen /\ due' = due + Cardinality(Missed(t)) /\ UNCHANGED <<now, rewound>>
        /\ fired' = [s \in Slots |-> IF s \in Missed(t) THEN fired[s] + 1 ELSE fired[s]]
    BY <1>2 DEF TickClaim, NotClaimed, Claim
  <2>2. t \in Procs /\ proc[t].seen \in 1 .. proc[t].at /\ proc[t].at <= now /\ proc[t].at \in Nat
    BY <1>2, <1>0 DEF TickClaim, At, SlotInv, Procs, Proc
  <2>3. /\ Missed(t) \subseteq proc[t].seen .. proc[t].at
        /\ Cardinality(Missed(t)) \in Nat \ {0}
        /\ \A s \in Missed(t) : s < proc[t].seen + Cardinality(Missed(t))
    BY <2>2, MissedInterval
  <2>4. \A s \in Missed(t) \cap Slots : s >= due /\ s <= now /\ s < due'
    BY <2>1, <2>2, <2>3, <1>0
  <2>5. ASSUME NEW s \in Slots, s \in Missed(t)
        PROVE  s <= now' /\ s < due' /\ (s \in rewound' \/ fired'[s] <= 1)
    <3>1. s \in rewound \/ fired[s] = 0
      BY <1>0, <2>4, <2>5
    <3> QED
      BY <3>1, <1>0, <2>1, <2>4, <2>5
  <2>6. ASSUME NEW s \in Slots, s \notin Missed(t)
        PROVE  /\ fired'[s] > 0 => s <= now' /\ (s \in rewound' \/ s < due')
               /\ s \in rewound' \/ fired'[s] <= 1
    <3>1. fired'[s] = fired[s] /\ due' > due /\ due' \in Nat
      BY <1>0, <2>1, <2>3, <2>6
    <3> QED
      BY <3>1, <1>0, <2>1
  <2> QED
    BY <2>5, <2>6
<1>3. ASSUME NEW p \in Procs, NEW status, NEW link, Commit(p, status, link),
             UNCHANGED <<now, fired>>
      PROVE  /\ \A s \in Slots : fired'[s] > 0 => s <= now' /\ (s \in rewound' \/ s < due')
             /\ \A s \in Slots \ rewound' : fired'[s] <= 1
  <2>1. CASE Timed(p)
    <3>1. /\ due' = proc[p].at + 1 /\ proc[p].at \in Nat
          /\ rewound' = rewound \cup {s \in Slots : s >= proc[p].at + 1 /\ fired[s] > 0}
      BY <1>3, <2>1, <1>0 DEF Commit, Rewind, Timed, Proc
    <3> QED
      BY <1>0, <1>3, <3>1
  <2>2. CASE ~Timed(p)
    BY <1>0, <1>3, <2>2 DEF Commit
  <2> QED
    BY <2>1, <2>2
<1>4. ASSUME NEW p \in Procs, Dispatch(p)
      PROVE  /\ \A s \in Slots : fired'[s] > 0 => s <= now' /\ (s \in rewound' \/ s < due')
             /\ \A s \in Slots \ rewound' : fired'[s] <= 1
  <2>1. CASE Connect(p) \/ LockRow(p) \/ CreateIssue(p) \/ Wake(p) \/ Rollback(p)
    <3>1. UNCHANGED <<now, due, fired, rewound>>
      BY <2>1 DEF Connect, LockRow, CreateIssue, Wake, Rollback
    <3> QED
      BY <3>1, <1>0, <1>1
  <2>2. CASE FindLive(p)
    <3>1. UNCHANGED <<now, fired>>
      BY <2>2 DEF FindLive
    <3>2. UNCHANGED <<due, rewound>> \/ \E status, link : Commit(p, status, link)
      BY <2>2 DEF FindLive
    <3> QED
      BY <3>1, <3>2, <1>0, <1>1, <1>3
  <2>3. CASE Finish(p) \/ Undo(p)
    <3>1. UNCHANGED <<now, fired>> /\ \E status, link : Commit(p, status, link)
      BY <2>3 DEF Finish, Undo
    <3> QED
      BY <3>1, <1>3
  <2> QED
    BY <1>4, <2>1, <2>2, <2>3 DEF Dispatch
<1>5. ASSUME NEW b \in Board, UpdateTrigger(b)
      PROVE  /\ \A s \in Slots : fired'[s] > 0 => s <= now' /\ (s \in rewound' \/ s < due')
             /\ \A s \in Slots \ rewound' : fired'[s] <= 1
  BY <1>0, <1>5 DEF UpdateTrigger
<1>6. CASE Pass
  BY <1>6, <1>1, <1>0 DEF Pass
<1>7. CASE Crash
  BY <1>7, <1>1, <1>0 DEF Crash
<1>8. ASSUME NEW t \in Ticks, List(t) \/ (TickClaim(t) /\ NotClaimed(t))
      PROVE  UNCHANGED <<now, due, fired, rewound>>
  BY <1>8 DEF List, TickClaim
<1>9. ASSUME NEW c \in Calls, Call(c) PROVE UNCHANGED <<now, due, fired, rewound>>
  BY <1>9 DEF Call
<1>10. ASSUME NEW r \in Runs, \/ IssueWake(r) \/ RunEnds(r) \/ ReleaseLock(r)
                              \/ \E b \in Board, s \in IssueStatus \ {"none"} : PatchIssue(b, r, s)
       PROVE  UNCHANGED <<now, due, fired, rewound>>
  BY <1>10 DEF IssueWake, RunEnds, ReleaseLock, PatchIssue
<1>11. ASSUME NEW b \in Board, SyncRead(b) \/ SyncWrite(b) \/ UpdateRoutine(b)
       PROVE  UNCHANGED <<now, due, fired, rewound>>
  BY <1>11 DEF SyncRead, SyncWrite, UpdateRoutine
<1>12. CASE UNCHANGED vars
  BY <1>12, <1>0, <1>1 DEF vars
<1>13. CASE UNCHANGED <<now, due, fired, rewound>>
  BY <1>13, <1>0, <1>1
<1> QED
  BY <1>2, <1>4, <1>5, <1>6, <1>7, <1>8, <1>9, <1>10, <1>11, <1>12, <1>13 DEF Next

-----------------------------------------------------------------------------

LEMMA InvStep == RoutineInv /\ [Next]_vars => RoutineInv'
  BY TypeStep, CoreStep, SlotStep DEF RoutineInv, Core

LEMMA Invariance == Spec => []RoutineInv
<1>1. Init => RoutineInv
  BY InitInv
<1>2. RoutineInv /\ [Next]_vars => RoutineInv'
  BY InvStep
<1> QED
  BY <1>1, <1>2, PTL DEF Spec

\* Routines, issues, runs, dispatches and requests keep their form, so that the
\* rows a tick still owes are always among those it claimed slots for.
THEOREM RoutineTypeCorrect == Spec => []TypeOK
<1>1. RoutineInv => TypeOK
  BY DEF RoutineInv
<1> QED
  BY <1>1, Invariance, PTL

\* An idempotency key leaves one run per source and trigger, however many calls
\* race with it: the lock of the row covers the look for the key and the commit
\* of the run.
THEOREM KeysAnsweredOnce == Spec => []KeyedOnce
<1>1. RoutineInv => KeyedOnce
  BY DEF RoutineInv
<1> QED
  BY <1>1, Invariance, PTL

\* An execution issue is there exactly when a run is linked to it, but for the
\* issue of the dispatch in progress and those of dispatches that were rolled back,
\* whatever errors dispatches meet.
THEOREM IssuesAndRuns == Spec => []IssuesHaveRuns
<1>1. RoutineInv => IssuesHaveRuns
  BY DEF RoutineInv
<1> QED
  BY <1>1, Invariance, PTL

\* The conditional update of nextRunAt gives a slot to one of any number of
\* overlapping ticks, unless a dispatch has set nextRunAt back behind it.
THEOREM SlotsClaimedOnce == Spec => []ClaimedOnce
<1>1. RoutineInv => ClaimedOnce
  BY DEF RoutineInv
<1> QED
  BY <1>1, Invariance, PTL
=============================================================================
