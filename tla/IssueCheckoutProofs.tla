------------------------- MODULE IssueCheckoutProofs -------------------------
(***************************************************************************)
(* Who owns an issue, for any number of agents, runs and requests.         *)
(*                                                                         *)
(* The claim's WHERE clause says nothing of the run that has the issue     *)
(* checked out when the issue has no assignee; what protects that run is   *)
(* the execution lock, which an active owner always holds (LockInv).  The  *)
(* adoption judges a run in one statement and takes its place in another,  *)
(* which is sound unless the reaper revives that run in between (Sound).   *)
(***************************************************************************)
EXTENDS IssueCheckout, TLAPS

USE ConstantsAssumption, PatchesAssumption

(* An active run that has the issue checked out holds the execution lock,  *)
(* unless the reaper has revived it.                                       *)
LockInv ==
  issue.checkout # NoRun /\ Active(issue.checkout) /\ issue.checkout \notin revived
    => issue.exec = issue.checkout

(* Whoever owes a run the release of its lock has ended it. *)
OwedInv == \A r \in owed : Ended(r) \/ r \in revived

(* Only runs that have been created own the issue. *)
OwnerInv == issue.checkout # NoRun => run[issue.checkout] # "new"

(* A patch that is about to be written fits the row it was judged by. *)
Fits(p) ==
  LET agent == Written(p.set.agent, p.judged[1])
      user == Written(p.set.user, p.judged[2])
  IN /\ agent # NoAgent => user = "nobody"
     /\ ~p.clears => /\ agent = p.judged[1]
                     /\ p.set.status \in {Keep, "in_progress"}

(* What a request has found out still holds. *)
Sound(p) ==
  /\ p.run # NoRun => p.agent = AgentOf[p.run] /\ run[p.run] # "new"
  /\ p.pc \in {"claim", "judge", "adopt", "assert"} => p.run # NoRun
  /\ p.pc \in {"judge", "adopt"} => p.seen # NoRun
  /\ p.pc = "adopt" => Ended(p.seen) \/ p.seen \in revived
  /\ p.pc = "write" /\ p.op = "update" => Fits(p)

CheckoutInv ==
  /\ TypeOK /\ CheckoutInProgress /\ OwnersHold /\ OneAssignee
  /\ LockInv /\ OwedInv /\ OwnerInv /\ \A q \in Requests : Sound(req[q])

-----------------------------------------------------------------------------
(* What a request that starts, or starts over, holds is well-formed. *)
LEMMA BlankIsRequest ==
  /\ Blank \in Request
  /\ \A pc \in {"try", "read", "assert"}, a \in Agents \cup {NoAgent},
        r \in Runs \cup {NoRun}, op \in {"checkout", "update", "release"} :
       [Blank EXCEPT !.pc = pc, !.op = op, !.agent = a, !.run = r] \in Request
  BY DEF Blank, Request, NoPatch, Patch, Keep, User

LEMMA BlankIsSound == Blank \in Request /\ Sound(Blank)
  BY BlankIsRequest DEF Blank, Sound

LEMMA ClearedIsRequest ==
  ASSUME NEW op \in {"checkout", "update", "release"},
         NEW a \in Agents \cup {NoAgent}, NEW r \in Runs \cup {NoRun}
  PROVE  Cleared(op, a, r) \in Request
  BY DEF Cleared, Blank, Request, NoPatch, Patch, Keep, User

LEMMA InitInv == Init => CheckoutInv
<1> SUFFICES ASSUME Init PROVE CheckoutInv
  OBVIOUS
<1>1. TypeOK
  BY BlankIsRequest DEF Init, TypeOK, Row, Status, User
<1>2. \A q \in Requests : Sound(req[q])
  BY DEF Init, Sound, Blank
<1> QED
  BY <1>1, <1>2 DEF Init, CheckoutInv, CheckoutInProgress, OwnersHold, OneAssignee,
     LockInv, OwedInv, OwnerInv

-----------------------------------------------------------------------------
(* The steps of a request that write neither the issue nor a run. *)
Reads(q) ==
  \/ \E a \in Agents, r \in Runs \cup {NoRun} : CheckoutBegin(q, a, r)
  \/ \E op \in {"update", "release"}, a \in Agents \cup {NoAgent},
        r \in Runs \cup {NoRun} : Arrive(q, op, a, r)
  \/ AssertCheckoutOwner(q)
  \/ Judge(q)
  \/ \E p \in Patches : UpdateRead(q, p)
  \/ ReleaseRead(q)
(* The steps that may make the run of a request the owner. *)
Takes(q) ==
  \/ \E expected \in SUBSET Status : CheckoutTry(q, expected)
  \/ CheckoutReread(q)
  \/ CheckoutClaim(q)
  \/ Adopt(q)
Writes(q) == UpdateWrite(q) \/ ReleaseWrite(q)
RunSteps(r) ==
  (\E locked \in BOOLEAN : StartRun(r, locked)) \/ EndRun(r) \/ ReleaseLock(r) \/ Detach(r)

LEMMA Steps ==
  Next <=> \/ \E q \in Requests : Reads(q) \/ Takes(q) \/ Writes(q)
           \/ \E r \in Runs : RunSteps(r)
  BY DEF Next, Reads, Takes, Writes, RunSteps

(* Every step of a request replaces its record and no other, by a          *)
(* well-formed one of which Sound holds in the next state.                  *)
LEMMA ReadsStep ==
  ASSUME CheckoutInv, NEW q \in Requests, Reads(q)
  PROVE  /\ UNCHANGED <<issue, run, owed, revived, granted, raced>>
         /\ \E v \in Request : req' = [req EXCEPT ![q] = v] /\ Sound(v)
<1>1. req[q] \in Request /\ Sound(req[q]) /\ issue \in Row
        /\ req \in [Requests -> Request]
  BY DEF CheckoutInv, TypeOK
<1>2. CASE \E a \in Agents, r \in Runs \cup {NoRun} : CheckoutBegin(q, a, r)
  <2>1. PICK a \in Agents, r \in Runs \cup {NoRun} : CheckoutBegin(q, a, r)
    BY <1>2
  <2> DEFINE v == [Blank EXCEPT !.pc = "try", !.agent = a, !.run = r]
  <2>2. v \in Request
    BY DEF Blank, Request, NoPatch, Patch, Keep, User
  <2>3. Sound(v)
    BY <2>1 DEF CheckoutBegin, Sound, Blank, Active
  <2> QED
    BY <2>1, <2>2, <2>3 DEF CheckoutBegin, runVars
<1>3. CASE \E op \in {"update", "release"}, a \in Agents \cup {NoAgent},
              r \in Runs \cup {NoRun} : Arrive(q, op, a, r)
  <2>1. PICK op \in {"update", "release"}, a \in Agents \cup {NoAgent},
             r \in Runs \cup {NoRun} : Arrive(q, op, a, r)
    BY <1>3
  <2> DEFINE v == [Blank EXCEPT !.pc = "assert", !.op = op, !.agent = a, !.run = r]
  <2>2. v \in Request /\ Cleared(op, a, r) \in Request
    BY DEF Cleared, Blank, Request, NoPatch, Patch, Keep, User
  <2>3. Sound(Cleared(op, a, r)) /\ (r # NoRun => Sound(v))
    BY <2>1 DEF Arrive, Sound, Cleared, Blank, Active
  <2> QED
    BY <2>1, <2>2, <2>3 DEF Arrive, runVars
<1>4. CASE AssertCheckoutOwner(q)
  <2>1. CASE HeldByActor(q) /\ Proceed(q)
    <3> DEFINE v == Cleared(req[q].op, req[q].agent, req[q].run)
    <3>1. v \in Request
      BY <1>1, ClearedIsRequest DEF Request
    <3>2. Sound(v)
      BY <1>1 DEF Sound, Cleared, Blank
    <3> QED
      BY <2>1, <3>1, <3>2, <1>4 DEF Proceed, AssertCheckoutOwner, runVars
  <2>2. CASE HeldByOther(q) /\ ToJudge(q)
    <3> DEFINE v == [req[q] EXCEPT !.pc = "judge", !.seen = issue.checkout]
    <3>1. v \in Request /\ req' = [req EXCEPT ![q] = v]
      <4>1. issue.checkout \in Runs \cup {NoRun}
        BY <1>1 DEF Row
      <4>2. v \in Request
        BY <1>1, <4>1 DEF Request
      <4> QED
        BY <1>1, <2>2, <4>2 DEF ToJudge
    <3>2. Sound(v)
      BY <1>1, <2>2 DEF Sound, HeldByOther, Request
    <3> QED
      BY <3>1, <3>2, <1>4 DEF AssertCheckoutOwner, runVars
  <2>3. CASE Refuse(q)
    BY <1>4, <2>3, BlankIsSound DEF AssertCheckoutOwner, Refuse, Answer, runVars
  <2> QED
    BY <1>4, <2>1, <2>2, <2>3 DEF AssertCheckoutOwner, runVars
<1>5. CASE Judge(q)
  <2> DEFINE v == [req[q] EXCEPT !.pc = "adopt"]
  <2>1. v \in Request
    BY <1>1 DEF Request
  <2>2. Stale(req[q].seen) => Sound(v)
    BY <1>1, <1>5 DEF Judge, At, Sound, Request, Stale
  <2> QED
    BY <1>5, <2>1, <2>2, BlankIsSound DEF Judge, Goto, Refuse, Answer, runVars
<1>6. CASE \E p \in Patches : UpdateRead(q, p)
  <2>1. PICK p \in Patches : UpdateRead(q, p)
    BY <1>6
  <2> DEFINE v == [req[q] EXCEPT !.pc = "write", !.set = p, !.clears = Clears(p),
                                 !.judged = <<issue.agent, issue.user>>]
  <2>2. v \in Request
    <3>1. p \in Patch /\ Clears(p) \in BOOLEAN /\ issue.agent \in Agents \cup {NoAgent}
            /\ issue.user \in User
      BY <1>1 DEF Row, Clears
    <3> HIDE DEF v
    <3> QED
      BY <1>1, <3>1 DEF Request, v
  <2>4. Acceptable(p) => Fits(v)
    <3>1. v.set = p /\ v.clears = Clears(p) /\ v.judged[1] = issue.agent
            /\ v.judged[2] = issue.user
      BY <1>1 DEF Request
    <3>2. Written(p.user, issue.user) \in User
      BY <1>1 DEF Written, Row, Patch, User, Keep
    <3> HIDE DEF v
    <3> QED
      BY <3>1, <3>2 DEF Acceptable, Fits, Clears, User
  <2>5. Acceptable(p) => Sound(v)
    BY <1>1, <2>4 DEF Sound, Request
  <2>6. IF Acceptable(p) THEN req' = [req EXCEPT ![q] = v] ELSE req' = [req EXCEPT ![q] = Blank]
    BY <1>1, <2>1 DEF UpdateRead, Refuse, Answer
  <2> HIDE DEF v
  <2> QED
    BY <2>1, <2>2, <2>5, <2>6, BlankIsSound DEF UpdateRead, runVars
<1>7. CASE ReleaseRead(q)
  <2> DEFINE v == [req[q] EXCEPT !.pc = "write"]
  <2>1. v \in Request
    BY <1>1 DEF Request
  <2>2. Sound(v)
    BY <1>1, <1>7 DEF ReleaseRead, At, Sound, Request
  <2> QED
    BY <1>7, <2>1, <2>2, BlankIsSound DEF ReleaseRead, Goto, Refuse, Answer, runVars
<1> QED
  BY <1>2, <1>3, <1>4, <1>5, <1>6, <1>7 DEF Reads, CheckoutBegin, Arrive,
     AssertCheckoutOwner, Judge, UpdateRead, ReleaseRead, runVars

-----------------------------------------------------------------------------
(* What a step that may take the issue does: it leaves the row as it is,    *)
(* and answers only the run that has it checked out, or it makes the run    *)
(* of its request the owner, with no other run among the owners at work.    *)
Kept(q) ==
  /\ issue' = issue
  /\ granted' = granted \/ (Grant(q) /\ issue.checkout = req[q].run)
Took(q) ==
  /\ issue'.status = "in_progress" /\ issue'.agent = req[q].agent
  /\ issue'.checkout = req[q].run /\ issue'.exec = req[q].run
  /\ issue'.user = "nobody" \/ (issue'.user = issue.user /\ issue.agent = req[q].agent)
  /\ issue' \in Row
  /\ Grant(q) /\ granted \ revived \subseteq {req[q].run}

(* An owner at work has the issue checked out, and locked. *)
LEMMA OwnersLock ==
  ASSUME CheckoutInv, NEW r \in granted \ revived
  PROVE  r \in Runs /\ Active(r) /\ issue.checkout = r /\ issue.exec = r
  BY DEF CheckoutInv, OwnersHold, LockInv, TypeOK

LEMMA TakesStep ==
  ASSUME CheckoutInv, NEW q \in Requests, Takes(q)
  PROVE  /\ UNCHANGED <<run, owed, revived, raced>>
         /\ \E v \in Request : req' = [req EXCEPT ![q] = v] /\ Sound(v)
         /\ Kept(q) \/ Took(q)
<1>1. req[q] \in Request /\ Sound(req[q]) /\ issue \in Row
        /\ req \in [Requests -> Request]
  BY DEF CheckoutInv, TypeOK
<1>3. Blank \in Request /\ Sound(Blank)
  BY BlankIsSound
<1>4. Answer(q) \/ Refuse(q) => req' = [req EXCEPT ![q] = Blank]
  BY DEF Answer, Refuse
<1>5. CASE \E expected \in SUBSET Status : CheckoutTry(q, expected)
  <2>1. PICK expected \in SUBSET Status : CheckoutTry(q, expected)
    BY <1>5
  <2>2. CASE Available(q, expected)
    <3>1. issue' = [status |-> "in_progress", agent |-> req[q].agent, user |-> "nobody",
                    checkout |-> req[q].run, exec |-> req[q].run]
            /\ Answer(q) /\ Grant(q) /\ UNCHANGED <<run, owed, revived, raced>>
      BY <2>1, <2>2 DEF CheckoutTry, runVars
    <3>2. granted \ revived \subseteq {req[q].run}
      BY <2>2, OwnersLock DEF Available, Unlocked
    <3>3. issue' \in Row
      BY <1>1, <3>1 DEF Row, Request, Status, User
    <3> QED
      BY <1>3, <1>4, <3>1, <3>2, <3>3 DEF Took
  <2>3. CASE ~Available(q, expected)
    <3> DEFINE v == [req[q] EXCEPT !.pc = "reread"]
    <3>1. v \in Request /\ req' = [req EXCEPT ![q] = v] /\ Sound(v)
      BY <1>1, <2>1, <2>3 DEF CheckoutTry, Goto, Request, Sound
    <3> HIDE DEF v
    <3> QED
      BY <2>1, <2>3, <3>1 DEF CheckoutTry, Kept, runVars
  <2> QED
    BY <2>2, <2>3
<1>6. CASE CheckoutReread(q)
  <2>1. CASE Unclaimed(q) /\ Goto(q, "claim") /\ UNCHANGED granted
    <3> DEFINE v == [req[q] EXCEPT !.pc = "claim"]
    <3>1. v \in Request /\ req' = [req EXCEPT ![q] = v]
      BY <1>1, <2>1 DEF Goto, Request
    <3>2. Sound(v)
      BY <1>1, <2>1 DEF Unclaimed, Sound, Request
    <3> HIDE DEF v
    <3> QED
      BY <1>6, <2>1, <3>1, <3>2 DEF CheckoutReread, Kept, runVars
  <2>2. CASE HeldByOther(q) /\ ToJudge(q) /\ UNCHANGED granted
    <3> DEFINE v == [req[q] EXCEPT !.pc = "judge", !.seen = issue.checkout]
    <3>1. v \in Request /\ req' = [req EXCEPT ![q] = v]
      <4>1. issue.checkout \in Runs \cup {NoRun}
        BY <1>1 DEF Row
      <4>2. v \in Request
        BY <1>1, <4>1 DEF Request
      <4> QED
        BY <1>1, <2>2, <4>2 DEF ToJudge
    <3>2. Sound(v)
      BY <1>1, <2>2 DEF HeldByOther, Sound, Request
    <3> HIDE DEF v
    <3> QED
      BY <1>6, <2>2, <3>1, <3>2 DEF CheckoutReread, Kept, runVars
  <2>3. CASE HeldByActor(q) /\ Answer(q) /\ Grant(q)
    BY <1>3, <1>4, <1>6, <2>3 DEF CheckoutReread, Kept, runVars, HeldByActor
  <2>4. CASE Refuse(q) /\ UNCHANGED granted
    BY <1>3, <1>4, <1>6, <2>4 DEF CheckoutReread, Kept, runVars
  <2> QED
    BY <1>6, <2>1, <2>2, <2>3, <2>4 DEF CheckoutReread
<1>7. CASE CheckoutClaim(q)
  <2>1. CASE Mine(q) /\ issue.checkout = NoRun /\ Unlocked(q)
    <3>1. issue' = [issue EXCEPT !.checkout = req[q].run, !.exec = req[q].run]
            /\ Answer(q) /\ Grant(q) /\ UNCHANGED <<run, owed, revived, raced>>
      BY <1>7, <2>1 DEF CheckoutClaim, runVars
    <3>2. granted \ revived \subseteq {req[q].run}
      BY <2>1, OwnersLock
    <3>3. issue' \in Row
      BY <1>1, <3>1 DEF Row, Request
    <3>4. Took(q)
      BY <1>1, <2>1, <3>1, <3>2, <3>3 DEF Took, Mine, Row
    <3> QED
      BY <1>3, <1>4, <3>1, <3>4
  <2>2. CASE Refuse(q) /\ UNCHANGED <<issue, granted>>
    BY <1>3, <1>4, <1>7, <2>2 DEF CheckoutClaim, Kept, runVars
  <2> QED
    BY <1>7, <2>1, <2>2 DEF CheckoutClaim, runVars
<1>8. CASE Adopt(q)
  <2>1. CASE Mine(q) /\ issue.checkout = req[q].seen
    <3>1. issue' = [issue EXCEPT !.checkout = req[q].run, !.exec = req[q].run]
            /\ (Answer(q) \/ Proceed(q)) /\ Grant(q) /\ UNCHANGED <<run, owed, revived, raced>>
      BY <1>8, <2>1 DEF Adopt, runVars
    <3>2. granted \ revived \subseteq {req[q].run}
      <4>1. Ended(req[q].seen) \/ req[q].seen \in revived
        BY <1>1, <1>8 DEF Adopt, At, Sound
      <4> QED
        BY <2>1, <4>1, OwnersLock DEF Ended, Active
    <3>3. issue' \in Row
      BY <1>1, <3>1 DEF Row, Request
    <3>4. Took(q)
      BY <1>1, <2>1, <3>1, <3>2, <3>3 DEF Took, Mine, Row
    <3>5. CASE Answer(q)
      BY <1>3, <1>4, <3>1, <3>4, <3>5
    <3>6. CASE Proceed(q)
      <4> DEFINE v == Cleared(req[q].op, req[q].agent, req[q].run)
      <4>1. v \in Request
        BY <1>1, ClearedIsRequest DEF Request
      <4>2. Sound(v)
        BY <1>1 DEF Sound, Cleared, Blank
      <4> QED
        BY <3>1, <3>4, <3>6, <4>1, <4>2 DEF Proceed
    <3> QED
      BY <3>1, <3>5, <3>6
  <2>2. CASE Refuse(q) /\ UNCHANGED <<issue, granted>>
    BY <1>3, <1>4, <1>8, <2>2 DEF Adopt, Kept, runVars
  <2> QED
    BY <1>8, <2>1, <2>2 DEF Adopt, runVars
<1> QED
  BY <1>5, <1>6, <1>7, <1>8 DEF Takes

-----------------------------------------------------------------------------
(* A run is created once, and what was found out of it stands, unless the  *)
(* reaper revives it.                                                       *)
LEMMA RunStep ==
  ASSUME CheckoutInv, NEW r \in Runs, RunSteps(r)
  PROVE  /\ UNCHANGED <<req, raced>>
         /\ run' \in [Runs -> {"new", "active", "ended"}]
         /\ owed' \subseteq Runs /\ revived' \subseteq Runs /\ revived \subseteq revived'
         /\ \A s \in Runs :
              /\ Ended(s) => Ended(s)' \/ s \in revived'
              /\ run[s] # "new" => run'[s] # "new"
              /\ Active(s)' => s = r \/ Active(s)
<1>1. /\ run \in [Runs -> {"new", "active", "ended"}]
      /\ owed \subseteq Runs /\ revived \subseteq Runs
  BY DEF CheckoutInv, TypeOK
<1>2. CASE \E locked \in BOOLEAN : StartRun(r, locked)
  <2>1. /\ run[r] = "new" /\ run' = [run EXCEPT ![r] = "active"]
        /\ UNCHANGED <<req, raced, owed, revived>>
    BY <1>2 DEF StartRun
  <2> QED
    BY <1>1, <2>1 DEF Ended, Active
<1>3. CASE EndRun(r)
  BY <1>1, <1>3 DEF EndRun, Ended, Active
<1>4. CASE ReleaseLock(r)
  BY <1>1, <1>4 DEF ReleaseLock, Ended, Active
<1>5. CASE Detach(r)
  <2>1. /\ run[r] = "ended" /\ run' = [run EXCEPT ![r] = "active"]
        /\ revived' = revived \cup {r} /\ UNCHANGED <<req, raced, owed>>
    BY <1>5 DEF Detach, Ended
  <2> QED
    BY <1>1, <2>1 DEF Ended, Active
<1> QED
  BY <1>2, <1>3, <1>4, <1>5 DEF RunSteps

(* What every request has found out still holds after every step. *)
LEMMA SoundStep ==
  ASSUME CheckoutInv, Next
  PROVE  req' \in [Requests -> Request] /\ \A q \in Requests : Sound(req[q])'
<1>1. req \in [Requests -> Request] /\ \A q \in Requests : Sound(req[q])
  BY DEF CheckoutInv, TypeOK
<1>2. ASSUME NEW q \in Requests, NEW v \in Request, req' = [req EXCEPT ![q] = v],
             Sound(v), UNCHANGED <<run, revived>>
      PROVE  req' \in [Requests -> Request] /\ \A p \in Requests : Sound(req[p])'
  <2>1. req' \in [Requests -> Request]
    BY <1>1, <1>2
  <2>2. ASSUME NEW p \in Requests PROVE Sound(req'[p])
    BY <1>1, <1>2
  <2>3. ASSUME NEW p \in Requests PROVE Sound(req[p])'
    BY <1>2, <2>2 DEF Sound, Ended
  <2> QED
    BY <2>1, <2>3
<1>3. CASE \E q \in Requests : Reads(q)
  BY <1>2, <1>3, ReadsStep
<1>4. CASE \E q \in Requests : Takes(q)
  BY <1>2, <1>4, TakesStep
<1>5. CASE \E q \in Requests : Writes(q)
  <2>1. PICK q \in Requests : req' = [req EXCEPT ![q] = Blank] /\ UNCHANGED <<run, revived>>
    BY <1>5 DEF Writes, UpdateWrite, ReleaseWrite, Answer, runVars
  <2>2. Blank \in Request /\ Sound(Blank)
    BY BlankIsSound
  <2> QED
    BY <1>2, <2>1, <2>2
<1>6. CASE \E r \in Runs : RunSteps(r)
  <2>1. PICK r \in Runs : RunSteps(r)
    BY <1>6
  <2>2. ASSUME NEW q \in Requests PROVE Sound(req[q])'
    <3>1. req' = req /\ req[q] \in Request /\ Sound(req[q])
      BY <1>1, <2>1, RunStep
    <3>2. /\ revived \subseteq revived'
          /\ \A s \in Runs :
               /\ Ended(s) => Ended(s)' \/ s \in revived'
               /\ run[s] # "new" => run'[s] # "new"
      BY <2>1, RunStep
    <3>3. req[q].run \in Runs \cup {NoRun} /\ req[q].seen \in Runs \cup {NoRun}
      BY <3>1 DEF Request
    <3>4. Fits(req[q]) => Fits(req[q])'
      BY <3>1 DEF Fits, Written
    <3>5. req[q].pc = "adopt" => Ended(req[q].seen)' \/ req[q].seen \in revived'
      BY <3>1, <3>2, <3>3 DEF Sound, Ended
    <3>6. req[q].run # NoRun => req[q].agent = AgentOf[req[q].run] /\ run'[req[q].run] # "new"
      BY <3>1, <3>2, <3>3 DEF Sound
    <3> QED
      BY <3>1, <3>4, <3>5, <3>6 DEF Sound, Ended
  <2> QED
    BY <1>1, <2>1, <2>2, RunStep
<1> QED
  BY <1>3, <1>4, <1>5, <1>6, Steps

-----------------------------------------------------------------------------
(* What the invariant says of the row, the runs and the owners. *)
OwnerPart ==
  /\ issue \in Row
  /\ run \in [Runs -> {"new", "active", "ended"}]
  /\ owed \subseteq Runs /\ granted \subseteq Runs /\ revived \subseteq Runs
  /\ raced \in BOOLEAN
  /\ CheckoutInProgress /\ OwnersHold /\ OneAssignee
  /\ LockInv /\ OwedInv /\ OwnerInv

LEMMA TakesOwner ==
  ASSUME CheckoutInv, NEW q \in Requests, Takes(q)
  PROVE  OwnerPart'
<1>1. OwnerPart /\ UNCHANGED <<run, owed, revived, raced>> /\ (Kept(q) \/ Took(q))
  BY TakesStep DEF CheckoutInv, TypeOK, OwnerPart
<1>0. OwedInv'
  BY <1>1 DEF OwnerPart, OwedInv, Ended
<1>2. req[q] \in Request /\ Sound(req[q])
  BY DEF CheckoutInv, TypeOK
<1>3. req[q].run \in Runs \cup {NoRun}
  BY <1>2 DEF Request
<1>4. CASE Kept(q)
  <2>1. granted' \subseteq Runs /\ \A r \in granted' \ revived : Active(r)' /\ issue'.checkout = r
    BY <1>1, <1>3, <1>4, OwnersLock DEF Kept, Grant, Active, OwnerPart
  <2>2. CheckoutInProgress' /\ OneAssignee' /\ LockInv' /\ OwnerInv'
    BY <1>1, <1>4 DEF Kept, OwnerPart, CheckoutInProgress, OneAssignee, LockInv, OwnerInv,
       Active
  <2> QED
    BY <1>0, <1>1, <1>4, <2>1, <2>2 DEF OwnerPart, OwnersHold, Kept
<1>5. CASE Took(q)
  <2>1. granted' \subseteq Runs /\ \A r \in granted' \ revived : Active(r)' /\ issue'.checkout = r
    BY <1>1, <1>3, <1>5, OwnersLock DEF Took, Grant, Active, OwnerPart
  <2>2. CheckoutInProgress' /\ LockInv'
    BY <1>5 DEF Took, CheckoutInProgress, LockInv
  <2>3. OneAssignee'
    <3>1. req[q].run # NoRun => req[q].agent = AgentOf[req[q].run]
      BY <1>2 DEF Sound
    <3> QED
      BY <1>1, <1>5, <3>1 DEF Took, OwnerPart, OneAssignee
  <2>4. OwnerInv'
    BY <1>1, <1>2, <1>5 DEF Took, OwnerInv, Sound
  <2> QED
    BY <1>0, <1>1, <1>5, <2>1, <2>2, <2>3, <2>4 DEF OwnerPart, OwnersHold, Took
<1> QED
  BY <1>1, <1>4, <1>5

LEMMA WritesOwner ==
  ASSUME CheckoutInv, NEW q \in Requests, Writes(q)
  PROVE  OwnerPart'
<1>1. OwnerPart /\ req[q] \in Request /\ Sound(req[q])
  BY DEF CheckoutInv, TypeOK, OwnerPart
<1>2. CASE UpdateWrite(q)
  <2> DEFINE p == req[q]
             agent == Written(p.set.agent, issue.agent)
             user == Written(p.set.user, issue.user)
             status == Written(p.set.status, issue.status)
  <2>1. /\ issue'.status = status /\ issue'.agent = agent /\ issue'.user = user
        /\ issue'.checkout = (IF p.clears THEN NoRun ELSE issue.checkout)
        /\ issue'.exec = issue.exec
        /\ issue' = [issue EXCEPT !.status = status, !.agent = agent, !.user = user,
                                !.checkout = IF p.clears THEN NoRun ELSE issue.checkout]
    BY <1>1, <1>2 DEF UpdateWrite, Patched, OwnerPart, Row
  <2>2. /\ granted' = (IF p.clears THEN {} ELSE granted)
        /\ raced' = (raced \/ p.judged # <<issue.agent, issue.user>>)
        /\ UNCHANGED <<run, owed, revived>> /\ p.pc = "write" /\ p.op = "update"
    BY <1>2 DEF UpdateWrite, At, runVars
  <2>3. Fits(p)
    BY <1>1, <2>2 DEF Sound
  <2>4. issue' \in Row
    <3>1. status \in Status /\ agent \in Agents \cup {NoAgent} /\ user \in User
      BY <1>1 DEF Written, Request, Patch, Row, OwnerPart
    <3> HIDE DEF status, agent, user, p
    <3> QED
      BY <1>1, <2>1, <3>1 DEF OwnerPart, Row
  <2>5. raced' \in BOOLEAN /\ granted' \subseteq Runs
    BY <1>1, <2>2 DEF OwnerPart
  <2>6. CheckoutInProgress'
    <3>1. ~p.clears => status \in {issue.status, "in_progress"}
      BY <2>3 DEF Fits, Written
    <3> QED
      BY <1>1, <2>1, <3>1 DEF OwnerPart, CheckoutInProgress
  <2>7. OwnersHold'
    BY <1>1, <2>1, <2>2 DEF OwnerPart, OwnersHold, Active
  <2>8. OneAssignee'
    <3> SUFFICES ASSUME ~raced'
                 PROVE  /\ agent # NoAgent => user = "nobody"
                        /\ ~p.clears => agent = issue.agent
      BY <1>1, <2>1, <2>2 DEF OwnerPart, OneAssignee
    <3>1. p.judged[1] = issue.agent /\ p.judged[2] = issue.user
      <4>1. p.judged = <<issue.agent, issue.user>>
        BY <2>2, Zenon
      <4> QED
        BY <4>1
    <3> QED
      BY <2>3, <3>1 DEF Fits
  <2>9. LockInv' /\ OwedInv' /\ OwnerInv'
    BY <1>1, <2>1, <2>2 DEF OwnerPart, LockInv, OwedInv, OwnerInv, Active, Ended
  <2> QED
    BY <1>1, <2>2, <2>4, <2>5, <2>6, <2>7, <2>8, <2>9 DEF OwnerPart
<1>3. CASE ReleaseWrite(q)
  <2>1. /\ issue'.status = "todo" /\ issue'.agent = NoAgent /\ issue'.checkout = NoRun
        /\ issue' \in Row
    BY <1>1, <1>3 DEF ReleaseWrite, Released, OwnerPart, Row, Status
  <2>2. granted' = {} /\ UNCHANGED <<run, owed, revived, raced>>
    BY <1>3 DEF ReleaseWrite, runVars
  <2> QED
    BY <1>1, <2>1, <2>2 DEF OwnerPart, CheckoutInProgress, OwnersHold, OneAssignee, LockInv,
       OwedInv, OwnerInv, Ended
<1> QED
  BY <1>2, <1>3 DEF Writes

LEMMA RunOwner ==
  ASSUME CheckoutInv, NEW r \in Runs, RunSteps(r)
  PROVE  OwnerPart'
<1>1. OwnerPart
  BY DEF CheckoutInv, TypeOK, OwnerPart
<1>2. /\ run' \in [Runs -> {"new", "active", "ended"}] /\ raced' = raced
      /\ owed' \subseteq Runs /\ revived' \subseteq Runs /\ revived \subseteq revived'
      /\ \A s \in Runs : (run[s] # "new" => run'[s] # "new") /\ (Active(s)' => s = r \/ Active(s))
  BY RunStep
<1>3. CASE \E locked \in BOOLEAN : StartRun(r, locked)
  <2>1. /\ run[r] = "new" /\ run' = [run EXCEPT ![r] = "active"]
        /\ UNCHANGED <<owed, granted, revived>>
        /\ \/ issue' = issue
           \/ /\ issue.exec = NoRun \/ (issue.exec \in Runs /\ Ended(issue.exec))
              /\ issue' = [issue EXCEPT !.exec = r]
    BY <1>3 DEF StartRun
  <2>2. /\ issue' \in Row /\ issue'.checkout = issue.checkout /\ issue'.status = issue.status
        /\ issue'.agent = issue.agent /\ issue'.user = issue.user
    BY <1>1, <2>1 DEF OwnerPart, Row
  <2>3. issue.checkout # r
    BY <1>1, <2>1 DEF OwnerPart, OwnerInv
  <2>4. LockInv'
    <3> SUFFICES ASSUME issue.checkout # NoRun, Active(issue.checkout)',
                        issue.checkout \notin revived
                 PROVE  issue'.exec = issue.checkout
      BY <2>1, <2>2 DEF LockInv
    <3>1. issue.checkout \in Runs
      BY <1>1 DEF OwnerPart, Row
    <3>2. Active(issue.checkout)
      BY <1>2, <2>3, <3>1, <2>2 DEF Active
    <3>3. issue.exec = issue.checkout
      BY <1>1, <3>2 DEF OwnerPart, LockInv
    <3> QED
      BY <2>1, <3>1, <3>2, <3>3 DEF Ended, Active
  <2>5. OwnersHold'
    BY <1>1, <2>1, <2>2, <2>3 DEF OwnerPart, OwnersHold, Active
  <2>6. OwnerInv'
    BY <1>1, <1>2, <2>2 DEF OwnerPart, OwnerInv, Row
  <2>7. OwedInv'
    BY <1>1, <2>1 DEF OwnerPart, OwedInv, Ended
  <2> QED
    BY <1>1, <1>2, <2>1, <2>2, <2>4, <2>5, <2>6, <2>7 DEF OwnerPart, CheckoutInProgress, OneAssignee
<1>4. CASE EndRun(r)
  <2>1. /\ issue' = issue /\ granted' = granted \ {r} /\ run' = [run EXCEPT ![r] = "ended"]
        /\ owed' = owed \cup {r} /\ revived' = revived
    BY <1>4 DEF EndRun
  <2>2. OwedInv'
    BY <1>1, <2>1 DEF OwnerPart, OwedInv, Ended
  <2> QED
    BY <1>1, <1>2, <2>1, <2>2 DEF OwnerPart, Row, CheckoutInProgress, OwnersHold, OneAssignee,
       LockInv, OwnerInv, Active
<1>5. CASE ReleaseLock(r)
  <2>1. /\ r \in owed /\ owed' = owed \ {r} /\ UNCHANGED <<run, granted, revived>>
        /\ issue' = IF issue.exec = r THEN [issue EXCEPT !.exec = NoRun] ELSE issue
    BY <1>5 DEF ReleaseLock
  <2>2. /\ issue' \in Row /\ issue'.checkout = issue.checkout /\ issue'.status = issue.status
        /\ issue'.agent = issue.agent /\ issue'.user = issue.user
        /\ issue.exec # r => issue'.exec = issue.exec
    BY <1>1, <2>1 DEF OwnerPart, Row
  <2>3. LockInv'
    <3>1. Ended(r) \/ r \in revived
      BY <1>1, <2>1 DEF OwnerPart, OwedInv
    <3> QED
      BY <1>1, <2>1, <2>2, <3>1 DEF OwnerPart, Row, LockInv, Active, Ended
  <2>4. OwnersHold'
    BY <1>1, <2>1, <2>2 DEF OwnerPart, OwnersHold, Active
  <2>5. OwnerInv' /\ OwedInv'
    BY <1>1, <1>2, <2>1, <2>2 DEF OwnerPart, OwnerInv, OwedInv, Row, Ended
  <2> QED
    BY <1>1, <1>2, <2>1, <2>2, <2>3, <2>4, <2>5 DEF OwnerPart, CheckoutInProgress, OneAssignee
<1>6. CASE Detach(r)
  <2>1. /\ run' = [run EXCEPT ![r] = "active"] /\ revived' = revived \cup {r}
        /\ UNCHANGED <<issue, owed, granted>>
    BY <1>6 DEF Detach
  <2>2. LockInv' /\ OwnersHold' /\ OwedInv'
    BY <1>1, <2>1 DEF OwnerPart, Row, LockInv, OwnersHold, OwedInv, Active, Ended
  <2>3. OwnerInv'
    BY <1>1, <1>2, <2>1 DEF OwnerPart, OwnerInv, Row
  <2> QED
    BY <1>1, <1>2, <2>1, <2>2, <2>3 DEF OwnerPart, CheckoutInProgress, OneAssignee
<1> QED
  BY <1>3, <1>4, <1>5, <1>6 DEF RunSteps

LEMMA StepInv == CheckoutInv /\ [Next]_vars => CheckoutInv'
<1> SUFFICES ASSUME CheckoutInv, [Next]_vars PROVE CheckoutInv'
  OBVIOUS
<1>1. CASE Next
  <2>1. OwnerPart'
    <3>1. CASE \E q \in Requests : Reads(q)
      BY <3>1, ReadsStep DEF CheckoutInv, TypeOK, OwnerPart, CheckoutInProgress, OwnersHold,
         OneAssignee, LockInv, OwedInv, OwnerInv, Active, Ended
    <3> QED
      BY <1>1, <3>1, Steps, TakesOwner, WritesOwner, RunOwner
  <2>2. req' \in [Requests -> Request] /\ \A q \in Requests : Sound(req[q])'
    BY <1>1, SoundStep
  <2> QED
    BY <2>1, <2>2 DEF OwnerPart, CheckoutInv, TypeOK
<1>2. CASE UNCHANGED vars
  BY <1>2 DEF vars, CheckoutInv, TypeOK, CheckoutInProgress, OwnersHold, OneAssignee, LockInv,
     OwedInv, OwnerInv, Sound, Fits, Active, Ended
<1> QED
  BY <1>1, <1>2

-----------------------------------------------------------------------------
(* The invariant of the ownership of an issue: the row and what is said of  *)
(* it, the lock of an active owner, and what each request has found out.    *)
THEOREM CheckoutInvariance == Spec => []CheckoutInv
<1> QED
  BY InitInv, StepInv, PTL DEF Spec

(* The row and the requests stay well-formed. *)
THEOREM CheckoutTypeCorrect == Spec => []TypeOK
<1>1. CheckoutInv => TypeOK
  BY DEF CheckoutInv
<1> QED
  BY <1>1, CheckoutInvariance, PTL

(* No interleaving of the statements that write the status and those that   *)
(* write the checkout leaves a checkout on an issue that is not in progress. *)
THEOREM CheckedOutInProgress == Spec => []CheckoutInProgress
<1>1. CheckoutInv => CheckoutInProgress
  BY DEF CheckoutInv
<1> QED
  BY <1>1, CheckoutInvariance, PTL

(* No checkout, claim or adoption takes the issue from a run at work that   *)
(* was told it owns it, unless the reaper has revived that run.             *)
THEOREM OwnersHoldTheIssue == Spec => []OwnersHold
<1>1. CheckoutInv => OwnersHold
  BY DEF CheckoutInv
<1> QED
  BY <1>1, CheckoutInvariance, PTL

(* The assignee and the checkout agree, and the issue has one assignee, as  *)
(* long as no update was written against an assignee that had changed.      *)
THEOREM AssigneesAgree == Spec => []OneAssignee
<1>1. CheckoutInv => OneAssignee
  BY DEF CheckoutInv
<1> QED
  BY <1>1, CheckoutInvariance, PTL

=============================================================================
