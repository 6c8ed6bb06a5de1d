---------------------------- MODULE BudgetProofs ----------------------------
(***************************************************************************)
(* Hard limits stop work, for any number of scopes, cost reports, board    *)
(* requests and runs: LimitInv is inductive, because every step that makes *)
(* a limit reached leaves a request behind that has yet to enforce it, and *)
(* a request loses that duty only by enforcing it, by finding the limit no *)
(* longer reached, or by missing the scope.                                *)
(***************************************************************************)
EXTENDS Budget, TLAPS

USE BudgetAssumption

LEMMA InitInv == Init => TypeOK /\ LimitInv
  BY DEF Init, TypeOK, LimitInv, RunStatus, Request, Procs, Threshold, At, Exceeded

\* Moving a request on, and taking up a policy, yield a request.
LEMMA MovedIsRequest ==
  ASSUME NEW r \in Request, NEW pc \in {"idle", "policies", "next", "soft", "softInsert",
           "hard", "hardLook", "hardInsert", "pause", "cancel", "observe", "raise",
           "resume", "resolve"}
  PROVE  /\ Moved(r, pc) \in Request
         /\ Moved(r, pc).pc = pc /\ Moved(r, pc).left = r.left
         /\ pc # "next" => /\ Moved(r, pc).scope = r.scope
                           /\ Moved(r, pc).amount = r.amount
                           /\ Moved(r, pc).observed = r.observed
<1>1. CASE pc = "next"
  <2>1. Moved(r, pc) = [r EXCEPT !.pc = pc, !.scope = NoScope, !.amount = 0, !.observed = 0]
    BY <1>1 DEF Moved
  <2>2. 0 \in 0 .. MaxSpend
    OBVIOUS
  <2> QED
    BY <1>1, <2>1, <2>2 DEF Request
<1>2. CASE pc # "next"
  <2>1. Moved(r, pc) = [r EXCEPT !.pc = pc]
    BY <1>2 DEF Moved
  <2> QED
    BY <1>2, <2>1 DEF Request
<1> QED
  BY <1>1, <1>2

LEMMA JudgedIsRequest ==
  ASSUME NEW r \in Request
  PROVE  /\ Judged(r) \in Request /\ Judged(r).left = r.left
         /\ Judged(r).pc \in {"soft", "hard", "next"}
         /\ Judged(r).pc # "next" => /\ Judged(r).scope = r.scope
                                     /\ Judged(r).amount = r.amount
                                     /\ Judged(r).observed = r.observed
         /\ r.observed >= r.amount => Judged(r).pc # "next"
<1>1. AfterSoft(r) \in {"hard", "next"} /\ (r.observed >= r.amount => AfterSoft(r) = "hard")
  BY DEF AfterSoft
<1> QED
  BY <1>1, MovedIsRequest DEF Judged

-----------------------------------------------------------------------------

\* A step of one request, seen from the table of requests.
LEMMA TypeStep == TypeOK /\ [Next]_vars => TypeOK'
<1> SUFFICES ASSUME TypeOK, [Next]_vars PROVE TypeOK'
  OBVIOUS
<1> DEFINE Sound(r) == r \in Request
                       /\ (r.pc \notin {"idle", "policies", "next"} => r.scope \in Scopes)
<1>1. \A p \in Procs : Sound(proc[p])
  BY DEF TypeOK, At, Request
<1>2. ASSUME NEW p \in Procs, NEW r, Sound(r), proc' = [proc EXCEPT ![p] = r]
      PROVE  /\ proc' \in [Procs -> Request]
             /\ \A q \in Procs : ~At(q, "idle")' /\ ~At(q, "policies")' /\ ~At(q, "next")'
                                   => proc'[q].scope # NoScope
  BY <1>1, <1>2 DEF TypeOK, At
<1>3. Sound([pc |-> "idle", left |-> {}, scope |-> NoScope, amount |-> 0, observed |-> 0])
  BY DEF Request
<1>4. ASSUME NEW p \in Procs, NEW pc \in {"idle", "policies", "next", "soft", "softInsert",
           "hard", "hardLook", "hardInsert", "pause", "cancel", "observe", "raise",
           "resume", "resolve"}, proc[p].scope \in Scopes \/ pc \in {"policies", "next"}
      PROVE  Sound(Moved(proc[p], pc))
  BY <1>1, <1>4, MovedIsRequest
<1> USE DEF Procs
<1>5. ASSUME NEW p \in Evaluators, CostEvent(p) PROVE TypeOK'
  <2>1. Sound(Moved(proc[p], "policies"))
    BY <1>4
  <2>2. spend' \in 0 .. MaxSpend
    BY <1>5 DEF CostEvent, TypeOK
  <2> QED
    BY <1>5, <2>1, <2>2, <1>2 DEF CostEvent, Goto, TypeOK
<1>6. ASSUME NEW p \in Procs, ReadPolicies(p) PROVE TypeOK'
  <2> DEFINE r == [proc[p] EXCEPT !.pc = "next",
       !.left = {[scope |-> s, amount |-> policy[s]] : s \in {t \in Scopes : policy[t] > 0}}]
  <2>1. \A t \in Scopes : policy[t] > 0 => policy[t] \in Amounts
    BY DEF TypeOK
  <2>2. {[scope |-> s, amount |-> policy[s]] : s \in {t \in Scopes : policy[t] > 0}}
          \subseteq [scope : Scopes, amount : Amounts]
    BY <2>1
  <2>3. Sound(r)
    BY <2>2, <1>1 DEF Request
  <2> QED
    BY <1>6, <2>3, <1>2 DEF ReadPolicies, TypeOK
<1>7. ASSUME NEW p \in Procs, Evaluate(p) PROVE TypeOK'
  <2>1. CASE proc[p].left = {}
    BY <1>7, <2>1, <1>2, <1>3 DEF Evaluate, End, TypeOK
  <2>2. CASE proc[p].left # {}
    <3>1. PICK l \in proc[p].left : proc' = [proc EXCEPT ![p] = Judged(Taken(proc[p], l))]
      BY <1>7, <2>2 DEF Evaluate
    <3> DEFINE r == Taken(proc[p], l)
    <3>2. l \in [scope : Scopes, amount : Amounts] /\ proc[p] \in Request
      BY <1>1 DEF Request
    <3>4. r \in Request /\ r.scope \in Scopes
      BY <3>2 DEF TypeOK, Request, Taken
    <3>3. Sound(Judged(r))
      BY <3>4, JudgedIsRequest
    <3> QED
      BY <1>7, <3>1, <3>3, <1>2 DEF Evaluate, TypeOK
  <2> QED
    BY <2>1, <2>2
<1>8. \A p \in Procs : AfterSoft(proc[p]) \in {"hard", "next"}
  BY DEF AfterSoft
<1>9. ASSUME NEW p \in Procs, NEW t \in Threshold, NEW pc \in {"hard", "next", "pause"},
             proc[p].scope \in Scopes, LookFor(p, t, pc)
      PROVE  TypeOK'
  <2>1. Inserting[t] \in {"softInsert", "hardInsert"}
    BY DEF Inserting, Threshold
  <2> QED
    BY <1>9, <2>1, <1>2, <1>4 DEF LookFor, Goto, TypeOK
<1>10. ASSUME NEW p \in Procs, NEW t \in Threshold, NEW pc \in {"hard", "next", "pause"},
             proc[p].scope \in Scopes, Insert(p, t, pc)
      PROVE  TypeOK'
  <2>1. incident' \in [Scopes -> [Threshold -> {"none", "open", "resolved"}]]
    BY <1>10 DEF Insert, TypeOK
  <2>2. missed' \subseteq Scopes /\ known' \subseteq Scopes
    BY <1>10, <1>1 DEF Insert, Skipped, TypeOK, Request
  <2> QED
    BY <1>10, <2>1, <2>2, <1>2, <1>3, <1>4 DEF Insert, Goto, End, TypeOK
<1>11. ASSUME NEW p \in Procs, SoftIncident(p) PROVE TypeOK'
  <2>1. proc[p].scope \in Scopes
    BY <1>11, <1>1 DEF SoftIncident, At
  <2> QED
    BY <1>11, <2>1, <1>8, <1>9, <1>10 DEF SoftIncident, Threshold
<1>12. ASSUME NEW p \in Procs, HardIncident(p) PROVE TypeOK'
  <2>1. proc[p].scope \in Scopes
    BY <1>12, <1>1 DEF HardIncident, At
  <2> QED
    BY <1>12, <2>1, <1>9, <1>10 DEF HardIncident, Threshold
<1>13. ASSUME NEW p \in Procs, ResolveOpenSoftIncidents(p) PROVE TypeOK'
  <2>1. proc[p].scope \in Scopes
    BY <1>13, <1>1 DEF ResolveOpenSoftIncidents, At
  <2>2. incident' \in [Scopes -> [Threshold -> {"none", "open", "resolved"}]]
    BY <1>13, <2>1 DEF ResolveOpenSoftIncidents, ResolvedSoft, TypeOK, Threshold
  <2> QED
    BY <1>13, <2>1, <2>2, <1>2, <1>4 DEF ResolveOpenSoftIncidents, Goto, TypeOK
<1>14. ASSUME NEW p \in Procs, PauseScopeForBudget(p) PROVE TypeOK'
  <2>1. proc[p].scope \in Scopes
    BY <1>14, <1>1 DEF PauseScopeForBudget, At
  <2>2. pause' \in [Scopes -> {"no", "budget", "manual"}]
    BY <1>14, <2>1 DEF PauseScopeForBudget, PausedForBudget, TypeOK
  <2> QED
    BY <1>14, <2>1, <2>2, <1>2, <1>4 DEF PauseScopeForBudget, Goto, TypeOK
<1>15. ASSUME NEW p \in Procs, CancelWork(p) PROVE TypeOK'
  BY <1>15, <1>2, <1>4 DEF CancelWork, Cancelled, Goto, TypeOK, RunStatus
<1>16. ASSUME NEW p \in Procs, Observe(p) PROVE TypeOK'
  <2> DEFINE r == [proc[p] EXCEPT !.observed = spend]
  <2>1. /\ proc[p] \in Request /\ spend \in 0 .. MaxSpend
        /\ proc[p].pc \notin {"idle", "policies", "next"}
    BY <1>16, <1>1 DEF Observe, At, TypeOK
  <2>2. r \in Request /\ r.scope \in Scopes
    BY <1>1, <2>1 DEF Request
  <2>3. Sound(Judged(r)) /\ Sound([r EXCEPT !.pc = "resume"])
    BY <2>2, JudgedIsRequest DEF Request
  <2> QED
    BY <1>16, <2>3, <1>2 DEF Observe, TypeOK
<1>17. ASSUME NEW p \in Procs, WriteRaise(p) PROVE TypeOK'
  <2>1. proc[p].scope \in Scopes /\ proc[p].amount \in Amounts \cup {0}
    BY <1>17, <1>1 DEF WriteRaise, At, Request
  <2>2. policy' \in [Scopes -> Amounts \cup {0}] /\ missed' \subseteq Scopes
    BY <1>17, <2>1 DEF WriteRaise, TypeOK
  <2> QED
    BY <1>17, <2>1, <2>2, <1>2, <1>4 DEF WriteRaise, Goto, TypeOK
<1>18. ASSUME NEW p \in Procs, ResumeScopeFromBudget(p) PROVE TypeOK'
  <2>1. proc[p].scope \in Scopes
    BY <1>18, <1>1 DEF ResumeScopeFromBudget, At
  <2>2. pause' \in [Scopes -> {"no", "budget", "manual"}]
    BY <1>18, <2>1 DEF ResumeScopeFromBudget, Resumed, TypeOK
  <2> QED
    BY <1>18, <2>1, <2>2, <1>2, <1>4 DEF ResumeScopeFromBudget, Goto, TypeOK
<1>19. ASSUME NEW p \in Procs, ResolveOpenIncidents(p) PROVE TypeOK'
  <2>1. proc[p].scope \in Scopes
    BY <1>19, <1>1 DEF ResolveOpenIncidents, At
  <2>2. incident' \in [Scopes -> [Threshold -> {"none", "open", "resolved"}]]
    BY <1>19, <2>1 DEF ResolveOpenIncidents, TypeOK, Threshold
  <2> QED
    BY <1>19, <2>2, <1>2, <1>3 DEF ResolveOpenIncidents, End, TypeOK
<1>20. ASSUME NEW p \in Board, NEW s \in Scopes, NEW a \in Amounts, UpsertPolicy(p, s, a)
       PROVE  TypeOK'
  <2> DEFINE r == [proc[p] EXCEPT !.pc = IF a > 0 THEN "observe" ELSE "resume",
                                  !.amount = a, !.scope = s]
  <2>1. Sound(r)
    BY <1>1 DEF Request
  <2> QED
    BY <1>20, <2>1, <1>2 DEF UpsertPolicy, TypeOK
<1>21. ASSUME NEW p \in Board, NEW s \in Scopes, NEW a \in Amounts, RaiseBudget(p, s, a)
       PROVE  TypeOK'
  <2> DEFINE r == [proc[p] EXCEPT !.pc = "raise", !.scope = s, !.amount = a]
  <2>1. Sound(r)
    BY <1>1 DEF Request
  <2> QED
    BY <1>21, <2>1, <1>2 DEF RaiseBudget, TypeOK
<1>22. ASSUME NEW s \in Scopes, NEW t \in Threshold, Dismiss(s, t) PROVE TypeOK'
  BY <1>22 DEF Dismiss, TypeOK, At
<1>23. ASSUME NEW s \in AgentScopes, PauseByHand(s) \/ ResumeByHand(s) PROVE TypeOK'
  BY <1>23 DEF PauseByHand, ResumeByHand, Cancelled, RunStatus, TypeOK, At
<1>24. ASSUME NEW r \in Runs, CheckRun(r) \/ ClaimRun(r) \/ EndRun(r) PROVE TypeOK'
  BY <1>24 DEF CheckRun, ClaimRun, EndRun, RunStatus, TypeOK, At
<1>25. CASE NewMonth
  BY <1>25 DEF NewMonth, TypeOK, At
<1>26. CASE UNCHANGED vars
  BY <1>26 DEF vars, TypeOK, At
<1> QED
  BY <1>5, <1>6, <1>7, <1>11, <1>12, <1>13, <1>14, <1>15, <1>16, <1>17, <1>18, <1>19,
     <1>20, <1>21, <1>22, <1>23, <1>24, <1>25, <1>26 DEF Next, Continue

\* The rows of the budget service and its requests stay well-typed.
THEOREM BudgetTypeCorrect == Spec => []TypeOK
<1>1. Init => TypeOK
  BY InitInv
<1> QED
  BY <1>1, TypeStep, PTL DEF Spec

-----------------------------------------------------------------------------

\* A step of the request p keeps LimitInv if p answers for every scope that it
\* takes the enforcement away from: one that was missed, was within its limit,
\* or had p obliged; and for one whose hard incident appears.
LEMMA OneRequest ==
  ASSUME LimitInv, proc \in [Procs -> Request], NEW p \in Procs, NEW r,
         proc' = [proc EXCEPT ![p] = r],
         r.pc \in {"idle", "observe", "raise", "resume", "resolve"} => r.left = {},
         spend' = spend, run' = run,
         \A s \in Scopes : \/ incident[s]["hard"] = "none" => incident'[s]["hard"] = "none"
                           \/ Obliged(p, s)',
         \A s \in Scopes \ missed' :
           Exceeded(s)' /\ (s \in missed \/ ~Exceeded(s) \/ Obliged(p, s)) => Obliged(p, s)'
  PROVE  LimitInv'
<1>1. ASSUME NEW q \in Procs, NEW s \in Scopes, q # p, Obliged(q, s)
      PROVE  \E o \in Procs : Obliged(o, s)'
  <2>1. proc'[q] = proc[q]
    BY <1>1
  <2>2. CASE incident[s]["hard"] = "none" => incident'[s]["hard"] = "none"
    <3>1. Obliged(q, s)'
      BY <1>1, <2>1, <2>2 DEF Obliged, At
    <3> QED
      BY <3>1
  <2> QED
    BY <2>2
<1>2. ASSUME NEW s \in Scopes \ missed', Exceeded(s)',
             \E x \in Runs : s \in Checked(x) /\ run'[x] \in {"cleared", "running"}
      PROVE  \E o \in Procs : Obliged(o, s)'
  <2>1. CASE s \in missed \/ ~Exceeded(s)
    BY <1>2, <2>1
  <2>2. CASE s \notin missed /\ Exceeded(s)
    <3>1. PICK o \in Procs : Obliged(o, s)
      BY <1>2, <2>2 DEF LimitInv
    <3> QED
      BY <1>1, <1>2, <3>1
  <2> QED
    BY <2>1, <2>2
<1>3. \A q \in Procs : proc'[q].pc \in {"idle", "observe", "raise", "resume", "resolve"}
                         => proc'[q].left = {}
  BY DEF LimitInv
<1> QED
  BY <1>2, <1>3 DEF LimitInv

\* A step that only touches runs, or rows that no duty depends on.
LEMMA NoRequest ==
  ASSUME LimitInv, UNCHANGED <<missed, spend, policy, proc>>,
         \A s \in Scopes : incident[s]["hard"] = "none" => incident'[s]["hard"] = "none",
         \A s \in Scopes \ missed :
           Exceeded(s) /\ (\E x \in Runs : s \in Checked(x) /\ run'[x] \in {"cleared", "running"})
             => \E x \in Runs : s \in Checked(x) /\ run[x] \in {"cleared", "running"}
  PROVE  LimitInv'
<1>1. ASSUME NEW q \in Procs, NEW s \in Scopes, Obliged(q, s) PROVE Obliged(q, s)'
  BY <1>1 DEF Obliged, At
<1>2. \A s \in Scopes : Exceeded(s)' = Exceeded(s)
  BY DEF Exceeded
<1> QED
  BY <1>1, <1>2 DEF LimitInv

\* Every step keeps the duty to enforce a reached limit.
LEMMA LimitStep == TypeOK /\ LimitInv /\ [Next]_vars => LimitInv'
<1> SUFFICES ASSUME TypeOK, LimitInv, [Next]_vars PROVE LimitInv'
  OBVIOUS
<1> USE DEF Procs
<1> DEFINE NoLeft == {"idle", "observe", "raise", "resume", "resolve"}
<1>1. /\ proc \in [Procs -> Request] /\ policy \in [Scopes -> Amounts \cup {0}]
      /\ spend \in Nat /\ incident \in [Scopes -> [Threshold -> {"none", "open", "resolved"}]]
      /\ \A p \in Procs : /\ proc[p].scope \in Scopes \cup {NoScope}
                          /\ proc[p].amount \in Nat /\ proc[p].observed \in Nat
                          /\ proc[p].left \subseteq [scope : Scopes, amount : Amounts]
  <2>1. \A p \in Procs : proc[p] \in Request
    BY DEF TypeOK
  <2>2. 0 .. MaxSpend \subseteq Nat /\ Amounts \cup {0} \subseteq Nat
    OBVIOUS
  <2>3. \A p \in Procs : /\ proc[p].scope \in Scopes \cup {NoScope}
                          /\ proc[p].amount \in Amounts \cup {0}
                          /\ proc[p].observed \in 0 .. MaxSpend
                          /\ proc[p].left \subseteq [scope : Scopes, amount : Amounts]
    BY <2>1 DEF Request
  <2> QED
    BY <2>2, <2>3 DEF TypeOK
<1>2. \A p \in Procs : proc[p].pc \in NoLeft => proc[p].left = {}
  BY DEF LimitInv
<1>3. ASSUME NEW p \in Evaluators, CostEvent(p) PROVE LimitInv'
  <2>1. proc' = [proc EXCEPT ![p] = [proc[p] EXCEPT !.pc = "policies"]]
    BY <1>3 DEF CostEvent, Goto, Moved
  <2>2. At(p, "policies")'
    BY <1>1, <2>1 DEF At, Request
  <2>3. \A s \in Scopes : Obliged(p, s)'
    BY <2>2 DEF Obliged
  <2>4. \A q \in Procs : proc'[q].pc \in NoLeft => proc'[q].left = {}
    BY <1>1, <1>2, <2>1 DEF Request
  <2> QED
    BY <2>3, <2>4 DEF LimitInv
<1>4. ASSUME NEW p \in Procs, ReadPolicies(p) PROVE LimitInv'
  <2> DEFINE L == {[scope |-> s, amount |-> policy[s]] : s \in {t \in Scopes : policy[t] > 0}}
             r == [proc[p] EXCEPT !.pc = "next", !.left = L]
  <2>1. proc' = [proc EXCEPT ![p] = r]
    BY <1>4 DEF ReadPolicies
  <2>2. proc'[p].left = L /\ r.pc = "next"
    BY <1>1, <2>1 DEF Request
  <2>3. ASSUME NEW s \in Scopes, Exceeded(s)' PROVE Obliged(p, s)'
    <3>1. policy[s] > 0 /\ spend' >= policy[s]
      BY <1>4, <2>3 DEF ReadPolicies, Exceeded
    <3>2. [scope |-> s, amount |-> policy[s]] \in proc'[p].left
      BY <2>2, <3>1
    <3>3. [scope |-> s, amount |-> policy[s]].amount <= spend'
      BY <1>1, <1>4, <3>1 DEF ReadPolicies
    <3> QED
      BY <3>2, <3>3 DEF Obliged
  <2> HIDE DEF r
  <2> QED
    BY <1>1, <1>4, <2>1, <2>2, <2>3, OneRequest DEF ReadPolicies
<1>5. ASSUME NEW p \in Procs, Evaluate(p) PROVE LimitInv'
  <2>1. UNCHANGED <<missed, spend, policy, incident, run>>
    BY <1>5 DEF Evaluate
  <2>2. CASE proc[p].left = {}
    <3> DEFINE r == [pc |-> "idle", left |-> {}, scope |-> NoScope, amount |-> 0, observed |-> 0]
    <3>1. proc' = [proc EXCEPT ![p] = r]
      BY <1>5, <2>2 DEF Evaluate, End
    <3>2. \A s \in Scopes : ~Obliged(p, s)
      BY <1>5, <2>2 DEF Evaluate, Obliged, At
    <3>3. \A s \in Scopes : Exceeded(s)' => Exceeded(s)
      BY <2>1 DEF Exceeded
    <3> HIDE DEF r
    <3>4. r.pc \in NoLeft => r.left = {}
      BY DEF r
    <3> QED
      BY <1>1, <2>1, <3>1, <3>2, <3>3, <3>4, OneRequest
  <2>3. CASE proc[p].left # {}
    <3>1. PICK l \in proc[p].left : proc' = [proc EXCEPT ![p] = Judged(Taken(proc[p], l))]
      BY <1>5, <2>3 DEF Evaluate
    <3> DEFINE r == Taken(proc[p], l)
    <3>2. l \in [scope : Scopes, amount : Amounts] /\ proc[p] \in Request
      BY <1>1
    <3>3. /\ r \in Request /\ r.scope = l.scope /\ r.amount = l.amount
          /\ r.observed = spend /\ r.left = proc[p].left \ {l}
      BY <3>2 DEF TypeOK, Request, Taken
    <3> HIDE DEF r
    <3>4. proc'[p] = Judged(r)
      BY <1>1, <3>1 DEF r
    <3>5. ASSUME NEW s \in Scopes, Obliged(p, s) PROVE Obliged(p, s)'
      <4>1. PICK m \in proc[p].left : m.scope = s /\ m.amount <= spend
        BY <1>5, <3>5 DEF Evaluate, Obliged, At
      <4>2. CASE m # l
        <5>1. m \in proc'[p].left
          BY <3>3, <3>4, <4>2, JudgedIsRequest
        <5> QED
          BY <2>1, <4>1, <5>1 DEF Obliged
      <4>3. CASE m = l
        <5>1. Judged(r).pc \in {"soft", "hard"}
          BY <1>1, <3>2, <3>3, <4>1, <4>3, JudgedIsRequest
        <5>2. Judged(r).scope = s /\ Judged(r).amount <= Judged(r).observed
          BY <3>3, <4>1, <4>3, <5>1, JudgedIsRequest
        <5> QED
          BY <3>4, <5>1, <5>2 DEF Obliged, At
      <4> QED
        BY <4>2, <4>3
    <3>6. \A s \in Scopes : Exceeded(s)' => Exceeded(s)
      BY <2>1 DEF Exceeded
    <3>7. Judged(r).pc \notin NoLeft
      BY <3>3, JudgedIsRequest
    <3> QED
      BY <1>1, <2>1, <3>1, <3>5, <3>6, <3>7, OneRequest DEF r
  <2> QED
    BY <2>2, <2>3
<1>6. ASSUME NEW p \in Procs, NEW r, proc' = [proc EXCEPT ![p] = r],
             r.left = proc[p].left, r.pc \notin NoLeft,
             r.pc # "next" => /\ r.scope = proc[p].scope /\ r.amount = proc[p].amount
                              /\ r.observed = proc[p].observed,
             spend' = spend, policy' = policy, missed' = missed, run' = run,
             \A s \in Scopes : \/ incident[s]["hard"] = "none" => incident'[s]["hard"] = "none"
                               \/ proc[p].scope = s /\ r.pc = "pause",
             proc[p].pc \in {"soft", "softInsert"}
               /\ proc[p].amount <= proc[p].observed => r.pc \in {"softInsert", "hard"},
             proc[p].pc \in {"hard", "hardLook", "hardInsert"} =>
               \/ r.pc \in {"hardLook", "pause"}
               \/ r.pc = "hardInsert" /\ incident'[proc[p].scope]["hard"] = "none",
             proc[p].pc \notin {"observe", "pause", "cancel", "policies"}
      PROVE  LimitInv'
  <2>1. proc'[p] = r
    BY <1>1, <1>6
  <2>2. ASSUME NEW s \in Scopes, Obliged(p, s) PROVE Obliged(p, s)'
    BY <1>6, <2>1, <2>2 DEF Obliged, At
  <2>3. \A s \in Scopes : proc[p].scope = s /\ r.pc = "pause" => Obliged(p, s)'
    BY <1>6, <2>1 DEF Obliged, At
  <2>4. \A s \in Scopes : Exceeded(s)' => Exceeded(s)
    BY <1>6 DEF Exceeded
  <2> QED
    BY <1>1, <1>6, <2>2, <2>3, <2>4, OneRequest
<1>7. \A p \in Procs : /\ AfterSoft(proc[p]) \in {"hard", "next"}
                       /\ proc[p].amount <= proc[p].observed => AfterSoft(proc[p]) = "hard"
  BY <1>1 DEF AfterSoft
<1>8. ASSUME NEW p \in Procs, NEW pc \in {"softInsert", "hard", "hardLook", "hardInsert", "next",
                                           "pause", "cancel", "resume", "resolve"}
      PROVE  /\ Moved(proc[p], pc).pc = pc /\ Moved(proc[p], pc).left = proc[p].left
             /\ pc # "next" => /\ Moved(proc[p], pc).scope = proc[p].scope
                               /\ Moved(proc[p], pc).amount = proc[p].amount
                               /\ Moved(proc[p], pc).observed = proc[p].observed
  BY <1>1, MovedIsRequest
<1>9. ASSUME NEW p \in Procs, SoftIncident(p), At(p, "soft") PROVE LimitInv'
  <2> DEFINE pc == IF incident[proc[p].scope]["soft"] = "none" THEN "softInsert"
                   ELSE AfterSoft(proc[p])
             r == Moved(proc[p], pc)
  <2>1. /\ proc' = [proc EXCEPT ![p] = r]
        /\ UNCHANGED <<missed, spend, policy, incident, run>>
    BY <1>9 DEF SoftIncident, LookFor, Goto, Inserting, At
  <2>2. pc \in {"softInsert", "hard", "next"}
        /\ (proc[p].amount <= proc[p].observed => pc \in {"softInsert", "hard"})
    BY <1>7
  <2> HIDE DEF pc
  <2>3. /\ r.pc = pc /\ r.left = proc[p].left
        /\ pc # "next" => /\ r.scope = proc[p].scope /\ r.amount = proc[p].amount
                          /\ r.observed = proc[p].observed
    BY <1>8, <2>2
  <2> HIDE DEF r
  <2> QED
    BY <1>6, <1>9, <2>1, <2>2, <2>3 DEF At
\* A request that gives up: what it had yet to judge is missed.
<1>10. ASSUME NEW p \in Procs, NEW t \in Threshold, End(p), missed' = missed \cup Skipped(p, t),
              UNCHANGED <<incident, spend, policy, run>>,
              \/ t = "soft" /\ At(p, "softInsert")
              \/ t = "hard" /\ At(p, "hardInsert") /\ incident[proc[p].scope]["hard"] # "none"
       PROVE  LimitInv'
  <2> DEFINE r == [pc |-> "idle", left |-> {}, scope |-> NoScope, amount |-> 0, observed |-> 0]
  <2>1. proc' = [proc EXCEPT ![p] = r]
    BY <1>10 DEF End
  <2>2. \A s \in Scopes : Obliged(p, s) => s \in Skipped(p, t)
    BY <1>10 DEF Obliged, Skipped, At
  <2>3. \A s \in Scopes : Exceeded(s)' => Exceeded(s)
    BY <1>10 DEF Exceeded
  <2>4. r.pc \in NoLeft => r.left = {}
    OBVIOUS
  <2> HIDE DEF r
  <2> QED
    BY <1>1, <1>10, <2>1, <2>2, <2>3, <2>4, OneRequest
<1>11. ASSUME NEW p \in Procs, SoftIncident(p), ~At(p, "soft") PROVE LimitInv'
  <2>1. At(p, "softInsert") /\ Insert(p, "soft", AfterSoft(proc[p]))
    BY <1>11 DEF SoftIncident
  <2>2. CASE incident[proc[p].scope]["soft"] = "none"
    <3> DEFINE pc == AfterSoft(proc[p])
               r == Moved(proc[p], pc)
    <3>1. /\ proc' = [proc EXCEPT ![p] = r]
          /\ incident' = [incident EXCEPT ![proc[p].scope]["soft"] = "open"]
          /\ UNCHANGED <<missed, spend, policy, run>>
      BY <2>1, <2>2 DEF Insert, Goto
    <3>2. \A s \in Scopes : incident'[s]["hard"] = incident[s]["hard"]
      BY <1>1, <3>1 DEF Threshold
    <3>3. pc \in {"hard", "next"} /\ (proc[p].amount <= proc[p].observed => pc = "hard")
      BY <1>7
    <3> HIDE DEF pc
    <3>4. /\ r.pc = pc /\ r.left = proc[p].left
          /\ pc # "next" => /\ r.scope = proc[p].scope /\ r.amount = proc[p].amount
                            /\ r.observed = proc[p].observed
      BY <1>8, <3>3
    <3> HIDE DEF r
    <3> QED
      BY <1>6, <2>1, <3>1, <3>2, <3>3, <3>4 DEF At
  <2>3. CASE incident[proc[p].scope]["soft"] # "none"
    BY <1>10, <2>1, <2>3 DEF Insert, Threshold
  <2> QED
    BY <2>2, <2>3
<1>12. ASSUME NEW p \in Procs, HardIncident(p), At(p, "hardLook") PROVE LimitInv'
  <2> DEFINE pc == IF incident[proc[p].scope]["hard"] = "none" THEN "hardInsert" ELSE "pause"
             r == Moved(proc[p], pc)
  <2>1. /\ proc' = [proc EXCEPT ![p] = r]
        /\ UNCHANGED <<missed, spend, policy, incident, run>>
    BY <1>12 DEF HardIncident, LookFor, Goto, Inserting, At
  <2>2. pc = "pause" \/ (pc = "hardInsert" /\ incident'[proc[p].scope]["hard"] = "none")
    BY <2>1
  <2> HIDE DEF pc
  <2>3. /\ r.pc = pc /\ r.left = proc[p].left /\ r.scope = proc[p].scope
        /\ r.amount = proc[p].amount /\ r.observed = proc[p].observed
    BY <1>8, <2>2
  <2> HIDE DEF r
  <2> QED
    BY <1>6, <1>12, <2>1, <2>2, <2>3 DEF At
<1>13. ASSUME NEW p \in Procs, HardIncident(p), ~At(p, "hardLook") PROVE LimitInv'
  <2>1. At(p, "hardInsert") /\ Insert(p, "hard", "pause")
    BY <1>13 DEF HardIncident
  <2>2. CASE incident[proc[p].scope]["hard"] = "none"
    <3> DEFINE r == Moved(proc[p], "pause")
    <3>1. /\ proc' = [proc EXCEPT ![p] = r]
          /\ incident' = [incident EXCEPT ![proc[p].scope]["hard"] = "open"]
          /\ UNCHANGED <<missed, spend, policy, run>>
      BY <2>1, <2>2 DEF Insert, Goto
    <3>2. \A s \in Scopes : s # proc[p].scope => incident'[s]["hard"] = incident[s]["hard"]
      BY <1>1, <3>1
    <3>3. /\ r.pc = "pause" /\ r.left = proc[p].left /\ r.scope = proc[p].scope
          /\ r.amount = proc[p].amount /\ r.observed = proc[p].observed
      BY <1>8
    <3> HIDE DEF r
    <3> QED
      BY <1>6, <2>1, <3>1, <3>2, <3>3 DEF At
  <2>3. CASE incident[proc[p].scope]["hard"] # "none"
    BY <1>10, <2>1, <2>3 DEF Insert, Threshold
  <2> QED
    BY <2>2, <2>3
<1>14. ASSUME NEW p \in Procs, ResolveOpenSoftIncidents(p) PROVE LimitInv'
  <2> DEFINE r == Moved(proc[p], "hardLook")
  <2>1. /\ proc' = [proc EXCEPT ![p] = r]
        /\ incident' = [incident EXCEPT ![proc[p].scope] = ResolvedSoft(@)]
        /\ UNCHANGED <<missed, spend, policy, run>>
    BY <1>14 DEF ResolveOpenSoftIncidents, Goto
  <2>2. \A s \in Scopes : incident'[s]["hard"] = incident[s]["hard"]
    BY <1>1, <2>1 DEF ResolvedSoft, Threshold
  <2>3. /\ r.pc = "hardLook" /\ r.left = proc[p].left /\ r.scope = proc[p].scope
        /\ r.amount = proc[p].amount /\ r.observed = proc[p].observed
    BY <1>8
  <2> HIDE DEF r
  <2> QED
    BY <1>6, <1>14, <2>1, <2>2, <2>3 DEF ResolveOpenSoftIncidents, At
<1>15. ASSUME NEW p \in Procs, PauseScopeForBudget(p) PROVE LimitInv'
  <2> DEFINE r == Moved(proc[p], "cancel")
  <2>1. /\ proc' = [proc EXCEPT ![p] = r] /\ missed' = missed \ {proc[p].scope}
        /\ UNCHANGED <<spend, policy, incident, run>>
    BY <1>15 DEF PauseScopeForBudget, Goto
  <2>2. r.pc = "cancel" /\ r.left = proc[p].left /\ r.scope = proc[p].scope
    BY <1>8
  <2> HIDE DEF r
  <2>3. proc'[p] = r
    BY <1>1, <2>1
  <2>5. \A s \in Scopes : Obliged(p, s) => Obliged(p, s)'
    BY <1>15, <2>1, <2>2, <2>3 DEF Obliged, At, PauseScopeForBudget
  <2>6. \A s \in Scopes : Exceeded(s)' => Exceeded(s)
    BY <2>1 DEF Exceeded
  <2>7. \A s \in Scopes \ missed' : s \in missed => s = proc[p].scope
    BY <2>1
  <2>8. \A s \in Scopes \ missed' :
           Exceeded(s)' /\ (s \in missed \/ ~Exceeded(s) \/ Obliged(p, s)) => Obliged(p, s)'
    <3> SUFFICES ASSUME NEW s \in Scopes \ missed', Exceeded(s)', s \in missed \/ Obliged(p, s)
                 PROVE  Obliged(p, s)'
      BY <2>6
    <3>1. CASE s \in missed
      <4>1. s = proc[p].scope
        BY <2>7, <3>1
      <4> QED
        BY <2>1, <2>2, <2>3, <4>1 DEF Obliged, At
    <3> QED
      BY <2>5, <3>1
  <2> QED
    BY <1>1, <2>1, <2>2, <2>8, OneRequest
<1>16. ASSUME NEW p \in Procs, CancelWork(p) PROVE LimitInv'
  <2>1. proc' = [proc EXCEPT ![p] = Moved(proc[p], "next")]
    BY <1>16 DEF CancelWork, Goto
  <2>2. \A q \in Procs : proc'[q].pc \in NoLeft => proc'[q].left = {}
    BY <1>1, <1>2, <1>8, <2>1
  <2>3. \A x \in Runs : run'[x] = "queued"
    BY <1>16 DEF CancelWork, Cancelled
  <2> QED
    BY <2>2, <2>3 DEF LimitInv
<1>17. ASSUME NEW p \in Procs, Observe(p) PROVE LimitInv'
  <2> DEFINE o == [proc[p] EXCEPT !.observed = spend]
             r == IF spend < o.amount THEN [o EXCEPT !.pc = "resume"] ELSE Judged(o)
  <2>1. /\ proc' = [proc EXCEPT ![p] = r] /\ proc[p].pc = "observe"
        /\ UNCHANGED <<missed, spend, policy, incident, run>>
    BY <1>17 DEF Observe, At
  <2>2. o \in Request /\ o.left = {} /\ o.scope = proc[p].scope /\ o.amount = proc[p].amount
        /\ o.observed = spend
    BY <1>1, <1>2, <2>1 DEF TypeOK, Request
  <2> HIDE DEF o
  <2>3. r.left = {}
    BY <2>2, JudgedIsRequest DEF Request
  <2>4. proc[p].amount <= spend =>
          r.pc \in {"soft", "hard"} /\ r.scope = proc[p].scope /\ r.amount <= r.observed
    BY <1>1, <2>2, JudgedIsRequest
  <2> HIDE DEF r
  <2>5. proc'[p] = r
    BY <1>1, <2>1
  <2>6. \A s \in Scopes : Obliged(p, s) => proc[p].scope = s /\ proc[p].amount <= spend
    BY <1>2, <2>1 DEF Obliged, At
  <2>7. \A s \in Scopes : Obliged(p, s) => Obliged(p, s)'
    BY <2>4, <2>5, <2>6 DEF Obliged, At
  <2>8. \A s \in Scopes : Exceeded(s)' => Exceeded(s)
    BY <2>1 DEF Exceeded
  <2> QED
    BY <1>1, <2>1, <2>3, <2>7, <2>8, OneRequest
<1>18. ASSUME NEW p \in Procs, WriteRaise(p) PROVE LimitInv'
  <2> DEFINE r == Moved(proc[p], "resume")
  <2>1. /\ proc' = [proc EXCEPT ![p] = r] /\ proc[p].pc = "raise"
        /\ policy' = [policy EXCEPT ![proc[p].scope] = proc[p].amount]
        /\ missed' = IF proc[p].amount <= spend THEN missed \cup {proc[p].scope}
                     ELSE missed \ {proc[p].scope}
        /\ UNCHANGED <<spend, incident, run>>
    BY <1>18 DEF WriteRaise, Goto, At
  <2>2. r.left = {} /\ r.pc = "resume"
    BY <1>2, <1>8, <2>1
  <2> HIDE DEF r
  <2>3. ASSUME NEW s \in Scopes \ missed', Exceeded(s)'
        PROVE  s # proc[p].scope /\ s \notin missed /\ Exceeded(s) /\ ~Obliged(p, s)
    <3>1. s # proc[p].scope
      BY <1>1, <2>1, <2>3 DEF Exceeded
    <3>2. ~Obliged(p, s)
      BY <1>2, <2>1, <3>1 DEF Obliged, At
    <3> QED
      BY <1>1, <2>1, <2>3, <3>1, <3>2 DEF Exceeded
  <2> QED
    BY <1>1, <2>1, <2>2, <2>3, OneRequest
<1>19. ASSUME NEW p \in Procs, ResumeScopeFromBudget(p) PROVE LimitInv'
  <2> DEFINE r == Moved(proc[p], "resolve")
  <2>1. /\ proc' = [proc EXCEPT ![p] = r] /\ proc[p].pc = "resume"
        /\ UNCHANGED <<missed, spend, policy, incident, run>>
    BY <1>19 DEF ResumeScopeFromBudget, Goto, At
  <2>2. r.left = {}
    BY <1>2, <1>8, <2>1
  <2> HIDE DEF r
  <2>3. \A s \in Scopes : ~Obliged(p, s)
    BY <1>2, <2>1 DEF Obliged, At
  <2>4. \A s \in Scopes : Exceeded(s)' => Exceeded(s)
    BY <2>1 DEF Exceeded
  <2> QED
    BY <1>1, <2>1, <2>2, <2>3, <2>4, OneRequest
<1>20. ASSUME NEW p \in Procs, ResolveOpenIncidents(p) PROVE LimitInv'
  <2> DEFINE r == [pc |-> "idle", left |-> {}, scope |-> NoScope, amount |-> 0, observed |-> 0]
  <2>1. /\ proc' = [proc EXCEPT ![p] = r] /\ proc[p].pc = "resolve"
        /\ UNCHANGED <<missed, spend, policy, run>>
    BY <1>20 DEF ResolveOpenIncidents, End, At
  <2>2. \A s \in Scopes : incident[s]["hard"] = "none" => incident'[s]["hard"] = "none"
    <3>1. incident' = [incident EXCEPT ![proc[p].scope] =
                    [t \in Threshold |-> IF @[t] = "open" THEN "resolved" ELSE @[t]]]
      BY <1>20 DEF ResolveOpenIncidents
    <3> QED
      BY <1>1, <3>1 DEF Threshold
  <2>3. r.left = {}
    OBVIOUS
  <2> HIDE DEF r
  <2>4. \A s \in Scopes : ~Obliged(p, s)
    BY <1>2, <2>1 DEF Obliged, At
  <2>5. \A s \in Scopes : Exceeded(s)' => Exceeded(s)
    BY <2>1 DEF Exceeded
  <2> QED
    BY <1>1, <2>1, <2>2, <2>3, <2>4, <2>5, OneRequest
<1>21. ASSUME NEW p \in Board, NEW s \in Scopes, NEW a \in Amounts, UpsertPolicy(p, s, a)
       PROVE  LimitInv'
  <2> DEFINE r == [proc[p] EXCEPT !.pc = IF a > 0 THEN "observe" ELSE "resume",
                                  !.amount = a, !.scope = s]
  <2>1. /\ proc' = [proc EXCEPT ![p] = r] /\ proc[p].pc = "idle"
        /\ policy' = [policy EXCEPT ![s] = a] /\ missed' = missed \ {s}
        /\ UNCHANGED <<spend, incident, run>>
    BY <1>21 DEF UpsertPolicy, At
  <2>2. /\ r.left = {} /\ r.scope = s /\ r.amount = a
        /\ a > 0 => r.pc = "observe"
    BY <1>1, <1>2, <2>1 DEF Request
  <2> HIDE DEF r
  <2>3. proc'[p] = r
    BY <1>1, <2>1
  <2>4. Exceeded(s)' => Obliged(p, s)'
    <3>1. policy'[s] = a
      BY <1>1, <2>1
    <3>2. SUFFICES ASSUME Exceeded(s)' PROVE Obliged(p, s)'
      OBVIOUS
    <3>3. a > 0 /\ a <= spend'
      BY <1>1, <2>1, <3>1, <3>2 DEF Exceeded
    <3> QED
      BY <2>2, <2>3, <3>3 DEF Obliged, At
  <2>5. \A x \in Scopes : x # s => (Exceeded(x)' => Exceeded(x))
    BY <1>1, <2>1 DEF Exceeded
  <2>6. \A x \in Scopes : ~Obliged(p, x)
    BY <1>2, <2>1 DEF Obliged, At
  <2>7. \A x \in Scopes \ missed' : x \in missed => x = s
    BY <2>1
  <2>8. \A x \in Scopes \ missed' :
           Exceeded(x)' /\ (x \in missed \/ ~Exceeded(x) \/ Obliged(p, x)) => Obliged(p, x)'
    BY <2>4, <2>5, <2>6, <2>7
  <2> QED
    BY <1>1, <2>1, <2>2, <2>8, OneRequest
<1>22. ASSUME NEW p \in Board, NEW s \in Scopes, NEW a \in Amounts, RaiseBudget(p, s, a)
       PROVE  LimitInv'
  <2> DEFINE r == [proc[p] EXCEPT !.pc = "raise", !.scope = s, !.amount = a]
  <2>1. /\ proc' = [proc EXCEPT ![p] = r] /\ proc[p].pc = "idle"
        /\ UNCHANGED <<missed, spend, policy, incident, run>>
    BY <1>22 DEF RaiseBudget, At
  <2>2. r.left = {}
    BY <1>1, <1>2, <2>1 DEF Request
  <2> HIDE DEF r
  <2>3. \A x \in Scopes : ~Obliged(p, x)
    BY <1>2, <2>1 DEF Obliged, At
  <2>4. \A x \in Scopes : Exceeded(x)' => Exceeded(x)
    BY <2>1 DEF Exceeded
  <2> QED
    BY <1>1, <2>1, <2>2, <2>3, <2>4, OneRequest
<1>23. ASSUME NEW s \in Scopes, NEW t \in Threshold, Dismiss(s, t) PROVE LimitInv'
  <2>1. \A x \in Scopes : incident[x]["hard"] = "none" => incident'[x]["hard"] = "none"
    BY <1>1, <1>23 DEF Dismiss, Threshold
  <2> QED
    BY <1>23, <2>1, NoRequest DEF Dismiss
<1>24. ASSUME NEW s \in AgentScopes, PauseByHand(s) \/ ResumeByHand(s) PROVE LimitInv'
  <2>1. \A x \in Runs : run'[x] = "queued" \/ run'[x] = run[x]
    BY <1>24 DEF PauseByHand, ResumeByHand, Cancelled
  <2>2. UNCHANGED <<missed, spend, policy, incident, proc>>
    BY <1>24 DEF PauseByHand, ResumeByHand
  <2> QED
    BY <2>1, <2>2, NoRequest
<1>25. ASSUME NEW x \in Runs, CheckRun(x) PROVE LimitInv'
  <2>1. \A s \in Scopes : s \in Checked(x) => ~Exceeded(s)
    BY <1>25 DEF CheckRun, Blocked
  <2>2. UNCHANGED <<missed, spend, policy, incident, proc>>
    BY <1>25 DEF CheckRun
  <2>3. \A y \in Runs : run'[y] = run[y] \/ y = x
    BY <1>25 DEF CheckRun, TypeOK
  <2>4. \A s \in Scopes \ missed :
           Exceeded(s) /\ (\E y \in Runs : s \in Checked(y) /\ run'[y] \in {"cleared", "running"})
             => \E y \in Runs : s \in Checked(y) /\ run[y] \in {"cleared", "running"}
    BY <2>1, <2>3
  <2> QED
    BY <2>2, <2>4, NoRequest
<1>26. ASSUME NEW x \in Runs, ClaimRun(x) \/ EndRun(x) PROVE LimitInv'
  <2>1. \A y \in Runs : run'[y] \in {"cleared", "running"} => run[y] \in {"cleared", "running"}
    <3>1. run \in [Runs -> RunStatus]
      BY DEF TypeOK
    <3> QED
      BY <1>26, <3>1 DEF ClaimRun, EndRun
  <2>2. UNCHANGED <<missed, spend, policy, incident, proc>>
    BY <1>26 DEF ClaimRun, EndRun
  <2>3. \A s \in Scopes : incident[s]["hard"] = "none" => incident'[s]["hard"] = "none"
    BY <2>2
  <2>4. \A s \in Scopes :
           (\E y \in Runs : s \in Checked(y) /\ run'[y] \in {"cleared", "running"})
             => \E y \in Runs : s \in Checked(y) /\ run[y] \in {"cleared", "running"}
    BY <2>1
  <2>5. UNCHANGED <<missed, spend, policy, proc>>
    BY <2>2
  <2> QED
    BY <2>3, <2>4, <2>5, NoRequest
<1>27. CASE NewMonth
  <2>1. \A s \in Scopes : ~Exceeded(s)'
    <3>1. \A s \in Scopes : policy[s] \in Nat
      <4>1. Amounts \cup {0} \subseteq Nat
        OBVIOUS
      <4>2. \A s \in Scopes : policy[s] \in Amounts \cup {0}
        BY <1>1
      <4> QED
        BY <4>1, <4>2
    <3>2. policy' = policy /\ spend' = 0
      BY <1>27 DEF NewMonth
    <3> QED
      BY <3>1, <3>2 DEF Exceeded
  <2> QED
    BY <1>2, <1>27, <2>1 DEF NewMonth, LimitInv
<1>28. CASE UNCHANGED vars
  BY <1>28, NoRequest DEF vars
<1> QED
  BY <1>3, <1>4, <1>5, <1>9, <1>11, <1>12, <1>13, <1>14, <1>15, <1>16, <1>17, <1>18, <1>19,
     <1>20, <1>21, <1>22, <1>23, <1>24, <1>25, <1>26, <1>27, <1>28 DEF Next, Continue

\* The inductive invariant holds for every number of scopes, cost reports in
\* progress, board requests and runs.
THEOREM BudgetInvariance == Spec => [](TypeOK /\ LimitInv)
<1>1. Init => TypeOK /\ LimitInv
  BY InitInv
<1>2. TypeOK /\ LimitInv /\ [Next]_vars => (TypeOK /\ LimitInv)'
  BY TypeStep, LimitStep
<1> QED
  BY <1>1, <1>2, PTL DEF Spec

\* With no request in progress no run is at work beyond a hard limit of a scope
\* that its claim asks about, except for the scopes that were missed.
THEOREM HardLimitsStopWork == Spec => []OverBudgetStops
<1>1. TypeOK /\ LimitInv => OverBudgetStops
  <2> SUFFICES ASSUME TypeOK, LimitInv, \A p \in Procs : At(p, "idle"),
                      NEW r \in Runs, NEW s \in Scopes \ missed,
                      s \in Checked(r), Exceeded(s)
               PROVE  run[r] # "running"
    BY DEF OverBudgetStops
  <2>1. \A p \in Procs : ~Obliged(p, s)
    BY DEF Obliged, At, LimitInv
  <2> QED
    BY <2>1 DEF LimitInv
<1> QED
  BY <1>1, BudgetInvariance, PTL

\* No operation of the budget service lifts or replaces a manual pause of an
\* agent: evaluation, policy changes and raises all look at the reason first.
THEOREM ManualPausesStand == Spec => ManualPauseStands
<1> DEFINE Kept == \A s \in AgentScopes : pause[s] = "manual" /\ pause'[s] # "manual"
                                            => UNCHANGED proc
<1>1. TypeOK /\ [Next]_vars => [Kept]_vars
  <2> SUFFICES ASSUME TypeOK, [Next]_vars, NEW s \in AgentScopes, pause[s] = "manual",
                      pause'[s] # "manual"
               PROVE  UNCHANGED proc
    OBVIOUS
  <2>1. pause \in [Scopes -> {"no", "budget", "manual"}] /\ s \in Scopes
    BY DEF TypeOK
  <2>2. ASSUME NEW p \in Procs, Continue(p) PROVE FALSE
    <3>1. ~PauseScopeForBudget(p)
      BY <2>1 DEF PauseScopeForBudget, PausedForBudget
    <3>2. ~ResumeScopeFromBudget(p)
      BY <2>1 DEF ResumeScopeFromBudget, Resumed
    <3> QED
      BY <2>2, <3>1, <3>2 DEF Continue, ReadPolicies, Evaluate, SoftIncident, HardIncident,
         LookFor, Insert, ResolveOpenSoftIncidents, CancelWork, Observe, WriteRaise,
         ResolveOpenIncidents
  <2>3. ASSUME NEW p \in Board, NEW x \in Scopes, NEW a \in Amounts,
               UpsertPolicy(p, x, a) \/ RaiseBudget(p, x, a)
        PROVE  FALSE
    BY <2>3 DEF UpsertPolicy, RaiseBudget
  <2> QED
    BY <2>2, <2>3 DEF Next, CostEvent, Dismiss, PauseByHand, ResumeByHand, CheckRun, ClaimRun,
       EndRun, NewMonth, vars
<1> QED
  BY <1>1, BudgetTypeCorrect, PTL DEF Spec, ManualPauseStands
=============================================================================
