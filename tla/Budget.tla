------------------------------- MODULE Budget -------------------------------
(***************************************************************************)
(* Budget enforcement (server/src/services/budgets.ts): cost events of one *)
(* agent at work in one project are evaluated against the policies of      *)
(* every scope they belong to (company, agent, project), while the board   *)
(* changes policies, resolves incidents, pauses and resumes, and the       *)
(* heartbeat service claims runs after asking getInvocationBlock.          *)
(*                                                                         *)
(* One action is one database statement with the code that follows it up   *)
(* to the next await; getInvocationBlock and the cancellation of the work  *)
(* of a scope are one step here (RunScheduler has the latter in detail).   *)
(* All policies are monthly, with their hard stop on; amount 0 stands for  *)
(* an inactive policy.  A dismissed incident makes room for a new one and  *)
(* is dropped; known remembers that the scope had it.  Abstracted: the     *)
(* approvals, activity, the cached monthly totals, lifetime windows.       *)
(***************************************************************************)
EXTENDS Naturals

CONSTANTS
  Scopes,
  AgentScopes,  \* the scopes that are agents
  ProjectScopes,\* and those that are projects
  NoScope,
  Evaluators,   \* requests that report a cost event
  Board,        \* requests of the board
  Runs,         \* runs of the agent
  Unnamed,      \* runs whose context has the issue only, not its project
  Amounts,      \* bound: the amounts the board sets
  WarnPercent,  \* warnPercent
  Notify,       \* notifyEnabled
  MaxSpend,     \* bound: cost events in a month
  MaxMonths     \* bound: turns of the month

ASSUME BudgetAssumption ==
  /\ AgentScopes \subseteq Scopes /\ ProjectScopes \subseteq Scopes
  /\ NoScope \notin Scopes /\ Unnamed \subseteq Runs
  /\ Amounts \subseteq Nat /\ Notify \in BOOLEAN /\ WarnPercent \in 0 .. 100
  /\ MaxSpend \in Nat /\ MaxMonths \in Nat

VARIABLES
  missed,   \* history: scopes that an aborted evaluation skipped, or that were
            \* raised to an amount the spend had reached meanwhile
  spend,    \* computeObservedAmount: the spend of this month
  months,   \* turns of the month so far
  policy,   \* the amount of each scope's policy
  pause,    \* why each scope is paused, if it is
  incident, \* the incident of each scope and threshold in this month
  known,    \* scopes that had an incident, of any month and status
  run,      \* the runs of the agent
  proc      \* the request each evaluator and board member is in
vars == <<missed, spend, months, policy, pause, incident, known, run, proc>>

Procs == Evaluators \cup Board
Threshold == {"soft", "hard"}
\* "queued" is also a run that is not there yet, or not any more.
RunStatus == {"queued", "cleared", "running"}

\* left: the policies an evaluation has read and not come to yet;
\* scope, amount, observed: the one it is at.
Request == [pc : {"idle", "policies", "next", "soft", "softInsert", "hard", "hardLook",
                  "hardInsert", "pause", "cancel", "observe", "raise", "resume",
                  "resolve"},
            left     : SUBSET [scope : Scopes, amount : Amounts],
            scope    : Scopes \cup {NoScope},
            amount   : Amounts \cup {0},
            observed : 0 .. MaxSpend]

Init ==
  /\ spend = 0 /\ months = 0
  /\ policy = [s \in Scopes |-> 0]
  /\ missed = {}
  /\ pause = [s \in Scopes |-> "no"]
  /\ incident = [s \in Scopes |-> [t \in Threshold |-> "none"]]
  /\ known = {}
  /\ run = [r \in Runs |-> "queued"]
  /\ proc = [p \in Procs |-> [pc |-> "idle", left |-> {}, scope |-> NoScope,
                              amount |-> 0, observed |-> 0]]

At(p, pc) == proc[p].pc = pc
\* At "next" the policy at hand is done with.
Moved(r, pc) == IF pc # "next" THEN [r EXCEPT !.pc = pc]
                ELSE [r EXCEPT !.pc = pc, !.scope = NoScope, !.amount = 0, !.observed = 0]
Goto(p, pc) == proc' = [proc EXCEPT ![p] = Moved(@, pc)]
End(p) == proc' = [proc EXCEPT ![p] = [pc |-> "idle", left |-> {}, scope |-> NoScope,
                                       amount |-> 0, observed |-> 0]]

Exceeded(s) == policy[s] > 0 /\ spend >= policy[s]

-----------------------------------------------------------------------------
(* A cost event and its evaluation *)

\* A cost event is reported; the request reads the policies next.
CostEvent(p) ==
  /\ At(p, "idle") /\ spend < MaxSpend
  /\ spend' = spend + 1
  /\ Goto(p, "policies")
  /\ UNCHANGED <<missed, months, policy, pause, incident, known, run>>

ReadPolicies(p) ==
  /\ At(p, "policies")
  /\ proc' = [proc EXCEPT ![p] = [@ EXCEPT !.pc = "next",
       !.left = {[scope |-> s, amount |-> policy[s]] : s \in {t \in Scopes : policy[t] > 0}}]]
  /\ UNCHANGED <<missed, spend, months, policy, pause, incident, known, run>>

\* The soft threshold of an amount, rounded up.
Soft(a) == (a * WarnPercent + 99) \div 100

\* What follows in the evaluation r of its scope.
AfterSoft(r) == IF r.observed >= r.amount THEN "hard" ELSE "next"
Judged(r) == Moved(r, IF Notify /\ r.observed >= Soft(r.amount)
                      THEN "soft" ELSE AfterSoft(r))

Taken(r, l) == [r EXCEPT !.scope = l.scope, !.amount = l.amount, !.left = @ \ {l},
                         !.observed = spend]

\* computeObservedAmount for the next policy, in the order of the rows.
Evaluate(p) ==
  /\ At(p, "next")
  /\ IF proc[p].left = {} THEN End(p)
     ELSE \E l \in proc[p].left :
            proc' = [proc EXCEPT ![p] = Judged(Taken(proc[p], l))]
  /\ UNCHANGED <<missed, spend, months, policy, pause, incident, known, run>>

\* createIncidentIfNeeded, first the query, then the insert, which throws
\* out of the whole request when the unique index finds an incident.
Inserting == [soft |-> "softInsert", hard |-> "hardInsert"]

LookFor(p, t, found) ==
  /\ Goto(p, IF incident[proc[p].scope][t] = "none" THEN Inserting[t] ELSE found)
  /\ UNCHANGED <<missed, spend, months, policy, pause, incident, known, run>>

\* The scopes an evaluation has not judged; a hard incident is followed up
\* by the request that inserted it.
Skipped(p, t) == {l.scope : l \in proc[p].left}
                   \cup (IF t = "soft" THEN {proc[p].scope} ELSE {})

Insert(p, t, next) ==
  /\ IF incident[proc[p].scope][t] = "none"
     THEN /\ incident' = [incident EXCEPT ![proc[p].scope][t] = "open"]
          /\ known' = known \cup {proc[p].scope}
          /\ Goto(p, next)
          /\ UNCHANGED missed
     ELSE /\ missed' = missed \cup Skipped(p, t)
          /\ End(p)
          /\ UNCHANGED <<incident, known>>
  /\ UNCHANGED <<spend, months, policy, pause, run>>

SoftIncident(p) ==
  \/ At(p, "soft") /\ LookFor(p, "soft", AfterSoft(proc[p]))
  \/ At(p, "softInsert") /\ Insert(p, "soft", AfterSoft(proc[p]))

HardIncident(p) ==
  \/ At(p, "hardLook") /\ LookFor(p, "hard", "pause")
  \/ At(p, "hardInsert") /\ Insert(p, "hard", "pause")

ResolvedSoft(i) == [i EXCEPT !["soft"] = IF @ = "open" THEN "resolved" ELSE @]

ResolveOpenSoftIncidents(p) ==
  /\ At(p, "hard")
  /\ incident' = [incident EXCEPT ![proc[p].scope] = ResolvedSoft(@)]
  /\ Goto(p, "hardLook")
  /\ UNCHANGED <<known, missed, spend, months, policy, pause, run>>

\* Mutant: the pause of an agent overwrites a manual one.
PausedForBudgetAlways(s) == "budget"

\* An agent is paused only if it is not paused yet; a company or a project
\* also when it was paused by hand.
PausedForBudget(s) ==
  IF s \in AgentScopes /\ pause[s] # "no" THEN pause[s] ELSE "budget"

PauseScopeForBudget(p) ==
  /\ At(p, "pause")
  /\ pause' = [pause EXCEPT ![proc[p].scope] = PausedForBudget(proc[p].scope)]
  /\ missed' = missed \ {proc[p].scope}
  /\ Goto(p, "cancel")
  /\ UNCHANGED <<spend, months, policy, incident, known, run>>

\* Mutant: only running runs are cancelled.
CancelledRunning == [r \in Runs |-> IF run[r] = "running" THEN "queued" ELSE run[r]]

Cancelled == [r \in Runs |-> "queued"]

\* The hook cancelWorkForScope.
CancelWork(p) ==
  /\ At(p, "cancel")
  /\ run' = Cancelled
  /\ Goto(p, "next")
  /\ UNCHANGED <<missed, spend, months, policy, pause, incident, known>>

-----------------------------------------------------------------------------
(* The board *)

\* upsertPolicy: the write, then the spend as of the next statement.
UpsertPolicy(p, s, a) ==
  /\ At(p, "idle") /\ a # policy[s]
  /\ policy' = [policy EXCEPT ![s] = a] /\ missed' = missed \ {s}
  /\ proc' = [proc EXCEPT ![p] = [@ EXCEPT !.pc = IF a > 0 THEN "observe" ELSE "resume",
                                           !.amount = a, !.scope = s]]
  /\ UNCHANGED <<spend, months, pause, incident, known, run>>

\* Mutant: a lowered amount is left to the next cost event.
ObserveRaiseOnly(p) ==
  /\ At(p, "observe")
  /\ IF spend < proc[p].amount THEN Goto(p, "resume") ELSE End(p)
  /\ UNCHANGED <<missed, spend, months, policy, pause, incident, known, run>>

Observe(p) ==
  LET r == [proc[p] EXCEPT !.observed = spend] IN
  /\ At(p, "observe")
  /\ proc' = [proc EXCEPT ![p] = IF spend < r.amount
                                 THEN [r EXCEPT !.pc = "resume"] ELSE Judged(r)]
  /\ UNCHANGED <<missed, spend, months, policy, pause, incident, known, run>>

\* resolveIncident with raise_budget_and_resume: any incident of the scope
\* will do, whatever its status; the amount is compared, then written.
RaiseBudget(p, s, a) ==
  /\ At(p, "idle") /\ a > spend
  /\ s \in known
  /\ proc' = [proc EXCEPT ![p] = [@ EXCEPT !.pc = "raise", !.scope = s, !.amount = a]]
  /\ UNCHANGED <<missed, spend, months, policy, pause, incident, known, run>>

WriteRaise(p) ==
  /\ At(p, "raise")
  /\ policy' = [policy EXCEPT ![proc[p].scope] = proc[p].amount]
  /\ missed' = IF proc[p].amount <= spend THEN missed \cup {proc[p].scope}
                  ELSE missed \ {proc[p].scope}
  /\ Goto(p, "resume")
  /\ UNCHANGED <<spend, months, pause, incident, known, run>>

\* Mutant: the reason of the pause is not looked at.
ResumedAlways(s) == "no"
\* Mutant: the status is left at paused, the reason cleared.
ResumedReasonOnly(s) == IF pause[s] = "budget" THEN "unexplained" ELSE pause[s]
Resumed(s) == IF pause[s] = "budget" THEN "no" ELSE pause[s]

ResumeScopeFromBudget(p) ==
  /\ At(p, "resume")
  /\ pause' = [pause EXCEPT ![proc[p].scope] = Resumed(proc[p].scope)]
  /\ Goto(p, "resolve")
  /\ UNCHANGED <<missed, spend, months, policy, incident, known, run>>

ResolveOpenIncidents(p) ==
  /\ At(p, "resolve")
  /\ incident' = [incident EXCEPT ![proc[p].scope] =
                    [t \in Threshold |-> IF @[t] = "open" THEN "resolved" ELSE @[t]]]
  /\ End(p)
  /\ UNCHANGED <<known, missed, spend, months, policy, pause, run>>

\* resolveIncident with keep_paused.
Dismiss(s, t) ==
  /\ incident[s][t] # "none"
  /\ incident' = [incident EXCEPT ![s][t] = "none"]
  /\ UNCHANGED <<missed, spend, months, policy, pause, known, run, proc>>

\* agents.pause and agents.resume.
PauseByHand(s) ==
  /\ pause[s] # "manual"
  /\ pause' = [pause EXCEPT ![s] = "manual"]
  /\ run' = Cancelled
  /\ UNCHANGED <<missed, spend, months, policy, incident, known, proc>>

ResumeByHand(s) ==
  /\ pause[s] # "no"
  /\ pause' = [pause EXCEPT ![s] = "no"]
  /\ UNCHANGED <<missed, spend, months, policy, incident, known, run, proc>>

-----------------------------------------------------------------------------
(* Runs, and the calendar *)

\* The scopes that the claim of run r asks about: getInvocationBlock looks at
\* a project only if the context of the run names it.
Checked(r) == IF r \in Unnamed THEN Scopes \ ProjectScopes ELSE Scopes

\* Mutant: only the pause is looked at.
BlockedWhenPaused(r) == \E s \in Checked(r) : pause[s] # "no"

\* getInvocationBlock, and the agent's own pause.
Blocked(r) == \E s \in Checked(r) : pause[s] # "no" \/ Exceeded(s)

\* The checks of claimQueuedRun; a blocked run stays or is cancelled.  A run
\* may be queued at any time: enqueueWakeup asks about the project, too, but
\* inserts later, and promotions and retries do not ask.
CheckRun(r) ==
  /\ run[r] = "queued" /\ ~Blocked(r)
  /\ run' = [run EXCEPT ![r] = "cleared"]
  /\ UNCHANGED <<missed, spend, months, policy, pause, incident, known, proc>>

ClaimRun(r) ==
  /\ run[r] = "cleared" /\ run' = [run EXCEPT ![r] = "running"]
  /\ UNCHANGED <<missed, spend, months, policy, pause, incident, known, proc>>

EndRun(r) ==
  /\ run[r] = "running" /\ run' = [run EXCEPT ![r] = "queued"]
  /\ UNCHANGED <<missed, spend, months, policy, pause, incident, known, proc>>

NewMonth ==
  /\ months < MaxMonths /\ months' = months + 1
  /\ spend' = 0 /\ missed' = {}
  /\ incident' = [s \in Scopes |-> [t \in Threshold |-> "none"]]
  /\ UNCHANGED <<known, policy, pause, run, proc>>

Continue(p) ==
  \/ ReadPolicies(p) \/ Evaluate(p) \/ SoftIncident(p) \/ HardIncident(p)
  \/ ResolveOpenSoftIncidents(p) \/ PauseScopeForBudget(p) \/ CancelWork(p)
  \/ Observe(p) \/ WriteRaise(p) \/ ResumeScopeFromBudget(p) \/ ResolveOpenIncidents(p)

Next ==
  \/ \E p \in Evaluators : CostEvent(p)
  \/ \E p \in Procs : Continue(p)
  \/ \E p \in Board, s \in Scopes, a \in Amounts : UpsertPolicy(p, s, a) \/ RaiseBudget(p, s, a)
  \/ \E s \in AgentScopes : PauseByHand(s) \/ ResumeByHand(s)
  \/ \E s \in Scopes, t \in Threshold : Dismiss(s, t)
  \/ \E r \in Runs : CheckRun(r) \/ ClaimRun(r) \/ EndRun(r)
  \/ NewMonth

Spec == Init /\ [][Next]_vars /\ \A p \in Procs : WF_vars(Continue(p))

-----------------------------------------------------------------------------
(* Properties *)

\* All fields are in their ranges; a request knows its scope when it needs it.
TypeOK ==
  /\ spend \in 0 .. MaxSpend /\ months \in 0 .. MaxMonths
  /\ missed \subseteq Scopes /\ policy \in [Scopes -> Amounts \cup {0}]
  /\ pause \in [Scopes -> {"no", "budget", "manual"}]
  /\ incident \in [Scopes -> [Threshold -> {"none", "open", "resolved"}]]
  /\ known \subseteq Scopes /\ run \in [Runs -> RunStatus]
  /\ proc \in [Procs -> Request]
  /\ \A p \in Procs : ~At(p, "idle") /\ ~At(p, "policies") /\ ~At(p, "next")
                        => proc[p].scope # NoScope

\* Once all requests are over, no run is at work beyond a hard limit of a
\* scope that its claim asks about, however the evaluation of a cost event, a
\* change of the policies, a resume by hand, a claim and the turn of the month
\* interleave.  The missed scopes are the exception, and HardLimitStops shows
\* that it is needed; EveryLimitStops shows that the project of an unnamed run
\* is one, too.
OverBudgetStops ==
  (\A p \in Procs : At(p, "idle")) =>
    \A r \in Runs, s \in Scopes \ missed :
      s \in Checked(r) /\ Exceeded(s) => run[r] # "running"

\* The request p has yet to judge or to stop the scope s, whose limit it
\* will find reached.
Obliged(p, s) ==
  \/ At(p, "policies")
  \/ \E l \in proc[p].left : l.scope = s /\ l.amount <= spend
  \/ /\ proc[p].scope = s
     /\ \/ At(p, "observe") /\ proc[p].amount <= spend
        \/ proc[p].pc \in {"soft", "softInsert"} /\ proc[p].amount <= proc[p].observed
        \/ proc[p].pc \in {"hard", "hardLook", "pause", "cancel"}
        \/ At(p, "hardInsert") /\ incident[s]["hard"] = "none"

\* The inductive form of OverBudgetStops: while a run is cleared or at work
\* beyond a limit that its claim asks about, some request in progress has yet
\* to stop it; a request of the board leaves no policies behind.
LimitInv ==
  /\ \A p \in Procs : proc[p].pc \in {"idle", "observe", "raise", "resume", "resolve"}
                        => proc[p].left = {}
  /\ \A s \in Scopes \ missed :
       Exceeded(s) /\ (\E r \in Runs : s \in Checked(r) /\ run[r] \in {"cleared", "running"})
         => \E p \in Procs : Obliged(p, s)

\* No budget operation ends or replaces a pause of an agent that was made by
\* hand.
ManualPauseStands ==
  [][\A s \in AgentScopes : pause[s] = "manual" /\ pause'[s] # "manual" => UNCHANGED proc]_vars

\* The same without the exception of the missed scopes: the hard limit stops
\* the work of a scope.
HardLimitStops ==
  (\A p \in Procs : At(p, "idle")) =>
    \A r \in Runs, s \in Scopes : s \in Checked(r) /\ Exceeded(s) => run[r] # "running"

\* The same for all scopes of a run, its project included.
EveryLimitStops ==
  (\A p \in Procs : At(p, "idle")) /\ (\E s \in Scopes \ missed : Exceeded(s))
    => \A r \in Runs : run[r] # "running"

\* A hard stop asks the board for a decision: no scope is paused for its budget
\* with only the incident that an earlier decision of the month has resolved.
StopIsAnswerable ==
  [][\A s \in Scopes : pause[s] # "budget" /\ pause'[s] = "budget"
       => incident[s]["hard"] # "resolved"]_vars

\* A scope that was paused for its budget does not stay so in a month in
\* which it is within its budget.
NewMonthResumes ==
  \A s \in Scopes : months = MaxMonths /\ ~Exceeded(s) /\ pause[s] = "budget"
                      ~> Exceeded(s) \/ pause[s] # "budget"
=============================================================================
