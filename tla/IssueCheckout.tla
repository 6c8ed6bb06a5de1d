---------------------------- MODULE IssueCheckout ----------------------------
(***************************************************************************)
(* The ownership of one issue: checkout, the ownership check before an     *)
(* agent's update, release, and the adoption of a checkout whose run has   *)
(* ended (server/src/services/issues.ts, server/src/routes/issues.ts).     *)
(*                                                                         *)
(* A request is a chain of awaits; each read and each UPDATE statement is  *)
(* a step of its own.  The statements of checkout and adoption have their  *)
(* conditions in the WHERE clause; update and release judge a row read     *)
(* earlier and then write by id only.                                      *)
(***************************************************************************)
CONSTANTS Agents, NoAgent, \* agents
          Runs,            \* the runs of a behaviour
          AgentOf,         \* the agent of each run
          NoRun,           \* no run; the actor of a request of the board
          Requests,        \* requests in progress at a time
          Patches,         \* the updates clients ask for
          Revivals         \* bound: the sets of runs the reaper revives

ASSUME ConstantsAssumption ==
  /\ NoAgent \notin Agents
  /\ AgentOf \in [Runs -> Agents]
  /\ NoRun \notin Runs
  /\ Revivals \subseteq SUBSET Runs

Status == {"todo", "in_progress"}          \* "todo" stands for all others
User == {"nobody", "user"}                 \* assignee_user_id
Row == [status : Status, agent : Agents \cup {NoAgent}, user : User,
        checkout : Runs \cup {NoRun}, exec : Runs \cup {NoRun}]
Keep == "keep"                             \* a column a patch does not set
Patch == [status : Status \cup {Keep}, agent : Agents \cup {NoAgent, Keep},
          user : User \cup {Keep}]

ASSUME PatchesAssumption == Patches \subseteq Patch

VARIABLES
  issue,    \* the row of the issue
  run,      \* run[r]: not created, at work or terminal
  owed,     \* the runs whose lock is still to be released
  req,      \* req[q]: the request q and what it has read and is about to write
  granted,  \* history: the active runs told that they own the issue since it was last
            \* given up
  revived,  \* history: the runs the reaper set from terminal back to running
  raced     \* history: an update judged an assignee that changed before it wrote

runVars == <<run, owed, revived>>
vars == <<issue, run, owed, req, granted, revived, raced>>

NoPatch == [status |-> Keep, agent |-> Keep, user |-> Keep]
Blank == [pc |-> "idle", op |-> "checkout", agent |-> NoAgent, run |-> NoRun,
          seen |-> NoRun, judged |-> <<NoAgent, "nobody">>,
          set |-> NoPatch, clears |-> FALSE]

Init ==
  /\ issue \in [status : {"todo"}, agent : Agents \cup {NoAgent}, user : {"nobody"},
                checkout : {NoRun}, exec : {NoRun}]
  /\ run = [r \in Runs |-> "new"]
  /\ owed = {} /\ revived = {}
  /\ req = [q \in Requests |-> Blank]
  /\ granted = {}
  /\ raced = FALSE

At(q, pc) == req[q].pc = pc
Goto(q, pc) == req' = [req EXCEPT ![q].pc = pc]
Answer(q) == req' = [req EXCEPT ![q] = Blank]
Refuse(q) == Answer(q)                     \* with an error
Active(r) == run[r] = "active"
Ended(r) == run[r] = "ended"
Mine(q) == issue.status = "in_progress" /\ issue.agent = req[q].agent

(* The request goes on to its read; an update does not look at its actor again. *)
Cleared(op, a, r) ==
  IF op = "update" THEN [Blank EXCEPT !.pc = "read", !.op = op]
  ELSE [Blank EXCEPT !.pc = "read", !.op = op, !.agent = a, !.run = r]
Proceed(q) == req' = [req EXCEPT ![q] = Cleared(req[q].op, req[q].agent, req[q].run)]

(* The response names the run of the request as the owner. *)
Grant(q) ==
  granted' = IF req[q].run # NoRun /\ Active(req[q].run)
             THEN granted \cup {req[q].run} ELSE granted

-----------------------------------------------------------------------------
(* The request arrives: from a run of an agent, also one that has been      *)
(* cancelled while its process is still at work, or from the board (NoRun), *)
(* which checks the issue out for an agent of its choice.                   *)
CheckoutBegin(q, a, r) ==
  /\ At(q, "idle")
  /\ r # NoRun => run[r] # "new" /\ AgentOf[r] = a
  /\ req' = [req EXCEPT ![q] = [Blank EXCEPT !.pc = "try", !.agent = a, !.run = r]]
  /\ UNCHANGED <<issue, runVars, granted, raced>>

Unlocked(q) == issue.exec \in {NoRun, req[q].run}

(* The WHERE clause of the claim. *)
Available(q, expected) ==
  /\ issue.status \in expected
  /\ \/ issue.agent = NoAgent
     \/ issue.agent = req[q].agent /\ issue.checkout \in {NoRun, req[q].run}
  /\ Unlocked(q)

CheckoutTry(q, expected) ==
  /\ At(q, "try")
  /\ IF Available(q, expected)
     THEN /\ issue' = [status |-> "in_progress", agent |-> req[q].agent,
                       user |-> "nobody", checkout |-> req[q].run, exec |-> req[q].run]
          /\ Answer(q) /\ Grant(q)
     ELSE Goto(q, "reread") /\ UNCHANGED <<issue, granted>>
  /\ UNCHANGED <<runVars, raced>>

(* The claim changed no row: what is the issue's state now? *)
Unclaimed(q) == Mine(q) /\ req[q].run # NoRun /\ issue.checkout = NoRun /\ Unlocked(q)
HeldByOther(q) == Mine(q) /\ req[q].run # NoRun /\ issue.checkout \notin {NoRun, req[q].run}
HeldByActor(q) == Mine(q) /\ issue.checkout = req[q].run

ToJudge(q) == req' = [req EXCEPT ![q].pc = "judge", ![q].seen = issue.checkout]

CheckoutReread(q) ==
  /\ At(q, "reread")
  /\ \/ Unclaimed(q) /\ Goto(q, "claim") /\ UNCHANGED granted
     \/ HeldByOther(q) /\ ToJudge(q) /\ UNCHANGED granted
     \/ HeldByActor(q) /\ Answer(q) /\ Grant(q)
     \/ /\ ~(Unclaimed(q) \/ HeldByOther(q) \/ HeldByActor(q))
        /\ Refuse(q) /\ UNCHANGED granted
  /\ UNCHANGED <<issue, runVars, raced>>

(* An assignee's run takes up an issue in progress that no run has checked out. *)
CheckoutClaim(q) ==
  /\ At(q, "claim")
  /\ IF Mine(q) /\ issue.checkout = NoRun /\ Unlocked(q)
     THEN /\ issue' = [issue EXCEPT !.checkout = req[q].run, !.exec = req[q].run]
          /\ Answer(q) /\ Grant(q)
     ELSE Refuse(q) /\ UNCHANGED <<issue, granted>>
  /\ UNCHANGED <<runVars, raced>>

-----------------------------------------------------------------------------
(* Adoption, for a checkout or for the ownership check: one read judges the *)
(* run that holds the checkout, one UPDATE takes its place.                 *)

(* Mutant: every run but the request's own counts as stale. *)
StaleUnlessOwn(r) == TRUE
Stale(r) == Ended(r)

Judge(q) ==
  /\ At(q, "judge")
  /\ IF Stale(req[q].seen) THEN Goto(q, "adopt") ELSE Refuse(q)
  /\ UNCHANGED <<issue, runVars, granted, raced>>

Adopt(q) ==
  /\ At(q, "adopt")
  /\ IF Mine(q) /\ issue.checkout = req[q].seen
     THEN /\ issue' = [issue EXCEPT !.checkout = req[q].run, !.exec = req[q].run]
          /\ IF req[q].op = "checkout" THEN Answer(q) ELSE Proceed(q)
          /\ Grant(q)
     ELSE Refuse(q) /\ UNCHANGED <<issue, granted>>
  /\ UNCHANGED <<runVars, raced>>

(* PATCH and release: the route reads the issue and asks for the ownership  *)
(* check when the actor is an agent that has the issue in progress.         *)
Arrive(q, op, a, r) ==
  /\ At(q, "idle")
  /\ IF r = NoRun THEN a = NoAgent ELSE run[r] # "new" /\ AgentOf[r] = a
  /\ req' = [req EXCEPT ![q] =
               IF r # NoRun /\ issue.status = "in_progress" /\ issue.agent = a
               THEN [Blank EXCEPT !.pc = "assert", !.op = op, !.agent = a, !.run = r]
               ELSE Cleared(op, a, r)]
  /\ UNCHANGED <<issue, runVars, granted, raced>>

AssertCheckoutOwner(q) ==
  /\ At(q, "assert")
  /\ \/ HeldByActor(q) /\ Proceed(q)
     \/ HeldByOther(q) /\ ToJudge(q)
     \/ ~(HeldByActor(q) \/ HeldByOther(q)) /\ Refuse(q)
  /\ UNCHANGED <<issue, runVars, granted, raced>>

-----------------------------------------------------------------------------
Written(new, old) == IF new = Keep THEN old ELSE new

(* Mutant: a patch that reassigns the issue keeps its checkout. *)
ClearsOnStatus(p) == p.status \notin {Keep, "in_progress"}
(* Whether a patch ends the checkout. *)
Clears(p) ==
  \/ p.status \notin {Keep, "in_progress"}
  \/ Written(p.agent, issue.agent) # issue.agent
  \/ Written(p.user, issue.user) # issue.user

Acceptable(p) ==
  LET toAgent == Written(p.agent, issue.agent) # NoAgent
      toUser == Written(p.user, issue.user) # "nobody"
  IN ~(toAgent /\ toUser) /\ (p.status = "in_progress" => toAgent \/ toUser)

UpdateRead(q, p) ==
  /\ At(q, "read") /\ req[q].op = "update"
  /\ IF Acceptable(p)
     THEN req' = [req EXCEPT ![q].pc = "write", ![q].set = p, ![q].clears = Clears(p),
                             ![q].judged = <<issue.agent, issue.user>>]
     ELSE Refuse(q)
  /\ UNCHANGED <<issue, runVars, granted, raced>>

(* Mutant: the columns a patch leaves out are written too. *)
PatchedBlindly(q) ==
  [issue EXCEPT !.status = req[q].set.status, !.agent = req[q].set.agent,
                !.user = req[q].set.user]
(* The row after the patch of request q. *)
Patched(q) ==
  [issue EXCEPT !.status = Written(req[q].set.status, issue.status),
                !.agent = Written(req[q].set.agent, issue.agent),
                !.user = Written(req[q].set.user, issue.user),
                !.checkout = IF req[q].clears THEN NoRun ELSE issue.checkout]

UpdateWrite(q) ==
  /\ At(q, "write") /\ req[q].op = "update"
  /\ issue' = Patched(q)
  /\ Answer(q)
  /\ granted' = IF req[q].clears THEN {} ELSE granted
  /\ raced' = (raced \/ req[q].judged # <<issue.agent, issue.user>>)
  /\ UNCHANGED runVars

ReleaseRead(q) ==
  /\ At(q, "read") /\ req[q].op = "release"
  /\ LET other == req[q].run # NoRun /\ issue.agent \notin {NoAgent, req[q].agent}
         notOwner == req[q].run # NoRun /\ Mine(q) /\ issue.checkout \notin {NoRun, req[q].run}
     IN IF other \/ notOwner THEN Refuse(q) ELSE Goto(q, "write")
  /\ UNCHANGED <<issue, runVars, granted, raced>>

(* Mutant: the release of an issue forgets its checkout. *)
ReleasedKeepingCheckout == [issue EXCEPT !.status = "todo", !.agent = NoAgent]
Released == [issue EXCEPT !.status = "todo", !.agent = NoAgent, !.checkout = NoRun]

ReleaseWrite(q) ==
  /\ At(q, "write") /\ req[q].op = "release"
  /\ issue' = Released
  /\ Answer(q)
  /\ granted' = {}
  /\ UNCHANGED <<runVars, raced>>

-----------------------------------------------------------------------------
(* A run is created with the execution lock, by a wakeup for this issue     *)
(* that finds it free or held by a terminal run, or without it, for other   *)
(* work of its agent.                                                       *)
StartRun(r, locked) ==
  /\ run[r] = "new"
  /\ run' = [run EXCEPT ![r] = "active"]
  /\ IF locked
     THEN /\ issue.exec = NoRun \/ (issue.exec \in Runs /\ Ended(issue.exec))
          /\ issue' = [issue EXCEPT !.exec = r]
     ELSE UNCHANGED issue
  /\ UNCHANGED <<owed, req, granted, revived, raced>>

(* The terminal status, and one transaction later the release of the lock,  *)
(* which a crash of the server may prevent.                                 *)
EndRun(r) ==
  /\ Active(r)
  /\ run' = [run EXCEPT ![r] = "ended"]
  /\ owed' = owed \cup {r}
  /\ granted' = granted \ {r}
  /\ UNCHANGED <<issue, req, revived, raced>>

ReleaseLock(r) ==
  /\ r \in owed
  /\ owed' = owed \ {r}
  /\ issue' = IF issue.exec = r THEN [issue EXCEPT !.exec = NoRun] ELSE issue
  /\ UNCHANGED <<run, req, granted, revived, raced>>

(* The reaper marks a child as detached that was alive when it listed the   *)
(* run as running, and writes "running" over whatever the status is by now. *)
Detach(r) ==
  /\ Ended(r) /\ r \notin revived /\ revived \cup {r} \in Revivals
  /\ run' = [run EXCEPT ![r] = "active"]
  /\ revived' = revived \cup {r}
  /\ UNCHANGED <<issue, owed, req, granted, raced>>

Next ==
  \/ \E q \in Requests :
       \/ \E a \in Agents, r \in Runs \cup {NoRun} : CheckoutBegin(q, a, r)
       \/ \E expected \in SUBSET Status : CheckoutTry(q, expected)
       \/ CheckoutReread(q)
       \/ CheckoutClaim(q)
       \/ \E op \in {"update", "release"}, a \in Agents \cup {NoAgent},
             r \in Runs \cup {NoRun} : Arrive(q, op, a, r)
       \/ AssertCheckoutOwner(q)
       \/ Judge(q)
       \/ Adopt(q)
       \/ \E p \in Patches : UpdateRead(q, p)
       \/ UpdateWrite(q)
       \/ ReleaseRead(q)
       \/ ReleaseWrite(q)
  \/ \E r \in Runs :
       \/ \E locked \in BOOLEAN : StartRun(r, locked)
       \/ EndRun(r)
       \/ ReleaseLock(r)
       \/ Detach(r)

Spec == Init /\ [][Next]_vars

-----------------------------------------------------------------------------
Request == [pc : {"idle", "try", "reread", "claim", "judge", "adopt", "assert", "read",
                  "write"},
            op : {"checkout", "update", "release"},
            agent : Agents \cup {NoAgent}, run : Runs \cup {NoRun}, seen : Runs \cup {NoRun},
            judged : (Agents \cup {NoAgent}) \X User, set : Patch, clears : BOOLEAN]

(* The columns of the issue and the requests' local state are well-formed.  *)
TypeOK ==
  /\ issue \in Row
  /\ run \in [Runs -> {"new", "active", "ended"}] /\ owed \subseteq Runs
  /\ req \in [Requests -> Request]
  /\ granted \subseteq Runs /\ revived \subseteq Runs
  /\ raced \in BOOLEAN

(* An issue that is not in progress is checked out by no run, whichever of  *)
(* the five statements that write either column came last.                  *)
CheckoutInProgress == issue.checkout # NoRun => issue.status = "in_progress"

(* A run that was told it owns the issue has it checked out for as long as  *)
(* it is at work and nobody has ended its checkout: no checkout, claim or   *)
(* adoption of another run, however many race, takes the issue from it.  A  *)
(* run the reaper has revived is the exception: its checkout can have been  *)
(* judged stale before.                                                     *)
OwnersHold == \A r \in granted \ revived : Active(r) /\ issue.checkout = r

(* The issue has one assignee, and the run that has it checked out is a run *)
(* of that agent, until an update writes an assignee it has judged against  *)
(* a row that has changed since.                                            *)
OneAssignee ==
  ~raced => /\ issue.agent # NoAgent => issue.user = "nobody"
            /\ issue.checkout # NoRun => issue.agent = AgentOf[issue.checkout]

-----------------------------------------------------------------------------
(* Stated by the documentation or a comment of the code, and violated.      *)

(* "single assignee only", doc/SPEC-implementation.md:210. *)
SingleAssignee == issue.agent # NoAgent => issue.user = "nobody"

(* "in_progress requires assignee", doc/SPEC-implementation.md:212. *)
InProgressIsAssigned ==
  issue.status = "in_progress" => issue.agent # NoAgent \/ issue.user # "nobody"

(* "If this run already owns it and it's in_progress, return it (no         *)
(* self-409)", issues.ts:1307: a checkout of the owning run is not refused. *)
NoSelfConflict ==
  [][\A q \in Requests :
       req[q].pc \in {"claim", "judge", "adopt"} /\ req[q].op = "checkout"
         /\ Mine(q) /\ issue.checkout = req[q].run
       => ~(req'[q].pc = "idle" /\ UNCHANGED issue)]_vars

(* "Only checkout run can release issue", issues.ts:1399: a release asked   *)
(* for by a run does not end the checkout of another run at work.           *)
OnlyOwnerReleases ==
  [][\A q \in Requests :
       (ReleaseWrite(q) /\ req[q].run # NoRun /\ issue.checkout # NoRun)
       => ~(Active(issue.checkout) /\ issue.checkout # req[q].run)]_vars
=============================================================================
