---------------------------- MODULE RunLifecycle ----------------------------
(***************************************************************************)
(* What the heartbeat service promises about the rows of heartbeat_runs,   *)
(* whoever writes them: a run is queued once, starts at most once and only *)
(* while its agent has a free slot (policy.maxConcurrentRuns of            *)
(* server/src/services/heartbeat.ts), and is never started again after it  *)
(* has settled.  A settled run may still change its terminal status: the   *)
(* services overwrite one another there.  RunScheduler implements this     *)
(* specification.                                                          *)
(***************************************************************************)
EXTENDS Integers, FiniteSets

CONSTANTS
  Agents,         \* agents of one company
  NoAgent,        \* agent column of a row that does not exist yet
  MaxRuns,        \* bound: rows of heartbeat_runs
  MaxConcurrent   \* policy.maxConcurrentRuns, the same for every agent

VARIABLE rows     \* heartbeat_runs: agent and status of each run

RunId    == 1 .. MaxRuns
Terminal == {"succeeded", "failed", "cancelled"}
Status   == {"none", "queued", "running"} \cup Terminal
Row      == [agent : Agents \cup {NoAgent}, status : Status]

RunningOf(a) == {r \in RunId : rows[r].agent = a /\ rows[r].status = "running"}

LifecycleInit == rows = [r \in RunId |-> [agent |-> NoAgent, status |-> "none"]]

Submit(r, a) ==
  /\ rows[r].status = "none"
  /\ rows' = [rows EXCEPT ![r] = [agent |-> a, status |-> "queued"]]

Start(r) ==
  /\ rows[r].status = "queued"
  /\ Cardinality(RunningOf(rows[r].agent)) < MaxConcurrent
  /\ rows' = [rows EXCEPT ![r].status = "running"]

Settle(r, status) ==
  /\ rows[r].status # "none"
  /\ rows' = [rows EXCEPT ![r].status = status]

LifecycleNext ==
  \E r \in RunId :
    \/ \E a \in Agents : Submit(r, a)
    \/ Start(r)
    \/ \E status \in Terminal : Settle(r, status)

Lifecycle == LifecycleInit /\ [][LifecycleNext]_rows
=============================================================================
