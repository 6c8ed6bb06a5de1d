---------------------------- MODULE PluginWorker ----------------------------
(***************************************************************************)
(* The worker process of one plugin                                        *)
(* (server/src/services/plugin-worker-manager.ts): a registry entry, the   *)
(* handle it refers to, and the child processes the handle has forked.     *)
(* Callers start, stop and restart the worker; a child answers initialize, *)
(* hangs, ignores signals or crashes; a crash arms a back-off timer.       *)
(*                                                                         *)
(* The manager runs in one Node process: an action is a macrotask (a       *)
(* request, a timer, an event of a child) up to the next await.  What a    *)
(* settled start or stop goes on to do runs in microtasks, before any      *)
(* other macrotask: Return, and the guard Quiet of all other actions.      *)
(*                                                                         *)
(* Abstracted: RPC calls other than initialize and shutdown, back-off      *)
(* delays, spawn errors.  A child that got SIGKILL exits before the wait   *)
(* for it is over (the code logs the opposite as "should not happen").     *)
(***************************************************************************)
EXTENDS Naturals, FiniteSets

CONSTANTS
  Callers,      \* chains of awaits that use the manager
  Handles,      \* bound: handle objects at a time
  Children,     \* bound: child processes at a time
  NoHandle, NoChild,
  MaxConsecutiveCrashes  \* MAX_CONSECUTIVE_CRASHES

ASSUME WorkerAssumption ==
  /\ NoHandle \notin Handles /\ NoChild \notin Children
  /\ MaxConsecutiveCrashes \in Nat

VARIABLES
  registry, \* workers.get(pluginId)
  handle,   \* the state a handle's closures share
  child,    \* the processes, with the startInternal that awaits each
  cmd       \* what each caller awaits in the manager
workerVars == <<registry, handle, child, cmd>>

WorkerStatus == {"stopped", "starting", "running", "stopping", "crashed", "backoff"}

Handle == [status  : WorkerStatus,
           child   : Children \cup {NoChild},          \* childProcess
           stop    : BOOLEAN,                          \* intentionalStop
           crashes : 0 .. MaxConsecutiveCrashes + 1,   \* consecutiveCrashes
           timer   : BOOLEAN]                          \* backoffTimer is set
FreshHandle == [status |-> "stopped", child |-> NoChild, stop |-> FALSE,
                crashes |-> 0, timer |-> FALSE]

\* init: the startInternal that forked the child awaits its initialize call
\* ("sent") or the exit of a child it has killed ("killing").
Child == [alive  : BOOLEAN,
          of     : Handles \cup {NoHandle},
          init   : {"none", "sent", "killing"},
          victim : Children \cup {NoChild},            \* the child it has killed
          killed : BOOLEAN]                            \* got SIGKILL
NoProcess == [alive |-> FALSE, of |-> NoHandle, init |-> "none", victim |-> NoChild,
              killed |-> FALSE]

\* pc: awaits a start ("start"), a phase of stopInternal ("drain", "grace",
\* "term", "kill"), or has the result at hand ("ret").
Command == [op : {"none", "start", "stop", "restart", "restarted"},
            pc : {"idle", "start", "drain", "grace", "term", "kill", "ret"},
            h  : Handles \cup {NoHandle},
            c  : Children \cup {NoChild},              \* the child it waits for
            ok : BOOLEAN]                              \* the start has succeeded
Idle == [op |-> "none", pc |-> "idle", h |-> NoHandle, c |-> NoChild, ok |-> TRUE]

WorkerInit ==
  /\ registry = NoHandle
  /\ handle = [h \in Handles |-> FreshHandle]
  /\ child = [c \in Children |-> NoProcess]
  /\ cmd = [p \in Callers |-> Idle]

Quiet == \A p \in Callers : cmd[p].pc # "ret"

\* workerManager.isRunning
IsRunning == registry # NoHandle /\ handle[registry].status = "running"

\* A handle object nobody refers to: the next createPluginWorkerHandle.
Unused(h) ==
  /\ h # registry /\ ~handle[h].timer
  /\ \A c \in Children : child[c].of # h
  /\ \A p \in Callers : cmd[p].h # h

Stopping == {"drain", "grace", "term", "kill"}

-----------------------------------------------------------------------------
(* startInternal *)

MayStart(h) == handle[h].status \notin {"running", "starting"}

\* Fork child c for handle h and send initialize; hs is the handle map to
\* start from.
Spawn(hs, h, c) ==
  /\ ~child[c].alive /\ child[c].init = "none"
  /\ handle' = [hs EXCEPT ![h].status = "starting", ![h].stop = FALSE,
                          ![h].child = c]
  /\ child' = [child EXCEPT ![c] = [NoProcess EXCEPT !.alive = TRUE, !.of = h,
                                                    !.init = "sent"]]

\* The callers that await the start of child c get its result.
Settled(c, ok) ==
  [p \in Callers |-> IF cmd[p].pc = "start" /\ cmd[p].c = c
                     THEN [cmd[p] EXCEPT !.pc = "ret", !.ok = ok] ELSE cmd[p]]

InitOk(c) ==
  LET h == child[c].of IN
  /\ Quiet /\ child[c].alive /\ child[c].init = "sent"
  /\ child' = [child EXCEPT ![c].init = "none"]
  /\ handle' = [handle EXCEPT ![h].status = "running", ![h].crashes = 0]
  /\ cmd' = Settled(c, TRUE)
  /\ UNCHANGED registry

\* initialize times out or returns an error: killProcess.
InitFails(c) ==
  LET h == child[c].of
      k == handle[h].child IN
  /\ Quiet /\ child[c].init = "sent"
  /\ IF k = NoChild
     THEN /\ handle' = [handle EXCEPT ![h].status = "crashed"]
          /\ child' = [child EXCEPT ![c].init = "none"]
          /\ cmd' = Settled(c, FALSE)
     ELSE /\ handle' = [handle EXCEPT ![h].stop = TRUE]
          /\ child' = [child EXCEPT ![k].killed = TRUE, ![c].init = "killing",
                                     ![c].victim = k]
          /\ UNCHANGED cmd
  /\ UNCHANGED registry

-----------------------------------------------------------------------------
(* handleProcessExit, with the waits the exit event ends *)

\* The starts that this exit makes fail: all pending calls of the handle are
\* rejected, and killProcess waits for the exit of the handle's child.
FailedStarts(c) ==
  {d \in Children : /\ child[d].of = child[c].of
                    /\ \/ child[d].init = "sent"
                       \/ child[d].victim = c}

\* stopInternal at this point waits for the exit of c, or has a pending call.
Released(p, c) ==
  /\ cmd[p].pc \in Stopping /\ cmd[p].h = child[c].of
  /\ cmd[p].pc = "drain" \/ cmd[p].c = c

\* Mutants of Crashed: the limit is never reached; the status is left to the
\* timer.
CrashedUncapped(r, within) ==
  LET n == IF within THEN r.crashes + 1 ELSE 1 IN
  [r EXCEPT !.child = NoChild, !.crashes = n, !.status = "backoff", !.timer = TRUE]
CrashedSilently(r, within) ==
  LET n == IF within THEN r.crashes + 1 ELSE 1 IN
  IF n <= MaxConsecutiveCrashes
  THEN [r EXCEPT !.child = NoChild, !.crashes = n, !.timer = TRUE]
  ELSE [r EXCEPT !.child = NoChild, !.crashes = MaxConsecutiveCrashes + 1,
                 !.status = "crashed"]

\* willRestart; within is FALSE when the last crash is longer ago than
\* CRASH_WINDOW_MS.
Crashed(r, within) ==
  LET n == IF within THEN r.crashes + 1 ELSE 1 IN
  IF n <= MaxConsecutiveCrashes
  THEN [r EXCEPT !.child = NoChild, !.crashes = n, !.status = "backoff", !.timer = TRUE]
  ELSE [r EXCEPT !.child = NoChild, !.crashes = MaxConsecutiveCrashes + 1,
                 !.status = "crashed"]

AfterExit(r, within) ==
  IF r.stop THEN [r EXCEPT !.child = NoChild, !.status = "stopped"]
            ELSE Crashed(r, within)

Exit(c) ==
  LET h    == child[c].of
      fail == FailedStarts(c)
      free == {p \in Callers : Released(p, c)} IN
  /\ Quiet /\ child[c].alive
  /\ \E within \in BOOLEAN, last \in WorkerStatus :
       LET r == AfterExit(handle[h], within) IN
       /\ within \/ handle[h].crashes > 0
       \* A failed start sets "crashed", a finished stop "stopped"; which of
       \* the two is last depends on the awaits they are in.
       /\ last \in IF fail # {} /\ free # {} THEN {"crashed", "stopped"}
                   ELSE IF fail # {} THEN {"crashed"}
                   ELSE IF free # {} THEN {"stopped"} ELSE {r.status}
       /\ handle' = [handle EXCEPT ![h] = [r EXCEPT !.status = last]]
  /\ child' = [d \in Children |->
                 IF d = c /\ (c \in fail \/ child[c].init = "none") THEN NoProcess
                 ELSE IF d = c THEN [child[c] EXCEPT !.alive = FALSE]
                 ELSE IF d \in fail
                      THEN IF child[d].alive THEN [child[d] EXCEPT !.init = "none",
                                                                      !.victim = NoChild]
                                             ELSE NoProcess
                      ELSE child[d]]
  /\ cmd' = [p \in Callers |->
               IF p \in free THEN [cmd[p] EXCEPT !.pc = "ret"]
               ELSE IF cmd[p].pc = "start" /\ cmd[p].c \in fail
                    THEN [cmd[p] EXCEPT !.pc = "ret", !.ok = FALSE]
                    ELSE cmd[p]]
  /\ UNCHANGED registry

\* The back-off timer: its startInternal throws when the worker is up again.
TimerFires(h) ==
  /\ Quiet /\ handle[h].timer
  /\ LET hs == [handle EXCEPT ![h].timer = FALSE] IN
     IF MayStart(h) THEN \E c \in Children : Spawn(hs, h, c)
                    ELSE handle' = hs /\ UNCHANGED child
  /\ UNCHANGED <<registry, cmd>>

-----------------------------------------------------------------------------
(* stopInternal *)

\* Mutant: the back-off timer is not cancelled.
StopBeginKeepsTimer(r) ==
  IF r.status \in {"stopped", "stopping"} THEN r
  ELSE [r EXCEPT !.stop = TRUE,
                 !.status = IF r.child = NoChild THEN "stopped" ELSE "stopping"]

\* cancelPendingRestart, then as far as the first await; returns the handle.
StopBegin(r) ==
  LET s == [r EXCEPT !.timer = FALSE] IN
  IF r.status \in {"stopped", "stopping"} THEN s
  ELSE [s EXCEPT !.stop = TRUE,
                 !.status = IF r.child = NoChild THEN "stopped" ELSE "stopping"]

StopAwaits(h) == handle[h].status \notin {"stopped", "stopping"} /\ handle[h].child # NoChild

BeginStop(p, op, h) ==
  /\ handle' = [handle EXCEPT ![h] = StopBegin(@)]
  /\ cmd' = [cmd EXCEPT ![p] = [op |-> op, h |-> h, ok |-> TRUE,
                                pc |-> IF StopAwaits(h) THEN "drain" ELSE "ret",
                                c  |-> IF StopAwaits(h) THEN handle[h].child ELSE NoChild]]
  /\ UNCHANGED <<registry, child>>

\* The wait of a phase is over without an exit (a response to shutdown, or a
\* timeout): signal the current child and wait for it, or end.
NextPhase(pc) == CASE pc = "drain" -> "grace" [] pc = "grace" -> "term" [] pc = "term" -> "kill"

\* Mutants: SIGTERM is the last resort, and its wait is trusted; or its wait
\* has no timeout.
EscalateGivesUp(p) ==
  LET h    == cmd[p].h
      k    == handle[h].child
      next == NextPhase(cmd[p].pc) IN
  /\ Quiet /\ cmd[p].pc \in {"drain", "grace", "term"}
  /\ IF k = NoChild \/ next = "kill"
     THEN /\ handle' = [handle EXCEPT ![h].status = "stopped"]
          /\ cmd' = [cmd EXCEPT ![p].pc = "ret"]
     ELSE /\ cmd' = [cmd EXCEPT ![p].pc = next, ![p].c = k]
          /\ UNCHANGED handle
  /\ UNCHANGED <<registry, child>>
EscalateNotAfterTerm(p) ==
  LET h == cmd[p].h IN
  /\ Quiet /\ cmd[p].pc \in {"drain", "grace"}
  /\ IF handle[h].child = NoChild
     THEN /\ handle' = [handle EXCEPT ![h].status = "stopped"]
          /\ cmd' = [cmd EXCEPT ![p].pc = "ret"]
     ELSE /\ cmd' = [cmd EXCEPT ![p].pc = NextPhase(cmd[p].pc), ![p].c = handle[h].child]
          /\ UNCHANGED handle
  /\ UNCHANGED <<registry, child>>

Escalate(p) ==
  LET h    == cmd[p].h
      k    == handle[h].child
      next == NextPhase(cmd[p].pc) IN
  /\ Quiet /\ cmd[p].pc \in {"drain", "grace", "term"}
  /\ IF k = NoChild
     THEN /\ handle' = [handle EXCEPT ![h].status = "stopped"]
          /\ cmd' = [cmd EXCEPT ![p].pc = "ret"]
          /\ UNCHANGED child
     ELSE /\ cmd' = [cmd EXCEPT ![p].pc = next, ![p].c = k]
          /\ child' = IF next = "kill" THEN [child EXCEPT ![k].killed = TRUE] ELSE child
          /\ UNCHANGED handle
  /\ UNCHANGED registry

-----------------------------------------------------------------------------
(* The manager *)

\* The start that startupLocks holds: of the registered handle, by a caller.
InFlight == {c \in Children : \E p \in Callers : /\ cmd[p].op = "start"
                                                 /\ cmd[p].pc = "start" /\ cmd[p].c = c}

StartWorker(p) ==
  /\ Quiet /\ cmd[p].pc = "idle"
  /\ IF InFlight # {}
     THEN /\ \E c \in InFlight :
               cmd' = [cmd EXCEPT ![p] = [op |-> "start", pc |-> "start",
                                          h |-> child[c].of, c |-> c, ok |-> TRUE]]
          /\ UNCHANGED <<registry, handle, child>>
     ELSE IF registry # NoHandle /\ handle[registry].status # "stopped"
     THEN /\ cmd' = [cmd EXCEPT ![p] = [Idle EXCEPT !.op = "start", !.pc = "ret",
                                                    !.ok = FALSE]]
          /\ UNCHANGED <<registry, handle, child>>
     ELSE \E h \in Handles, c \in Children :
            /\ Unused(h)
            /\ registry' = h
            /\ Spawn([handle EXCEPT ![h] = FreshHandle], h, c)
            /\ cmd' = [cmd EXCEPT ![p] = [op |-> "start", pc |-> "start", h |-> h,
                                          c |-> c, ok |-> TRUE]]

StopWorker(p) ==
  /\ Quiet /\ cmd[p].pc = "idle" /\ registry # NoHandle
  /\ BeginStop(p, "stop", registry)

Restart(p) ==
  /\ Quiet /\ cmd[p].pc = "idle" /\ registry # NoHandle
  /\ BeginStop(p, "restart", registry)

\* After stopInternal: stopWorker deletes the registry entry, whichever
\* handle it names by now; restart goes on with startInternal.
ReturnStop(p) ==
  /\ cmd[p].op = "stop" /\ cmd[p].pc = "ret"
  /\ registry' = NoHandle
  /\ cmd' = [cmd EXCEPT ![p] = Idle]
  /\ UNCHANGED <<handle, child>>

\* restart: stopInternal has returned, startInternal follows.
ReturnRestart(p) ==
  /\ cmd[p].op = "restart" /\ cmd[p].pc = "ret"
  /\ LET h == cmd[p].h IN
     IF MayStart(h)
     THEN \E c \in Children :
            /\ Spawn(handle, h, c)
            /\ cmd' = [cmd EXCEPT ![p] = [op |-> "restarted", pc |-> "start", h |-> h,
                                          c |-> c, ok |-> TRUE]]
     ELSE /\ cmd' = [cmd EXCEPT ![p] = [Idle EXCEPT !.op = "restarted", !.pc = "ret",
                                                    !.ok = FALSE]]
          /\ UNCHANGED <<handle, child>>
  /\ UNCHANGED registry
=============================================================================
