--------------------------- MODULE PluginLifecycle ---------------------------
(***************************************************************************)
(* The lifecycle of one plugin: the row plugins.status, the operations of  *)
(* plugin-lifecycle.ts on it, and what they make the loader                *)
(* (plugin-loader.ts: loadSingle, activatePlugin, unloadSingle, loadAll)   *)
(* and the worker manager (module PluginWorker) do.                        *)
(*                                                                         *)
(* Two lifecycle managers exist.  The one of the routes has a loader with  *)
(* runtime services: it takes a plugin down by unloadSingle, which stops   *)
(* the worker only if it is running.  The one of app.ts, which             *)
(* activatePlugin calls to mark an error, stops any registered worker.     *)
(*                                                                         *)
(* Each action ends at the next await.  Abstracted: package installation   *)
(* and removal (they succeed or throw), tools, event subscriptions and     *)
(* jobs, the repository read that restartWorker begins with.               *)
(***************************************************************************)
EXTENDS PluginWorker

CONSTANTS
  Boot,        \* the caller that is loadAll at startup
  Overlap,     \* operations may be started while others are in progress
  MaxRestarts  \* bound: restarts of the server

ASSUME LifecycleAssumption ==
  /\ Boot \in Callers /\ Overlap \in BOOLEAN /\ MaxRestarts \in Nat

VARIABLES
  row,      \* plugins.status
  op,       \* the lifecycle operation each caller is in
  restarts  \* restarts of the server so far
vars == <<workerVars, row, op, restarts>>

RowStatus == {"installed", "ready", "disabled", "error", "upgrade_pending", "uninstalled"}

\* VALID_TRANSITIONS
ValidTransition(from, to) ==
  to \in CASE from = "installed"       -> {"ready", "error", "uninstalled"}
           [] from = "ready"           -> {"ready", "disabled", "error",
                                           "upgrade_pending", "uninstalled"}
           [] from = "disabled"        -> {"ready", "uninstalled"}
           [] from = "error"           -> {"ready", "uninstalled"}
           [] from = "upgrade_pending" -> {"ready", "error", "uninstalled"}
           [] from = "uninstalled"     -> {"installed"}

\* seen: the row an operation has read and goes on to trust.
Operation == [kind : {"none", "enable", "disable", "unload", "upgrade", "restart"},
              pc   : {"idle", "ready", "load", "activate", "starting", "failed",
                      "errorStop", "error", "down", "downStop", "end", "restarting"},
              seen : RowStatus]
NoOperation == [kind |-> "none", pc |-> "idle", seen |-> "ready"]

At(p, pc) == op[p].pc = pc
Goto(p, pc) == op' = [op EXCEPT ![p].pc = pc]
Done(p) == op' = [op EXCEPT ![p] = NoOperation]

\* A request or, at startup, loadAll may begin.
MayBegin(p) ==
  /\ p # Boot /\ Quiet /\ At(p, "idle")
  /\ Overlap \/ \A q \in Callers : At(q, "idle")

Begin(p, kind, pc) == op' = [op EXCEPT ![p] = [kind |-> kind, pc |-> pc, seen |-> row]]

Transition(p, to) ==
  row' = IF ValidTransition(op[p].seen, to) THEN to ELSE row

\* loadAll activates the plugin if its row is ready.
BootOperation == [NoOperation EXCEPT !.kind = "enable",
                                     !.pc = IF row = "ready" THEN "activate" ELSE "idle"]

Init ==
  /\ WorkerInit
  /\ row \in {"installed", "ready"} /\ restarts = 0
  /\ op = [p \in Callers |-> IF p = Boot THEN BootOperation ELSE NoOperation]

-----------------------------------------------------------------------------
(* Taking a plugin up *)

\* enable checks the status it has read; load (from the install route) only
\* the transition.
Enable(p) ==
  /\ MayBegin(p) /\ row \in {"disabled", "error", "upgrade_pending", "installed"}
  /\ Begin(p, "enable", "ready")
  /\ UNCHANGED <<workerVars, row, restarts>>

WriteReady(p) ==
  /\ Quiet /\ At(p, "ready")
  /\ Transition(p, "ready") /\ Goto(p, "load")
  /\ UNCHANGED <<workerVars, restarts>>

\* loadSingle reads the row again and throws unless it is ready.
LoadSingle(p) ==
  /\ Quiet /\ At(p, "load")
  /\ IF row = "ready" THEN Goto(p, "activate") ELSE Done(p)
  /\ UNCHANGED <<workerVars, row, restarts>>

\* activatePlugin, after its read of the configuration.
Activate(p) ==
  /\ At(p, "activate")
  /\ StartWorker(p) /\ Goto(p, "starting")
  /\ UNCHANGED <<row, restarts>>

Activated(p) ==
  /\ At(p, "starting") /\ cmd[p].pc = "ret"
  /\ cmd' = [cmd EXCEPT ![p] = Idle]
  /\ IF cmd[p].ok THEN Done(p) ELSE Goto(p, "failed")
  /\ UNCHANGED <<registry, handle, child, row, restarts>>

\* markError of the app's manager: read the row, stop a registered worker.
MarkError(p) ==
  /\ Quiet /\ At(p, "failed")
  /\ IF registry = NoHandle
     THEN /\ op' = [op EXCEPT ![p].pc = "error", ![p].seen = row]
          /\ UNCHANGED workerVars
     ELSE /\ op' = [op EXCEPT ![p].pc = "errorStop", ![p].seen = row]
          /\ StopWorker(p)
  /\ UNCHANGED <<row, restarts>>

ErrorStopped(p) ==
  /\ At(p, "errorStop") /\ ReturnStop(p)
  /\ Goto(p, "error") /\ UNCHANGED <<row, restarts>>

WriteError(p) ==
  /\ Quiet /\ At(p, "error")
  /\ Transition(p, "error") /\ Done(p)
  /\ UNCHANGED <<workerVars, restarts>>

-----------------------------------------------------------------------------
(* Taking a plugin down *)

Disable(p) ==
  /\ MayBegin(p) /\ row = "ready"
  /\ Begin(p, "disable", "down")
  /\ UNCHANGED <<workerVars, row, restarts>>

Unload(p) ==
  /\ MayBegin(p) /\ row # "uninstalled"
  /\ Begin(p, "unload", "down")
  /\ UNCHANGED <<workerVars, row, restarts>>

Upgrade(p) ==
  /\ MayBegin(p) /\ row \in {"ready", "upgrade_pending"}
  /\ Begin(p, "upgrade", "down")
  /\ UNCHANGED <<workerVars, row, restarts>>

\* unloadSingle, after the job scheduler has been told.
UnloadSingle(p) ==
  /\ Quiet /\ At(p, "down")
  /\ IF IsRunning THEN StopWorker(p) /\ Goto(p, "downStop")
                  ELSE UNCHANGED workerVars /\ Goto(p, "end")
  /\ UNCHANGED <<row, restarts>>

Unloaded(p) ==
  /\ At(p, "downStop") /\ ReturnStop(p)
  /\ Goto(p, "end") /\ UNCHANGED <<row, restarts>>

EndDisable(p) ==
  /\ Quiet /\ At(p, "end") /\ op[p].kind = "disable"
  /\ Transition(p, "disabled") /\ Done(p)
  /\ UNCHANGED <<workerVars, restarts>>

\* registry.uninstall writes without a check of the transition.
EndUnload(p) ==
  /\ Quiet /\ At(p, "end") /\ op[p].kind = "unload"
  /\ row' = "uninstalled" /\ Done(p)
  /\ UNCHANGED <<workerVars, restarts>>

\* The new package is installed: it fails, asks for new capabilities, or not.
EndUpgrade(p) ==
  /\ Quiet /\ At(p, "end") /\ op[p].kind = "upgrade"
  /\ \/ UNCHANGED row /\ Done(p)
     \/ Transition(p, "upgrade_pending") /\ Done(p)
     \/ Transition(p, "ready") /\ Goto(p, "load")
  /\ UNCHANGED <<workerVars, restarts>>

\* The package is installed again.
Reinstall(p) ==
  /\ MayBegin(p) /\ row = "uninstalled"
  /\ row' = "installed"
  /\ UNCHANGED <<workerVars, op, restarts>>

-----------------------------------------------------------------------------
(* restartWorker: a configuration change, or the watcher of a local plugin *)

RestartWorker(p) ==
  /\ MayBegin(p) /\ row = "ready"
  /\ Restart(p) /\ Begin(p, "restart", "restarting")
  /\ UNCHANGED <<row, restarts>>

Restarting(p) ==
  /\ At(p, "restarting") /\ ReturnRestart(p)
  /\ UNCHANGED <<op, row, restarts>>

Restarted(p) ==
  /\ At(p, "restarting") /\ cmd[p].op = "restarted" /\ cmd[p].pc = "ret"
  /\ cmd' = [cmd EXCEPT ![p] = Idle] /\ Done(p)
  /\ UNCHANGED <<registry, handle, child, row, restarts>>

-----------------------------------------------------------------------------
(* The worker on its own, and a restart of the server, which ends all of   *)
(* the children (they are forked with a channel to the server).            *)

WorkerAlone ==
  /\ \/ \E c \in Children : InitOk(c) \/ InitFails(c) \/ Exit(c)
     \/ \E h \in Handles : TimerFires(h)
     \/ \E p \in Callers : Escalate(p)
  /\ UNCHANGED <<row, op, restarts>>

ServerRestart ==
  /\ restarts < MaxRestarts
  /\ registry' = NoHandle
  /\ handle' = [h \in Handles |-> FreshHandle]
  /\ child' = [c \in Children |-> NoProcess]
  /\ cmd' = [p \in Callers |-> Idle]
  /\ op' = [p \in Callers |-> IF p = Boot THEN BootOperation ELSE NoOperation]
  /\ restarts' = restarts + 1
  /\ UNCHANGED row

Operate(p) == Enable(p) \/ Disable(p) \/ Unload(p) \/ Upgrade(p) \/ Reinstall(p)
              \/ RestartWorker(p)

Continue(p) ==
  \/ WriteReady(p) \/ LoadSingle(p) \/ Activate(p) \/ Activated(p)
  \/ MarkError(p) \/ ErrorStopped(p) \/ WriteError(p)
  \/ UnloadSingle(p) \/ Unloaded(p)
  \/ EndDisable(p) \/ EndUnload(p) \/ EndUpgrade(p)
  \/ Restarting(p) \/ Restarted(p)

Next ==
  \/ \E p \in Callers : Operate(p) \/ Continue(p)
  \/ WorkerAlone
  \/ ServerRestart

\* The event loop runs what has been started: continuations, timers (of
\* initialize, of each phase of a stop, of the back-off); SIGKILL ends a
\* process.  Nothing obliges an operator to act or a worker to answer.
Fairness ==
  /\ \A p \in Callers : WF_vars(Continue(p))
  /\ \A p \in Callers : WF_vars(Escalate(p) /\ UNCHANGED <<row, op, restarts>>)
  /\ \A c \in Children : WF_vars((InitOk(c) \/ InitFails(c)) /\ UNCHANGED <<row, op, restarts>>)
  /\ \A c \in Children : WF_vars(child[c].killed /\ Exit(c) /\ UNCHANGED <<row, op, restarts>>)
  /\ \A h \in Handles : WF_vars(TimerFires(h) /\ UNCHANGED <<row, op, restarts>>)

Spec == Init /\ [][Next]_vars /\ Fairness

-----------------------------------------------------------------------------
(* Properties *)

\* All fields are in their ranges; a process and a pending start belong to a
\* handle.
TypeOK ==
  /\ registry \in Handles \cup {NoHandle}
  /\ handle \in [Handles -> Handle]
  /\ child \in [Children -> Child]
  /\ \A c \in Children : child[c].alive \/ child[c].init # "none" => child[c].of # NoHandle
  /\ cmd \in [Callers -> Command]
  /\ row \in RowStatus
  /\ op \in [Callers -> Operation]
  /\ restarts \in 0 .. MaxRestarts

\* While operations do not overlap, the plugin has one worker process: no
\* crash, back-off, failed or slow initialize and no restart of the worker
\* leaves an old child beside a new one.
OneWorker == \A c, d \in Children : child[c].alive /\ child[d].alive => c = d

\* A handle that was stopped and deleted stays down: none of its children is
\* alive and no timer of it will fork one.
UnregisteredIsDown ==
  \A h \in Handles :
    (h # registry /\ \A p \in Callers : cmd[p].h # h)
      => ~handle[h].timer /\ \A c \in Children : child[c].of # h

\* isRunning, which the job scheduler, the routes and unloadSingle ask, is
\* true only of a worker whose process is there and has answered initialize.
RunningAnswers ==
  IsRunning => LET c == handle[registry].child IN
               /\ c # NoChild
               /\ child[c].alive /\ child[c].of = registry /\ child[c].init = "none"

\* Every operation ends: a worker that ignores initialize, shutdown and
\* SIGTERM delays it, and does not block it.
OperationsEnd == \A p \in Callers : [](op[p].pc # "idle" => <>(op[p].pc = "idle"))

\* A plugin that has been taken down stays down: with no operation in
\* progress and a row that is not ready, no worker is up or about to be.
OfflineStaysDown ==
  (row # "ready" /\ \A p \in Callers : At(p, "idle"))
    => /\ \A c \in Children : ~child[c].alive
       /\ \A h \in Handles : ~handle[h].timer
=============================================================================
