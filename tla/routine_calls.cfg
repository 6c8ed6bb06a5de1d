SPECIFICATION Spec
CONSTANTS
  Ticks = {}
  Calls = {c1, c2}
  Board = {b1}
  NoProc = NoProc
  Keys = {k1}
  NoKey = NoKey
  Sources = {"manual", "webhook"}
  Triggers = {"schedule", "webhook"}
  Concurrency = {"coalesce_if_active", "skip_if_active", "always_enqueue"}
  CatchUp = {FALSE}
  Cap = 2
  MaxTime = 1
  Connections = 3
  Faults = {"create", "wake", "late", "rollback", "crash"}
CHECK_DEADLOCK FALSE
INVARIANT KeyedOnce
INVARIANT IssuesHaveRuns
