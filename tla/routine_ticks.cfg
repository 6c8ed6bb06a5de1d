SPECIFICATION Spec
CONSTANTS
  Ticks = {t1, t2}
  Calls = {}
  Board = {b1}
  NoProc = NoProc
  Keys = {k1}
  NoKey = NoKey
  Sources = {"manual"}
  Triggers = {"schedule"}
  Concurrency = {"coalesce_if_active"}
  CatchUp = {TRUE, FALSE}
  Cap = 2
  MaxTime = 3
  Connections = 3
  Faults = {"stuck"}
CHECK_DEADLOCK FALSE
INVARIANT TypeOK
 
INVARIANT IssuesHaveRuns
PROPERTY DispatchEnds
