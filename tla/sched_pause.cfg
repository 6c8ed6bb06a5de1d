SPECIFICATION Spec
CONSTANTS
  Agents = {a1}
  NoAgent = NoAgent
  MaxRuns = 2
  MaxConcurrent = 1
  Operations = {"pause", "budget"}
  Scheduler = FALSE
  LocalChildren = FALSE
  MaxCrashes = 0
INVARIANT TypeOK
INVARIANT RunningIsOwned
PROPERTY KeepsContract
CHECK_DEADLOCK FALSE
