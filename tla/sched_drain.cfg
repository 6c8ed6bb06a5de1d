SPECIFICATION FairSpec
CONSTANTS
  Agents = {a1}
  NoAgent = NoAgent
  MaxRuns = 2
  MaxConcurrent = 1
  Operations = {"cancel"}
  Scheduler = FALSE
  LocalChildren = TRUE
  MaxCrashes = 0
PROPERTY KeepsContract
PROPERTY QueuedRunsDrain
CHECK_DEADLOCK FALSE
