SPECIFICATION FairSpec
CONSTANTS
  Agents = {a1}
  NoAgent = NoAgent
  MaxRuns = 2
  MaxConcurrent = 1
  Operations = {"budget"}
  Scheduler = TRUE
  LocalChildren = TRUE
  MaxCrashes = 0
PROPERTY QueuedRunsDrain
CHECK_DEADLOCK FALSE
