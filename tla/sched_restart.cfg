SPECIFICATION FairSpec
CONSTANTS
  Agents = {a1}
  NoAgent = NoAgent
  MaxRuns = 2
  MaxConcurrent = 2
  Operations = {}
  Scheduler = TRUE
  LocalChildren = TRUE
  MaxCrashes = 1
PROPERTY QueuedRunsDrain
PROPERTY RunningRunsSettle
CHECK_DEADLOCK FALSE
