SPECIFICATION Spec
CONSTANTS
  Jobs = {j1, j2}
  Runs = {r1, r2, r3}
  MaxConcurrentJobs = 1
  MaxTriggers = 1
  MaxOutages = 1
  NoJob = NoJob
INVARIANT TypeOK
INVARIANT ScheduledOnce
INVARIANT ActiveIsDispatched
INVARIANT RunsAreCompleted
PROPERTY DueJobsAreServed
