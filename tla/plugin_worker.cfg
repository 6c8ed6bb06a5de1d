SPECIFICATION Spec
CONSTANTS
  Callers = {boot, p1}
  Boot = boot
  Handles = {h1, h2}
  Children = {c1, c2}
  NoHandle = NoHandle
  NoChild = NoChild
  MaxConsecutiveCrashes = 1
  Overlap = FALSE
  MaxRestarts = 1
INVARIANT TypeOK
INVARIANT OneWorker
INVARIANT UnregisteredIsDown
INVARIANT RunningAnswers
PROPERTY OperationsEnd
