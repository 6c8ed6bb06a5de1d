SPECIFICATION FairSpec
CONSTANTS
  Agents = {a1, a2}
  Issues = {i1}
  NoAgent = NoAgent
  NoIssue = NoIssue
  MaxRuns = 3
  MaxDeferrals = 1
  MaxUnlocked = 1
  UnlockedContexts = {i1}
  MaxCrashes = 0
  Pausable = {}
  Listable = {1}
  Checkouts = FALSE
INVARIANT TypeOK
INVARIANT LockInv
PROPERTY DeferralAnswered
CHECK_DEADLOCK FALSE
