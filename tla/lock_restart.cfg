SPECIFICATION Spec
CONSTANTS
  Agents = {a1, a2}
  Issues = {i1}
  NoAgent = NoAgent
  NoIssue = NoIssue
  MaxRuns = 3
  MaxDeferrals = 2
  MaxUnlocked = 0
  UnlockedContexts = {}
  MaxCrashes = 1
  Pausable = {a1, a2}
  Listable = {}
  Checkouts = TRUE
SYMMETRY AgentSymmetry
INVARIANT DeferredHasHolder
INVARIANT OneDeferralPerAgent
INVARIANT IssueRunHoldsLock
INVARIANT NoStranding
PROPERTY ActiveHolderKeepsLock
