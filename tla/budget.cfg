SPECIFICATION Spec
CONSTANTS
  Scopes = {agent, project}
  AgentScopes = {agent}
  ProjectScopes = {project}
  NoScope = NoScope
  Evaluators = {e1}
  Board = {b1}
  Runs = {r1, r2}
  Unnamed = {r2}
  Amounts = {0, 2}
  WarnPercent = 50
  Notify = TRUE
  MaxSpend = 2
  MaxMonths = 1
INVARIANT TypeOK
INVARIANT OverBudgetStops
INVARIANT LimitInv
PROPERTY ManualPauseStands
