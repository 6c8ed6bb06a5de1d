SPECIFICATION Spec
CONSTANTS
  a1 = a1
  a2 = a2
  Agents = {a1, a2}
  NoAgent = NoAgent
  r1 = r1
  r2 = r2
  r3 = r3
  Runs = {r1, r2, r3}
  AgentOf <- MCAgentOf
  NoRun = NoRun
  Requests = {q1, q2}
  Patches <- MCPatches
  Revivals = {{r1}, {r2}}
SYMMETRY Symmetry
INVARIANT TypeOK
INVARIANT CheckoutInProgress
INVARIANT OwnersHold
INVARIANT OneAssignee
