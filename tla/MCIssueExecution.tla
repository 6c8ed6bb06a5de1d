------------------------- MODULE MCIssueExecution -------------------------
EXTENDS IssueExecution, TLC
AgentSymmetry == Permutations(Agents)
=============================================================================
