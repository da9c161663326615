--------------------------- MODULE MCAgentRuntime ---------------------------
(* Instances of AgentRuntime for TLC.                                      *)
EXTENDS AgentRuntime, TLC

CONSTANTS r1, r2

TwoRuns == {r1, r2}
TwoSymmetric == Permutations(TwoRuns)

AgentOnly == {"agent"}
AgentAndPlan == {"agent", "plan"}
=============================================================================
