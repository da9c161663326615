---------------------------- MODULE MCToolLoop ----------------------------
(* Instances of ToolLoop for TLC.                                          *)
EXTENDS ToolLoop

AgentAndPlan == {"agent", "plan"}
AgentOnly == {"agent"}
===========================================================================
