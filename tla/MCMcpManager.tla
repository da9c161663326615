----------------------------- MODULE MCMcpManager -----------------------------
(* Instances of McpManager for TLC.                                        *)
EXTENDS McpManager
=============================================================================
