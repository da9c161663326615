------------------------------ MODULE RunState ------------------------------
(***************************************************************************)
(* The states of an agent run and the moves between them, as the class     *)
(* RunState and the table TRANSITIONS of agent/state.py give them.         *)
(***************************************************************************)

TerminalStates == {"completed", "failed", "cancelled"}

RunStates ==
  {"analyzing", "planning", "awaiting_approval", "executing", "observing",
   "verifying"} \cup TerminalStates

\* Where a run may go from each state.  A terminal state has no way out.
Transitions ==
  [s \in RunStates |->
     CASE s = "analyzing"         -> {"planning", "failed", "cancelled"}
       [] s = "planning"          -> {"executing", "verifying", "failed", "cancelled"}
       [] s = "awaiting_approval" -> {"executing", "cancelled", "failed"}
       [] s = "executing"         -> {"awaiting_approval", "observing", "failed", "cancelled"}
       [] s = "observing"         -> {"planning", "verifying", "failed", "cancelled"}
       [] s = "verifying"         -> {"completed", "failed", "cancelled"}
       [] OTHER                   -> {}]
=============================================================================
