------------------------ MODULE MCPermissionEngine ------------------------
(* Instances of PermissionEngine for TLC.                                  *)
EXTENDS PermissionEngine, TLC

CONSTANTS r1, r2, u1, u2, shell, patch

TwoRuns == {r1, r2}
TwoUsers == {u1, u2}
Symmetric == Permutations(TwoRuns) \cup Permutations(TwoUsers)

\* One run with both tools and a store that may lose requests, or two runs with one
\* tool whose requests are stored; three calls in all.
OneOrTwoRuns ==
  \/ \E r \in Runs : pc[r] = "new"
  \/ /\ unsaved = {}
     /\ \A a \in Requests : tool[a] \in {NoTool, shell}
     /\ \A r, q \in Runs : r # q => number[r] + number[q] <= MaxCalls
===========================================================================
