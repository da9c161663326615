--------------------------- MODULE MCSessionStore ---------------------------
(* Instances of SessionStore for TLC.                                      *)
EXTENDS SessionStore, TLC

CONSTANTS r1, r2, r3, c1, i1, i2

TwoRuns == {r1, r2}
ThreeRuns == {r1, r2, r3}
OneConversation == {c1}
OneId == {i1}
TwoIds == {i1, i2}
Symmetric == Permutations(ThreeRuns) \cup Permutations(TwoIds)
=============================================================================
