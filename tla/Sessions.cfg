SPECIFICATION Spec
CONSTANTS
  r1 = r1
  r2 = r2
  r3 = r3
  c1 = c1
  i1 = i1
  i2 = i2
  NoRun = NoRun
  Runs <- ThreeRuns
  Ids <- TwoIds
  Conversations <- OneConversation
  KeepRecent = 0
  StoreMayFail = TRUE
SYMMETRY Symmetric
INVARIANTS StoreFollowsMemory CompletedHasAnswer ActiveKeepsSession EndedRunsClosed DeletedForgotten
PROPERTY SessionsFinal
CHECK_DEADLOCK FALSE
