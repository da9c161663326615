SPECIFICATION Spec
CONSTANTS
  r1 = r1
  r2 = r2
  r3 = r3
  c1 = c1
  i1 = i1
  i2 = i2
  NoRun = NoRun
  Runs <- TwoRuns
  Ids <- OneId
  Conversations <- OneConversation
  KeepRecent = 1
  StoreMayFail = FALSE
INVARIANT RunIdUnique
CHECK_DEADLOCK FALSE
