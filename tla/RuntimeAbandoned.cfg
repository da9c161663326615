SPECIFICATION Spec
CONSTANTS
  r1 = r1
  r2 = r2
  Runs <- TwoRuns
  Modes <- AgentOnly
  Concurrency = 1
  RecentRunLimit = 1
  MaxIterations = 1
  MaxCalls = 1
  StoreMayFail = FALSE
INVARIANTS
  RecentRunsBounded
CHECK_DEADLOCK FALSE
