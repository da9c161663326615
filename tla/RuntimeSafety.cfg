SPECIFICATION Spec
CONSTANTS
  r1 = r1
  r2 = r2
  Runs <- TwoRuns
  Modes <- AgentAndPlan
  Concurrency = 1
  RecentRunLimit = 1
  MaxIterations = 2
  MaxCalls = 2
  StoreMayFail = TRUE
SYMMETRY TwoSymmetric
INVARIANTS
  GateConserved
  ModelCallsBounded
  CancelledNeverCompletes
  OneToolAfterCancel
  ActiveRunsRegistered
PROPERTIES
  LegalMoves
  ImplementsService
CHECK_DEADLOCK FALSE
