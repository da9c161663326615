SPECIFICATION Spec
CONSTANTS
  Reads = {read}
  Writes = {write}
  Tests = {test}
  Modes <- AgentOnly
  MaxBatch = 2
  MaxIterations = 3
  MaxToolCalls = 2
INVARIANT ToolBudgetKept
CHECK_DEADLOCK FALSE
