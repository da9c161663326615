SPECIFICATION Spec
CONSTANTS
  Reads = {read}
  Writes = {write, patch}
  Tests = {test}
  Modes <- AgentAndPlan
  MaxBatch = 2
  MaxIterations = 3
  MaxToolCalls = 4
INVARIANTS ToolCallsBounded CachedResultsCurrent SameCallNotRepeated AnswersBounded
CHECK_DEADLOCK FALSE
