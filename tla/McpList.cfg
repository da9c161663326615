SPECIFICATION Spec
CONSTANTS
  Requests = {q1, q2}
  Servers = {s1}
  None = None
INVARIANT ListNeverStarts
CHECK_DEADLOCK FALSE
