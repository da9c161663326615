SPECIFICATION MCSpec
CONSTANTS
  None = None
  Requests = {q1, q2, q3}
  Servers = {m1}
  Calls = {c1, c2}
  Paths = {f1}
  MaxResults = 1
  MaxLines = 4
  Schedules = {s1, s2}
  MaxLost = 1
  Users = {thor, ann}
  Environment = {thor}
  Logins = {h1, h2}
  MaxFailures = 1
  Window = 3
  Lifetime = 3
  MaxTokens = 1
  MaxClock = 5
  Images = {i1, i2}
  Characters = {"<", "t", "i", "b"}
  Markers <- Tags
  MaxPart = 3
  MaxText = 4
CHECK_DEADLOCK FALSE
INVARIANTS
  ProcessesReachable TimedOutUnused DeletedDisconnected
  ResultComplete RunsAsScheduled FailuresBounded PipelineFits
  AnsweredInHistory ShownIsAnswer
PROPERTIES
  OperationsEnd NoChangeLost CommitsApproved SearchEnds SchedulesRun
  RevokedStaysRevoked
