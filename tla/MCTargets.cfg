\* The HTTP target with a budget of 0.7 s, in which two pauses may or may not
\* fit; three calls that race for the handshake of an MCP target; six chains of
\* plugins; answers of up to two pieces and two tool calls of up to two
\* fragments, with one event anywhere that is garbled, has another form or has no
\* content, of all targets, the HTTP one with and without a response_field.
CONSTANTS
  Kind = "http"
  Deadline = 7
  Statuses = {200, 429, 500}
  RetryAfters = {0, 3}
  MaxClock = 8
  Callers = {c1, c2, c3}
  Chains <- MCChains
  MaxText = 2
  Indices = {0, 1}
  MaxArgs = 2
  MaxNoise = 1
  Nothing = Nothing
SPECIFICATION TargetsSpec
INVARIANTS
  RetriesAreEarnedAndMade
  BodiesAndFailures
  SessionIsInOrder
  CleanCallsReachTheTool
  EvidenceIsAllOrNothing
  CleanAnswerIsWhole
  ArrivedIsInPlace
PROPERTIES
  TargetsReturn
CHECK_DEADLOCK FALSE
