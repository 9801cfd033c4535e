\* Load: two users with two requests each over three scenarios.  Shadow state:
\* two scenarios, two files, two writes at any moment.  Traces of two calls,
\* changes and approvals; three deeds of an agent with a memory.
CONSTANTS
  VirtualUsers = 2
  RequestsPerUser = 2
  MaxErrorRatePct = 25
  P95Latency = 1
  MinTokensPerSecond = 1
  ScenarioCount = 3
  Statuses = {404, 503}
  Latencies = {1, 2}
  Usages = {0, 1}
  Elapsed = {1, 3}
  a = a
  b = b
  c1 = c1
  c2 = c2
  ShadowCases = 2
  Paths <- MCPaths
  Contents = {c1, c2}
  Absent = Absent
  Allowed = {a}
  Expected <- MCExpected
  Writes = 2
  Anything = Anything
  None = None
  Settings <- MCSettings
  Policies <- MCPolicies
  Calls <- MCToolUses
  Changes <- MCChanges
  Approvals <- MCApprovals
  Phrases <- MCPhrases
  MaxSteps = 2
  Answers <- MCAnswers
  Scenarios <- MCScenarios
  s1 = s1
  s2 = s2
  s3 = s3
  k1 = k1
  k2 = k2
  me = me
  you = you
  NoName = NoName
  Replays <- MCReplays
  Ops <- MCMemoryOps
  Sessions = {s1, s2, s3}
  Keys = {k1, k2}
  MaxDeeds = 3
SPECIFICATION EnginesSpec
INVARIANTS
  VerdictIsOfAllSamples
  MutationsAreEarned
  JudgedPassIsEarned
  NoFindingMeansExact
  AssertionsAgree
  ReplaysAreReported
PROPERTIES
  LoadReturns
  MoreTraceMoreEvidence
CHECK_DEADLOCK FALSE
