\* Two scenarios, two workers or one.
SPECIFICATION MCSpec
CONSTANTS
  good = good
  wrong = wrong
  err = err
  none = none
  Count = 2
  Limit = 2
  Suites <- MCSuites
  MaxErrorRate = 50
  Responses <- MCResponses
  Good = good
  Failure = err
  None = none
INVARIANTS
  OneAnswerPerScenario
PROPERTIES
  ImplementsRunner
\* A run is over when its report is final.
CHECK_DEADLOCK FALSE
