SPECIFICATION CmdSpec
CONSTANTS
  nothing = nothing
  Nothing = nothing
  Suites <- MCSuites
  Count = 1
  MaxErrorRate = 50
  Configs <- MCConfigs
  Durations = {2, 3}
  RequiredWindow = 2
  MaxDurationPct = 25
  TrendLimit = 2
  Builds = 2
INVARIANTS
  OneVerdict
  SuccessIsDurable
  GatesFailClosed
\* The last build is over when its command has exited.
CHECK_DEADLOCK FALSE
