\* Watch: two files, three edits, an output that is not ignored.  Server:
\* three lines of any kind.  Rules: 365 setups, one change by hand after each and
\* a second after two of them, and the load of what comes out.
CONSTANTS
  Sources = {f1, f2}
  Output = out
  Ignored = {}
  MaxRuns = 3
  MaxEdits = 3
  Lines = 3
  ExecAllowed = FALSE
  NoId = NoId
  Nothing = Nothing
  ToolCall = ToolCall
  Options <- MCOptions
  Targets <- MCTargets
  RuleEdits <- MCRuleEdits
SPECIFICATION ServicesSpec
INVARIANTS
  RunsFollowEdits
  AnswersAreTrue
  StartersRun
  AcceptedConfigsRun
PROPERTIES
  ChangeIsNoticed
  EveryLineIsHandled
CHECK_DEADLOCK FALSE
