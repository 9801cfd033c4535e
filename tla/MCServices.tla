----------------------------- MODULE MCServices -----------------------------
\* The two commands that go on until somebody else ends them, watch with an
\* editor and the MCP server with a client, and the rules of the configuration
\* that they load.  A behaviour is about one of the three, so the states are
\* their sum.
EXTENDS Watch, MCRules

CONSTANTS Lines, ExecAllowed, NoId, Nothing, ToolCall

VARIABLES about, sent, open, read, handling, initialized, answers, verdicts, status

Server == INSTANCE McpServer
ASSUME ServicesAssumption == Server!ServerAssumption

serverVars == <<sent, open, read, handling, initialized, answers, verdicts, status>>
all == <<about, vars, serverVars, ruleVars>>

ServicesInit ==
  /\ about \in {"watch", "server", "rules"}
  /\ about = "rules" \/ options = CHOOSE o \in Options : TRUE
  /\ Init /\ Server!Init /\ Rules!Init

ServicesNext ==
  /\ UNCHANGED about
  /\ \/ about = "watch" /\ Next /\ UNCHANGED <<serverVars, ruleVars>>
     \/ about = "server" /\ Server!Next /\ UNCHANGED <<vars, ruleVars>>
     \/ about = "rules" /\ Rules!Next /\ UNCHANGED <<vars, serverVars>>

\* The fairness of Watch and of McpServer.
ServicesSpec ==
  /\ ServicesInit /\ [][ServicesNext]_all
  /\ WF_all(about = "watch" /\ WatchStep /\ UNCHANGED <<about, serverVars, ruleVars>>)
  /\ WF_all(about = "server" /\ Server!Serve /\ UNCHANGED <<about, vars, ruleVars>>)

-----------------------------------------------------------------------------
\* McpServer: every handled request has one answer with its id, in order;
\* suites run in a session and the answer has their exit code.
AnswersAreTrue == Server!AnswersMatchRequests /\ Server!RunAnswersAreTrue

\* McpServer: every line is handled and the server ends with its input.
EveryLineIsHandled == Server!EveryLineIsHandled

=============================================================================
