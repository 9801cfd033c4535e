----------------------------- MODULE MCTargets ------------------------------
\* One call through the HTTP target, three calls through an MCP target, one
\* through the plugins, and the answer to one call as it is read.  A behaviour
\* is about one of the four, so the states are the sum.
EXTENDS HttpTarget

CONSTANTS Callers, Chains, MaxText, Indices, MaxArgs, MaxNoise

VARIABLES about,
          mcpPc, over, once, owner, initErr, idSeq, id, wire, mcpResult,
          stage, chain, turn, resp, base, inputs, outputs, expired, pluginCancelled,
          streamKind, streamed, status, meant, sent, ending, conn, events, parsed, assembled

Mcp == INSTANCE McpTarget WITH pc <- mcpPc, result <- mcpResult

\* Up to three entries in two manifests, in manifest order; WASM modules in
\* one of the chains.
MCChains ==
  {<<[kind |-> k, backend |-> b, manifest |-> 1]>> : k \in {"adapter", "probe"}, b \in {"command", "wasm"}}
  \cup {<<[kind |-> "probe", backend |-> "command", manifest |-> 1],
          [kind |-> "adapter", backend |-> "command", manifest |-> 2]>>,
        <<[kind |-> "adapter", backend |-> "wasm", manifest |-> 1],
          [kind |-> "probe", backend |-> "command", manifest |-> 1],
          [kind |-> "adapter", backend |-> "command", manifest |-> 2]>>}

Plugins == INSTANCE PluginTarget WITH cancelled <- pluginCancelled

Stream == INSTANCE StreamTarget WITH kind <- streamKind, result <- assembled
ASSUME TargetsAssumption == Stream!StreamAssumption /\ Plugins!PluginAssumption

mcpVars == <<mcpPc, over, once, owner, initErr, idSeq, id, wire, mcpResult>>
pluginVars == <<stage, chain, turn, resp, base, inputs, outputs, expired, pluginCancelled>>
streamVars == <<streamKind, streamed, status, meant, sent, ending, conn, events, parsed, assembled>>
all == <<about, vars, mcpVars, pluginVars, streamVars>>

TargetsInit ==
  /\ about \in {"http", "mcp", "plugins", "stream"}
  /\ Init /\ Mcp!Init
  /\ \/ about = "plugins"
     \/ about # "plugins" /\ chain = <<[kind |-> "probe", backend |-> "command", manifest |-> 1]>>
  /\ Plugins!Init
  /\ \/ about = "stream"
     \/ about # "stream" /\ streamKind = "chat" /\ streamed = FALSE /\ status = 200
                          /\ meant = Stream!NothingSent
  /\ Stream!Init

Http(action) == about = "http" /\ action /\ UNCHANGED <<about, mcpVars, pluginVars, streamVars>>
OfMcp(action) == about = "mcp" /\ action /\ UNCHANGED <<about, vars, pluginVars, streamVars>>
OfPlugins(action) == about = "plugins" /\ action /\ UNCHANGED <<about, vars, mcpVars, streamVars>>

TargetsNext ==
  \/ about = "http" /\ Next /\ UNCHANGED <<about, mcpVars, pluginVars, streamVars>>
  \/ about = "mcp" /\ Mcp!Next /\ UNCHANGED <<about, vars, pluginVars, streamVars>>
  \/ about = "plugins" /\ Plugins!Next /\ UNCHANGED <<about, vars, mcpVars, streamVars>>
  \/ about = "stream" /\ Stream!Next /\ UNCHANGED <<about, vars, mcpVars, pluginVars>>

\* The fairness of HttpTarget, McpTarget and PluginTarget.
TargetsSpec ==
  /\ TargetsInit /\ [][TargetsNext]_all
  /\ WF_all(Http(Tick))
  /\ WF_all(Http(Send \/ Accept \/ BackOff \/ Wake \/ GiveUp \/ ReadBody))
  /\ WF_all(Http(CtxDone /\ TransportError))
  /\ \A c \in Callers : WF_all(OfMcp(Mcp!InvokeStep(c)))
  /\ WF_all(OfPlugins(Plugins!BaseAnswers \/ Plugins!StartEntry \/ Plugins!Finish))
  /\ WF_all(OfPlugins(Plugins!Expire))
  /\ WF_all(OfPlugins(Plugins!Killed))

-----------------------------------------------------------------------------
\* McpTarget: one handshake before every tool call, no id twice, and a
\* handshake that failed is the outcome of every later call.
SessionIsInOrder == Mcp!SessionIsInOrder

\* McpTarget: a response without findings is of a call the server received.
CleanCallsReachTheTool == Mcp!CleanCallsReachTheTool

\* PluginTarget: all the evidence or an error, and every entry sees what is
\* before it.
EvidenceIsAllOrNothing == Plugins!EvidenceIsAllOrNothing /\ Plugins!EntriesSeeWhatIsBefore

\* StreamTarget: an answer without findings is all of it, but for exactly what
\* the target loses or takes for text without counting it, and only a stream of
\* which all was sent is completed.
CleanAnswerIsWhole ==
  about = "stream" => Stream!CleanAnswerIsWhole /\ Stream!CompletedMeansAllSent

\* StreamTarget: what arrived is in the place it was meant for.
ArrivedIsInPlace == about = "stream" => Stream!ArrivedIsInPlace

\* Invoke returns, whatever the other side does; with plugins only as long as
\* no WASM module runs.
TargetsReturn ==
  /\ about = "http" => Returns
  /\ about = "mcp" => Mcp!AllReturn
  /\ about = "plugins" => Plugins!EndsWithoutWasm

=============================================================================
