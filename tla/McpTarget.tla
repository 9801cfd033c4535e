------------------------------ MODULE McpTarget ------------------------------
(***************************************************************************)
(* The MCP target (cleanr/adapters/mcp.go), which all the workers of a run  *)
(* share.  The first Invoke performs the handshake inside a sync.Once, with  *)
(* its own context: initialize, then the initialized notification; the       *)
(* others wait for it without looking at their contexts.  The outcome stays  *)
(* for all later calls.  Then each Invoke takes a request id and posts its   *)
(* tools/call.  A caller is one call of Invoke.                              *)
(***************************************************************************)
EXTENDS Naturals, FiniteSets

CONSTANTS Callers,   \* bound: the calls of Invoke of one run
          Nothing    \* no result, no id, no caller

VARIABLES pc,         \* [Callers -> where Invoke is]
          over,       \* callers whose reqCtx is over: timeout or cancellation
          once,       \* initOnce: "new", "running" or "done"
          owner,      \* the caller inside initOnce.Do
          initErr,    \* t.initErr # nil
          idSeq,      \* t.requestIDSeq
          id,         \* [Callers -> id of the tools/call]
          wire,       \* the posts that reached the server, with their ids
          result      \* [Callers -> the core.Response]

vars == <<pc, over, once, owner, initErr, idSeq, id, wire, result>>

\* What comes back from a post: nothing (transport error or context), a
\* status of 400 and above, bytes that are no JSON, a JSON-RPC error, a tool
\* result.
Replies == {"none", "http error", "garbage", "rpc error", "ok"}

\* postJSONRPC: the reply is an error.
PostFails(reply) == reply \in {"none", "http error"}

NoResponse == [err |-> TRUE, extractErr |-> FALSE, toolCall |-> FALSE]

\* parseMCPToolResponse behind the error check of Invoke.
Parse(reply) ==
  [err |-> PostFails(reply),
   extractErr |-> reply \in {"garbage", "rpc error"},
   toolCall |-> reply \in {"rpc error", "ok"}]

-----------------------------------------------------------------------------
\* Types, and that the caller inside initOnce.Do is its owner.
TypeOK ==
  /\ pc \in [Callers -> {"start", "wait", "initialize", "notify", "id", "call", "done"}]
  /\ over \subseteq Callers
  /\ once \in {"new", "running", "done"}
  /\ owner \in Callers \cup {Nothing}
  /\ initErr \in BOOLEAN
  /\ idSeq \in Nat
  /\ id \in [Callers -> Nat \cup {Nothing}]
  /\ wire \subseteq [method : {"initialize", "initialized", "tools/call"},
                     id : Nat \cup {Nothing}, caller : Callers]
  /\ result \in [Callers -> [err : BOOLEAN, extractErr : BOOLEAN, toolCall : BOOLEAN]
                              \cup {Nothing}]
  /\ once = "running" => owner \in Callers
  /\ \A c \in Callers :
       pc[c] \in {"initialize", "notify"} <=> once = "running" /\ owner = c

Init ==
  /\ pc = [c \in Callers |-> "start"]
  /\ over = {}
  /\ once = "new"
  /\ owner = Nothing
  /\ initErr = FALSE
  /\ idSeq = 0
  /\ id = [c \in Callers |-> Nothing]
  /\ wire = {}
  /\ result = [c \in Callers |-> Nothing]

\* The server, or what is between, replies to a post of caller c; a post
\* under a context that is over may only fail.  sent: it reached the server.
Posted(c, reply, sent) ==
  /\ c \in over => ~sent
  /\ ~sent => reply = "none"

Goto(c, next) == pc' = [pc EXCEPT ![c] = next]

\* Mutant: a flag that is set at the end stands for the sync.Once.
EnterFirstAgain(c) ==
  /\ pc[c] = "start" /\ once # "done"
  /\ once' = "running"
  /\ owner' = c
  /\ idSeq' = idSeq + 1
  /\ Goto(c, "initialize")
  /\ UNCHANGED <<over, initErr, id, wire, result>>

\* initOnce.Do: the first caller runs the handshake and takes its id, ...
EnterFirst(c) ==
  /\ pc[c] = "start" /\ once = "new"
  /\ once' = "running"
  /\ owner' = c
  /\ idSeq' = idSeq + 1
  /\ Goto(c, "initialize")
  /\ UNCHANGED <<over, initErr, id, wire, result>>

\* ... the others wait for it, ...
EnterOther(c) ==
  /\ pc[c] = "start" /\ once = "running"
  /\ Goto(c, "wait")
  /\ UNCHANGED <<over, once, owner, initErr, idSeq, id, wire, result>>

\* Mutant: the stored error is not looked at.
PassHandshakeUnchecked(c) ==
  /\ pc[c] \in {"start", "wait"} /\ once = "done"
  /\ Goto(c, "id")
  /\ UNCHANGED <<over, once, owner, initErr, idSeq, id, wire, result>>

\* Mutant: those that wait are never woken.
PassHandshakeOnlyEarly(c) ==
  /\ pc[c] = "start" /\ once = "done"
  /\ IF initErr
       THEN result' = [result EXCEPT ![c] = NoResponse] /\ Goto(c, "done")
       ELSE result' = result /\ Goto(c, "id")
  /\ UNCHANGED <<over, once, owner, initErr, idSeq, id, wire>>

\* ... and once it is over all callers have its outcome.
PassHandshake(c) ==
  /\ pc[c] \in {"start", "wait"} /\ once = "done"
  /\ IF initErr
       THEN result' = [result EXCEPT ![c] = NoResponse] /\ Goto(c, "done")
       ELSE result' = result /\ Goto(c, "id")
  /\ UNCHANGED <<over, once, owner, initErr, idSeq, id, wire>>

\* The owner leaves initOnce.Do and initialize.
LeaveHandshake(c, failed) ==
  /\ initErr' = failed
  /\ once' = "done"
  /\ owner' = Nothing
  /\ result' = IF failed THEN [result EXCEPT ![c] = NoResponse] ELSE result
  /\ Goto(c, IF failed THEN "done" ELSE "id")

\* The reply to initialize: only the HTTP level counts.
Initialize(c) ==
  /\ pc[c] = "initialize"
  /\ \E reply \in Replies, sent \in BOOLEAN :
       /\ Posted(c, reply, sent)
       /\ wire' = IF sent THEN wire \cup {[method |-> "initialize", id |-> idSeq, caller |-> c]}
                          ELSE wire
       /\ IF PostFails(reply)
            THEN LeaveHandshake(c, TRUE)
            ELSE Goto(c, "notify") /\ UNCHANGED <<once, owner, initErr, result>>
  /\ UNCHANGED <<over, idSeq, id>>

Notify(c) ==
  /\ pc[c] = "notify"
  /\ \E reply \in Replies, sent \in BOOLEAN :
       /\ Posted(c, reply, sent)
       /\ wire' = IF sent THEN wire \cup {[method |-> "initialized", id |-> Nothing, caller |-> c]}
                          ELSE wire
       /\ LeaveHandshake(c, PostFails(reply))
  /\ UNCHANGED <<over, idSeq, id>>

\* Mutant: two callers read the counter before either writes it.
TakeIdWithoutLock(c) ==
  /\ pc[c] = "id"
  /\ \E seen \in {idSeq, IF idSeq > 1 THEN idSeq - 1 ELSE idSeq} :
       /\ idSeq' = seen + 1
       /\ id' = [id EXCEPT ![c] = seen + 1]
  /\ Goto(c, "call")
  /\ UNCHANGED <<over, once, owner, initErr, wire, result>>

\* nextRequestID, under the mutex.
TakeId(c) ==
  /\ pc[c] = "id"
  /\ idSeq' = idSeq + 1
  /\ id' = [id EXCEPT ![c] = idSeq + 1]
  /\ Goto(c, "call")
  /\ UNCHANGED <<over, once, owner, initErr, wire, result>>

\* Mutant: the error of the post is not put into the response.
CallForgettingError(c) ==
  /\ pc[c] = "call"
  /\ \E reply \in Replies, sent \in BOOLEAN :
       /\ Posted(c, reply, sent)
       /\ wire' = IF sent THEN wire \cup {[method |-> "tools/call", id |-> id[c], caller |-> c]}
                          ELSE wire
       /\ result' = [result EXCEPT ![c] = [Parse(reply) EXCEPT !.err = FALSE]]
  /\ Goto(c, "done")
  /\ UNCHANGED <<over, once, owner, initErr, idSeq, id>>

Call(c) ==
  /\ pc[c] = "call"
  /\ \E reply \in Replies, sent \in BOOLEAN :
       /\ Posted(c, reply, sent)
       /\ wire' = IF sent THEN wire \cup {[method |-> "tools/call", id |-> id[c], caller |-> c]}
                          ELSE wire
       /\ result' = [result EXCEPT ![c] = Parse(reply)]
  /\ Goto(c, "done")
  /\ UNCHANGED <<over, once, owner, initErr, idSeq, id>>

\* The deadline of a call passes, or the run is cancelled.
Expire(c) ==
  /\ pc[c] # "done" /\ c \notin over
  /\ over' = over \cup {c}
  /\ UNCHANGED <<pc, once, owner, initErr, idSeq, id, wire, result>>

InvokeStep(c) ==
  \/ EnterFirst(c) \/ EnterOther(c) \/ PassHandshake(c)
  \/ Initialize(c) \/ Notify(c) \/ TakeId(c) \/ Call(c)

Next == \E c \in Callers : InvokeStep(c) \/ Expire(c)

\* Goroutines are scheduled, and a post ends at the latest with its context.
Spec == Init /\ [][Next]_vars /\ \A c \in Callers : WF_vars(InvokeStep(c))

-----------------------------------------------------------------------------
\* responseFindings of helpers.go on the response of a call (its status check
\* adds nothing: a status of 400 and above is an error of the target).
HasFindings(resp) == resp.err \/ (resp.extractErr /\ ~resp.toolCall)

\* The server sees one handshake, however many workers start at once, and no
\* tool is called before the server has confirmed both of its posts.
OneHandshakeFirst ==
  /\ \A v, w \in wire : v.method = "initialize" /\ w.method = "initialize" => v = w
  /\ \A w \in wire : w.method = "tools/call" =>
       /\ once = "done" /\ ~initErr
       /\ \A m \in {"initialize", "initialized"} : \E v \in wire : v.method = m

\* No two requests of a session carry one id, so that no reply is taken for
\* the reply to another call.
IdsAreUnique ==
  \A v, w \in wire : v.id = w.id /\ v.id # Nothing => v = w

\* A failed handshake is the outcome of every call that did not return before
\* it, in time or not, and no call mends it.
FailedHandshakeIsFinal ==
  initErr => /\ once = "done"
             /\ \A c \in Callers : pc[c] \notin {"id", "call"} /\ result[c] \in {Nothing, NoResponse}

\* What initOnce and mu are for: one handshake before every call, its outcome
\* for all of them, and no id twice.
SessionIsInOrder ==
  TypeOK /\ OneHandshakeFirst /\ IdsAreUnique /\ FailedHandshakeIsFinal

\* A response without findings is that of a call the server received.
CleanCallsReachTheTool ==
  \A c \in Callers : result[c] # Nothing /\ ~HasFindings(result[c]) =>
    \E w \in wire : w.method = "tools/call" /\ w.caller = c /\ w.id = id[c]

\* Every call returns, those that wait for the handshake of another included.
AllReturn == \A c \in Callers : <>(pc[c] = "done")

=============================================================================
