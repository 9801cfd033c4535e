----------------------- MODULE ServicesAndRulesProofs -----------------------
(***************************************************************************)
(* Proofs about the two commands that go on.  `cleanr watch`, for any files, *)
(* edits and numbers of runs: no run is its own trigger, and a change that   *)
(* watch does not see was made while the last run was still going on.  The   *)
(* MCP server, for any lines a client sends and any failures: each request   *)
(* is answered once and in order, and what the answers say of runs is true.  *)
(* And about the rules of the configuration that they and all commands load, *)
(* for any setup and changes by hand: defaults settle, and what is accepted  *)
(* has what a run relies on.                                                 *)
(***************************************************************************)
EXTENDS MCServices, TLAPS

-----------------------------------------------------------------------------
(***************************************************************************)
(* Watch: the inductive invariant.                                          *)
(***************************************************************************)
WatchTypeOK ==
  /\ pc \in {"start", "run", "list", "walk", "sleep", "rewalk", "exited"}
  /\ content \in [Files -> Nat]
  /\ stamp \in Nat /\ edits \in Nat /\ runs \in Nat
  /\ tested \in [Sources -> Nat]
  /\ todo \subseteq Watched
  /\ walk \in [Files -> Nat]
  /\ snapshot \in [Files -> Nat]
  /\ \A f \in Files \ Watched : walk[f] = 0 /\ snapshot[f] = 0

\* Every run but the first has an edit of its own.  As long as no edit has
\* come since those, what a walk has seen is what there is.
EditsInv ==
  /\ runs <= edits + 1
  /\ pc = "start" => runs <= edits
  /\ pc \in {"walk", "rewalk"} /\ runs > edits =>
       \A f \in Watched \ todo : walk[f] = content[f]
  /\ pc \in {"sleep", "rewalk"} /\ runs > edits =>
       \A f \in Watched : snapshot[f] = content[f]

\* What was not changed while the run went on is in the snapshot as tested.
TestedInv ==
  \A f \in Sources \ changed :
    /\ pc \in {"run", "list"} => content[f] = tested[f]
    /\ pc = "walk" => /\ f \in todo \/ walk[f] = 0 => content[f] = tested[f]
                      /\ f \notin todo => walk[f] = tested[f]
    /\ pc \in {"sleep", "rewalk"} => snapshot[f] = tested[f]

WatchInv == WatchTypeOK /\ EditsInv /\ TestedInv

\* What a run reads is watched, and its output is no source.
LEMMA SourcesAreWatched == Sources \subseteq Watched /\ Watched \subseteq Files /\ Sources \subseteq Files
BY WatchAssumption DEF Watched, Files

LEMMA WatchInvImplies ==
  ASSUME WatchInv
  PROVE  RunsFollowEdits
<1>1. RunsOnlyOnEdits
  BY DEF WatchInv, EditsInv, RunsOnlyOnEdits
<1>2. MissedChangesAreFromTheRun
  <2> SUFFICES ASSUME pc = "sleep", Pending = {}, NEW f \in Sources, f \notin changed
               PROVE  tested[f] = content[f]
    BY DEF MissedChangesAreFromTheRun
  <2>1. snapshot[f] = content[f]
    BY SourcesAreWatched DEF Pending
  <2> QED BY <2>1 DEF WatchInv, TestedInv
<1> QED BY <1>1, <1>2 DEF RunsFollowEdits

LEMMA WatchInvInit ==
  ASSUME Init
  PROVE  WatchInv
BY SourcesAreWatched DEF Init, Empty, WatchInv, WatchTypeOK, EditsInv, TestedInv

-----------------------------------------------------------------------------
(***************************************************************************)
(* Every action keeps it.                                                   *)
(***************************************************************************)
\* A run reads what there is.
LEMMA StartRunKeeps ==
  ASSUME WatchInv, StartRun
  PROVE  WatchInv'
<1>1. WatchTypeOK'
  BY SourcesAreWatched DEF WatchInv, WatchTypeOK, StartRun
<1>2. EditsInv'
  BY SourcesAreWatched, WatchAssumption DEF WatchInv, WatchTypeOK, EditsInv, StartRun
<1>3. TestedInv'
  BY SourcesAreWatched, WatchAssumption DEF WatchInv, WatchTypeOK, TestedInv, StartRun
<1> QED BY <1>1, <1>2, <1>3 DEF WatchInv

\* The output is no source, and no snapshot is compared before the next one.
LEMMA EndRunKeeps ==
  ASSUME WatchInv, EndRun
  PROVE  WatchInv'
<1>1. WatchTypeOK'
  BY SourcesAreWatched DEF WatchInv, WatchTypeOK, EndRun, Files
<1>2. EditsInv'
  BY SourcesAreWatched, WatchAssumption DEF WatchInv, WatchTypeOK, EditsInv, EndRun, Files
<1>3. TestedInv'
  BY SourcesAreWatched, WatchAssumption DEF WatchInv, WatchTypeOK, TestedInv, EndRun, Files
<1> QED BY <1>1, <1>2, <1>3 DEF WatchInv

\* What is not listed is not there.
LEMMA ListKeeps ==
  ASSUME WatchInv, NEW from, NEW to, <<from, to>> \in {<<"list", "walk">>, <<"sleep", "rewalk">>}, List(from, to)
  PROVE  WatchInv'
<1>1. WatchTypeOK'
  BY SourcesAreWatched DEF WatchInv, WatchTypeOK, List, Empty
<1>2. EditsInv'
  BY SourcesAreWatched, WatchAssumption DEF WatchInv, WatchTypeOK, EditsInv, List, Empty
<1>3. TestedInv'
  BY SourcesAreWatched, WatchAssumption DEF WatchInv, WatchTypeOK, TestedInv, List, Empty
<1> QED BY <1>1, <1>2, <1>3 DEF WatchInv

\* A visit sees what there is.
LEMMA VisitKeeps ==
  ASSUME WatchInv, NEW f \in Watched, Visit(f)
  PROVE  WatchInv'
<1>1. WatchTypeOK'
  BY SourcesAreWatched DEF WatchInv, WatchTypeOK, Visit
<1>2. EditsInv'
  BY SourcesAreWatched, WatchAssumption DEF WatchInv, WatchTypeOK, EditsInv, Visit
<1>3. TestedInv'
  BY SourcesAreWatched, WatchAssumption DEF WatchInv, WatchTypeOK, TestedInv, Visit
<1> QED BY <1>1, <1>2, <1>3 DEF WatchInv

\* The walk is the snapshot.
LEMMA TakeSnapshotKeeps ==
  ASSUME WatchInv, TakeSnapshot
  PROVE  WatchInv'
<1>1. WatchTypeOK'
  BY SourcesAreWatched DEF WatchInv, WatchTypeOK, TakeSnapshot
<1>2. EditsInv'
  BY SourcesAreWatched, WatchAssumption DEF WatchInv, WatchTypeOK, EditsInv, TakeSnapshot
<1>3. TestedInv'
  BY SourcesAreWatched, WatchAssumption DEF WatchInv, WatchTypeOK, TestedInv, TakeSnapshot
<1> QED BY <1>1, <1>2, <1>3 DEF WatchInv

\* A difference means an edit.
LEMMA CompareKeeps ==
  ASSUME WatchInv, Compare
  PROVE  WatchInv'
<1>1. WatchTypeOK'
  BY SourcesAreWatched DEF WatchInv, WatchTypeOK, Compare, DiffWatchSnapshot
<1>2. EditsInv'
  BY SourcesAreWatched, WatchAssumption DEF WatchInv, WatchTypeOK, EditsInv, Compare, DiffWatchSnapshot
<1>3. TestedInv'
  BY SourcesAreWatched, WatchAssumption DEF WatchInv, WatchTypeOK, TestedInv, Compare, DiffWatchSnapshot
<1> QED BY <1>1, <1>2, <1>3 DEF WatchInv

\* An edit pays for one more run, and during a run it is remembered.
LEMMA EditKeeps ==
  ASSUME WatchInv, NEW f \in Sources, Edit(f)
  PROVE  WatchInv'
<1>1. WatchTypeOK'
  BY SourcesAreWatched DEF WatchInv, WatchTypeOK, Edit
<1>2. EditsInv'
  BY SourcesAreWatched, WatchAssumption DEF WatchInv, WatchTypeOK, EditsInv, Edit
<1>3. TestedInv'
  BY SourcesAreWatched, WatchAssumption DEF WatchInv, WatchTypeOK, TestedInv, Edit
<1> QED BY <1>1, <1>2, <1>3 DEF WatchInv

LEMMA WatchInvStep ==
  ASSUME WatchInv, [Next]_vars
  PROVE  WatchInv'
<1>1. CASE UNCHANGED vars
  BY <1>1 DEF vars, WatchInv, WatchTypeOK, EditsInv, TestedInv
<1>2. CASE Next
  BY <1>2, StartRunKeeps, EndRunKeeps, ListKeeps, VisitKeeps, TakeSnapshotKeeps, CompareKeeps,
     EditKeeps DEF Next, WatchStep
<1> QED BY <1>1, <1>2

-----------------------------------------------------------------------------

-----------------------------------------------------------------------------
(***************************************************************************)
(* The MCP server: the inductive invariant.                                 *)
(***************************************************************************)
Line == UNION {Server!NewLines(n) : n \in Nat}

ServerTypes ==
  /\ sent \in Seq(Line)
  /\ \A n \in 1 .. Len(sent) : sent[n] \in Server!NewLines(n)
  /\ read \in 0 .. Len(sent)
  /\ handling \in {Nothing, ToolCall} \cup Server!AnswerRecords
  /\ initialized \in BOOLEAN
  /\ answers \in Seq(Server!AnswerRecords)
  /\ verdicts \in Seq([line : Nat, passed : BOOLEAN])

\* What is being handled is of the line read last.
DueInv ==
  /\ handling # Nothing => read > 0
  /\ handling = ToolCall => initialized /\ sent[read].kind = "call"
  /\ handling \in Server!AnswerRecords =>
       /\ handling.id = sent[read].id
       /\ sent[read].kind \notin {"initialized", "notification"}
       /\ handling.exit # Nothing => handling.id # NoId /\ Server!ExitIsOfRun(handling)

\* The session was opened by a line that was read.
OpenedInv == initialized => \E m \in 1 .. read : sent[m].kind = "initialized"

\* Runs are of lines that were read, and of the last one only when its tool
\* has been called.
VerdictsInv ==
  \A i \in DOMAIN verdicts :
    /\ verdicts[i].line \in 1 .. read
    /\ handling = ToolCall => verdicts[i].line < read

\* Only an answer to a request has an exit code.
ExitsInv == \A n \in DOMAIN answers : answers[n].exit # Nothing => answers[n].id # NoId

ServerInv ==
  /\ ServerTypes /\ DueInv /\ OpenedInv /\ VerdictsInv /\ ExitsInv
  /\ Server!AnswersMatchRequests /\ Server!RunAnswersAreTrue

-----------------------------------------------------------------------------
\* A line has its number as its id, or none; a call has one, and what is no
\* request has none unless it ends the handshake.
LEMMA LineFacts ==
  ASSUME NEW n \in Nat, NEW line \in Server!NewLines(n)
  PROVE  /\ line.id \in {n, NoId}
         /\ line.kind = "call" => line.id = n
         /\ line.kind \in {"blank", "garbage", "notification"} => line.id = NoId
BY DEF Server!NewLines, Server!LineOf, Server!Plain

LEMMA ServerInvInit ==
  ASSUME Server!Init
  PROVE  ServerInv
<1>1. /\ sent = <<>> /\ read = 0 /\ handling = Nothing /\ initialized = FALSE
      /\ answers = <<>> /\ verdicts = <<>>
  BY DEF Server!Init
<1>2. Nothing # ToolCall /\ Nothing \notin Server!AnswerRecords
  BY ServicesAssumption DEF Server!ServerAssumption
<1>7. <<>> \in Seq(Line) /\ <<>> \in Seq(Server!AnswerRecords)
      /\ <<>> \in Seq([line : Nat, passed : BOOLEAN])
  OBVIOUS
<1>8. Len(sent) = 0 /\ read \in 0 .. Len(sent)
  BY <1>1
<1>9. ServerTypes
  <2>1. \A n \in 1 .. Len(sent) : sent[n] \in Server!NewLines(n)
    BY <1>8
  <2>2. initialized \in BOOLEAN /\ handling \in {Nothing, ToolCall} \cup Server!AnswerRecords
    BY <1>1
  <2> QED BY <1>1, <1>7, <1>8, <2>1, <2>2 DEF ServerTypes
<1>3. DueInv
  BY <1>1, <1>2 DEF DueInv
<1>6. OpenedInv /\ VerdictsInv /\ ExitsInv
  BY <1>1 DEF OpenedInv, VerdictsInv, ExitsInv
<1>4. Server!Replies = {} /\ Server!Requests = {}
  BY <1>1 DEF Server!Replies, Server!Requests, Server!Handled
<1>5. Server!AnswersMatchRequests /\ Server!RunAnswersAreTrue
  BY <1>1, <1>4 DEF Server!AnswersMatchRequests, Server!RunAnswersAreTrue
<1> QED
  BY <1>3, <1>5, <1>6, <1>9 DEF ServerInv

\* What HandleRequest makes of a line: an answer with its id to what is no
\* notification, a tool to be called for a call in a session, or nothing,
\* which only what is no request gets.
LEMMA HandledLine ==
  ASSUME NEW n \in Nat, NEW line \in Server!NewLines(n), ServerTypes, line.kind # "blank"
  PROVE  LET h == Server!HandleRequest(line)
         IN  \/ h = Nothing /\ ~Server!IsRequest(line)
             \/ h = ToolCall /\ initialized /\ line.kind = "call"
             \/ /\ h \in Server!AnswerRecords /\ h.id = line.id /\ h.exit = Nothing
                /\ line.kind \notin {"initialized", "notification"}
<1>1. line.id \in Nat \cup {NoId} /\ (line.kind = "garbage" => line.id = NoId)
  BY LineFacts
<1>2. ASSUME NEW i \in Nat \cup {NoId}, NEW code \in Server!Codes
      PROVE  /\ Server!Answer(i, code) \in Server!AnswerRecords
             /\ Server!Answer(i, code).id = i /\ Server!Answer(i, code).exit = Nothing
  BY DEF Server!Answer, Server!AnswerRecords, Server!Codes
<1>3. PICK h : h = Server!HandleRequest(line)
  OBVIOUS
<1>4. CASE line.kind \in {"initialized", "notification"}
  <2>1. h = Nothing
    BY <1>3, <1>4 DEF Server!HandleRequest
  <2> QED BY <1>3, <1>4, <2>1 DEF Server!IsRequest
<1>5. CASE line.kind = "call"
  <2>1. h = Server!Session(line.id, ToolCall)
    BY <1>3, <1>5 DEF Server!HandleRequest
  <2>2. CASE initialized
    BY <1>3, <1>5, <2>1, <2>2 DEF Server!Session
  <2>3. CASE ~initialized
    <3>1. h = Server!Answer(line.id, "server")
      BY <2>1, <2>3 DEF Server!Session
    <3>2. "server" \in Server!Codes
      BY DEF Server!Codes
    <3> QED BY <1>1, <1>2, <1>3, <1>5, <3>1, <3>2
  <2> QED BY <2>2, <2>3
<1>6. CASE line.kind \notin {"initialized", "notification", "call"}
  <2>1. CASE line.kind = "garbage"
    <3>1. h = Server!Answer(NoId, "parse") /\ line.id = NoId
      BY <1>1, <1>3, <2>1 DEF Server!HandleRequest
    <3>2. "parse" \in Server!Codes
      BY DEF Server!Codes
    <3> QED BY <1>1, <1>2, <1>3, <1>6, <3>1, <3>2
  <2>2. CASE line.kind \in {"list", "badCall"}
    <3>1. \E code \in Server!Codes : h = Server!Answer(line.id, code)
      BY <1>3, <2>2 DEF Server!HandleRequest, Server!Session, Server!Success, Server!Codes
    <3> QED BY <1>1, <1>2, <1>3, <1>6, <3>1
  <2>3. CASE line.kind \notin {"garbage", "list", "badCall"}
    <3>1. \E code \in Server!Codes : h = Server!Answer(line.id, code)
      BY <1>3, <1>6, <2>3 DEF Server!HandleRequest, Server!Success, Server!Codes
    <3> QED BY <1>1, <1>2, <1>3, <1>6, <3>1
  <2> QED BY <2>1, <2>2, <2>3
<1> QED
  BY <1>4, <1>5, <1>6

\* What a tool answers is an answer with the id of its line.
LEMMA ToolAnswers ==
  ASSUME NEW n \in Nat, NEW line \in Server!NewLines(n), line.kind = "call",
         NEW passed \in BOOLEAN, NEW answer \in Server!Answers(line, passed)
  PROVE  /\ answer \in Server!AnswerRecords /\ answer.id = line.id
         /\ answer.exit # Nothing =>
              answer.exit = IF Server!RunsSuites(line) THEN (IF passed THEN 0 ELSE 1) ELSE 2
<1>1. line.id = n
  BY LineFacts
<1>2. \A code \in Server!Codes : Server!Answer(line.id, code) \in Server!AnswerRecords
  BY <1>1 DEF Server!Answer, Server!AnswerRecords, Server!Codes
<1>3. \A code : Server!Answer(line.id, code).id = line.id /\ Server!Answer(line.id, code).exit = Nothing
  BY DEF Server!Answer
<1>4. CASE \E code \in Server!Codes : answer = Server!Answer(line.id, code)
  BY <1>2, <1>3, <1>4
<1>5. CASE \E code \in {0, 1, 2} :
             /\ answer = [Server!Answer(line.id, Server!Success) EXCEPT !.exit = code]
             /\ code = IF Server!RunsSuites(line) THEN (IF passed THEN 0 ELSE 1) ELSE 2
  BY <1>1, <1>5 DEF Server!Answer, Server!AnswerRecords, Server!Codes, Server!Success
<1>6. \/ \E code \in Server!Codes : answer = Server!Answer(line.id, code)
      \/ \E code \in {0, 1, 2} :
             /\ answer = [Server!Answer(line.id, Server!Success) EXCEPT !.exit = code]
             /\ code = IF Server!RunsSuites(line) THEN (IF passed THEN 0 ELSE 1) ELSE 2
  <2>1. CASE line.tool = "nosuch" \/ line.cfg = "undecodable"
    <3>1. answer = Server!Answer(line.id, "internal")
      BY <2>1 DEF Server!Answers
    <3> QED BY <3>1 DEF Server!Codes
  <2>2. CASE line.tool = "cleanr_run" /\ line.cfg # "undecodable"
    <3>1. CASE ~Server!RunsSuites(line)
      <4>1. line.cfg = "invalid" \/ ~Server!GuardMCPConfig(line.cfg)
        BY <2>2, <3>1 DEF Server!RunsSuites
      <4>2. answer = [Server!Answer(line.id, Server!Success) EXCEPT !.exit = 2]
        BY <2>2, <4>1 DEF Server!Answers
      <4> QED BY <3>1, <4>2
    <3>2. CASE Server!RunsSuites(line)
      <4>1. ~(line.cfg = "invalid" \/ ~Server!GuardMCPConfig(line.cfg))
        BY <2>2, <3>2 DEF Server!RunsSuites
      <4>2. \/ answer = [Server!Answer(line.id, Server!Success) EXCEPT !.exit = IF passed THEN 0 ELSE 1]
            \/ answer = Server!Answer(line.id, "internal")
        BY <2>2, <4>1 DEF Server!Answers
      <4> QED BY <3>2, <4>2 DEF Server!Codes
    <3> QED BY <3>1, <3>2
  <2>3. CASE line.tool \notin {"nosuch", "cleanr_run"} /\ line.cfg # "undecodable"
    BY <2>3 DEF Server!Answers, Server!Success, Server!Codes
  <2> QED BY <2>1, <2>2, <2>3
<1> QED
  BY <1>4, <1>5, <1>6

-----------------------------------------------------------------------------
\* The client writes a line: nothing that was read changes.
LEMMA SendKeeps ==
  ASSUME ServerInv, Server!Send
  PROVE  ServerInv'
<1>1. /\ ServerTypes /\ DueInv /\ OpenedInv /\ VerdictsInv /\ ExitsInv
      /\ Server!AnswersMatchRequests /\ Server!RunAnswersAreTrue
  BY DEF ServerInv
<1>2. PICK line \in Server!NewLines(Len(sent) + 1) : sent' = Append(sent, line)
  BY DEF Server!Send
<1>3. UNCHANGED <<read, handling, initialized, answers, verdicts>>
  BY DEF Server!Send
<1>4. /\ Len(sent) \in Nat /\ line \in Line /\ sent' \in Seq(Line)
      /\ Len(sent') = Len(sent) + 1 /\ sent'[Len(sent) + 1] = line
      /\ \A n \in 1 .. Len(sent) : sent'[n] = sent[n]
  <2>1. Len(sent) \in Nat /\ Len(sent) + 1 \in Nat /\ sent \in Seq(Line)
    BY <1>1 DEF ServerTypes
  <2>2. line \in Line
    BY <2>1 DEF Line
  <2> QED BY <1>2, <2>1, <2>2
<1>5. ServerTypes'
  <2>1. \A n \in 1 .. Len(sent') : sent'[n] \in Server!NewLines(n)
    BY <1>1, <1>2, <1>4 DEF ServerTypes
  <2> QED BY <1>1, <1>3, <1>4, <2>1 DEF ServerTypes
<1>6. read > 0 => sent'[read] = sent[read]
  BY <1>1, <1>4 DEF ServerTypes
<1>7. (DueInv /\ OpenedInv /\ VerdictsInv /\ ExitsInv)'
  <2>1. DueInv'
    <3>1. Server!ExitIsOfRun(handling)' = Server!ExitIsOfRun(handling)
      BY <1>3 DEF Server!ExitIsOfRun
    <3>2. CASE handling = Nothing
      <4>1. handling' = Nothing /\ Nothing # ToolCall /\ Nothing \notin Server!AnswerRecords
        BY <1>3, <3>2, ServicesAssumption DEF Server!ServerAssumption
      <4> QED BY <4>1 DEF DueInv
    <3>3. CASE handling # Nothing
      <4>1. sent'[read] = sent[read] /\ read > 0
        BY <1>1, <1>6, <3>3 DEF DueInv
      <4> QED BY <1>1, <1>3, <3>1, <3>3, <4>1 DEF DueInv
    <3> QED BY <3>2, <3>3
  <2>2. OpenedInv'
    BY <1>1, <1>3, <1>4 DEF OpenedInv, ServerTypes
  <2>3. VerdictsInv' /\ ExitsInv'
    BY <1>1, <1>3 DEF VerdictsInv, ExitsInv
  <2> QED BY <2>1, <2>2, <2>3
<1>8. Server!Handled' = Server!Handled /\ Server!Handled \in Nat /\ Server!Handled <= Len(sent)
  BY <1>1, <1>3 DEF Server!Handled, ServerTypes, DueInv
<1>9. Server!Requests' = Server!Requests /\ Server!Replies' = Server!Replies
  BY <1>3, <1>4, <1>8 DEF Server!Requests, Server!Replies
<1>10. Server!AnswersMatchRequests'
  BY <1>1, <1>3, <1>9 DEF Server!AnswersMatchRequests
<1>11. Server!RunAnswersAreTrue'
  <2>1. \A i \in DOMAIN verdicts : verdicts[i].line \in 1 .. Len(sent)
    BY <1>1 DEF VerdictsInv, ServerTypes
  <2>2. ASSUME NEW i \in DOMAIN verdicts
        PROVE  /\ Server!GuardMCPConfig(sent'[verdicts[i].line].cfg)
               /\ \E m \in 1 .. verdicts[i].line - 1 : sent'[m].kind = "initialized"
    <3>1. sent'[verdicts[i].line] = sent[verdicts[i].line]
      BY <1>4, <2>1
    <3>2. PICK m \in 1 .. verdicts[i].line - 1 : sent[m].kind = "initialized"
      BY <1>1 DEF Server!RunAnswersAreTrue
    <3>3. sent'[m] = sent[m]
      BY <1>4, <2>1, <3>2
    <3> QED BY <1>1, <3>1, <3>2, <3>3 DEF Server!RunAnswersAreTrue
  <2> QED BY <1>1, <1>3, <2>2 DEF Server!RunAnswersAreTrue, Server!ExitIsOfRun
<1> QED
  BY <1>1, <1>5, <1>7, <1>10, <1>11 DEF ServerInv

\* The server takes the next line: what it makes of it is due.
LEMMA ReadLineKeeps ==
  ASSUME ServerInv, Server!ReadLine
  PROVE  ServerInv'
<1>1. /\ ServerTypes /\ DueInv /\ OpenedInv /\ VerdictsInv /\ ExitsInv
      /\ Server!AnswersMatchRequests /\ Server!RunAnswersAreTrue
  BY DEF ServerInv
<1>2. /\ handling = Nothing /\ read < Len(sent) /\ read' = read + 1
      /\ UNCHANGED <<sent, answers, verdicts>>
  BY DEF Server!ReadLine
<1>3. PICK line : line = sent[read + 1]
  OBVIOUS
<1>4. /\ handling' = IF line.kind = "blank" THEN Nothing ELSE Server!HandleRequest(line)
      /\ initialized' = (initialized \/ line.kind = "initialized")
  BY <1>3 DEF Server!ReadLine
<1>5. read \in Nat /\ read + 1 \in 1 .. Len(sent) /\ line \in Server!NewLines(read + 1)
  BY <1>1, <1>2, <1>3 DEF ServerTypes
<1>6. Nothing # ToolCall /\ {Nothing, ToolCall} \cap Server!AnswerRecords = {}
  BY ServicesAssumption DEF Server!ServerAssumption
<1>7. \/ handling' = Nothing /\ ~Server!IsRequest(line)
      \/ handling' = ToolCall /\ initialized /\ line.kind = "call"
      \/ /\ handling' \in Server!AnswerRecords /\ handling'.id = line.id /\ handling'.exit = Nothing
         /\ line.kind \notin {"initialized", "notification"}
  <2>1. CASE line.kind = "blank"
    BY <1>4, <1>5, <2>1, LineFacts DEF Server!IsRequest
  <2>2. CASE line.kind # "blank"
    BY <1>1, <1>4, <1>5, <2>2, HandledLine
  <2> QED BY <2>1, <2>2
<1>8. ServerTypes'
  <2>1. initialized' \in BOOLEAN
    BY <1>1, <1>4 DEF ServerTypes
  <2>2. handling' \in {Nothing, ToolCall} \cup Server!AnswerRecords
    BY <1>7
  <2> QED BY <1>1, <1>2, <1>5, <2>1, <2>2 DEF ServerTypes
<1>9. DueInv'
  <2>1. sent'[read'] = line
    BY <1>2, <1>3
  <2>2. read' > 0
    BY <1>2, <1>5
  <2>3. CASE handling' = Nothing
    BY <1>6, <2>2, <2>3 DEF DueInv
  <2>4. CASE handling' = ToolCall
    <3>1. initialized' /\ line.kind = "call" /\ handling' # Nothing /\ handling' \notin Server!AnswerRecords
      BY <1>4, <1>6, <1>7, <2>4
    <3> QED BY <2>1, <2>2, <3>1 DEF DueInv
  <2>5. CASE handling' \in Server!AnswerRecords
    <3>1. /\ handling'.id = line.id /\ handling'.exit = Nothing
          /\ line.kind \notin {"initialized", "notification"}
          /\ handling' # ToolCall
      BY <1>6, <1>7, <2>5
    <3> QED BY <2>1, <2>2, <3>1 DEF DueInv
  <2> QED BY <1>7, <2>3, <2>4, <2>5
<1>10. OpenedInv'
  <2>1. CASE line.kind = "initialized"
    BY <1>2, <1>3, <1>5, <2>1 DEF OpenedInv
  <2>2. CASE line.kind # "initialized"
    <3>1. initialized' => initialized
      BY <1>4, <2>2
    <3>2. ASSUME initialized PROVE \E m \in 1 .. read' : sent'[m].kind = "initialized"
      <4>1. PICK m \in 1 .. read : sent[m].kind = "initialized"
        BY <1>1, <3>2 DEF OpenedInv
      <4>2. m \in 1 .. read' /\ sent'[m] = sent[m]
        BY <1>2, <1>5, <4>1
      <4> QED BY <4>1, <4>2
    <3> QED BY <3>1, <3>2 DEF OpenedInv
  <2> QED BY <2>1, <2>2
<1>11. VerdictsInv' /\ ExitsInv'
  <2>1. \A i \in DOMAIN verdicts : verdicts[i].line \in 1 .. read
    BY <1>1 DEF VerdictsInv
  <2>2. VerdictsInv'
    BY <1>2, <1>5, <2>1 DEF VerdictsInv
  <2> QED BY <1>1, <1>2, <2>2 DEF ExitsInv
<1>12. Server!Requests' = Server!Requests /\ Server!Replies' = Server!Replies
  <2>1. Server!Handled = read
    BY <1>2 DEF Server!Handled
  <2>2. CASE handling' = Nothing
    <3>1. Server!Handled' = read + 1 /\ ~Server!IsRequest(sent[read + 1])
      BY <1>2, <1>3, <1>6, <1>7, <2>2 DEF Server!Handled
    <3>2. Server!Requests' = Server!Requests
      BY <1>2, <1>5, <2>1, <3>1 DEF Server!Requests
    <3> QED BY <1>2, <3>2 DEF Server!Replies
  <2>3. CASE handling' # Nothing
    <3>1. Server!Handled' = read
      BY <1>2, <1>5, <2>3 DEF Server!Handled
    <3> QED BY <1>2, <2>1, <3>1 DEF Server!Requests, Server!Replies
  <2> QED BY <2>2, <2>3
<1>13. Server!AnswersMatchRequests'
  BY <1>1, <1>2, <1>12 DEF Server!AnswersMatchRequests
<1>14. Server!RunAnswersAreTrue'
  BY <1>1, <1>2 DEF Server!RunAnswersAreTrue, Server!ExitIsOfRun
<1> QED
  BY <1>8, <1>9, <1>10, <1>11, <1>13, <1>14 DEF ServerInv

\* A tool ends: its run, if there was one, is the only one of the line, and
\* the answer has its exit code.
LEMMA CallToolKeeps ==
  ASSUME ServerInv, Server!CallTool
  PROVE  ServerInv'
<1>1. /\ ServerTypes /\ DueInv /\ OpenedInv /\ VerdictsInv /\ ExitsInv
      /\ Server!AnswersMatchRequests /\ Server!RunAnswersAreTrue
  BY DEF ServerInv
<1>2. handling = ToolCall /\ UNCHANGED <<sent, read, initialized, answers>>
  BY DEF Server!CallTool
<1>3. PICK line : line = sent[read]
  OBVIOUS
<1>4. PICK passed \in BOOLEAN :
        /\ handling' \in Server!Answers(line, passed)
        /\ verdicts' = IF Server!RunsSuites(line)
                         THEN Append(verdicts, [line |-> read, passed |-> passed]) ELSE verdicts
  BY <1>3 DEF Server!CallTool
<1>5. Nothing # ToolCall /\ {Nothing, ToolCall} \cap Server!AnswerRecords = {}
  BY ServicesAssumption DEF Server!ServerAssumption
<1>6. /\ read \in 1 .. Len(sent) /\ read \in Nat /\ line \in Server!NewLines(read)
      /\ line.kind = "call" /\ line.id = read /\ initialized
  <2>1. read > 0 /\ line.kind = "call" /\ initialized
    BY <1>1, <1>2, <1>3, <1>5 DEF DueInv
  <2>2. read \in 1 .. Len(sent) /\ read \in Nat /\ line \in Server!NewLines(read)
    BY <1>1, <1>3, <2>1 DEF ServerTypes
  <2> QED BY <2>1, <2>2, LineFacts
<1>7. /\ handling' \in Server!AnswerRecords /\ handling'.id = read
      /\ handling'.exit # Nothing =>
           handling'.exit = IF Server!RunsSuites(line) THEN (IF passed THEN 0 ELSE 1) ELSE 2
      /\ handling' # Nothing /\ handling' # ToolCall /\ handling # Nothing
  BY <1>2, <1>4, <1>5, <1>6, ToolAnswers
<1>8. /\ Len(verdicts) \in Nat /\ DOMAIN verdicts = 1 .. Len(verdicts)
      /\ \A i \in DOMAIN verdicts : verdicts[i].line \in 1 .. read - 1
  <2>1. Len(verdicts) \in Nat /\ DOMAIN verdicts = 1 .. Len(verdicts)
    BY <1>1 DEF ServerTypes
  <2>2. ASSUME NEW i \in DOMAIN verdicts PROVE verdicts[i].line \in 1 .. read - 1
    BY <1>1, <1>2, <1>6 DEF VerdictsInv
  <2> QED BY <2>1, <2>2
<1>9. CASE ~Server!RunsSuites(line)
  <2>1. verdicts' = verdicts
    BY <1>4, <1>9
  <2>2. ServerTypes'
    BY <1>1, <1>2, <1>7, <2>1 DEF ServerTypes
  <2>3. handling'.exit # Nothing => Server!ExitIsOfRun(handling)'
    BY <1>6, <1>7, <1>8, <1>9, <2>1 DEF Server!ExitIsOfRun
  <2>4. DueInv'
    <3>1. NoId \notin Nat
      BY ServicesAssumption DEF Server!ServerAssumption
    <3> QED BY <1>2, <1>3, <1>6, <1>7, <2>3, <3>1 DEF DueInv
  <2>5. OpenedInv' /\ VerdictsInv' /\ ExitsInv'
    BY <1>1, <1>2, <1>7, <2>1 DEF OpenedInv, VerdictsInv, ExitsInv
  <2>6. Server!Requests' = Server!Requests /\ Server!Replies' = Server!Replies
    BY <1>2, <1>7 DEF Server!Requests, Server!Replies, Server!Handled
  <2>7. Server!AnswersMatchRequests'
    BY <1>1, <1>2, <2>6 DEF Server!AnswersMatchRequests
  <2>8. Server!RunAnswersAreTrue'
    BY <1>1, <1>2, <2>1 DEF Server!RunAnswersAreTrue, Server!ExitIsOfRun
  <2> QED BY <2>2, <2>4, <2>5, <2>7, <2>8 DEF ServerInv
<1>10. CASE Server!RunsSuites(line)
  <2>1. PICK run : run = [line |-> read, passed |-> passed]
    OBVIOUS
  <2>2. /\ run \in [line : Nat, passed : BOOLEAN] /\ run.line = read /\ run.passed = passed
        /\ verdicts' = Append(verdicts, run)
    BY <1>4, <1>6, <1>10, <2>1
  <2>3. /\ verdicts' \in Seq([line : Nat, passed : BOOLEAN])
        /\ DOMAIN verdicts' = 1 .. Len(verdicts) + 1
        /\ verdicts'[Len(verdicts) + 1] = run
        /\ \A i \in DOMAIN verdicts : verdicts'[i] = verdicts[i]
    <3>1. verdicts \in Seq([line : Nat, passed : BOOLEAN])
      BY <1>1 DEF ServerTypes
    <3> QED BY <1>8, <2>2, <3>1
  <2>4. ServerTypes'
    BY <1>1, <1>2, <1>7, <2>3 DEF ServerTypes
  <2>5. handling'.exit # Nothing => Server!ExitIsOfRun(handling)'
    <3>1. Len(verdicts) + 1 \in DOMAIN verdicts' /\ verdicts'[Len(verdicts) + 1] = run
      BY <1>8, <2>3
    <3>2. run.line = handling'.id
      BY <1>7, <2>2
    <3>3. handling'.exit # Nothing => handling'.exit = IF run.passed THEN 0 ELSE 1
      BY <1>7, <1>10, <2>2
    <3> QED BY <3>1, <3>2, <3>3 DEF Server!ExitIsOfRun
  <2>6. DueInv'
    <3>1. NoId \notin Nat
      BY ServicesAssumption DEF Server!ServerAssumption
    <3> QED BY <1>2, <1>3, <1>6, <1>7, <2>5, <3>1 DEF DueInv
  <2>7. OpenedInv' /\ ExitsInv'
    BY <1>1, <1>2 DEF OpenedInv, ExitsInv
  <2>8. VerdictsInv'
    <3>1. ASSUME NEW i \in DOMAIN verdicts' PROVE verdicts'[i].line \in 1 .. read
      BY <1>6, <1>8, <2>2, <2>3
    <3> QED BY <1>2, <1>7, <3>1 DEF VerdictsInv
  <2>9. Server!Requests' = Server!Requests /\ Server!Replies' = Server!Replies
    BY <1>2, <1>7 DEF Server!Requests, Server!Replies, Server!Handled
  <2>10. Server!AnswersMatchRequests'
    BY <1>1, <1>2, <2>9 DEF Server!AnswersMatchRequests
  <2>11. Server!RunAnswersAreTrue'
    <3>1. ASSUME NEW i \in DOMAIN verdicts'
          PROVE  /\ Server!GuardMCPConfig(sent[verdicts'[i].line].cfg)
                 /\ \E m \in 1 .. verdicts'[i].line - 1 : sent[m].kind = "initialized"
      <4>1. CASE i \in DOMAIN verdicts
        BY <1>1, <2>3, <4>1 DEF Server!RunAnswersAreTrue
      <4>2. CASE i = Len(verdicts) + 1
        <5>1. Server!GuardMCPConfig(line.cfg)
          BY <1>10 DEF Server!RunsSuites
        <5>2. PICK m \in 1 .. read : sent[m].kind = "initialized"
          BY <1>1, <1>6 DEF OpenedInv
        <5>3. m # read
          BY <1>3, <1>6, <5>2
        <5>4. m \in 1 .. read - 1
          BY <1>6, <5>2, <5>3
        <5> QED BY <1>3, <2>2, <2>3, <4>2, <5>1, <5>2, <5>4
      <4> QED BY <1>8, <2>3, <4>1, <4>2
    <3>2. ASSUME NEW i \in DOMAIN verdicts', NEW j \in DOMAIN verdicts', i < j
          PROVE  verdicts'[i].line < verdicts'[j].line
      <4>1. i \in DOMAIN verdicts
        BY <1>8, <2>3, <3>2
      <4>2. CASE j \in DOMAIN verdicts
        BY <1>1, <2>3, <3>2, <4>1, <4>2 DEF Server!RunAnswersAreTrue
      <4>3. CASE j = Len(verdicts) + 1
        BY <1>6, <1>8, <2>2, <2>3, <4>1, <4>3
      <4> QED BY <1>8, <2>3, <4>2, <4>3
    <3>3. ASSUME NEW n \in DOMAIN answers, answers[n].exit # Nothing
          PROVE  Server!ExitIsOfRun(answers[n])'
      <4>1. answers[n].id # NoId
        BY <1>1, <3>3 DEF ExitsInv
      <4>2. answers[n].id \in Server!Requests
        BY <1>1, <4>1 DEF Server!AnswersMatchRequests, Server!Replies
      <4>3. answers[n].id # read
        BY <1>6, <1>7, <4>2 DEF Server!Requests, Server!Handled
      <4>4. Server!ExitIsOfRun(answers[n])
        BY <1>1, <3>3 DEF Server!RunAnswersAreTrue
      <4>5. CASE \A i \in DOMAIN verdicts : verdicts[i].line # answers[n].id
        <5>1. answers[n].exit = 2
          BY <4>4, <4>5 DEF Server!ExitIsOfRun
        <5>2. \A i \in DOMAIN verdicts' : verdicts'[i].line # answers[n].id
          BY <1>8, <2>2, <2>3, <4>3, <4>5
        <5> QED BY <1>2, <5>1, <5>2 DEF Server!ExitIsOfRun
      <4>6. CASE \E i \in DOMAIN verdicts :
                   /\ verdicts[i].line = answers[n].id
                   /\ answers[n].exit = IF verdicts[i].passed THEN 0 ELSE 1
        <5>1. PICK i \in DOMAIN verdicts :
                /\ verdicts[i].line = answers[n].id
                /\ answers[n].exit = IF verdicts[i].passed THEN 0 ELSE 1
          BY <4>6
        <5>2. i \in DOMAIN verdicts' /\ verdicts'[i] = verdicts[i]
          BY <1>8, <2>3
        <5> QED BY <1>2, <5>1, <5>2 DEF Server!ExitIsOfRun
      <4> QED BY <4>4, <4>5, <4>6 DEF Server!ExitIsOfRun
    <3> QED BY <1>2, <3>1, <3>2, <3>3 DEF Server!RunAnswersAreTrue
  <2> QED BY <2>4, <2>6, <2>7, <2>8, <2>10, <2>11 DEF ServerInv
<1> QED
  BY <1>9, <1>10

\* The answer is written: the request of its line is handled.
LEMMA WriteAnswerKeeps ==
  ASSUME ServerInv, Server!WriteAnswer
  PROVE  ServerInv'
<1>1. /\ ServerTypes /\ DueInv /\ OpenedInv /\ VerdictsInv /\ ExitsInv
      /\ Server!AnswersMatchRequests /\ Server!RunAnswersAreTrue
  BY DEF ServerInv
<1>2. /\ handling \notin {Nothing, ToolCall} /\ handling' = Nothing
      /\ UNCHANGED <<sent, read, initialized, verdicts>>
  BY DEF Server!WriteAnswer
<1>3. PICK answer : answer = handling
  OBVIOUS
<1>4. answer \in Server!AnswerRecords /\ answers' = Append(answers, answer)
  BY <1>1, <1>2, <1>3 DEF ServerTypes, Server!WriteAnswer
<1>5. Nothing # ToolCall /\ {Nothing, ToolCall} \cap Server!AnswerRecords = {} /\ NoId \notin Nat
  BY ServicesAssumption DEF Server!ServerAssumption
<1>6. /\ read \in Nat /\ read \in 1 .. Len(sent) /\ answer.id = sent[read].id
      /\ sent[read].kind \notin {"initialized", "notification"}
      /\ answer.exit # Nothing => answer.id # NoId /\ Server!ExitIsOfRun(answer)
  <2>1. read > 0
    BY <1>1, <1>2 DEF DueInv
  <2>2. read \in Nat /\ read \in 1 .. Len(sent)
    BY <1>1, <2>1 DEF ServerTypes
  <2>3. Server!ExitIsOfRun(handling) => Server!ExitIsOfRun(answer)
    BY <1>3 DEF Server!ExitIsOfRun
  <2> QED BY <1>1, <1>3, <1>4, <2>2, <2>3 DEF DueInv
<1>7. answer.id \in {read, NoId}
  <2>1. sent[read] \in Server!NewLines(read)
    BY <1>1, <1>6 DEF ServerTypes
  <2> QED BY <1>6, <2>1, LineFacts
<1>8. /\ answers' \in Seq(Server!AnswerRecords) /\ Len(answers) \in Nat
      /\ DOMAIN answers = 1 .. Len(answers) /\ DOMAIN answers' = 1 .. Len(answers) + 1
      /\ answers'[Len(answers) + 1] = answer
      /\ \A i \in DOMAIN answers : answers'[i] = answers[i]
  <2>1. answers \in Seq(Server!AnswerRecords)
    BY <1>1 DEF ServerTypes
  <2> QED BY <1>4, <2>1
<1>9. ServerTypes'
  BY <1>1, <1>2, <1>8 DEF ServerTypes
<1>10. DueInv' /\ OpenedInv' /\ VerdictsInv'
  <2>1. DueInv'
    BY <1>2, <1>5 DEF DueInv
  <2>2. OpenedInv'
    BY <1>1, <1>2 DEF OpenedInv
  <2>3. VerdictsInv'
    BY <1>1, <1>2, <1>5 DEF VerdictsInv
  <2> QED BY <2>1, <2>2, <2>3
<1>11. ExitsInv'
  <2>1. ASSUME NEW n \in DOMAIN answers', answers'[n].exit # Nothing
        PROVE  answers'[n].id # NoId
    <3>1. CASE n \in DOMAIN answers
      BY <1>1, <1>8, <2>1, <3>1 DEF ExitsInv
    <3>2. CASE n = Len(answers) + 1
      BY <1>6, <1>8, <2>1, <3>2
    <3> QED BY <1>8, <3>1, <3>2
  <2> QED BY <2>1 DEF ExitsInv
<1>12. /\ Server!Handled = read - 1 /\ Server!Handled' = read
       /\ Server!IsRequest(sent[read]) <=> answer.id # NoId
  BY <1>2, <1>6 DEF Server!Handled, Server!IsRequest
<1>13. \A n \in Server!Requests : n \in 1 .. read - 1
  BY <1>12 DEF Server!Requests
<1>14. ASSUME answer.id = NoId PROVE Server!AnswersMatchRequests'
  <2>1. Server!Requests' = Server!Requests
    BY <1>2, <1>6, <1>12, <1>14 DEF Server!Requests
  <2>2. Server!Replies' = Server!Replies
    BY <1>8, <1>14 DEF Server!Replies
  <2>3. \A i \in Server!Replies : answers'[i] = answers[i]
    BY <1>8 DEF Server!Replies
  <2>4. {answers[i].id : i \in Server!Replies} = Server!Requests
    BY <1>1 DEF Server!AnswersMatchRequests
  <2>5. {answers'[i].id : i \in Server!Replies'} = Server!Requests'
    BY <2>1, <2>2, <2>3, <2>4
  <2>6. \A i, j \in Server!Replies' : i < j => answers'[i].id < answers'[j].id
    BY <1>1, <2>2, <2>3 DEF Server!AnswersMatchRequests
  <2> QED BY <2>5, <2>6 DEF Server!AnswersMatchRequests
<1>15. ASSUME answer.id = read PROVE Server!AnswersMatchRequests'
  <2> DEFINE last == Len(answers) + 1
  <2>1. Server!Requests' = Server!Requests \cup {read}
    BY <1>2, <1>5, <1>6, <1>12, <1>15 DEF Server!Requests
  <2>2. Server!Replies' = Server!Replies \cup {last}
    BY <1>5, <1>6, <1>8, <1>15 DEF Server!Replies
  <2>3. /\ \A i \in Server!Replies : answers'[i] = answers[i] /\ i < last
        /\ answers'[last].id = read
    BY <1>8, <1>15 DEF Server!Replies
  <2>4. {answers[i].id : i \in Server!Replies} = Server!Requests
    BY <1>1 DEF Server!AnswersMatchRequests
  <2> HIDE DEF last
  <2>5. {answers'[i].id : i \in Server!Replies'} = Server!Requests'
    BY <2>1, <2>2, <2>3, <2>4
  <2>6. ASSUME NEW i \in Server!Replies', NEW j \in Server!Replies', i < j
        PROVE  answers'[i].id < answers'[j].id
    <3>1. Server!Replies \subseteq 1 .. Len(answers) /\ last = Len(answers) + 1
      BY <1>8 DEF Server!Replies, last
    <3>2. i \in Server!Replies
      BY <1>8, <2>2, <2>6, <3>1
    <3>3. CASE j \in Server!Replies
      BY <1>1, <2>3, <2>6, <3>2, <3>3 DEF Server!AnswersMatchRequests
    <3>4. CASE j = last
      <4>1. answers[i].id \in 1 .. read - 1
        BY <1>13, <2>4, <3>2
      <4> QED BY <1>6, <2>3, <3>2, <3>4, <4>1
    <3> QED BY <2>2, <3>3, <3>4
  <2>7. \A i, j \in Server!Replies' : i < j => answers'[i].id < answers'[j].id
    BY <2>6
  <2> QED BY <2>5, <2>7 DEF Server!AnswersMatchRequests
<1>16. Server!RunAnswersAreTrue'
  <2>1. ASSUME NEW n \in DOMAIN answers', answers'[n].exit # Nothing
        PROVE  Server!ExitIsOfRun(answers[n])'
    <3>1. CASE n \in DOMAIN answers
      BY <1>1, <1>2, <1>8, <2>1, <3>1 DEF Server!RunAnswersAreTrue, Server!ExitIsOfRun
    <3>2. CASE n = Len(answers) + 1
      BY <1>2, <1>6, <1>8, <2>1, <3>2 DEF Server!ExitIsOfRun
    <3> QED BY <1>8, <3>1, <3>2
  <2>2. /\ \A i \in DOMAIN verdicts :
             LET n == verdicts[i].line
             IN  /\ Server!GuardMCPConfig(sent[n].cfg)
                 /\ \E m \in 1 .. n - 1 : sent[m].kind = "initialized"
        /\ \A i, j \in DOMAIN verdicts : i < j => verdicts[i].line < verdicts[j].line
    BY <1>1 DEF Server!RunAnswersAreTrue
  <2> QED BY <1>2, <2>1, <2>2 DEF Server!RunAnswersAreTrue
<1> QED
  BY <1>7, <1>9, <1>10, <1>11, <1>14, <1>15, <1>16 DEF ServerInv

\* The ends of either side change nothing the invariant speaks of.
LEMMA ServerInvStep ==
  ASSUME ServerInv, [Server!Next]_serverVars
  PROVE  ServerInv'
<1>1. CASE UNCHANGED <<sent, read, handling, initialized, answers, verdicts>>
  BY <1>1 DEF ServerInv, ServerTypes, DueInv, OpenedInv, VerdictsInv, ExitsInv,
              Server!AnswersMatchRequests, Server!RunAnswersAreTrue, Server!ExitIsOfRun,
              Server!Requests, Server!Replies, Server!Handled
<1>2. CASE \/ Server!CloseInput \/ Server!ReadEnd \/ Server!ReadFails \/ Server!WriteFails
           \/ UNCHANGED serverVars
  BY <1>1, <1>2 DEF Server!CloseInput, Server!ReadEnd, Server!ReadFails, Server!WriteFails,
                    serverVars
<1> QED
  BY <1>2, SendKeeps, ReadLineKeeps, CallToolKeeps, WriteAnswerKeeps DEF Server!Next, Server!Serve

-----------------------------------------------------------------------------
(***************************************************************************)
(* The composition: a step is one of watch, of the server or of the rules.  *)
(***************************************************************************)
THEOREM ServicesInvariant == ServicesSpec => [](WatchInv /\ ServerInv)
<1>1. ServicesInit => WatchInv /\ ServerInv
  BY WatchInvInit, ServerInvInit DEF ServicesInit
<1>2. [ServicesNext]_all => [Next]_vars /\ [Server!Next]_serverVars
  BY DEF ServicesNext, all
<1>3. WatchInv /\ ServerInv /\ [ServicesNext]_all => WatchInv' /\ ServerInv'
  BY <1>2, WatchInvStep, ServerInvStep
<1> QED
  BY <1>1, <1>3, PTL DEF ServicesSpec

\* Whatever is edited and however often watch runs: every run but the first
\* follows an edit that was not there for the one before, its own outputs do
\* not count, and only what changed during a run can stay unnoticed.
THEOREM ServicesRunsFollowEdits == ServicesSpec => []RunsFollowEdits
<1> QED BY ServicesInvariant, WatchInvImplies, PTL

\* Whatever lines a client sends, however it ends and whatever fails: every
\* handled request has one answer, in order, suites run once for a request in
\* a session and only as the guard allows, and the answer says what the run
\* said (Serve, HandleRequest, RunWithConfig).
THEOREM ServicesAnswersAreTrue == ServicesSpec => []AnswersAreTrue
<1>1. WatchInv /\ ServerInv => AnswersAreTrue
  BY DEF ServerInv, AnswersAreTrue
<1> QED BY <1>1, ServicesInvariant, PTL

-----------------------------------------------------------------------------
(***************************************************************************)
(* The rules of a configuration.  Each stage of the defaults fills in what a *)
(* later one leaves filled, so that after all of them each has nothing to    *)
(* do; and what the validation finds no error in has, with the defaults, all *)
(* that a run relies on.                                                     *)
(***************************************************************************)
\* A record or table, as the configuration holds them.
Tabular(h) == h = [x \in DOMAIN h |-> h[x]]

\* The fields of a configuration and of its sinks.
ConfigShape(c) ==
  /\ c = [on |-> c.on, num |-> c.num, text |-> c.text, path |-> c.path, sinks |-> c.sinks,
          summaries |-> c.summaries, scenarios |-> c.scenarios]
  /\ Tabular(c.num) /\ Tabular(c.text) /\ Tabular(c.path)
  /\ \A k \in c.sinks : k = [type |-> k.type, endpoint |-> k.endpoint, project |-> k.project,
                             attest |-> k.attest, timeout |-> k.timeout]

\* What the judge replaces when it cannot use it.
Replaced == {<<"judge", "scale">>, <<"judge", "samples">>}

\* What defaults leave alone of a configuration c, when they fill sections S:
\* the judge's scale and samples may still be replaced.
Stays(c, d, S) ==
  /\ \A x \in DOMAIN c.num : x \in Replaced \/ (x \in DOMAIN d.num /\ d.num[x] = c.num[x])
  /\ \A x \in DOMAIN c.text : x \in DOMAIN d.text /\ d.text[x] = c.text[x]
  /\ \A x \in DOMAIN c.path : x \in DOMAIN d.path /\ d.path[x] = c.path[x]
  /\ \A x \in DOMAIN d.num : x \in DOMAIN c.num \/ x[1] \in S
  /\ \A x \in DOMAIN d.text : x \in DOMAIN c.text \/ x[1] \in S
  /\ \A x \in DOMAIN d.path : x \in DOMAIN c.path \/ x \in {"replay", "attestation"}
  /\ d.on \ {"gates"} = c.on \ {"gates"} /\ d.scenarios = c.scenarios

\* And they are not.
Keeps(c, d, S) ==
  /\ Stays(c, d, S)
  /\ \A x \in DOMAIN c.num : x \in DOMAIN d.num /\ d.num[x] = c.num[x]

\* The section gives every one of these names.
Has(h, s, names) == \A n \in names : <<s, n>> \in DOMAIN h

\* What is given wins, and a table that has all of it already is unchanged.
LEMMA OverHas ==
  ASSUME NEW h, NEW k
  PROVE  /\ DOMAIN Rules!Over(h, k) = DOMAIN h \cup DOMAIN k
         /\ \A x \in DOMAIN h : Rules!Over(h, k)[x] = h[x]
         /\ Tabular(Rules!Over(h, k))
         /\ Tabular(h) /\ DOMAIN k \subseteq DOMAIN h => Rules!Over(h, k) = h
BY DEF Rules!Over, Tabular

\* The names of a section as fields.
LEMMA TableHas ==
  ASSUME NEW s, NEW v
  PROVE  /\ DOMAIN Rules!Table(s, v) = {<<s, n>> : n \in DOMAIN v}
         /\ Tabular(Rules!Table(s, v))
BY DEF Rules!Table, Tabular

\* Nothing filled in.
LEMMA KeepsSelf ==
  ASSUME NEW c, NEW S PROVE Keeps(c, c, S)
BY DEF Keeps, Stays

\* One stage after another.
LEMMA StaysOn ==
  ASSUME NEW c, NEW d, NEW e, NEW S, NEW T, Stays(c, d, S), Stays(d, e, T)
  PROVE  Stays(c, e, S \cup T)
<1>1. \A x \in DOMAIN e.num : x \in DOMAIN c.num \/ x[1] \in S \cup T
  BY DEF Stays
<1>2. \A x \in DOMAIN e.text : x \in DOMAIN c.text \/ x[1] \in S \cup T
  BY DEF Stays
<1>3. /\ \A x \in DOMAIN c.num : x \in Replaced \/ (x \in DOMAIN e.num /\ e.num[x] = c.num[x])
      /\ \A x \in DOMAIN c.text : x \in DOMAIN e.text /\ e.text[x] = c.text[x]
      /\ \A x \in DOMAIN c.path : x \in DOMAIN e.path /\ e.path[x] = c.path[x]
      /\ \A x \in DOMAIN e.path : x \in DOMAIN c.path \/ x \in {"replay", "attestation"}
      /\ e.on \ {"gates"} = c.on \ {"gates"} /\ e.scenarios = c.scenarios
  BY DEF Stays
<1> QED BY <1>1, <1>2, <1>3 DEF Stays

\* The same when no number is replaced.
LEMMA KeepsOn ==
  ASSUME NEW c, NEW d, NEW e, NEW S, NEW T, Keeps(c, d, S), Keeps(d, e, T)
  PROVE  Keeps(c, e, S \cup T)
<1>1. Stays(c, e, S \cup T)
  BY StaysOn DEF Keeps
<1> QED BY <1>1 DEF Keeps

\* A text outside the sections filled reads as before.
LEMMA StaysText ==
  ASSUME NEW c, NEW d, NEW S, Stays(c, d, S), NEW q, NEW n, q \notin S
  PROVE  Rules!Text(d, <<q, n>>) = Rules!Text(c, <<q, n>>)
<1> DEFINE x == <<q, n>>
<1>1. x[1] = q
  OBVIOUS
<1> HIDE DEF x
<1> QED BY <1>1 DEF Stays, Rules!Text

(* Filling tables.                                                           *)

\* What filling numbers, or texts, of a section does to a configuration.
FilledNum(c, d, s, names) ==
  /\ ConfigShape(d) /\ Keeps(c, d, {s}) /\ Has(d.num, s, names)
  /\ d.text = c.text /\ d.on = c.on /\ d.path = c.path /\ d.sinks = c.sinks
  /\ Has(c.num, s, names) => d = c

FilledText(c, d, s, names) ==
  /\ ConfigShape(d) /\ Keeps(c, d, {s}) /\ Has(d.text, s, names)
  /\ \A x : x \notin {<<s, n>> : n \in names} => Rules!Text(d, x) = Rules!Text(c, x)
  /\ d.num = c.num /\ d.on = c.on /\ d.path = c.path /\ d.sinks = c.sinks
  /\ Has(c.text, s, names) => d = c

\* Filling numbers of one section.
LEMMA FillNumKeeps ==
  ASSUME NEW c, ConfigShape(c), NEW s, NEW v, NEW names, names = DOMAIN v
  PROVE  FilledNum(c, Rules!FillNum(c, s, v), s, names)
<1> DEFINE d == Rules!FillNum(c, s, v)
<1>1. d = [c EXCEPT !.num = Rules!Over(c.num, Rules!Table(s, v))]
  BY DEF Rules!FillNum
<1>2. /\ d.num = Rules!Over(c.num, Rules!Table(s, v)) /\ d.text = c.text /\ d.on = c.on /\ d.path = c.path /\ d.sinks = c.sinks
      /\ d.summaries = c.summaries /\ d.scenarios = c.scenarios
      /\ d = [on |-> d.on, num |-> d.num, text |-> d.text, path |-> d.path, sinks |-> d.sinks,
              summaries |-> d.summaries, scenarios |-> d.scenarios]
  BY <1>1 DEF ConfigShape
<1>3. Tabular(d.num) /\ DOMAIN d.num = DOMAIN c.num \cup {<<s, n>> : n \in DOMAIN v}
      /\ \A x \in DOMAIN c.num : d.num[x] = c.num[x]
  <2> DEFINE t == Rules!Table(s, v) h == c.num
  <2>1. DOMAIN t = {<<s, n>> : n \in DOMAIN v}
    BY TableHas
  <2>2. /\ DOMAIN Rules!Over(h, t) = DOMAIN h \cup DOMAIN t /\ Tabular(Rules!Over(h, t))
        /\ \A x \in DOMAIN h : Rules!Over(h, t)[x] = h[x]
    <3> HIDE DEF t, h
    <3> QED BY OverHas
  <2>3. d.num = Rules!Over(h, t)
    BY <1>2
  <2> QED BY <2>1, <2>2, <2>3, Zenon
<1>4. ConfigShape(d)
  BY <1>2, <1>3 DEF ConfigShape
<1>5. Keeps(c, d, {s}) /\ Has(d.num, s, DOMAIN v)
  BY <1>2, <1>3 DEF Keeps, Stays, Has
<1>6. ASSUME Has(c.num, s, DOMAIN v) PROVE d = c
  <2> DEFINE t == Rules!Table(s, v) h == c.num
  <2>1. Tabular(h) /\ DOMAIN t \subseteq DOMAIN h
    <3>1. DOMAIN t = {<<s, n>> : n \in DOMAIN v}
      BY TableHas
    <3>2. Tabular(h)
      BY DEF ConfigShape
    <3> QED BY <3>1, <3>2, <1>6 DEF Has
  <2>2. Tabular(h) /\ DOMAIN t \subseteq DOMAIN h => Rules!Over(h, t) = h
    <3> HIDE DEF t, h
    <3> QED BY OverHas
  <2>3. d.num = c.num
    BY <1>2, <2>1, <2>2, Zenon
  <2> QED BY <2>3, <1>2 DEF ConfigShape
<1> QED BY <1>2, <1>3, <1>4, <1>5, <1>6 DEF FilledNum

\* Filling texts of one section.
LEMMA FillTextKeeps ==
  ASSUME NEW c, ConfigShape(c), NEW s, NEW v, NEW names, names = DOMAIN v
  PROVE  FilledText(c, Rules!FillText(c, s, v), s, names)
<1> DEFINE d == Rules!FillText(c, s, v)
<1>1. d = [c EXCEPT !.text = Rules!Over(c.text, Rules!Table(s, v))]
  BY DEF Rules!FillText
<1>2. /\ d.text = Rules!Over(c.text, Rules!Table(s, v)) /\ d.num = c.num /\ d.on = c.on /\ d.path = c.path /\ d.sinks = c.sinks
      /\ d.summaries = c.summaries /\ d.scenarios = c.scenarios
      /\ d = [on |-> d.on, num |-> d.num, text |-> d.text, path |-> d.path, sinks |-> d.sinks,
              summaries |-> d.summaries, scenarios |-> d.scenarios]
  BY <1>1 DEF ConfigShape
<1>3. Tabular(d.text) /\ DOMAIN d.text = DOMAIN c.text \cup {<<s, n>> : n \in DOMAIN v}
      /\ \A x \in DOMAIN c.text : d.text[x] = c.text[x]
  <2> DEFINE t == Rules!Table(s, v) h == c.text
  <2>1. DOMAIN t = {<<s, n>> : n \in DOMAIN v}
    BY TableHas
  <2>2. /\ DOMAIN Rules!Over(h, t) = DOMAIN h \cup DOMAIN t /\ Tabular(Rules!Over(h, t))
        /\ \A x \in DOMAIN h : Rules!Over(h, t)[x] = h[x]
    <3> HIDE DEF t, h
    <3> QED BY OverHas
  <2>3. d.text = Rules!Over(h, t)
    BY <1>2
  <2> QED BY <2>1, <2>2, <2>3, Zenon
<1>4. ConfigShape(d)
  BY <1>2, <1>3 DEF ConfigShape
<1>5. Keeps(c, d, {s}) /\ Has(d.text, s, DOMAIN v)
  BY <1>2, <1>3 DEF Keeps, Stays, Has
<1>6. ASSUME Has(c.text, s, DOMAIN v) PROVE d = c
  <2> DEFINE t == Rules!Table(s, v) h == c.text
  <2>1. Tabular(h) /\ DOMAIN t \subseteq DOMAIN h
    <3>1. DOMAIN t = {<<s, n>> : n \in DOMAIN v}
      BY TableHas
    <3>2. Tabular(h)
      BY DEF ConfigShape
    <3> QED BY <3>1, <3>2, <1>6 DEF Has
  <2>2. Tabular(h) /\ DOMAIN t \subseteq DOMAIN h => Rules!Over(h, t) = h
    <3> HIDE DEF t, h
    <3> QED BY OverHas
  <2>3. d.text = c.text
    BY <1>2, <2>1, <2>2, Zenon
  <2> QED BY <2>3, <1>2 DEF ConfigShape
<1>7. ASSUME NEW x, x \notin {<<s, n>> : n \in DOMAIN v} PROVE Rules!Text(d, x) = Rules!Text(c, x)
  BY <1>3, <1>7 DEF Rules!Text
<1> QED BY <1>2, <1>3, <1>4, <1>5, <1>6, <1>7 DEF FilledText

(* The defaults of targets, providers and suites.                            *)

\* A target that has what its type derives.
TargetFilled(c, s) ==
  /\ <<s, "method">> \in DOMAIN c.text /\ <<s, "timeout_ms">> \in DOMAIN c.num
  /\ Rules!TargetType(c, s) \in Rules!OpenAIFamily => Has(c.text, s, {"name", "base_url", "auth_header", "api_mode"})
  /\ Rules!TargetType(c, s) = "anthropic" => Has(c.text, s, {"name", "base_url"}) /\ Has(c.num, s, {"max_tokens"})
  /\ Rules!TargetType(c, s) = "graphql" => Has(c.text, s, {"name", "response_field"})
  /\ Rules!TargetType(c, s) \in {"cli", "grpc", "mcp"} => Has(c.text, s, {"name"})

\* applyTargetDefaults fills a target once; the second time it has its type.
LEMMA TargetIsFilled ==
  ASSUME NEW c, ConfigShape(c), NEW s, NEW e \in BOOLEAN
  PROVE  /\ ConfigShape(Rules!applyTargetDefaults(c, s, e)) /\ Keeps(c, Rules!applyTargetDefaults(c, s, e), {s})
         /\ Rules!applyTargetDefaults(c, s, e).on = c.on /\ Rules!applyTargetDefaults(c, s, e).path = c.path
         /\ Rules!applyTargetDefaults(c, s, e).sinks = c.sinks
         /\ TargetFilled(Rules!applyTargetDefaults(c, s, e), s)
         /\ ~e => <<s, "type">> \in DOMAIN Rules!applyTargetDefaults(c, s, e).text
         /\ TargetFilled(c, s) /\ (~e => <<s, "type">> \in DOMAIN c.text) => Rules!applyTargetDefaults(c, s, e) = c
<1> DEFINE typed == IF e THEN c ELSE Rules!FillText(c, s, [type |-> "http"])
           type == Rules!TargetType(typed, s)
           method == Rules!FillText(typed, s, [method |-> "POST"])
           common == Rules!FillNum(method, s, [timeout_ms |-> 5000])
           given(t) == Rules!FillText(common, s, t)
           openai == [name |-> type, base_url |-> Rules!BaseURLValue(type), auth_header |-> "auth",
                      api_mode |-> IF type \in {"openai", "openai_compatible"} THEN "responses" ELSE "chat_completions"]
           d == Rules!applyTargetDefaults(c, s, e)
<1>8. d = CASE type \in Rules!OpenAIFamily -> given(openai)
            [] type = "anthropic" -> Rules!FillNum(given([name |-> type, base_url |-> "anthropic"]), s, [max_tokens |-> 1024])
            [] type = "graphql" -> given([name |-> type, response_field |-> "data"])
            [] type \in {"cli", "grpc", "mcp"} -> given([name |-> type])
            [] OTHER -> common
  BY DEF Rules!applyTargetDefaults
<1>1. /\ ConfigShape(typed) /\ Keeps(c, typed, {s}) /\ typed.on = c.on /\ typed.path = c.path /\ typed.sinks = c.sinks
      /\ ~e => <<s, "type">> \in DOMAIN typed.text
      /\ (~e => <<s, "type">> \in DOMAIN c.text) => typed = c
  <2>1. ASSUME ~e PROVE FilledText(c, typed, s, {"type"})
    <3>1. {"type"} = DOMAIN [type |-> "http"]
      OBVIOUS
    <3> QED BY <2>1, <3>1, FillTextKeeps
  <2> QED BY <2>1, KeepsSelf DEF Has, FilledText
<1>2. FilledText(typed, method, s, {"method"})
  <2>1. {"method"} = DOMAIN [method |-> "POST"]
    OBVIOUS
  <2> QED BY <1>1, <2>1, FillTextKeeps
<1>3. FilledNum(method, common, s, {"timeout_ms"})
  <2>1. {"timeout_ms"} = DOMAIN [timeout_ms |-> 5000]
    OBVIOUS
  <2>2. ConfigShape(method)
    BY <1>2 DEF FilledText
  <2> HIDE DEF method
  <2> QED BY <2>1, <2>2, FillNumKeeps
<1>4. Rules!TargetType(common, s) = type
  <2>1. Rules!Text(method, <<s, "type">>) = Rules!Text(typed, <<s, "type">>)
    <3> HIDE DEF method, typed
    <3> QED BY <1>2 DEF FilledText
  <2>2. Rules!Text(common, <<s, "type">>) = Rules!Text(method, <<s, "type">>)
    <3> HIDE DEF method, common
    <3> QED BY <1>3 DEF FilledNum, Rules!Text
  <2> HIDE DEF method, common, typed
  <2> QED BY <2>1, <2>2 DEF Rules!TargetType
<1> HIDE DEF common, method, typed
<1>5. Keeps(c, common, {s})
  <2>1. Keeps(typed, method, {s}) /\ Keeps(method, common, {s})
    BY <1>2, <1>3 DEF FilledText, FilledNum
  <2>2. Keeps(c, method, {s} \cup {s})
    BY <1>1, <2>1, KeepsOn
  <2>3. Keeps(c, common, {s} \cup {s} \cup {s})
    BY <2>1, <2>2, KeepsOn
  <2>4. {s} \cup {s} \cup {s} = {s}
    OBVIOUS
  <2> QED BY <2>3, <2>4
<1>6. ASSUME <<s, "method">> \in DOMAIN c.text, <<s, "timeout_ms">> \in DOMAIN c.num,
             ~e => <<s, "type">> \in DOMAIN c.text
      PROVE  common = c /\ type = Rules!TargetType(c, s)
  BY <1>1, <1>2, <1>3, <1>6 DEF FilledText, FilledNum, Has
<1>7. /\ Rules!TargetType(common, s) = type /\ ConfigShape(common) /\ Keeps(c, common, {s})
      /\ common.on = c.on /\ common.path = c.path /\ common.sinks = c.sinks
      /\ <<s, "method">> \in DOMAIN common.text /\ <<s, "timeout_ms">> \in DOMAIN common.num
      /\ ~e => <<s, "type">> \in DOMAIN common.text
  <2>1. /\ ConfigShape(common) /\ common.on = c.on /\ common.path = c.path /\ common.sinks = c.sinks
        /\ <<s, "method">> \in DOMAIN common.text /\ <<s, "timeout_ms">> \in DOMAIN common.num
    BY <1>1, <1>2, <1>3 DEF FilledText, FilledNum, Has
  <2>2. ASSUME ~e PROVE <<s, "type">> \in DOMAIN common.text
    BY <1>1, <1>2, <1>3, <2>2 DEF FilledText, FilledNum, Keeps, Stays
  <2> QED BY <1>4, <1>5, <2>1, <2>2
<1>9. ASSUME NEW v, NEW names, names = DOMAIN v, "type" \notin names
      PROVE  FilledText(common, given(v), s, names) /\ Keeps(c, given(v), {s}) /\ Rules!TargetType(given(v), s) = type
  <2> HIDE DEF type
  <2>1. <<s, "type">> \notin {<<s, n>> : n \in names}
    BY <1>9
  <2>2. FilledText(common, given(v), s, names)
    BY <1>7, <1>9, FillTextKeeps
  <2> HIDE DEF given
  <2>3. Keeps(c, given(v), {s})
    <3>1. Keeps(c, given(v), {s} \cup {s})
      BY <2>2, <1>7, KeepsOn DEF FilledText
    <3>2. {s} \cup {s} = {s}
      OBVIOUS
    <3> QED BY <3>1, <3>2
  <2>4. Rules!TargetType(given(v), s) = type
    <3>1. Rules!Text(given(v), <<s, "type">>) = Rules!Text(common, <<s, "type">>)
      BY <2>1, <2>2 DEF FilledText
    <3> QED BY <3>1, <1>7 DEF Rules!TargetType
  <2> QED BY <2>2, <2>3, <2>4
<1> HIDE DEF type, given, d
<1>10. /\ ConfigShape(d) /\ Keeps(c, d, {s}) /\ d.on = c.on /\ d.path = c.path /\ d.sinks = c.sinks
       /\ TargetFilled(d, s) /\ (~e => <<s, "type">> \in DOMAIN d.text)
       /\ TargetFilled(c, s) /\ (~e => <<s, "type">> \in DOMAIN c.text) => d = c
  <2>1. CASE type \in Rules!OpenAIFamily
    <3>1. {"name", "base_url", "auth_header", "api_mode"} = DOMAIN openai
      OBVIOUS
    <3>2. d = given(openai) /\ type \notin {"anthropic", "graphql", "cli", "grpc", "mcp"}
      BY <1>8, <2>1 DEF Rules!OpenAIFamily
    <3>3. /\ FilledText(common, d, s, {"name", "base_url", "auth_header", "api_mode"})
          /\ Keeps(c, d, {s}) /\ Rules!TargetType(d, s) = type
      BY <1>9, <3>1, <3>2
    <3> HIDE DEF openai
    <3> QED BY <3>2, <3>3, <1>6, <1>7, <2>1 DEF FilledText, TargetFilled, Keeps, Stays
  <2>2. CASE type = "graphql"
    <3>1. {"name", "response_field"} = DOMAIN [name |-> type, response_field |-> "data"]
      OBVIOUS
    <3>2. d = given([name |-> type, response_field |-> "data"]) /\ type \notin Rules!OpenAIFamily
      BY <1>8, <2>2 DEF Rules!OpenAIFamily
    <3>3. FilledText(common, d, s, {"name", "response_field"}) /\ Keeps(c, d, {s}) /\ Rules!TargetType(d, s) = type
      BY <1>9, <3>1, <3>2
    <3> QED BY <3>2, <3>3, <1>6, <1>7, <2>2 DEF FilledText, TargetFilled, Keeps, Stays
  <2>3. CASE type \in {"cli", "grpc", "mcp"}
    <3>1. {"name"} = DOMAIN [name |-> type]
      OBVIOUS
    <3>2. d = given([name |-> type]) /\ type \notin Rules!OpenAIFamily
      BY <1>8, <2>3 DEF Rules!OpenAIFamily
    <3>3. FilledText(common, d, s, {"name"}) /\ Keeps(c, d, {s}) /\ Rules!TargetType(d, s) = type
      BY <1>9, <3>1, <3>2
    <3> QED BY <3>2, <3>3, <1>6, <1>7, <2>3 DEF FilledText, TargetFilled, Keeps, Stays
  <2>4. CASE type = "anthropic"
    <3> DEFINE named == given([name |-> type, base_url |-> "anthropic"])
    <3>1. {"name", "base_url"} = DOMAIN [name |-> type, base_url |-> "anthropic"]
      OBVIOUS
    <3>2. d = Rules!FillNum(named, s, [max_tokens |-> 1024]) /\ type \notin Rules!OpenAIFamily
      BY <1>8, <2>4 DEF Rules!OpenAIFamily
    <3>3. FilledText(common, named, s, {"name", "base_url"}) /\ Keeps(c, named, {s}) /\ Rules!TargetType(named, s) = type
      BY <1>9, <3>1
    <3> HIDE DEF named
    <3>4. FilledNum(named, d, s, {"max_tokens"})
      <4>1. {"max_tokens"} = DOMAIN [max_tokens |-> 1024]
        OBVIOUS
      <4>2. ConfigShape(named)
        BY <3>3 DEF FilledText
      <4> QED BY <3>2, <4>1, <4>2, FillNumKeeps
    <3>5. Keeps(c, d, {s})
      <4>1. Keeps(c, d, {s} \cup {s})
        BY <3>3, <3>4, KeepsOn DEF FilledNum
      <4>2. {s} \cup {s} = {s}
        OBVIOUS
      <4> QED BY <4>1, <4>2
    <3>6. Rules!TargetType(d, s) = type
      <4>1. Rules!Text(d, <<s, "type">>) = Rules!Text(named, <<s, "type">>)
        BY <3>4 DEF FilledNum, Rules!Text
      <4> QED BY <3>3, <4>1 DEF Rules!TargetType
    <3>7. <<s, "method">> \in DOMAIN d.text /\ <<s, "timeout_ms">> \in DOMAIN d.num
          /\ (~e => <<s, "type">> \in DOMAIN d.text) /\ Has(d.text, s, {"name", "base_url"}) /\ Has(d.num, s, {"max_tokens"})
      BY <3>3, <3>4, <1>7 DEF FilledText, FilledNum, Keeps, Stays
    <3>8. TargetFilled(d, s)
      BY <3>6, <3>7, <3>2, <2>4 DEF TargetFilled
    <3>9. ASSUME TargetFilled(c, s), ~e => <<s, "type">> \in DOMAIN c.text PROVE d = c
      BY <3>9, <3>3, <3>4, <1>6, <2>4 DEF TargetFilled, FilledText, FilledNum
    <3> QED BY <3>3, <3>4, <3>5, <3>7, <3>8, <3>9, <1>7 DEF FilledText, FilledNum
  <2>5. CASE type \notin Rules!OpenAIFamily \cup {"anthropic", "graphql", "cli", "grpc", "mcp"}
    <3>1. d = common
      BY <1>8, <2>5
    <3> QED BY <3>1, <1>6, <1>7, <2>5 DEF TargetFilled
  <2> QED BY <2>1, <2>2, <2>3, <2>4, <2>5
<1> QED BY <1>10 DEF d

\* A filled target is one after stages that fill other sections.
LEMMA TargetStays ==
  ASSUME NEW c, NEW d, NEW S, Stays(c, d, S), NEW s, s \notin S, s # "judge", TargetFilled(c, s)
  PROVE  TargetFilled(d, s)
<1>1. Rules!TargetType(d, s) = Rules!TargetType(c, s)
  <2>1. Rules!Text(d, <<s, "type">>) = Rules!Text(c, <<s, "type">>)
    BY StaysText
  <2> QED BY <2>1 DEF Rules!TargetType
<1>2. \A n : <<s, n>> \in DOMAIN c.num => <<s, n>> \in DOMAIN d.num
  <2> TAKE n
  <2>1. <<s, n>> \notin Replaced
    BY DEF Replaced
  <2> QED BY <2>1 DEF Stays
<1>3. \A n : <<s, n>> \in DOMAIN c.text => <<s, n>> \in DOMAIN d.text
  BY DEF Stays
<1> QED BY <1>1, <1>2, <1>3 DEF TargetFilled, Has

\* And so are the names that a section gives.
LEMMA HasStays ==
  ASSUME NEW c, NEW d, NEW S, Stays(c, d, S), NEW s, s # "judge", NEW names
  PROVE  /\ Has(c.num, s, names) => Has(d.num, s, names)
         /\ Has(c.text, s, names) => Has(d.text, s, names)
<1>1. \A n : <<s, n>> \notin Replaced
  BY DEF Replaced
<1> QED BY <1>1 DEF Stays, Has

LoadFields == {"virtual_users", "requests_per_user", "p95_latency_ms"}
ChaosFields == {"timeout_scale", "noise_bytes", "max_error_rate_pct"}
DriftFields == {"iterations", "max_normalized_drift", "max_semantic_drift", "max_snapshot_drift",
                "max_semantic_snapshot_drift", "min_consistency_score", "min_semantic_consistency_score", "confidence_level"}
TokenFields == {"max_input_tokens", "max_output_tokens", "max_total_tokens", "max_output_input_ratio",
                "max_prompt_duplication_ratio", "max_response_duplication_ratio", "suggested_max_output_tokens"}

\* Sections that are on have their numbers.
GenerationFilled(c) ==
  "generation" \in c.on => /\ TargetFilled(c, "generator") /\ Has(c.text, "generation", {"output_file"})
                          /\ Has(c.num, "generation", {"count"})
SectionFilled(c, s, names) == s \in c.on => Has(c.num, s, names)

\* What a stage of the defaults does that only fills in sections S.
FilledIn(c, d, S) ==
  /\ ConfigShape(d) /\ Keeps(c, d, S)
  /\ d.on = c.on /\ d.path = c.path /\ d.sinks = c.sinks

\* applyTargetDefaults of a provider, whose type may stay empty.
LEMMA TargetFillsIn ==
  ASSUME NEW c, ConfigShape(c), NEW s
  PROVE  /\ FilledIn(c, Rules!applyTargetDefaults(c, s, TRUE), {s}) /\ TargetFilled(Rules!applyTargetDefaults(c, s, TRUE), s)
         /\ TargetFilled(c, s) => Rules!applyTargetDefaults(c, s, TRUE) = c
<1> DEFINE d == Rules!applyTargetDefaults(c, s, TRUE)
<1>1. /\ ConfigShape(d) /\ Keeps(c, d, {s}) /\ d.on = c.on /\ d.path = c.path /\ d.sinks = c.sinks
      /\ TargetFilled(d, s) /\ (TargetFilled(c, s) => d = c)
  BY TargetIsFilled
<1> HIDE DEF d
<1>2. FilledIn(c, d, {s}) /\ TargetFilled(d, s) /\ (TargetFilled(c, s) => d = c)
  BY <1>1 DEF FilledIn
<1> QED BY <1>2 DEF d

\* One such stage after another.
LEMMA FilledInOn ==
  ASSUME NEW c, NEW d, NEW e, NEW S, NEW T, FilledIn(c, d, S), FilledIn(d, e, T)
  PROVE  FilledIn(c, e, S \cup T)
BY KeepsOn DEF FilledIn

\* applyScenarioGenerationDefaults.
LEMMA GenerationIsFilled ==
  ASSUME NEW c, ConfigShape(c)
  PROVE  /\ FilledIn(c, Rules!applyScenarioGenerationDefaults(c), {"generator", "generation"})
         /\ GenerationFilled(Rules!applyScenarioGenerationDefaults(c))
         /\ GenerationFilled(c) => Rules!applyScenarioGenerationDefaults(c) = c
<1> DEFINE d == Rules!applyScenarioGenerationDefaults(c)
           provider == Rules!applyTargetDefaults(c, "generator", TRUE)
           output == Rules!FillText(provider, "generation", [output_file |-> "dataset"])
<1>1. ASSUME "generation" \notin c.on
      PROVE  FilledIn(c, d, {"generator", "generation"}) /\ GenerationFilled(d) /\ d = c
  BY <1>1, KeepsSelf DEF Rules!applyScenarioGenerationDefaults, FilledIn, GenerationFilled
<1>2. CASE "generation" \in c.on
  <2>1. d = Rules!FillNum(output, "generation", [count |-> 12])
    BY <1>2 DEF Rules!applyScenarioGenerationDefaults
  <2>2. /\ FilledIn(c, provider, {"generator"}) /\ TargetFilled(provider, "generator")
        /\ TargetFilled(c, "generator") => provider = c
    BY TargetIsFilled DEF FilledIn
  <2> HIDE DEF provider
  <2>3. FilledText(provider, output, "generation", {"output_file"})
    <3>1. {"output_file"} = DOMAIN [output_file |-> "dataset"]
      OBVIOUS
    <3> QED BY <3>1, <2>2, FillTextKeeps DEF FilledIn
  <2> HIDE DEF output
  <2>4. FilledNum(output, d, "generation", {"count"})
    <3>1. {"count"} = DOMAIN [count |-> 12]
      OBVIOUS
    <3>2. ConfigShape(output)
      BY <2>3 DEF FilledText
    <3> QED BY <2>1, <3>1, <3>2, FillNumKeeps
  <2> HIDE DEF d
  <2>5. FilledIn(c, d, {"generator", "generation"})
    <3>1. FilledIn(provider, output, {"generation"}) /\ FilledIn(output, d, {"generation"})
      BY <2>3, <2>4 DEF FilledText, FilledNum, FilledIn
    <3>2. FilledIn(c, output, {"generator"} \cup {"generation"})
      BY <2>2, <3>1, FilledInOn
    <3>3. FilledIn(c, d, {"generator"} \cup {"generation"} \cup {"generation"})
      BY <3>1, <3>2, FilledInOn
    <3>4. {"generator"} \cup {"generation"} \cup {"generation"} = {"generator", "generation"}
      OBVIOUS
    <3> QED BY <3>3, <3>4
  <2>6. GenerationFilled(d)
    <3>1. Keeps(provider, d, {"generation"} \cup {"generation"})
      BY <2>3, <2>4, KeepsOn DEF FilledText, FilledNum
    <3>2. Stays(provider, d, {"generation"})
      <4>1. {"generation"} \cup {"generation"} = {"generation"}
        OBVIOUS
      <4> QED BY <3>1, <4>1 DEF Keeps
    <3>3. TargetFilled(d, "generator")
      BY <3>2, <2>2, TargetStays
    <3> QED BY <3>3, <2>3, <2>4 DEF GenerationFilled, FilledText, FilledNum
  <2>7. ASSUME GenerationFilled(c) PROVE d = c
    BY <1>2, <2>2, <2>3, <2>4, <2>7 DEF GenerationFilled, FilledText, FilledNum
  <2> QED BY <2>5, <2>6, <2>7 DEF d
<1> QED BY <1>1, <1>2

\* A stage that fills the numbers of a section that is on.
LEMMA SectionIsFilled ==
  ASSUME NEW c, ConfigShape(c), NEW s, NEW v, NEW names, names = DOMAIN v,
         NEW d, d = IF s \in c.on THEN Rules!FillNum(c, s, v) ELSE c
  PROVE  FilledIn(c, d, {s}) /\ SectionFilled(d, s, names) /\ (SectionFilled(c, s, names) => d = c)
<1>1. CASE s \in c.on
  <2>1. FilledNum(c, d, s, names)
    BY <1>1, FillNumKeeps
  <2> QED BY <1>1, <2>1 DEF FilledNum, FilledIn, SectionFilled
<1>2. CASE s \notin c.on
  BY <1>2, KeepsSelf DEF FilledIn, SectionFilled
<1> QED BY <1>1, <1>2

\* applyLoadDefaults.
LEMMA LoadIsFilled ==
  ASSUME NEW c, ConfigShape(c)
  PROVE  /\ FilledIn(c, Rules!applyLoadDefaults(c), {"load"}) /\ SectionFilled(Rules!applyLoadDefaults(c), "load", LoadFields)
         /\ SectionFilled(c, "load", LoadFields) => Rules!applyLoadDefaults(c) = c
<1> DEFINE v == [virtual_users |-> 4, requests_per_user |-> 5, p95_latency_ms |-> 2500]
<1>1. LoadFields = DOMAIN v /\ Rules!applyLoadDefaults(c) = IF "load" \in c.on THEN Rules!FillNum(c, "load", v) ELSE c
  BY DEF LoadFields, Rules!applyLoadDefaults
<1> HIDE DEF v
<1> QED BY <1>1, SectionIsFilled

\* applyChaosDefaults.
LEMMA ChaosIsFilled ==
  ASSUME NEW c, ConfigShape(c)
  PROVE  /\ FilledIn(c, Rules!applyChaosDefaults(c), {"chaos"}) /\ SectionFilled(Rules!applyChaosDefaults(c), "chaos", ChaosFields)
         /\ SectionFilled(c, "chaos", ChaosFields) => Rules!applyChaosDefaults(c) = c
<1> DEFINE v == [timeout_scale |-> 400, noise_bytes |-> 512, max_error_rate_pct |-> 35]
<1>1. ChaosFields = DOMAIN v /\ Rules!applyChaosDefaults(c) = IF "chaos" \in c.on THEN Rules!FillNum(c, "chaos", v) ELSE c
  BY DEF ChaosFields, Rules!applyChaosDefaults
<1> HIDE DEF v
<1> QED BY <1>1, SectionIsFilled

\* applyTokenOptimizationDefaults.
LEMMA TokensAreFilled ==
  ASSUME NEW c, ConfigShape(c)
  PROVE  /\ FilledIn(c, Rules!applyTokenOptimizationDefaults(c), {"tokens"})
         /\ SectionFilled(Rules!applyTokenOptimizationDefaults(c), "tokens", TokenFields)
         /\ SectionFilled(c, "tokens", TokenFields) => Rules!applyTokenOptimizationDefaults(c) = c
<1> DEFINE v == [max_input_tokens |-> 700, max_output_tokens |-> 350, max_total_tokens |-> 900,
                 max_output_input_ratio |-> 1400, max_prompt_duplication_ratio |-> 180,
                 max_response_duplication_ratio |-> 120, suggested_max_output_tokens |-> 180]
<1>1. TokenFields = DOMAIN v
  BY DEF TokenFields
<1>2. Rules!applyTokenOptimizationDefaults(c) = IF "tokens" \in c.on THEN Rules!FillNum(c, "tokens", v) ELSE c
  BY DEF Rules!applyTokenOptimizationDefaults
<1> HIDE DEF v
<1> QED BY <1>1, <1>2, SectionIsFilled

\* The budgets derived from others are filled like the rest: what they are
\* derived from no longer changes.
LEMMA DriftIsFilled ==
  ASSUME NEW c, ConfigShape(c)
  PROVE  /\ FilledIn(c, Rules!applyDriftDefaults(c), {"drift"}) /\ SectionFilled(Rules!applyDriftDefaults(c), "drift", DriftFields)
         /\ SectionFilled(c, "drift", DriftFields) => Rules!applyDriftDefaults(c) = c
<1> DEFINE d == Rules!applyDriftDefaults(c)
           budgets == [iterations |-> 3, max_normalized_drift |-> 300, max_semantic_drift |-> 250]
           budgeted == Rules!FillNum(c, "drift", budgets)
           derived == [max_snapshot_drift |-> Rules!Num(budgeted, <<"drift", "max_normalized_drift">>),
                       max_semantic_snapshot_drift |-> Rules!Num(budgeted, <<"drift", "max_semantic_drift">>),
                       min_consistency_score |-> 700, min_semantic_consistency_score |-> 750, confidence_level |-> 950]
           early == {"iterations", "max_normalized_drift", "max_semantic_drift"}
           late == {"max_snapshot_drift", "max_semantic_snapshot_drift", "min_consistency_score",
                    "min_semantic_consistency_score", "confidence_level"}
<1>1. early = DOMAIN budgets /\ late = DOMAIN derived /\ DriftFields = early \cup late
  BY DEF DriftFields
<1>2. ASSUME "drift" \notin c.on PROVE FilledIn(c, d, {"drift"}) /\ SectionFilled(d, "drift", DriftFields) /\ d = c
  BY <1>2, KeepsSelf DEF Rules!applyDriftDefaults, FilledIn, SectionFilled
<1>3. CASE "drift" \in c.on
  <2>1. d = Rules!FillNum(budgeted, "drift", derived)
    BY <1>3 DEF Rules!applyDriftDefaults
  <2> HIDE DEF derived, budgets, early, late, d
  <2>2. FilledNum(c, budgeted, "drift", early)
    BY <1>1, FillNumKeeps
  <2> HIDE DEF budgeted
  <2>3. FilledNum(budgeted, d, "drift", late)
    <3>1. ConfigShape(budgeted)
      BY <2>2 DEF FilledNum
    <3> QED BY <1>1, <2>1, <3>1, FillNumKeeps
  <2>4. FilledIn(c, d, {"drift"} \cup {"drift"})
    BY <2>2, <2>3, FilledInOn DEF FilledNum, FilledIn
  <2>5. {"drift"} \cup {"drift"} = {"drift"}
    OBVIOUS
  <2>6. SectionFilled(d, "drift", DriftFields)
    BY <1>1, <2>2, <2>3 DEF SectionFilled, FilledNum, Has, Keeps
  <2>7. ASSUME SectionFilled(c, "drift", DriftFields) PROVE d = c
    BY <1>1, <1>3, <2>2, <2>3, <2>7 DEF SectionFilled, FilledNum, Has
  <2> QED BY <2>4, <2>5, <2>6, <2>7 DEF d
<1> QED BY <1>2, <1>3

(* The judge.                                                                *)

\* No scale and no number of samples that the judge replaces.
Usable(c) ==
  /\ <<"judge", "scale">> \in DOMAIN c.num => ~(c.num[<<"judge", "scale">>] <= 1)
  /\ <<"judge", "samples">> \in DOMAIN c.num => ~(c.num[<<"judge", "samples">>] <= 0)

ScaleFields == {"scale", "min_score", "samples", "confidence_level"}

\* The judge has its scale and its providers have theirs.
JudgeFilled(c) ==
  "judge" \in c.on =>
    /\ TargetFilled(c, "provider") /\ Has(c.num, "judge", ScaleFields) /\ Usable(c)
    /\ Rules!Num(c, <<"judge", "samples">>) > 1 => Has(c.num, "judge", {"max_disagreement"})
    /\ Rules!IsPairwise(c) => TargetFilled(c, "baseline") /\ Has(c.num, "judge", {"min_win_rate"})

\* What the judge's defaults make of a configuration, which may have lost the
\* scale and the samples it had.
JudgedIn(c, d, S) ==
  /\ ConfigShape(d) /\ Stays(c, d, S)
  /\ d.on = c.on /\ d.path = c.path /\ d.sinks = c.sinks

\* And still has after stages that fill other sections.
LEMMA JudgeStays ==
  ASSUME NEW c, NEW d, NEW S, Keeps(c, d, S), S \cap {"judge", "provider", "baseline"} = {},
         c.on \ {"gates"} = d.on \ {"gates"}, JudgeFilled(c)
  PROVE  JudgeFilled(d)
<1> SUFFICES ASSUME "judge" \in d.on PROVE JudgeFilled(d)
  BY DEF JudgeFilled
<1>1. "judge" \in c.on /\ Stays(c, d, S)
  BY DEF Keeps
<1>2. Rules!IsPairwise(d) = Rules!IsPairwise(c)
  BY <1>1, StaysText DEF Rules!IsPairwise
<1>3. TargetFilled(d, "provider") /\ (Rules!IsPairwise(d) => TargetFilled(d, "baseline"))
  <2>1. TargetFilled(d, "provider")
    BY <1>1, TargetStays DEF JudgeFilled
  <2>2. ASSUME Rules!IsPairwise(d) PROVE TargetFilled(d, "baseline")
    BY <1>1, <1>2, <2>2, TargetStays DEF JudgeFilled
  <2> QED BY <2>1, <2>2
<1>4. \A n : <<"judge", n>> \in DOMAIN c.num =>
        <<"judge", n>> \in DOMAIN d.num /\ d.num[<<"judge", n>>] = c.num[<<"judge", n>>]
  BY DEF Keeps
<1>5. Has(c.num, "judge", ScaleFields) /\ Usable(c)
  BY <1>1 DEF JudgeFilled
<1>6. Has(d.num, "judge", ScaleFields) /\ Usable(d) /\ Rules!Num(d, <<"judge", "samples">>) = Rules!Num(c, <<"judge", "samples">>)
  BY <1>4, <1>5 DEF Has, ScaleFields, Usable, Rules!Num
<1> QED BY <1>1, <1>2, <1>3, <1>4, <1>6 DEF JudgeFilled, Has

\* applyLLMJudgeDefaults, its five steps one after another.
LEMMA JudgeIsFilled ==
  ASSUME NEW c, ConfigShape(c)
  PROVE  /\ JudgedIn(c, Rules!applyLLMJudgeDefaults(c), {"judge", "provider", "baseline"})
         /\ JudgeFilled(Rules!applyLLMJudgeDefaults(c))
         /\ JudgeFilled(c) => Rules!applyLLMJudgeDefaults(c) = c
<1> DEFINE d == Rules!applyLLMJudgeDefaults(c)
           S == {"judge", "provider", "baseline"}
<1>1. ASSUME "judge" \notin c.on
      PROVE  JudgedIn(c, d, S) /\ JudgeFilled(d) /\ d = c
  BY <1>1, KeepsSelf DEF Rules!applyLLMJudgeDefaults, JudgedIn, JudgeFilled, Keeps
<1>2. CASE "judge" \in c.on
  <2> DEFINE unusable == {x \in DOMAIN c.num : \/ x = <<"judge", "scale">> /\ c.num[x] <= 1
                                               \/ x = <<"judge", "samples">> /\ c.num[x] <= 0}
             kept == [c EXCEPT !.num = [x \in DOMAIN c.num \ unusable |-> c.num[x]]]
             provided == Rules!applyTargetDefaults(kept, "provider", TRUE)
             scales == [scale |-> 5, min_score |-> 600, samples |-> 1, confidence_level |-> 950]
             scaled == Rules!FillNum(provided, "judge", scales)
             repeated == Rules!FillNum(scaled, "judge", [max_disagreement |-> 400])
             steady == IF Rules!Num(scaled, <<"judge", "samples">>) > 1 THEN repeated ELSE scaled
             based == Rules!applyTargetDefaults(steady, "baseline", TRUE)
             compared == Rules!FillNum(based, "judge", [min_win_rate |-> 500])
  <2>1. d = IF Rules!IsPairwise(steady) THEN compared ELSE steady
    BY <1>2 DEF Rules!applyLLMJudgeDefaults
  <2> HIDE DEF d
  <2>2. JudgedIn(c, kept, {}) /\ Usable(kept) /\ (Usable(c) => kept = c)
    <3>1. /\ kept.num = [x \in DOMAIN c.num \ unusable |-> c.num[x]] /\ kept.text = c.text /\ kept.on = c.on
          /\ kept.path = c.path /\ kept.sinks = c.sinks /\ kept.summaries = c.summaries /\ kept.scenarios = c.scenarios
          /\ kept = [on |-> kept.on, num |-> kept.num, text |-> kept.text, path |-> kept.path, sinks |-> kept.sinks,
                     summaries |-> kept.summaries, scenarios |-> kept.scenarios]
      BY DEF ConfigShape
    <3> HIDE DEF kept
    <3>2. ConfigShape(kept)
      BY <3>1 DEF ConfigShape, Tabular
    <3>3. Stays(c, kept, {})
      BY <3>1 DEF Stays, Replaced
    <3>4. Usable(kept)
      BY <3>1 DEF Usable
    <3>5. ASSUME Usable(c) PROVE kept = c
      <4>1. unusable = {}
        BY <3>5 DEF Usable
      <4>2. kept.num = c.num
        BY <3>1, <4>1 DEF ConfigShape, Tabular
      <4> QED BY <3>1, <4>2 DEF ConfigShape
    <3> QED BY <3>1, <3>2, <3>3, <3>4, <3>5 DEF JudgedIn
  <2> HIDE DEF kept
  <2>3. /\ FilledIn(kept, provided, {"provider"}) /\ TargetFilled(provided, "provider")
        /\ TargetFilled(kept, "provider") => provided = kept
    <3>1. ConfigShape(kept)
      BY <2>2 DEF JudgedIn
    <3> QED BY <3>1, TargetFillsIn
  <2> HIDE DEF provided
  <2>4. FilledNum(provided, scaled, "judge", ScaleFields)
    <3>1. ScaleFields = DOMAIN scales
      BY DEF ScaleFields
    <3> HIDE DEF scales
    <3> QED BY <2>3, <3>1, FillNumKeeps DEF FilledIn
  <2>5. Usable(scaled)
    <3>1. scaled.num = Rules!Over(provided.num, Rules!Table("judge", scales))
      BY <2>3 DEF Rules!FillNum, FilledIn, ConfigShape
    <3>2. /\ DOMAIN Rules!Table("judge", scales) = {<<"judge", n>> : n \in {"scale", "min_score", "samples", "confidence_level"}}
          /\ Rules!Table("judge", scales)[<<"judge", "scale">>] = 5 /\ Rules!Table("judge", scales)[<<"judge", "samples">>] = 1
      BY DEF Rules!Table
    <3> DEFINE table == Rules!Table("judge", scales)
               before == provided.num
    <3>3. Usable(provided)
      <4>1. \A x \in DOMAIN provided.num : x[1] = "judge" => x \in DOMAIN kept.num /\ provided.num[x] = kept.num[x]
        BY <2>3 DEF FilledIn, Keeps, Stays
      <4>2. \A n : <<"judge", n>> \in DOMAIN provided.num =>
              <<"judge", n>> \in DOMAIN kept.num /\ provided.num[<<"judge", n>>] = kept.num[<<"judge", n>>]
        BY <4>1
      <4> QED BY <2>2, <4>2 DEF Usable
    <3>4. \A x \in DOMAIN scaled.num : scaled.num[x] = IF x \in DOMAIN before THEN before[x] ELSE table[x]
      BY <3>1 DEF Rules!Over
    <3> HIDE DEF table, scaled
    <3> QED BY <3>2, <3>3, <3>4 DEF Usable, table
  <2> HIDE DEF scaled
  <2>6. FilledNum(scaled, repeated, "judge", {"max_disagreement"})
    <3>1. {"max_disagreement"} = DOMAIN [max_disagreement |-> 400]
      OBVIOUS
    <3>2. ConfigShape(scaled)
      BY <2>4 DEF FilledNum
    <3> QED BY <3>1, <3>2, FillNumKeeps
  <2> HIDE DEF repeated
  <2>7. /\ FilledIn(scaled, steady, {"judge"})
        /\ Rules!Num(scaled, <<"judge", "samples">>) > 1 => Has(steady.num, "judge", {"max_disagreement"})
        /\ (Rules!Num(scaled, <<"judge", "samples">>) > 1 => Has(scaled.num, "judge", {"max_disagreement"})) => steady = scaled
    BY <2>4, <2>6, KeepsSelf DEF FilledNum, FilledIn
  <2> HIDE DEF steady
  <2>8. /\ FilledIn(steady, based, {"baseline"}) /\ TargetFilled(based, "baseline")
        /\ TargetFilled(steady, "baseline") => based = steady
    <3>1. ConfigShape(steady)
      BY <2>7 DEF FilledIn
    <3> QED BY <3>1, TargetFillsIn
  <2> HIDE DEF based
  <2>9. FilledNum(based, compared, "judge", {"min_win_rate"})
    <3>1. {"min_win_rate"} = DOMAIN [min_win_rate |-> 500]
      OBVIOUS
    <3>2. ConfigShape(based)
      BY <2>8 DEF FilledIn
    <3> QED BY <3>1, <3>2, FillNumKeeps
  <2> HIDE DEF compared
  <2>10. FilledIn(steady, d, {"baseline", "judge"})
    <3>1. FilledIn(steady, compared, {"baseline"} \cup {"judge"})
      BY <2>8, <2>9, FilledInOn DEF FilledNum, FilledIn
    <3>2. {"baseline"} \cup {"judge"} = {"baseline", "judge"}
      OBVIOUS
    <3>3. FilledIn(steady, steady, {"baseline", "judge"})
      BY <2>7, KeepsSelf DEF FilledIn
    <3> QED BY <2>1, <3>1, <3>2, <3>3
  <2>11. FilledIn(scaled, d, {"baseline", "judge"}) /\ FilledIn(provided, d, {"baseline", "judge"})
    <3>1. FilledIn(scaled, d, {"judge"} \cup {"baseline", "judge"})
      BY <2>7, <2>10, FilledInOn
    <3>2. FilledIn(provided, d, {"judge"} \cup ({"judge"} \cup {"baseline", "judge"}))
      BY <2>4, <3>1, FilledInOn DEF FilledNum, FilledIn
    <3>3. /\ {"judge"} \cup {"baseline", "judge"} = {"baseline", "judge"}
          /\ {"judge"} \cup ({"judge"} \cup {"baseline", "judge"}) = {"baseline", "judge"}
      OBVIOUS
    <3> QED BY <3>1, <3>2, <3>3
  <2>12. JudgedIn(c, d, S)
    <3>1. FilledIn(kept, d, {"provider"} \cup {"baseline", "judge"})
      BY <2>3, <2>11, FilledInOn
    <3>2. Stays(c, d, {} \cup ({"provider"} \cup {"baseline", "judge"}))
      BY <2>2, <3>1, StaysOn DEF JudgedIn, FilledIn, Keeps
    <3>3. {} \cup ({"provider"} \cup {"baseline", "judge"}) = S
      OBVIOUS
    <3> QED BY <2>2, <3>1, <3>2, <3>3 DEF JudgedIn, FilledIn
  <2>13. Rules!IsPairwise(d) = Rules!IsPairwise(steady)
    <3>1. d.text = steady.text \/ d.text = compared.text
      BY <2>1
    <3>2. compared.text = based.text
      BY <2>9 DEF FilledNum
    <3>3. Rules!Text(based, <<"judge", "mode">>) = Rules!Text(steady, <<"judge", "mode">>)
      BY <2>8, StaysText DEF FilledIn, Keeps
    <3> QED BY <3>1, <3>2, <3>3 DEF Rules!IsPairwise, Rules!Text
  <2>14. JudgeFilled(d)
    <3>1. TargetFilled(d, "provider")
      BY <2>3, <2>11, TargetStays DEF FilledIn, Keeps
    <3>2. Keeps(scaled, d, {"baseline", "judge"}) /\ Keeps(steady, d, {"baseline", "judge"})
      BY <2>10, <2>11 DEF FilledIn
    <3>3. Has(scaled.num, "judge", ScaleFields)
      BY <2>4 DEF FilledNum
    <3>4. Has(d.num, "judge", ScaleFields) /\ Usable(d) /\ Rules!Num(d, <<"judge", "samples">>) = Rules!Num(scaled, <<"judge", "samples">>)
      BY <2>5, <3>2, <3>3 DEF Has, ScaleFields, Usable, Rules!Num, Keeps
    <3>5. Rules!Num(d, <<"judge", "samples">>) > 1 => Has(d.num, "judge", {"max_disagreement"})
      BY <2>7, <3>2, <3>4 DEF Has, Keeps
    <3>6. ASSUME Rules!IsPairwise(d) PROVE TargetFilled(d, "baseline") /\ Has(d.num, "judge", {"min_win_rate"})
      <4>1. d = compared
        BY <2>1, <2>13, <3>6
      <4>2. Has(d.num, "judge", {"min_win_rate"}) /\ Stays(based, d, {"judge"})
        BY <2>9, <4>1 DEF FilledNum, Keeps
      <4> QED BY <2>8, <4>2, TargetStays
    <3> QED BY <3>1, <3>4, <3>5, <3>6 DEF JudgeFilled
  <2>15. ASSUME JudgeFilled(c) PROVE d = c
    <3>1. kept = c
      BY <1>2, <2>2, <2>15 DEF JudgeFilled
    <3>2. provided = c
      BY <1>2, <2>3, <2>15, <3>1 DEF JudgeFilled
    <3>3. scaled = c
      BY <1>2, <2>4, <2>15, <3>2 DEF JudgeFilled, FilledNum
    <3>4. steady = c
      BY <1>2, <2>7, <2>15, <3>3 DEF JudgeFilled
    <3> QED BY <1>2, <2>1, <2>8, <2>9, <2>15, <3>4 DEF JudgeFilled, FilledNum
  <2> QED BY <2>12, <2>14, <2>15 DEF d
<1> QED BY <1>1, <1>2

ModerateFields == {"required_window", "max_failed_suites_delta", "max_failed_cases_delta", "max_duration_increase_pct",
                   "max_semantic_drift_delta", "max_baseline_semantic_drift_delta"}

(* Reports, gates, attestation and sinks.                                    *)

\* The reports have their paths and the gates their window.
ReportingFilled(c) ==
  LET preset == Rules!Text(c, <<"gates", "preset">>)
  IN  /\ "trend" \in DOMAIN c.path => Has(c.num, "reporting", {"trend_limit"}) /\ "replay" \in DOMAIN c.path
      /\ preset \in {"strict", "moderate"} => Has(c.num, "gates", ModerateFields) /\ "gates" \in c.on
      /\ preset = "exploratory" => Has(c.num, "gates", {"required_window", "max_duration_increase_pct"}) /\ "gates" \notin c.on
      /\ "gates" \in c.on => Has(c.num, "gates", {"required_window"})

\* The attestation has its file and its key.
AttestationFilled(c) ==
  "attestation" \in c.on => Has(c.text, "attestation", {"key_env"}) /\ "attestation" \in DOMAIN c.path

\* Every sink has a timeout.
SinksFilled(c) == \A k \in c.sinks : k.timeout # 0

\* What the later stages change: also paths, and whether the gates block.
ReportedIn(c, d, S) == ConfigShape(d) /\ Keeps(c, d, S) /\ d.sinks = c.sinks

\* Paths that are not given.
WithPath(c, v) == [c EXCEPT !.path = Rules!Over(c.path, v)]

\* Filling paths.
LEMMA PathFills ==
  ASSUME NEW c, ConfigShape(c), NEW p \in {"replay", "attestation"}, NEW v, DOMAIN v = {p},
         NEW d, d = WithPath(c, v)
  PROVE  /\ ReportedIn(c, d, {}) /\ d.on = c.on /\ d.num = c.num /\ d.text = c.text
         /\ DOMAIN d.path = DOMAIN c.path \cup {p}
         /\ p \in DOMAIN c.path => d = c
<1>1. /\ d.path = Rules!Over(c.path, v) /\ d.num = c.num /\ d.on = c.on /\ d.text = c.text /\ d.sinks = c.sinks
      /\ d.summaries = c.summaries /\ d.scenarios = c.scenarios
      /\ d = [on |-> d.on, num |-> d.num, text |-> d.text, path |-> d.path, sinks |-> d.sinks,
              summaries |-> d.summaries, scenarios |-> d.scenarios]
  BY DEF ConfigShape, WithPath
<1> DEFINE h == c.path
<1>2. /\ DOMAIN Rules!Over(h, v) = DOMAIN h \cup DOMAIN v /\ Tabular(Rules!Over(h, v))
      /\ \A x \in DOMAIN h : Rules!Over(h, v)[x] = h[x]
      /\ Tabular(h) /\ DOMAIN v \subseteq DOMAIN h => Rules!Over(h, v) = h
  <2> HIDE DEF h
  <2> QED BY OverHas
<1>3. ConfigShape(d)
  BY <1>1, <1>2 DEF ConfigShape
<1>4. Keeps(c, d, {})
  BY <1>1, <1>2 DEF Keeps, Stays
<1>5. ASSUME p \in DOMAIN c.path PROVE d = c
  <2>1. d.path = c.path
    BY <1>1, <1>2, <1>5 DEF ConfigShape
  <2> QED BY <1>1, <2>1 DEF ConfigShape
<1> QED BY <1>1, <1>2, <1>3, <1>4, <1>5 DEF ReportedIn

\* A preset switches the gates and nothing else.
LEMMA GatesSwitch ==
  ASSUME NEW c, ConfigShape(c), NEW on, on \ {"gates"} = c.on \ {"gates"}, NEW d, d = [c EXCEPT !.on = on]
  PROVE  /\ ReportedIn(c, d, {}) /\ d.on = on /\ d.num = c.num /\ d.text = c.text /\ d.path = c.path
         /\ on = c.on => d = c
BY DEF ConfigShape, ReportedIn, Keeps, Stays

\* One later stage after another.
LEMMA ReportedInOn ==
  ASSUME NEW c, NEW d, NEW e, NEW S, NEW T, ReportedIn(c, d, S), ReportedIn(d, e, T)
  PROVE  ReportedIn(c, e, S \cup T)
BY KeepsOn DEF ReportedIn

\* applyTrendGatePreset: a preset applied twice is applied once.
LEMMA PresetIsFilled ==
  ASSUME NEW c, ConfigShape(c)
  PROVE  LET d == Rules!applyTrendGatePreset(c)
             preset == Rules!Text(c, <<"gates", "preset">>)
         IN  /\ ReportedIn(c, d, {"gates"}) /\ d.text = c.text /\ d.path = c.path
             /\ preset \in {"strict", "moderate"} => Has(d.num, "gates", ModerateFields) /\ "gates" \in d.on
             /\ preset = "exploratory" =>
                  Has(d.num, "gates", {"required_window", "max_duration_increase_pct"}) /\ "gates" \notin d.on
             /\ ReportingFilled(c) => d = c
<1> DEFINE d == Rules!applyTrendGatePreset(c)
           preset == Rules!Text(c, <<"gates", "preset">>)
           blocking == [required_window |-> 2, max_failed_suites_delta |-> 0, max_failed_cases_delta |-> 0]
           strict == [max_duration_increase_pct |-> 15, max_semantic_drift_delta |-> 50,
                      max_baseline_semantic_drift_delta |-> 30]
           moderate == [max_duration_increase_pct |-> 25, max_semantic_drift_delta |-> 80,
                        max_baseline_semantic_drift_delta |-> 50]
           exploratory == [required_window |-> 2, max_duration_increase_pct |-> 50]
           filled(v) == Rules!FillNum(c, "gates", v)
           switched(v, on) == [filled(v) EXCEPT !.on = on]
<1>1. d = CASE preset = "strict" -> [filled(Rules!Over(blocking, strict)) EXCEPT !.on = @ \cup {"gates"}]
            [] preset = "moderate" -> [filled(Rules!Over(blocking, moderate)) EXCEPT !.on = @ \cup {"gates"}]
            [] preset = "exploratory" -> [filled(exploratory) EXCEPT !.on = @ \ {"gates"}]
            [] OTHER -> c
  BY DEF Rules!applyTrendGatePreset
<1>2. /\ ModerateFields = DOMAIN Rules!Over(blocking, strict) /\ ModerateFields = DOMAIN Rules!Over(blocking, moderate)
      /\ {"required_window", "max_duration_increase_pct"} = DOMAIN exploratory
  <2>1. /\ DOMAIN Rules!Over(blocking, strict) = DOMAIN blocking \cup DOMAIN strict
        /\ DOMAIN Rules!Over(blocking, moderate) = DOMAIN blocking \cup DOMAIN moderate
    <3> HIDE DEF blocking, strict, moderate
    <3> QED BY OverHas
  <2> QED BY <2>1 DEF ModerateFields
<1>3. ASSUME NEW v, NEW names, names = DOMAIN v, NEW on, on \ {"gates"} = c.on \ {"gates"},
             NEW e, e = switched(v, on)
      PROVE  /\ ReportedIn(c, e, {"gates"}) /\ e.text = c.text /\ e.path = c.path /\ e.on = on /\ Has(e.num, "gates", names)
             /\ Has(c.num, "gates", names) /\ on = c.on => e = c
  <2> DEFINE f == filled(v)
  <2>1. FilledNum(c, f, "gates", names)
    BY <1>3, FillNumKeeps
  <2> HIDE DEF f
  <2>2. /\ ReportedIn(f, e, {}) /\ e.on = on /\ e.num = f.num /\ e.text = f.text /\ e.path = f.path
        /\ on = f.on => e = f
    <3>1. e = [f EXCEPT !.on = on]
      BY <1>3 DEF f
    <3>2. ConfigShape(f) /\ on \ {"gates"} = f.on \ {"gates"}
      BY <2>1, <1>3 DEF FilledNum
    <3> QED BY <3>1, <3>2, GatesSwitch
  <2>3. ReportedIn(c, e, {"gates"} \cup {})
    BY <2>1, <2>2, ReportedInOn DEF FilledNum, ReportedIn
  <2>4. {"gates"} \cup {} = {"gates"}
    OBVIOUS
  <2> QED BY <2>1, <2>2, <2>3, <2>4 DEF FilledNum
<1>4. \A v : filled(v).on = c.on
  BY DEF Rules!FillNum, ConfigShape
<1>5. CASE preset = "strict"
  <2>1. d = [filled(Rules!Over(blocking, strict)) EXCEPT !.on = c.on \cup {"gates"}]
    BY <1>1, <1>4, <1>5
  <2>2. (c.on \cup {"gates"}) \ {"gates"} = c.on \ {"gates"}
    OBVIOUS
  <2> DEFINE v == Rules!Over(blocking, strict)
             on == c.on \cup {"gates"}
  <2>3. /\ ModerateFields = DOMAIN v
        /\ d = switched(v, on) /\ on \ {"gates"} = c.on \ {"gates"}
    BY <2>1, <2>2, <1>2
  <2>4. "gates" \in on
    OBVIOUS
  <2> HIDE DEF d, v, on, filled, switched
  <2>5. /\ ReportedIn(c, d, {"gates"}) /\ d.text = c.text /\ d.path = c.path /\ d.on = on
        /\ Has(d.num, "gates", ModerateFields)
        /\ Has(c.num, "gates", ModerateFields) /\ on = c.on => d = c
    BY <2>3, <1>3
  <2>6. ASSUME ReportingFilled(c) PROVE d = c
    <3>1. Has(c.num, "gates", ModerateFields) /\ "gates" \in c.on
      BY <2>6, <1>5 DEF ReportingFilled
    <3>2. on = c.on
      BY <3>1 DEF on
    <3> QED BY <2>5, <3>1, <3>2
  <2> QED BY <2>4, <2>5, <2>6, <1>5 DEF d
<1>6. CASE preset = "moderate"
  <2>1. d = [filled(Rules!Over(blocking, moderate)) EXCEPT !.on = c.on \cup {"gates"}]
    BY <1>1, <1>4, <1>6
  <2>2. (c.on \cup {"gates"}) \ {"gates"} = c.on \ {"gates"}
    OBVIOUS
  <2> DEFINE v == Rules!Over(blocking, moderate)
             on == c.on \cup {"gates"}
  <2>3. /\ ModerateFields = DOMAIN v
        /\ d = switched(v, on) /\ on \ {"gates"} = c.on \ {"gates"}
    BY <2>1, <2>2, <1>2
  <2>4. "gates" \in on
    OBVIOUS
  <2> HIDE DEF d, v, on, filled, switched
  <2>5. /\ ReportedIn(c, d, {"gates"}) /\ d.text = c.text /\ d.path = c.path /\ d.on = on
        /\ Has(d.num, "gates", ModerateFields)
        /\ Has(c.num, "gates", ModerateFields) /\ on = c.on => d = c
    BY <2>3, <1>3
  <2>6. ASSUME ReportingFilled(c) PROVE d = c
    <3>1. Has(c.num, "gates", ModerateFields) /\ "gates" \in c.on
      BY <2>6, <1>6 DEF ReportingFilled
    <3>2. on = c.on
      BY <3>1 DEF on
    <3> QED BY <2>5, <3>1, <3>2
  <2> QED BY <2>4, <2>5, <2>6, <1>6 DEF d
<1>7. CASE preset = "exploratory"
  <2>1. d = [filled(exploratory) EXCEPT !.on = c.on \ {"gates"}]
    BY <1>1, <1>4, <1>7
  <2>2. (c.on \ {"gates"}) \ {"gates"} = c.on \ {"gates"}
    OBVIOUS
  <2> DEFINE v == exploratory
             on == c.on \ {"gates"}
  <2>3. /\ {"required_window", "max_duration_increase_pct"} = DOMAIN v
        /\ d = switched(v, on) /\ on \ {"gates"} = c.on \ {"gates"}
    BY <2>1, <2>2, <1>2
  <2>4. "gates" \notin on
    OBVIOUS
  <2> HIDE DEF d, v, on, filled, switched
  <2>5. /\ ReportedIn(c, d, {"gates"}) /\ d.text = c.text /\ d.path = c.path /\ d.on = on
        /\ Has(d.num, "gates", {"required_window", "max_duration_increase_pct"})
        /\ Has(c.num, "gates", {"required_window", "max_duration_increase_pct"}) /\ on = c.on => d = c
    BY <2>3, <1>3
  <2>6. ASSUME ReportingFilled(c) PROVE d = c
    <3>1. Has(c.num, "gates", {"required_window", "max_duration_increase_pct"}) /\ "gates" \notin c.on
      BY <2>6, <1>7 DEF ReportingFilled
    <3>2. on = c.on
      BY <3>1 DEF on
    <3> QED BY <2>5, <3>1, <3>2
  <2> QED BY <2>4, <2>5, <2>6, <1>7 DEF d
<1>8. CASE preset \notin {"strict", "moderate", "exploratory"}
  <2>1. d = c
    BY <1>1, <1>8
  <2> QED BY <2>1, <1>8, KeepsSelf DEF ReportedIn
<1> QED BY <1>5, <1>6, <1>7, <1>8

\* applyReportingDefaults.
LEMMA ReportingIsFilled ==
  ASSUME NEW c, ConfigShape(c)
  PROVE  /\ ReportedIn(c, Rules!applyReportingDefaults(c), {"reporting", "gates"})
         /\ ReportingFilled(Rules!applyReportingDefaults(c))
         /\ ReportingFilled(c) => Rules!applyReportingDefaults(c) = c
<1> DEFINE d == Rules!applyReportingDefaults(c)
           limited == Rules!FillNum(c, "reporting", [trend_limit |-> 30])
           replay == [replay |-> Rules!deriveReplayArtifactPath(c.path["trend"])]
           pathed == WithPath(limited, replay)
           kept == IF "trend" \notin DOMAIN c.path THEN c ELSE pathed
           gated == Rules!applyTrendGatePreset(kept)
           preset == Rules!Text(c, <<"gates", "preset">>)
<1>1. d = IF "gates" \in gated.on THEN Rules!FillNum(gated, "gates", [required_window |-> 2]) ELSE gated
  BY DEF Rules!applyReportingDefaults, WithPath
<1> HIDE DEF d
<1>2. FilledNum(c, limited, "reporting", {"trend_limit"})
  <2>1. {"trend_limit"} = DOMAIN [trend_limit |-> 30]
    OBVIOUS
  <2> QED BY <2>1, FillNumKeeps
<1>3. /\ ReportedIn(limited, pathed, {}) /\ pathed.num = limited.num /\ pathed.text = limited.text
      /\ DOMAIN pathed.path = DOMAIN limited.path \cup {"replay"}
      /\ "replay" \in DOMAIN limited.path => pathed = limited
  <2>1. DOMAIN replay = {"replay"}
    OBVIOUS
  <2>2. ConfigShape(limited)
    BY <1>2 DEF FilledNum
  <2> HIDE DEF limited, replay
  <2> QED BY <2>1, <2>2, PathFills
<1> HIDE DEF limited, replay, pathed
<1>4. /\ ReportedIn(c, kept, {"reporting"}) /\ kept.text = c.text
      /\ "trend" \in DOMAIN kept.path => Has(kept.num, "reporting", {"trend_limit"}) /\ "replay" \in DOMAIN kept.path
      /\ ReportingFilled(c) => kept = c
  <2>1. CASE "trend" \notin DOMAIN c.path
    BY <2>1, KeepsSelf DEF ReportedIn
  <2>2. CASE "trend" \in DOMAIN c.path
    <3>1. kept = pathed
      BY <2>2
    <3>2. ReportedIn(c, pathed, {"reporting"} \cup {})
      BY <1>2, <1>3, ReportedInOn DEF FilledNum, ReportedIn
    <3>3. {"reporting"} \cup {} = {"reporting"}
      OBVIOUS
    <3>4. ASSUME ReportingFilled(c) PROVE pathed = c
      <4>1. limited = c
        BY <1>2, <2>2, <3>4 DEF ReportingFilled, FilledNum
      <4> QED BY <1>3, <2>2, <3>4, <4>1 DEF ReportingFilled
    <3> QED BY <1>2, <1>3, <3>1, <3>2, <3>3, <3>4 DEF FilledNum
  <2> QED BY <2>1, <2>2
<1> HIDE DEF kept
<1>5. /\ ReportedIn(kept, gated, {"gates"}) /\ gated.text = c.text /\ gated.path = kept.path
      /\ preset \in {"strict", "moderate"} => Has(gated.num, "gates", ModerateFields) /\ "gates" \in gated.on
      /\ preset = "exploratory" =>
           Has(gated.num, "gates", {"required_window", "max_duration_increase_pct"}) /\ "gates" \notin gated.on
      /\ ReportingFilled(kept) => gated = kept
  <2>1. preset = Rules!Text(kept, <<"gates", "preset">>)
    BY <1>4 DEF Rules!Text
  <2> HIDE DEF preset
  <2> QED BY <1>4, <2>1, PresetIsFilled DEF ReportedIn
<1> HIDE DEF gated
<1>6. /\ ReportedIn(gated, d, {"gates"}) /\ d.text = gated.text /\ d.path = gated.path /\ d.on = gated.on
      /\ "gates" \in d.on => Has(d.num, "gates", {"required_window"})
      /\ ("gates" \in gated.on => Has(gated.num, "gates", {"required_window"})) => d = gated
  <2>1. CASE "gates" \in gated.on
    <3>1. {"required_window"} = DOMAIN [required_window |-> 2]
      OBVIOUS
    <3>2. FilledNum(gated, d, "gates", {"required_window"})
      BY <1>1, <1>5, <2>1, <3>1, FillNumKeeps DEF ReportedIn
    <3> QED BY <2>1, <3>2 DEF FilledNum, ReportedIn
  <2>2. CASE "gates" \notin gated.on
    BY <1>1, <1>5, <2>2, KeepsSelf DEF ReportedIn
  <2> QED BY <2>1, <2>2
<1>7. ReportedIn(kept, d, {"gates"}) /\ ReportedIn(c, d, {"reporting", "gates"})
  <2>1. ReportedIn(kept, d, {"gates"} \cup {"gates"})
    BY <1>5, <1>6, ReportedInOn
  <2>2. ReportedIn(c, d, {"reporting"} \cup ({"gates"} \cup {"gates"}))
    BY <1>4, <2>1, ReportedInOn
  <2>3. {"gates"} \cup {"gates"} = {"gates"} /\ {"reporting"} \cup ({"gates"} \cup {"gates"}) = {"reporting", "gates"}
    OBVIOUS
  <2> QED BY <2>1, <2>2, <2>3
<1>8. ReportingFilled(d)
  <2>1. Rules!Text(d, <<"gates", "preset">>) = preset
    BY <1>5, <1>6 DEF Rules!Text
  <2>2. "trend" \in DOMAIN d.path => Has(d.num, "reporting", {"trend_limit"}) /\ "replay" \in DOMAIN d.path
    BY <1>4, <1>5, <1>6, <1>7 DEF ReportedIn, Keeps, Has
  <2>3. \A names : Has(gated.num, "gates", names) => Has(d.num, "gates", names)
    BY <1>6 DEF ReportedIn, Keeps, Has
  <2> HIDE DEF preset
  <2> QED BY <1>5, <1>6, <2>1, <2>2, <2>3 DEF ReportingFilled
<1>9. ASSUME ReportingFilled(c) PROVE d = c
  <2>1. gated = c
    BY <1>4, <1>5, <1>9
  <2> QED BY <1>6, <1>9, <2>1 DEF ReportingFilled
<1> QED BY <1>7, <1>8, <1>9 DEF d

\* applyAttestationDefaults.
LEMMA AttestationIsFilled ==
  ASSUME NEW c, ConfigShape(c)
  PROVE  /\ ReportedIn(c, Rules!applyAttestationDefaults(c), {"attestation"}) /\ Rules!applyAttestationDefaults(c).on = c.on
         /\ AttestationFilled(Rules!applyAttestationDefaults(c))
         /\ AttestationFilled(c) => Rules!applyAttestationDefaults(c) = c
<1> DEFINE d == Rules!applyAttestationDefaults(c)
           keyed == Rules!FillText(c, "attestation", [key_env |-> "key"])
           output == [attestation |-> Rules!deriveAttestationPath(c)]
<1>1. CASE "attestation" \notin c.on
  BY <1>1, KeepsSelf DEF Rules!applyAttestationDefaults, AttestationFilled, ReportedIn
<1>2. CASE "attestation" \in c.on
  <2>1. d = WithPath(keyed, output)
    BY <1>2 DEF Rules!applyAttestationDefaults, WithPath
  <2>2. FilledText(c, keyed, "attestation", {"key_env"})
    <3>1. {"key_env"} = DOMAIN [key_env |-> "key"]
      OBVIOUS
    <3> QED BY <3>1, FillTextKeeps
  <2>3. DOMAIN output = {"attestation"}
    OBVIOUS
  <2> HIDE DEF keyed, d, output
  <2>4. /\ ReportedIn(keyed, d, {}) /\ d.on = keyed.on /\ d.text = keyed.text
        /\ DOMAIN d.path = DOMAIN keyed.path \cup {"attestation"}
        /\ "attestation" \in DOMAIN keyed.path => d = keyed
    BY <2>1, <2>2, <2>3, PathFills DEF FilledText
  <2>5. ReportedIn(c, d, {"attestation"} \cup {})
    BY <2>2, <2>4, ReportedInOn DEF FilledText, ReportedIn
  <2>6. {"attestation"} \cup {} = {"attestation"}
    OBVIOUS
  <2>7. AttestationFilled(d) /\ d.on = c.on
    BY <2>2, <2>4 DEF AttestationFilled, FilledText
  <2>8. ASSUME AttestationFilled(c) PROVE d = c
    BY <1>2, <2>2, <2>4, <2>8 DEF AttestationFilled, FilledText
  <2> QED BY <2>5, <2>6, <2>7, <2>8 DEF d
<1> QED BY <1>1, <1>2

\* applyIntegrationDefaults.
LEMMA SinksAreFilled ==
  ASSUME NEW c, ConfigShape(c)
  PROVE  /\ ConfigShape(Rules!applyIntegrationDefaults(c)) /\ Keeps(c, Rules!applyIntegrationDefaults(c), {})
         /\ SinksFilled(Rules!applyIntegrationDefaults(c))
         /\ SinksFilled(c) => Rules!applyIntegrationDefaults(c) = c
<1> DEFINE d == Rules!applyIntegrationDefaults(c)
           given(k) == [k EXCEPT !.timeout = IF @ = 0 THEN 5000 ELSE @]
           sinks == {given(k) : k \in c.sinks}
<1>1. /\ d.sinks = sinks /\ d.num = c.num /\ d.on = c.on /\ d.text = c.text /\ d.path = c.path
      /\ d.summaries = c.summaries /\ d.scenarios = c.scenarios
      /\ d = [on |-> d.on, num |-> d.num, text |-> d.text, path |-> d.path, sinks |-> d.sinks,
              summaries |-> d.summaries, scenarios |-> d.scenarios]
  <2>1. d = [c EXCEPT !.sinks = sinks]
    BY DEF Rules!applyIntegrationDefaults
  <2> HIDE DEF d, sinks
  <2> QED BY <2>1 DEF ConfigShape
<1>2. ASSUME NEW k \in c.sinks
      PROVE  /\ given(k).timeout # 0
             /\ given(k) = [type |-> given(k).type, endpoint |-> given(k).endpoint, project |-> given(k).project,
                            attest |-> given(k).attest, timeout |-> given(k).timeout]
             /\ k.timeout # 0 => given(k) = k
  <2>1. k = [type |-> k.type, endpoint |-> k.endpoint, project |-> k.project, attest |-> k.attest, timeout |-> k.timeout]
    BY DEF ConfigShape
  <2> QED BY <2>1
<1> HIDE DEF d, given
<1>3. ConfigShape(d)
  BY <1>1, <1>2 DEF ConfigShape
<1>4. Keeps(c, d, {})
  BY <1>1 DEF Keeps, Stays
<1>5. SinksFilled(d)
  BY <1>1, <1>2 DEF SinksFilled
<1>6. ASSUME SinksFilled(c) PROVE d = c
  <2>1. sinks = c.sinks
    BY <1>2, <1>6 DEF SinksFilled
  <2> QED BY <1>1, <2>1 DEF ConfigShape
<1> QED BY <1>3, <1>4, <1>5, <1>6 DEF d

(* All defaults.                                                             *)

\* Every stage of the defaults has nothing left to do.
AllFilled(c) ==
  /\ TargetFilled(c, "target") /\ <<"target", "type">> \in DOMAIN c.text
  /\ GenerationFilled(c)
  /\ SectionFilled(c, "load", LoadFields) /\ SectionFilled(c, "chaos", ChaosFields)
  /\ SectionFilled(c, "drift", DriftFields) /\ SectionFilled(c, "tokens", TokenFields)
  /\ JudgeFilled(c) /\ SinksFilled(c) /\ ReportingFilled(c) /\ AttestationFilled(c)

\* Then the defaults change nothing.
LEMMA FilledIsSettled ==
  ASSUME NEW c, ConfigShape(c), AllFilled(c) PROVE Rules!applyDefaults(c) = c
<1>1. Rules!applyTargetDefaults(c, "target", FALSE) = c /\ Rules!applyScenarioGenerationDefaults(c) = c
  BY TargetIsFilled, GenerationIsFilled DEF AllFilled
<1>2. /\ Rules!applyLoadDefaults(c) = c /\ Rules!applyChaosDefaults(c) = c /\ Rules!applyDriftDefaults(c) = c
      /\ Rules!applyTokenOptimizationDefaults(c) = c /\ Rules!applyLLMJudgeDefaults(c) = c
  BY LoadIsFilled, ChaosIsFilled, DriftIsFilled, TokensAreFilled, JudgeIsFilled DEF AllFilled
<1>3. Rules!applyIntegrationDefaults(c) = c /\ Rules!applyReportingDefaults(c) = c /\ Rules!applyAttestationDefaults(c) = c
  BY SinksAreFilled, ReportingIsFilled, AttestationIsFilled DEF AllFilled
<1> QED BY <1>1, <1>2, <1>3 DEF Rules!applyDefaults, Rules!applySuiteDefaults

\* What one stage has filled, the later ones leave filled.
LEMMA SectionStays ==
  ASSUME NEW c, NEW d, NEW S, Stays(c, d, S), NEW s, s \notin {"judge", "gates"}, NEW names, SectionFilled(c, s, names)
  PROVE  SectionFilled(d, s, names)
BY HasStays DEF SectionFilled, Stays

\* The like of the generated scenarios.
LEMMA GenerationStays ==
  ASSUME NEW c, NEW d, NEW S, Stays(c, d, S), "generator" \notin S, GenerationFilled(c)
  PROVE  GenerationFilled(d)
<1> SUFFICES ASSUME "generation" \in d.on PROVE GenerationFilled(d)
  BY DEF GenerationFilled
<1>1. "generation" \in c.on
  BY DEF Stays
<1>2. TargetFilled(d, "generator")
  BY <1>1, TargetStays DEF GenerationFilled
<1> QED BY <1>1, <1>2, HasStays DEF GenerationFilled

\* The like of the reports.
LEMMA ReportingStays ==
  ASSUME NEW c, NEW d, NEW S, Stays(c, d, S), "gates" \notin S, d.on = c.on, ReportingFilled(c)
  PROVE  ReportingFilled(d)
<1>1. Rules!Text(d, <<"gates", "preset">>) = Rules!Text(c, <<"gates", "preset">>)
  BY StaysText
<1>2. ("trend" \in DOMAIN d.path => "trend" \in DOMAIN c.path) /\ ("replay" \in DOMAIN c.path => "replay" \in DOMAIN d.path)
  BY DEF Stays
<1> QED BY <1>1, <1>2, HasStays DEF ReportingFilled

\* applyDefaults as a whole: every stage is filled at the end of the last.
LEMMA DefaultsFill ==
  ASSUME NEW c, ConfigShape(c)
  PROVE  AllFilled(Rules!applyDefaults(c)) /\ ConfigShape(Rules!applyDefaults(c)) /\ \E S : Stays(c, Rules!applyDefaults(c), S)
<1> DEFINE c1 == Rules!applyTargetDefaults(c, "target", FALSE)
           c2 == Rules!applyScenarioGenerationDefaults(c1)
           c3 == Rules!applyLoadDefaults(c2)
           c4 == Rules!applyChaosDefaults(c3)
           c5 == Rules!applyDriftDefaults(c4)
           c6 == Rules!applyTokenOptimizationDefaults(c5)
           c7 == Rules!applyLLMJudgeDefaults(c6)
           c8 == Rules!applyIntegrationDefaults(c7)
           c9 == Rules!applyReportingDefaults(c8)
           d == Rules!applyAttestationDefaults(c9)
<1>1. Rules!applyDefaults(c) = d
  BY DEF Rules!applyDefaults, Rules!applySuiteDefaults
<1>2. /\ FilledIn(c, c1, {"target"}) /\ TargetFilled(c1, "target") /\ <<"target", "type">> \in DOMAIN c1.text
  BY TargetIsFilled DEF FilledIn
<1> HIDE DEF c1
<1>3. FilledIn(c1, c2, {"generator", "generation"}) /\ GenerationFilled(c2)
  BY <1>2, GenerationIsFilled DEF FilledIn
<1> HIDE DEF c2
<1>4. FilledIn(c2, c3, {"load"}) /\ SectionFilled(c3, "load", LoadFields)
  BY <1>3, LoadIsFilled DEF FilledIn
<1> HIDE DEF c3
<1>5. FilledIn(c3, c4, {"chaos"}) /\ SectionFilled(c4, "chaos", ChaosFields)
  BY <1>4, ChaosIsFilled DEF FilledIn
<1> HIDE DEF c4
<1>6. FilledIn(c4, c5, {"drift"}) /\ SectionFilled(c5, "drift", DriftFields)
  BY <1>5, DriftIsFilled DEF FilledIn
<1> HIDE DEF c5
<1>7. FilledIn(c5, c6, {"tokens"}) /\ SectionFilled(c6, "tokens", TokenFields)
  BY <1>6, TokensAreFilled DEF FilledIn
<1> HIDE DEF c6
<1>8. JudgedIn(c6, c7, {"judge", "provider", "baseline"}) /\ JudgeFilled(c7)
  BY <1>7, JudgeIsFilled DEF FilledIn
<1> HIDE DEF c7
<1>9. ConfigShape(c8) /\ Keeps(c7, c8, {}) /\ SinksFilled(c8)
  BY <1>8, SinksAreFilled DEF JudgedIn
<1> HIDE DEF c8
<1>10. ReportedIn(c8, c9, {"reporting", "gates"}) /\ ReportingFilled(c9)
  BY <1>9, ReportingIsFilled
<1> HIDE DEF c9
<1>11. ReportedIn(c9, d, {"attestation"}) /\ d.on = c9.on /\ AttestationFilled(d)
  BY <1>10, AttestationIsFilled DEF ReportedIn
<1> HIDE DEF d
<1> DEFINE late == {} \cup ({"reporting", "gates"} \cup {"attestation"})
           judged == {"judge", "provider", "baseline"} \cup late
           s5 == {"tokens"} \cup judged
           s4 == {"drift"} \cup s5
           s3 == {"chaos"} \cup s4
           s2 == {"load"} \cup s3
           s1 == {"generator", "generation"} \cup s2
<1>12. Stays(c9, d, {"attestation"}) /\ Keeps(c7, d, late)
  <2>1. Keeps(c8, d, {"reporting", "gates"} \cup {"attestation"})
    BY <1>10, <1>11, KeepsOn DEF ReportedIn
  <2>2. Keeps(c7, d, late)
    BY <1>9, <2>1, KeepsOn
  <2> QED BY <1>11, <2>2 DEF ReportedIn, Keeps
<1>13. Stays(c6, d, judged)
  BY <1>8, <1>12, StaysOn DEF JudgedIn, Keeps
<1>14. Stays(c5, d, s5)
  BY <1>7, <1>13, StaysOn DEF FilledIn, Keeps
<1>15. Stays(c4, d, s4)
  BY <1>6, <1>14, StaysOn DEF FilledIn, Keeps
<1>16. Stays(c3, d, s3)
  BY <1>5, <1>15, StaysOn DEF FilledIn, Keeps
<1>17. Stays(c2, d, s2)
  BY <1>4, <1>16, StaysOn DEF FilledIn, Keeps
<1>18. Stays(c1, d, s1)
  BY <1>3, <1>17, StaysOn DEF FilledIn, Keeps
<1>19. Stays(c, d, {"target"} \cup s1)
  BY <1>2, <1>18, StaysOn DEF FilledIn, Keeps
<1>20. TargetFilled(d, "target") /\ <<"target", "type">> \in DOMAIN d.text
  <2>1. "target" \notin s1
    OBVIOUS
  <2>2. <<"target", "type">> \in DOMAIN d.text
    BY <1>2, <1>18 DEF Stays
  <2> HIDE DEF s1
  <2> QED BY <1>2, <1>18, <2>1, <2>2, TargetStays
<1>21. GenerationFilled(d)
  <2>1. "generator" \notin s2
    OBVIOUS
  <2> HIDE DEF s2
  <2> QED BY <1>3, <1>17, <2>1, GenerationStays
<1>22. SectionFilled(d, "load", LoadFields) /\ SectionFilled(d, "chaos", ChaosFields)
  <2>1. "load" \notin s3 /\ "chaos" \notin s4
    OBVIOUS
  <2> HIDE DEF s3, s4
  <2> QED BY <1>4, <1>5, <1>15, <1>16, <2>1, SectionStays
<1>23. SectionFilled(d, "drift", DriftFields) /\ SectionFilled(d, "tokens", TokenFields)
  <2>1. "drift" \notin s5 /\ "tokens" \notin judged
    OBVIOUS
  <2> HIDE DEF s5, judged
  <2> QED BY <1>6, <1>7, <1>13, <1>14, <2>1, SectionStays
<1>24. JudgeFilled(d)
  <2>1. late \cap {"judge", "provider", "baseline"} = {}
    OBVIOUS
  <2>2. c7.on \ {"gates"} = d.on \ {"gates"}
    BY <1>12 DEF Keeps, Stays
  <2> HIDE DEF late
  <2> QED BY <1>8, <1>12, <2>1, <2>2, JudgeStays
<1>25. ReportingFilled(d)
  BY <1>10, <1>11, <1>12, ReportingStays
<1>26. SinksFilled(d)
  BY <1>9, <1>10, <1>11 DEF ReportedIn, SinksFilled
<1>27. AllFilled(d)
  BY <1>11, <1>20, <1>21, <1>22, <1>23, <1>24, <1>25, <1>26 DEF AllFilled
<1>28. ConfigShape(d)
  BY <1>11 DEF ReportedIn
<1> QED BY <1>1, <1>19, <1>27, <1>28

(* No number that counts is zero.                                            *)

\* Tables stay tables.
LEMMA OverIsTabular == \A x, y : Tabular(Rules!Over(x, y))
BY OverHas

\* What filling leaves alone.
LEMMA FillShape ==
  ASSUME NEW c, ConfigShape(c), NEW s, NEW v
  PROVE  ConfigShape(Rules!FillNum(c, s, v)) /\ ConfigShape(Rules!FillText(c, s, v)) /\ Rules!FillText(c, s, v).num = c.num
<1>1. FilledNum(c, Rules!FillNum(c, s, v), s, DOMAIN v)
  BY FillNumKeeps
<1>2. FilledText(c, Rules!FillText(c, s, v), s, DOMAIN v)
  BY FillTextKeeps
<1> QED BY <1>1, <1>2 DEF FilledNum, FilledText

\* Whole numbers, and none that is zero but for the thresholds of the gates.
Whole(h) == \A x \in DOMAIN h : h[x] \in Int /\ (x[1] = "gates" \/ h[x] # 0)

\* Two such tables make one.
LEMMA OverWhole ==
  ASSUME NEW x, NEW y, Whole(x), Whole(y) PROVE Whole(Rules!Over(x, y))
BY DEF Whole, Rules!Over

\* The numbers of a default.
LEMMA GivenWhole ==
  ASSUME NEW s, NEW names, NEW v \in Int \ {0} PROVE Whole(Rules!Given(s, names, v))
BY DEF Whole, Rules!Given

\* Some of the numbers.
LEMMA KeptWhole ==
  ASSUME NEW x, NEW sections, Whole(x) PROVE Whole(Rules!Kept(x, sections))
BY DEF Whole, Rules!Kept

\* Defaults fill in none that is zero.
LEMMA FillNumWhole ==
  ASSUME NEW c, ConfigShape(c), Whole(c.num), NEW s, NEW v,
         \A n \in DOMAIN v : v[n] \in Int /\ (s = "gates" \/ v[n] # 0)
  PROVE  Whole(Rules!FillNum(c, s, v).num)
<1>1. Rules!FillNum(c, s, v).num = Rules!Over(c.num, Rules!Table(s, v))
  BY DEF Rules!FillNum, ConfigShape
<1>2. Whole(Rules!Table(s, v))
  <2> SUFFICES ASSUME NEW x \in DOMAIN Rules!Table(s, v) PROVE Rules!Table(s, v)[x] \in Int /\ (x[1] = "gates" \/ Rules!Table(s, v)[x] # 0)
    BY DEF Whole
  <2>1. PICK n \in DOMAIN v : x = <<s, n>>
    <3>1. DOMAIN Rules!Table(s, v) = {<<s, n>> : n \in DOMAIN v}
      BY TableHas
    <3> QED BY <3>1
  <2>2. Rules!Table(s, v)[x] = v[n] /\ x[1] = s
    BY <2>1 DEF Rules!Table
  <2> QED BY <2>2
<1> QED BY <1>1, <1>2, OverWhole

\* The same of the stages of the defaults, one by one.
LEMMA TargetWhole ==
  ASSUME NEW c, ConfigShape(c), Whole(c.num), NEW s, NEW e \in BOOLEAN
  PROVE  Whole(Rules!applyTargetDefaults(c, s, e).num)
<1> DEFINE typed == IF e THEN c ELSE Rules!FillText(c, s, [type |-> "http"])
           method == Rules!FillText(typed, s, [method |-> "POST"])
           common == Rules!FillNum(method, s, [timeout_ms |-> 5000])
           d == Rules!applyTargetDefaults(c, s, e)
<1>1. \E v : d = common \/ d = Rules!FillText(common, s, v) \/ d = Rules!FillNum(Rules!FillText(common, s, v), s, [max_tokens |-> 1024])
  BY DEF Rules!applyTargetDefaults
<1>2. ConfigShape(typed) /\ typed.num = c.num
  BY FillShape
<1> HIDE DEF typed
<1>3. ConfigShape(method) /\ method.num = c.num
  BY <1>2, FillShape
<1> HIDE DEF method
<1>4. ConfigShape(common) /\ Whole(common.num)
  <2>1. ConfigShape(common)
    BY <1>3, FillShape
  <2>2. Whole(common.num)
    BY <1>3, FillNumWhole
  <2> QED BY <2>1, <2>2
<1> HIDE DEF common, d
<1>5. ASSUME NEW v
      PROVE  /\ ConfigShape(Rules!FillText(common, s, v)) /\ Whole(Rules!FillText(common, s, v).num)
  BY <1>4, FillShape
<1>6. ASSUME NEW v PROVE Whole(Rules!FillNum(Rules!FillText(common, s, v), s, [max_tokens |-> 1024]).num)
  <2> DEFINE named == Rules!FillText(common, s, v)
  <2>1. ConfigShape(named) /\ Whole(named.num)
    BY <1>5
  <2> HIDE DEF named
  <2>2. Whole(Rules!FillNum(named, s, [max_tokens |-> 1024]).num)
    BY <2>1, FillNumWhole
  <2> QED BY <2>2 DEF named
<1>7. Whole(d.num)
  BY <1>1, <1>4, <1>5, <1>6
<1> QED BY <1>7 DEF d

LEMMA GenerationWhole ==
  ASSUME NEW c, ConfigShape(c), Whole(c.num)
  PROVE  Whole(Rules!applyScenarioGenerationDefaults(c).num)
<1> DEFINE provider == Rules!applyTargetDefaults(c, "generator", TRUE)
           output == Rules!FillText(provider, "generation", [output_file |-> "dataset"])
<1>1. \/ Rules!applyScenarioGenerationDefaults(c) = c
      \/ Rules!applyScenarioGenerationDefaults(c) = Rules!FillNum(output, "generation", [count |-> 12])
  BY DEF Rules!applyScenarioGenerationDefaults
<1>2. ConfigShape(provider) /\ Whole(provider.num)
  BY TargetIsFilled, TargetWhole
<1> HIDE DEF provider
<1>3. ConfigShape(output) /\ Whole(output.num)
  BY <1>2, FillShape
<1> HIDE DEF output
<1>4. Whole(Rules!FillNum(output, "generation", [count |-> 12]).num)
  BY <1>3, FillNumWhole
<1> QED BY <1>1, <1>4

LEMMA SuitesWhole ==
  ASSUME NEW c, ConfigShape(c), Whole(c.num)
  PROVE  /\ Whole(Rules!applyLoadDefaults(c).num) /\ Whole(Rules!applyChaosDefaults(c).num)
         /\ Whole(Rules!applyTokenOptimizationDefaults(c).num) /\ Whole(Rules!applyDriftDefaults(c).num)
<1>1. Whole(Rules!applyLoadDefaults(c).num)
  BY FillNumWhole DEF Rules!applyLoadDefaults
<1>2. Whole(Rules!applyChaosDefaults(c).num)
  BY FillNumWhole DEF Rules!applyChaosDefaults
<1>3. Whole(Rules!applyTokenOptimizationDefaults(c).num)
  BY FillNumWhole DEF Rules!applyTokenOptimizationDefaults
<1>4. Whole(Rules!applyDriftDefaults(c).num)
  <2> DEFINE early == [iterations |-> 3, max_normalized_drift |-> 300, max_semantic_drift |-> 250]
             budgeted == Rules!FillNum(c, "drift", early)
             late == [max_snapshot_drift |-> Rules!Num(budgeted, <<"drift", "max_normalized_drift">>),
                      max_semantic_snapshot_drift |-> Rules!Num(budgeted, <<"drift", "max_semantic_drift">>),
                      min_consistency_score |-> 700, min_semantic_consistency_score |-> 750, confidence_level |-> 950]
  <2>1. Rules!applyDriftDefaults(c) = c \/ Rules!applyDriftDefaults(c) = Rules!FillNum(budgeted, "drift", late)
    BY DEF Rules!applyDriftDefaults
  <2>2. Whole(budgeted.num)
    BY FillNumWhole
  <2>3. FilledNum(c, budgeted, "drift", {"iterations", "max_normalized_drift", "max_semantic_drift"})
    <3>1. {"iterations", "max_normalized_drift", "max_semantic_drift"} = DOMAIN early
      OBVIOUS
    <3> HIDE DEF early
    <3> QED BY <3>1, FillNumKeeps
  <2> HIDE DEF budgeted
  <2>4. /\ Rules!Num(budgeted, <<"drift", "max_normalized_drift">>) \in Int \ {0}
        /\ Rules!Num(budgeted, <<"drift", "max_semantic_drift">>) \in Int \ {0}
    BY <2>2, <2>3 DEF FilledNum, Has, Rules!Num, Whole
  <2>5. \A n \in DOMAIN late : late[n] \in Int /\ late[n] # 0
    BY <2>4
  <2> HIDE DEF late
  <2>6. Whole(Rules!FillNum(budgeted, "drift", late).num)
    BY <2>2, <2>3, <2>5, FillNumWhole DEF FilledNum
  <2> QED BY <2>1, <2>6
<1> QED BY <1>1, <1>2, <1>3, <1>4

LEMMA JudgeWhole ==
  ASSUME NEW c, ConfigShape(c), Whole(c.num)
  PROVE  Whole(Rules!applyLLMJudgeDefaults(c).num)
<1>1. CASE "judge" \notin c.on
  BY <1>1 DEF Rules!applyLLMJudgeDefaults
<1>2. CASE "judge" \in c.on
  <2> DEFINE d == Rules!applyLLMJudgeDefaults(c)
             unusable == {x \in DOMAIN c.num : \/ x = <<"judge", "scale">> /\ c.num[x] <= 1
                                               \/ x = <<"judge", "samples">> /\ c.num[x] <= 0}
             kept == [c EXCEPT !.num = [x \in DOMAIN c.num \ unusable |-> c.num[x]]]
             provided == Rules!applyTargetDefaults(kept, "provider", TRUE)
             scaled == Rules!FillNum(provided, "judge", [scale |-> 5, min_score |-> 600, samples |-> 1, confidence_level |-> 950])
             repeated == Rules!FillNum(scaled, "judge", [max_disagreement |-> 400])
             steady == IF Rules!Num(scaled, <<"judge", "samples">>) > 1 THEN repeated ELSE scaled
             based == Rules!applyTargetDefaults(steady, "baseline", TRUE)
             compared == Rules!FillNum(based, "judge", [min_win_rate |-> 500])
  <2>1. d = IF Rules!IsPairwise(steady) THEN compared ELSE steady
    BY <1>2 DEF Rules!applyLLMJudgeDefaults
  <2> HIDE DEF d
  <2>2. ConfigShape(kept) /\ Whole(kept.num)
    <3>1. /\ kept.num = [x \in DOMAIN c.num \ unusable |-> c.num[x]] /\ kept.text = c.text /\ kept.on = c.on
          /\ kept.path = c.path /\ kept.sinks = c.sinks
          /\ kept = [on |-> kept.on, num |-> kept.num, text |-> kept.text, path |-> kept.path, sinks |-> kept.sinks,
                     summaries |-> kept.summaries, scenarios |-> kept.scenarios]
      BY DEF ConfigShape
    <3> HIDE DEF kept
    <3>2. ConfigShape(kept)
      BY <3>1 DEF ConfigShape, Tabular
    <3>3. Whole(kept.num)
      BY <3>1 DEF Whole
    <3> QED BY <3>2, <3>3
  <2> HIDE DEF kept
  <2>3. ConfigShape(provided) /\ Whole(provided.num)
    BY <2>2, TargetIsFilled, TargetWhole
  <2> HIDE DEF provided
  <2>4. ConfigShape(scaled) /\ Whole(scaled.num)
    BY <2>3, FillShape, FillNumWhole
  <2> HIDE DEF scaled
  <2>5. ConfigShape(steady) /\ Whole(steady.num)
    BY <2>4, FillShape, FillNumWhole
  <2> HIDE DEF steady
  <2>6. ConfigShape(based) /\ Whole(based.num)
    BY <2>5, TargetIsFilled, TargetWhole
  <2> HIDE DEF based
  <2>7. Whole(compared.num)
    BY <2>6, FillNumWhole
  <2> QED BY <2>1, <2>5, <2>7 DEF d
<1> QED BY <1>1, <1>2

LEMMA ReportingWhole ==
  ASSUME NEW c, ConfigShape(c), Whole(c.num)
  PROVE  Whole(Rules!applyReportingDefaults(c).num)
<1> DEFINE limited == Rules!FillNum(c, "reporting", [trend_limit |-> 30])
           pathed == WithPath(limited, [replay |-> Rules!deriveReplayArtifactPath(c.path["trend"])])
           kept == IF "trend" \notin DOMAIN c.path THEN c ELSE pathed
           gated == Rules!applyTrendGatePreset(kept)
           full == Rules!FillNum(gated, "gates", [required_window |-> 2])
<1>1. Rules!applyReportingDefaults(c) = IF "gates" \in gated.on THEN full ELSE gated
  BY DEF Rules!applyReportingDefaults, WithPath
<1>2. ConfigShape(limited) /\ Whole(limited.num)
  BY FillShape, FillNumWhole
<1> HIDE DEF limited
<1>3. ConfigShape(pathed) /\ Whole(pathed.num)
  <2> DEFINE replay == [replay |-> Rules!deriveReplayArtifactPath(c.path["trend"])]
  <2>1. DOMAIN replay = {"replay"} /\ pathed = WithPath(limited, replay)
    OBVIOUS
  <2> HIDE DEF replay, pathed
  <2>2. ReportedIn(limited, pathed, {}) /\ pathed.num = limited.num
    BY <1>2, <2>1, PathFills
  <2> QED BY <1>2, <2>2 DEF ReportedIn
<1> HIDE DEF pathed
<1>4. ConfigShape(kept) /\ Whole(kept.num)
  BY <1>3
<1> HIDE DEF kept
<1>5. ConfigShape(gated)
  BY <1>4, PresetIsFilled DEF ReportedIn
<1>6. Whole(gated.num)
  <2> DEFINE blocking == [required_window |-> 2, max_failed_suites_delta |-> 0, max_failed_cases_delta |-> 0]
             strict == Rules!Over(blocking, [max_duration_increase_pct |-> 15, max_semantic_drift_delta |-> 50,
                                       max_baseline_semantic_drift_delta |-> 30])
             moderate == Rules!Over(blocking, [max_duration_increase_pct |-> 25, max_semantic_drift_delta |-> 80,
                                         max_baseline_semantic_drift_delta |-> 50])
             exploratory == [required_window |-> 2, max_duration_increase_pct |-> 50]
             filled(v) == Rules!FillNum(kept, "gates", v)
             switched(v, on) == [filled(v) EXCEPT !.on = on]
  <2>1. \/ gated = kept
        \/ \E on : \/ gated = switched(strict, on)
                   \/ gated = switched(moderate, on)
                   \/ gated = switched(exploratory, on)
    BY DEF Rules!applyTrendGatePreset
  <2>2. /\ \A n \in DOMAIN strict : strict[n] \in Int
        /\ \A n \in DOMAIN moderate : moderate[n] \in Int
        /\ \A n \in DOMAIN exploratory : exploratory[n] \in Int
    BY DEF Rules!Over
  <2> HIDE DEF blocking, strict, moderate, exploratory
  <2>3. /\ ConfigShape(filled(strict)) /\ Whole(filled(strict).num)
        /\ ConfigShape(filled(moderate)) /\ Whole(filled(moderate).num)
        /\ ConfigShape(filled(exploratory)) /\ Whole(filled(exploratory).num)
    BY <1>4, <2>2, FillShape, FillNumWhole
  <2>4. \A v, on : ConfigShape(filled(v)) => switched(v, on).num = filled(v).num
    BY DEF ConfigShape
  <2> HIDE DEF filled, switched, gated
  <2> QED BY <1>4, <2>1, <2>3, <2>4
<1> HIDE DEF gated
<1>7. Whole(full.num)
  BY <1>5, <1>6, FillNumWhole
<1> QED BY <1>1, <1>6, <1>7

LEMMA AttestationWhole ==
  ASSUME NEW c, ConfigShape(c), Whole(c.num)
  PROVE  Whole(Rules!applyAttestationDefaults(c).num)
<1> DEFINE keyed == Rules!FillText(c, "attestation", [key_env |-> "key"])
           output == [attestation |-> Rules!deriveAttestationPath(c)]
<1>1. Rules!applyAttestationDefaults(c) = c \/ Rules!applyAttestationDefaults(c) = WithPath(keyed, output)
  BY DEF Rules!applyAttestationDefaults, WithPath
<1>2. ConfigShape(keyed) /\ keyed.num = c.num
  BY FillShape
<1> HIDE DEF keyed, output
<1>3. WithPath(keyed, output).num = keyed.num
  BY <1>2 DEF ConfigShape, WithPath
<1> QED BY <1>1, <1>2, <1>3

\* And of the defaults as a whole.
LEMMA DefaultsWhole ==
  ASSUME NEW c, ConfigShape(c), Whole(c.num)
  PROVE  Whole(Rules!applyDefaults(c).num)
<1> DEFINE c1 == Rules!applyTargetDefaults(c, "target", FALSE)
           c2 == Rules!applyScenarioGenerationDefaults(c1)
           c3 == Rules!applyLoadDefaults(c2)
           c4 == Rules!applyChaosDefaults(c3)
           c5 == Rules!applyDriftDefaults(c4)
           c6 == Rules!applyTokenOptimizationDefaults(c5)
           c7 == Rules!applyLLMJudgeDefaults(c6)
           c8 == Rules!applyIntegrationDefaults(c7)
           c9 == Rules!applyReportingDefaults(c8)
<1>1. Rules!applyDefaults(c) = Rules!applyAttestationDefaults(c9)
  BY DEF Rules!applyDefaults, Rules!applySuiteDefaults
<1>2. ConfigShape(c1) /\ Whole(c1.num)
  BY TargetIsFilled, TargetWhole
<1> HIDE DEF c1
<1>3. ConfigShape(c2) /\ Whole(c2.num)
  BY <1>2, GenerationIsFilled, GenerationWhole DEF FilledIn
<1> HIDE DEF c2
<1>4. ConfigShape(c3) /\ Whole(c3.num)
  BY <1>3, LoadIsFilled, SuitesWhole DEF FilledIn
<1> HIDE DEF c3
<1>5. ConfigShape(c4) /\ Whole(c4.num)
  BY <1>4, ChaosIsFilled, SuitesWhole DEF FilledIn
<1> HIDE DEF c4
<1>6. ConfigShape(c5) /\ Whole(c5.num)
  BY <1>5, DriftIsFilled, SuitesWhole DEF FilledIn
<1> HIDE DEF c5
<1>7. ConfigShape(c6) /\ Whole(c6.num)
  BY <1>6, TokensAreFilled, SuitesWhole DEF FilledIn
<1> HIDE DEF c6
<1>8. ConfigShape(c7) /\ Whole(c7.num)
  BY <1>7, JudgeIsFilled, JudgeWhole DEF JudgedIn
<1> HIDE DEF c7
<1>9. ConfigShape(c8) /\ Whole(c8.num)
  <2>1. c8.num = c7.num
    BY <1>8 DEF Rules!applyIntegrationDefaults, ConfigShape
  <2> QED BY <1>8, <2>1, SinksAreFilled
<1> HIDE DEF c8
<1>10. ConfigShape(c9) /\ Whole(c9.num)
  BY <1>9, ReportingIsFilled, ReportingWhole DEF ReportedIn
<1> HIDE DEF c9
<1> QED BY <1>1, <1>10, AttestationWhole

\* A list of anything.
Listed(list) == \E S : list \in Seq(S)

\* A configuration as the commands make and read it.
WellFormed(c) == ConfigShape(c) /\ Whole(c.num) /\ Listed(c.scenarios)

\* What setup writes is well formed: its numbers,
LEMMA StarterNumbersAreWhole == Whole(Rules!StarterNumbers)
BY OverWhole, GivenWhole DEF Rules!StarterNumbers

\* the profile it applies,
LEMMA ProfileIsWellFormed ==
  ASSUME NEW c, WellFormed(c), NEW o PROVE WellFormed(Rules!applyStarterProfile(c, o))
<1> DEFINE d == Rules!applyStarterProfile(c, o)
<1>1. CASE o.profile = ""
  BY <1>1 DEF Rules!applyStarterProfile
<1>2. CASE o.profile # ""
  <2>1. PICK on, sections, text, path :
          /\ Tabular(text) /\ Tabular(path)
          /\ d = [c EXCEPT !.on = on, !.num = Rules!Over(Rules!Kept(Rules!StarterNumbers, sections), Rules!Kept(c.num, {"target", "reporting"})),
                           !.path = path, !.text = text]
    BY <1>2, OverIsTabular DEF Rules!applyStarterProfile, WellFormed, ConfigShape
  <2> HIDE DEF d
  <2>2. /\ d.num = Rules!Over(Rules!Kept(Rules!StarterNumbers, sections), Rules!Kept(c.num, {"target", "reporting"}))
        /\ d.text = text /\ d.path = path /\ d.sinks = c.sinks /\ d.scenarios = c.scenarios
        /\ d = [on |-> d.on, num |-> d.num, text |-> d.text, path |-> d.path, sinks |-> d.sinks,
                summaries |-> d.summaries, scenarios |-> d.scenarios]
    BY <2>1 DEF WellFormed, ConfigShape
  <2>3. Tabular(d.num) /\ Whole(d.num)
    BY <2>2, OverIsTabular, OverWhole, KeptWhole, StarterNumbersAreWhole DEF WellFormed
  <2>4. WellFormed(d)
    BY <2>1, <2>2, <2>3 DEF WellFormed, ConfigShape
  <2> QED BY <2>4 DEF d
<1> QED BY <1>1, <1>2

\* the sinks it adds,
LEMMA IntegrationsAreWellFormed ==
  ASSUME NEW c, WellFormed(c), NEW o PROVE WellFormed(Rules!applyStarterIntegrations(c, o))
<1> USE DEF WellFormed
<1> DEFINE name == Rules!Text(c, <<"target", "name">>)
           sinks == {[type |-> t, endpoint |-> IF t = "http" THEN o.endpoint ELSE "",
                      project |-> IF t = "braintrust" THEN o.project ELSE "",
                      attest |-> o.attestation /\ t \in {"http", "braintrust"}, timeout |-> 0] : t \in o.sinks}
           summaries == {<<name, "summary", "md">>, <<name, "summary", "json">>}
           sinksSet == IF sinks = {} THEN c ELSE [c EXCEPT !.sinks = sinks, !.summaries = summaries]
           attested == [sinksSet EXCEPT !.on = @ \cup {"attestation"}, !.path = Rules!Over([attestation |-> <<name, "attestation">>], @),
                                    !.text = Rules!Over(Rules!Table("attestation", [key_env |-> "key"]), @)]
<1>1. Rules!applyStarterIntegrations(c, o) = IF ~o.attestation THEN sinksSet ELSE attested
  BY DEF Rules!applyStarterIntegrations
<1>2. \A k \in sinks : k = [type |-> k.type, endpoint |-> k.endpoint, project |-> k.project,
                            attest |-> k.attest, timeout |-> k.timeout]
  <2>1. ASSUME NEW k \in sinks
        PROVE  \E x1, x2, x3, x4, x5 : k = [type |-> x1, endpoint |-> x2, project |-> x3, attest |-> x4, timeout |-> x5]
    BY Zenon
  <2>2. ASSUME NEW k, NEW x1, NEW x2, NEW x3, NEW x4, NEW x5,
               k = [type |-> x1, endpoint |-> x2, project |-> x3, attest |-> x4, timeout |-> x5]
        PROVE  k = [type |-> k.type, endpoint |-> k.endpoint, project |-> k.project, attest |-> k.attest, timeout |-> k.timeout]
    BY <2>2
  <2> HIDE DEF sinks
  <2> QED BY <2>1, <2>2
<1> HIDE DEF sinks, summaries
<1>3. WellFormed(sinksSet)
  BY <1>2 DEF ConfigShape
<1> HIDE DEF sinksSet
<1>4. WellFormed(attested)
  <2>1. PICK on, path, text : /\ Tabular(path) /\ Tabular(text)
                              /\ attested = [sinksSet EXCEPT !.on = on, !.path = path, !.text = text]
    BY OverIsTabular
  <2> HIDE DEF attested
  <2>2. /\ attested.num = sinksSet.num /\ attested.text = text /\ attested.path = path /\ attested.sinks = sinksSet.sinks
        /\ attested.scenarios = sinksSet.scenarios
        /\ attested = [on |-> attested.on, num |-> attested.num, text |-> attested.text, path |-> attested.path,
                       sinks |-> attested.sinks, summaries |-> attested.summaries, scenarios |-> attested.scenarios]
    BY <1>3, <2>1 DEF ConfigShape
  <2> QED BY <1>3, <2>1, <2>2 DEF ConfigShape
<1> QED BY <1>1, <1>3, <1>4

\* and the whole of it.
LEMMA StarterIsWellFormed ==
  ASSUME NEW given PROVE WellFormed(Rules!StarterFor(given))
<1> DEFINE o == Rules!resolveStarterConfigOptions(given)
           start == Rules!starterConfigForProvider(o)
           c == Rules!applyStarterIntegrations(Rules!applyStarterProfile(start, o), o)
           named == [c EXCEPT !.text = Rules!Over(Rules!Table("target", [name |-> "agent"]), @),
                              !.path = Rules!Over([trend |-> <<"agent", "trends">>], @)]
<1>1. WellFormed(start)
  <2>1. Tabular([trend |-> <<"starter", "trends">>])
    BY DEF Tabular
  <2>2. ConfigShape(start)
    BY <2>1, OverIsTabular DEF Rules!starterConfigForProvider, ConfigShape
  <2>3. start.num
          = Rules!Over(Rules!StarterNumbers, Rules!Over(Rules!Given("reporting", {"trend_limit"}, 30), Rules!Over(Rules!Given("target", {"timeout_ms"}, 6000),
              Rules!Given("target", IF o.provider = "anthropic" THEN {"max_tokens"} ELSE {}, 1024))))
    BY DEF Rules!starterConfigForProvider
  <2>4. Whole(start.num)
    BY <2>3, StarterNumbersAreWhole, OverWhole, GivenWhole
  <2>5. PICK x, y : start.scenarios = <<x, y>>
    BY DEF Rules!starterConfigForProvider
  <2>6. <<x, y>> \in Seq({x, y})
    OBVIOUS
  <2> QED BY <2>2, <2>4, <2>5, <2>6 DEF WellFormed, Listed
<1>2. Rules!StarterFor(given) = IF o.agent THEN Rules!applyStarterIntegrations(Rules!applyStarterProfile(named, o), o) ELSE c
  BY DEF Rules!StarterFor, Rules!starterAgentConfig
<1> HIDE DEF o, start
<1>3. WellFormed(c)
  BY <1>1, ProfileIsWellFormed, IntegrationsAreWellFormed
<1> HIDE DEF c
<1>4. WellFormed(named)
  <2>1. PICK texts, paths : /\ Tabular(texts) /\ Tabular(paths)
                            /\ named = [c EXCEPT !.text = texts, !.path = paths]
    BY OverIsTabular
  <2> HIDE DEF named
  <2>2. /\ named.num = c.num /\ named.text = texts /\ named.path = paths /\ named.sinks = c.sinks
        /\ named.scenarios = c.scenarios
        /\ named = [on |-> named.on, num |-> named.num, text |-> named.text, path |-> named.path, sinks |-> named.sinks,
                    summaries |-> named.summaries, scenarios |-> named.scenarios]
    BY <1>3, <2>1 DEF WellFormed, ConfigShape
  <2> QED BY <1>3, <2>1, <2>2 DEF WellFormed, ConfigShape
<1> HIDE DEF named
<1> QED BY <1>2, <1>3, <1>4, ProfileIsWellFormed, IntegrationsAreWellFormed

(* The invariant, and what follows from it.                                  *)

\* The shape of the file and where the loaded configuration comes from.
RulesInvariant ==
  /\ ruleStage \notin {"setup", "refused"} => WellFormed(ruleFile)
  /\ ruleStage \in {"loaded", "rejected"} => loaded = Rules!applyDefaults(ruleFile)
  /\ ruleStage = "loaded" => Rules!ValidateConfig(loaded) = {}

\* An edit changes one field and leaves the file well formed.
LEMMA EditIsWellFormed ==
  ASSUME WellFormed(ruleFile), Rules!RulesAssumption, Rules!Edit PROVE WellFormed(ruleFile')
<1> USE DEF WellFormed
<1> DEFINE withNum(num) == [ruleFile EXCEPT !.num = num]
           withText(text) == [ruleFile EXCEPT !.text = text]
           withPath(path) == [ruleFile EXCEPT !.path = path]
           withOn(on) == [ruleFile EXCEPT !.on = on]
           withScenarios(list) == [ruleFile EXCEPT !.scenarios = list]
<1>1. ASSUME NEW h, Tabular(h)
      PROVE  (Whole(h) => WellFormed(withNum(h))) /\ WellFormed(withText(h)) /\ WellFormed(withPath(h))
  BY <1>1 DEF ConfigShape
<1>2. \A h : WellFormed(withOn(h)) /\ (Listed(h) => WellFormed(withScenarios(h)))
  BY DEF ConfigShape
<1>3. CASE \E t \in Targets :
        ruleFile' = [ruleFile EXCEPT !.text = Rules!Over(Rules!Table(t.section, t.fields),
                                           [x \in {y \in DOMAIN @ : y[1] # t.section} |-> @[x]])]
  <2>1. PICK h : Tabular(h) /\ ruleFile' = withText(h)
    BY <1>3, OverIsTabular
  <2> HIDE DEF withText
  <2> QED BY <1>1, <2>1
<1>4. ASSUME NEW e \in RuleEdits, ruleFile' = CASE e.kind = "num" -> Rules!SetNum(ruleFile, e.field, e.value)
               [] e.kind = "text" -> Rules!SetText(ruleFile, e.field, e.value)
               [] e.kind = "switch" ->
                    [ruleFile EXCEPT !.on = IF e.field \in @ THEN @ \ {e.field} ELSE @ \cup {e.field}]
               [] e.kind = "unset path" -> [ruleFile EXCEPT !.path = [p \in DOMAIN @ \ {e.field} |-> @[p]]]
               [] OTHER -> [ruleFile EXCEPT !.scenarios = Append(@, e.value)]
      PROVE  WellFormed(ruleFile')
  <2>1. ASSUME e.kind = "num" PROVE \E h : Tabular(h) /\ Whole(h) /\ Rules!SetNum(ruleFile, e.field, e.value) = withNum(h)
    <3> DEFINE less == [x \in DOMAIN ruleFile.num \ {e.field} |-> ruleFile.num[x]]
               one == [x \in {e.field} |-> e.value]
               more == Rules!Over(one, ruleFile.num)
    <3>1. Rules!SetNum(ruleFile, e.field, e.value) = withNum(IF Rules!IsLeftOut(e.field, e.value) THEN less ELSE more)
      BY DEF Rules!SetNum
    <3>2. Tabular(less) /\ Whole(less) /\ Tabular(more)
      BY OverIsTabular DEF Tabular, Whole
    <3>3. ASSUME ~Rules!IsLeftOut(e.field, e.value) PROVE Whole(more)
      <4>1. Whole(one)
        BY <2>1, <3>3 DEF Rules!RulesAssumption, Rules!IsLeftOut, Whole
      <4> HIDE DEF one
      <4> QED BY <4>1, OverWhole
    <3> HIDE DEF less, more, withNum
    <3> QED BY <3>1, <3>2, <3>3
  <2>2. /\ \E h : Tabular(h) /\ Rules!SetText(ruleFile, e.field, e.value) = withText(h)
        /\ \E h : Tabular(h) /\ [ruleFile EXCEPT !.path = [p \in DOMAIN @ \ {e.field} |-> @[p]]] = withPath(h)
    <3>1. \A x, y : Tabular([p \in DOMAIN x \ {y} |-> x[p]])
      BY DEF Tabular
    <3> QED BY <3>1, OverIsTabular DEF Rules!SetText
  <2>3. \/ e.kind = "num" /\ ruleFile' = Rules!SetNum(ruleFile, e.field, e.value)
        \/ ruleFile' = Rules!SetText(ruleFile, e.field, e.value)
        \/ ruleFile' = [ruleFile EXCEPT !.path = [p \in DOMAIN @ \ {e.field} |-> @[p]]]
        \/ \E h : ruleFile' = withOn(h)
        \/ \E h : Listed(h) /\ ruleFile' = withScenarios(h)
    <3>1. Listed(Append(ruleFile.scenarios, e.value))
      <4>1. PICK S : ruleFile.scenarios \in Seq(S)
        BY DEF Listed
      <4>2. ruleFile.scenarios \in Seq(S \cup {e.value})
        BY <4>1
      <4>3. Append(ruleFile.scenarios, e.value) \in Seq(S \cup {e.value})
        BY <4>2
      <4> QED BY <4>3 DEF Listed
    <3> QED BY <1>4, <3>1
  <2>4. \/ \E h : Tabular(h) /\ (ruleFile' \in {withText(h), withPath(h)} \/ (Whole(h) /\ ruleFile' = withNum(h)))
        \/ \E h : ruleFile' = withOn(h) \/ (Listed(h) /\ ruleFile' = withScenarios(h))
    BY <2>1, <2>2, <2>3
  <2> HIDE DEF withNum, withText, withPath, withOn, withScenarios, WellFormed
  <2> QED BY <1>1, <1>2, <2>4
<1> QED BY <1>3, <1>4 DEF Rules!Edit

\* The invariant, by the steps of a setup, an edit and a load.
LEMMA RulesSteps ==
  /\ Rules!Init => RulesInvariant
  /\ Rules!RulesAssumption /\ RulesInvariant /\ (Rules!Next \/ UNCHANGED ruleVars) => RulesInvariant'
<1>1. Rules!Init => RulesInvariant
  BY DEF Rules!Init, RulesInvariant
<1>2. ASSUME Rules!RulesAssumption, RulesInvariant, Rules!Next \/ UNCHANGED ruleVars PROVE RulesInvariant'
  <2>1. CASE Rules!Setup
    BY <2>1, StarterIsWellFormed DEF Rules!Setup, RulesInvariant
  <2>2. CASE Rules!Edit
    <3>1. WellFormed(ruleFile) /\ ruleStage' = "edited"
      BY <1>2, <2>2 DEF Rules!Edit, RulesInvariant
    <3>2. WellFormed(ruleFile')
      BY <1>2, <2>2, <3>1, EditIsWellFormed
    <3> QED BY <3>1, <3>2 DEF RulesInvariant
  <2>3. CASE Rules!LoadConfigFile
    BY <1>2, <2>3 DEF Rules!LoadConfigFile, RulesInvariant
  <2>4. CASE UNCHANGED ruleVars
    BY <1>2, <2>4 DEF ruleVars, RulesInvariant
  <2> QED BY <1>2, <2>1, <2>2, <2>3, <2>4 DEF Rules!Next
<1> QED BY <1>1, <1>2

\* What was loaded has been filled in.
LEMMA RulesSettle == RulesInvariant => Rules!DefaultsSettle
<1> SUFFICES ASSUME RulesInvariant, ruleStage \in {"loaded", "rejected"} PROVE Rules!DefaultsSettle
  BY DEF Rules!DefaultsSettle
<1>1. ConfigShape(ruleFile) /\ loaded = Rules!applyDefaults(ruleFile)
  BY DEF RulesInvariant, WellFormed, WellFormed
<1>2. AllFilled(loaded) /\ ConfigShape(loaded) /\ \E S : Stays(ruleFile, loaded, S)
  BY <1>1, DefaultsFill
<1>3. Rules!applyDefaults(loaded) = loaded
  BY <1>2, FilledIsSettled
<1> QED BY <1>2, <1>3 DEF Rules!DefaultsSettle, Stays, Replaced

\* AcceptedConfigsRun, part by part.
TargetRuns(c) ==
  /\ Rules!TargetType(c, "target") \in Rules!OpenAIFamily \cup {"anthropic"} => Rules!Text(c, <<"target", "model">>) # ""
  /\ Rules!TargetType(c, "target") \in {"http", "graphql", "mcp"} => Rules!Text(c, <<"target", "url">>) \notin {"", "relative"}

SuitesRun(c) ==
  /\ "load" \in c.on => c.num[<<"load", "virtual_users">>] * c.num[<<"load", "requests_per_user">>] > 0
  /\ "drift" \in c.on => c.num[<<"drift", "iterations">>] >= 2 /\ c.num[<<"drift", "max_snapshot_drift">>] \in 1 .. 1000
  /\ "chaos" \in c.on => c.num[<<"chaos", "timeout_scale">>] > 0

JudgeRuns(c) ==
  "judge" \in c.on => /\ c.num[<<"judge", "scale">>] >= 2 /\ c.num[<<"judge", "samples">>] >= 1
                      /\ Rules!Text(c, <<"provider", "type">>) # ""
                      /\ Rules!IsPairwise(c) => Rules!Text(c, <<"baseline", "type">>) # ""

ReportsRun(c) ==
  /\ "gates" \in c.on => "trend" \in DOMAIN c.path /\ c.num[<<"gates", "required_window">>] >= 2
  /\ "attestation" \in c.on => "attestation" \in DOMAIN c.path /\ Rules!Text(c, <<"attestation", "key_env">>) # ""

NamesDiffer(c) == \A i, j \in DOMAIN c.scenarios : i # j => c.scenarios[i].name # c.scenarios[j].name

\* The drift thresholds are between 0 and 1.
LEMMA DriftInside ==
  ASSUME NEW c, "drift" \in c.on, Rules!DriftErrors(c) = {}
  PROVE  /\ Rules!Below(c, "drift", {"iterations"}, 2) = {}
         /\ Rules!Num(c, <<"drift", "max_snapshot_drift">>) \in 0 .. 1000
<1> DEFINE names == {"max_normalized_drift", "max_semantic_drift", "max_snapshot_drift",
                     "max_semantic_snapshot_drift", "min_consistency_score", "min_semantic_consistency_score",
                     "confidence_level", "min_pass_rate", "max_flake_rate"}
<1>1. Rules!DriftErrors(c) = Rules!Below(c, "drift", {"iterations"}, 2) \cup Rules!OutsideUnit(c, "drift", names)
  BY DEF Rules!DriftErrors
<1>2. "max_snapshot_drift" \in names
  OBVIOUS
<1> HIDE DEF names
<1>3. Rules!Below(c, "drift", {"iterations"}, 2) = {} /\ Rules!OutsideUnit(c, "drift", names) = {}
  BY <1>1
<1>4. Rules!Num(c, <<"drift", "max_snapshot_drift">>) \in 0 .. 1000
  BY <1>2, <1>3 DEF Rules!OutsideUnit
<1> QED BY <1>3, <1>4

\* No error of the validation and all defaults: each part can be run.
LEMMA AcceptedRuns ==
  ASSUME NEW c, AllFilled(c), Whole(c.num), Listed(c.scenarios), Rules!ValidateConfig(c) = {}
  PROVE  TargetRuns(c) /\ SuitesRun(c) /\ JudgeRuns(c) /\ ReportsRun(c) /\ NamesDiffer(c)
<1>1. /\ Rules!TargetErrors(c, "target") = {} /\ Rules!LoadErrors(c) = {} /\ Rules!ChaosErrors(c) = {} /\ Rules!DriftErrors(c) = {}
      /\ Rules!JudgeErrors(c) = {} /\ Rules!ReportingErrors(c) = {} /\ Rules!GovernanceErrors(c) = {} /\ Rules!ScenarioErrors(c) = {}
  BY DEF Rules!ValidateConfig
<1>2. \A s, names : Rules!Missing(c, s, names) = {} => \A n \in names : Rules!Text(c, <<s, n>>) # ""
  BY DEF Rules!Missing
<1>3. \A s, names : Rules!Relative(c, s, names) = {} => \A n \in names : Rules!Text(c, <<s, n>>) # "relative"
  BY DEF Rules!Relative, Rules!Absolute
<1>4. ASSUME NEW s, NEW n, <<s, n>> \in DOMAIN c.num
      PROVE  /\ Rules!Num(c, <<s, n>>) = c.num[<<s, n>>] /\ c.num[<<s, n>>] \in Int
             /\ s # "gates" => c.num[<<s, n>>] # 0
  <2>1. <<s, n>>[1] = s
    OBVIOUS
  <2> QED BY <1>4, <2>1 DEF Rules!Num, Whole
<1>5. \A s, names, low : Rules!Below(c, s, names, low) = {} => \A n \in names : ~(Rules!Num(c, <<s, n>>) < low)
  BY DEF Rules!Below
<1>6. \A s, names : Rules!Negative(c, s, names) = {} => \A n \in names : ~(Rules!Num(c, <<s, n>>) < 0)
  BY DEF Rules!Negative
<1>7. /\ Rules!TargetType(c, "target") \in Rules!OpenAIFamily \cup {"anthropic"} => Rules!Text(c, <<"target", "model">>) # ""
      /\ Rules!TargetType(c, "target") \in {"http", "graphql", "mcp"} => Rules!Text(c, <<"target", "url">>) \notin {"", "relative"}
  <2> DEFINE type == Rules!TargetType(c, "target")
  <2>1. CASE type \in Rules!OpenAIFamily
    <3>1. Rules!Missing(c, "target", {"model"}) = {} /\ type \notin {"http", "graphql", "mcp"}
      BY <1>1, <2>1 DEF Rules!TargetErrors, Rules!OpenAIFamily
    <3> QED BY <1>2, <3>1
  <2>2. CASE type = "anthropic"
    <3>1. Rules!Missing(c, "target", {"model"}) = {}
      BY <1>1, <2>2 DEF Rules!TargetErrors, Rules!OpenAIFamily
    <3> QED BY <1>2, <2>2, <3>1
  <2>3. CASE type \in {"http", "graphql", "mcp"}
    <3>1. type \notin Rules!OpenAIFamily \cup {"anthropic"}
      BY <2>3 DEF Rules!OpenAIFamily
    <3>2. Rules!Relative(c, "target", {"url"}) = {} /\ \E names : "url" \in names /\ Rules!Missing(c, "target", names) = {}
      BY <1>1, <2>3 DEF Rules!TargetErrors, Rules!OpenAIFamily
    <3> QED BY <1>2, <1>3, <3>1, <3>2
  <2> QED BY <2>1, <2>2, <2>3
<1>8. ASSUME "load" \in c.on
       PROVE  c.num[<<"load", "virtual_users">>] * c.num[<<"load", "requests_per_user">>] > 0
  <2>1. Rules!Below(c, "load", {"virtual_users", "requests_per_user"}, 1) = {}
    BY <1>1, <1>8 DEF Rules!LoadErrors
  <2>2. <<"load", "virtual_users">> \in DOMAIN c.num /\ <<"load", "requests_per_user">> \in DOMAIN c.num
    BY <1>8 DEF AllFilled, SectionFilled, Has, LoadFields
  <2> DEFINE x == c.num[<<"load", "virtual_users">>] y == c.num[<<"load", "requests_per_user">>]
  <2>3. x \in Int /\ x >= 1 /\ y \in Int /\ y >= 1
    BY <1>4, <1>5, <2>1, <2>2
  <2> HIDE DEF x, y
  <2>4. x * y > 0
    BY <2>3
  <2> QED BY <2>4 DEF x, y
<1>9. ASSUME "drift" \in c.on
       PROVE  c.num[<<"drift", "iterations">>] >= 2 /\ c.num[<<"drift", "max_snapshot_drift">>] \in 1 .. 1000
  <2>1. Rules!Below(c, "drift", {"iterations"}, 2) = {} /\ Rules!Num(c, <<"drift", "max_snapshot_drift">>) \in 0 .. 1000
    BY <1>1, <1>9, DriftInside
  <2>2. <<"drift", "iterations">> \in DOMAIN c.num /\ <<"drift", "max_snapshot_drift">> \in DOMAIN c.num
    BY <1>9 DEF AllFilled, SectionFilled, Has, DriftFields
  <2>3. c.num[<<"drift", "iterations">>] >= 2
    BY <1>4, <1>5, <2>1, <2>2
  <2> DEFINE x == c.num[<<"drift", "max_snapshot_drift">>]
  <2>4. x \in 0 .. 1000 /\ x # 0
    BY <1>4, <2>1, <2>2
  <2> HIDE DEF x
  <2>5. x \in 1 .. 1000
    BY <2>4
  <2> QED BY <2>3, <2>5 DEF x
<1>10. ASSUME "chaos" \in c.on PROVE c.num[<<"chaos", "timeout_scale">>] > 0
  <2>1. Rules!Below(c, "chaos", {"timeout_scale"}, 1) = {}
    BY <1>1, <1>10 DEF Rules!ChaosErrors
  <2>2. <<"chaos", "timeout_scale">> \in DOMAIN c.num
    BY <1>10 DEF AllFilled, SectionFilled, Has, ChaosFields
  <2> QED BY <1>4, <1>5, <2>1, <2>2
<1>11. ASSUME "judge" \in c.on
       PROVE  /\ c.num[<<"judge", "scale">>] >= 2 /\ c.num[<<"judge", "samples">>] >= 1
              /\ Rules!Text(c, <<"provider", "type">>) # ""
              /\ Rules!IsPairwise(c) => Rules!Text(c, <<"baseline", "type">>) # ""
  <2> DEFINE ScaleIsRefused == Rules!Num(c, <<"judge", "scale">>) # 0 /\ Rules!Num(c, <<"judge", "scale">>) < 2
  <2>1. /\ Rules!ProviderErrors(c, "provider") = {} /\ (Rules!IsPairwise(c) => Rules!ProviderErrors(c, "baseline") = {})
        /\ ~ScaleIsRefused
        /\ Rules!Negative(c, "judge", {"samples", "max_calibration_mae"}) = {}
    <3> DEFINE provider == Rules!ProviderErrors(c, "provider")
               baseline == Rules!ProviderErrors(c, "baseline")
               pair == IF Rules!IsPairwise(c) THEN baseline \cup Rules!OutsideUnit(c, "judge", {"min_win_rate"}) ELSE {}
               scale == IF ScaleIsRefused THEN {<<"judge", "scale">>} ELSE {}
               negative == Rules!Negative(c, "judge", {"samples", "max_calibration_mae"})
               mode == IF Rules!Text(c, <<"judge", "mode">>) \notin {"", "score", "pairwise"} THEN {<<"judge", "mode">>} ELSE {}
               ranges == Rules!OutsideUnit(c, "judge", {"min_score", "confidence_level", "min_pass_rate", "max_flake_rate",
                                                  "max_disagreement", "cascade_margin", "min_calibration_accuracy"})
               calibration == IF \/ Rules!Num(c, <<"judge", "min_calibration_accuracy">>) > 0
                                 \/ Rules!Num(c, <<"judge", "max_calibration_mae">>) > 0
                              THEN Rules!Missing(c, "judge", {"calibration_file"}) ELSE {}
    <3>1. Rules!JudgeErrors(c) = provider \cup mode \cup pair \cup scale \cup negative \cup ranges \cup calibration
      BY <1>11 DEF Rules!JudgeErrors
    <3> HIDE DEF provider, pair, scale, negative, mode, ranges, calibration
    <3>2. provider = {} /\ pair = {} /\ scale = {} /\ negative = {}
      BY <1>1, <3>1
    <3> HIDE DEF baseline
    <3>3. Rules!IsPairwise(c) => baseline = {}
      BY <3>2 DEF pair
    <3>4. ~ScaleIsRefused
      BY <3>2 DEF scale
    <3> QED BY <3>2, <3>3, <3>4 DEF provider, baseline, negative
  <2>2. <<"judge", "scale">> \in DOMAIN c.num /\ <<"judge", "samples">> \in DOMAIN c.num
    BY <1>11 DEF AllFilled, JudgeFilled, Has, ScaleFields
  <2>3. c.num[<<"judge", "scale">>] >= 2
    BY <1>4, <2>1, <2>2
  <2>4. c.num[<<"judge", "samples">>] >= 1
    BY <1>4, <1>6, <2>1, <2>2
  <2>5. Rules!Missing(c, "provider", {"type"}) = {} /\ (Rules!IsPairwise(c) => Rules!Missing(c, "baseline", {"type"}) = {})
    BY <2>1 DEF Rules!ProviderErrors
  <2> QED BY <1>2, <2>3, <2>4, <2>5
<1>12. ASSUME "gates" \in c.on PROVE "trend" \in DOMAIN c.path /\ c.num[<<"gates", "required_window">>] >= 2
  <2>1. "trend" \in DOMAIN c.path /\ Rules!Below(c, "gates", {"required_window"}, 2) = {}
    BY <1>1, <1>12 DEF Rules!ReportingErrors
  <2>2. <<"gates", "required_window">> \in DOMAIN c.num
    BY <1>12 DEF AllFilled, ReportingFilled, Has
  <2> QED BY <1>4, <1>5, <2>1, <2>2
<1>13. ASSUME "attestation" \in c.on PROVE "attestation" \in DOMAIN c.path /\ Rules!Text(c, <<"attestation", "key_env">>) # ""
  <2>1. Rules!Missing(c, "attestation", {"key_env"}) = {} /\ "attestation" \in DOMAIN c.path
    BY <1>1, <1>13 DEF Rules!GovernanceErrors
  <2> QED BY <1>2, <2>1
<1>14. ASSUME NEW i \in DOMAIN c.scenarios, NEW j \in DOMAIN c.scenarios, i # j
       PROVE  c.scenarios[i].name # c.scenarios[j].name
  <2> DEFINE names == [k \in DOMAIN c.scenarios |-> c.scenarios[k].name]
  <2>1. {<<"scenarios", names[k]>> : k \in {m \in DOMAIN names : \E q \in 1 .. m - 1 : names[q] = names[m]}} = {}
    BY <1>1 DEF Rules!ScenarioErrors
  <2>2. \A m \in DOMAIN names : \A q \in 1 .. m - 1 : names[q] # names[m]
    BY <2>1
  <2>3. \A k \in DOMAIN c.scenarios : k \in Int /\ k >= 1
    BY DEF Listed
  <2>4. names[i] = c.scenarios[i].name /\ names[j] = c.scenarios[j].name /\ DOMAIN names = DOMAIN c.scenarios
    OBVIOUS
  <2> HIDE DEF names
  <2>5. i < j \/ j < i
    BY <1>14, <2>3
  <2>6. i < j => names[i] # names[j]
    BY <2>2, <2>3, <2>4
  <2>7. j < i => names[i] # names[j]
    BY <2>2, <2>3, <2>4
  <2> QED BY <2>4, <2>5, <2>6, <2>7
<1>15. TargetRuns(c)
  BY <1>7 DEF TargetRuns
<1>16. SuitesRun(c)
  BY <1>8, <1>9, <1>10, Zenon DEF SuitesRun
<1>17. JudgeRuns(c)
  BY <1>11 DEF JudgeRuns
<1>18. ReportsRun(c)
  BY <1>12, <1>13 DEF ReportsRun
<1>19. NamesDiffer(c)
  BY <1>14 DEF NamesDiffer
<1> QED BY <1>15, <1>16, <1>17, <1>18, <1>19

\* What was accepted is such a configuration.
LEMMA RulesAccept == RulesInvariant => Rules!AcceptedConfigsRun
<1> SUFFICES ASSUME RulesInvariant, ruleStage = "loaded" PROVE Rules!AcceptedConfigsRun
  BY DEF Rules!AcceptedConfigsRun
<1>1. ConfigShape(ruleFile) /\ Whole(ruleFile.num) /\ loaded = Rules!applyDefaults(ruleFile) /\ Rules!ValidateConfig(loaded) = {}
  BY DEF RulesInvariant, WellFormed
<1>2. loaded.scenarios = ruleFile.scenarios
  BY <1>1, DefaultsFill DEF Stays
<1>3. AllFilled(loaded) /\ Whole(loaded.num) /\ Listed(loaded.scenarios)
  BY <1>1, <1>2, DefaultsFill, DefaultsWhole DEF RulesInvariant, WellFormed
<1>4. TargetRuns(loaded) /\ SuitesRun(loaded) /\ JudgeRuns(loaded) /\ ReportsRun(loaded) /\ NamesDiffer(loaded)
  BY <1>1, <1>3, AcceptedRuns
<1> QED BY <1>4 DEF Rules!AcceptedConfigsRun, TargetRuns, SuitesRun, JudgeRuns, ReportsRun, NamesDiffer


LEMMA RulesInvariantHolds == ServicesSpec => []RulesInvariant
<1>1. ServicesInit => RulesInvariant
  BY RulesSteps DEF ServicesInit
<1>2. [ServicesNext]_all => [Rules!Next]_(Rules!vars)
  BY DEF ServicesNext, all, ruleVars, Rules!vars
<1>3. RulesInvariant /\ [ServicesNext]_all => RulesInvariant'
  BY <1>2, RulesAssumption, RulesSteps DEF Rules!vars, ruleVars
<1> QED BY <1>1, <1>3, PTL DEF ServicesSpec

\* For any options of the setup, targets and edits: what a load has filled in
\* a second load leaves alone, so a configuration that is written as it was
\* loaded loads as it was, and no number, text or path that a file gives is
\* replaced but a scale and samples the judge cannot use (applyDefaults).
THEOREM RulesDefaultsSettle == ServicesSpec => []Rules!DefaultsSettle
<1> QED BY RulesSettle, RulesInvariantHolds, PTL

\* And what the validation accepts can be run: whatever was edited, the suites
\* that are on have the sizes, ranges, models, paths and keys that their code
\* divides by, indexes or opens without another check (ValidateConfig).
THEOREM RulesAcceptedConfigsRun == ServicesSpec => []AcceptedConfigsRun
<1>1. RulesInvariant => AcceptedConfigsRun
  BY RulesAccept, RulesSettle DEF AcceptedConfigsRun
<1> QED BY <1>1, RulesInvariantHolds, PTL

=============================================================================
