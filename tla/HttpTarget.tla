----------------------------- MODULE HttpTarget -----------------------------
(***************************************************************************)
(* One Invoke of the HTTP, OpenAI or Anthropic target                       *)
(* (cleanr/adapters/http.go, openai.go, anthropic.go): doWithRetry sends    *)
(* the request up to three times under one deadline, waiting with backoff   *)
(* or as long as Retry-After asks between two attempts; the caller then     *)
(* reads the body of the response it was given and classifies it.           *)
(* Time is counted in ticks of 100 ms.  An answer is its status and its     *)
(* Retry-After; its body is not empty.                                      *)
(***************************************************************************)
EXTENDS Naturals, Sequences

CONSTANTS Kind,         \* which target: "http", "openai" or "anthropic"
          Deadline,     \* the tick at which reqCtx expires
          Statuses,     \* statuses the server may answer with
          RetryAfters,  \* seconds of Retry-After in ticks, 0: no such header
          MaxClock,     \* bound: the last tick
          Nothing       \* no response yet

ASSUME HttpAssumption ==
  /\ Kind \in {"http", "openai", "anthropic"}
  /\ Deadline \in Nat /\ MaxClock \in Nat /\ Deadline <= MaxClock
  /\ Statuses \subseteq 100 .. 599
  /\ RetryAfters \subseteq Nat
  /\ Nothing \notin [status : Nat, err : BOOLEAN]

VARIABLES pc,         \* where doWithRetry and its caller are
          attempt,    \* loop variable
          clock,      \* now
          cancelled,  \* the context of the run is cancelled
          wake,       \* the tick the last backoff ends or would have ended
          answer,     \* lastResp: status and Retry-After, 0 when it is nil
          bodyOpen,   \* lastResp.Body is not closed yet
          broken,     \* the connection broke while the body was read
          log,        \* the attempts: context, start, end and what came
          result      \* the core.Response

vars == <<pc, attempt, clock, cancelled, wake, answer, bodyOpen, broken, log, result>>

MaxRequestAttempts == 3

NoAnswer == [status |-> 0, retryAfter |-> 0]
Answers == [status : Statuses, retryAfter : RetryAfters]
Attempts == [live : BOOLEAN, start : Nat, at : Nat, answer : Answers \cup {NoAnswer}]
Responses == [status : Nat, err : BOOLEAN]

CtxDone == cancelled \/ clock >= Deadline

\* Mutant: every server error is retried, a 500 the target answered included.
RetryableStatusAnyServerError(status) == status = 429 \/ status >= 500

RetryableStatus(status) == status \in {429, 503}

\* backoffDelay: Retry-After, or 200 ms doubled per attempt with a jitter of
\* up to half of it.
BackoffDelay(i, a) ==
  IF a.retryAfter > 0 THEN {a.retryAfter} ELSE 2 * 2^i .. 3 * 2^i

\* The caller's last step: the OpenAI and Anthropic targets make an error of
\* a status of 400 and above, the HTTP target leaves it to the suites.
Classify(a) ==
  [status |-> a.status, err |-> Kind # "http" /\ a.status >= 400]

-----------------------------------------------------------------------------
TypeOK ==
  /\ pc \in {"build", "do", "judge", "sleep", "read", "done"}
  /\ attempt \in 0 .. MaxRequestAttempts - 1
  /\ clock \in 0 .. MaxClock
  /\ cancelled \in BOOLEAN
  /\ wake \in Nat
  /\ answer \in Answers \cup {NoAnswer}
  /\ bodyOpen \in BOOLEAN
  /\ broken \in BOOLEAN
  /\ log \in Seq(Attempts)
  /\ result \in Responses \cup {Nothing}

Init ==
  /\ pc = "build"
  /\ attempt = 0
  /\ clock = 0
  /\ cancelled = FALSE
  /\ wake = 0
  /\ answer = NoAnswer
  /\ bodyOpen = FALSE
  /\ broken = FALSE
  /\ log = <<>>
  /\ result = Nothing

\* build fails for a method or URL that makes no request.
BuildFails ==
  /\ pc = "build" /\ attempt = 0
  /\ pc' = "done"
  /\ result' = [status |-> 0, err |-> TRUE]
  /\ UNCHANGED <<attempt, clock, cancelled, wake, answer, bodyOpen, broken, log>>

\* client.Do starts; with a context that is over it can only fail.
Send ==
  /\ pc = "build"
  /\ pc' = "do"
  /\ log' = Append(log, [live |-> ~CtxDone, start |-> clock, at |-> clock, answer |-> NoAnswer])
  /\ UNCHANGED <<attempt, clock, cancelled, wake, answer, bodyOpen, broken, result>>

\* client.Do returns a response, ...
Receive ==
  /\ pc = "do"
  /\ log[Len(log)].live
  /\ \E a \in Answers :
       /\ answer' = a
       /\ log' = [log EXCEPT ![Len(log)] = [@ EXCEPT !.at = clock, !.answer = a]]
  /\ bodyOpen' = TRUE
  /\ pc' = "judge"
  /\ UNCHANGED <<attempt, clock, cancelled, wake, broken, result>>

\* Mutant: the request is not made with the context of the call.
TransportErrorWithoutContext ==
  /\ pc = "do" /\ ~CtxDone
  /\ answer' = NoAnswer
  /\ log' = [log EXCEPT ![Len(log)] = [@ EXCEPT !.at = clock]]
  /\ pc' = "judge"
  /\ UNCHANGED <<attempt, clock, cancelled, wake, bodyOpen, broken, result>>

\* ... or a transport error, the end of the context among them.
TransportError ==
  /\ pc = "do"
  /\ answer' = NoAnswer
  /\ log' = [log EXCEPT ![Len(log)] = [@ EXCEPT !.at = clock]]
  /\ pc' = "judge"
  /\ UNCHANGED <<attempt, clock, cancelled, wake, bodyOpen, broken, result>>

\* What doWithRetry returns goes to the caller: an error ends the call, a
\* response has its body read.
Hand ==
  IF answer = NoAnswer
    THEN pc' = "done" /\ result' = [status |-> 0, err |-> TRUE]
    ELSE pc' = "read" /\ result' = result

\* Mutant: the loop ends one attempt early.
AcceptOneEarly ==
  /\ pc = "judge"
  /\ \/ answer # NoAnswer /\ ~RetryableStatus(answer.status)
     \/ attempt = MaxRequestAttempts - 2
  /\ Hand
  /\ UNCHANGED <<attempt, clock, cancelled, wake, answer, bodyOpen, broken, log>>

\* An answer that is not to be retried, or the last attempt.
Accept ==
  /\ pc = "judge"
  /\ \/ answer # NoAnswer /\ ~RetryableStatus(answer.status)
     \/ attempt = MaxRequestAttempts - 1
  /\ Hand
  /\ UNCHANGED <<attempt, clock, cancelled, wake, answer, bodyOpen, broken, log>>

\* Mutant: the body is not closed before the pause.
BackOffLeavingBody ==
  /\ pc = "judge"
  /\ answer = NoAnswer \/ RetryableStatus(answer.status)
  /\ attempt < MaxRequestAttempts - 1
  /\ \E d \in BackoffDelay(attempt, answer) :
       /\ wake' = clock + d
       /\ IF clock + d < Deadline
            THEN pc' = "sleep" /\ result' = result
            ELSE Hand
  /\ UNCHANGED <<attempt, clock, cancelled, answer, bodyOpen, broken, log>>

\* Another attempt is due: the body is closed, then sleepWithin looks whether
\* the wait fits into what is left of the deadline.
BackOff ==
  /\ pc = "judge"
  /\ answer = NoAnswer \/ RetryableStatus(answer.status)
  /\ attempt < MaxRequestAttempts - 1
  /\ bodyOpen' = FALSE
  /\ \E d \in BackoffDelay(attempt, answer) :
       /\ wake' = clock + d
       /\ IF clock + d < Deadline
            THEN pc' = "sleep" /\ result' = result
            ELSE Hand
  /\ UNCHANGED <<attempt, clock, cancelled, answer, broken, log>>

\* The select of sleepWithin: the timer, or the context.
Wake ==
  /\ pc = "sleep" /\ clock >= wake
  /\ attempt' = attempt + 1
  /\ pc' = "build"
  /\ UNCHANGED <<clock, cancelled, wake, answer, bodyOpen, broken, log, result>>

GiveUp ==
  /\ pc = "sleep" /\ CtxDone
  /\ Hand
  /\ UNCHANGED <<attempt, clock, cancelled, wake, answer, bodyOpen, broken, log>>

\* Mutant: the error of ReadAll is dropped.
ReadBodyIgnoringError ==
  /\ pc = "read"
  /\ \E ok \in BOOLEAN :
       /\ ok => bodyOpen
       /\ broken' = (bodyOpen /\ ~ok)
       /\ result' = Classify(answer)
  /\ bodyOpen' = FALSE
  /\ pc' = "done"
  /\ UNCHANGED <<attempt, clock, cancelled, wake, answer, log>>

\* io.ReadAll, or parseSSEStream, and the deferred Close.  A closed body
\* cannot be read; an open one may break off.
ReadBody ==
  /\ pc = "read"
  /\ \E ok \in BOOLEAN :
       /\ ok => bodyOpen
       /\ broken' = (bodyOpen /\ ~ok)
       /\ result' = IF ok THEN Classify(answer) ELSE [status |-> answer.status, err |-> TRUE]
  /\ bodyOpen' = FALSE
  /\ pc' = "done"
  /\ UNCHANGED <<attempt, clock, cancelled, wake, answer, log>>

\* The environment: time passes, the run is cancelled.
Tick ==
  /\ pc # "done" /\ clock < MaxClock
  /\ clock' = clock + 1
  /\ UNCHANGED <<pc, attempt, cancelled, wake, answer, bodyOpen, broken, log, result>>

Cancel ==
  /\ pc # "done" /\ ~cancelled
  /\ cancelled' = TRUE
  /\ UNCHANGED <<pc, attempt, clock, wake, answer, bodyOpen, broken, log, result>>

Step ==
  \/ BuildFails \/ Send \/ Receive \/ TransportError \/ Accept \/ BackOff
  \/ Wake \/ GiveUp \/ ReadBody

Next == Step \/ Tick \/ Cancel

\* Goroutine and clock go on; client.Do returns once its context has ended.
Fairness ==
  /\ WF_vars(Tick)
  /\ WF_vars(Send \/ Accept \/ BackOff \/ Wake \/ GiveUp \/ ReadBody)
  /\ WF_vars(CtxDone /\ TransportError)

Spec == Init /\ [][Next]_vars /\ Fairness

-----------------------------------------------------------------------------
LastAttempt == log[Len(log)]

Transient(a) == a = NoAnswer \/ a.status \in {429, 503}

\* responseFindings of helpers.go: the suites see a failed call.
HasFindings(resp) == resp.err \/ resp.status >= 400

\* A request is repeated only after a transport error, 429 or 503, at most
\* twice, and not before what Retry-After asked for, or else the backoff of
\* that attempt, has passed (doWithRetry, backoffDelay): the target is never
\* asked twice for an answer it gave, and never earlier than it wants.
RetriesAreEarned ==
  /\ Len(log) <= MaxRequestAttempts
  /\ \A i \in 1 .. Len(log) - 1 :
       /\ Transient(log[i].answer)
       /\ log[i + 1].start - log[i].at >=
            IF log[i].answer.retryAfter > 0 THEN log[i].answer.retryAfter ELSE 2 * 2^(i - 1)

\* Before the third attempt the target gives up on a transient failure only
\* when the run is cancelled or the pause does not end before the deadline.
GivesUpForBudgetOnly ==
  pc = "done" /\ Len(log) \in 1 .. MaxRequestAttempts - 1 /\ Transient(LastAttempt.answer)
    => cancelled \/ wake >= Deadline \/ clock >= Deadline

\* The request is repeated when that was earned and fits, and only then.
RetriesAreEarnedAndMade == TypeOK /\ RetriesAreEarned /\ GivesUpForBudgetOnly

\* No body is open while a request is made, during a pause or after the
\* return: connections go back to the pool that all workers share.
BodiesAreClosed == pc \in {"build", "do", "sleep", "done"} => ~bodyOpen

\* A response in which the suites find nothing is a whole answer below 400.
FailuresAreSeen ==
  pc = "done" /\ ~HasFindings(result) =>
    /\ log # <<>> /\ LastAttempt.answer \in Answers
    /\ LastAttempt.answer.status < 400
    /\ ~broken

\* No body stays open and no failure is taken for an answer.
BodiesAndFailures == BodiesAreClosed /\ FailuresAreSeen

\* Invoke returns, whatever the server does.
Returns == <>(pc = "done")

\* "if the next backoff would exceed the remaining budget it returns the last
\* result instead of waiting" (the comment of doWithRetry): the answer of the
\* last attempt reaches the caller unless the connection broke.
LastResultIsSurfaced ==
  pc = "done" /\ log # <<>> /\ ~broken /\ LastAttempt.answer # NoAnswer
    => result = Classify(LastAttempt.answer)

=============================================================================
