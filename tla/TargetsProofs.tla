---------------------------- MODULE TargetsProofs ----------------------------
(***************************************************************************)
(* Proofs about one call of the HTTP, OpenAI or Anthropic target for every   *)
(* deadline, every set of statuses and every Retry-After: retries are earned *)
(* and made, bodies are closed and failures are seen.  Then about the plugins *)
(* for every set of manifests, and about the answer as it is read for every   *)
(* number of pieces, tool calls, fragments and garbled events, and about the  *)
(* session of an MCP target for any number of calls of Invoke.  At the end,   *)
(* that all of this holds of the composed TargetsSpec.                        *)
(***************************************************************************)
EXTENDS MCTargets, Integers, FiniteSetTheorems, TLAPS

\* The pause that the answer to attempt i asks for.
Asked(i, a) == IF a.retryAfter > 0 THEN a.retryAfter ELSE 2 * 2^i

-----------------------------------------------------------------------------
(***************************************************************************)
(* The inductive invariant: what the log says about where the loop is.       *)
(***************************************************************************)
\* One entry for every attempt that was started, the latest one with lastResp.
LogInv ==
  /\ pc = "build" => Len(log) = attempt
  /\ pc \in {"do", "judge", "sleep"} => Len(log) = attempt + 1
  /\ pc = "read" => Len(log) >= 1
  /\ Len(log) <= attempt + 1
  /\ Len(log) >= 1 => LastAttempt.answer = IF pc = "do" THEN NoAnswer ELSE answer
  /\ Len(log) >= 1 => LastAttempt.at <= clock

\* A pause is at least what the answer asks for, and only a transient failure
\* with a successor has one.
PauseInv ==
  /\ pc \in {"sleep", "build"} /\ Len(log) >= 1 => Transient(answer) /\ attempt < MaxRequestAttempts
  /\ pc = "sleep" => /\ attempt < MaxRequestAttempts - 1
                     /\ wake - LastAttempt.at >= Asked(attempt, answer)
  /\ pc = "build" /\ Len(log) >= 1 => clock - LastAttempt.at >= Asked(attempt - 1, answer)

\* Who gave up had to.
BudgetInv ==
  pc \in {"read", "done"} /\ Len(log) \in 1 .. MaxRequestAttempts - 1 /\ Transient(answer)
    => cancelled \/ wake >= Deadline \/ clock >= Deadline

\* The body belongs to lastResp.
BodyInv ==
  /\ pc \in {"judge", "read"} /\ bodyOpen => answer # NoAnswer
  /\ pc = "read" => answer # NoAnswer

CallInv ==
  /\ TypeOK /\ LogInv /\ PauseInv /\ BudgetInv /\ BodyInv
  /\ RetriesAreEarned /\ BodiesAreClosed /\ FailuresAreSeen

-----------------------------------------------------------------------------
(***************************************************************************)
(* Facts about the data: powers, the log and the answers.                    *)
(***************************************************************************)
\* The backoffs that are used.
LEMMA Powers == \A i \in 0 .. MaxRequestAttempts - 1 : 2^i \in Nat
<1>1. 2^0 = 1 /\ 2^1 = 2 /\ 2^2 = 4
  OBVIOUS
<1>2. \A i \in 0 .. MaxRequestAttempts - 1 : i = 0 \/ i = 1 \/ i = 2
  BY DEF MaxRequestAttempts
<1>3. 1 \in Nat /\ 2 \in Nat /\ 4 \in Nat
  OBVIOUS
<1> QED BY <1>1, <1>2, <1>3, Zenon

\* NoAnswer is told from answers by its status.
LEMMA AnswerTypes ==
  /\ NoAnswer.status = 0 /\ NoAnswer.retryAfter = 0
  /\ \A a \in Answers : /\ a.status \in Nat /\ a.status >= 100
                        /\ a.retryAfter \in Nat /\ a # NoAnswer
<1>1. NoAnswer.status = 0 /\ NoAnswer.retryAfter = 0
  BY DEF NoAnswer
<1>2. ASSUME NEW a \in Answers
      PROVE  a.status \in Nat /\ a.status >= 100 /\ a.retryAfter \in Nat
  <2>1. a.status \in Statuses /\ a.retryAfter \in RetryAfters
    BY DEF Answers
  <2>2. Statuses \subseteq 100 .. 599 /\ RetryAfters \subseteq Nat
    BY HttpAssumption
  <2>3. a.status \in 100 .. 599 /\ a.retryAfter \in Nat
    BY <2>1, <2>2, Zenon
  <2> QED BY <2>3
<1>3. \A a \in Answers : a.status # NoAnswer.status
  BY <1>1, <1>2
<1> QED BY <1>1, <1>2, <1>3

\* A new attempt leaves the others as they are.
LEMMA LogAppend ==
  ASSUME NEW l \in Seq(Attempts), NEW e \in Attempts, NEW m, m = Append(l, e)
  PROVE  /\ m \in Seq(Attempts)
         /\ Len(m) = Len(l) + 1
         /\ m[Len(m)] = e
         /\ \A i \in 1 .. Len(l) : m[i] = l[i]
OBVIOUS

\* So does the end of the latest one.
LEMMA LogEnd ==
  ASSUME NEW l \in Seq(Attempts), Len(l) >= 1, NEW e \in Attempts,
         NEW m, m = [l EXCEPT ![Len(l)] = e]
  PROVE  /\ m \in Seq(Attempts)
         /\ Len(m) = Len(l)
         /\ m[Len(m)] = e
         /\ \A i \in 1 .. Len(l) - 1 : m[i] = l[i]
<1>1. Len(l) \in 1 .. Len(l) /\ Len(l) \in Nat
  OBVIOUS
<1> QED BY <1>1

\* What a call returns is a response.
LEMMA ResponseTypes ==
  /\ [status |-> 0, err |-> TRUE] \in Responses
  /\ HasFindings([status |-> 0, err |-> TRUE])
  /\ \A a \in Answers \cup {NoAnswer} :
       /\ Classify(a) \in Responses /\ Classify(a).status = a.status
       /\ [status |-> a.status, err |-> TRUE] \in Responses
       /\ HasFindings([status |-> a.status, err |-> TRUE])
BY AnswerTypes DEF Responses, Classify, HasFindings

\* The types, as the steps below use them.
LEMMA Types ==
  ASSUME CallInv
  PROVE  /\ log \in Seq(Attempts) /\ Len(log) \in Nat
         /\ attempt \in Nat /\ attempt <= MaxRequestAttempts - 1
         /\ clock \in Nat /\ wake \in Nat /\ Deadline \in Nat
         /\ answer \in Answers \cup {NoAnswer}
         /\ Len(log) >= 1 => /\ LastAttempt \in Attempts
                            /\ LastAttempt.at \in Nat
                            /\ LastAttempt.start \in Nat
<1>1. log \in Seq(Attempts) /\ Len(log) \in Nat
  BY DEF CallInv, TypeOK
<1>2. /\ attempt \in Nat /\ attempt <= MaxRequestAttempts - 1
      /\ clock \in Nat /\ wake \in Nat /\ Deadline \in Nat
      /\ answer \in Answers \cup {NoAnswer}
  BY HttpAssumption DEF CallInv, TypeOK, MaxRequestAttempts
<1>3. Len(log) >= 1 => LastAttempt \in Attempts
  BY <1>1 DEF LastAttempt
<1> QED BY <1>1, <1>2, <1>3 DEF Attempts

\* What is said of the log alone survives a step that leaves the log alone.
LEMMA LogSame ==
  ASSUME RetriesAreEarned, UNCHANGED log
  PROVE  RetriesAreEarned' /\ (Len(log) >= 1 => LastAttempt' = LastAttempt)
BY DEF RetriesAreEarned, Transient, LastAttempt

\* A pause is as long as the answer asks, or longer.
LEMMA Pauses ==
  ASSUME NEW i \in 0 .. MaxRequestAttempts - 1, NEW a \in Answers \cup {NoAnswer}
  PROVE  /\ Asked(i, a) \in Nat
         /\ \A d \in BackoffDelay(i, a) : d \in Nat /\ d >= Asked(i, a)
<1> DEFINE p == 2^i
<1>1. p \in Nat
  BY Powers, Zenon
<1>2. Asked(i, a) = IF a.retryAfter > 0 THEN a.retryAfter ELSE 2 * p
  BY DEF Asked
<1>3. BackoffDelay(i, a) = IF a.retryAfter > 0 THEN {a.retryAfter} ELSE 2 * p .. 3 * p
  BY DEF BackoffDelay
<1>4. a.retryAfter \in Nat
  BY AnswerTypes
<1> HIDE DEF p
<1> QED BY <1>1, <1>2, <1>3, <1>4

-----------------------------------------------------------------------------
LEMMA CallInvImplies ==
  ASSUME CallInv
  PROVE  RetriesAreEarnedAndMade /\ BodiesAndFailures
<1>1. GivesUpForBudgetOnly
  <2> SUFFICES ASSUME pc = "done", Len(log) \in 1 .. MaxRequestAttempts - 1, Transient(LastAttempt.answer)
               PROVE  cancelled \/ wake >= Deadline \/ clock >= Deadline
    BY DEF GivesUpForBudgetOnly
  <2>1. LastAttempt.answer = answer
    BY DEF CallInv, LogInv
  <2> QED BY <2>1 DEF CallInv, BudgetInv
<1> QED BY <1>1 DEF CallInv, RetriesAreEarnedAndMade, BodiesAndFailures

LEMMA CallInvInit ==
  ASSUME Init
  PROVE  CallInv
<1>1. TypeOK
  <2>1. <<>> \in Seq(Attempts)
    OBVIOUS
  <2>2. attempt \in 0 .. MaxRequestAttempts - 1 /\ clock \in 0 .. MaxClock /\ wake \in Nat
    BY HttpAssumption DEF Init, MaxRequestAttempts
  <2> QED BY <2>1, <2>2 DEF Init, TypeOK
<1>2. LogInv /\ PauseInv /\ BudgetInv /\ BodyInv
  BY HttpAssumption DEF Init, LogInv, PauseInv, BudgetInv, BodyInv
<1>3. RetriesAreEarned /\ BodiesAreClosed /\ FailuresAreSeen
  BY DEF Init, RetriesAreEarned, BodiesAreClosed, FailuresAreSeen, MaxRequestAttempts
<1> QED BY <1>1, <1>2, <1>3 DEF CallInv

-----------------------------------------------------------------------------
(***************************************************************************)
(* Every action keeps the invariant.                                        *)
(***************************************************************************)
\* Nothing was sent.
LEMMA BuildFailsKeeps ==
  ASSUME CallInv, BuildFails
  PROVE  CallInv'
<1>1. TypeOK'
  BY HttpAssumption, Types, ResponseTypes DEF CallInv, TypeOK, MaxRequestAttempts, BuildFails
<1>2. (LogInv /\ BodyInv /\ BodiesAreClosed)'
  BY Types, AnswerTypes, LogSame
     DEF CallInv, LogInv, PauseInv, BodyInv, BodiesAreClosed, MaxRequestAttempts, Transient, BuildFails
<1>3. PauseInv'
  BY Types, AnswerTypes, LogSame
     DEF CallInv, LogInv, PauseInv, Asked, Transient, MaxRequestAttempts, BuildFails
<1>4. BudgetInv'
  BY Types, AnswerTypes, LogSame
     DEF CallInv, LogInv, PauseInv, BudgetInv, Transient, RetryableStatus, MaxRequestAttempts, BuildFails
<1>5. RetriesAreEarned'
  BY LogSame DEF CallInv, BuildFails
<1>6. FailuresAreSeen'
  BY Types, AnswerTypes, ResponseTypes, LogSame DEF CallInv, LogInv, BodyInv, FailuresAreSeen, HasFindings, BuildFails
<1> QED BY <1>1, <1>2, <1>3, <1>4, <1>5, <1>6 DEF CallInv

\* What is handed over is not to be retried, or was tried often enough.
LEMMA AcceptKeeps ==
  ASSUME CallInv, Accept
  PROVE  CallInv'
<1>1. TypeOK'
  BY HttpAssumption, Types, ResponseTypes DEF CallInv, TypeOK, MaxRequestAttempts, Accept, Hand
<1>2. (LogInv /\ BodyInv /\ BodiesAreClosed)'
  BY Types, AnswerTypes, LogSame
     DEF CallInv, LogInv, PauseInv, BodyInv, BodiesAreClosed, MaxRequestAttempts, Transient, Accept, Hand
<1>3. PauseInv'
  BY Types, AnswerTypes, LogSame
     DEF CallInv, LogInv, PauseInv, Asked, Transient, MaxRequestAttempts, Accept, Hand
<1>4. BudgetInv'
  BY Types, AnswerTypes, LogSame
     DEF CallInv, LogInv, PauseInv, BudgetInv, Transient, RetryableStatus, MaxRequestAttempts, Accept, Hand
<1>5. RetriesAreEarned'
  BY LogSame DEF CallInv, Accept
<1>6. FailuresAreSeen'
  BY Types, AnswerTypes, ResponseTypes, LogSame DEF CallInv, LogInv, BodyInv, FailuresAreSeen, HasFindings, Accept, Hand
<1> QED BY <1>1, <1>2, <1>3, <1>4, <1>5, <1>6 DEF CallInv

\* The pause begins only when it ends before the deadline.
LEMMA BackOffKeeps ==
  ASSUME CallInv, BackOff
  PROVE  CallInv'
<1>0. PICK d \in BackoffDelay(attempt, answer) :
         /\ wake' = clock + d
         /\ IF clock + d < Deadline THEN pc' = "sleep" /\ result' = result ELSE Hand
  BY DEF BackOff
<1>d. d \in Nat /\ d >= Asked(attempt, answer)
  <2>1. attempt \in 0 .. MaxRequestAttempts - 1
    BY Types DEF MaxRequestAttempts
  <2> QED BY <1>0, <2>1, Types, Pauses
<1>1. TypeOK'
  <2>1. wake' \in Nat
    BY <1>0, <1>d, Types
  <2> QED BY <1>0, <2>1, ResponseTypes DEF CallInv, TypeOK, BackOff, Hand
<1>2. (LogInv /\ BodyInv /\ BodiesAreClosed)'
  BY Types, AnswerTypes, LogSame
     DEF CallInv, LogInv, PauseInv, BodyInv, BodiesAreClosed, MaxRequestAttempts, Transient, BackOff, Hand, BackoffDelay
<1>3. PauseInv'
  <2>1. Asked(attempt, answer) \in Nat
    <3>1. attempt \in 0 .. MaxRequestAttempts - 1
      BY Types DEF MaxRequestAttempts
    <3> QED BY <3>1, Types, Pauses
  <2>2. LastAttempt' = LastAttempt /\ Len(log) >= 1 /\ LastAttempt.at <= clock
    BY Types, LogSame DEF CallInv, LogInv, BackOff
  <2>3. wake' - LastAttempt.at >= Asked(attempt, answer)
    BY <1>0, <1>d, <2>1, <2>2, Types
  <2>4. Asked(attempt, answer)' = Asked(attempt, answer)
    BY DEF BackOff, Asked
  <2>5. (pc = "sleep" => wake - LastAttempt.at >= Asked(attempt, answer))'
    BY <2>2, <2>3, <2>4
  <2>6. (pc \in {"sleep", "build"} => Transient(answer) /\ attempt < MaxRequestAttempts - 1)'
    BY Types DEF Transient, RetryableStatus, MaxRequestAttempts, BackOff
  <2>7. pc' # "build"
    BY <1>0 DEF Hand
  <2>8. answer' = answer /\ attempt' = attempt
    BY DEF BackOff
  <2> QED BY <2>5, <2>6, <2>7, <2>8, Types DEF PauseInv, MaxRequestAttempts, Transient
<1>4. BudgetInv'
  BY Types, AnswerTypes, LogSame
     DEF CallInv, LogInv, PauseInv, BudgetInv, Transient, RetryableStatus, MaxRequestAttempts, BackOff, Hand, BackoffDelay
<1>5. RetriesAreEarned'
  BY LogSame DEF CallInv, BackOff
<1>6. FailuresAreSeen'
  BY Types, AnswerTypes, ResponseTypes, LogSame DEF CallInv, LogInv, BodyInv, FailuresAreSeen, HasFindings, BackOff, Hand, BackoffDelay
<1> QED BY <1>1, <1>2, <1>3, <1>4, <1>5, <1>6 DEF CallInv

\* The pause is over.
LEMMA WakeKeeps ==
  ASSUME CallInv, Wake
  PROVE  CallInv'
<1>1. TypeOK'
  BY Types DEF CallInv, TypeOK, PauseInv, MaxRequestAttempts, Wake
<1>2. (LogInv /\ BodyInv /\ BodiesAreClosed)'
  BY Types, AnswerTypes, LogSame
     DEF CallInv, LogInv, PauseInv, BodyInv, BodiesAreClosed, MaxRequestAttempts, Transient, Wake
<1>3. PauseInv'
  <2>1. LastAttempt' = LastAttempt /\ Len(log) >= 1
    BY Types, LogSame DEF CallInv, LogInv, Wake
  <2>2. attempt' - 1 = attempt
    BY Types DEF Wake
  <2>3. Asked(attempt, answer) \in Nat
    <3>1. attempt \in 0 .. MaxRequestAttempts - 1
      BY Types DEF MaxRequestAttempts
    <3> QED BY <3>1, Types, Pauses
  <2>4. clock - LastAttempt.at >= Asked(attempt, answer)
    BY <2>1, <2>3, Types DEF CallInv, PauseInv, Wake
  <2>5. (pc = "build" /\ Len(log) >= 1 => clock - LastAttempt.at >= Asked(attempt - 1, answer))'
    BY <2>1, <2>2, <2>4 DEF Wake, Asked
  <2> QED BY <2>5, Types DEF CallInv, PauseInv, MaxRequestAttempts, Transient, LogInv, Wake
<1>4. BudgetInv'
  BY Types, AnswerTypes, LogSame
     DEF CallInv, LogInv, PauseInv, BudgetInv, Transient, RetryableStatus, MaxRequestAttempts, Wake
<1>5. RetriesAreEarned'
  BY LogSame DEF CallInv, Wake
<1>6. FailuresAreSeen'
  BY Types, AnswerTypes, ResponseTypes, LogSame DEF CallInv, LogInv, BodyInv, FailuresAreSeen, HasFindings, Wake
<1> QED BY <1>1, <1>2, <1>3, <1>4, <1>5, <1>6 DEF CallInv

\* Only the end of the context cuts a pause short.
LEMMA GiveUpKeeps ==
  ASSUME CallInv, GiveUp
  PROVE  CallInv'
<1>1. TypeOK'
  BY HttpAssumption, Types, ResponseTypes DEF CallInv, TypeOK, MaxRequestAttempts, GiveUp, Hand, CtxDone
<1>2. (LogInv /\ BodyInv /\ BodiesAreClosed)'
  BY Types, AnswerTypes, LogSame
     DEF CallInv, LogInv, PauseInv, BodyInv, BodiesAreClosed, MaxRequestAttempts, Transient, GiveUp, Hand, CtxDone
<1>3. PauseInv'
  BY Types, AnswerTypes, LogSame
     DEF CallInv, LogInv, PauseInv, Asked, Transient, MaxRequestAttempts, GiveUp, Hand, CtxDone
<1>4. BudgetInv'
  BY Types, AnswerTypes, LogSame
     DEF CallInv, LogInv, PauseInv, BudgetInv, Transient, RetryableStatus, MaxRequestAttempts, GiveUp, Hand, CtxDone
<1>5. RetriesAreEarned'
  BY LogSame DEF CallInv, GiveUp
<1>6. FailuresAreSeen'
  BY Types, AnswerTypes, ResponseTypes, LogSame DEF CallInv, LogInv, BodyInv, FailuresAreSeen, HasFindings, GiveUp, Hand, CtxDone
<1> QED BY <1>1, <1>2, <1>3, <1>4, <1>5, <1>6 DEF CallInv

\* What cannot be read whole is a failure.
LEMMA ReadBodyKeeps ==
  ASSUME CallInv, ReadBody
  PROVE  CallInv'
<1>0. PICK ok \in BOOLEAN :
         /\ ok => bodyOpen
         /\ broken' = (bodyOpen /\ ~ok)
         /\ result' = IF ok THEN Classify(answer) ELSE [status |-> answer.status, err |-> TRUE]
  BY DEF ReadBody
<1>1. TypeOK'
  <2>1. result' \in Responses
    BY <1>0, Types, ResponseTypes
  <2>2. broken' \in BOOLEAN
    BY <1>0
  <2> QED BY <2>1, <2>2 DEF CallInv, TypeOK, ReadBody
<1>2. (LogInv /\ BodyInv /\ BodiesAreClosed)'
  BY Types, AnswerTypes, LogSame
     DEF CallInv, LogInv, PauseInv, BodyInv, BodiesAreClosed, MaxRequestAttempts, Transient, ReadBody
<1>3. PauseInv'
  BY Types, AnswerTypes, LogSame
     DEF CallInv, LogInv, PauseInv, Asked, Transient, MaxRequestAttempts, ReadBody
<1>4. BudgetInv'
  BY Types, AnswerTypes, LogSame
     DEF CallInv, LogInv, PauseInv, BudgetInv, Transient, RetryableStatus, MaxRequestAttempts, ReadBody
<1>5. RetriesAreEarned'
  BY LogSame DEF CallInv, ReadBody
<1>6. FailuresAreSeen'
  <2>1. /\ log' = log /\ log # <<>> /\ LastAttempt' = LastAttempt
        /\ LastAttempt.answer = answer /\ answer \in Answers
    BY Types, LogSame DEF CallInv, LogInv, BodyInv, ReadBody
  <2>2. CASE ok
    <3>1. result'.status = answer.status
      BY <1>0, <2>2, <2>1, ResponseTypes
    <3>2. ~broken'
      BY <1>0, <2>2
    <3>3. answer.status \in Nat
      BY <2>1, AnswerTypes
    <3> QED BY <2>1, <3>1, <3>2, <3>3 DEF FailuresAreSeen, HasFindings
  <2>3. CASE ~ok
    <3>1. HasFindings(result)'
      BY <1>0, <2>1, <2>3, ResponseTypes DEF HasFindings
    <3> QED BY <3>1 DEF FailuresAreSeen
  <2> QED BY <2>2, <2>3
<1> QED BY <1>1, <1>2, <1>3, <1>4, <1>5, <1>6 DEF CallInv

\* Time only passes.
LEMMA TickKeeps ==
  ASSUME CallInv, Tick
  PROVE  CallInv'
<1>1. TypeOK'
  BY HttpAssumption, Types, ResponseTypes DEF CallInv, TypeOK, MaxRequestAttempts, Tick
<1>2. (LogInv /\ BodyInv /\ BodiesAreClosed)'
  BY Types, AnswerTypes, LogSame
     DEF CallInv, LogInv, PauseInv, BodyInv, BodiesAreClosed, MaxRequestAttempts, Transient, Tick
<1>3. PauseInv'
  <2>1. UNCHANGED <<pc, attempt, answer, wake, Len(log)>>
    BY DEF Tick
  <2>2. Len(log) >= 1 => LastAttempt' = LastAttempt
    BY LogSame DEF CallInv, Tick
  <2>3. ASSUME pc = "build", Len(log) >= 1
        PROVE  clock' - LastAttempt.at >= Asked(attempt - 1, answer)
    <3>1. attempt - 1 \in 0 .. MaxRequestAttempts - 1
      BY <2>3, Types DEF CallInv, LogInv, MaxRequestAttempts
    <3>2. Asked(attempt - 1, answer) \in Nat
      BY <3>1, Types, Pauses
    <3>3. clock - LastAttempt.at >= Asked(attempt - 1, answer)
      BY <2>3 DEF CallInv, PauseInv
    <3> QED BY <2>3, <3>2, <3>3, Types DEF Tick
  <2>4. Asked(attempt - 1, answer)' = Asked(attempt - 1, answer)
    BY <2>1 DEF Asked
  <2>5. pc = "sleep" => Len(log) >= 1
    BY Types DEF CallInv, LogInv
  <2>6. Asked(attempt, answer)' = Asked(attempt, answer)
    BY <2>1 DEF Asked
  <2> QED BY <2>1, <2>2, <2>3, <2>4, <2>5, <2>6 DEF CallInv, PauseInv, Transient
<1>4. BudgetInv'
  BY Types, AnswerTypes, LogSame
     DEF CallInv, LogInv, PauseInv, BudgetInv, Transient, RetryableStatus, MaxRequestAttempts, Tick
<1>5. RetriesAreEarned'
  BY LogSame DEF CallInv, Tick
<1>6. FailuresAreSeen'
  BY Types, AnswerTypes, ResponseTypes, LogSame DEF CallInv, LogInv, BodyInv, FailuresAreSeen, HasFindings, Tick
<1> QED BY <1>1, <1>2, <1>3, <1>4, <1>5, <1>6 DEF CallInv

\* A cancellation is not taken back.
LEMMA CancelKeeps ==
  ASSUME CallInv, Cancel
  PROVE  CallInv'
<1>1. TypeOK'
  BY HttpAssumption, Types, ResponseTypes DEF CallInv, TypeOK, MaxRequestAttempts, Cancel
<1>2. (LogInv /\ BodyInv /\ BodiesAreClosed)'
  BY Types, AnswerTypes, LogSame
     DEF CallInv, LogInv, PauseInv, BodyInv, BodiesAreClosed, MaxRequestAttempts, Transient, Cancel
<1>3. PauseInv'
  BY Types, AnswerTypes, LogSame
     DEF CallInv, LogInv, PauseInv, Asked, Transient, MaxRequestAttempts, Cancel
<1>4. BudgetInv'
  BY Types, AnswerTypes, LogSame
     DEF CallInv, LogInv, PauseInv, BudgetInv, Transient, RetryableStatus, MaxRequestAttempts, Cancel
<1>5. RetriesAreEarned'
  BY LogSame DEF CallInv, Cancel
<1>6. FailuresAreSeen'
  BY Types, AnswerTypes, ResponseTypes, LogSame DEF CallInv, LogInv, BodyInv, FailuresAreSeen, HasFindings, Cancel
<1> QED BY <1>1, <1>2, <1>3, <1>4, <1>5, <1>6 DEF CallInv

\* The new attempt was due: the one before it had failed and its pause is over.
LEMMA SendKeeps ==
  ASSUME CallInv, Send
  PROVE  CallInv'
<1> DEFINE new == [live |-> ~CtxDone, start |-> clock, at |-> clock, answer |-> NoAnswer]
<1>1. new \in Attempts /\ new.start = clock /\ new.at = clock /\ new.answer = NoAnswer
  BY Types DEF Attempts, CallInv, TypeOK, CtxDone
<1>2. log' = Append(log, new)
  BY DEF Send
<1> HIDE DEF new
<1>3. /\ log' \in Seq(Attempts) /\ Len(log') = Len(log) + 1
      /\ log'[Len(log')] = new /\ \A i \in 1 .. Len(log) : log'[i] = log[i]
  BY <1>1, <1>2, LogAppend, Types
<1>4. LastAttempt' = new
  BY <1>3 DEF LastAttempt
<1>5. pc = "build" /\ pc' = "do" /\ Len(log) = attempt
  BY DEF CallInv, LogInv, Send
<1>6. UNCHANGED <<attempt, clock, cancelled, wake, answer, bodyOpen, broken, result>>
  BY DEF Send
<1>7. TypeOK'
  BY <1>3, <1>5, <1>6 DEF CallInv, TypeOK
<1>8. (LogInv /\ PauseInv /\ BudgetInv /\ BodyInv /\ BodiesAreClosed)'
  BY <1>1, <1>3, <1>4, <1>5, <1>6, Types
     DEF CallInv, LogInv, PauseInv, BudgetInv, BodyInv, BodiesAreClosed
<1>9. RetriesAreEarned'
  <2>1. Len(log') <= MaxRequestAttempts
    BY <1>3, <1>5, Types DEF MaxRequestAttempts
  <2>2. ASSUME NEW i \in 1 .. Len(log') - 1
        PROVE  /\ Transient(log'[i].answer)
               /\ log'[i + 1].start - log'[i].at >= Asked(i - 1, log'[i].answer)
    <3>1. i \in 1 .. Len(log) /\ log'[i] = log[i]
      BY <1>3, Types
    <3>2. CASE i = Len(log)
      <4>1. log'[i + 1].start = clock /\ log[i] = LastAttempt
        BY <3>2, <1>1, <1>3 DEF LastAttempt
      <4>2. LastAttempt.answer = answer /\ i = attempt
        BY <1>5, <3>1, <3>2 DEF CallInv, LogInv
      <4> QED BY <1>5, <3>1, <3>2, <4>1, <4>2 DEF CallInv, PauseInv
    <3>3. CASE i # Len(log)
      <4>1. i \in 1 .. Len(log) - 1 /\ i + 1 \in 1 .. Len(log) /\ log'[i + 1] = log[i + 1]
        BY <1>3, <3>1, <3>3, Types
      <4> QED BY <3>1, <4>1 DEF CallInv, RetriesAreEarned, Asked
    <3> QED BY <3>2, <3>3
  <2> QED BY <2>1, <2>2 DEF RetriesAreEarned, Asked, Transient
<1>10. FailuresAreSeen'
  BY <1>5 DEF FailuresAreSeen
<1> QED BY <1>7, <1>8, <1>9, <1>10 DEF CallInv

\* The end of an attempt changes only what the log says of that attempt.
LEMMA EndKeepsRetries ==
  ASSUME CallInv, pc = "do", NEW e \in Attempts, e.start = LastAttempt.start,
         log' = [log EXCEPT ![Len(log)] = e]
  PROVE  /\ log' \in Seq(Attempts) /\ Len(log') = Len(log) /\ Len(log) = attempt + 1
         /\ LastAttempt' = e
         /\ RetriesAreEarned'
<1>1. Len(log) = attempt + 1 /\ Len(log) >= 1
  BY Types DEF CallInv, LogInv
<1>2. /\ log' \in Seq(Attempts) /\ Len(log') = Len(log) /\ log'[Len(log')] = e
      /\ \A i \in 1 .. Len(log) - 1 : log'[i] = log[i]
  BY <1>1, LogEnd, Types
<1>3. LastAttempt' = e
  BY <1>2 DEF LastAttempt
<1>4. \A i \in 1 .. Len(log) : log'[i].start = log[i].start
  BY <1>1, <1>2, Types DEF LastAttempt
<1>5. RetriesAreEarned'
  <2>1. ASSUME NEW i \in 1 .. Len(log) - 1
        PROVE  i + 1 \in 1 .. Len(log) /\ log'[i] = log[i] /\ log'[i + 1].start = log[i + 1].start
    <3>1. Len(log) \in Nat
      BY Types
    <3>2. i + 1 \in 1 .. Len(log) /\ i \in 1 .. Len(log) - 1
      BY <3>1
    <3> QED BY <1>2, <1>4, <3>2
  <2>2. \A i \in 1 .. Len(log) - 1 :
           /\ Transient(log[i].answer)
           /\ log[i + 1].start - log[i].at >= Asked(i - 1, log[i].answer)
    BY DEF CallInv, RetriesAreEarned, Asked
  <2>3. \A i \in 1 .. Len(log') - 1 :
           /\ Transient(log'[i].answer)
           /\ log'[i + 1].start - log'[i].at >= Asked(i - 1, log'[i].answer)
    BY <1>2, <2>1, <2>2
  <2>4. Len(log') <= MaxRequestAttempts
    BY <1>2 DEF CallInv, RetriesAreEarned
  <2> QED BY <2>3, <2>4 DEF RetriesAreEarned, Asked, Transient
<1> QED BY <1>1, <1>2, <1>3, <1>5

\* A response arrives with an open body.
LEMMA ReceiveKeeps ==
  ASSUME CallInv, Receive
  PROVE  CallInv'
<1>1. PICK a \in Answers :
         /\ answer' = a
         /\ log' = [log EXCEPT ![Len(log)] = [@ EXCEPT !.at = clock, !.answer = a]]
  BY DEF Receive
<1> DEFINE e == [LastAttempt EXCEPT !.at = clock, !.answer = a]
<1>2. pc = "do" /\ pc' = "judge" /\ bodyOpen' = TRUE /\ Len(log) >= 1
  BY Types DEF CallInv, LogInv, Receive
<1>3. e \in Attempts /\ e.start = LastAttempt.start /\ e.at = clock /\ e.answer = a
  BY <1>2, Types DEF Attempts
<1>4. log' = [log EXCEPT ![Len(log)] = e]
  BY <1>1 DEF LastAttempt
<1> HIDE DEF e
<1>5. /\ log' \in Seq(Attempts) /\ Len(log') = Len(log) /\ Len(log) = attempt + 1
      /\ LastAttempt' = e /\ RetriesAreEarned'
  BY <1>2, <1>3, <1>4, EndKeepsRetries
<1>6. UNCHANGED <<attempt, clock, cancelled, wake, broken, result>>
  BY DEF Receive
<1>7. TypeOK'
  BY <1>1, <1>2, <1>5, <1>6 DEF CallInv, TypeOK
<1>8. (LogInv /\ PauseInv /\ BudgetInv /\ BodyInv /\ BodiesAreClosed)'
  BY <1>1, <1>2, <1>3, <1>5, <1>6, Types, AnswerTypes
     DEF LogInv, PauseInv, BudgetInv, BodyInv, BodiesAreClosed
<1>9. FailuresAreSeen'
  BY <1>2 DEF FailuresAreSeen
<1> QED BY <1>5, <1>7, <1>8, <1>9 DEF CallInv

\* A transport error leaves nothing to read.
LEMMA TransportErrorKeeps ==
  ASSUME CallInv, TransportError
  PROVE  CallInv'
<1> DEFINE e == [LastAttempt EXCEPT !.at = clock]
<1>1. pc = "do" /\ pc' = "judge" /\ answer' = NoAnswer /\ Len(log) >= 1
  BY Types DEF CallInv, LogInv, TransportError
<1>2. LastAttempt.answer = NoAnswer
  BY <1>1 DEF CallInv, LogInv
<1>3. e \in Attempts /\ e.start = LastAttempt.start /\ e.at = clock /\ e.answer = NoAnswer
  BY <1>1, <1>2, Types DEF Attempts
<1>4. log' = [log EXCEPT ![Len(log)] = e]
  BY DEF LastAttempt, TransportError
<1> HIDE DEF e
<1>5. /\ log' \in Seq(Attempts) /\ Len(log') = Len(log) /\ Len(log) = attempt + 1
      /\ LastAttempt' = e /\ RetriesAreEarned'
  BY <1>1, <1>3, <1>4, EndKeepsRetries
<1>6. UNCHANGED <<attempt, clock, cancelled, wake, bodyOpen, broken, result>>
  BY DEF TransportError
<1>7. ~bodyOpen
  BY <1>1 DEF CallInv, BodiesAreClosed
<1>8. TypeOK'
  BY <1>1, <1>5, <1>6 DEF CallInv, TypeOK
<1>9. (LogInv /\ PauseInv /\ BudgetInv /\ BodyInv /\ BodiesAreClosed)'
  BY <1>1, <1>3, <1>5, <1>6, <1>7, Types
     DEF LogInv, PauseInv, BudgetInv, BodyInv, BodiesAreClosed
<1>10. FailuresAreSeen'
  BY <1>1 DEF FailuresAreSeen
<1> QED BY <1>5, <1>8, <1>9, <1>10 DEF CallInv

LEMMA CallInvStep ==
  ASSUME CallInv, [Next]_vars
  PROVE  CallInv'
<1>1. CASE UNCHANGED vars
  BY <1>1 DEF vars, CallInv, TypeOK, LogInv, LastAttempt, PauseInv, Asked, BudgetInv, BodyInv,
              RetriesAreEarned, Transient, BodiesAreClosed, FailuresAreSeen, HasFindings
<1>2. CASE Next
  BY <1>2, BuildFailsKeeps, SendKeeps, ReceiveKeeps, TransportErrorKeeps, AcceptKeeps,
     BackOffKeeps, WakeKeeps, GiveUpKeeps, ReadBodyKeeps, TickKeeps, CancelKeeps
     DEF Next, Step
<1> QED BY <1>1, <1>2

-----------------------------------------------------------------------------
(***************************************************************************)
(* The theorems.                                                            *)
(***************************************************************************)
\* The invariant holds of every state that can be reached.
THEOREM CallInvariant == Spec => []CallInv
<1> QED BY CallInvInit, CallInvStep, PTL DEF Spec

\* For every deadline and whatever the target answers: a request is repeated
\* only after a transient failure and the pause it asked for, and one that was
\* not repeated did not fit.
THEOREM HttpRetriesAreEarnedAndMade == Spec => []RetriesAreEarnedAndMade
<1> QED BY CallInvariant, CallInvImplies, PTL

\* No body stays open behind a return or a pause, and what the suites take for
\* an answer is the whole of the last one.
THEOREM HttpBodiesAndFailures == Spec => []BodiesAndFailures
<1> QED BY CallInvariant, CallInvImplies, PTL

-----------------------------------------------------------------------------
(***************************************************************************)
(* The plugins behind a call, for every set of manifests: what each entry    *)
(* sees and what the suites get.                                            *)
(***************************************************************************)
ChainEntries == [kind : Plugins!Kinds, backend : Plugins!Backends, manifest : Nat]
Evidence == Seq([of : Nat, what : {"change", "observation"}])
Adapted == [err : BOOLEAN, from : Evidence]

\* What is held at any time, and how far Invoke has come: one output behind
\* each turn, and one input more while an entry runs; no probe before an adapter.
PluginTypes ==
  /\ chain \in Seq(ChainEntries)
  /\ stage \in {"base", "run", "wait", "done"}
  /\ turn \in Nat /\ turn >= 1
  /\ resp \in Adapted /\ base \in Adapted
  /\ inputs \in Seq(Evidence)
  /\ outputs \in Seq(Plugins!Deltas)

TurnInv ==
  /\ Len(outputs) = turn - 1 /\ Len(outputs) <= Len(chain)
  /\ Len(inputs) = turn - 1 \/ Len(inputs) = turn
  /\ stage \in {"base", "run"} => Len(inputs) = turn - 1
  /\ stage = "wait" => Len(inputs) = turn /\ turn <= Len(chain)
  /\ stage = "base" => turn = 1
  /\ \A n \in 1 .. Len(chain) : \A m \in 1 .. n - 1 :
       chain[n].kind = "adapter" => chain[m].kind = "adapter"

\* The response that is held between two entries is the evidence so far; this
\* is what the next entry is given and what is returned at the end.
EvidenceInv ==
  /\ stage \in {"run", "wait"} => ~resp.err /\ resp.from = Plugins!EvidenceAfter(turn - 1)
  /\ Plugins!EvidenceIsAllOrNothing /\ Plugins!EntriesSeeWhatIsBefore

PluginInv == PluginTypes /\ TurnInv /\ EvidenceInv

\* What an entry adds is evidence.
LEMMA ContributionIsEvidence ==
  ASSUME NEW i \in Nat, NEW e, NEW delta \in Plugins!Deltas
  PROVE  Plugins!Contribution(i, e, delta) \in Evidence
<1> DEFINE changes == IF delta.changes THEN <<[of |-> i, what |-> "change"]>> ELSE <<>>
<1> DEFINE observations == IF delta.observations /\ e.kind = "probe"
                             THEN <<[of |-> i, what |-> "observation"]>> ELSE <<>>
<1> DEFINE one(what) == [of |-> i, what |-> what]
<1> DEFINE Facts == [of : Nat, what : {"change", "observation"}]
<1>1. one("change") \in Facts /\ one("observation") \in Facts
  OBVIOUS
<1>2. <<one("change")>> \in Seq(Facts) /\ <<one("observation")>> \in Seq(Facts) /\ <<>> \in Seq(Facts)
  <2> HIDE DEF one, Facts
  <2> QED
    BY <1>1
<1>3. changes \in Seq(Facts) /\ observations \in Seq(Facts)
  BY <1>2
<1>4. changes \o observations \in Seq(Facts)
  <2> HIDE DEF changes, observations, Facts
  <2> QED
    BY <1>3
<1> QED
  BY <1>4 DEF Plugins!Contribution, Evidence

\* So is what is behind an entry that was given evidence.
LEMMA EvidenceAfterIsEvidence ==
  ASSUME PluginTypes, NEW n \in Nat, n <= Len(inputs), n <= Len(outputs)
  PROVE  Plugins!EvidenceAfter(n) \in Evidence
<1>1. CASE n = 0
  BY <1>1 DEF PluginTypes, Plugins!EvidenceAfter, Adapted
<1>2. CASE n # 0
  <2>1. n \in 1 .. Len(inputs) /\ n \in 1 .. Len(outputs)
    BY <1>2 DEF PluginTypes
  <2>2. inputs[n] \in Evidence /\ outputs[n] \in Plugins!Deltas
    BY <2>1 DEF PluginTypes
  <2>3. Plugins!Contribution(n, chain[n], outputs[n]) \in Evidence
    BY <2>2, ContributionIsEvidence
  <2> QED
    BY <1>2, <2>2, <2>3 DEF Plugins!EvidenceAfter, Evidence
<1> QED
  BY <1>1, <1>2

\* The adapters of a chain come before its probes.
LEMMA AdaptersFirst ==
  ASSUME NEW entries \in Chains, NEW c \in Plugins!EntriesInOrder(entries)
  PROVE  /\ c \in Seq(ChainEntries)
         /\ \A n \in DOMAIN c : \A m \in 1 .. n - 1 :
              c[n].kind = "adapter" => c[m].kind = "adapter"
<1>1. entries \in Seq(ChainEntries)
  BY TargetsAssumption DEF Plugins!PluginAssumption, ChainEntries
<1> DEFINE D == DOMAIN entries
<1>2. D = 1 .. Len(entries) /\ Len(entries) \in Nat /\ \A i \in D : entries[i] \in ChainEntries
  BY <1>1
<1>3. PICK order \in [D -> D] :
        /\ c = [k \in D |-> entries[order[k]]]
        /\ \A k, m \in D : k < m => Plugins!RunsBefore(entries, order[k], order[m])
  <2> DEFINE Orders == {o \in Plugins!Bijection(D, D) :
                          \A k, m \in D : k < m => Plugins!RunsBefore(entries, o[k], o[m])}
  <2>1. PICK o \in Orders : c = [k \in D |-> entries[o[k]]]
    BY DEF Plugins!EntriesInOrder
  <2>2. o \in Plugins!Bijection(D, D)
    OBVIOUS
  <2>3. o \in [D -> D]
    BY <2>2 DEF Plugins!Bijection, Plugins!Injection
  <2>4. \A k, m \in D : k < m => Plugins!RunsBefore(entries, o[k], o[m])
    OBVIOUS
  <2> QED
    BY <2>1, <2>3, <2>4
<1> HIDE DEF D
<1>4. c \in Seq(ChainEntries) /\ DOMAIN c = D
  BY <1>2, <1>3
<1>5. ASSUME NEW n \in D, NEW m \in 1 .. n - 1, c[n].kind = "adapter"
      PROVE  c[m].kind = "adapter"
  <2>1. m \in D /\ m < n
    BY <1>2
  <2>2. Plugins!RunsBefore(entries, order[m], order[n])
    BY <1>3, <2>1
  <2> QED
    BY <1>3, <1>5, <2>1, <2>2 DEF Plugins!RunsBefore
<1> QED
  BY <1>4, <1>5

LEMMA PluginInvInit ==
  ASSUME Plugins!Init
  PROVE  PluginInv
<1>1. PICK entries \in Chains : chain \in Plugins!EntriesInOrder(entries)
  BY DEF Plugins!Init
<1>2. /\ chain \in Seq(ChainEntries)
      /\ \A n \in DOMAIN chain : \A m \in 1 .. n - 1 :
           chain[n].kind = "adapter" => chain[m].kind = "adapter"
  BY <1>1, AdaptersFirst
<1>3. /\ stage = "base" /\ turn = 1 /\ inputs = <<>> /\ outputs = <<>>
      /\ resp = [err |-> FALSE, from |-> <<>>] /\ base = resp
  BY DEF Plugins!Init
<1>4. PluginTypes
  BY <1>2, <1>3 DEF PluginTypes, Adapted, Evidence
<1>5. TurnInv
  BY <1>2, <1>3 DEF TurnInv
<1>6. EvidenceInv
  BY <1>2, <1>3 DEF EvidenceInv, Plugins!EvidenceIsAllOrNothing, Plugins!EntriesSeeWhatIsBefore
<1> QED
  BY <1>4, <1>5, <1>6 DEF PluginInv

\* The wrapped target answers: with an error there is nothing to adapt.
LEMMA BaseAnswersKeeps ==
  ASSUME PluginInv, Plugins!BaseAnswers
  PROVE  PluginInv'
<1>1. PluginTypes /\ TurnInv /\ EvidenceInv
  BY DEF PluginInv
<1>2. PICK err \in BOOLEAN, found \in BOOLEAN :
        /\ base' = [err |-> err, from |-> IF found THEN <<[of |-> 0, what |-> "change"]>> ELSE <<>>]
        /\ resp' = base'
        /\ stage' = IF err THEN "done" ELSE "run"
  BY DEF Plugins!BaseAnswers
<1>3. stage = "base" /\ UNCHANGED <<chain, turn, inputs, outputs>>
  BY DEF Plugins!BaseAnswers
<1>4. turn = 1 /\ Len(inputs) = 0 /\ Len(outputs) = 0
  BY <1>1, <1>3 DEF TurnInv
<1>5. base' \in Adapted /\ base'.err = err
  <2> DEFINE fact == [of |-> 0, what |-> "change"]
  <2>1. fact \in [of : Nat, what : {"change", "observation"}]
    OBVIOUS
  <2>2. <<fact>> \in Evidence /\ <<>> \in Evidence
    <3> HIDE DEF fact
    <3> QED
      BY <2>1 DEF Evidence
  <2>3. base' = [err |-> err, from |-> IF found THEN <<fact>> ELSE <<>>]
    BY <1>2
  <2>4. (IF found THEN <<fact>> ELSE <<>>) \in Evidence
    BY <2>2
  <2> HIDE DEF fact
  <2> QED
    BY <2>3, <2>4 DEF Adapted
<1>6. PluginTypes'
  BY <1>1, <1>2, <1>3, <1>5 DEF PluginTypes
<1>7. TurnInv'
  BY <1>1, <1>2, <1>3, <1>4 DEF TurnInv
<1>8. Plugins!EntriesSeeWhatIsBefore'
  BY <1>1, <1>3, <1>4 DEF PluginTypes, EvidenceInv, Plugins!EntriesSeeWhatIsBefore
<1>9. EvidenceInv'
  BY <1>2, <1>3, <1>4, <1>5, <1>8
     DEF EvidenceInv, Plugins!EvidenceIsAllOrNothing, Plugins!EvidenceAfter
<1> QED
  BY <1>6, <1>7, <1>9 DEF PluginInv

\* An entry is given the evidence so far.
LEMMA StartEntryKeeps ==
  ASSUME PluginInv, Plugins!StartEntry
  PROVE  PluginInv'
<1>1. PluginTypes /\ TurnInv /\ EvidenceInv
  BY DEF PluginInv
<1>2. /\ stage = "run" /\ stage' = "wait" /\ turn <= Len(chain)
      /\ inputs' = Append(inputs, resp.from)
      /\ UNCHANGED <<chain, turn, resp, base, outputs>>
  BY DEF Plugins!StartEntry
<1>3. Len(inputs) = turn - 1 /\ Len(outputs) = turn - 1 /\ turn \in Nat /\ turn >= 1
  BY <1>1, <1>2 DEF TurnInv, PluginTypes
<1>4. resp.from \in Evidence
  BY <1>1 DEF PluginTypes, Adapted
<1>5. /\ inputs' \in Seq(Evidence) /\ Len(inputs') = turn
      /\ inputs'[turn] = resp.from
      /\ \A n \in 1 .. turn - 1 : inputs'[n] = inputs[n]
  BY <1>1, <1>2, <1>3, <1>4 DEF PluginTypes
<1>6. PluginTypes'
  BY <1>1, <1>2, <1>5 DEF PluginTypes
<1>7. TurnInv'
  BY <1>1, <1>2, <1>3, <1>5 DEF TurnInv
<1>8. \A n \in 0 .. turn - 1 : Plugins!EvidenceAfter(n)' = Plugins!EvidenceAfter(n)
  BY <1>2, <1>3, <1>5 DEF Plugins!EvidenceAfter
<1>9. resp.from = Plugins!EvidenceAfter(turn - 1) /\ ~resp.err
  BY <1>1, <1>2 DEF EvidenceInv
<1>10. \A n \in 1 .. turn : inputs'[n] = Plugins!EvidenceAfter(n - 1)'
  <2>1. ASSUME NEW n \in 1 .. turn PROVE inputs'[n] = Plugins!EvidenceAfter(n - 1)'
    <3>1. n - 1 \in 0 .. turn - 1
      BY <1>3
    <3>2. CASE n = turn
      BY <1>5, <1>8, <1>9, <3>1, <3>2
    <3>3. CASE n # turn
      <4>1. n \in 1 .. turn - 1 /\ n \in DOMAIN inputs
        BY <1>1, <1>3, <3>3 DEF PluginTypes
      <4>2. inputs[n] = Plugins!EvidenceAfter(n - 1)
        BY <1>1, <4>1 DEF EvidenceInv, Plugins!EntriesSeeWhatIsBefore
      <4> QED
        BY <1>5, <1>8, <3>1, <4>1, <4>2
    <3> QED
      BY <3>2, <3>3
  <2> QED
    BY <2>1
<1>11. \A n \in 1 .. turn : \A m \in 1 .. n - 1 :
         chain[n].kind = "adapter" => chain[m].kind = "adapter"
  BY <1>1, <1>2, <1>3 DEF TurnInv
<1>12. Plugins!EntriesSeeWhatIsBefore'
  BY SMTT(30), <1>2, <1>5, <1>6, <1>10, <1>11 DEF PluginTypes, Plugins!EntriesSeeWhatIsBefore
<1>13. EvidenceInv'
  BY <1>2, <1>3, <1>8, <1>9, <1>12
     DEF EvidenceInv, Plugins!EvidenceIsAllOrNothing
<1> QED
  BY <1>6, <1>7, <1>13 DEF PluginInv

\* An entry that ends well leaves what it was given and what it adds.
LEMMA EntryEndsKeeps ==
  ASSUME PluginInv, Plugins!EntryEnds
  PROVE  PluginInv'
<1>1. PluginTypes /\ TurnInv /\ EvidenceInv
  BY DEF PluginInv
<1>2. PICK delta \in Plugins!Deltas :
        /\ outputs' = Append(outputs, delta)
        /\ resp' = [resp EXCEPT !.from = @ \o Plugins!Contribution(turn, chain[turn], delta)]
  BY DEF Plugins!EntryEnds
<1>3. /\ stage = "wait" /\ stage' = "run" /\ turn' = turn + 1
      /\ UNCHANGED <<chain, base, inputs>>
  BY DEF Plugins!EntryEnds
<1>4. /\ Len(inputs) = turn /\ Len(outputs) = turn - 1 /\ turn <= Len(chain)
      /\ turn \in Nat /\ turn >= 1
  BY <1>1, <1>3 DEF TurnInv, PluginTypes
<1>5. /\ outputs' \in Seq(Plugins!Deltas) /\ Len(outputs') = turn
      /\ outputs'[turn] = delta
      /\ \A n \in 1 .. turn - 1 : outputs'[n] = outputs[n]
  BY <1>1, <1>2, <1>4 DEF PluginTypes
<1>6. /\ resp' \in Adapted /\ resp'.err = resp.err
      /\ resp'.from = resp.from \o Plugins!Contribution(turn, chain[turn], delta)
  <2>1. Plugins!Contribution(turn, chain[turn], delta) \in Evidence
    BY <1>4, ContributionIsEvidence
  <2>2. resp.from \o Plugins!Contribution(turn, chain[turn], delta) \in Evidence
    BY <1>1, <2>1 DEF PluginTypes, Adapted, Evidence
  <2> QED
    BY <1>1, <1>2, <2>2 DEF PluginTypes, Adapted
<1>7. PluginTypes'
  BY <1>1, <1>3, <1>4, <1>5, <1>6 DEF PluginTypes
<1>8. TurnInv'
  BY <1>1, <1>3, <1>4, <1>5 DEF TurnInv
<1>9. \A n \in 0 .. turn - 1 : Plugins!EvidenceAfter(n)' = Plugins!EvidenceAfter(n)
  BY <1>3, <1>5 DEF Plugins!EvidenceAfter
<1>10. /\ \A n \in DOMAIN inputs : inputs[n] = Plugins!EvidenceAfter(n - 1)
       /\ resp.from = Plugins!EvidenceAfter(turn - 1) /\ ~resp.err
  BY <1>1, <1>3 DEF EvidenceInv, Plugins!EntriesSeeWhatIsBefore
<1>11. DOMAIN inputs = 1 .. turn
  BY <1>1, <1>4 DEF PluginTypes
<1>12. \A n \in 1 .. turn : inputs'[n] = Plugins!EvidenceAfter(n - 1)'
  BY <1>3, <1>4, <1>9, <1>10, <1>11
<1>13. Plugins!EntriesSeeWhatIsBefore'
  BY <1>1, <1>3, <1>11, <1>12 DEF EvidenceInv, Plugins!EntriesSeeWhatIsBefore
<1>14. PICK t : t = turn
  OBVIOUS
<1>15. resp'.from = Plugins!EvidenceAfter(t)'
  <2>1. inputs[t] = Plugins!EvidenceAfter(t - 1)
    BY <1>4, <1>10, <1>11, <1>14
  <2>2. Plugins!EvidenceAfter(t)' =
          inputs[t] \o Plugins!Contribution(t, chain[t], delta)
    BY <1>3, <1>4, <1>5, <1>14 DEF Plugins!EvidenceAfter
  <2> QED
    BY <1>6, <1>10, <1>14, <2>1, <2>2
<1>16. turn' - 1 = t
  BY <1>3, <1>4, <1>14
<1>17. EvidenceInv'
  <2>1. Plugins!EvidenceIsAllOrNothing'
    BY <1>3 DEF Plugins!EvidenceIsAllOrNothing
  <2>2. resp'.from = Plugins!EvidenceAfter(turn - 1)' /\ ~resp'.err
    BY <1>6, <1>10, <1>15, <1>16
  <2> QED
    BY <1>13, <2>1, <2>2 DEF EvidenceInv
<1> QED
  BY <1>7, <1>8, <1>17 DEF PluginInv

\* An entry that fails takes back what the earlier ones added.
LEMMA EntryFailsKeeps ==
  ASSUME PluginInv, Plugins!EntryFails
  PROVE  PluginInv'
<1>1. PluginTypes /\ TurnInv /\ EvidenceInv
  BY DEF PluginInv
<1>2. /\ stage = "wait" /\ stage' = "done" /\ resp' = [base EXCEPT !.err = TRUE]
      /\ UNCHANGED <<chain, turn, base, inputs, outputs>>
  BY DEF Plugins!EntryFails
<1>3. resp' \in Adapted /\ resp'.err /\ resp'.from = base.from
  BY <1>1, <1>2 DEF PluginTypes, Adapted
<1>4. PluginTypes'
  BY <1>1, <1>2, <1>3 DEF PluginTypes
<1>5. TurnInv'
  BY <1>1, <1>2 DEF TurnInv
<1>6. Plugins!EntriesSeeWhatIsBefore'
  BY <1>1, <1>2 DEF EvidenceInv, Plugins!EntriesSeeWhatIsBefore, Plugins!EvidenceAfter
<1>7. EvidenceInv'
  BY <1>2, <1>3, <1>6 DEF EvidenceInv, Plugins!EvidenceIsAllOrNothing
<1> QED
  BY <1>4, <1>5, <1>7 DEF PluginInv

\* The last entry has ended: all of them have contributed.
LEMMA FinishKeeps ==
  ASSUME PluginInv, Plugins!Finish
  PROVE  PluginInv'
<1>1. PluginTypes /\ TurnInv /\ EvidenceInv
  BY DEF PluginInv
<1>2. /\ stage = "run" /\ stage' = "done" /\ turn > Len(chain)
      /\ UNCHANGED <<chain, turn, resp, base, inputs, outputs>>
  BY DEF Plugins!Finish
<1>3. Len(outputs) = Len(chain) /\ turn - 1 = Len(chain)
  BY <1>1, <1>2 DEF TurnInv, PluginTypes
<1>4. PluginTypes' /\ TurnInv'
  BY <1>1, <1>2 DEF PluginTypes, TurnInv
<1>5. Plugins!EntriesSeeWhatIsBefore'
  BY <1>1, <1>2 DEF EvidenceInv, Plugins!EntriesSeeWhatIsBefore, Plugins!EvidenceAfter
<1>6. ~resp.err /\ resp.from = Plugins!EvidenceAfter(Len(chain))
  BY <1>1, <1>2, <1>3 DEF EvidenceInv
<1>7. Plugins!EvidenceAfter(Len(chain))' = Plugins!EvidenceAfter(Len(chain))
  BY <1>2 DEF Plugins!EvidenceAfter
<1>8. EvidenceInv'
  BY <1>2, <1>3, <1>5, <1>6, <1>7 DEF EvidenceInv, Plugins!EvidenceIsAllOrNothing
<1> QED
  BY <1>4, <1>8 DEF PluginInv

\* Contexts only decide who may go on.
LEMMA PluginInvStep ==
  ASSUME PluginInv, [Plugins!Next]_pluginVars
  PROVE  PluginInv'
<1>1. CASE UNCHANGED <<stage, chain, turn, resp, base, inputs, outputs>>
  BY <1>1 DEF PluginInv, PluginTypes, TurnInv, EvidenceInv, Plugins!EvidenceIsAllOrNothing,
              Plugins!EntriesSeeWhatIsBefore, Plugins!EvidenceAfter
<1>2. CASE Plugins!Expire \/ Plugins!Cancel \/ UNCHANGED pluginVars
  BY <1>1, <1>2 DEF Plugins!Expire, Plugins!Cancel, pluginVars
<1> QED
  BY <1>2, BaseAnswersKeeps, StartEntryKeeps, EntryEndsKeeps, EntryFailsKeeps, FinishKeeps
  DEF Plugins!Next, Plugins!Invoke

-----------------------------------------------------------------------------
(***************************************************************************)
(* An answer as it is read: the inductive invariant.                        *)
(***************************************************************************)
IsAssembly(p) ==
  /\ p = [text |-> p.text, calls |-> p.calls, completion |-> p.completion, errors |-> p.errors,
          parseErr |-> p.parseErr]
  /\ p.text \in Seq(Nat) /\ p.errors \in Nat

StreamTypes ==
  /\ streamKind \in {"chat", "responses", "http", "bareHttp", "anthropic"}
  /\ streamed \in BOOLEAN /\ (streamed => streamKind # "anthropic")
  /\ meant \in Stream!Answers /\ sent \in Stream!Answers
  /\ sent.text <= meant.text /\ \A i \in Indices : sent.calls[i] <= meant.calls[i]
  /\ Stream!IsHttp /\ streamed => meant.calls = Stream!NothingSent.calls
  /\ ending \in {"no", "finished", "failed"}
  /\ conn \in {"open", "eof", "broken"}
  /\ events \in Seq(Stream!Events)
  /\ IsAssembly(parsed)
  /\ assembled # Nothing => conn # "open"

\* What a mark says of the server: it ended, or it had sent all and did not
\* fail.
MarksInv ==
  /\ ending = "finished" =>
       /\ Stream!AllSent
       /\ streamKind = "responses" => Stream!Arrived("completed") \/ Stream!Arrived("garbledEnd")
  /\ Stream!Arrived("done") => ending # "no"
  /\ Stream!Arrived("completed") => streamKind = "responses" /\ ending = "finished"
  /\ Stream!Arrived("garbledEnd") \/ Stream!Arrived("headEnd") =>
       /\ streamKind = "responses" /\ Stream!AllSent /\ ending # "failed"
       /\ ending = "finished" \/ conn # "open"

\* The text is the pieces that arrived with what was taken for text; without
\* an error a piece that was sent arrived or was lost in silence.
TextInv ==
  /\ \/ Stream!InOrder(parsed.text, Stream!Pieces \cup Stream!JunkTaken)
     \/ /\ streamKind = "responses" /\ Stream!Pieces = {} /\ Stream!Arrived("completed")
        /\ parsed.text = Stream!UpTo(meant.text)
  /\ Stream!Pieces \subseteq 1 .. sent.text
  /\ Stream!LostInSilence \subseteq 0 .. sent.text
  /\ streamKind = "responses" => Stream!LostInSilence = {}
  /\ parsed.errors = 0 => Stream!Pieces = (1 .. sent.text) \ Stream!LostInSilence

Used == {i \in Indices : Stream!Fragments(i) # {}}
SentCalls ==
  [i \in {j \in Indices : sent.calls[j] > 0} |->
     [named |-> TRUE, args |-> Stream!UpTo(sent.calls[i])]]

\* So are the calls of a chat stream; the other one brings them in one piece.
CallsInv ==
  /\ streamKind = "chat" =>
       /\ DOMAIN parsed.calls = Used
       /\ \A i \in Indices : Stream!Fragments(i) \subseteq 1 .. sent.calls[i]
       /\ \A i \in Used :
            /\ parsed.calls[i].args \in Seq(Nat)
            /\ Stream!InOrder(parsed.calls[i].args, Stream!Fragments(i))
            /\ parsed.calls[i].named <=> 1 \in Stream!Fragments(i)
       /\ parsed.errors = 0 => parsed.calls = SentCalls
  /\ streamKind = "responses" /\ Stream!Arrived("completed") => parsed.calls = Stream!MeantCalls

\* A stream counts as complete because of a mark, a garbled one is an error.
CompletionInv ==
  /\ parsed.completion = "completed" => Stream!Arrived("done") \/ Stream!Arrived("completed")
  /\ streamKind = "responses" /\ Stream!Arrived("garbledEnd") => parsed.errors > 0

\* The body that is no stream.
BodyTypes == {"whole", "bad", "raw", "missing", "oddCalls"}
BodyEventInv ==
  ~streamed /\ conn = "eof" =>
    \E body \in BodyTypes :
      /\ events = <<Stream!Mark(body)>>
      /\ body = "raw" => meant.calls = Stream!NothingSent.calls
      /\ body = "oddCalls" => streamKind = "http"

StreamInv ==
  /\ StreamTypes /\ BodyEventInv
  /\ streamed => MarksInv /\ TextInv /\ CallsInv /\ CompletionInv
  /\ ~streamed => ending = "no" /\ sent = Stream!NothingSent
  /\ Stream!CleanAnswerIsWhole /\ Stream!CompletedMeansAllSent /\ Stream!ArrivedIsInPlace

-----------------------------------------------------------------------------
\* Facts about the sequences of numbers and about the places of indices.

LEMMA UpToFacts ==
  ASSUME NEW n \in Nat
  PROVE  /\ Stream!UpTo(n) \in Seq(Nat) /\ Len(Stream!UpTo(n)) = n
         /\ Append(Stream!UpTo(n), n + 1) = Stream!UpTo(n + 1)
         /\ (Stream!UpTo(n) = <<>> <=> n = 0)
<1>1. Stream!UpTo(n) \in Seq(Nat) /\ Len(Stream!UpTo(n)) = n
  BY DEF Stream!UpTo
<1>2. Append(Stream!UpTo(n), n + 1) = Stream!UpTo(n + 1)
  BY <1>1 DEF Stream!UpTo
<1>3. Stream!UpTo(n) = <<>> <=> n = 0
  BY <1>1 DEF Stream!UpTo
<1> QED BY <1>1, <1>2, <1>3

\* A number that is larger than all before, or that is no piece, goes behind.
LEMMA AppendInOrder ==
  ASSUME NEW S, NEW n \in Nat, NEW s \in Seq(Nat), Stream!InOrder(s, S),
         n # Stream!Junk => \A m \in S : m < n
  PROVE  Append(s, n) \in Seq(Nat) /\ Stream!InOrder(Append(s, n), S \cup {n})
<1> DEFINE t == Append(s, n)
<1>1. /\ t \in Seq(Nat) /\ Len(s) \in Nat /\ DOMAIN s = 1 .. Len(s) /\ DOMAIN t = 1 .. Len(s) + 1
      /\ t[Len(s) + 1] = n /\ \A k \in DOMAIN s : t[k] = s[k]
  OBVIOUS
<1>2. /\ {s[k] : k \in DOMAIN s} = S
      /\ \A j, k \in DOMAIN s : j < k /\ s[k] # Stream!Junk => s[j] < s[k]
  BY DEF Stream!InOrder
<1> HIDE DEF t
<1>3. {t[k] : k \in DOMAIN t} = S \cup {n}
  <2>1. DOMAIN t = DOMAIN s \cup {Len(s) + 1}
    BY <1>1
  <2>2. \A k \in DOMAIN t : t[k] \in S \cup {n}
    BY <1>1, <1>2, <2>1
  <2>3. ASSUME NEW m \in S PROVE \E k \in DOMAIN t : t[k] = m
    BY <1>1, <1>2, <2>1
  <2>4. \E k \in DOMAIN t : t[k] = n
    BY <1>1, <2>1
  <2> QED BY <2>2, <2>3, <2>4
<1>4. \A j, k \in DOMAIN t : j < k /\ t[k] # Stream!Junk => t[j] < t[k]
  <2> SUFFICES ASSUME NEW j \in DOMAIN t, NEW k \in DOMAIN t, j < k, t[k] # Stream!Junk
               PROVE  t[j] < t[k]
    OBVIOUS
  <2>1. j \in DOMAIN s /\ t[j] = s[j] /\ s[j] \in S
    BY <1>1, <1>2
  <2>2. CASE k \in DOMAIN s
    BY <1>1, <1>2, <2>1, <2>2
  <2>3. CASE k = Len(s) + 1
    BY <1>1, <2>1, <2>3
  <2> QED BY <1>1, <2>2, <2>3
<1> QED BY <1>1, <1>3, <1>4 DEF Stream!InOrder, t

LEMMA UpToInOrder == ASSUME NEW n \in Nat PROVE Stream!InOrder(Stream!UpTo(n), 1 .. n)
<1> DEFINE s == Stream!UpTo(n)
<1>1. DOMAIN s = 1 .. n /\ \A k \in 1 .. n : s[k] = k
  BY DEF Stream!UpTo
<1> HIDE DEF s
<1>2. {s[k] : k \in DOMAIN s} = 1 .. n
  BY <1>1
<1> QED BY <1>1, <1>2 DEF Stream!InOrder, s

\* The instance has its own name for the library's cardinality.
LEMMA SameCardinality ==
  ASSUME NEW S
  PROVE  Stream!Cardinality(S) = Cardinality(S) /\ (Stream!IsFiniteSet(S) <=> IsFiniteSet(S))
<1>1. Stream!Cardinality(S) = Cardinality(S)
  BY Zenon DEF Stream!Cardinality, Cardinality
<1>2. Stream!IsFiniteSet(S) <=> IsFiniteSet(S)
  BY Zenon DEF Stream!IsFiniteSet, IsFiniteSet
<1> QED BY <1>1, <1>2

LEMMA PlacesDiffer ==
  ASSUME NEW S \in SUBSET Nat, IsFiniteSet(S), NEW i \in S
  PROVE  /\ Stream!Place(i, S) \in 1 .. Cardinality(S)
         /\ (CHOOSE j \in S : Stream!Place(j, S) = Stream!Place(i, S)) = i
<1> DEFINE Upto(j) == {m \in S : m <= j}
<1>1. ASSUME NEW j \in S
      PROVE  /\ IsFiniteSet(Upto(j)) /\ Cardinality(Upto(j)) \in 1 .. Cardinality(S)
             /\ Stream!Place(j, S) = Cardinality(Upto(j))
  <2>1. Upto(j) \subseteq S /\ j \in Upto(j)
    OBVIOUS
  <2>2. Stream!Place(j, S) = Cardinality(Upto(j))
    BY SameCardinality DEF Stream!Place
  <2> HIDE DEF Upto
  <2>3. IsFiniteSet(Upto(j)) /\ Cardinality(Upto(j)) <= Cardinality(S)
    BY <2>1, FS_Subset
  <2>4. Cardinality(Upto(j)) \in Nat /\ Cardinality(S) \in Nat /\ Cardinality(Upto(j)) # 0
    BY <2>1, <2>3, FS_CardinalityType, FS_EmptySet
  <2> QED BY <2>2, <2>3, <2>4
<1>2. ASSUME NEW j \in S, NEW k \in S, j < k
      PROVE  Cardinality(Upto(j)) < Cardinality(Upto(k))
  <2>0. j \in Nat /\ k \in Nat /\ \A m \in S : m \in Nat
    OBVIOUS
  <2>5. \A m \in S : m <= j => m <= k
    BY <1>2, <2>0
  <2>6. k <= k /\ ~(k <= j)
    BY <1>2, <2>0
  <2>1. Upto(j) \subseteq Upto(k) /\ k \in Upto(k) /\ k \notin Upto(j)
    BY <2>5, <2>6
  <2> HIDE DEF Upto
  <2>2. IsFiniteSet(Upto(k)) /\ Upto(j) # Upto(k)
    BY <1>1, <2>1
  <2>3. Cardinality(Upto(j)) <= Cardinality(Upto(k)) /\ Cardinality(Upto(j)) # Cardinality(Upto(k))
    BY <2>1, <2>2, FS_Subset
  <2>4. Cardinality(Upto(j)) \in Nat /\ Cardinality(Upto(k)) \in Nat
    BY <1>1
  <2> QED BY <2>3, <2>4
<1> HIDE DEF Upto
<1>3. ASSUME NEW j \in S, Stream!Place(j, S) = Stream!Place(i, S) PROVE j = i
  <2>1. ~(j < i) /\ ~(i < j)
    BY <1>1, <1>2, <1>3
  <2> QED BY <2>1
<1> QED BY <1>1, <1>3

-----------------------------------------------------------------------------
\* Facts about events.

LEMMA EventFacts ==
  ASSUME NEW type \in Stream!Types, NEW i \in Nat, NEW n \in Nat
  PROVE  /\ Stream!Event(type, i, n) \in Stream!Events /\ Stream!Mark(type) \in Stream!Events
         /\ Stream!Event(type, i, n).type = type /\ Stream!Mark(type).type = type
         /\ Stream!Event(type, i, n).index = i /\ Stream!Event(type, i, n).n = n
BY DEF Stream!Event, Stream!Mark, Stream!Events

\* What an event adds to what arrived.
LEMMA Arrivals ==
  ASSUME events \in Seq(Stream!Events), NEW e \in Stream!Events, events' = Append(events, e)
  PROVE  /\ events' \in Seq(Stream!Events)
         /\ \A type : Stream!Arrived(type)' <=> Stream!Arrived(type) \/ e.type = type
         /\ Stream!Pieces' = IF e.type = "text" THEN Stream!Pieces \cup {e.n} ELSE Stream!Pieces
         /\ \A i : Stream!Fragments(i)' =
                     IF e.type = "call" /\ e.index = i THEN Stream!Fragments(i) \cup {e.n}
                     ELSE Stream!Fragments(i)
<1>1. /\ events' \in Seq(Stream!Events) /\ Len(events) \in Nat /\ DOMAIN events = 1 .. Len(events)
      /\ DOMAIN events' = DOMAIN events \cup {Len(events) + 1}
      /\ events'[Len(events) + 1] = e /\ \A k \in DOMAIN events : events'[k] = events[k]
      /\ Len(events) + 1 \notin DOMAIN events
  OBVIOUS
<1>2. ASSUME NEW type PROVE Stream!Arrived(type)' <=> Stream!Arrived(type) \/ e.type = type
  BY <1>1 DEF Stream!Arrived
<1>3. Stream!Pieces' = IF e.type = "text" THEN Stream!Pieces \cup {e.n} ELSE Stream!Pieces
  BY <1>1 DEF Stream!Pieces, Stream!Numbers
<1>4. ASSUME NEW i
      PROVE  Stream!Fragments(i)' =
               IF e.type = "call" /\ e.index = i THEN Stream!Fragments(i) \cup {e.n}
               ELSE Stream!Fragments(i)
  BY <1>1 DEF Stream!Fragments
<1> QED BY <1>1, <1>2, <1>3, <1>4

\* What it adds to what is lost, or is taken for text.
LEMMA SilentArrivals ==
  ASSUME events \in Seq(Stream!Events), NEW e \in Stream!Events, events' = Append(events, e),
         streamed, streamed', streamKind' = streamKind
  PROVE  /\ Stream!LostInSilence' =
              IF e.type \in Stream!PassedOver \cup Stream!TakenAsText
              THEN Stream!LostInSilence \cup {e.n} ELSE Stream!LostInSilence
         /\ Stream!JunkTaken' = IF e.type \in Stream!TakenAsText THEN {Stream!Junk} ELSE Stream!JunkTaken
<1> DEFINE types == Stream!PassedOver \cup Stream!TakenAsText
<1>1. /\ DOMAIN events' = DOMAIN events \cup {Len(events) + 1}
      /\ events'[Len(events) + 1] = e /\ \A k \in DOMAIN events : events'[k] = events[k]
      /\ Len(events) + 1 \notin DOMAIN events
  OBVIOUS
<1>2. Stream!TakenAsText' = Stream!TakenAsText /\ Stream!PassedOver' = Stream!PassedOver
      /\ Stream!Junk' = Stream!Junk
  BY DEF Stream!TakenAsText, Stream!PassedOver, Stream!Junk
<1>3. /\ Stream!LostInSilence = {events[k].n : k \in {j \in DOMAIN events : events[j].type \in types}}
      /\ Stream!LostInSilence' = {events'[k].n : k \in {j \in DOMAIN events' : events'[j].type \in types}}
  BY <1>2 DEF Stream!LostInSilence, Stream!Numbers
<1>4. \A type : Stream!Arrived(type)' <=> Stream!Arrived(type) \/ e.type = type
  BY Arrivals
<1>5. Stream!JunkTaken' = IF e.type \in Stream!TakenAsText THEN {Stream!Junk} ELSE Stream!JunkTaken
  BY <1>2, <1>4 DEF Stream!JunkTaken
<1> HIDE DEF types
<1>6. Stream!LostInSilence' = IF e.type \in types THEN Stream!LostInSilence \cup {e.n}
                              ELSE Stream!LostInSilence
  BY <1>1, <1>3
<1> QED BY <1>5, <1>6 DEF types

\* What the loops make of an event.
LEMMA StepFacts ==
  ASSUME NEW e \in Stream!Events, streamKind \in {"chat", "responses", "http", "bareHttp"},
         NEW p, IsAssembly(p), NEW q, q = Stream!Step(p, e), meant.text \in Nat
  PROVE  /\ IsAssembly(q)
         /\ q.text = IF e.type = "text" THEN Append(p.text, e.n)
                     ELSE IF e.type \in Stream!TakenAsText THEN Append(p.text, Stream!Junk)
                     ELSE IF streamKind = "responses" /\ e.type = "completed" /\ p.text = <<>>
                          THEN Stream!UpTo(meant.text) ELSE p.text
         /\ streamKind = "chat" =>
              q.calls = IF e.type = "call" THEN Stream!MergeCall(p.calls, e) ELSE p.calls
         /\ streamKind = "responses" =>
              q.calls = IF e.type = "completed" THEN Stream!MeantCalls ELSE p.calls
         /\ q.errors >= p.errors
         /\ e.type = "bad" /\ e.type \notin Stream!TakenAsText => q.errors > 0
         /\ streamKind = "responses" /\ e.type = "garbledEnd" => q.errors > 0
         /\ q.completion = "completed" =>
              p.completion = "completed" \/ e.type \in {"done", "completed"}
<1>1. /\ p = [text |-> p.text, calls |-> p.calls, completion |-> p.completion,
              errors |-> p.errors, parseErr |-> p.parseErr]
      /\ p.text \in Seq(Nat) /\ p.errors \in Nat /\ e.n \in Nat
  BY DEF IsAssembly, Stream!Events
<1>2. Append(p.text, e.n) \in Seq(Nat) /\ Stream!UpTo(meant.text) \in Seq(Nat)
  BY <1>1, UpToFacts
<1>0. streamKind # "bareHttp" => Stream!TakenAsText = {}
  BY DEF Stream!TakenAsText
<1>3. CASE streamKind = "chat"
  <2>1. q = Stream!ChatStep(p, e)
    BY <1>3 DEF Stream!Step
  <2>2. CASE e.type = "done"
    BY <1>0, <1>1, <1>3, <2>1, <2>2 DEF Stream!ChatStep, IsAssembly
  <2>3. CASE e.type = "bad"
    <3>1. q = [text |-> p.text, calls |-> p.calls, completion |-> p.completion,
               errors |-> p.errors + 1, parseErr |-> TRUE]
      BY <1>1, <2>3, <2>1 DEF Stream!ChatStep, Stream!RecordParseError
    <3> QED BY <1>0, <1>1, <1>2, <1>3, <2>3, <3>1 DEF IsAssembly
  <2>4. CASE e.type = "text"
    <3>1. q = [text |-> Append(p.text, e.n), calls |-> p.calls, completion |-> p.completion,
               errors |-> p.errors, parseErr |-> p.parseErr]
      BY <1>1, <2>4, <2>1 DEF Stream!ChatStep
    <3> QED BY <1>0, <1>1, <1>2, <1>3, <2>4, <3>1 DEF IsAssembly
  <2>5. CASE e.type = "call"
    BY <1>0, <1>1, <1>3, <2>1, <2>5 DEF Stream!ChatStep, IsAssembly
  <2>6. CASE e.type \notin {"done", "bad", "text", "call"}
    <3>1. q = p
      BY <2>1, <2>6 DEF Stream!ChatStep
    <3> QED BY <1>0, <1>1, <1>3, <2>6, <3>1 DEF IsAssembly
  <2> QED BY <2>2, <2>3, <2>4, <2>5, <2>6
<1>4. CASE streamKind = "responses"
  <2>1. q = Stream!ResponsesStep(p, e)
    BY <1>4 DEF Stream!Step
  <2>2. CASE e.type = "done"
    BY <1>0, <1>1, <1>4, <2>1, <2>2 DEF Stream!ResponsesStep, IsAssembly
  <2>3. CASE e.type \in {"bad", "garbledEnd"}
    <3>1. q = [text |-> p.text, calls |-> p.calls, completion |-> p.completion,
               errors |-> p.errors + 1, parseErr |-> TRUE]
      BY <1>1, <2>3, <2>1 DEF Stream!ResponsesStep, Stream!RecordParseError
    <3> QED BY <1>0, <1>1, <1>2, <1>4, <2>3, <3>1 DEF IsAssembly
  <2>4. CASE e.type = "text"
    <3>1. q = [text |-> Append(p.text, e.n), calls |-> p.calls, completion |-> p.completion,
               errors |-> p.errors, parseErr |-> p.parseErr]
      BY <1>1, <2>4, <2>1 DEF Stream!ResponsesStep
    <3> QED BY <1>0, <1>1, <1>2, <1>4, <2>4, <3>1 DEF IsAssembly
  <2>5. CASE e.type = "completed"
    <3>1. q = [text |-> IF p.text = <<>> THEN Stream!UpTo(meant.text) ELSE p.text, calls |-> Stream!MeantCalls, completion |-> "completed",
               errors |-> p.errors, parseErr |-> p.parseErr \/ meant = Stream!NothingSent]
      BY <1>1, <2>5, <2>1 DEF Stream!ResponsesStep
    <3> QED BY <1>0, <1>1, <1>2, <1>4, <2>5, <3>1 DEF IsAssembly
  <2>6. CASE e.type = "failed"
    BY <1>0, <1>1, <1>4, <2>1, <2>6 DEF Stream!ResponsesStep, IsAssembly
  <2>7. CASE e.type \notin {"done", "bad", "garbledEnd", "text", "completed", "failed"}
    <3>1. q = p
      BY <2>1, <2>7 DEF Stream!ResponsesStep
    <3> QED BY <1>0, <1>1, <1>4, <2>7, <3>1 DEF IsAssembly
  <2> QED BY <2>2, <2>3, <2>4, <2>5, <2>6, <2>7
<1>5. CASE streamKind \in {"http", "bareHttp"}
  <2>1. q = Stream!HttpStep(p, e)
    BY <1>5 DEF Stream!Step
  <2>2. \A type \in Stream!TakenAsText : type \notin {"text", "done", "completed"}
    BY DEF Stream!TakenAsText
  <2>3. CASE e.type = "text"
    <3>1. q = [text |-> Append(p.text, e.n), calls |-> p.calls, completion |-> p.completion,
               errors |-> p.errors, parseErr |-> p.parseErr]
      BY <1>1, <2>1, <2>2, <2>3 DEF Stream!HttpStep
    <3> QED BY <1>1, <1>2, <1>5, <2>2, <2>3, <3>1 DEF IsAssembly
  <2>4. CASE e.type \in Stream!TakenAsText
    <3>1. q = [text |-> Append(p.text, Stream!Junk), calls |-> p.calls, completion |-> p.completion,
               errors |-> p.errors, parseErr |-> p.parseErr]
      BY <1>1, <2>1, <2>2, <2>4 DEF Stream!HttpStep
    <3>2. Append(p.text, Stream!Junk) \in Seq(Nat)
      BY <1>1 DEF Stream!Junk
    <3> QED BY <1>1, <1>5, <2>2, <2>4, <3>1, <3>2 DEF IsAssembly
  <2>5. CASE e.type \in {"bad", "other", "failed"} \ Stream!TakenAsText
    <3>1. q = [text |-> p.text, calls |-> p.calls, completion |-> p.completion,
               errors |-> p.errors + 1, parseErr |-> p.parseErr]
      BY <1>1, <2>1, <2>5 DEF Stream!HttpStep
    <3> QED BY <1>1, <1>5, <2>5, <3>1 DEF IsAssembly
  <2>6. CASE e.type \notin {"text", "bad", "other", "failed"} \cup Stream!TakenAsText
    <3>1. q = p
      BY <2>1, <2>6 DEF Stream!HttpStep
    <3> QED BY <1>1, <1>5, <2>6, <3>1 DEF IsAssembly
  <2> QED BY <2>3, <2>4, <2>5, <2>6
<1> QED BY <1>3, <1>4, <1>5

\* A fragment goes to its own call.
IsMerge(calls, e, merged, i) ==
  /\ DOMAIN merged = DOMAIN calls \cup {i}
  /\ \A j \in DOMAIN calls : j # i => merged[j] = calls[j]
  /\ merged[i] = [named |-> merged[i].named, args |-> merged[i].args]
  /\ merged[i].named \in BOOLEAN
  /\ i \in DOMAIN calls => /\ merged[i].args = Append(calls[i].args, e.n)
                           /\ merged[i].named <=> calls[i].named \/ e.n = 1
  /\ i \notin DOMAIN calls => /\ merged[i].args = Append(<<>>, e.n)
                              /\ merged[i].named <=> e.n = 1

LEMMA MergeFacts ==
  ASSUME NEW calls, NEW e
  PROVE  IsMerge(calls, e, Stream!MergeCall(calls, e), e.index)
<1>0. PICK merged, i : merged = Stream!MergeCall(calls, e) /\ i = e.index
  OBVIOUS
<1> DEFINE old == IF i \in DOMAIN calls THEN calls[i] ELSE [named |-> FALSE, args |-> <<>>]
<1>1. PICK b \in BOOLEAN : b = (old.named \/ e.n = 1)
  OBVIOUS
<1>2. merged = [j \in DOMAIN calls \cup {i} |->
                  IF j = i THEN [named |-> old.named \/ e.n = 1, args |-> Append(old.args, e.n)]
                  ELSE calls[j]]
  BY <1>0 DEF Stream!MergeCall
<1>3. merged[i] = [named |-> b, args |-> Append(old.args, e.n)]
  BY <1>1, <1>2
<1>4. /\ DOMAIN merged = DOMAIN calls \cup {i}
      /\ \A j \in DOMAIN calls : j # i => merged[j] = calls[j]
  BY <1>2
<1>5. i \in DOMAIN calls => old = calls[i]
  OBVIOUS
<1>6. i \notin DOMAIN calls => ~old.named /\ old.args = <<>>
  OBVIOUS
<1> HIDE DEF old
<1>7. merged[i].args = Append(old.args, e.n) /\ merged[i].named = b
  BY <1>3
<1>8. b <=> old.named \/ e.n = 1
  BY Zenon, <1>1
<1>9. merged[i].named \in BOOLEAN /\ (merged[i].named <=> old.named \/ e.n = 1)
  BY Zenon, <1>7, <1>8
<1>10. merged[i] = [named |-> merged[i].named, args |-> merged[i].args]
  BY <1>3
<1>11. i \in DOMAIN calls => /\ merged[i].args = Append(calls[i].args, e.n)
                             /\ merged[i].named <=> calls[i].named \/ e.n = 1
  BY Zenon, <1>5, <1>7, <1>9
<1>12. i \notin DOMAIN calls => /\ merged[i].args = Append(<<>>, e.n)
                                /\ merged[i].named <=> e.n = 1
  BY Zenon, <1>6, <1>7, <1>9
<1>13. IsMerge(calls, e, merged, i)
  BY Zenon, <1>4, <1>9, <1>10, <1>11, <1>12 DEF IsMerge
<1> QED BY Zenon, <1>0, <1>13

-----------------------------------------------------------------------------
\* What the server may send: the next piece, the next fragment of a chat
\* stream, the whole at its end, or something in the place of any of them.
Legal(e) ==
  /\ e.type = "text" => /\ e.n = sent.text + 1 /\ sent'.text = sent.text + 1
                        /\ sent'.calls = sent.calls /\ ~Stream!Arrived("completed")
  /\ e.type = "call" => /\ streamKind = "chat" /\ e.index \in Indices
                        /\ e.n = sent.calls[e.index] + 1 /\ sent'.text = sent.text
                        /\ sent'.calls = [sent.calls EXCEPT ![e.index] = @ + 1]
  /\ e.type = "completed" => streamKind = "responses" /\ sent.text = meant.text
  /\ e.type \in {"bad", "odd"} => \/ e.n = sent.text + 1 /\ sent'.text = sent.text + 1
                                  \/ e.n = 0 /\ sent'.text = sent.text
  /\ e.type = "bad" => \A i \in Indices : sent.calls[i] <= sent'.calls[i]
  /\ e.type = "odd" => streamKind # "responses" /\ sent'.calls = sent.calls
  /\ e.type \notin {"text", "call", "bad", "odd"} => sent' = sent /\ e.n = 0

LEMMA AnswerFields ==
  ASSUME NEW a \in Stream!Answers
  PROVE  a.text \in Nat /\ a.calls \in [Indices -> Nat] /\ \A i \in Indices : a.calls[i] \in Nat
BY TargetsAssumption DEF Stream!Answers, Stream!StreamAssumption

\* What is sent is lost in silence, or it arrives, or it is an error.
LEMMA ArriveKeepsNumbers ==
  ASSUME StreamTypes, streamed, TextInv, NEW e \in Stream!Events, Stream!Arrive(e), Legal(e),
         sent' \in Stream!Answers, UNCHANGED <<streamKind, streamed, meant>>
  PROVE  /\ Stream!Pieces' \subseteq 1 .. sent'.text
         /\ Stream!LostInSilence' \subseteq 0 .. sent'.text
         /\ streamKind = "responses" => Stream!LostInSilence' = {}
         /\ parsed'.errors = 0 => Stream!Pieces' = (1 .. sent'.text) \ Stream!LostInSilence'
<1>1. /\ events \in Seq(Stream!Events) /\ events' = Append(events, e) /\ parsed' = Stream!Step(parsed, e)
      /\ streamKind \in {"chat", "responses", "http", "bareHttp"} /\ IsAssembly(parsed)
  BY DEF StreamTypes, Stream!Arrive
<1>2. sent.text \in Nat /\ sent'.text \in Nat /\ meant.text \in Nat /\ e.n \in Nat
  BY AnswerFields DEF StreamTypes, Stream!Events
<1>3. PICK q : q = parsed'
  OBVIOUS
<1>4. /\ IsAssembly(q) /\ q.errors >= parsed.errors
      /\ e.type = "bad" /\ e.type \notin Stream!TakenAsText => q.errors > 0
  BY <1>1, <1>2, <1>3, StepFacts
<1>5. parsed.errors \in Nat /\ q.errors \in Nat
  BY <1>1, <1>4 DEF IsAssembly
<1>6. PICK silent : silent = Stream!PassedOver \cup Stream!TakenAsText
  OBVIOUS
<1>7. /\ Stream!Pieces' = IF e.type = "text" THEN Stream!Pieces \cup {e.n} ELSE Stream!Pieces
      /\ Stream!LostInSilence' = IF e.type \in silent THEN Stream!LostInSilence \cup {e.n}
                                 ELSE Stream!LostInSilence
  BY <1>1, <1>6, Arrivals, SilentArrivals
<1>8. /\ "odd" \in silent /\ "text" \notin silent /\ "call" \notin silent
      /\ streamKind = "responses" => silent = {"odd"}
      /\ "bad" \in silent => "bad" \in Stream!TakenAsText
  BY <1>6 DEF Stream!PassedOver, Stream!TakenAsText
<1>9. /\ Stream!Pieces \subseteq 1 .. sent.text /\ Stream!LostInSilence \subseteq 0 .. sent.text
      /\ streamKind = "responses" => Stream!LostInSilence = {}
      /\ parsed.errors = 0 => Stream!Pieces = (1 .. sent.text) \ Stream!LostInSilence
  BY DEF TextInv
<1>10. streamKind = "responses" => Stream!LostInSilence' = {}
  BY <1>7, <1>8, <1>9 DEF Legal
<1>11. q.errors = 0 => parsed.errors = 0 /\ (e.type = "bad" => e.type \in silent)
  BY <1>4, <1>5, <1>6
<1>12. CASE sent'.text = sent.text + 1
  <2>1. e.n = sent.text + 1 /\ e.type \in {"text", "bad", "odd"}
    BY <1>2, <1>12 DEF Legal
  <2>2. Stream!Pieces' \subseteq 1 .. sent'.text /\ Stream!LostInSilence' \subseteq 0 .. sent'.text
    <3>1. /\ 1 .. sent.text \subseteq 1 .. sent'.text /\ 0 .. sent.text \subseteq 0 .. sent'.text
          /\ e.n \in 1 .. sent'.text /\ e.n \in 0 .. sent'.text
      BY <1>2, <1>12, <2>1
    <3> QED BY <1>7, <1>9, <3>1
  <2>3. q.errors = 0 => Stream!Pieces' = (1 .. sent'.text) \ Stream!LostInSilence'
    <3>1. 1 .. sent'.text = (1 .. sent.text) \cup {e.n} /\ e.n \notin 0 .. sent.text
      BY <1>2, <1>12, <2>1
    <3> QED BY <1>7, <1>8, <1>9, <1>11, <2>1, <3>1
  <2> QED BY <1>3, <1>10, <2>2, <2>3
<1>13. CASE sent'.text = sent.text
  <2>1. e.type # "text"
    BY <1>2, <1>13 DEF Legal
  <2>2. e.type \in silent => e.n = 0
    BY <1>2, <1>8, <1>13 DEF Legal
  <2>3. Stream!Pieces' = Stream!Pieces /\ Stream!LostInSilence' \subseteq Stream!LostInSilence \cup {0}
        /\ Stream!LostInSilence \subseteq Stream!LostInSilence'
    BY <1>7, <2>1, <2>2
  <2>4. 0 \notin 1 .. sent.text /\ 0 \in 0 .. sent.text
    BY <1>2
  <2> QED BY <1>3, <1>9, <1>10, <1>11, <1>13, <2>3, <2>4
<1> QED BY <1>12, <1>13 DEF Legal

LEMMA ArriveKeepsText ==
  ASSUME StreamTypes, streamed, TextInv, NEW e \in Stream!Events, Stream!Arrive(e), Legal(e),
         sent' \in Stream!Answers, UNCHANGED <<streamKind, streamed, meant>>
  PROVE  TextInv' /\ IsAssembly(parsed') /\ events' \in Seq(Stream!Events)
<1>1. /\ events \in Seq(Stream!Events) /\ events' = Append(events, e) /\ parsed' = Stream!Step(parsed, e)
      /\ streamKind \in {"chat", "responses", "http", "bareHttp"} /\ IsAssembly(parsed)
  BY DEF StreamTypes, Stream!Arrive
<1>2. sent.text \in Nat /\ sent'.text \in Nat /\ meant.text \in Nat /\ e.n \in Nat
  BY AnswerFields DEF StreamTypes, Stream!Events
<1>3. PICK q : q = parsed'
  OBVIOUS
<1>4. /\ IsAssembly(q)
      /\ q.text = IF e.type = "text" THEN Append(parsed.text, e.n)
                  ELSE IF e.type \in Stream!TakenAsText THEN Append(parsed.text, Stream!Junk)
                  ELSE IF streamKind = "responses" /\ e.type = "completed" /\ parsed.text = <<>>
                       THEN Stream!UpTo(meant.text) ELSE parsed.text
  BY <1>1, <1>2, <1>3, StepFacts
<1>5. /\ Stream!Pieces' = IF e.type = "text" THEN Stream!Pieces \cup {e.n} ELSE Stream!Pieces
      /\ Stream!JunkTaken' = IF e.type \in Stream!TakenAsText THEN {Stream!Junk} ELSE Stream!JunkTaken
      /\ \A type : Stream!Arrived(type)' <=> Stream!Arrived(type) \/ e.type = type
      /\ events' \in Seq(Stream!Events)
  BY <1>1, Arrivals, SilentArrivals
<1>6. parsed.text \in Seq(Nat)
  BY <1>1 DEF IsAssembly
<1>7. /\ \/ Stream!InOrder(parsed.text, Stream!Pieces \cup Stream!JunkTaken)
         \/ /\ streamKind = "responses" /\ Stream!Pieces = {} /\ Stream!Arrived("completed")
            /\ parsed.text = Stream!UpTo(meant.text)
      /\ Stream!Pieces \subseteq 1 .. sent.text
  BY DEF TextInv
<1>8. Stream!JunkTaken \subseteq {Stream!Junk} /\ (streamKind # "bareHttp" => Stream!TakenAsText = {})
  BY DEF Stream!JunkTaken, Stream!TakenAsText
<1>9. \/ Stream!InOrder(q.text, Stream!Pieces' \cup Stream!JunkTaken')
      \/ /\ streamKind = "responses" /\ Stream!Pieces' = {} /\ Stream!Arrived("completed")'
         /\ q.text = Stream!UpTo(meant.text)
  <2>1. CASE e.type = "text"
    <3>1. /\ e.n = sent.text + 1 /\ ~Stream!Arrived("completed") /\ e.type \notin Stream!TakenAsText
      BY <2>1 DEF Legal, Stream!TakenAsText
    <3>2. q.text = Append(parsed.text, e.n) /\ Stream!Pieces' = Stream!Pieces \cup {e.n}
          /\ Stream!JunkTaken' = Stream!JunkTaken
      BY <1>4, <1>5, <2>1, <3>1
    <3>3. \A m \in Stream!Pieces \cup Stream!JunkTaken : m < e.n
      BY <1>2, <1>7, <1>8, <3>1 DEF Stream!Junk
    <3>4. Stream!InOrder(parsed.text, Stream!Pieces \cup Stream!JunkTaken)
      BY <1>7, <3>1
    <3>5. Stream!InOrder(Append(parsed.text, e.n), (Stream!Pieces \cup Stream!JunkTaken) \cup {e.n})
      BY <1>2, <1>6, <3>3, <3>4, AppendInOrder
    <3>6. (Stream!Pieces \cup Stream!JunkTaken) \cup {e.n} = Stream!Pieces' \cup Stream!JunkTaken'
      BY <3>2
    <3> QED BY <3>2, <3>5, <3>6
  <2>2. CASE e.type \in Stream!TakenAsText
    <3>1. e.type # "text" /\ streamKind # "responses"
      BY <1>8, <2>2 DEF Stream!TakenAsText
    <3>2. q.text = Append(parsed.text, Stream!Junk) /\ Stream!Pieces' = Stream!Pieces
          /\ Stream!JunkTaken' = {Stream!Junk}
      BY <1>4, <1>5, <2>2, <3>1
    <3>3. Stream!InOrder(parsed.text, Stream!Pieces \cup Stream!JunkTaken)
      BY <1>7, <3>1
    <3>4. Stream!Junk \in Nat
      BY DEF Stream!Junk
    <3>5. Stream!InOrder(Append(parsed.text, Stream!Junk),
                         (Stream!Pieces \cup Stream!JunkTaken) \cup {Stream!Junk})
      BY <1>6, <3>3, <3>4, AppendInOrder
    <3>6. (Stream!Pieces \cup Stream!JunkTaken) \cup {Stream!Junk} = Stream!Pieces' \cup Stream!JunkTaken'
      BY <1>8, <3>2
    <3> QED BY <3>2, <3>5, <3>6
  <2>3. CASE e.type # "text" /\ e.type \notin Stream!TakenAsText
    <3>1. Stream!Pieces' = Stream!Pieces /\ Stream!JunkTaken' = Stream!JunkTaken
      BY <1>5, <2>3
    <3>2. CASE streamKind = "responses" /\ e.type = "completed" /\ parsed.text = <<>>
      <4>1. q.text = Stream!UpTo(meant.text) /\ Stream!Arrived("completed")'
        BY <1>4, <1>5, <2>3, <3>2
      <4>2. Stream!Pieces = {}
        BY <1>7, <3>2 DEF Stream!InOrder
      <4> QED BY <3>1, <3>2, <4>1, <4>2
    <3>3. CASE ~(streamKind = "responses" /\ e.type = "completed" /\ parsed.text = <<>>)
      <4>1. q.text = parsed.text
        BY <1>4, <2>3, <3>3
      <4> QED BY <1>5, <1>7, <3>1, <4>1
    <3> QED BY <3>2, <3>3
  <2> QED BY <2>1, <2>2, <2>3
<1>10. Stream!UpTo(meant.text)' = Stream!UpTo(meant.text)
  BY DEF Stream!UpTo
<1> QED BY <1>1, <1>3, <1>4, <1>5, <1>9, <1>10, ArriveKeepsNumbers DEF TextInv, Stream!InOrder, Stream!Junk

LEMMA ArriveKeepsCalls ==
  ASSUME StreamTypes, streamed, CallsInv, NEW e \in Stream!Events, Stream!Arrive(e), Legal(e),
         sent' \in Stream!Answers, UNCHANGED <<streamKind, meant>>
  PROVE  CallsInv'
<1>1. /\ events \in Seq(Stream!Events) /\ events' = Append(events, e) /\ parsed' = Stream!Step(parsed, e)
      /\ streamKind \in {"chat", "responses", "http", "bareHttp"} /\ IsAssembly(parsed)
  BY DEF StreamTypes, Stream!Arrive
<1>2. /\ sent.calls \in [Indices -> Nat] /\ sent'.calls \in [Indices -> Nat]
      /\ \A i \in Indices : sent.calls[i] \in Nat /\ sent'.calls[i] \in Nat
      /\ meant.text \in Nat /\ e.n \in Nat
  BY AnswerFields DEF StreamTypes, Stream!Events
<1>3. PICK q : q = parsed'
  OBVIOUS
<1>4. /\ IsAssembly(q)
      /\ streamKind = "chat" =>
           q.calls = IF e.type = "call" THEN Stream!MergeCall(parsed.calls, e) ELSE parsed.calls
      /\ streamKind = "responses" =>
           q.calls = IF e.type = "completed" THEN Stream!MeantCalls ELSE parsed.calls
      /\ q.errors >= parsed.errors /\ (streamKind = "chat" /\ e.type = "bad" => q.errors > 0)
  BY <1>1, <1>2, <1>3, StepFacts DEF Stream!TakenAsText
<1>5. /\ \A i : Stream!Fragments(i)' =
                  IF e.type = "call" /\ e.index = i THEN Stream!Fragments(i) \cup {e.n}
                  ELSE Stream!Fragments(i)
      /\ \A type : Stream!Arrived(type)' <=> Stream!Arrived(type) \/ e.type = type
  BY <1>1, Arrivals
<1>6. parsed.errors \in Nat /\ q.errors \in Nat
  BY <1>1, <1>4 DEF IsAssembly
<1>7. streamKind = "responses" /\ Stream!Arrived("completed")' => q.calls = Stream!MeantCalls'
  <2>1. Stream!MeantCalls' = Stream!MeantCalls
    BY DEF Stream!MeantCalls, Stream!UpTo
  <2> QED BY <1>4, <1>5, <2>1 DEF CallsInv
<1>8. ASSUME streamKind = "chat"
      PROVE  /\ DOMAIN q.calls = Used'
             /\ \A i \in Indices : Stream!Fragments(i)' \subseteq 1 .. sent'.calls[i]
             /\ \A i \in Used' :
                  /\ q.calls[i].args \in Seq(Nat)
                  /\ Stream!InOrder(q.calls[i].args, Stream!Fragments(i)')
                  /\ q.calls[i].named <=> 1 \in Stream!Fragments(i)'
             /\ q.errors = 0 => q.calls = SentCalls'
  <2>1. /\ DOMAIN parsed.calls = Used
        /\ \A i \in Indices : Stream!Fragments(i) \subseteq 1 .. sent.calls[i]
        /\ \A i \in Used :
             /\ parsed.calls[i].args \in Seq(Nat)
             /\ Stream!InOrder(parsed.calls[i].args, Stream!Fragments(i))
             /\ parsed.calls[i].named <=> 1 \in Stream!Fragments(i)
        /\ parsed.errors = 0 => parsed.calls = SentCalls
    BY <1>8 DEF CallsInv
  <2>2. CASE e.type # "call"
    <3>1. q.calls = parsed.calls /\ \A i : Stream!Fragments(i)' = Stream!Fragments(i)
      BY <1>4, <1>5, <1>8, <2>2
    <3>2. Used' = Used
      BY <3>1 DEF Used
    <3>3. \A i \in Indices : sent.calls[i] <= sent'.calls[i]
      BY <1>2, <2>2 DEF Legal
    <3>4. \A i \in Indices : Stream!Fragments(i)' \subseteq 1 .. sent'.calls[i]
      <4> SUFFICES ASSUME NEW i \in Indices, NEW m \in Stream!Fragments(i) PROVE m \in 1 .. sent'.calls[i]
        BY <3>1
      <4>1. m \in 1 .. sent.calls[i]
        BY <2>1
      <4> QED BY <1>2, <3>3, <4>1
    <3>5. q.errors = 0 => q.calls = SentCalls'
      <4>1. ASSUME q.errors = 0 PROVE parsed.errors = 0 /\ e.type # "bad"
        BY <1>4, <1>6, <1>8, <4>1
      <4>2. e.type # "bad" => sent'.calls = sent.calls
        BY <2>2 DEF Legal
      <4>3. e.type # "bad" => SentCalls' = SentCalls
        BY <4>2 DEF SentCalls, Stream!UpTo
      <4> QED BY <2>1, <3>1, <4>1, <4>3
    <3> QED BY <2>1, <3>1, <3>2, <3>4, <3>5
  <2>3. CASE e.type = "call"
    <3>1. PICK i \in Indices : i = e.index
      BY <2>3 DEF Legal
    <3>2. PICK n \in Nat : n = sent.calls[i]
      BY <1>2
    <3>3. /\ e.n = n + 1 /\ sent'.calls[i] = n + 1
          /\ \A j \in Indices : j # i => sent'.calls[j] = sent.calls[j]
      BY <1>2, <2>3, <3>1, <3>2 DEF Legal
    <3>4. /\ Stream!Fragments(i)' = Stream!Fragments(i) \cup {n + 1}
          /\ \A j : j # i => Stream!Fragments(j)' = Stream!Fragments(j)
      BY <1>5, <2>3, <3>1, <3>3
    <3>5. /\ q.calls = [j \in Used \cup {i} |-> q.calls[j]] /\ DOMAIN q.calls = Used \cup {i}
          /\ \A j \in Used : j # i => q.calls[j] = parsed.calls[j]
          /\ q.calls[i] = [named |-> q.calls[i].named, args |-> q.calls[i].args]
          /\ q.calls[i].named \in BOOLEAN
          /\ i \in Used => /\ q.calls[i].args = Append(parsed.calls[i].args, n + 1)
                           /\ q.calls[i].named <=> parsed.calls[i].named \/ n + 1 = 1
          /\ i \notin Used => /\ q.calls[i].args = Append(<<>>, n + 1)
                              /\ q.calls[i].named <=> n + 1 = 1
      <4>1. PICK c : c = parsed.calls
        OBVIOUS
      <4>2. q.calls = Stream!MergeCall(c, e) /\ DOMAIN c = Used
        BY <1>4, <1>8, <2>1, <2>3, <4>1
      <4>3. PICK m : m = q.calls
        OBVIOUS
      <4>4. /\ m = [j \in DOMAIN c \cup {i} |-> m[j]]
            /\ DOMAIN m = DOMAIN c \cup {i}
            /\ \A j \in DOMAIN c : j # i => m[j] = c[j]
            /\ m[i] = [named |-> m[i].named, args |-> m[i].args]
            /\ m[i].named \in BOOLEAN
            /\ i \in DOMAIN c => /\ m[i].args = Append(c[i].args, e.n)
                                 /\ m[i].named <=> c[i].named \/ e.n = 1
            /\ i \notin DOMAIN c => /\ m[i].args = Append(<<>>, e.n)
                                    /\ m[i].named <=> e.n = 1
        <5>1. m = Stream!MergeCall(c, e) /\ i = e.index
          BY Zenon, <3>1, <4>2, <4>3
        <5>2. m = [j \in DOMAIN m |-> m[j]]
          BY <5>1 DEF Stream!MergeCall
        <5>3. IsMerge(c, e, m, i)
          BY Zenon, <5>1, MergeFacts
        <5> QED BY Zenon, <5>2, <5>3 DEF IsMerge
      <4> QED BY <3>3, <4>1, <4>2, <4>3, <4>4
    <3>6. Used' = Used \cup {i}
      BY <3>1, <3>4 DEF Used
    <3>7. Stream!Fragments(i) \subseteq 1 .. n
      BY <2>1, <3>2
    <3>8. \A j \in Indices : Stream!Fragments(j)' \subseteq 1 .. sent'.calls[j]
      <4> SUFFICES ASSUME NEW j \in Indices, NEW m \in Stream!Fragments(j)' PROVE m \in 1 .. sent'.calls[j]
        OBVIOUS
      <4>1. CASE j = i
        BY <3>2, <3>3, <3>4, <3>7, <4>1
      <4>2. CASE j # i
        BY <2>1, <3>3, <3>4, <4>2
      <4> QED BY <4>1, <4>2
    <3>9. /\ q.calls[i].args \in Seq(Nat)
          /\ Stream!InOrder(q.calls[i].args, Stream!Fragments(i)')
          /\ q.calls[i].named <=> 1 \in Stream!Fragments(i)'
      <4>1. \A m \in Stream!Fragments(i) : m < n + 1
        BY <3>2, <3>7
      <4>2. CASE i \in Used
        <5>1. /\ parsed.calls[i].args \in Seq(Nat)
              /\ Stream!InOrder(parsed.calls[i].args, Stream!Fragments(i))
              /\ parsed.calls[i].named <=> 1 \in Stream!Fragments(i)
          BY <2>1, <4>2
        <5>2. /\ q.calls[i].args = Append(parsed.calls[i].args, n + 1)
              /\ q.calls[i].named <=> parsed.calls[i].named \/ n + 1 = 1
          BY <3>5, <4>2
        <5>3. q.calls[i].args \in Seq(Nat) /\ Stream!InOrder(q.calls[i].args, Stream!Fragments(i)')
          BY <3>4, <4>1, <5>1, <5>2, AppendInOrder
        <5>4. 1 \in Stream!Fragments(i)' <=> 1 \in Stream!Fragments(i) \/ n + 1 = 1
          BY <3>4
        <5> QED BY Zenon, <5>1, <5>2, <5>3, <5>4
      <4>3. CASE i \notin Used
        <5>1. Stream!Fragments(i) = {}
          BY <3>1, <4>3 DEF Used
        <5>2. /\ q.calls[i].args = Append(<<>>, n + 1) /\ (q.calls[i].named <=> n + 1 = 1)
          BY <3>5, <4>3
        <5>3. <<>> \in Seq(Nat) /\ Stream!InOrder(<<>>, {})
          BY DEF Stream!InOrder
        <5>4. q.calls[i].args \in Seq(Nat) /\ Stream!InOrder(q.calls[i].args, Stream!Fragments(i)')
          <6>1. \A m \in {} : m < n + 1
            OBVIOUS
          <6>2. n + 1 \in Nat
            OBVIOUS
          <6>3. Append(<<>>, n + 1) \in Seq(Nat) /\ Stream!InOrder(Append(<<>>, n + 1), {} \cup {n + 1})
            BY <5>3, <6>1, <6>2, AppendInOrder
          <6> QED BY <3>4, <5>1, <5>2, <6>3
        <5>5. 1 \in Stream!Fragments(i)' <=> n + 1 = 1
          BY <3>4, <5>1
        <5> QED BY Zenon, <5>2, <5>4, <5>5
      <4> QED BY <4>2, <4>3
    <3>10. ASSUME q.errors = 0 PROVE q.calls = SentCalls'
      <4>1. parsed.errors = 0 /\ parsed.calls = SentCalls
        BY <1>4, <1>6, <2>1, <3>10
      <4>2. \A j \in Indices : j \in Used <=> sent.calls[j] > 0
        BY <2>1, <4>1 DEF SentCalls
      <4>3. \A j \in Indices : sent'.calls[j] > 0 <=> j \in Used \cup {i}
        BY <1>2, <3>1, <3>2, <3>3, <4>2
      <4>4. Used \cup {i} = {j \in Indices : sent'.calls[j] > 0}
        BY <4>3 DEF Used
      <4>5. \A j \in Used : parsed.calls[j] = [named |-> TRUE, args |-> Stream!UpTo(sent.calls[j])]
        BY <4>1, <4>2 DEF SentCalls, Used
      <4>6. q.calls[i] = [named |-> TRUE, args |-> Stream!UpTo(n + 1)]
        <5>1. CASE i \in Used
          <6>1. parsed.calls[i] = [named |-> TRUE, args |-> Stream!UpTo(n)]
            BY <3>2, <4>5, <5>1
          <6>2. parsed.calls[i].named /\ parsed.calls[i].args = Stream!UpTo(n)
            BY <6>1
          <6>3. q.calls[i].named /\ q.calls[i].args = Append(Stream!UpTo(n), n + 1)
            BY Zenon, <3>5, <5>1, <6>2
          <6>4. q.calls[i].named = TRUE /\ q.calls[i].args = Stream!UpTo(n + 1)
            BY Zenon, <3>5, <6>3, UpToFacts
          <6> QED BY Zenon, <3>5, <6>4
        <5>2. CASE i \notin Used
          <6>1. n = 0 /\ Stream!UpTo(n) = <<>>
            BY <3>2, <4>2, <5>2, UpToFacts
          <6>2. Append(<<>>, n + 1) = Stream!UpTo(n + 1) /\ n + 1 = 1
            <7>1. Append(Stream!UpTo(n), n + 1) = Stream!UpTo(n + 1)
              BY UpToFacts
            <7>2. Append(<<>>, n + 1) = Stream!UpTo(n + 1)
              BY Zenon, <6>1, <7>1
            <7> QED BY <6>1, <7>2
          <6>3. q.calls[i].named = TRUE /\ q.calls[i].args = Stream!UpTo(n + 1)
            BY Zenon, <3>5, <5>2, <6>2
          <6> QED BY Zenon, <3>5, <6>3
        <5> QED BY <5>1, <5>2
      <4>7. \A j \in Used \cup {i} :
              q.calls[j] = [named |-> TRUE, args |-> Stream!UpTo(sent'.calls[j])]
        BY <3>3, <3>5, <4>5, <4>6 DEF Used
      <4>8. SentCalls' = [j \in {k \in Indices : sent'.calls[k] > 0} |->
                            [named |-> TRUE, args |-> Stream!UpTo(sent'.calls[j])]]
        BY DEF SentCalls, Stream!UpTo
      <4> QED BY <3>5, <4>4, <4>7, <4>8
    <3>11. ASSUME NEW j \in Used, j # i
           PROVE  /\ q.calls[j].args \in Seq(Nat)
                  /\ Stream!InOrder(q.calls[j].args, Stream!Fragments(j)')
                  /\ q.calls[j].named <=> 1 \in Stream!Fragments(j)'
      BY <2>1, <3>4, <3>5, <3>11
    <3> QED BY <3>5, <3>6, <3>8, <3>9, <3>10, <3>11
  <2> QED BY <2>2, <2>3
<1> QED BY <1>3, <1>7, <1>8 DEF CallsInv, Stream!InOrder

LEMMA ArriveKeepsCompletion ==
  ASSUME StreamTypes, streamed, CompletionInv, NEW e \in Stream!Events, Stream!Arrive(e),
         UNCHANGED <<streamKind, meant>>
  PROVE  CompletionInv'
<1>1. /\ events \in Seq(Stream!Events) /\ events' = Append(events, e) /\ parsed' = Stream!Step(parsed, e)
      /\ streamKind \in {"chat", "responses", "http", "bareHttp"} /\ IsAssembly(parsed)
      /\ meant.text \in Nat
  BY AnswerFields DEF StreamTypes, Stream!Arrive
<1>2. PICK q : q = parsed'
  OBVIOUS
<1>3. /\ IsAssembly(q) /\ q.errors >= parsed.errors
      /\ streamKind = "responses" /\ e.type = "garbledEnd" => q.errors > 0
      /\ q.completion = "completed" =>
           parsed.completion = "completed" \/ e.type \in {"done", "completed"}
  BY <1>1, <1>2, StepFacts
<1>4. \A type : Stream!Arrived(type)' <=> Stream!Arrived(type) \/ e.type = type
  BY <1>1, Arrivals
<1>5. parsed.errors \in Nat /\ q.errors \in Nat
  BY <1>1, <1>3 DEF IsAssembly
<1>6. q.completion = "completed" => Stream!Arrived("done")' \/ Stream!Arrived("completed")'
  BY <1>3, <1>4 DEF CompletionInv
<1>7. streamKind = "responses" /\ Stream!Arrived("garbledEnd")' => q.errors > 0
  BY <1>3, <1>4, <1>5 DEF CompletionInv
<1> QED BY <1>2, <1>6, <1>7 DEF CompletionInv

\* Before the server has ended, no mark of an end has arrived.
LEMMA QuietMarks ==
  ASSUME StreamTypes, MarksInv, ending = "no", conn = "open", NEW e \in Stream!Events,
         Stream!Arrive(e), e.type \notin {"done", "completed", "garbledEnd", "headEnd"},
         ending' # "finished", streamKind' = streamKind
  PROVE  MarksInv'
<1>1. \A type : Stream!Arrived(type)' <=> Stream!Arrived(type) \/ e.type = type
  BY Arrivals DEF StreamTypes, Stream!Arrive
<1>2. \A type \in {"done", "completed", "garbledEnd", "headEnd"} : ~Stream!Arrived(type)
  BY DEF MarksInv
<1>3. \A type \in {"done", "completed", "garbledEnd", "headEnd"} : ~Stream!Arrived(type)'
  BY <1>1, <1>2
<1> QED BY <1>3 DEF MarksInv

\* What has no result yet has no wrong one.
LEMMA NothingIsWrong ==
  ASSUME assembled' = Nothing
  PROVE  /\ Stream!CleanAnswerIsWhole' /\ Stream!CompletedMeansAllSent'
         /\ Stream!ArrivedIsInPlace'
BY DEF Stream!CleanAnswerIsWhole, Stream!CompletedMeansAllSent, Stream!ArrivedIsInPlace,
       Stream!Assembled

\* An event that the server may send keeps the invariant, with the marks in
\* hand.
LEMMA ArriveKeeps ==
  ASSUME StreamInv, streamed, conn = "open", NEW e \in Stream!Events, Stream!Arrive(e), Legal(e),
         sent' \in Stream!Answers, sent'.text <= meant.text,
         \A i \in Indices : sent'.calls[i] <= meant.calls[i],
         UNCHANGED <<streamKind, streamed, status, meant, assembled>>,
         ending' \in {"no", "finished", "failed"}, conn' \in {"open", "eof", "broken"}, MarksInv'
  PROVE  StreamInv'
<1>1. StreamTypes /\ TextInv /\ CallsInv /\ CompletionInv /\ assembled = Nothing
  BY DEF StreamInv, StreamTypes
<1>2. TextInv' /\ IsAssembly(parsed') /\ events' \in Seq(Stream!Events)
  BY <1>1, ArriveKeepsText
<1>3. CallsInv' /\ CompletionInv'
  BY <1>1, ArriveKeepsCalls, ArriveKeepsCompletion
<1>4. /\ streamKind \in {"chat", "responses", "http", "bareHttp", "anthropic"}
      /\ streamed \in BOOLEAN /\ (streamed => streamKind # "anthropic")
      /\ meant \in Stream!Answers
      /\ Stream!IsHttp /\ streamed => meant.calls = Stream!NothingSent.calls
  BY <1>1 DEF StreamTypes
<1>5. StreamTypes'
  <2>1. Stream!Answers' = Stream!Answers /\ Stream!NothingSent' = Stream!NothingSent
        /\ Stream!Events' = Stream!Events
    BY DEF Stream!Answers, Stream!NothingSent, Stream!Events, Stream!Types
  <2>2. IsAssembly(parsed)'
    BY <1>2 DEF IsAssembly
  <2>3. Stream!IsHttp' <=> Stream!IsHttp
    BY DEF Stream!IsHttp
  <2> QED BY <1>1, <1>2, <1>4, <2>1, <2>2, <2>3 DEF StreamTypes
<1>6. BodyEventInv'
  BY DEF BodyEventInv
<1>7. /\ Stream!CleanAnswerIsWhole' /\ Stream!CompletedMeansAllSent'
      /\ Stream!ArrivedIsInPlace'
  BY <1>1, NothingIsWrong
<1> QED BY <1>2, <1>3, <1>5, <1>6, <1>7 DEF StreamInv

LEMMA SendTextKeeps == ASSUME StreamInv, Stream!SendText PROVE StreamInv'
<1>1. /\ StreamTypes /\ MarksInv /\ streamed /\ conn = "open" /\ ending = "no"
      /\ sent.text < meant.text /\ sent' = [sent EXCEPT !.text = @ + 1]
      /\ UNCHANGED <<streamKind, streamed, status, meant, ending, conn, assembled>>
  BY DEF StreamInv, Stream!SendText, Stream!Streaming
<1>2. sent \in Stream!Answers /\ meant \in Stream!Answers /\ sent.text \in Nat /\ meant.text \in Nat
  BY <1>1, AnswerFields DEF StreamTypes
<1>3. PICK e \in {Stream!Event("text", 0, sent.text + 1)} \cup Stream!Garbled(Stream!Damaged, sent.text + 1) :
        Stream!Arrive(e)
  BY DEF Stream!SendText
<1>4. PICK type \in {"text", "bad", "odd"} :
        /\ e = Stream!Event(type, 0, sent.text + 1)
        /\ type = "odd" => streamKind # "responses"
  BY DEF Stream!Garbled, Stream!Damaged
<1>5. /\ e \in Stream!Events /\ e.type \in {"text", "bad", "odd"} /\ e.n = sent.text + 1
      /\ e.type = "odd" => streamKind # "responses"
  <2>1. type \in Stream!Types /\ sent.text + 1 \in Nat /\ 0 \in Nat
    BY <1>2 DEF Stream!Types
  <2>2. e \in Stream!Events /\ e.type = type /\ e.n = sent.text + 1
    BY <1>4, <2>1, EventFacts
  <2> QED BY <1>4, <2>2
<1>6. /\ sent' \in Stream!Answers /\ sent'.text = sent.text + 1 /\ sent'.calls = sent.calls
      /\ sent'.text <= meant.text
  BY <1>1, <1>2, TargetsAssumption DEF Stream!Answers, Stream!StreamAssumption
<1>7. \A i \in Indices : sent.calls[i] \in Nat /\ sent'.calls[i] = sent.calls[i]
                         /\ sent'.calls[i] <= meant.calls[i]
  BY <1>1, <1>2, <1>6, AnswerFields DEF StreamTypes
<1>8. ~Stream!Arrived("completed")
  BY <1>1 DEF MarksInv
<1>9. Legal(e)
  BY <1>2, <1>5, <1>6, <1>7, <1>8 DEF Legal
<1>10. MarksInv'
  BY <1>1, <1>3, <1>5, QuietMarks
<1> QED BY <1>1, <1>3, <1>5, <1>6, <1>7, <1>9, <1>10, ArriveKeeps DEF StreamTypes

LEMMA SendCallKeeps ==
  ASSUME StreamInv, NEW i \in Indices, Stream!SendCall(i) PROVE StreamInv'
<1>1. /\ StreamTypes /\ MarksInv /\ streamed /\ conn = "open" /\ ending = "no"
      /\ streamKind = "chat" /\ sent.calls[i] < meant.calls[i]
      /\ sent' = [sent EXCEPT !.calls[i] = @ + 1]
      /\ UNCHANGED <<streamKind, streamed, status, meant, ending, conn, assembled>>
  BY DEF StreamInv, Stream!SendCall, Stream!Streaming
<1>2. /\ sent \in Stream!Answers /\ meant \in Stream!Answers /\ sent.text \in Nat
      /\ sent.calls \in [Indices -> Nat] /\ meant.calls \in [Indices -> Nat] /\ i \in Nat
      /\ \A j \in Indices : sent.calls[j] \in Nat
  BY <1>1, AnswerFields, TargetsAssumption DEF StreamTypes, Stream!StreamAssumption
<1>3. PICK e \in {Stream!Event("call", i, sent.calls[i] + 1)} \cup Stream!Garbled({"bad"}, 0) :
        Stream!Arrive(e)
  BY DEF Stream!SendCall
<1>4. e = Stream!Event("call", i, sent.calls[i] + 1) \/ e = Stream!Mark("bad")
  BY DEF Stream!Garbled, Stream!Mark
<1>5. /\ e \in Stream!Events /\ e.type \in {"call", "bad"}
      /\ e.type = "call" => e.index = i /\ e.n = sent.calls[i] + 1
      /\ e.type = "bad" => e.n = 0
  <2>1. "call" \in Stream!Types /\ "bad" \in Stream!Types /\ sent.calls[i] + 1 \in Nat
    BY <1>2 DEF Stream!Types
  <2>2. CASE e = Stream!Event("call", i, sent.calls[i] + 1)
    BY <1>2, <2>1, <2>2, EventFacts
  <2>3. CASE e = Stream!Mark("bad")
    BY <2>1, <2>3, EventFacts DEF Stream!Mark
  <2> QED BY <1>4, <2>2, <2>3
<1>6. /\ sent' \in Stream!Answers /\ sent'.text = sent.text
      /\ sent'.calls = [sent.calls EXCEPT ![i] = @ + 1]
  BY <1>1, <1>2, TargetsAssumption DEF Stream!Answers, Stream!StreamAssumption
<1>7. ASSUME NEW j \in Indices
      PROVE  sent.calls[j] <= sent'.calls[j] /\ sent'.calls[j] <= meant.calls[j]
  <2>1. sent.calls[j] <= meant.calls[j] /\ sent.calls[j] \in Nat /\ meant.calls[j] \in Nat
    BY <1>1, <1>2 DEF StreamTypes
  <2>2. sent'.calls[j] = IF j = i THEN sent.calls[j] + 1 ELSE sent.calls[j]
    BY <1>2, <1>6
  <2> QED BY <1>1, <2>1, <2>2
<1>8. Legal(e)
  BY <1>1, <1>2, <1>5, <1>6, <1>7 DEF Legal
<1>9. MarksInv'
  BY <1>1, <1>3, <1>5, QuietMarks
<1> QED BY <1>1, <1>2, <1>3, <1>5, <1>6, <1>7, <1>8, <1>9, ArriveKeeps DEF StreamTypes

\* The events that bring nothing of the answer.
LEMMA MarkIsLegal ==
  ASSUME StreamTypes, NEW type \in Stream!Types \ {"text", "call"}, sent' = sent,
         type = "completed" => streamKind = "responses" /\ sent.text = meant.text,
         type = "odd" => streamKind # "responses"
  PROVE  /\ Stream!Mark(type) \in Stream!Events /\ Stream!Mark(type).type = type
         /\ Legal(Stream!Mark(type)) /\ sent' \in Stream!Answers /\ sent'.text <= meant.text
         /\ \A i \in Indices : sent'.calls[i] <= meant.calls[i]
<1>1. Stream!Mark(type) \in Stream!Events /\ Stream!Mark(type).type = type
      /\ Stream!Mark(type).n = 0
  BY EventFacts DEF Stream!Mark
<1>2. sent.text \in Nat /\ \A i \in Indices : sent.calls[i] \in Nat
  BY AnswerFields DEF StreamTypes
<1>3. Legal(Stream!Mark(type))
  BY <1>1, <1>2 DEF Legal
<1> QED BY <1>1, <1>3 DEF StreamTypes

LEMMA SendOtherKeeps == ASSUME StreamInv, Stream!SendOther PROVE StreamInv'
<1>1. /\ StreamTypes /\ MarksInv /\ streamed /\ conn = "open" /\ ending = "no" /\ sent' = sent
      /\ UNCHANGED <<streamKind, streamed, status, meant, ending, conn, assembled>>
  BY DEF StreamInv, Stream!SendOther, Stream!Streaming
<1>2. PICK type \in {"other", "bad", "odd"} :
        /\ Stream!Arrive(Stream!Mark(type))
        /\ type = "odd" => streamKind # "responses"
  BY DEF Stream!SendOther, Stream!Garbled, Stream!Damaged, Stream!Mark
<1>3. /\ type \in Stream!Types \ {"text", "call"} /\ type # "completed"
      /\ type = "odd" => streamKind # "responses"
  BY <1>2 DEF Stream!Types
<1>4. MarksInv'
  BY <1>1, <1>2, <1>3, MarkIsLegal, QuietMarks
<1> QED BY <1>1, <1>2, <1>3, <1>4, MarkIsLegal, ArriveKeeps DEF StreamTypes

LEMMA FailKeeps == ASSUME StreamInv, Stream!Fail PROVE StreamInv'
<1>1. /\ StreamTypes /\ MarksInv /\ streamed /\ conn = "open" /\ ending = "no" /\ sent' = sent
      /\ ending' = "failed" /\ Stream!Arrive(Stream!Mark("failed"))
      /\ UNCHANGED <<streamKind, streamed, status, meant, conn, assembled>>
  BY DEF StreamInv, Stream!Fail, Stream!Streaming
<1>2. "failed" \in Stream!Types \ {"text", "call"}
  BY DEF Stream!Types
<1>3. MarksInv'
  BY <1>1, <1>2, MarkIsLegal, QuietMarks
<1> QED BY <1>1, <1>2, <1>3, MarkIsLegal, ArriveKeeps DEF StreamTypes

LEMMA StreamFinishKeeps == ASSUME StreamInv, Stream!Finish PROVE StreamInv'
<1>1. /\ StreamTypes /\ MarksInv /\ streamed /\ conn = "open" /\ ending = "no" /\ sent' = sent
      /\ ending' = "finished" /\ Stream!AllSent
      /\ UNCHANGED <<streamKind, streamed, status, meant, conn, assembled>>
  BY DEF StreamInv, Stream!Finish, Stream!Streaming
<1>2. PICK type \in IF streamKind = "responses" THEN {"completed", "garbledEnd"} ELSE {"done"} :
        Stream!Arrive(Stream!Mark(type))
  BY DEF Stream!Finish, Stream!Garbled, Stream!Mark
<1>3. /\ type \in Stream!Types \ {"text", "call"}
      /\ type = "completed" => streamKind = "responses" /\ sent.text = meant.text
  BY <1>1, <1>2 DEF Stream!Types, Stream!AllSent
<1>4. MarksInv'
  <2>1. \A t : Stream!Arrived(t)' <=> Stream!Arrived(t) \/ type = t
    BY <1>1, <1>2, <1>3, MarkIsLegal, Arrivals DEF StreamTypes, Stream!Arrive
  <2>2. \A t \in {"done", "completed", "garbledEnd", "headEnd"} : ~Stream!Arrived(t)
    BY <1>1 DEF MarksInv
  <2>3. Stream!AllSent'
    BY <1>1 DEF Stream!AllSent
  <2> QED BY <1>1, <1>2, <2>1, <2>2, <2>3 DEF MarksInv
<1> QED BY <1>1, <1>2, <1>3, <1>4, MarkIsLegal, ArriveKeeps DEF StreamTypes

LEMMA SendDoneKeeps == ASSUME StreamInv, Stream!SendDone PROVE StreamInv'
<1>1. /\ StreamTypes /\ MarksInv /\ streamed /\ conn = "open" /\ ending # "no" /\ sent' = sent
      /\ Stream!Arrive(Stream!Mark("done"))
      /\ UNCHANGED <<streamKind, streamed, status, meant, ending, conn, assembled>>
  BY DEF StreamInv, Stream!SendDone, Stream!Streaming
<1>2. "done" \in Stream!Types \ {"text", "call"}
  BY DEF Stream!Types
<1>3. MarksInv'
  <2>1. \A t : Stream!Arrived(t)' <=> Stream!Arrived(t) \/ t = "done"
    BY <1>1, <1>2, MarkIsLegal, Arrivals DEF StreamTypes, Stream!Arrive
  <2>2. Stream!AllSent' <=> Stream!AllSent
    BY <1>1 DEF Stream!AllSent
  <2> QED BY <1>1, <2>1, <2>2 DEF MarksInv
<1> QED BY <1>1, <1>2, <1>3, MarkIsLegal, ArriveKeeps DEF StreamTypes

LEMMA CutKeeps == ASSUME StreamInv, Stream!Cut PROVE StreamInv'
<1>1. /\ StreamTypes /\ MarksInv /\ streamed /\ conn = "open" /\ ending = "no" /\ sent' = sent
      /\ conn' = "eof"
      /\ UNCHANGED <<streamKind, streamed, status, meant, ending, assembled>>
  BY DEF StreamInv, Stream!Cut, Stream!Streaming
<1>2. PICK type \in {"bad", "empty", "odd", "garbledEnd", "headEnd"} :
        /\ Stream!Arrive(Stream!Mark(type))
        /\ type = "odd" => streamKind # "responses"
        /\ type \in {"garbledEnd", "headEnd"} => streamKind = "responses" /\ Stream!AllSent
  BY DEF Stream!Cut, Stream!IsHttp
<1>3. type \in Stream!Types \ {"text", "call"} /\ type # "completed"
  BY DEF Stream!Types
<1>4. MarksInv'
  <2>1. \A t : Stream!Arrived(t)' <=> Stream!Arrived(t) \/ t = type
    BY <1>1, <1>2, <1>3, MarkIsLegal, Arrivals DEF StreamTypes, Stream!Arrive
  <2>2. Stream!AllSent' <=> Stream!AllSent
    BY <1>1 DEF Stream!AllSent
  <2>3. \A t \in {"done", "completed", "garbledEnd", "headEnd"} : ~Stream!Arrived(t)
    BY <1>1 DEF MarksInv
  <2> QED BY <1>1, <1>2, <2>1, <2>2, <2>3 DEF MarksInv
<1> QED BY <1>1, <1>2, <1>3, <1>4, MarkIsLegal, ArriveKeeps DEF StreamTypes

\* What arrived depends on the events and on the target.
LEMMA SameArrivals ==
  ASSUME UNCHANGED <<streamKind, streamed, meant, events>>
  PROVE  /\ Stream!Pieces' = Stream!Pieces /\ \A i : Stream!Fragments(i)' = Stream!Fragments(i)
         /\ \A type : Stream!Arrived(type)' <=> Stream!Arrived(type)
         /\ Stream!LostInSilence' = Stream!LostInSilence /\ Stream!JunkTaken' = Stream!JunkTaken
         /\ Stream!CallsLostInSilence' <=> Stream!CallsLostInSilence
         /\ \A s, S : Stream!InOrder(s, S)' <=> Stream!InOrder(s, S)
<1>1. /\ Stream!Pieces' = Stream!Pieces /\ \A i : Stream!Fragments(i)' = Stream!Fragments(i)
      /\ \A type : Stream!Arrived(type)' <=> Stream!Arrived(type)
  BY DEF Stream!Pieces, Stream!Numbers, Stream!Fragments, Stream!Arrived
<1>2. /\ Stream!TakenAsText' = Stream!TakenAsText /\ Stream!PassedOver' = Stream!PassedOver
      /\ Stream!Junk' = Stream!Junk /\ (Stream!IsHttp' <=> Stream!IsHttp)
  BY DEF Stream!TakenAsText, Stream!PassedOver, Stream!Junk, Stream!IsHttp
<1>3. Stream!LostInSilence' = Stream!LostInSilence
  BY <1>1, <1>2 DEF Stream!LostInSilence, Stream!Numbers
<1>4. Stream!JunkTaken' = Stream!JunkTaken
  BY <1>1, <1>2 DEF Stream!JunkTaken
<1>5. Stream!CallsLostInSilence' <=> Stream!CallsLostInSilence
  BY <1>1 DEF Stream!CallsLostInSilence
<1>6. \A s, S : Stream!InOrder(s, S)' <=> Stream!InOrder(s, S)
  BY DEF Stream!InOrder, Stream!Junk
<1> QED BY <1>1, <1>3, <1>4, <1>5, <1>6

\* What the client does leaves what arrived as it is.
LEMMA ReadKeeps ==
  ASSUME StreamInv, conn' \in {"open", "eof", "broken"},
         conn' = conn \/ conn' = "broken" \/ (conn' = "eof" /\ streamed),
         assembled' # Nothing => conn' # "open",
         UNCHANGED <<streamKind, streamed, status, meant, sent, ending, events, parsed>>
  PROVE  /\ StreamTypes' /\ BodyEventInv'
         /\ streamed' => MarksInv' /\ TextInv' /\ CallsInv' /\ CompletionInv'
         /\ ~streamed' => ending' = "no" /\ sent' = Stream!NothingSent'
<1>1. StreamTypes /\ BodyEventInv /\ (~streamed => ending = "no" /\ sent = Stream!NothingSent)
  BY DEF StreamInv
<1>2. /\ Stream!Pieces' = Stream!Pieces /\ \A i : Stream!Fragments(i)' = Stream!Fragments(i)
      /\ \A type : Stream!Arrived(type)' <=> Stream!Arrived(type)
      /\ Stream!LostInSilence' = Stream!LostInSilence /\ Stream!JunkTaken' = Stream!JunkTaken
  BY SameArrivals
<1>3. /\ Stream!AllSent' <=> Stream!AllSent
      /\ Stream!NothingSent' = Stream!NothingSent /\ Stream!Answers' = Stream!Answers
      /\ Stream!Events' = Stream!Events /\ Stream!MeantCalls' = Stream!MeantCalls
      /\ SentCalls' = SentCalls /\ IsAssembly(parsed)' = IsAssembly(parsed)
  BY DEF Stream!AllSent, Stream!NothingSent, Stream!Answers, Stream!Events, Stream!Types,
         Stream!MeantCalls, Stream!UpTo, SentCalls, IsAssembly
<1>7. Stream!IsHttp' <=> Stream!IsHttp
  BY DEF Stream!IsHttp
<1>4. StreamTypes'
  BY <1>1, <1>3, <1>7 DEF StreamTypes
<1>5. BodyEventInv'
  BY <1>1, <1>3 DEF BodyEventInv, Stream!Mark, Stream!Event
<1>6. ASSUME streamed PROVE MarksInv' /\ TextInv' /\ CallsInv' /\ CompletionInv'
  <2>1. MarksInv /\ TextInv /\ CallsInv /\ CompletionInv
    BY <1>6 DEF StreamInv
  <2>2. MarksInv'
    BY <1>2, <1>3, <2>1 DEF MarksInv
  <2>3. TextInv'
    BY <1>2, <2>1 DEF TextInv, Stream!InOrder, Stream!UpTo, Stream!Junk
  <2>4. CallsInv'
    BY <1>2, <1>3, <2>1 DEF CallsInv, Stream!InOrder, Used
  <2>5. CompletionInv'
    BY <1>2, <2>1 DEF CompletionInv
  <2> QED BY <2>2, <2>3, <2>4, <2>5
<1> QED BY <1>1, <1>3, <1>4, <1>5, <1>6

LEMMA CloseKeeps == ASSUME StreamInv, Stream!Close PROVE StreamInv'
<1>1. /\ streamed /\ conn' = "eof" /\ assembled' = Nothing
      /\ UNCHANGED <<streamKind, streamed, status, meant, sent, ending, events, parsed>>
  BY DEF StreamInv, StreamTypes, Stream!Close, Stream!Streaming
<1> QED BY <1>1, ReadKeeps, NothingIsWrong DEF StreamInv

LEMMA BreakKeeps == ASSUME StreamInv, Stream!Break PROVE StreamInv'
<1>1. /\ conn' = "broken" /\ assembled' = Nothing
      /\ UNCHANGED <<streamKind, streamed, status, meant, sent, ending, events, parsed>>
  BY DEF StreamInv, StreamTypes, Stream!Break
<1> QED BY <1>1, ReadKeeps, NothingIsWrong DEF StreamInv

LEMMA SendBodyKeeps == ASSUME StreamInv, Stream!SendBody PROVE StreamInv'
<1>1. /\ StreamTypes /\ ~streamed /\ conn' = "eof" /\ assembled' = Nothing
      /\ UNCHANGED <<streamKind, streamed, status, meant, sent, ending, parsed>>
  BY DEF StreamInv, StreamTypes, Stream!SendBody
<1>2. PICK body \in BodyTypes :
        /\ events' = <<Stream!Mark(body)>>
        /\ body = "raw" => meant.calls = Stream!NothingSent.calls
        /\ body = "oddCalls" => streamKind = "http"
  BY DEF Stream!SendBody, Stream!Bodies, BodyTypes
<1>3. Stream!NothingSent' = Stream!NothingSent /\ Stream!Mark(body)' = Stream!Mark(body)
  BY DEF Stream!NothingSent, Stream!Mark, Stream!Event
<1>4. BodyEventInv'
  BY <1>1, <1>2, <1>3 DEF BodyEventInv, Stream!Mark, Stream!Event
<1>5. events' \in Seq(Stream!Events)
  <2>1. PICK m : m = Stream!Mark(body)
    OBVIOUS
  <2>2. m \in Stream!Events
    BY <1>2, <2>1, EventFacts DEF Stream!Types, BodyTypes
  <2>3. <<m>> \in Seq(Stream!Events)
    BY <2>2
  <2> QED BY <1>2, <2>1, <2>3
<1>6. StreamTypes'
  <2>1. /\ Stream!Answers' = Stream!Answers /\ Stream!Events' = Stream!Events
        /\ IsAssembly(parsed)' = IsAssembly(parsed) /\ (Stream!IsHttp' <=> Stream!IsHttp)
    BY <1>1 DEF Stream!Answers, Stream!Events, Stream!Types, IsAssembly, Stream!IsHttp
  <2> QED BY <1>1, <1>3, <1>5, <2>1 DEF StreamTypes
<1> QED BY <1>1, <1>3, <1>4, <1>6, NothingIsWrong DEF StreamInv

\* A stream counts as complete only when a mark says so.
LEMMA CompletionNeedsMark ==
  ASSUME StreamInv, streamed
  PROVE  LET c == IF Stream!IsHttp THEN Stream!HttpCompletion
                  ELSE IF streamKind = "chat" THEN Stream!ChatCompletion(parsed)
                  ELSE Stream!ResponsesCompletion(parsed)
         IN  c = "completed" =>
               \/ Stream!Arrived("done") \/ Stream!Arrived("completed")
               \/ streamKind = "responses" /\ (Stream!Arrived("garbledEnd") \/ Stream!Arrived("headEnd"))
<1>1. parsed.completion = "completed" => Stream!Arrived("done") \/ Stream!Arrived("completed")
  BY DEF StreamInv, CompletionInv
<1>2. ASSUME NEW completing, NEW failing,
             Stream!StateOfLastMark(completing, failing) = "completed"
      PROVE  \E type \in completing : Stream!Arrived(type)
  BY <1>2 DEF Stream!StateOfLastMark, Stream!LastIn, Stream!Arrived
<1>3. CASE Stream!IsHttp
  BY <1>2, <1>3 DEF Stream!HttpCompletion
<1>4. CASE streamKind = "chat" /\ ~Stream!IsHttp
  <2>1. Stream!StateOfLastMark({"done"}, {}) = "completed" => Stream!Arrived("done")
    BY <1>2
  <2>2. Stream!ChatCompletion(parsed) = IF parsed.completion # "" THEN parsed.completion
                                        ELSE Stream!StateOfLastMark({"done"}, {})
    BY DEF Stream!ChatCompletion
  <2> QED BY <1>1, <1>4, <2>1, <2>2
<1>5. CASE streamKind # "chat" /\ ~Stream!IsHttp
  <2>1. streamKind = "responses"
    BY <1>5 DEF StreamInv, StreamTypes, Stream!IsHttp
  <2>2. Stream!ResponsesCompletion(parsed) = "completed" =>
          \/ parsed.completion = "completed"
          \/ \E type \in {"done", "completed", "garbledEnd", "headEnd"} : Stream!Arrived(type)
    <3> DEFINE marks == {"done", "completed", "garbledEnd", "headEnd"}
    <3>1. Stream!StateOfLastMark(marks, {"failed"}) = "completed" =>
            \E type \in marks : Stream!Arrived(type)
      BY <1>2
    <3>2. Stream!ResponsesCompletion(parsed) = IF parsed.completion # "" THEN parsed.completion
                                               ELSE Stream!StateOfLastMark(marks, {"failed"})
      BY DEF Stream!ResponsesCompletion
    <3> QED BY <3>1, <3>2
  <2> QED BY <1>1, <1>5, <2>1, <2>2
<1> QED BY <1>3, <1>4, <1>5

LEMMA NoCalls ==
  ASSUME meant.calls = Stream!NothingSent.calls
  PROVE  Stream!OrderedCalls(Stream!MeantCalls) = <<>>
<1>1. \A i \in Indices : meant.calls[i] = 0
  BY DEF Stream!NothingSent
<1>2. DOMAIN Stream!MeantCalls = {}
  BY <1>1 DEF Stream!MeantCalls
<1>3. Stream!Cardinality({}) = 0
  BY SameCardinality, FS_EmptySet
<1> QED BY <1>2, <1>3 DEF Stream!OrderedCalls

\* The calls are in the order of their indices.
LEMMA CallsAreOrdered ==
  ASSUME NEW calls, DOMAIN calls \subseteq Indices
  PROVE  /\ Len(Stream!OrderedCalls(calls)) = Stream!Cardinality(DOMAIN calls)
         /\ \A i \in DOMAIN calls :
              Stream!OrderedCalls(calls)[Stream!Place(i, DOMAIN calls)] = calls[i]
<1> DEFINE S == DOMAIN calls
           ordered == Stream!OrderedCalls(calls)
<1>1. S \in SUBSET Nat /\ IsFiniteSet(S) /\ Cardinality(S) \in Nat
  BY TargetsAssumption, SameCardinality, FS_Subset, FS_CardinalityType DEF Stream!StreamAssumption
<1>2. ordered = [k \in 1 .. Cardinality(S) |->
                   calls[CHOOSE i \in S : Stream!Place(i, S) = k]]
  BY SameCardinality DEF Stream!OrderedCalls
<1> HIDE DEF S, ordered
<1>3. Len(ordered) = Cardinality(S)
  BY <1>1, <1>2
<1>4. ASSUME NEW i \in S PROVE ordered[Stream!Place(i, S)] = calls[i]
  <2>1. /\ Stream!Place(i, S) \in 1 .. Cardinality(S)
        /\ (CHOOSE j \in S : Stream!Place(j, S) = Stream!Place(i, S)) = i
    BY <1>1, PlacesDiffer
  <2>2. ordered[Stream!Place(i, S)] = calls[CHOOSE j \in S : Stream!Place(j, S) = Stream!Place(i, S)]
    BY <1>2, <2>1
  <2> QED BY Zenon, <2>1, <2>2
<1> QED BY <1>3, <1>4, SameCardinality DEF S, ordered

LEMMA AssembleKeeps == ASSUME StreamInv, Stream!Assemble PROVE StreamInv'
<1>1. /\ conn \in {"eof", "broken"} /\ conn' = conn
      /\ UNCHANGED <<streamKind, streamed, status, meant, sent, ending, events, parsed>>
      /\ assembled' = IF conn = "broken" THEN Stream!Broken
                      ELSE IF streamed THEN Stream!StreamResponse ELSE Stream!BodyResponse
  BY DEF Stream!Assemble, StreamInv, StreamTypes
<1>2. PICK r : r = assembled'
  OBVIOUS
<1>3. /\ Stream!Pieces' = Stream!Pieces /\ \A i : Stream!Fragments(i)' = Stream!Fragments(i)
      /\ \A type : Stream!Arrived(type)' <=> Stream!Arrived(type)
      /\ Stream!LostInSilence' = Stream!LostInSilence /\ Stream!JunkTaken' = Stream!JunkTaken
      /\ Stream!CallsLostInSilence' <=> Stream!CallsLostInSilence
      /\ \A s, S : Stream!InOrder(s, S)' <=> Stream!InOrder(s, S)
      /\ Stream!AllSent' <=> Stream!AllSent
      /\ Stream!OrderedCalls(Stream!MeantCalls)' = Stream!OrderedCalls(Stream!MeantCalls)
  <2>1. /\ Stream!AllSent' <=> Stream!AllSent
        /\ Stream!OrderedCalls(Stream!MeantCalls)' = Stream!OrderedCalls(Stream!MeantCalls)
    BY <1>1 DEF Stream!AllSent, Stream!UpTo, Stream!OrderedCalls, Stream!MeantCalls, Stream!Place
  <2> QED BY <1>1, <2>1, SameArrivals
<1>4. CASE conn = "broken"
  <2>1. r.err
    BY <1>1, <1>2, <1>4 DEF Stream!Broken, Stream!Response
  <2>2. ~Stream!Assembled'
    BY <1>2, <2>1 DEF Stream!Assembled
  <2>3. /\ Stream!CleanAnswerIsWhole' /\ Stream!CompletedMeansAllSent' /\ Stream!ArrivedIsInPlace'
    BY <2>2 DEF Stream!CleanAnswerIsWhole, Stream!CompletedMeansAllSent, Stream!ArrivedIsInPlace
  <2> QED BY <1>1, <2>3, ReadKeeps DEF StreamInv
<1>5. CASE conn = "eof" /\ streamed
  <2>1. MarksInv /\ TextInv /\ CallsInv /\ CompletionInv /\ StreamTypes
    BY <1>5 DEF StreamInv
  <2>2. /\ Stream!IsHttp \/ streamKind \in {"chat", "responses"}
        /\ Stream!IsHttp => streamKind \notin {"chat", "responses"}
        /\ r = Stream!StreamResponse
    BY <1>1, <1>2, <1>5, <2>1 DEF StreamTypes, Stream!IsHttp
  <2>3. /\ r.text = parsed.text /\ r.errors = parsed.errors
        /\ r.calls = IF Stream!IsHttp THEN <<>> ELSE Stream!OrderedCalls(parsed.calls)
        /\ r.completion = IF Stream!IsHttp THEN Stream!HttpCompletion
                          ELSE IF streamKind = "chat" THEN Stream!ChatCompletion(parsed)
                          ELSE Stream!ResponsesCompletion(parsed)
    <3>1. ASSUME Stream!IsHttp
          PROVE  r = Stream!Response(FALSE, FALSE, parsed.text, <<>>, Stream!HttpCompletion, parsed.errors)
      BY Zenon, <2>2, <3>1 DEF Stream!StreamResponse
    <3>2. ASSUME ~Stream!IsHttp
          PROVE  \E extractErr :
                   r = Stream!Response(Stream!StatusIsError, extractErr, parsed.text,
                                       Stream!OrderedCalls(parsed.calls),
                                       IF streamKind = "chat" THEN Stream!ChatCompletion(parsed)
                                       ELSE Stream!ResponsesCompletion(parsed), parsed.errors)
      BY Zenon, <2>2, <3>2 DEF Stream!StreamResponse
    <3>3. CASE Stream!IsHttp
      <4>1. r.text = parsed.text /\ r.calls = <<>> /\ r.completion = Stream!HttpCompletion
            /\ r.errors = parsed.errors
        BY <3>1, <3>3 DEF Stream!Response
      <4> QED BY Zenon, <3>3, <4>1
    <3>4. CASE ~Stream!IsHttp
      <4> DEFINE completion == IF streamKind = "chat" THEN Stream!ChatCompletion(parsed)
                               ELSE Stream!ResponsesCompletion(parsed)
      <4>1. PICK extractErr :
              r = Stream!Response(Stream!StatusIsError, extractErr, parsed.text,
                                  Stream!OrderedCalls(parsed.calls), completion, parsed.errors)
        BY <3>2, <3>4
      <4> HIDE DEF completion
      <4>2. r.text = parsed.text /\ r.calls = Stream!OrderedCalls(parsed.calls)
            /\ r.completion = completion /\ r.errors = parsed.errors
        BY <4>1 DEF Stream!Response
      <4> QED BY Zenon, <3>4, <4>2 DEF completion
    <3> QED BY <3>3, <3>4
  <2>4. r.completion = "completed" =>
          \/ Stream!Arrived("done") \/ Stream!Arrived("completed")
          \/ streamKind = "responses" /\ (Stream!Arrived("garbledEnd") \/ Stream!Arrived("headEnd"))
    BY <1>5, <2>3, CompletionNeedsMark
  <2>5. ASSUME r.completion = "completed", ~Stream!FailureIsOverridden
        PROVE  Stream!AllSent /\ ending # "failed"
    BY <2>1, <2>4, <2>5 DEF MarksInv, Stream!FailureIsOverridden, StreamTypes
  <2>6. Stream!FailureIsOverridden' <=> Stream!FailureIsOverridden
    BY <1>1, <1>3 DEF Stream!FailureIsOverridden
  <2>7. Stream!CompletedMeansAllSent'
    BY <1>1, <1>2, <1>3, <1>5, <2>5, <2>6 DEF Stream!CompletedMeansAllSent
  <2>8. ASSUME r.completion = "completed", ~Stream!FailureIsOverridden,
               ~Stream!Arrived("headEnd"), r.errors = 0
        PROVE  /\ Stream!InOrder(r.text, (1 .. meant.text \ Stream!LostInSilence) \cup Stream!JunkTaken)
               /\ r.calls = Stream!OrderedCalls(Stream!MeantCalls)
    <3>1. Stream!AllSent /\ ending # "failed"
      BY <2>5, <2>8
    <3>2. Stream!InOrder(r.text, (1 .. meant.text \ Stream!LostInSilence) \cup Stream!JunkTaken)
      <4>1. /\ Stream!Pieces = (1 .. meant.text) \ Stream!LostInSilence
            /\ streamKind = "responses" => Stream!LostInSilence = {}
        BY <2>1, <2>3, <2>8, <3>1 DEF TextInv, Stream!AllSent
      <4>2. CASE Stream!InOrder(parsed.text, Stream!Pieces \cup Stream!JunkTaken)
        BY <2>3, <4>1, <4>2
      <4>3. CASE /\ streamKind = "responses" /\ Stream!Pieces = {}
                 /\ parsed.text = Stream!UpTo(meant.text)
        <5>1. Stream!JunkTaken = {}
          BY <1>5, <4>3 DEF Stream!JunkTaken, Stream!TakenAsText
        <5>2. (1 .. meant.text \ Stream!LostInSilence) \cup Stream!JunkTaken = 1 .. meant.text
          BY <4>1, <4>3, <5>1
        <5>3. Stream!InOrder(parsed.text, 1 .. meant.text)
          BY <2>1, <4>3, UpToInOrder, AnswerFields DEF StreamTypes
        <5> QED BY <2>3, <5>2, <5>3
      <4> QED BY <2>1, <4>2, <4>3 DEF TextInv
    <3>3. CASE streamKind = "chat"
      <4>1. parsed.calls = SentCalls
        BY <2>1, <2>3, <2>8, <3>3 DEF CallsInv
      <4>2. SentCalls = Stream!MeantCalls
        BY <3>1, <3>3 DEF SentCalls, Stream!MeantCalls, Stream!AllSent
      <4> QED BY <2>2, <2>3, <3>2, <3>3, <4>1, <4>2
    <3>4. CASE streamKind = "responses"
      <4>1. ~Stream!Arrived("garbledEnd")
        BY <2>1, <2>3, <2>8, <3>4 DEF CompletionInv
      <4>2. Stream!Arrived("completed")
        BY <2>1, <2>4, <2>8, <3>1, <3>4, <4>1 DEF MarksInv, StreamTypes
      <4> QED BY <2>1, <2>2, <2>3, <3>2, <3>4, <4>2 DEF CallsInv
    <3>5. CASE Stream!IsHttp
      BY <1>5, <2>1, <2>3, <3>2, <3>5, NoCalls DEF StreamTypes
    <3> QED BY <2>2, <3>3, <3>4, <3>5
  <2>9. Stream!CleanAnswerIsWhole'
    <3>1. Stream!EndWithoutData' <=> Stream!Arrived("headEnd")
      BY <1>3 DEF Stream!EndWithoutData
    <3>2. ~Stream!CallsLostInSilence
      BY <1>5 DEF Stream!CallsLostInSilence
    <3> QED BY <1>1, <1>2, <1>3, <1>5, <2>6, <2>8, <3>1, <3>2 DEF Stream!CleanAnswerIsWhole
  <2>10. Stream!ArrivedIsInPlace'
    <3>1. \/ Stream!InOrder(r.text, Stream!Pieces \cup Stream!JunkTaken)
          \/ streamKind = "responses" /\ Stream!Pieces = {} /\ Stream!Arrived("completed")
      BY <2>1, <2>3 DEF TextInv
    <3>2. ASSUME streamKind = "chat"
          PROVE  /\ Len(r.calls) = Stream!Cardinality(Used)
                 /\ \A i \in Used :
                      LET call == r.calls[Stream!Place(i, Used)]
                      IN  /\ Stream!InOrder(call.args, Stream!Fragments(i))
                          /\ call.named <=> 1 \in Stream!Fragments(i)
      <4>1. DOMAIN parsed.calls = Used /\ r.calls = Stream!OrderedCalls(parsed.calls)
        BY <2>1, <2>2, <2>3, <3>2 DEF CallsInv
      <4>2. Used \subseteq Indices
        BY DEF Used
      <4>3. /\ Len(r.calls) = Stream!Cardinality(Used)
            /\ \A i \in Used : r.calls[Stream!Place(i, Used)] = parsed.calls[i]
        BY Zenon, <4>1, <4>2, CallsAreOrdered
      <4>4. \A i \in Used : /\ Stream!InOrder(parsed.calls[i].args, Stream!Fragments(i))
                            /\ parsed.calls[i].named <=> 1 \in Stream!Fragments(i)
        BY <2>1, <3>2 DEF CallsInv
      <4> QED BY Zenon, <4>3, <4>4
    <3>3. /\ Used' = Used /\ Stream!Cardinality(Used)' = Stream!Cardinality(Used)
      BY <1>3 DEF Used
    <3>4. ASSUME streamKind = "chat"
          PROVE  /\ Len(assembled'.calls) = Stream!Cardinality(Used')
                 /\ \A i \in Used' :
                      LET call == assembled'.calls[Stream!Place(i, Used')]
                      IN  /\ Stream!InOrder(call.args, Stream!Fragments(i)')
                          /\ call.named <=> 1 \in Stream!Fragments(i)'
      BY Zenon, <1>2, <1>3, <3>2, <3>3, <3>4
    <3>5. \/ Stream!InOrder(assembled'.text, Stream!Pieces' \cup Stream!JunkTaken')
          \/ streamKind' = "responses" /\ Stream!Pieces' = {} /\ Stream!Arrived("completed")'
      BY <1>1, <1>2, <1>3, <3>1
    <3>6. \A s, S : Stream!InOrder(s, S)' <=> Stream!InOrder(s, S)
      BY <1>3
    <3> QED BY Zenon, <1>1, <3>4, <3>5, <3>6 DEF Stream!ArrivedIsInPlace, Used
  <2> QED BY <1>1, <2>7, <2>9, <2>10, ReadKeeps DEF StreamInv
<1>6. CASE conn = "eof" /\ ~streamed
  <2>1. PICK body \in BodyTypes :
          /\ events = <<Stream!Mark(body)>>
          /\ body = "raw" => meant.calls = Stream!NothingSent.calls
          /\ body = "oddCalls" => streamKind = "http"
    BY <1>6 DEF StreamInv, BodyEventInv
  <2>2. Head(events).type = body /\ \A type : Stream!Arrived(type) <=> type = body
    BY <2>1 DEF Stream!Mark, Stream!Event, Stream!Arrived
  <2> DEFINE text == CASE body \in {"whole", "raw", "oddCalls"} -> Stream!UpTo(meant.text)
                       [] body = "bad" /\ Stream!IsHttp -> <<Stream!Junk>>
                       [] OTHER -> <<>>
             calls == IF body \in {"whole", "missing"}
                      THEN Stream!OrderedCalls(Stream!MeantCalls) ELSE <<>>
             missing == IF Stream!IsHttp THEN body = "missing" ELSE text = <<>> /\ calls = <<>>
  <2>3. r = Stream!Response(Stream!StatusIsError, ~Stream!StatusIsError /\ missing, text, calls, "", 0)
    BY <1>1, <1>2, <1>6, <2>2 DEF Stream!BodyResponse
  <2>4. /\ r.err = Stream!StatusIsError /\ r.extractErr = (~Stream!StatusIsError /\ missing)
        /\ r.text = text /\ r.calls = calls /\ r.completion = ""
    <3> HIDE DEF text, calls, missing
    <3> QED BY <2>3 DEF Stream!Response
  <2>5. Stream!CompletedMeansAllSent'
    BY <1>1, <1>6 DEF Stream!CompletedMeansAllSent
  <2>6. Stream!ArrivedIsInPlace'
    BY <1>1, <1>6 DEF Stream!ArrivedIsInPlace
  <2>7. ASSUME ~r.err, ~(status >= 400), ~(r.extractErr /\ r.calls = <<>>)
        PROVE  /\ Stream!InOrder(r.text, (1 .. meant.text \ Stream!LostInSilence) \cup Stream!JunkTaken)
               /\ r.calls = IF Stream!CallsLostInSilence THEN <<>>
                            ELSE Stream!OrderedCalls(Stream!MeantCalls)
    <3>1. meant.text \in Nat /\ Stream!InOrder(Stream!UpTo(meant.text), 1 .. meant.text)
      BY UpToInOrder, AnswerFields DEF StreamInv, StreamTypes
    <3>2. /\ Stream!LostInSilence = IF body \in {"missing", "bad"} THEN 1 .. meant.text ELSE {}
          /\ Stream!JunkTaken = IF Stream!IsHttp /\ body = "bad" THEN {Stream!Junk} ELSE {}
          /\ Stream!CallsLostInSilence <=> body \in {"oddCalls", "bad"}
      BY <1>6, <2>2 DEF Stream!LostInSilence, Stream!JunkTaken, Stream!CallsLostInSilence
    <3>3. Stream!InOrder(<<>>, {}) /\ Stream!InOrder(<<Stream!Junk>>, {Stream!Junk})
      BY DEF Stream!InOrder, Stream!Junk
    <3>4. CASE body \in {"whole", "raw", "oddCalls"}
      <4>1. r.text = Stream!UpTo(meant.text) /\ Stream!LostInSilence = {} /\ Stream!JunkTaken = {}
        BY <2>4, <3>2, <3>4
      <4>2. Stream!InOrder(r.text, (1 .. meant.text \ Stream!LostInSilence) \cup Stream!JunkTaken)
        <5>1. (1 .. meant.text \ Stream!LostInSilence) \cup Stream!JunkTaken = 1 .. meant.text
          BY <4>1
        <5> QED BY <3>1, <4>1, <5>1
      <4>3. body # "raw" => r.calls = IF Stream!CallsLostInSilence THEN <<>>
                                      ELSE Stream!OrderedCalls(Stream!MeantCalls)
        BY <2>4, <3>2, <3>4
      <4>4. body = "raw" => r.calls = Stream!OrderedCalls(Stream!MeantCalls) /\ ~Stream!CallsLostInSilence
        BY <2>1, <2>4, <3>2, NoCalls
      <4> QED BY <4>2, <4>3, <4>4
    <3>5. CASE body = "missing"
      <4>1. r.text = <<>> /\ r.calls = Stream!OrderedCalls(Stream!MeantCalls)
        BY <2>4, <3>5
      <4>2. (1 .. meant.text \ Stream!LostInSilence) \cup Stream!JunkTaken = {}
        BY <3>2, <3>5
      <4> QED BY <3>2, <3>3, <3>5, <4>1, <4>2
    <3>6. CASE body = "bad" /\ Stream!IsHttp
      <4>1. r.text = <<Stream!Junk>> /\ r.calls = <<>>
        BY <2>4, <3>6
      <4>2. (1 .. meant.text \ Stream!LostInSilence) \cup Stream!JunkTaken = {Stream!Junk}
        BY <3>2, <3>6
      <4> QED BY <3>2, <3>3, <3>6, <4>1, <4>2
    <3>7. CASE body = "bad" /\ ~Stream!IsHttp
      <4>1. text = <<>> /\ calls = <<>> /\ missing /\ ~Stream!StatusIsError
        BY <2>7, <3>7 DEF Stream!StatusIsError
      <4>2. r.extractErr /\ r.calls = <<>>
        BY <2>4, <4>1
      <4> QED BY <2>7, <4>2
    <3> QED BY <3>4, <3>5, <3>6, <3>7 DEF BodyTypes
  <2>8. Stream!CleanAnswerIsWhole'
    <3> HIDE DEF text, calls, missing
    <3> QED BY <1>1, <1>2, <1>3, <2>7 DEF Stream!CleanAnswerIsWhole, Stream!HasFindings
  <2> QED BY <1>1, <2>5, <2>6, <2>8, ReadKeeps DEF StreamInv
<1> QED BY <1>1, <1>4, <1>5, <1>6

LEMMA StreamInvInit == Stream!Init => StreamInv
<1> SUFFICES ASSUME Stream!Init PROVE StreamInv
  OBVIOUS
<1>1. /\ streamKind \in {"chat", "responses", "http", "bareHttp", "anthropic"} /\ streamed \in BOOLEAN
      /\ (streamed => streamKind # "anthropic") /\ meant \in Stream!Answers
      /\ (Stream!IsHttp /\ streamed => meant.calls = Stream!NothingSent.calls)
      /\ sent = Stream!NothingSent /\ ending = "no" /\ conn = "open" /\ events = <<>>
      /\ parsed = Stream!Blank /\ assembled = Nothing
  BY DEF Stream!Init
<1>2. sent \in Stream!Answers /\ sent.text = 0 /\ \A i \in Indices : sent.calls[i] = 0
  BY <1>1, TargetsAssumption DEF Stream!Answers, Stream!NothingSent, Stream!StreamAssumption
<1>3. IsAssembly(parsed) /\ parsed.text = <<>> /\ parsed.calls = <<>> /\ parsed.errors = 0
      /\ parsed.completion = ""
  <2>1. parsed = [text |-> <<>>, calls |-> <<>>, completion |-> "", errors |-> 0, parseErr |-> FALSE]
    BY <1>1 DEF Stream!Blank
  <2>2. /\ parsed.text = <<>> /\ parsed.calls = <<>> /\ parsed.errors = 0 /\ parsed.completion = ""
        /\ parsed.parseErr = FALSE
    BY <2>1
  <2>3. <<>> \in Seq(Nat) /\ 0 \in Nat
    OBVIOUS
  <2> QED BY Zenon, <2>1, <2>2, <2>3 DEF IsAssembly
<1>4. meant.text \in Nat /\ \A i \in Indices : meant.calls[i] \in Nat
  BY <1>1, AnswerFields
<1>5. StreamTypes
  <2>1. events \in Seq(Stream!Events)
    BY <1>1
  <2>2. sent.text <= meant.text /\ \A i \in Indices : sent.calls[i] <= meant.calls[i]
    BY <1>2, <1>4
  <2> QED BY Zenon, <1>1, <1>2, <1>3, <2>1, <2>2 DEF StreamTypes
<1>6. /\ Stream!Pieces = {} /\ \A i : Stream!Fragments(i) = {} /\ \A type : ~Stream!Arrived(type)
      /\ Stream!LostInSilence = {} /\ Stream!JunkTaken = {}
  BY <1>1 DEF Stream!Pieces, Stream!Numbers, Stream!Fragments, Stream!Arrived,
              Stream!LostInSilence, Stream!JunkTaken
<1>7. MarksInv
  BY <1>1, <1>6 DEF MarksInv
<1>8. TextInv
  <2>1. Stream!InOrder(<<>>, {})
    BY DEF Stream!InOrder
  <2>2. (1 .. 0) \ {} = {}
    OBVIOUS
  <2> QED BY <1>2, <1>3, <1>6, <2>1, <2>2 DEF TextInv
<1>9. CallsInv
  <2>1. Used = {} /\ DOMAIN parsed.calls = {}
    <3>1. Used = {}
      BY <1>6 DEF Used
    <3>2. DOMAIN <<>> = {}
      OBVIOUS
    <3> QED BY Zenon, <1>3, <3>1, <3>2
  <2>2. SentCalls = <<>>
    BY <1>2 DEF SentCalls
  <2> QED BY <1>3, <1>6, <2>1, <2>2 DEF CallsInv
<1>10. CompletionInv
  BY <1>3, <1>6 DEF CompletionInv
<1>11. Stream!CleanAnswerIsWhole /\ Stream!CompletedMeansAllSent /\ Stream!ArrivedIsInPlace
  BY <1>1 DEF Stream!CleanAnswerIsWhole, Stream!CompletedMeansAllSent, Stream!ArrivedIsInPlace,
              Stream!Assembled
<1>12. BodyEventInv
  BY <1>1 DEF BodyEventInv
<1> QED BY <1>1, <1>5, <1>7, <1>8, <1>9, <1>10, <1>11, <1>12 DEF StreamInv

LEMMA StreamInvStep == StreamInv /\ [Stream!Next]_streamVars => StreamInv'
<1>1. ASSUME StreamInv, Stream!Next PROVE StreamInv'
  <2>1. CASE Stream!SendText BY <1>1, <2>1, SendTextKeeps
  <2>2. CASE \E i \in Indices : Stream!SendCall(i) BY <1>1, <2>2, SendCallKeeps
  <2>3. CASE Stream!SendOther BY <1>1, <2>3, SendOtherKeeps
  <2>4. CASE Stream!Finish BY <1>1, <2>4, StreamFinishKeeps
  <2>5. CASE Stream!Fail BY <1>1, <2>5, FailKeeps
  <2>6. CASE Stream!SendDone BY <1>1, <2>6, SendDoneKeeps
  <2>7. CASE Stream!SendBody BY <1>1, <2>7, SendBodyKeeps
  <2>8. CASE Stream!Close BY <1>1, <2>8, CloseKeeps
  <2>9. CASE Stream!Cut BY <1>1, <2>9, CutKeeps
  <2>10. CASE Stream!Break BY <1>1, <2>10, BreakKeeps
  <2>11. CASE Stream!Assemble BY <1>1, <2>11, AssembleKeeps
  <2> QED BY <1>1, <2>1, <2>2, <2>3, <2>4, <2>5, <2>6, <2>7, <2>8, <2>9, <2>10, <2>11 DEF Stream!Next
<1>2. ASSUME StreamInv, UNCHANGED streamVars PROVE StreamInv'
  <2>1. /\ conn' = conn /\ assembled' = assembled
        /\ UNCHANGED <<streamKind, streamed, status, meant, sent, ending, events, parsed>>
    BY <1>2 DEF streamVars
  <2>2. Stream!CleanAnswerIsWhole' /\ Stream!CompletedMeansAllSent' /\ Stream!ArrivedIsInPlace'
    <3>1. Stream!CleanAnswerIsWhole /\ Stream!CompletedMeansAllSent /\ Stream!ArrivedIsInPlace
      BY <1>2 DEF StreamInv
    <3>2. /\ Stream!Assembled' <=> Stream!Assembled
          /\ Stream!HasFindings' <=> Stream!HasFindings
          /\ Stream!AllSent' <=> Stream!AllSent
      BY <2>1 DEF Stream!Assembled, Stream!HasFindings, Stream!AllSent
    <3>7. /\ Stream!Pieces' = Stream!Pieces /\ \A i : Stream!Fragments(i)' = Stream!Fragments(i)
          /\ \A type : Stream!Arrived(type)' <=> Stream!Arrived(type)
          /\ Stream!LostInSilence' = Stream!LostInSilence /\ Stream!JunkTaken' = Stream!JunkTaken
          /\ Stream!CallsLostInSilence' <=> Stream!CallsLostInSilence
          /\ \A s, S : Stream!InOrder(s, S)' <=> Stream!InOrder(s, S)
      BY <2>1, SameArrivals
    <3>3. Stream!OrderedCalls(Stream!MeantCalls)' = Stream!OrderedCalls(Stream!MeantCalls)
      BY <2>1 DEF Stream!UpTo, Stream!OrderedCalls, Stream!MeantCalls, Stream!Place
    <3>4. Stream!CleanAnswerIsWhole'
      BY <2>1, <3>1, <3>2, <3>3, <3>7
         DEF Stream!CleanAnswerIsWhole, Stream!FailureIsOverridden, Stream!EndWithoutData
    <3>5. Stream!CompletedMeansAllSent'
      BY <2>1, <3>1, <3>2, <3>7 DEF Stream!CompletedMeansAllSent, Stream!FailureIsOverridden
    <3>6. Stream!ArrivedIsInPlace'
      BY <2>1, <3>1, <3>2, <3>7 DEF Stream!ArrivedIsInPlace, Stream!Place
    <3> QED BY <3>4, <3>5, <3>6
  <2>3. assembled' # Nothing => conn' # "open"
    BY <1>2, <2>1 DEF StreamInv, StreamTypes
  <2>4. conn' \in {"open", "eof", "broken"}
    BY <1>2, <2>1 DEF StreamInv, StreamTypes
  <2> QED BY <1>2, <2>1, <2>2, <2>3, <2>4, ReadKeeps DEF StreamInv
<1> QED BY <1>1, <1>2

-----------------------------------------------------------------------------
(***************************************************************************)
(* The session of an MCP target, which all calls of Invoke share: its          *)
(* inductive invariant.  The properties speak of what is on the wire         *)
(* once calls are made; that no second handshake and no second id can get    *)
(* there rests on what holds while the handshake is still going on.          *)
(***************************************************************************)
On(method) == \E v \in wire : v.method = method

\* The handshake: nothing is posted, counted or returned before it, and a
\* caller is past it only when it succeeded, with both posts on the wire.
HandshakeInv ==
  /\ once # "done" => ~initErr
  /\ \A c \in Callers : mcpPc[c] \in {"id", "call"} => once = "done" /\ ~initErr
  /\ \A w \in wire : w.method = "tools/call" => once = "done" /\ ~initErr
  /\ once = "new" => ~On("initialize")
  /\ \A c \in Callers : mcpPc[c] = "initialize" => ~On("initialize")
  /\ \A c \in Callers : mcpPc[c] = "notify" => On("initialize")
  /\ once = "done" /\ ~initErr => On("initialize") /\ On("initialized")
  /\ \A v, w \in wire : v.method = "initialize" /\ w.method = "initialize" => v = w

\* The ids: the handshake has the first one, every call a later one of its
\* own, which stays its id once the call is on the wire.
IdInv ==
  /\ once = "new" => idSeq = 0
  /\ once = "running" => idSeq = 1
  /\ once = "done" => idSeq >= 1
  /\ \A c \in Callers : id[c] # Nothing => 1 < id[c] /\ id[c] <= idSeq
  /\ \A c, d \in Callers : id[c] = id[d] /\ id[c] # Nothing => c = d
  /\ \A w \in wire :
       /\ w.method = "initialize" => w.id = 1
       /\ w.method = "initialized" => w.id = Nothing
       /\ w.method = "tools/call" => mcpPc[w.caller] = "done" /\ w.id = id[w.caller]

\* The results: none before the end of the handshake, only failures after one
\* that failed, and behind every clean one a call on the wire.
ResultInv ==
  /\ \A c \in Callers : mcpResult[c] # Nothing => once = "done" /\ mcpPc[c] = "done"
  /\ initErr => \A c \in Callers : mcpResult[c] \in {Nothing, Mcp!NoResponse}
  /\ Mcp!CleanCallsReachTheTool

SessionInv == Mcp!TypeOK /\ HandshakeInv /\ IdInv /\ ResultInv

-----------------------------------------------------------------------------
\* What the invariant is for.
LEMMA SessionInvImplies ==
  ASSUME SessionInv
  PROVE  Mcp!SessionIsInOrder /\ Mcp!CleanCallsReachTheTool
<1>1. Mcp!OneHandshakeFirst
  BY DEF SessionInv, HandshakeInv, On, Mcp!OneHandshakeFirst
<1>2. Mcp!IdsAreUnique
  <2> SUFFICES ASSUME NEW v \in wire, NEW w \in wire, v.id = w.id, v.id # Nothing
               PROVE  v = w
    BY DEF Mcp!IdsAreUnique
  <2>1. v.method # "initialized" /\ w.method # "initialized"
    BY DEF SessionInv, IdInv
  <2>2. /\ v \in [method : {"initialize", "initialized", "tools/call"},
                  id : Nat \cup {Nothing}, caller : Callers]
        /\ w \in [method : {"initialize", "initialized", "tools/call"},
                  id : Nat \cup {Nothing}, caller : Callers]
    BY DEF SessionInv, Mcp!TypeOK
  <2>3. CASE v.method = "initialize" /\ w.method = "initialize"
    BY <2>3 DEF SessionInv, HandshakeInv
  <2>4. CASE v.method = "tools/call" /\ w.method = "tools/call"
    <3>1. v.caller = w.caller
      BY <2>2, <2>4 DEF SessionInv, IdInv
    <3> QED BY <2>2, <2>4, <3>1
  <2>5. CASE v.method # w.method
    <3>1. \A x, y \in wire : x.method = "initialize" /\ y.method = "tools/call" /\ x.id # Nothing =>
             x.id # y.id
      BY DEF SessionInv, Mcp!TypeOK, IdInv
    <3> QED BY <2>1, <2>2, <2>5, <3>1
  <2> QED BY <2>1, <2>2, <2>3, <2>4, <2>5
<1>3. Mcp!FailedHandshakeIsFinal
  BY DEF SessionInv, HandshakeInv, ResultInv, Mcp!FailedHandshakeIsFinal
<1> QED BY <1>1, <1>2, <1>3 DEF SessionInv, ResultInv, Mcp!SessionIsInOrder

LEMMA SessionInvInit ==
  ASSUME Mcp!Init
  PROVE  SessionInv
<1>1. Mcp!TypeOK
  BY DEF Mcp!Init, Mcp!TypeOK
<1>2. HandshakeInv /\ IdInv /\ ResultInv
  BY DEF Mcp!Init, HandshakeInv, On, IdInv, ResultInv, Mcp!CleanCallsReachTheTool
<1> QED BY <1>1, <1>2 DEF SessionInv

-----------------------------------------------------------------------------
(***************************************************************************)
(* The actions that post, without their replies: what each of them may add   *)
(* to the wire, and when it must have added it.                             *)
(***************************************************************************)
Posts == [method : {"initialize", "initialized", "tools/call"},
          id : Nat \cup {Nothing}, caller : Callers]

IsPost(p, method, i, c) == p \in Posts /\ p.method = method /\ p.id = i /\ p.caller = c

\* The record that is posted is one.
LEMMA PostExists ==
  ASSUME NEW c \in Callers, NEW i \in Nat \cup {Nothing},
         NEW method \in {"initialize", "initialized", "tools/call"}
  PROVE  IsPost([method |-> method, id |-> i, caller |-> c], method, i, c)
BY DEF IsPost, Posts

LEMMA NoResponseType ==
  Mcp!NoResponse \in [err : BOOLEAN, extractErr : BOOLEAN, toolCall : BOOLEAN]
BY DEF Mcp!NoResponse

\* Either handshake post fails, sent or not, or was sent and is answered.
FailedPost(p, c) ==
  /\ wire' \in {wire, wire \cup {p}}
  /\ Mcp!LeaveHandshake(c, TRUE)

LEMMA InitializeCases ==
  ASSUME SessionInv, NEW c \in Callers, Mcp!Initialize(c)
  PROVE  \E p : /\ IsPost(p, "initialize", idSeq, c)
                /\ \/ FailedPost(p, c)
                   \/ /\ wire' = wire \cup {p}
                      /\ Mcp!Goto(c, "notify") /\ UNCHANGED <<once, owner, initErr, mcpResult>>
<1> DEFINE p == [method |-> "initialize", id |-> idSeq, caller |-> c]
<1>1. IsPost(p, "initialize", idSeq, c)
  BY PostExists DEF SessionInv, Mcp!TypeOK
<1>2. PICK reply \in Mcp!Replies, posted \in BOOLEAN :
         /\ Mcp!Posted(c, reply, posted)
         /\ wire' = IF posted THEN wire \cup {p} ELSE wire
         /\ IF Mcp!PostFails(reply)
              THEN Mcp!LeaveHandshake(c, TRUE)
              ELSE Mcp!Goto(c, "notify") /\ UNCHANGED <<once, owner, initErr, mcpResult>>
  BY DEF Mcp!Initialize
<1> HIDE DEF p
<1>3. CASE Mcp!PostFails(reply)
  BY <1>1, <1>2, <1>3 DEF FailedPost
<1>4. CASE ~Mcp!PostFails(reply)
  <2>1. posted
    BY <1>2, <1>4 DEF Mcp!Posted, Mcp!PostFails
  <2> QED BY <1>1, <1>2, <1>4, <2>1
<1> QED BY <1>3, <1>4

LEMMA NotifyCases ==
  ASSUME SessionInv, NEW c \in Callers, Mcp!Notify(c)
  PROVE  \E p : /\ IsPost(p, "initialized", Nothing, c)
                /\ \/ FailedPost(p, c)
                   \/ wire' = wire \cup {p} /\ Mcp!LeaveHandshake(c, FALSE)
<1> DEFINE p == [method |-> "initialized", id |-> Nothing, caller |-> c]
<1>1. IsPost(p, "initialized", Nothing, c)
  BY PostExists
<1>2. PICK reply \in Mcp!Replies, posted \in BOOLEAN :
         /\ Mcp!Posted(c, reply, posted)
         /\ wire' = IF posted THEN wire \cup {p} ELSE wire
         /\ Mcp!LeaveHandshake(c, Mcp!PostFails(reply))
  BY DEF Mcp!Notify
<1> HIDE DEF p
<1>3. CASE Mcp!PostFails(reply)
  <2>1. Mcp!PostFails(reply) = TRUE
    BY <1>3 DEF Mcp!PostFails
  <2> QED BY <1>1, <1>2, <2>1 DEF FailedPost
<1>4. CASE ~Mcp!PostFails(reply)
  <2>1. Mcp!PostFails(reply) = FALSE
    <3>1. Mcp!PostFails(reply) \in BOOLEAN
      BY DEF Mcp!PostFails
    <3> QED BY <1>4, <3>1
  <2>2. posted
    BY <1>2, <1>4 DEF Mcp!Posted, Mcp!PostFails
  <2> QED BY <1>1, <1>2, <2>1, <2>2
<1> QED BY <1>3, <1>4

\* A call has a finding or was sent.
LEMMA CallCases ==
  ASSUME SessionInv, NEW c \in Callers, Mcp!Call(c)
  PROVE  \E p, reached :
           /\ IsPost(p, "tools/call", id[c], c)
           /\ reached \in [err : BOOLEAN, extractErr : BOOLEAN, toolCall : BOOLEAN]
           /\ mcpResult' = [mcpResult EXCEPT ![c] = reached]
           /\ \/ wire' = wire \cup {p}
              \/ wire' = wire /\ Mcp!HasFindings(reached)
<1> DEFINE p == [method |-> "tools/call", id |-> id[c], caller |-> c]
<1>1. IsPost(p, "tools/call", id[c], c)
  BY PostExists DEF SessionInv, Mcp!TypeOK
<1>2. PICK reply \in Mcp!Replies, posted \in BOOLEAN :
         /\ Mcp!Posted(c, reply, posted)
         /\ wire' = IF posted THEN wire \cup {p} ELSE wire
         /\ mcpResult' = [mcpResult EXCEPT ![c] = Mcp!Parse(reply)]
  BY DEF Mcp!Call
<1>3. Mcp!Parse(reply) \in [err : BOOLEAN, extractErr : BOOLEAN, toolCall : BOOLEAN]
  BY DEF Mcp!Parse, Mcp!PostFails
<1>4. CASE posted
  BY <1>1, <1>2, <1>3, <1>4
<1>5. CASE ~posted
  <2>1. Mcp!HasFindings(Mcp!Parse(reply))
    BY <1>2, <1>5 DEF Mcp!Posted, Mcp!HasFindings, Mcp!Parse, Mcp!PostFails
  <2> QED BY <1>1, <1>2, <1>3, <1>5, <2>1
<1> QED BY <1>4, <1>5

-----------------------------------------------------------------------------
(***************************************************************************)
(* Every action of the session keeps it.                                    *)
(***************************************************************************)
\* The first caller finds nothing done, so it has the first id.
LEMMA EnterFirstKeeps ==
  ASSUME SessionInv, NEW c \in Callers, Mcp!EnterFirst(c)
  PROVE  SessionInv'
<1>1. Mcp!TypeOK'
  BY DEF SessionInv, Mcp!TypeOK, Mcp!EnterFirst, Mcp!Goto
<1>2. HandshakeInv'
  BY DEF SessionInv, Mcp!TypeOK, HandshakeInv, On, Mcp!EnterFirst, Mcp!Goto
<1>3. IdInv'
  BY DEF SessionInv, Mcp!TypeOK, HandshakeInv, IdInv, Mcp!EnterFirst, Mcp!Goto
<1>4. ResultInv'
  BY DEF SessionInv, Mcp!TypeOK, HandshakeInv, IdInv, ResultInv, Mcp!CleanCallsReachTheTool, Mcp!HasFindings, Mcp!EnterFirst, Mcp!Goto
<1> QED BY <1>1, <1>2, <1>3, <1>4 DEF SessionInv

\* Who waits changes nothing for the others.
LEMMA EnterOtherKeeps ==
  ASSUME SessionInv, NEW c \in Callers, Mcp!EnterOther(c)
  PROVE  SessionInv'
<1>1. Mcp!TypeOK'
  BY DEF SessionInv, Mcp!TypeOK, Mcp!EnterOther, Mcp!Goto
<1>2. HandshakeInv'
  BY DEF SessionInv, Mcp!TypeOK, HandshakeInv, On, Mcp!EnterOther, Mcp!Goto
<1>3. IdInv'
  BY DEF SessionInv, Mcp!TypeOK, HandshakeInv, IdInv, Mcp!EnterOther, Mcp!Goto
<1>4. ResultInv'
  BY DEF SessionInv, Mcp!TypeOK, HandshakeInv, IdInv, ResultInv, Mcp!CleanCallsReachTheTool, Mcp!HasFindings, Mcp!EnterOther, Mcp!Goto
<1> QED BY <1>1, <1>2, <1>3, <1>4 DEF SessionInv

\* The outcome is that of the handshake.
LEMMA PassHandshakeKeeps ==
  ASSUME SessionInv, NEW c \in Callers, Mcp!PassHandshake(c)
  PROVE  SessionInv'
<1>1. Mcp!TypeOK'
  BY NoResponseType DEF SessionInv, Mcp!TypeOK, Mcp!PassHandshake, Mcp!Goto
<1>2. HandshakeInv'
  BY DEF SessionInv, Mcp!TypeOK, HandshakeInv, On, Mcp!PassHandshake, Mcp!Goto, Mcp!NoResponse
<1>3. IdInv'
  BY DEF SessionInv, Mcp!TypeOK, HandshakeInv, IdInv, Mcp!PassHandshake, Mcp!Goto, Mcp!NoResponse
<1>4. ResultInv'
  BY DEF SessionInv, Mcp!TypeOK, HandshakeInv, IdInv, ResultInv, Mcp!CleanCallsReachTheTool, Mcp!HasFindings, Mcp!PassHandshake, Mcp!Goto, Mcp!NoResponse
<1> QED BY <1>1, <1>2, <1>3, <1>4 DEF SessionInv

\* Only a post that reached the server lets the handshake go on.
LEMMA InitializeKeeps ==
  ASSUME SessionInv, NEW c \in Callers, Mcp!Initialize(c)
  PROVE  SessionInv'
<1>1. PICK p : /\ IsPost(p, "initialize", idSeq, c)
             /\ \/ FailedPost(p, c)
                \/ /\ wire' = wire \cup {p}
                   /\ Mcp!Goto(c, "notify") /\ UNCHANGED <<once, owner, initErr, mcpResult>>
  BY InitializeCases
<1>2. mcpPc[c] = "initialize" /\ UNCHANGED <<over, idSeq, id>>
  BY DEF Mcp!Initialize
<1>3. Mcp!TypeOK'
  <2>1. wire' \subseteq Posts
    BY <1>1 DEF SessionInv, Mcp!TypeOK, IsPost, Posts, FailedPost
  <2>2. CASE FailedPost(p, c)
    BY <1>2, <2>1, <2>2, NoResponseType DEF SessionInv, Mcp!TypeOK, Posts, FailedPost, Mcp!LeaveHandshake, Mcp!Goto
  <2>3. CASE ~FailedPost(p, c)
    BY <1>1, <1>2, <2>1, <2>3 DEF SessionInv, Mcp!TypeOK, Posts, Mcp!Goto
  <2> QED BY <2>2, <2>3
<1>4. HandshakeInv'
  BY <1>1, <1>2 DEF SessionInv, Mcp!TypeOK, HandshakeInv, On, IsPost, FailedPost, Mcp!LeaveHandshake, Mcp!Goto, Mcp!NoResponse
<1>5. IdInv'
  BY <1>1, <1>2 DEF SessionInv, Mcp!TypeOK, HandshakeInv, On, IdInv, IsPost, FailedPost, Mcp!LeaveHandshake, Mcp!Goto, Mcp!NoResponse
<1>6. ResultInv'
  BY <1>1, <1>2 DEF SessionInv, Mcp!TypeOK, HandshakeInv, IdInv, ResultInv, Mcp!CleanCallsReachTheTool, Mcp!HasFindings, IsPost, FailedPost, Mcp!LeaveHandshake, Mcp!Goto, Mcp!NoResponse
<1> QED BY <1>3, <1>4, <1>5, <1>6 DEF SessionInv

\* The handshake ends well only with its second post on the wire.
LEMMA NotifyKeeps ==
  ASSUME SessionInv, NEW c \in Callers, Mcp!Notify(c)
  PROVE  SessionInv'
<1>1. PICK p : /\ IsPost(p, "initialized", Nothing, c)
             /\ \/ FailedPost(p, c)
                \/ wire' = wire \cup {p} /\ Mcp!LeaveHandshake(c, FALSE)
  BY NotifyCases
<1>2. mcpPc[c] = "notify" /\ UNCHANGED <<over, idSeq, id>>
  BY DEF Mcp!Notify
<1>3. Mcp!TypeOK'
  <2>1. wire' \subseteq Posts
    BY <1>1 DEF SessionInv, Mcp!TypeOK, IsPost, Posts, FailedPost
  <2>2. CASE FailedPost(p, c)
    BY <1>2, <2>1, <2>2, NoResponseType DEF SessionInv, Mcp!TypeOK, Posts, FailedPost, Mcp!LeaveHandshake, Mcp!Goto
  <2>3. CASE ~FailedPost(p, c)
    BY <1>1, <1>2, <2>1, <2>3 DEF SessionInv, Mcp!TypeOK, Posts, Mcp!LeaveHandshake, Mcp!Goto
  <2> QED BY <2>2, <2>3
<1>4. HandshakeInv'
  BY <1>1, <1>2 DEF SessionInv, Mcp!TypeOK, HandshakeInv, On, IsPost, FailedPost, Mcp!LeaveHandshake, Mcp!Goto, Mcp!NoResponse
<1>5. IdInv'
  BY <1>1, <1>2 DEF SessionInv, Mcp!TypeOK, HandshakeInv, On, IdInv, IsPost, FailedPost, Mcp!LeaveHandshake, Mcp!Goto, Mcp!NoResponse
<1>6. ResultInv'
  BY <1>1, <1>2 DEF SessionInv, Mcp!TypeOK, HandshakeInv, IdInv, ResultInv, Mcp!CleanCallsReachTheTool, Mcp!HasFindings, IsPost, FailedPost, Mcp!LeaveHandshake, Mcp!Goto, Mcp!NoResponse
<1> QED BY <1>3, <1>4, <1>5, <1>6 DEF SessionInv

\* The new id is above all others.
LEMMA TakeIdKeeps ==
  ASSUME SessionInv, NEW c \in Callers, Mcp!TakeId(c)
  PROVE  SessionInv'
<1>1. Mcp!TypeOK'
  BY DEF SessionInv, Mcp!TypeOK, Mcp!TakeId, Mcp!Goto
<1>2. HandshakeInv'
  BY DEF SessionInv, Mcp!TypeOK, HandshakeInv, On, Mcp!TakeId, Mcp!Goto
<1>3. IdInv'
  BY DEF SessionInv, Mcp!TypeOK, HandshakeInv, IdInv, Mcp!TakeId, Mcp!Goto
<1>4. ResultInv'
  BY DEF SessionInv, Mcp!TypeOK, HandshakeInv, IdInv, ResultInv, Mcp!CleanCallsReachTheTool, Mcp!HasFindings, Mcp!TakeId, Mcp!Goto
<1> QED BY <1>1, <1>2, <1>3, <1>4 DEF SessionInv

\* A reply without findings is one to a post that was sent.
LEMMA CallKeeps ==
  ASSUME SessionInv, NEW c \in Callers, Mcp!Call(c)
  PROVE  SessionInv'
<1>1. PICK p, reached :
         /\ IsPost(p, "tools/call", id[c], c)
         /\ reached \in [err : BOOLEAN, extractErr : BOOLEAN, toolCall : BOOLEAN]
         /\ mcpResult' = [mcpResult EXCEPT ![c] = reached]
         /\ \/ wire' = wire \cup {p}
            \/ wire' = wire /\ Mcp!HasFindings(reached)
  BY CallCases
<1>2. mcpPc[c] = "call" /\ Mcp!Goto(c, "done") /\ UNCHANGED <<over, once, owner, initErr, idSeq, id>>
  BY DEF Mcp!Call
<1>3. Mcp!TypeOK'
  BY <1>1, <1>2 DEF SessionInv, Mcp!TypeOK, IsPost, Posts, Mcp!Goto
<1>4. HandshakeInv'
  BY <1>1, <1>2 DEF SessionInv, Mcp!TypeOK, HandshakeInv, On, IsPost, Mcp!Goto
<1>5. IdInv'
  BY <1>1, <1>2 DEF SessionInv, Mcp!TypeOK, HandshakeInv, On, IdInv, IsPost, Mcp!Goto
<1>6. ResultInv'
  BY <1>1, <1>2 DEF SessionInv, Mcp!TypeOK, HandshakeInv, IdInv, ResultInv, Mcp!CleanCallsReachTheTool, Mcp!HasFindings, IsPost, Mcp!Goto
<1> QED BY <1>3, <1>4, <1>5, <1>6 DEF SessionInv

\* A deadline is only looked at by the next post.
LEMMA ExpireKeeps ==
  ASSUME SessionInv, NEW c \in Callers, Mcp!Expire(c)
  PROVE  SessionInv'
<1>1. Mcp!TypeOK'
  BY DEF SessionInv, Mcp!TypeOK, Mcp!Expire
<1>2. HandshakeInv'
  BY DEF SessionInv, Mcp!TypeOK, HandshakeInv, On, Mcp!Expire
<1>3. IdInv'
  BY DEF SessionInv, Mcp!TypeOK, HandshakeInv, IdInv, Mcp!Expire
<1>4. ResultInv'
  BY DEF SessionInv, Mcp!TypeOK, HandshakeInv, IdInv, ResultInv, Mcp!CleanCallsReachTheTool, Mcp!HasFindings, Mcp!Expire
<1> QED BY <1>1, <1>2, <1>3, <1>4 DEF SessionInv

\* So does a stutter, hence every step.
LEMMA SessionInvStep ==
  ASSUME SessionInv, [Mcp!Next]_mcpVars
  PROVE  SessionInv'
<1>1. CASE UNCHANGED mcpVars
  BY <1>1 DEF mcpVars, SessionInv, Mcp!TypeOK, HandshakeInv, On, IdInv, ResultInv,
              Mcp!CleanCallsReachTheTool, Mcp!HasFindings
<1>2. CASE Mcp!Next
  <2>1. PICK c \in Callers : Mcp!InvokeStep(c) \/ Mcp!Expire(c)
    BY <1>2 DEF Mcp!Next
  <2> QED BY <2>1, EnterFirstKeeps, EnterOtherKeeps, PassHandshakeKeeps, InitializeKeeps,
             NotifyKeeps, TakeIdKeeps, CallKeeps, ExpireKeeps DEF Mcp!InvokeStep
<1> QED BY <1>1, <1>2

-----------------------------------------------------------------------------
(***************************************************************************)
(* The composition: a step is one of one of the targets and leaves the      *)
(* variables of the others alone.                                           *)
(***************************************************************************)
\* Every step of the composition is one of each part, or leaves it alone.
LEMMA TargetsStep ==
  ASSUME [TargetsNext]_all
  PROVE  /\ [Next]_vars /\ [Mcp!Next]_mcpVars
         /\ [Plugins!Next]_pluginVars /\ [Stream!Next]_streamVars
BY DEF TargetsNext, all

\* The four invariants, side by side.
LEMMA TargetsInvariant ==
  TargetsInit /\ [][TargetsNext]_all
    => [](CallInv /\ SessionInv /\ PluginInv /\ StreamInv)
<1>1. TargetsInit => CallInv /\ SessionInv /\ PluginInv /\ StreamInv
  BY CallInvInit, PluginInvInit, StreamInvInit, SessionInvInit
     DEF TargetsInit
<1>2. CallInv /\ SessionInv /\ PluginInv /\ StreamInv /\ [TargetsNext]_all
        => CallInv' /\ SessionInv' /\ PluginInv' /\ StreamInv'
  BY TargetsStep, CallInvStep, PluginInvStep, StreamInvStep, SessionInvStep
<1> QED
  BY <1>1, <1>2, PTL

\* However many workers share an MCP target: the server sees one handshake
\* before every tool call and no id twice, and a failed handshake is the
\* outcome of every call (the property of the composition that the run checks).
THEOREM TargetsSessionIsInOrder == TargetsSpec => []SessionIsInOrder
<1>1. CallInv /\ SessionInv /\ PluginInv /\ StreamInv => SessionIsInOrder
  BY SessionInvImplies DEF SessionIsInOrder, CleanCallsReachTheTool
<1> QED
  BY <1>1, TargetsInvariant, PTL DEF TargetsSpec

\* A response of an MCP target without findings is of a call that the server
\* received, in the composition too.
THEOREM TargetsCleanCallsReachTheTool == TargetsSpec => []CleanCallsReachTheTool
<1>1. CallInv /\ SessionInv /\ PluginInv /\ StreamInv => CleanCallsReachTheTool
  BY SessionInvImplies DEF SessionIsInOrder, CleanCallsReachTheTool
<1> QED
  BY <1>1, TargetsInvariant, PTL DEF TargetsSpec

\* Retries, bodies and failures of an HTTP call in the composition: what is
\* proved of the call alone is not disturbed by the other targets.
THEOREM TargetsRetriesAndBodies ==
  TargetsSpec => [](RetriesAreEarnedAndMade /\ BodiesAndFailures)
<1>1. CallInv /\ SessionInv /\ PluginInv /\ StreamInv => RetriesAreEarnedAndMade /\ BodiesAndFailures
  BY CallInvImplies
<1> QED
  BY <1>1, TargetsInvariant, PTL DEF TargetsSpec

\* For every set of manifests: the suites get all the evidence of every adapter
\* and behind it of every probe, or an error without any of it, and each entry
\* sees all that was found before it (ApplyStateAdapters, Invoke).
THEOREM TargetsEvidenceIsAllOrNothing == TargetsSpec => []EvidenceIsAllOrNothing
<1>1. CallInv /\ SessionInv /\ PluginInv /\ StreamInv => EvidenceIsAllOrNothing
  BY DEF PluginInv, EvidenceInv, EvidenceIsAllOrNothing
<1> QED
  BY <1>1, TargetsInvariant, PTL DEF TargetsSpec

\* Whatever is garbled, cut, lost or interleaved on the way: an answer in which
\* the suites find nothing is the answer of the agent but for exactly what the
\* targets pass over or take for text without counting it, and a stream counts
\* as completed only when the server had sent all of it
\* (parseOpenAIChatStream, parseOpenAIResponsesStream, collectHTTPStreamText,
\* shouldCountHTTPStreamParseError, extractResponseField).
THEOREM TargetsCleanAnswerIsWhole == TargetsSpec => []CleanAnswerIsWhole
<1>1. CallInv /\ SessionInv /\ PluginInv /\ StreamInv => CleanAnswerIsWhole
  BY DEF StreamInv, CleanAnswerIsWhole
<1> QED
  BY <1>1, TargetsInvariant, PTL DEF TargetsSpec

\* What did arrive is in the place it was meant for: pieces in their order,
\* every fragment with its own tool call, the calls in the order of their
\* indices (mergeOpenAIChatStreamToolCall, orderedOpenAIStreamToolCalls).
THEOREM TargetsArrivedIsInPlace == TargetsSpec => []ArrivedIsInPlace
<1>1. CallInv /\ SessionInv /\ PluginInv /\ StreamInv => ArrivedIsInPlace
  BY DEF StreamInv, ArrivedIsInPlace
<1> QED
  BY <1>1, TargetsInvariant, PTL DEF TargetsSpec

=============================================================================
