------------------------------ MODULE LoadSuite ------------------------------
(***************************************************************************)
(* The load suite (cleanr/engines/load.go): one goroutine per virtual user   *)
(* invokes the target RequestsPerUser times and sends a sample per request   *)
(* into a buffered channel; when all have finished the samples are drained,  *)
(* summarized and held against the budgets.  Latencies, tokens and the       *)
(* elapsed time are small numbers of one unit each.                          *)
(***************************************************************************)
EXTENDS Integers, Sequences, FiniteSetsExt

CONSTANTS VirtualUsers, RequestsPerUser, \* suites.load
          MaxErrorRatePct, P95Latency,
          MinTokensPerSecond,            \* 0: no gate
          ScenarioCount,                 \* the scenarios selectLoadScenarios returns
          Statuses,                      \* of answers; {0} for a cli or grpc target
          Latencies, Usages, Elapsed     \* what a sample and a run may measure

ASSUME LoadAssumption ==
  /\ VirtualUsers \in Nat \ {0} /\ RequestsPerUser \in Nat \ {0}
  /\ ScenarioCount \in Nat \ {0}
  /\ MaxErrorRatePct \in 0 .. 100
  /\ P95Latency \in Nat \ {0} /\ MinTokensPerSecond \in Nat
  /\ Statuses \subseteq Nat
  /\ Latencies \subseteq Nat /\ Usages \subseteq Nat /\ Elapsed \subseteq Nat \ {0}

VARIABLES user,      \* [users -> "invoke", "send" or "done"]
          i,         \* [users -> loop variable]
          held,      \* [users -> the sample to be sent]
          ch,        \* the channel
          phase,     \* "wait", "drain" or "done"
          samples,   \* the drained samples
          verdict    \* summary and verdict of the suite

vars == <<user, i, held, ch, phase, samples, verdict>>

Users == 0 .. VirtualUsers - 1
TotalRequests == VirtualUsers * RequestsPerUser

\* What an Invoke may bring: an error, which counts whatever its status, or an
\* answer.  Either may come with token usage.
Outcomes == {[err |-> TRUE, status |-> 0]} \cup [err : {FALSE}, status : Statuses]

NoSample == [user |-> -1]
NoVerdict == [passed |-> FALSE]

-----------------------------------------------------------------------------
\* Samples are drained into a set: each is of another request.
IsError(s) == s.err \/ s.status >= 500 \/ s.status = 0

\* percentOf.  The float of an exact half may lie on either side of it (57 of
\* 200 is 28.499...): tie is 0 when it is rounded up and 1 when down.
Ties == 0 .. 1

PercentOf(count, total, tie) ==
  IF total = 0 THEN 0 ELSE (200 * count + total - tie) \div (2 * total)

\* Mutant: the rank is rounded down.
PercentileFloor(p, set) ==
  LET n == Cardinality(set)
      rank == (p * n) \div 100
      UpTo(l) == Cardinality({s \in set : s.latency <= l})
  IN  IF n = 0 THEN 0
      ELSE Min({l \in {s.latency : s \in set} : UpTo(l) >= IF rank < 1 THEN 1 ELSE rank})

\* percentile: the sample of rank ceil(p * n / 100) of the sorted latencies.
Percentile(p, set) ==
  LET n == Cardinality(set)
      rank == (p * n + 99) \div 100
      UpTo(l) == Cardinality({s \in set : s.latency <= l})
  IN  IF n = 0 THEN 0
      ELSE Min({l \in {s.latency : s \in set} : UpTo(l) >= IF rank < 1 THEN 1 ELSE rank})

\* The tokens of the samples, numbered within their sample.
Tokens(set) == Cardinality(UNION {{s} \X (1 .. s.usage) : s \in set})

\* round3 of the tokens per second, in thousandths.
TokenThroughput(tokens, elapsed, tie) == (2000 * tokens + elapsed - tie) \div (2 * elapsed)

SummarizeLoadSamples(set, elapsed, rateTie, flowTie) ==
  LET used == {s \in set : s.usage > 0}
  IN  [errorRatePct |-> PercentOf(Cardinality({s \in set : IsError(s)}), Cardinality(set), rateTie),
       p95 |-> Percentile(95, set),
       usageRequests |-> Cardinality(used),
       throughput |-> TokenThroughput(Tokens(used), elapsed, flowTie)]

EvaluateLoadSummary(s) ==
  /\ s.errorRatePct <= MaxErrorRatePct
  /\ s.p95 <= P95Latency
  /\ MinTokensPerSecond > 0 =>
       s.usageRequests > 0 /\ s.throughput >= 1000 * MinTokensPerSecond

-----------------------------------------------------------------------------
Init ==
  /\ user = [u \in Users |-> "invoke"]
  /\ i = [u \in Users |-> 0]
  /\ held = [u \in Users |-> NoSample]
  /\ ch = <<>>
  /\ phase = "wait"
  /\ samples = {}
  /\ verdict = NoVerdict

\* The loop of a virtual user: invoke the target, nothing looks at ctx; ...
Invoke(u) ==
  /\ user[u] = "invoke"
  /\ \E o \in Outcomes, l \in Latencies, t \in Usages :
       held' = [held EXCEPT ![u] =
                 [user |-> u, i |-> i[u], scenario |-> (u + i[u]) % ScenarioCount,
                  err |-> o.err, status |-> o.status, latency |-> l,
                  usage |-> t]]
  /\ user' = [user EXCEPT ![u] = "send"]
  /\ UNCHANGED <<i, ch, phase, samples, verdict>>

\* Mutant: the channel has room for the requests of one user.
SendSampleToSmallChannel(u) ==
  /\ user[u] = "send" /\ Len(ch) < RequestsPerUser
  /\ ch' = Append(ch, held[u])
  /\ held' = [held EXCEPT ![u] = NoSample]
  /\ i' = [i EXCEPT ![u] = @ + 1]
  /\ user' = [user EXCEPT ![u] = IF i[u] + 1 < RequestsPerUser THEN "invoke" ELSE "done"]
  /\ UNCHANGED <<phase, samples, verdict>>

\* ... send the sample, which blocks when the channel is full.
SendSample(u) ==
  /\ user[u] = "send" /\ Len(ch) < TotalRequests
  /\ ch' = Append(ch, held[u])
  /\ held' = [held EXCEPT ![u] = NoSample]
  /\ i' = [i EXCEPT ![u] = @ + 1]
  /\ user' = [user EXCEPT ![u] = IF i[u] + 1 < RequestsPerUser THEN "invoke" ELSE "done"]
  /\ UNCHANGED <<phase, samples, verdict>>

\* Mutant: the samples are drained when the first user has finished.
WaitUsersAny ==
  /\ phase = "wait" /\ \E u \in Users : user[u] = "done"
  /\ phase' = "drain"
  /\ UNCHANGED <<user, i, held, ch, samples, verdict>>

\* wg.Wait, close(ch).
WaitUsers ==
  /\ phase = "wait" /\ \A u \in Users : user[u] = "done"
  /\ phase' = "drain"
  /\ UNCHANGED <<user, i, held, ch, samples, verdict>>

Drain ==
  /\ phase = "drain" /\ ch # <<>>
  /\ samples' = samples \cup {Head(ch)}
  /\ ch' = Tail(ch)
  /\ UNCHANGED <<user, i, held, phase, verdict>>

Evaluate ==
  /\ phase = "drain" /\ ch = <<>>
  /\ \E elapsed \in Elapsed, rateTie, flowTie \in Ties :
       LET s == SummarizeLoadSamples(samples, elapsed, rateTie, flowTie)
       IN  verdict' = [passed |-> EvaluateLoadSummary(s), summary |-> s, elapsed |-> elapsed]
  /\ phase' = "done"
  /\ UNCHANGED <<user, i, held, ch, samples>>

Next ==
  \/ \E u \in Users : Invoke(u) \/ SendSample(u)
  \/ WaitUsers \/ Drain \/ Evaluate

\* An Invoke ends with its timeout; goroutines are scheduled.
Spec ==
  /\ Init /\ [][Next]_vars
  /\ \A u \in Users : WF_vars(Invoke(u) \/ SendSample(u))
  /\ WF_vars(WaitUsers \/ Drain \/ Evaluate)

-----------------------------------------------------------------------------
\* Every request of every virtual user is in the summary, once.
EveryRequestIsSampled ==
  phase = "done" =>
    /\ {<<s.user, s.i>> : s \in samples} = Users \X (0 .. RequestsPerUser - 1)
    /\ Cardinality(samples) = TotalRequests

\* The verdict is that of the three budgets, whatever the order in which the
\* samples arrived: the share of errors is less than half a percent over its
\* budget, at most 5 % of the requests were slower than the latency budget, and
\* the tokens reach the floor that is set, less half a thousandth.  Where an
\* error rate or a throughput is exactly on the edge, either verdict will do.
VerdictIsOfTheBudgets ==
  phase = "done" =>
    LET n == Cardinality(samples)
        errors == {s \in samples : s.err \/ s.status \notin 1 .. 499}
        slow == {s \in samples : s.latency > P95Latency}
        rate == 200 * Cardinality(errors) - (2 * MaxErrorRatePct + 1) * n
        spare == 2000 * Tokens(samples) + verdict.elapsed
                   - 2000 * MinTokensPerSecond * verdict.elapsed
    IN  /\ verdict.passed =>
             /\ rate <= 0
             /\ 100 * Cardinality(slow) <= 5 * n
             /\ MinTokensPerSecond > 0 => Tokens(samples) > 0 /\ spare >= 0
        /\ ~verdict.passed =>
             \/ rate >= 0
             \/ 100 * Cardinality(slow) > 5 * n
             \/ MinTokensPerSecond > 0 /\ (Tokens(samples) = 0 \/ spare <= 0)

\* Nothing is lost or counted twice on the way through the channel, and the
\* verdict is that of the budgets.
VerdictIsOfAllSamples == EveryRequestIsSampled /\ VerdictIsOfTheBudgets

\* The suite ends, cancelled or not.
Returns == <>(phase = "done")

=============================================================================
