------------------------------- MODULE Runner -------------------------------
(***************************************************************************)
(* Runner.Run (cleanr/runner.go) at the grain of whole suites: engines run *)
(* one after the other, ctx is read before each of them, and the report's  *)
(* verdict is computed from what the suites that did run returned.  How a  *)
(* suite uses the worker pool and the response cache is SuiteRun's matter, *)
(* which implements this module; what the CLI does with the report is      *)
(* RunCommand's, which extends it.                                         *)
(***************************************************************************)
EXTENDS Integers, Sequences, FiniteSets

CONSTANTS Suites,        \* kinds of the enabled suites, in engines.Default order
          Count,         \* number of scenarios
          MaxErrorRate   \* suites.chaos.max_error_rate_pct

\* How an engine treats a cancelled run.  "cached" and "direct" use the worker
\* pool over a pre-sized slice, with and without the shared response cache
\* (security, release-policy, token-optimization; prompt-injection,
\* provenance); "looped" breaks out of a plain loop (drift, shadow-state,
\* claim-trace); "tolerant" is such a loop whose verdict is an error rate
\* (chaos, here with one fault per scenario).
SuiteKinds == {"cached", "direct", "looped", "tolerant"}

ASSUME RunnerAssumption ==
  /\ Suites \in Seq(SuiteKinds)
  /\ Count \in Nat
  /\ MaxErrorRate \in 0 .. 100

VARIABLES phase,      \* where Run is
          executed,   \* report.Suites: the results of the suites that ran
          cancelled   \* ctx.Err() != nil

runnerVars == <<phase, executed>>

Pooled(kind) == kind \in {"cached", "direct"}

\* int(math.Round(float64(errors) / float64(len(cases)) * 100))
PercentOf(part, total) ==
  IF total = 0 THEN 0 ELSE (200 * part + total) \div (2 * total)

\* cases: len(result.Cases); ran: those that are an evaluated response and not
\* a zero value; failed: those with Passed = false, zero values included.
SuiteResults == [cases : Nat, ran : Nat, failed : Nat, passed : BOOLEAN]

SuitePassed(kind, cases, failed) ==
  IF kind = "tolerant" THEN PercentOf(failed, cases) <= MaxErrorRate ELSE failed = 0

SuiteResult(kind, ran, failed) ==
  LET cases == IF Pooled(kind) THEN Count ELSE ran
  IN  [cases  |-> cases,
       ran    |-> ran,
       failed |-> failed,
       passed |-> SuitePassed(kind, cases, failed)]

\* What engine.Run may return, as <<ran, failed>>: only a cancelled run leaves
\* scenarios out, and a pool that leaves one out still reports its zero value,
\* which failed.
Outcomes(kind, cut) ==
  {SuiteResult(kind, p[1], p[2]) :
     p \in {q \in (0 .. Count) \X (0 .. Count) :
              /\ q[1] < Count => cut
              /\ IF Pooled(kind) THEN q[2] >= Count - q[1] ELSE q[2] <= q[1]}}

FailedSuites == Cardinality({s \in DOMAIN executed : ~executed[s].passed})

\* The failed cases of all suites, numbered within their suite.
FailedCases ==
  Cardinality(UNION {{s} \X (1 .. executed[s].failed) : s \in DOMAIN executed})

\* report.Passed as Run computes it.
RunPassed == FailedSuites = 0 /\ FailedCases = 0

RunnerTypeOK ==
  /\ phase \in {"gate", "suite", "reported"}
  /\ executed \in Seq(SuiteResults)
  /\ cancelled \in BOOLEAN

Init ==
  /\ phase = "gate"
  /\ executed = <<>>
  /\ cancelled = FALSE

\* ctx is live: launch the next engine.
StartSuite ==
  /\ phase = "gate"
  /\ Len(executed) < Len(Suites)
  /\ ~cancelled
  /\ phase' = "suite"
  /\ UNCHANGED <<executed, cancelled>>

EndSuite ==
  /\ phase = "suite"
  /\ \E r \in Outcomes(Suites[Len(executed) + 1], cancelled) :
       executed' = Append(executed, r)
  /\ phase' = "gate"
  /\ UNCHANGED cancelled

\* Every engine ran, or the loop breaks on ctx.Err(): the report is final.
FinishRun ==
  /\ phase = "gate"
  /\ Len(executed) = Len(Suites) \/ cancelled
  /\ phase' = "reported"
  /\ UNCHANGED <<executed, cancelled>>

\* The deadline of -timeout passes, or SIGINT or SIGTERM arrives.
Cancel ==
  /\ ~cancelled
  /\ cancelled' = TRUE
  /\ UNCHANGED runnerVars

Next == StartSuite \/ EndSuite \/ FinishRun \/ Cancel

Spec == Init /\ [][Next]_<<runnerVars, cancelled>>

FairSpec == Spec /\ WF_runnerVars(StartSuite \/ EndSuite \/ FinishRun)
=============================================================================
