------------------------------ MODULE SuiteRun ------------------------------
(***************************************************************************)
(* A whole run of the suites (cleanr/runner.go, cleanr/engines): the runner *)
(* launches one engine after the other; the pooled engines run their cases  *)
(* on the worker pool of CasePool, and three of them fetch the responses    *)
(* through the shared responseCache (cleanr/engines/helpers.go), whose      *)
(* lookup and store are two critical sections with the live Invoke between  *)
(* them; the others loop over the scenarios on the runner's goroutine.      *)
(* Every scenario has a cache key of its own, because the configuration     *)
(* rejects duplicate scenario names and the name is part of the key.        *)
(***************************************************************************)
EXTENDS CasePool, Sequences

CONSTANTS Suites,        \* as in Runner
          MaxErrorRate,  \* as in Runner
          Responses,     \* what a live Invoke may bring back
          Good,          \* the response that passes every check
          Failure,       \* the response that carries Err
          None           \* no response: the zero value of a case slot

ASSUME ResponsesAssumption ==
  /\ {Good, Failure} \subseteq Responses
  /\ None \notin Responses

VARIABLES phase,     \* where Runner.Run is
          executed,  \* report.Suites
          fn,        \* per case of a pooled suite, where its body is
          got,       \* per case, the response it holds or judged
          cache,     \* responseCache.m
          ran,       \* cases appended by a looped suite
          failed,    \* those of them that failed
          calls,     \* history: live Invokes the cached suites made
          judged     \* history: responses the cached suites judged

suiteVars == <<phase, executed, fn, got, cache, ran, failed, calls, judged>>
runVars == <<vars, suiteVars>>

Run == INSTANCE Runner WITH
  phase <- IF phase \in {"gate", "reported"} THEN phase ELSE "suite"

ASSUME SuitesAssumption ==
  /\ Suites \in Seq(Run!SuiteKinds)
  /\ MaxErrorRate \in 0 .. 100

Kind == Suites[Len(executed) + 1]

FnStates == {"idle", "lookup", "invoke", "calling", "store", "done"}

SuiteInit ==
  /\ phase = "gate"
  /\ executed = <<>>
  /\ fn = [c \in Cases |-> "idle"]
  /\ got = [c \in Cases |-> None]
  /\ cache = [c \in Cases |-> None]
  /\ ran = 0
  /\ failed = 0
  /\ calls = [c \in Cases |-> 0]
  /\ judged = [c \in Cases |-> {}]
  /\ dispatcher = "returned"
  /\ next = 0
  /\ sem = 0
  /\ wg = 0
  /\ job = [c \in Cases |-> "none"]
  /\ cancelled = FALSE
  /\ lateCalls = 0

-----------------------------------------------------------------------------
\* The runner's loop: launch the next engine if ctx is live, else report.
StartSuite ==
  /\ phase = "gate"
  /\ Len(executed) < Len(Suites)
  /\ ~cancelled
  /\ IF Run!Pooled(Kind)
       THEN /\ phase' = "pool"
            /\ dispatcher' = "loop"
            /\ next' = 0
            /\ job' = [c \in Cases |-> "none"]
            /\ lateCalls' = 0
            /\ UNCHANGED <<sem, wg>>
       ELSE /\ phase' = "loop"
            /\ UNCHANGED poolVars
  /\ UNCHANGED <<executed, fn, got, cache, ran, failed, calls, judged, cancelled>>

FinishRun ==
  /\ phase = "gate"
  /\ Len(executed) = Len(Suites) \/ cancelled
  /\ phase' = "reported"
  /\ UNCHANGED <<vars, executed, fn, got, cache, ran, failed, calls, judged>>

-----------------------------------------------------------------------------
\* One case of a pooled suite: fn(i) of the pool, entered, ...
EnterCase(c) ==
  /\ phase = "pool"
  /\ FnStart(c) \/ (SerialCall /\ c = next)
  /\ fn' = [fn EXCEPT ![c] = IF Kind = "cached" THEN "lookup" ELSE "invoke"]
  /\ UNCHANGED <<phase, executed, got, cache, ran, failed, calls, judged, cancelled>>

\* Mutant: the cache is written but never consulted.
LookupMissing(c) ==
  /\ fn[c] = "lookup"
  /\ fn' = [fn EXCEPT ![c] = "invoke"]
  /\ UNCHANGED <<vars, phase, executed, got, cache, ran, failed, calls, judged>>

\* ... the first critical section of responseCache.invoke, ...
Lookup(c) ==
  /\ fn[c] = "lookup"
  /\ IF cache[c] # None
       THEN /\ got' = [got EXCEPT ![c] = cache[c]]
            /\ fn' = [fn EXCEPT ![c] = "done"]
       ELSE /\ fn' = [fn EXCEPT ![c] = "invoke"]
            /\ UNCHANGED got
  /\ UNCHANGED <<vars, phase, executed, cache, ran, failed, calls, judged>>

\* ... target.Invoke begins; under a cancelled ctx it fails at once, ...
InvokeBegin(c) ==
  /\ fn[c] = "invoke"
  /\ IF cancelled
       THEN /\ got' = [got EXCEPT ![c] = Failure]
            /\ fn' = [fn EXCEPT ![c] = IF Kind = "cached" THEN "store" ELSE "done"]
            /\ UNCHANGED calls
       ELSE /\ fn' = [fn EXCEPT ![c] = "calling"]
            /\ calls' = IF Kind = "cached" THEN [calls EXCEPT ![c] = @ + 1] ELSE calls
            /\ UNCHANGED got
  /\ UNCHANGED <<vars, phase, executed, cache, ran, failed, judged>>

\* ... and ends, with an answer or with an error, ...
InvokeEnd(c) ==
  /\ fn[c] = "calling"
  /\ \E r \in Responses : got' = [got EXCEPT ![c] = r]
  /\ fn' = [fn EXCEPT ![c] = IF Kind = "cached" THEN "store" ELSE "done"]
  /\ UNCHANGED <<vars, phase, executed, cache, ran, failed, calls, judged>>

\* Mutant: the second critical section forgets the assignment.
StoreNothing(c) ==
  /\ fn[c] = "store"
  /\ fn' = [fn EXCEPT ![c] = "done"]
  /\ UNCHANGED <<vars, phase, executed, got, cache, ran, failed, calls, judged>>

\* ... the second critical section, errors included, ...
Store(c) ==
  /\ fn[c] = "store"
  /\ cache' = [cache EXCEPT ![c] = got[c]]
  /\ fn' = [fn EXCEPT ![c] = "done"]
  /\ UNCHANGED <<vars, phase, executed, got, ran, failed, calls, judged>>

\* ... and left: the response is judged and the case's slot written.
LeaveCase(c) ==
  /\ phase = "pool"
  /\ fn[c] = "done"
  /\ FnReturn(c) \/ (SerialReturn /\ c = next)
  /\ fn' = [fn EXCEPT ![c] = "idle"]
  /\ judged' = IF Kind = "cached" THEN [judged EXCEPT ![c] = @ \cup {got[c]}] ELSE judged
  /\ UNCHANGED <<phase, executed, got, cache, ran, failed, calls, cancelled>>

\* The steps of the pool that do not touch a case's body.
PoolInternal ==
  /\ phase = "pool"
  /\ \/ Admit \/ StopDispatch \/ Spawn \/ WaitReturn
     \/ \E c \in Cases : Release(c) \/ WorkerDone(c)
  /\ UNCHANGED <<suiteVars, cancelled>>

\* Mutant: the verdict looks only at the slots that were filled.
EndPoolSuiteIgnoringBlanks ==
  /\ phase = "pool"
  /\ dispatcher = "returned"
  /\ LET filled == Cardinality({c \in Cases : got[c] # None})
         bad == Cardinality({c \in Cases : got[c] \notin {Good, None}})
     IN  executed' = Append(executed, Run!SuiteResult(Kind, filled, bad))
  /\ got' = [c \in Cases |-> None]
  /\ phase' = "gate"
  /\ UNCHANGED <<vars, fn, cache, ran, failed, calls, judged>>

\* The pool is back: allPassed(cases) over every slot, zero values included.
EndPoolSuite ==
  /\ phase = "pool"
  /\ dispatcher = "returned"
  /\ LET filled == Cardinality({c \in Cases : got[c] # None})
         bad == Cardinality({c \in Cases : got[c] # Good})
     IN  executed' = Append(executed, Run!SuiteResult(Kind, filled, bad))
  /\ got' = [c \in Cases |-> None]
  /\ phase' = "gate"
  /\ UNCHANGED <<vars, fn, cache, ran, failed, calls, judged>>

-----------------------------------------------------------------------------
\* A looped suite reads ctx before every scenario, ...
LoopCall ==
  /\ phase = "loop"
  /\ ran < Count
  /\ ~cancelled
  /\ phase' = "loopcall"
  /\ UNCHANGED <<vars, executed, fn, got, cache, ran, failed, calls, judged>>

\* ... invokes the target directly and appends the case, ...
LoopAppend ==
  /\ phase = "loopcall"
  /\ \E r \in Responses : failed' = IF r = Good THEN failed ELSE failed + 1
  /\ ran' = ran + 1
  /\ phase' = "loop"
  /\ UNCHANGED <<vars, executed, fn, got, cache, calls, judged>>

\* Mutant: the loop ends one scenario early.
EndLoopSuiteOneShort ==
  /\ phase = "loop"
  /\ ran >= Count - 1 \/ cancelled
  /\ executed' = Append(executed, Run!SuiteResult(Kind, ran, failed))
  /\ ran' = 0
  /\ failed' = 0
  /\ phase' = "gate"
  /\ UNCHANGED <<vars, fn, got, cache, calls, judged>>

\* ... and returns the cases it has when the loop ends or breaks.
EndLoopSuite ==
  /\ phase = "loop"
  /\ ran = Count \/ cancelled
  /\ executed' = Append(executed, Run!SuiteResult(Kind, ran, failed))
  /\ ran' = 0
  /\ failed' = 0
  /\ phase' = "gate"
  /\ UNCHANGED <<vars, fn, got, cache, calls, judged>>

CancelRun == Cancel /\ UNCHANGED suiteVars

CaseStep(c) ==
  \/ EnterCase(c) \/ Lookup(c) \/ InvokeBegin(c) \/ InvokeEnd(c)
  \/ Store(c) \/ LeaveCase(c)

RunStep ==
  \/ StartSuite \/ FinishRun
  \/ \E c \in Cases : CaseStep(c)
  \/ PoolInternal \/ EndPoolSuite
  \/ LoopCall \/ LoopAppend \/ EndLoopSuite

SuiteNext == RunStep \/ CancelRun

SuiteSpec == SuiteInit /\ [][SuiteNext]_runVars

\* Only the threads of the program are fair, cancellation may never come.  The
\* weak fairness of all threads together suffices: no step can be repeated
\* for ever, every suite has finitely many.
SuiteFairSpec == SuiteSpec /\ WF_runVars(RunStep)

-----------------------------------------------------------------------------
\* "the target is invoked once per scenario instead of once per engine"
\* (engines/defaults.go): the cached suites together make at most one live
\* Invoke per scenario, whatever the interleaving of the workers, and whether
\* or not the first one failed.
OncePerScenario == \A c \in Cases : calls[c] <= 1

\* The verdicts of the cached suites are about one and the same response: no
\* two of them judge different answers to the same scenario.
SuitesAgree ==
  \A c \in Cases : Cardinality(judged[c]) <= 1

\* Without a cancellation the report is complete: every enabled suite is in
\* it and every suite evaluated every scenario.
UninterruptedIsComplete ==
  phase = "reported" /\ ~cancelled =>
    /\ Len(executed) = Len(Suites)
    /\ \A s \in DOMAIN executed : executed[s].ran = Count

\* One live call per scenario for all cached suites, which judge one answer, and
\* a report without gaps unless the run was cancelled.
OneAnswerPerScenario == OncePerScenario /\ SuitesAgree /\ UninterruptedIsComplete

\* Pool, cache and loops together do what Runner says of a run.
ImplementsRunner == Run!Spec
=============================================================================
