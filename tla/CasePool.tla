------------------------------ MODULE CasePool ------------------------------
(***************************************************************************)
(* runBoundedByIndex (cleanr/engines/helpers.go): the worker pool that the *)
(* suites use to run one case per scenario.  With a limit of one, or one   *)
(* case, the caller runs the cases itself; otherwise it takes a semaphore  *)
(* token for every case, starts a goroutine for it and waits for all of    *)
(* them.  ctx is read once per iteration, before the wait for a token.     *)
(***************************************************************************)
EXTENDS Integers, FiniteSets

CONSTANTS Count,   \* number of cases, len(scenarios)
          Limit    \* the limit argument, Config.CaseConcurrency()

ASSUME PoolAssumption == Count \in Nat /\ Limit \in Int

VARIABLES dispatcher,  \* where the goroutine that called the pool is
          next,        \* its loop variable i
          sem,         \* tokens in the channel sem
          wg,          \* counter of the WaitGroup
          job,         \* per index, where its call of fn is
          cancelled,   \* ctx.Err() != nil
          lateCalls    \* history: calls of fn entered after the cancellation

poolVars == <<dispatcher, next, sem, wg, job, lateCalls>>
vars == <<poolVars, cancelled>>

Cases == 0 .. Count - 1

EffectiveLimit == IF Limit < 1 THEN 1 ELSE Limit

Serial == EffectiveLimit = 1 \/ Count <= 1

DispatcherStates == {"loop", "acquire", "call", "calling", "wait", "returned"}

\* "none": fn was not called; "spawned": its goroutine exists; "running": fn
\* is executing; "written": fn returned, slot i of the caller's slice is set;
\* "released": the deferred token release ran; "gone": wg.Done ran too.
JobStates == {"none", "spawned", "running", "written", "released", "gone"}

JobsIn(states) == {i \in Cases : job[i] \in states}

\* The slots of the caller's pre-sized slice that hold a result of fn; the
\* others are still the zero value of the slice's element type.
Written == JobsIn({"written", "released", "gone"})

TypeOK ==
  /\ dispatcher \in DispatcherStates
  /\ next \in 0 .. Count
  /\ sem \in Nat
  /\ wg \in Nat
  /\ job \in [Cases -> JobStates]
  /\ cancelled \in BOOLEAN
  /\ lateCalls \in Nat

Init ==
  /\ dispatcher = "loop"
  /\ next = 0
  /\ sem = 0
  /\ wg = 0
  /\ job = [i \in Cases |-> "none"]
  /\ cancelled \in BOOLEAN
  /\ lateCalls = 0

\* Mutant: the iteration never looks at ctx.
AdmitIgnoringContext ==
  /\ dispatcher = "loop"
  /\ next < Count
  /\ dispatcher' = IF Serial THEN "call" ELSE "acquire"
  /\ UNCHANGED <<next, sem, wg, job, lateCalls>>

\* The loop condition holds and ctx is live: go on to this index.
Admit ==
  /\ dispatcher = "loop"
  /\ next < Count
  /\ ~cancelled
  /\ dispatcher' = IF Serial THEN "call" ELSE "acquire"
  /\ UNCHANGED <<next, sem, wg, job, lateCalls>>

\* Mutant: the parallel path forgets wg.Wait.
StopDispatchWithoutWait ==
  /\ dispatcher = "loop"
  /\ next = Count \/ cancelled
  /\ dispatcher' = "returned"
  /\ UNCHANGED <<next, sem, wg, job, lateCalls>>

\* The loop is exhausted, or ctx is cancelled: return, or break to wg.Wait.
StopDispatch ==
  /\ dispatcher = "loop"
  /\ next = Count \/ cancelled
  /\ dispatcher' = IF Serial THEN "returned" ELSE "wait"
  /\ UNCHANGED <<next, sem, wg, job, lateCalls>>

\* sem <- struct{}{}; wg.Add(1); go func(i int) {...}(i)
Spawn ==
  /\ dispatcher = "acquire"
  /\ sem < EffectiveLimit
  /\ sem' = sem + 1
  /\ wg' = wg + 1
  /\ job' = [job EXCEPT ![next] = "spawned"]
  /\ next' = next + 1
  /\ dispatcher' = "loop"
  /\ UNCHANGED lateCalls

CountLate == lateCalls' = IF cancelled THEN lateCalls + 1 ELSE lateCalls

\* The goroutine of index i is scheduled and enters fn(i).
FnStart(i) ==
  /\ job[i] = "spawned"
  /\ job' = [job EXCEPT ![i] = "running"]
  /\ CountLate
  /\ UNCHANGED <<dispatcher, next, sem, wg>>

\* fn(i) has written its own slot and returns.
FnReturn(i) ==
  /\ ~Serial
  /\ job[i] = "running"
  /\ job' = [job EXCEPT ![i] = "written"]
  /\ UNCHANGED <<dispatcher, next, sem, wg, lateCalls>>

\* Mutant: the deferred token release is missing.
ReleaseKeepingToken(i) ==
  /\ job[i] = "written"
  /\ job' = [job EXCEPT ![i] = "released"]
  /\ UNCHANGED <<dispatcher, next, sem, wg, lateCalls>>

\* defer func() { <-sem }(), which runs before the deferred wg.Done.
Release(i) ==
  /\ job[i] = "written"
  /\ job' = [job EXCEPT ![i] = "released"]
  /\ sem' = sem - 1
  /\ UNCHANGED <<dispatcher, next, wg, lateCalls>>

WorkerDone(i) ==
  /\ job[i] = "released"
  /\ job' = [job EXCEPT ![i] = "gone"]
  /\ wg' = wg - 1
  /\ UNCHANGED <<dispatcher, next, sem, lateCalls>>

\* The serial path enters fn(next) on the caller's own goroutine.
SerialCall ==
  /\ dispatcher = "call"
  /\ dispatcher' = "calling"
  /\ job' = [job EXCEPT ![next] = "running"]
  /\ CountLate
  /\ UNCHANGED <<next, sem, wg>>

SerialReturn ==
  /\ dispatcher = "calling"
  /\ job' = [job EXCEPT ![next] = "gone"]
  /\ next' = next + 1
  /\ dispatcher' = "loop"
  /\ UNCHANGED <<sem, wg, lateCalls>>

\* wg.Wait() returns, and with it the pool.
WaitReturn ==
  /\ dispatcher = "wait"
  /\ wg = 0
  /\ dispatcher' = "returned"
  /\ UNCHANGED <<next, sem, wg, job, lateCalls>>

\* The deadline of the run passes, or SIGINT arrives.
Cancel ==
  /\ ~cancelled
  /\ cancelled' = TRUE
  /\ UNCHANGED poolVars

Worker(i) == FnStart(i) \/ FnReturn(i) \/ Release(i) \/ WorkerDone(i)

Dispatcher == Admit \/ StopDispatch \/ Spawn \/ SerialCall \/ SerialReturn \/ WaitReturn

PoolStep == Dispatcher \/ \E i \in Cases : Worker(i)

Next ==
  \/ PoolStep /\ UNCHANGED cancelled
  \/ Cancel

Spec == Init /\ [][Next]_vars

\* The Go scheduler runs every runnable goroutine, and fn returns because every
\* Invoke is bounded by its request timeout.  Nobody has to cancel.
FairSpec ==
  /\ Spec
  /\ WF_vars(Dispatcher /\ UNCHANGED cancelled)
  /\ \A i \in Cases : WF_vars(Worker(i) /\ UNCHANGED cancelled)

-----------------------------------------------------------------------------
\* At most limit calls of fn execute at a time, on the serial path one.
WithinLimit == Cardinality(JobsIn({"running"})) <= EffectiveLimit

\* The token count and the WaitGroup agree with the goroutines there are: a
\* token is held from the spawn to the deferred release, the WaitGroup counts
\* until wg.Done.  An early or missing release would break it.
Accounting ==
  /\ sem = Cardinality(JobsIn({"spawned", "running", "written"})) \/ Serial
  /\ wg = Cardinality(JobsIn({"spawned", "running", "written", "released"})) \/ Serial

\* When the pool hands control back nobody runs fn any more, so the caller
\* may read the slice without a lock; and exactly a prefix of the slots is
\* written, all of them unless ctx was cancelled.
QuietPrefix ==
  dispatcher = "returned" =>
    /\ JobsIn({"spawned", "running"}) = {}
    /\ Written = 0 .. next - 1
    /\ next < Count => cancelled

\* "Iteration stops early if ctx is cancelled", made precise: ctx is read
\* before the wait for a token and not in the goroutine, so the calls already
\* dispatched and one more may still enter fn, on the serial path one.
LateCallsBounded ==
  lateCalls <= IF Serial THEN 1 ELSE EffectiveLimit + 1

\* The pool always returns.
Returns == <>(dispatcher = "returned")

\* The pool implements the contract of its doc comment.
Contract == INSTANCE BoundedCalls WITH
  Width    <- EffectiveLimit,
  open     <- JobsIn({"spawned", "running"}),
  finished <- Written,
  stopped  <- cancelled,
  grace    <- ~cancelled \/ dispatcher \in {"acquire", "call"},
  closed   <- dispatcher = "returned"

ContractHolds == Contract!Spec
=============================================================================
