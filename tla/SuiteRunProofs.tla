--------------------------- MODULE SuiteRunProofs ---------------------------
(***************************************************************************)
(* Proofs about the worker pool and a whole run of the suites, for any        *)
(* suites, number of scenarios, limit, number of workers and responses.        *)
(*                                                                             *)
(* Of the pool: its type, the limit on concurrent calls, the bookkeeping of     *)
(* semaphore and WaitGroup, what the caller finds when the pool returns, the     *)
(* bound on the calls that a cancellation finds on their way, and that the        *)
(* pool implements the contract of BoundedCalls.  Of a run: the shared cache      *)
(* makes at most one live call per scenario and shows every cached suite the      *)
(* same answer, a report without cancellation has no gaps, and pool, cache and    *)
(* loops together implement Runner.                                               *)
(***************************************************************************)
EXTENDS SuiteRun, FiniteSetTheorems, TLAPS

-----------------------------------------------------------------------------
(***************************************************************************)
(* Counting jobs.  Where(f, S) is JobsIn(S) with the job function explicit, *)
(* so that a lemma can speak about the function before and after a step.    *)
(***************************************************************************)
Where(f, S) == {i \in Cases : f[i] \in S}

\* The cases are finitely many.
LEMMA CasesFinite == IsFiniteSet(Cases)
<1>1. Count - 1 \in Int
  BY PoolAssumption
<1> QED BY <1>1, FS_Interval DEF Cases

\* Hence so are the jobs in any set of states.
LEMMA WhereFinite ==
  ASSUME NEW f, NEW S
  PROVE  /\ IsFiniteSet(Where(f, S))
         /\ Cardinality(Where(f, S)) \in Nat
<1>1. Where(f, S) \subseteq Cases
  BY DEF Where
<1> QED BY <1>1, CasesFinite, FS_Subset, FS_CardinalityType

\* Fewer states, not more jobs.
LEMMA WhereSubset ==
  ASSUME NEW f, NEW S, NEW T, S \subseteq T
  PROVE  Cardinality(Where(f, S)) <= Cardinality(Where(f, T))
<1>1. Where(f, S) \subseteq Where(f, T)
  BY DEF Where
<1> QED BY <1>1, WhereFinite, FS_Subset

\* Only job i differs between f and g.
Moves(f, g, i) == \A k \in Cases \ {i} : g[k] = f[k]

\* A job that enters a set of states is one more in it.
LEMMA WhereEnter ==
  ASSUME NEW f, NEW g, NEW i \in Cases, NEW S, Moves(f, g, i),
         f[i] \notin S, g[i] \in S
  PROVE  /\ Where(g, S) = Where(f, S) \cup {i}
         /\ Cardinality(Where(g, S)) = Cardinality(Where(f, S)) + 1
<1>1. Where(g, S) = Where(f, S) \cup {i}
  BY DEF Where, Moves
<1>2. i \notin Where(f, S)
  BY DEF Where, Moves
<1> QED BY <1>1, <1>2, WhereFinite, FS_AddElement

\* A job that leaves a set of states is one less in it.
LEMMA WhereLeave ==
  ASSUME NEW f, NEW g, NEW i \in Cases, NEW S, Moves(f, g, i),
         f[i] \in S, g[i] \notin S
  PROVE  /\ Where(g, S) = Where(f, S) \ {i}
         /\ Cardinality(Where(g, S)) = Cardinality(Where(f, S)) - 1
<1>1. Where(g, S) = Where(f, S) \ {i}
  BY DEF Where, Moves
<1>2. i \in Where(f, S)
  BY DEF Where, Moves
<1> QED BY <1>1, <1>2, WhereFinite, FS_RemoveElement

\* A move within a set of states, or outside it, changes nothing.
LEMMA WhereStay ==
  ASSUME NEW f, NEW g, NEW i \in Cases, NEW S, Moves(f, g, i),
         f[i] \in S <=> g[i] \in S
  PROVE  Where(g, S) = Where(f, S)
BY DEF Where, Moves

-----------------------------------------------------------------------------
(***************************************************************************)
(* The inductive invariant.  TypeOK alone is not inductive: that sem and    *)
(* wg stay natural numbers and next within bounds depends on where the jobs *)
(* are and on what the dispatcher has checked.                              *)
(***************************************************************************)
HoldingToken == {"spawned", "running", "written"}
Counted == {"spawned", "running", "written", "released"}
Waiting == {"spawned"}

\* What the dispatcher has established at each point of its code.
DispatcherInv ==
  /\ dispatcher \in {"acquire", "call", "calling"} => next < Count
  /\ dispatcher \in {"acquire", "wait"} => ~Serial
  /\ dispatcher \in {"call", "calling"} => Serial
  /\ dispatcher \in {"wait", "returned"} => next = Count \/ cancelled
  /\ dispatcher = "returned" => wg = 0

\* The cases below the loop variable have been called, no others have.
PrefixInv ==
  \A i \in Cases :
    job[i] # "none" <=> i < next \/ (dispatcher = "calling" /\ i = next)

\* On the serial path at most the current call is open.
SerialInv ==
  Serial =>
    /\ sem = 0
    /\ wg = 0
    /\ \A i \in Cases :
         job[i] = IF dispatcher = "calling" /\ i = next THEN "running"
                  ELSE IF i < next THEN "gone" ELSE "none"

\* On the parallel path tokens and WaitGroup count the jobs.
ParallelInv ==
  ~Serial =>
    /\ sem = Cardinality(Where(job, HoldingToken))
    /\ wg = Cardinality(Where(job, Counted))
    /\ sem <= EffectiveLimit

\* Calls that can still turn out late, when ctx is cancelled now.
Pending ==
  IF Serial THEN IF dispatcher = "call" THEN 1 ELSE 0
  ELSE Cardinality(Where(job, Waiting)) + IF dispatcher = "acquire" THEN 1 ELSE 0

LateInv ==
  /\ ~cancelled => lateCalls = 0
  /\ lateCalls + Pending <= IF Serial THEN 1 ELSE EffectiveLimit + 1

PoolInv ==
  /\ TypeOK
  /\ DispatcherInv
  /\ PrefixInv
  /\ SerialInv
  /\ ParallelInv
  /\ LateInv
-----------------------------------------------------------------------------
\* The limit is at least one.
LEMMA LimitPositive == EffectiveLimit \in Nat \ {0}
BY PoolAssumption DEF EffectiveLimit

LEMMA PoolInit == Init => PoolInv
<1> SUFFICES ASSUME Init PROVE PoolInv
  OBVIOUS
<1> USE PoolAssumption, LimitPositive
<1>1. ASSUME NEW S, "none" \notin S PROVE Cardinality(Where(job, S)) = 0
  <2>1. Where(job, S) = {}
    BY <1>1 DEF Where, Init
  <2> QED BY <2>1, FS_EmptySet
<1>2. TypeOK
  BY DEF Init, TypeOK, DispatcherStates, JobStates
<1>3. DispatcherInv /\ PrefixInv /\ SerialInv
  BY DEF Init, DispatcherInv, PrefixInv, SerialInv, Cases
<1>4. ParallelInv
  BY <1>1 DEF Init, ParallelInv, HoldingToken, Counted
<1>5. LateInv
  BY <1>1 DEF Init, LateInv, Pending, Waiting
<1> QED BY <1>2, <1>3, <1>4, <1>5 DEF PoolInv

\* The index the dispatcher works on is a case that was not called yet.
LEMMA NextIsFresh ==
  ASSUME PoolInv, dispatcher \in {"acquire", "call"}
  PROVE  next \in Cases /\ job[next] = "none"
BY PoolAssumption DEF PoolInv, TypeOK, DispatcherInv, PrefixInv, Cases

LEMMA AdmitStep == PoolInv /\ Admit /\ UNCHANGED cancelled => PoolInv'
<1> SUFFICES ASSUME PoolInv, Admit, UNCHANGED cancelled PROVE PoolInv'
  OBVIOUS
<1> USE PoolAssumption, LimitPositive DEF PoolInv, Admit
<1>1. TypeOK'
  BY DEF TypeOK, DispatcherStates
<1>2. DispatcherInv' /\ PrefixInv' /\ SerialInv'
  BY DEF TypeOK, DispatcherInv, PrefixInv, SerialInv, Serial
<1>3. ParallelInv'
  BY DEF ParallelInv, Serial
<1>4. LateInv'
  <2>1. Cardinality(Where(job, Waiting)) <= Cardinality(Where(job, HoldingToken))
    <3>1. Waiting \subseteq HoldingToken
      BY DEF Waiting, HoldingToken
    <3> QED BY <3>1, WhereSubset
  <2>2. Cardinality(Where(job, Waiting)) \in Nat /\ Cardinality(Where(job, HoldingToken)) \in Nat
    BY WhereFinite
  <2> QED BY <2>1, <2>2 DEF LateInv, Pending, ParallelInv, Serial, TypeOK
<1> QED BY <1>1, <1>2, <1>3, <1>4

LEMMA StopDispatchStep == PoolInv /\ StopDispatch /\ UNCHANGED cancelled => PoolInv'
<1> SUFFICES ASSUME PoolInv, StopDispatch, UNCHANGED cancelled PROVE PoolInv'
  OBVIOUS
<1> USE PoolAssumption, LimitPositive DEF PoolInv, StopDispatch
<1>1. TypeOK'
  BY DEF TypeOK, DispatcherStates
<1>2. DispatcherInv' /\ PrefixInv' /\ SerialInv'
  BY DEF TypeOK, DispatcherInv, PrefixInv, SerialInv, Serial
<1>3. ParallelInv'
  BY DEF ParallelInv, Serial
<1>4. LateInv'
  BY DEF LateInv, Pending, Serial
<1> QED BY <1>1, <1>2, <1>3, <1>4

LEMMA SpawnStep == PoolInv /\ Spawn /\ UNCHANGED cancelled => PoolInv'
<1> SUFFICES ASSUME PoolInv, Spawn, UNCHANGED cancelled PROVE PoolInv'
  OBVIOUS
<1> USE PoolAssumption, LimitPositive DEF PoolInv
<1>1. next \in Cases /\ job[next] = "none" /\ next < Count /\ ~Serial
  BY NextIsFresh DEF Spawn, DispatcherInv
<1>2. job \in [Cases -> JobStates] /\ job' = [job EXCEPT ![next] = "spawned"]
  BY DEF Spawn, TypeOK
<1>3. Moves(job, job', next) /\ job'[next] = "spawned"
  BY <1>1, <1>2 DEF Moves
<1>4. /\ job[next] \notin HoldingToken /\ job'[next] \in HoldingToken
      /\ job[next] \notin Counted /\ job'[next] \in Counted
      /\ job[next] \notin Waiting /\ job'[next] \in Waiting
  BY <1>1, <1>2, <1>3 DEF HoldingToken, Counted, Waiting
<1>5. TypeOK'
  BY <1>1, <1>2 DEF Spawn, TypeOK, DispatcherStates, JobStates
<1>6. DispatcherInv'
  BY DEF Spawn, DispatcherInv
<1>7. PrefixInv'
  BY <1>1, <1>2 DEF Spawn, PrefixInv, TypeOK, Cases
<1>8. SerialInv'
  BY <1>1 DEF SerialInv, Serial
<1>9. /\ Cardinality(Where(job', HoldingToken)) = Cardinality(Where(job, HoldingToken)) + 1
      /\ Cardinality(Where(job', Counted)) = Cardinality(Where(job, Counted)) + 1
      /\ Cardinality(Where(job', Waiting)) = Cardinality(Where(job, Waiting)) + 1
  BY <1>1, <1>3, <1>4, WhereEnter
<1>10. ParallelInv'
  BY <1>1, <1>9, WhereFinite DEF Spawn, ParallelInv, Serial, TypeOK
<1>11. LateInv'
  BY <1>1, <1>9, WhereFinite DEF Spawn, LateInv, Pending, Serial, TypeOK
<1> QED BY <1>5, <1>6, <1>7, <1>8, <1>10, <1>11

\* The steps of a worker are about a case that was spawned, so the pool is not
\* serial.
LEMMA WorkersAreParallel ==
  ASSUME PoolInv, NEW i \in Cases, job[i] \in {"spawned", "written", "released"}
  PROVE  ~Serial /\ i < next
BY PoolAssumption DEF PoolInv, TypeOK, DispatcherInv, PrefixInv, SerialInv, Cases

LEMMA FnStartStep ==
  ASSUME NEW i \in Cases
  PROVE  PoolInv /\ FnStart(i) /\ UNCHANGED cancelled => PoolInv'
<1> SUFFICES ASSUME PoolInv, FnStart(i), UNCHANGED cancelled PROVE PoolInv'
  OBVIOUS
<1> USE PoolAssumption, LimitPositive DEF PoolInv
<1>1. ~Serial /\ i < next
  BY WorkersAreParallel DEF FnStart
<1>2. job \in [Cases -> JobStates] /\ job[i] = "spawned" /\ job' = [job EXCEPT ![i] = "running"]
  BY DEF FnStart, TypeOK
<1>3. Moves(job, job', i) /\ job'[i] = "running"
  BY <1>1, <1>2 DEF Moves
<1>4. /\ job[i] \in HoldingToken /\ job'[i] \in HoldingToken
      /\ job[i] \in Counted /\ job'[i] \in Counted
      /\ job[i] \in Waiting /\ job'[i] \notin Waiting
  BY <1>1, <1>2, <1>3 DEF HoldingToken, Counted, Waiting
<1>5. TypeOK'
  BY <1>2 DEF FnStart, CountLate, TypeOK, JobStates
<1>6. DispatcherInv'
  BY DEF FnStart, DispatcherInv
<1>7. PrefixInv'
  BY <1>1, <1>2 DEF FnStart, PrefixInv, TypeOK, Cases
<1>8. SerialInv'
  BY <1>1 DEF SerialInv, Serial
<1>9. Where(job', HoldingToken) = Where(job, HoldingToken)
      /\ Where(job', Counted) = Where(job, Counted)
  BY <1>1, <1>3, <1>4, WhereStay
<1>10. ParallelInv'
  BY <1>9 DEF FnStart, ParallelInv, Serial
<1>11. LateInv'
  <2>1. Cardinality(Where(job', Waiting)) = Cardinality(Where(job, Waiting)) - 1
    BY <1>1, <1>3, <1>4, WhereLeave
  <2> QED BY <1>1, <2>1, WhereFinite DEF FnStart, CountLate, LateInv, Pending, Serial, TypeOK
<1> QED BY <1>5, <1>6, <1>7, <1>8, <1>10, <1>11

LEMMA FnReturnStep ==
  ASSUME NEW i \in Cases
  PROVE  PoolInv /\ FnReturn(i) /\ UNCHANGED cancelled => PoolInv'
<1> SUFFICES ASSUME PoolInv, FnReturn(i), UNCHANGED cancelled PROVE PoolInv'
  OBVIOUS
<1> USE PoolAssumption, LimitPositive DEF PoolInv
<1>1. ~Serial
  BY DEF FnReturn
<1>2. job \in [Cases -> JobStates] /\ job[i] = "running" /\ job' = [job EXCEPT ![i] = "written"]
  BY DEF FnReturn, TypeOK
<1>3. Moves(job, job', i) /\ job'[i] = "written"
  BY <1>1, <1>2 DEF Moves
<1>4. /\ job[i] \in HoldingToken /\ job'[i] \in HoldingToken
      /\ job[i] \in Counted /\ job'[i] \in Counted
      /\ job[i] \notin Waiting /\ job'[i] \notin Waiting
  BY <1>1, <1>2, <1>3 DEF HoldingToken, Counted, Waiting
<1>5. TypeOK'
  BY <1>2 DEF FnReturn, TypeOK, JobStates
<1>6. DispatcherInv'
  BY DEF FnReturn, DispatcherInv
<1>7. PrefixInv'
  BY <1>2 DEF FnReturn, PrefixInv, TypeOK
<1>8. SerialInv'
  BY <1>1 DEF SerialInv, Serial
<1>9. /\ Where(job', HoldingToken) = Where(job, HoldingToken)
      /\ Where(job', Counted) = Where(job, Counted)
      /\ Where(job', Waiting) = Where(job, Waiting)
  BY <1>1, <1>3, <1>4, WhereStay
<1>10. ParallelInv'
  BY <1>9 DEF FnReturn, ParallelInv, Serial
<1>11. LateInv'
  BY <1>9 DEF FnReturn, LateInv, Pending, Serial
<1> QED BY <1>5, <1>6, <1>7, <1>8, <1>10, <1>11

LEMMA ReleaseStep ==
  ASSUME NEW i \in Cases
  PROVE  PoolInv /\ Release(i) /\ UNCHANGED cancelled => PoolInv'
<1> SUFFICES ASSUME PoolInv, Release(i), UNCHANGED cancelled PROVE PoolInv'
  OBVIOUS
<1> USE PoolAssumption, LimitPositive DEF PoolInv
<1>1. ~Serial
  BY WorkersAreParallel DEF Release
<1>2. job \in [Cases -> JobStates] /\ job[i] = "written" /\ job' = [job EXCEPT ![i] = "released"]
  BY DEF Release, TypeOK
<1>3. Moves(job, job', i) /\ job'[i] = "released"
  BY <1>1, <1>2 DEF Moves
<1>4. /\ job[i] \in HoldingToken /\ job'[i] \notin HoldingToken
      /\ job[i] \in Counted /\ job'[i] \in Counted
      /\ job[i] \notin Waiting /\ job'[i] \notin Waiting
  BY <1>1, <1>2, <1>3 DEF HoldingToken, Counted, Waiting
<1>5. Cardinality(Where(job', HoldingToken)) = Cardinality(Where(job, HoldingToken)) - 1
  BY <1>1, <1>3, <1>4, WhereLeave
<1>6. /\ Where(job', Counted) = Where(job, Counted)
      /\ Where(job', Waiting) = Where(job, Waiting)
  BY <1>1, <1>3, <1>4, WhereStay
<1>7. ParallelInv'
  BY <1>1, <1>5, <1>6, WhereFinite DEF Release, ParallelInv, Serial
<1>8. TypeOK'
  BY <1>1, <1>2, <1>5, <1>7, WhereFinite DEF Release, TypeOK, JobStates, ParallelInv, Serial
<1>9. DispatcherInv'
  BY DEF Release, DispatcherInv
<1>10. PrefixInv'
  BY <1>2 DEF Release, PrefixInv, TypeOK
<1>11. SerialInv'
  BY <1>1 DEF SerialInv, Serial
<1>12. LateInv'
  BY <1>6 DEF Release, LateInv, Pending, Serial
<1> QED BY <1>7, <1>8, <1>9, <1>10, <1>11, <1>12

LEMMA WorkerDoneStep ==
  ASSUME NEW i \in Cases
  PROVE  PoolInv /\ WorkerDone(i) /\ UNCHANGED cancelled => PoolInv'
<1> SUFFICES ASSUME PoolInv, WorkerDone(i), UNCHANGED cancelled PROVE PoolInv'
  OBVIOUS
<1> USE PoolAssumption, LimitPositive DEF PoolInv
<1>1. ~Serial
  BY WorkersAreParallel DEF WorkerDone
<1>2. job \in [Cases -> JobStates] /\ job[i] = "released" /\ job' = [job EXCEPT ![i] = "gone"]
  BY DEF WorkerDone, TypeOK
<1>3. Moves(job, job', i) /\ job'[i] = "gone"
  BY <1>1, <1>2 DEF Moves
<1>4. /\ job[i] \notin HoldingToken /\ job'[i] \notin HoldingToken
      /\ job[i] \in Counted /\ job'[i] \notin Counted
      /\ job[i] \notin Waiting /\ job'[i] \notin Waiting
  BY <1>1, <1>2, <1>3 DEF HoldingToken, Counted, Waiting
<1>5. Cardinality(Where(job', Counted)) = Cardinality(Where(job, Counted)) - 1
  BY <1>1, <1>3, <1>4, WhereLeave
<1>6. /\ Where(job', HoldingToken) = Where(job, HoldingToken)
      /\ Where(job', Waiting) = Where(job, Waiting)
  BY <1>1, <1>3, <1>4, WhereStay
<1>7. ParallelInv'
  BY <1>1, <1>5, <1>6, WhereFinite DEF WorkerDone, ParallelInv, Serial
<1>8. TypeOK'
  BY <1>1, <1>2, <1>5, <1>7, WhereFinite DEF WorkerDone, TypeOK, JobStates, ParallelInv, Serial
<1>9. DispatcherInv'
  <2>1. wg # 0
    <3>1. i \in Where(job, Counted)
      BY <1>2 DEF Where, Counted
    <3> QED BY <1>1, <3>1, WhereFinite, FS_EmptySet DEF ParallelInv
  <2> QED BY <2>1 DEF WorkerDone, DispatcherInv
<1>10. PrefixInv'
  BY <1>2 DEF WorkerDone, PrefixInv, TypeOK
<1>11. SerialInv'
  BY <1>1 DEF SerialInv, Serial
<1>12. LateInv'
  BY <1>6 DEF WorkerDone, LateInv, Pending, Serial
<1> QED BY <1>7, <1>8, <1>9, <1>10, <1>11, <1>12

LEMMA SerialCallStep == PoolInv /\ SerialCall /\ UNCHANGED cancelled => PoolInv'
<1> SUFFICES ASSUME PoolInv, SerialCall, UNCHANGED cancelled PROVE PoolInv'
  OBVIOUS
<1> USE PoolAssumption DEF PoolInv
<1>1. next \in Cases /\ job[next] = "none" /\ next < Count /\ Serial
  BY NextIsFresh DEF SerialCall, DispatcherInv
<1>2. TypeOK'
  BY <1>1 DEF SerialCall, CountLate, TypeOK, DispatcherStates, JobStates
<1>3. DispatcherInv'
  BY <1>1 DEF SerialCall, DispatcherInv, Serial
<1>4. PrefixInv' /\ SerialInv'
  BY <1>1 DEF SerialCall, PrefixInv, SerialInv, TypeOK, Serial, Cases
<1>5. ParallelInv'
  BY <1>1 DEF ParallelInv, Serial
<1>6. LateInv'
  BY <1>1 DEF SerialCall, CountLate, LateInv, Pending, Serial, TypeOK
<1> QED BY <1>2, <1>3, <1>4, <1>5, <1>6

LEMMA SerialReturnStep == PoolInv /\ SerialReturn /\ UNCHANGED cancelled => PoolInv'
<1> SUFFICES ASSUME PoolInv, SerialReturn, UNCHANGED cancelled PROVE PoolInv'
  OBVIOUS
<1> USE PoolAssumption DEF PoolInv
<1>1. next \in Cases /\ next < Count /\ Serial
  BY DEF SerialReturn, DispatcherInv, TypeOK, Cases
<1>2. TypeOK'
  BY <1>1 DEF SerialReturn, TypeOK, DispatcherStates, JobStates
<1>3. DispatcherInv'
  BY <1>1 DEF SerialReturn, DispatcherInv, Serial
<1>4. PrefixInv' /\ SerialInv'
  BY <1>1 DEF SerialReturn, PrefixInv, SerialInv, TypeOK, Serial, Cases
<1>5. ParallelInv'
  BY <1>1 DEF ParallelInv, Serial
<1>6. LateInv'
  BY <1>1 DEF SerialReturn, LateInv, Pending, Serial
<1> QED BY <1>2, <1>3, <1>4, <1>5, <1>6

LEMMA WaitReturnStep == PoolInv /\ WaitReturn /\ UNCHANGED cancelled => PoolInv'
<1> SUFFICES ASSUME PoolInv, WaitReturn, UNCHANGED cancelled PROVE PoolInv'
  OBVIOUS
<1> USE DEF PoolInv, WaitReturn
<1>1. TypeOK'
  BY DEF TypeOK, DispatcherStates
<1>2. DispatcherInv' /\ PrefixInv' /\ SerialInv'
  BY DEF DispatcherInv, PrefixInv, SerialInv, Serial
<1>3. ParallelInv'
  BY DEF ParallelInv, Serial
<1>4. LateInv'
  BY DEF LateInv, Pending, Serial
<1> QED BY <1>1, <1>2, <1>3, <1>4

LEMMA CancelStep == PoolInv /\ Cancel => PoolInv'
<1> SUFFICES ASSUME PoolInv, Cancel PROVE PoolInv'
  OBVIOUS
<1> USE DEF PoolInv, Cancel, poolVars
<1>1. TypeOK'
  BY DEF TypeOK
<1>2. DispatcherInv' /\ PrefixInv' /\ SerialInv'
  BY DEF DispatcherInv, PrefixInv, SerialInv, Serial
<1>3. ParallelInv'
  BY DEF ParallelInv, Serial
<1>4. LateInv'
  BY DEF LateInv, Pending, Serial
<1> QED BY <1>1, <1>2, <1>3, <1>4

\* Every step of the pool preserves the invariant.
LEMMA PoolNext == PoolInv /\ [Next]_vars => PoolInv'
<1> SUFFICES ASSUME PoolInv, [Next]_vars PROVE PoolInv'
  OBVIOUS
<1>1. CASE Cancel
  BY <1>1, CancelStep
<1>2. CASE Dispatcher /\ UNCHANGED cancelled
  BY <1>2, AdmitStep, StopDispatchStep, SpawnStep, SerialCallStep, SerialReturnStep,
     WaitReturnStep DEF Dispatcher
<1>3. ASSUME NEW i \in Cases, Worker(i), UNCHANGED cancelled PROVE PoolInv'
  BY <1>3, FnStartStep, FnReturnStep, ReleaseStep, WorkerDoneStep DEF Worker
<1>4. CASE UNCHANGED vars
  BY <1>4 DEF vars, poolVars, PoolInv, TypeOK, DispatcherInv, PrefixInv, SerialInv,
     ParallelInv, LateInv, Pending, Serial
<1> QED BY <1>1, <1>2, <1>3, <1>4 DEF Next, PoolStep

LEMMA PoolInvariant == Spec => []PoolInv
BY PoolInit, PoolNext, PTL DEF Spec
-----------------------------------------------------------------------------
(***************************************************************************)
(* The theorems.                                                           *)
(***************************************************************************)

\* The state of the pool is what TypeOK says: the loop variable stays within
\* the cases, and neither the token count nor the WaitGroup goes negative.
THEOREM PoolTypeCorrect == Spec => []TypeOK
<1>1. PoolInv => TypeOK
  BY DEF PoolInv
<1> QED BY <1>1, PoolInvariant, PTL

\* Never more than the limit of calls of fn execute at a time.
THEOREM PoolWithinLimit == Spec => []WithinLimit
<1>1. PoolInv => WithinLimit
  <2> SUFFICES ASSUME PoolInv PROVE WithinLimit
    OBVIOUS
  <2> USE PoolAssumption, LimitPositive DEF PoolInv
  <2>1. JobsIn({"running"}) = Where(job, {"running"})
    BY DEF JobsIn, Where
  <2>2. CASE ~Serial
    <3>1. Cardinality(Where(job, {"running"})) <= Cardinality(Where(job, HoldingToken))
      BY WhereSubset DEF HoldingToken
    <3> QED BY <2>1, <2>2, <3>1, WhereFinite DEF WithinLimit, ParallelInv
  <2>3. CASE Serial
    <3>1. Where(job, {"running"}) \subseteq {next}
      BY <2>3 DEF Where, SerialInv
    <3>2. IsFiniteSet({next}) /\ Cardinality({next}) = 1
      BY FS_Singleton
    <3>3. Cardinality(Where(job, {"running"})) <= 1
      BY <3>1, <3>2, FS_Subset
    <3> QED BY <2>1, <3>3, WhereFinite DEF WithinLimit
  <2> QED BY <2>2, <2>3
<1> QED BY <1>1, PoolInvariant, PTL

\* Semaphore and WaitGroup always agree with the goroutines there are.
THEOREM PoolAccounting == Spec => []Accounting
<1>1. PoolInv => Accounting
  BY DEF PoolInv, ParallelInv, Accounting, JobsIn, Where, HoldingToken, Counted
<1> QED BY <1>1, PoolInvariant, PTL

\* Nobody runs fn when no goroutine is counted and the caller is not in a call.
LEMMA NobodyRuns ==
  ASSUME PoolInv, wg = 0, dispatcher # "calling"
  PROVE  \A i \in Cases : job[i] = IF i < next THEN "gone" ELSE "none"
<1> SUFFICES ASSUME NEW i \in Cases PROVE job[i] = IF i < next THEN "gone" ELSE "none"
  OBVIOUS
<1> USE DEF PoolInv
<1>1. CASE Serial
  BY <1>1 DEF SerialInv
<1>2. CASE ~Serial
  <2>1. Where(job, Counted) = {}
    BY <1>2, WhereFinite, FS_EmptySet DEF ParallelInv
  <2>2. job[i] \notin Counted
    BY <2>1 DEF Where
  <2> QED BY <2>2 DEF Counted, PrefixInv, TypeOK, JobStates
<1> QED BY <1>1, <1>2

\* When the pool returns the caller owns its slice alone, and what is written
\* is a prefix of it, the whole of it unless ctx was cancelled.
THEOREM PoolQuietPrefix == Spec => []QuietPrefix
<1>1. PoolInv => QuietPrefix
  <2> SUFFICES ASSUME PoolInv, dispatcher = "returned"
               PROVE  /\ JobsIn({"spawned", "running"}) = {}
                      /\ Written = 0 .. next - 1
                      /\ next < Count => cancelled
    BY DEF QuietPrefix
  <2> USE PoolAssumption
  <2>1. \A i \in Cases : job[i] = IF i < next THEN "gone" ELSE "none"
    BY NobodyRuns DEF PoolInv, DispatcherInv
  <2>2. next \in 0 .. Count /\ (next = Count \/ cancelled)
    BY DEF PoolInv, TypeOK, DispatcherInv
  <2>3. JobsIn({"spawned", "running"}) = {}
    BY <2>1 DEF JobsIn
  <2>4. Written = 0 .. next - 1
    BY <2>1, <2>2 DEF Written, JobsIn, Cases
  <2> QED BY <2>2, <2>3, <2>4
<1> QED BY <1>1, PoolInvariant, PTL

\* At most the dispatched calls and one more enter fn after a cancellation.
THEOREM PoolLateCallsBounded == Spec => []LateCallsBounded
<1>1. PoolInv => LateCallsBounded
  BY LimitPositive, WhereFinite DEF PoolInv, TypeOK, LateInv, Pending, LateCallsBounded
<1> QED BY <1>1, PoolInvariant, PTL
-----------------------------------------------------------------------------
(***************************************************************************)
(* The pool implements the contract of its doc comment.  A spawn, or the    *)
(* caller entering a call, begins it; the write of the slot finishes it;    *)
(* the return of the pool closes the contract.  Everything else, the token  *)
(* and WaitGroup bookkeeping included, stutters.                            *)
(***************************************************************************)
Open == {"spawned", "running"}
Done == {"written", "released", "gone"}

\* The instance brings a copy of Cardinality, which is the same operator.
LEMMA SameCardinality == \A S : Contract!Cardinality(S) = Cardinality(S)
BY Zenon DEF Contract!Cardinality, Cardinality

LEMMA ContractInit == Init => Contract!Init
<1> SUFFICES ASSUME Init PROVE Contract!Init
  OBVIOUS
<1>1. JobsIn({"spawned", "running"}) = {} /\ Written = {}
  BY DEF Init, JobsIn, Written
<1> QED BY <1>1 DEF Init, Contract!Init

\* The begun calls are those below the loop variable, and the one that the
\* caller is in.
LEMMA BegunPrefix ==
  ASSUME PoolInv, dispatcher # "calling"
  PROVE  Contract!Begun = 0 .. next - 1
<1>1. next \in 0 .. Count /\ \A i \in Cases : job[i] # "none" <=> i < next
  BY DEF PoolInv, TypeOK, PrefixInv
<1>2. Contract!Begun = {i \in Cases : job[i] # "none"}
  BY DEF Contract!Begun, Written, JobsIn, PoolInv, TypeOK, JobStates
<1> QED BY <1>1, <1>2, PoolAssumption DEF Cases

\* A call begins: job next goes from none to open.
LEMMA BeginMaps ==
  ASSUME PoolInv, dispatcher \in {"acquire", "call"}, next \in Cases, job[next] = "none",
         Cardinality(Where(job, Open)) < EffectiveLimit,
         NEW s \in Open, job' = [job EXCEPT ![next] = s],
         dispatcher' \in {"loop", "calling"}, UNCHANGED cancelled
  PROVE  Contract!Begin(next)
<1>1. Contract!Begun = 0 .. next - 1
  BY BegunPrefix
<1>2. JobsIn(Open)' = JobsIn(Open) \cup {next}
  BY DEF PoolInv, TypeOK, JobsIn, Open
<1>3. Written' = Written
  BY DEF PoolInv, TypeOK, JobsIn, Open, Written
<1>4. Cardinality(JobsIn(Open)) < EffectiveLimit
  BY DEF JobsIn, Where
<1> QED BY <1>1, <1>2, <1>3, <1>4, SameCardinality DEF Contract!Begin, Open, Cases

LEMMA SpawnMaps == PoolInv /\ Spawn /\ UNCHANGED cancelled => Contract!Begin(next)
<1> SUFFICES ASSUME PoolInv, Spawn, UNCHANGED cancelled PROVE Contract!Begin(next)
  OBVIOUS
<1>1. next \in Cases /\ job[next] = "none" /\ ~Serial
  BY NextIsFresh DEF Spawn, PoolInv, DispatcherInv
<1>2. Cardinality(Where(job, Open)) < EffectiveLimit
  <2>1. Open \subseteq HoldingToken
    BY DEF Open, HoldingToken
  <2>2. Cardinality(Where(job, Open)) <= sem
    BY <1>1, <2>1, WhereSubset DEF PoolInv, ParallelInv
  <2> QED BY <2>2, LimitPositive, WhereFinite DEF Spawn, PoolInv, TypeOK
<1> QED BY <1>1, <1>2, BeginMaps DEF Spawn, Open

LEMMA SerialCallMaps == PoolInv /\ SerialCall /\ UNCHANGED cancelled => Contract!Begin(next)
<1> SUFFICES ASSUME PoolInv, SerialCall, UNCHANGED cancelled PROVE Contract!Begin(next)
  OBVIOUS
<1>1. next \in Cases /\ job[next] = "none" /\ Serial
  BY NextIsFresh DEF SerialCall, PoolInv, DispatcherInv
<1>2. Cardinality(Where(job, Open)) < EffectiveLimit
  <2>1. Where(job, Open) = {}
    BY <1>1 DEF SerialCall, PoolInv, SerialInv, Where, Open
  <2> QED BY <2>1, LimitPositive, FS_EmptySet
<1> QED BY <1>1, <1>2, BeginMaps DEF SerialCall, Open

\* A call finishes: job i goes from open to done.
LEMMA FinishMaps ==
  ASSUME PoolInv, NEW i \in Cases, job[i] \in Open,
         NEW s \in Done, job' = [job EXCEPT ![i] = s],
         dispatcher \in {"acquire", "call"} <=> dispatcher' \in {"acquire", "call"},
         dispatcher = "returned" <=> dispatcher' = "returned", UNCHANGED cancelled
  PROVE  Contract!Finish(i)
<1>1. JobsIn(Open)' = JobsIn(Open) \ {i} /\ i \in JobsIn(Open)
  BY DEF PoolInv, TypeOK, JobsIn, Open, Done
<1>2. Written' = Written \cup {i}
  BY DEF PoolInv, TypeOK, JobsIn, Open, Done, Written
<1> QED BY <1>1, <1>2 DEF Contract!Finish, Open

\* A step that leaves the open and the done calls as they are, and the
\* dispatcher as far as the contract sees it, stutters.
LEMMA Stutters ==
  ASSUME JobsIn(Open)' = JobsIn(Open), Written' = Written, UNCHANGED cancelled,
         ~cancelled \/ dispatcher \in {"acquire", "call"}
           <=> ~cancelled \/ dispatcher' \in {"acquire", "call"},
         dispatcher = "returned" <=> dispatcher' = "returned"
  PROVE  UNCHANGED Contract!vars
BY DEF Contract!vars, Open

LEMMA CloseMaps ==
  ASSUME PoolInv, dispatcher \in {"loop", "wait"}, wg = 0, next = Count \/ cancelled,
         dispatcher' = "returned", UNCHANGED <<job, cancelled>>
  PROVE  Contract!Close
<1>1. \A i \in Cases : job[i] = IF i < next THEN "gone" ELSE "none"
  BY NobodyRuns
<1>2. JobsIn({"spawned", "running"}) = {}
  BY <1>1 DEF JobsIn
<1>3. Written = 0 .. Count - 1 \/ cancelled
  BY <1>1, PoolAssumption DEF Written, JobsIn, Cases
<1>4. JobsIn({"spawned", "running"})' = JobsIn({"spawned", "running"}) /\ Written' = Written
  BY DEF JobsIn, Written
<1> QED BY <1>2, <1>3, <1>4 DEF Contract!Close

LEMMA ContractStep == PoolInv /\ [Next]_vars => [Contract!Next]_Contract!vars
<1> SUFFICES ASSUME PoolInv, [Next]_vars PROVE [Contract!Next]_Contract!vars
  OBVIOUS
<1>1. CASE Cancel
  <2>1. Contract!Stop
    BY <1>1 DEF Cancel, poolVars, Contract!Stop, JobsIn, Written
  <2> QED BY <2>1 DEF Contract!Next
<1>2. ASSUME Admit, UNCHANGED cancelled PROVE UNCHANGED Contract!vars
  BY <1>2, Stutters DEF Admit, JobsIn, Written
<1>3. ASSUME StopDispatch, UNCHANGED cancelled PROVE [Contract!Next]_Contract!vars
  <2>1. CASE Serial
    <3>1. Contract!Close
      BY <1>3, <2>1, CloseMaps DEF StopDispatch, PoolInv, SerialInv
    <3> QED BY <3>1 DEF Contract!Next
  <2>2. CASE ~Serial
    <3>1. UNCHANGED Contract!vars
      BY <1>3, <2>2, Stutters DEF StopDispatch, JobsIn, Written
    <3> QED BY <3>1
  <2> QED BY <2>1, <2>2
<1>4. ASSUME Spawn \/ SerialCall, UNCHANGED cancelled PROVE Contract!Next
  <2>1. next \in Cases
    BY <1>4, NextIsFresh DEF Spawn, SerialCall
  <2> QED BY <1>4, <2>1, SpawnMaps, SerialCallMaps DEF Contract!Next, Cases
<1>5. ASSUME SerialReturn, UNCHANGED cancelled PROVE Contract!Next
  <2>1. next \in Cases /\ job[next] \in Open
    BY <1>5, PoolAssumption DEF SerialReturn, PoolInv, TypeOK, DispatcherInv, SerialInv, Cases, Open
  <2>2. Contract!Finish(next)
    BY <1>5, <2>1, FinishMaps DEF SerialReturn, Done
  <2> QED BY <2>1, <2>2 DEF Contract!Next, Cases
<1>6. ASSUME WaitReturn, UNCHANGED cancelled PROVE Contract!Next
  <2>1. Contract!Close
    BY <1>6, CloseMaps DEF WaitReturn, PoolInv, DispatcherInv
  <2> QED BY <2>1 DEF Contract!Next
<1>7. ASSUME NEW i \in Cases, FnReturn(i), UNCHANGED cancelled PROVE Contract!Next
  <2>1. Contract!Finish(i)
    BY <1>7, FinishMaps DEF FnReturn, Open, Done
  <2> QED BY <2>1 DEF Contract!Next, Cases
<1>8. ASSUME NEW i \in Cases, FnStart(i) \/ Release(i) \/ WorkerDone(i), UNCHANGED cancelled
      PROVE  UNCHANGED Contract!vars
  <2>1. JobsIn(Open)' = JobsIn(Open) /\ Written' = Written
    BY <1>8 DEF FnStart, Release, WorkerDone, PoolInv, TypeOK, JobsIn, Written, Open
  <2> QED BY <1>8, <2>1, Stutters DEF FnStart, Release, WorkerDone
<1>9. CASE UNCHANGED vars
  BY <1>9 DEF vars, poolVars, Contract!vars, JobsIn, Written
<1> QED BY <1>1, <1>2, <1>3, <1>4, <1>5, <1>6, <1>7, <1>8, <1>9
        DEF Next, PoolStep, Dispatcher, Worker

\* The worker pool implements the contract: in order, no more than the limit,
\* stopping early at most one call late, and quiet when the caller goes on.
THEOREM PoolImplementsContract == Spec => ContractHolds
BY ContractInit, ContractStep, PoolInvariant, PTL DEF Spec, ContractHolds, Contract!Spec

-----------------------------------------------------------------------------
(***************************************************************************)
(* The inductive invariant.                                                 *)
(***************************************************************************)
MaybeResponses == Responses \cup {None}

RunTypeOK ==
  /\ phase \in {"gate", "pool", "loop", "loopcall", "reported"}
  /\ executed \in Seq(Run!SuiteResults)
  /\ cancelled \in BOOLEAN
  /\ fn \in [Cases -> FnStates]
  /\ got \in [Cases -> MaybeResponses]
  /\ cache \in [Cases -> MaybeResponses]
  /\ calls \in [Cases -> 0 .. 1]
  /\ judged \in [Cases -> SUBSET Responses]

\* The pool is at work, or it holds no token and counts no goroutine, and no
\* case has anything left over.
PoolPhaseInv ==
  IF phase = "pool"
    THEN PoolInv /\ Run!Pooled(Kind)
    ELSE /\ sem = 0 /\ wg = 0
         /\ \A c \in Cases : fn[c] = "idle" /\ got[c] = None

\* A case is in its body exactly when its call of fn is running, and has its
\* response from the end of the body on.
CaseInv ==
  phase = "pool" =>
    \A c \in Cases :
      /\ fn[c] # "idle" <=> job[c] = "running"
      /\ job[c] \in {"none", "spawned"} => got[c] = None
      /\ job[c] \in {"written", "released", "gone"} => got[c] # None
      /\ fn[c] \in {"store", "done"} => got[c] # None

\* The two critical sections of the cache: between them the cache is empty,
\* after them it holds what the case got.
CacheInv ==
  \A c \in Cases :
    /\ fn[c] \in {"lookup", "store"} => Kind = "cached"
    /\ fn[c] \in {"invoke", "calling", "store"} /\ Kind = "cached" => cache[c] = None
    /\ fn[c] = "done" /\ Kind = "cached" => cache[c] = got[c]
    /\ cache[c] = None /\ calls[c] # 0 => Kind = "cached" /\ fn[c] \in {"calling", "store"}
    /\ judged[c] \subseteq {cache[c]}

\* The scenarios a looped suite has done.
LoopInv ==
  /\ phase \in {"loop", "loopcall"} => ~Run!Pooled(Kind)
  /\ ran \in 0 .. Count /\ failed \in 0 .. ran
  /\ phase = "loopcall" => ran < Count
  /\ phase \notin {"loop", "loopcall"} => ran = 0 /\ failed = 0

\* Only a cancellation leaves anything out.
CompleteInv ==
  /\ ~cancelled => \A s \in DOMAIN executed : executed[s].ran = Count
  /\ phase = "reported" => Len(executed) = Len(Suites) \/ cancelled

RunInv ==
  RunTypeOK /\ PoolPhaseInv /\ CaseInv /\ CacheInv /\ LoopInv /\ CompleteInv

-----------------------------------------------------------------------------
\* The invariant says what the properties ask for.
LEMMA RunInvImplies ==
  ASSUME RunInv
  PROVE  OneAnswerPerScenario
<1>1. OncePerScenario
  BY DEF RunInv, RunTypeOK, OncePerScenario
<1>2. SuitesAgree
  <2> SUFFICES ASSUME NEW c \in Cases PROVE Cardinality(judged[c]) <= 1
    BY DEF SuitesAgree
  <2>1. judged[c] = {} \/ judged[c] = {cache[c]}
    BY DEF RunInv, CacheInv
  <2>2. Cardinality({}) = 0 /\ Cardinality({cache[c]}) = 1
    BY FS_EmptySet, FS_Singleton
  <2> QED BY <2>1, <2>2
<1>3. UninterruptedIsComplete
  BY DEF RunInv, CompleteInv, UninterruptedIsComplete
<1> QED BY <1>1, <1>2, <1>3 DEF OneAnswerPerScenario

LEMMA RunInvInit ==
  ASSUME SuiteInit
  PROVE  RunInv
<1> USE PoolAssumption, ResponsesAssumption DEF SuiteInit
<1>1. RunTypeOK
  <2>1. executed \in Seq(Run!SuiteResults)
    OBVIOUS
  <2>2. fn \in [Cases -> FnStates]
    BY DEF FnStates
  <2>3. got \in [Cases -> MaybeResponses] /\ cache \in [Cases -> MaybeResponses]
    BY DEF MaybeResponses
  <2>4. calls \in [Cases -> 0 .. 1]
    OBVIOUS
  <2>5. judged \in [Cases -> SUBSET Responses]
    OBVIOUS
  <2> QED BY <2>1, <2>2, <2>3, <2>4, <2>5 DEF RunTypeOK
<1>2. PoolPhaseInv
  BY DEF PoolPhaseInv
<1>3. CaseInv /\ CacheInv
  BY DEF CaseInv, CacheInv
<1>4. LoopInv /\ CompleteInv
  BY DEF LoopInv, CompleteInv
<1> QED BY <1>1, <1>2, <1>3, <1>4 DEF RunInv

-----------------------------------------------------------------------------
(***************************************************************************)
(* The runner.                                                              *)
(***************************************************************************)
\* A pooled suite finds the pool as its own Init says.
LEMMA StartSuiteKeeps ==
  ASSUME RunInv, StartSuite
  PROVE  RunInv'
<1>0. phase = "gate" /\ phase' \in {"pool", "loop"} /\ cancelled = FALSE /\ cancelled' = FALSE
  BY DEF StartSuite, RunInv, RunTypeOK
<1>1. RunTypeOK'
  BY <1>0 DEF StartSuite, RunInv, RunTypeOK
<1>2. PoolPhaseInv'
  <2>1. sem = 0 /\ wg = 0 /\ \A c \in Cases : fn[c] = "idle" /\ got[c] = None
    BY <1>0 DEF RunInv, PoolPhaseInv
  <2>2. CASE Run!Pooled(Kind)
    <3>1. Init'
      BY <1>0, <2>1, <2>2 DEF StartSuite, Init
    <3>2. (Init => PoolInv)'
      BY PoolInit, PTL
    <3>3. Run!Pooled(Kind)' /\ phase' = "pool"
      BY <2>2 DEF StartSuite, Kind
    <3> QED BY <3>1, <3>2, <3>3 DEF PoolPhaseInv
  <2>3. CASE ~Run!Pooled(Kind)
    BY <2>1, <2>3 DEF StartSuite, PoolPhaseInv, poolVars
  <2> QED BY <2>2, <2>3
<1>3. CaseInv'
  <2>1. \A c \in Cases : fn[c] = "idle" /\ got[c] = None
    BY <1>0 DEF RunInv, PoolPhaseInv
  <2>2. CASE Run!Pooled(Kind)
    <3>1. \A c \in Cases : job'[c] = "none"
      BY <2>2 DEF StartSuite
    <3> QED BY <2>1, <3>1 DEF StartSuite, CaseInv
  <2>3. CASE ~Run!Pooled(Kind)
    BY <2>3 DEF StartSuite, CaseInv
  <2> QED BY <2>2, <2>3
<1>4. CacheInv'
  BY DEF StartSuite, RunInv, CacheInv, Kind
<1>5. LoopInv'
  <2>1. ran = 0 /\ failed = 0
    BY <1>0 DEF RunInv, LoopInv
  <2>2. phase' = "loop" => ~Run!Pooled(Kind)
    BY DEF StartSuite
  <2> QED BY <1>0, <2>1, <2>2, PoolAssumption DEF StartSuite, LoopInv, Kind
<1>6. CompleteInv'
  BY <1>0 DEF StartSuite, RunInv, CompleteInv
<1> QED BY <1>1, <1>2, <1>3, <1>4, <1>5, <1>6 DEF RunInv

LEMMA FinishRunKeeps ==
  ASSUME RunInv, FinishRun
  PROVE  RunInv'
<1> USE DEF FinishRun, vars, poolVars
<1>1. RunTypeOK'
  BY DEF RunInv, RunTypeOK
<1>2. PoolPhaseInv'
  BY DEF RunInv, PoolPhaseInv
<1>3. CaseInv' /\ CacheInv'
  BY DEF RunInv, CaseInv, CacheInv, Kind
<1>4. LoopInv' /\ CompleteInv'
  BY DEF RunInv, LoopInv, CompleteInv
<1> QED BY <1>1, <1>2, <1>3, <1>4 DEF RunInv

-----------------------------------------------------------------------------
(***************************************************************************)
(* The pool and the cases in it.                                            *)
(***************************************************************************)
\* A case that is in its body is in a running call of the pool.
LEMMA InBody ==
  ASSUME RunInv, NEW c \in Cases, fn[c] # "idle"
  PROVE  /\ phase = "pool" /\ job[c] = "running"
         /\ PoolInv /\ Run!Pooled(Kind)
BY DEF RunInv, PoolPhaseInv, CaseInv

\* The pool's steps are the pool's.
LEMMA PoolGoesOn ==
  ASSUME RunInv, phase = "pool", UNCHANGED <<phase, executed>>, [Next]_vars
  PROVE  PoolPhaseInv'
<1>1. PoolInv /\ Run!Pooled(Kind)
  BY DEF RunInv, PoolPhaseInv
<1>2. PoolInv'
  BY <1>1, PoolNext
<1> QED BY <1>1, <1>2 DEF PoolPhaseInv, Kind

\* No step of a case touches what the loops and the report are about.
LEMMA LoopsRest ==
  ASSUME RunInv, UNCHANGED <<phase, executed, ran, failed>>,
         cancelled' = cancelled \/ cancelled' = TRUE
  PROVE  LoopInv' /\ CompleteInv'
<1>1. LoopInv'
  BY DEF RunInv, LoopInv, Kind
<1>2. CompleteInv'
  BY DEF RunInv, CompleteInv
<1> QED BY <1>1, <1>2

LEMMA CancelRunKeeps ==
  ASSUME RunInv, CancelRun
  PROVE  RunInv'
<1> USE DEF CancelRun, Cancel, suiteVars, poolVars
<1>1. RunTypeOK'
  BY DEF RunInv, RunTypeOK
<1>2. PoolPhaseInv'
  <2>1. CASE phase = "pool"
    BY <2>1, PoolGoesOn DEF Next
  <2>2. CASE phase # "pool"
    BY <2>2 DEF RunInv, PoolPhaseInv
  <2> QED BY <2>1, <2>2
<1>3. CaseInv' /\ CacheInv'
  BY DEF RunInv, CaseInv, CacheInv, Kind
<1>4. LoopInv' /\ CompleteInv'
  BY LoopsRest
<1> QED BY <1>1, <1>2, <1>3, <1>4 DEF RunInv

\* The pool's bookkeeping spawns cases that have nothing and buries cases that
\* have their response.
LEMMA PoolInternalKeeps ==
  ASSUME RunInv, PoolInternal
  PROVE  RunInv'
<1>1. /\ UNCHANGED <<suiteVars, cancelled>> /\ phase = "pool"
      /\ Admit \/ StopDispatch \/ Spawn \/ WaitReturn \/ \E c \in Cases : Release(c) \/ WorkerDone(c)
  BY DEF PoolInternal
<1>2. RunTypeOK'
  BY <1>1 DEF suiteVars, RunInv, RunTypeOK
<1>3. PoolPhaseInv'
  <2>1. Next
    BY <1>1 DEF Next, PoolStep, Dispatcher, Worker
  <2> QED BY <1>1, <2>1, PoolGoesOn DEF suiteVars
<1>4. CaseInv'
  <2>1. \/ job' = job
        \/ next \in Cases /\ job[next] = "none" /\ job' = [job EXCEPT ![next] = "spawned"]
        \/ \E c \in Cases : /\ job[c] \in {"written", "released"}
                            /\ \E j \in {"released", "gone"} : job' = [job EXCEPT ![c] = j]
    <3>1. CASE Admit \/ StopDispatch \/ WaitReturn
      BY <3>1 DEF Admit, StopDispatch, WaitReturn
    <3>2. CASE Spawn
      BY <1>1, <3>2, NextIsFresh DEF Spawn, RunInv, PoolPhaseInv
    <3>3. ASSUME NEW c \in Cases, Release(c) \/ WorkerDone(c)
          PROVE  /\ job[c] \in {"written", "released"}
                 /\ \E j \in {"released", "gone"} : job' = [job EXCEPT ![c] = j]
      BY <3>3 DEF Release, WorkerDone
    <3> QED BY <1>1, <3>1, <3>2, <3>3
  <2>2. job \in [Cases -> JobStates]
    BY <1>1 DEF RunInv, PoolPhaseInv, PoolInv, TypeOK
  <2> SUFFICES ASSUME NEW c \in Cases
               PROVE  /\ fn[c] # "idle" <=> job'[c] = "running"
                      /\ job'[c] \in {"none", "spawned"} => got[c] = None
                      /\ job'[c] \in {"written", "released", "gone"} => got[c] # None
                      /\ fn[c] \in {"store", "done"} => got[c] # None
    BY <1>1 DEF suiteVars, CaseInv
  <2>3. /\ fn[c] # "idle" <=> job[c] = "running"
        /\ job[c] \in {"none", "spawned"} => got[c] = None
        /\ job[c] \in {"written", "released", "gone"} => got[c] # None
        /\ fn[c] \in {"store", "done"} => got[c] # None
    BY <1>1 DEF RunInv, CaseInv
  <2> QED BY <2>1, <2>2, <2>3
<1>5. CacheInv'
  BY <1>1 DEF suiteVars, RunInv, CacheInv, Kind
<1>6. LoopInv' /\ CompleteInv'
  BY <1>1, LoopsRest DEF suiteVars
<1> QED BY <1>2, <1>3, <1>4, <1>5, <1>6 DEF RunInv

\* The call of a case begins, on a goroutine of its own or on the runner's.
LEMMA EnterCaseKeeps ==
  ASSUME RunInv, NEW c \in Cases, EnterCase(c)
  PROVE  RunInv'
<1>1. /\ phase = "pool"
      /\ FnStart(c) \/ (SerialCall /\ c = next)
      /\ fn' = [fn EXCEPT ![c] = IF Kind = "cached" THEN "lookup" ELSE "invoke"]
      /\ UNCHANGED <<phase, executed, got, cache, ran, failed, calls, judged, cancelled>>
  BY DEF EnterCase
<1>2. PoolInv /\ job \in [Cases -> JobStates] /\ fn \in [Cases -> FnStates]
  BY <1>1 DEF RunInv, RunTypeOK, PoolPhaseInv, PoolInv, TypeOK
<1>3. job[c] \in {"none", "spawned"} /\ job' = [job EXCEPT ![c] = "running"]
  <2>1. CASE FnStart(c)
    BY <2>1 DEF FnStart
  <2>2. CASE SerialCall /\ c = next
    BY <1>2, <2>2, NextIsFresh DEF SerialCall
  <2> QED BY <1>1, <2>1, <2>2
<1>4. fn[c] = "idle" /\ got[c] = None
  BY <1>1, <1>3 DEF RunInv, CaseInv
<1>5. RunTypeOK'
  BY <1>1 DEF RunInv, RunTypeOK, FnStates
<1>6. PoolPhaseInv'
  <2>1. Next
    BY <1>1 DEF Next, PoolStep, Dispatcher, Worker
  <2> QED BY <1>1, <2>1, PoolGoesOn
<1>7. CaseInv'
  BY <1>1, <1>2, <1>3, <1>4 DEF RunInv, CaseInv
<1>8. CacheInv'
  <2>1. Kind' = Kind
    BY <1>1 DEF Kind
  <2> SUFFICES ASSUME NEW k \in Cases
               PROVE  /\ fn'[k] \in {"lookup", "store"} => Kind = "cached"
                      /\ fn'[k] \in {"invoke", "calling", "store"} /\ Kind = "cached" => cache[k] = None
                      /\ fn'[k] = "done" /\ Kind = "cached" => cache[k] = got[k]
                      /\ cache[k] = None /\ calls[k] # 0 => Kind = "cached" /\ fn'[k] \in {"calling", "store"}
                      /\ judged[k] \subseteq {cache[k]}
    BY <1>1, <2>1 DEF CacheInv
  <2>2. /\ fn[k] \in {"lookup", "store"} => Kind = "cached"
        /\ fn[k] \in {"invoke", "calling", "store"} /\ Kind = "cached" => cache[k] = None
        /\ fn[k] = "done" /\ Kind = "cached" => cache[k] = got[k]
        /\ cache[k] = None /\ calls[k] # 0 => Kind = "cached" /\ fn[k] \in {"calling", "store"}
        /\ judged[k] \subseteq {cache[k]}
    BY DEF RunInv, CacheInv
  <2>3. CASE k = c
    <3>1. fn'[k] = IF Kind = "cached" THEN "lookup" ELSE "invoke"
      BY <1>1, <1>2, <2>3
    <3> QED BY <1>4, <2>2, <2>3, <3>1
  <2>4. CASE k # c
    BY <1>1, <1>2, <2>2, <2>4
  <2> QED BY <2>3, <2>4
<1>9. LoopInv' /\ CompleteInv'
  BY <1>1, LoopsRest
<1> QED BY <1>5, <1>6, <1>7, <1>8, <1>9 DEF RunInv

\* A step of one case's body disturbs no other case, and of the pool nothing.
LEMMA BodyStepKeeps ==
  ASSUME RunInv, NEW c \in Cases, fn[c] # "idle",
         NEW f \in FnStates \ {"idle"}, NEW g \in MaybeResponses, NEW s \in MaybeResponses,
         NEW n \in 0 .. 1,
         fn' = [fn EXCEPT ![c] = f], got' = [got EXCEPT ![c] = g],
         cache' = [cache EXCEPT ![c] = s], calls' = [calls EXCEPT ![c] = n],
         UNCHANGED <<vars, phase, executed, ran, failed, judged>>,
         f \in {"store", "done"} => g # None,
         f \in {"lookup", "store"} => Kind = "cached",
         f \in {"invoke", "calling", "store"} /\ Kind = "cached" => s = None,
         f = "done" /\ Kind = "cached" => s = g,
         s = None /\ n # 0 => Kind = "cached" /\ f \in {"calling", "store"},
         judged[c] \subseteq {s}
  PROVE  RunInv'
<1>1. /\ phase = "pool" /\ job[c] = "running"
      /\ PoolInv /\ Run!Pooled(Kind)
  BY InBody
<1>2. /\ fn \in [Cases -> FnStates] /\ got \in [Cases -> MaybeResponses]
      /\ cache \in [Cases -> MaybeResponses] /\ calls \in [Cases -> 0 .. 1]
  BY DEF RunInv, RunTypeOK
<1>3. UNCHANGED <<job, cancelled, sem, wg>> /\ Kind' = Kind
  BY DEF vars, poolVars, Kind
<1>4. RunTypeOK'
  BY <1>2, <1>3 DEF RunInv, RunTypeOK
<1>5. PoolPhaseInv'
  BY <1>1, PoolGoesOn
<1>6. CaseInv'
  <2> SUFFICES ASSUME NEW k \in Cases
               PROVE  /\ fn'[k] # "idle" <=> job[k] = "running"
                      /\ job[k] \in {"none", "spawned"} => got'[k] = None
                      /\ job[k] \in {"written", "released", "gone"} => got'[k] # None
                      /\ fn'[k] \in {"store", "done"} => got'[k] # None
    BY <1>3 DEF CaseInv
  <2>1. CASE k = c
    BY <1>1, <1>2, <2>1
  <2>2. CASE k # c
    BY <1>1, <1>2, <2>2 DEF RunInv, CaseInv
  <2> QED BY <2>1, <2>2
<1>7. CacheInv'
  <2> SUFFICES ASSUME NEW k \in Cases
               PROVE  /\ fn'[k] \in {"lookup", "store"} => Kind = "cached"
                      /\ fn'[k] \in {"invoke", "calling", "store"} /\ Kind = "cached" => cache'[k] = None
                      /\ fn'[k] = "done" /\ Kind = "cached" => cache'[k] = got'[k]
                      /\ cache'[k] = None /\ calls'[k] # 0 =>
                           Kind = "cached" /\ fn'[k] \in {"calling", "store"}
                      /\ judged[k] \subseteq {cache'[k]}
    BY <1>3 DEF CacheInv
  <2>1. CASE k = c
    BY <1>2, <2>1
  <2>2. CASE k # c
    BY <1>2, <2>2 DEF RunInv, CacheInv
  <2> QED BY <2>1, <2>2
<1>8. LoopInv' /\ CompleteInv'
  BY <1>3, LoopsRest
<1> QED BY <1>4, <1>5, <1>6, <1>7, <1>8 DEF RunInv

\* What the invariant says of one case.
LEMMA CaseFacts ==
  ASSUME RunInv, NEW c \in Cases
  PROVE  /\ fn[c] \in FnStates /\ got[c] \in MaybeResponses /\ cache[c] \in MaybeResponses
         /\ calls[c] \in 0 .. 1
         /\ got = [got EXCEPT ![c] = got[c]] /\ cache = [cache EXCEPT ![c] = cache[c]]
         /\ calls = [calls EXCEPT ![c] = calls[c]]
         /\ fn[c] \in {"store", "done"} => got[c] # None
         /\ fn[c] \in {"lookup", "store"} => Kind = "cached"
         /\ fn[c] \in {"invoke", "calling", "store"} /\ Kind = "cached" => cache[c] = None
         /\ fn[c] = "done" /\ Kind = "cached" => cache[c] = got[c]
         /\ cache[c] = None /\ calls[c] # 0 => Kind = "cached" /\ fn[c] \in {"calling", "store"}
         /\ judged[c] \subseteq {cache[c]}
<1>1. /\ fn \in [Cases -> FnStates] /\ got \in [Cases -> MaybeResponses]
      /\ cache \in [Cases -> MaybeResponses] /\ calls \in [Cases -> 0 .. 1]
  BY DEF RunInv, RunTypeOK
<1>2. fn[c] \in {"store", "done"} => got[c] # None
  BY InBody DEF RunInv, CaseInv
<1>3. /\ fn[c] \in {"lookup", "store"} => Kind = "cached"
      /\ fn[c] \in {"invoke", "calling", "store"} /\ Kind = "cached" => cache[c] = None
      /\ fn[c] = "done" /\ Kind = "cached" => cache[c] = got[c]
      /\ cache[c] = None /\ calls[c] # 0 => Kind = "cached" /\ fn[c] \in {"calling", "store"}
      /\ judged[c] \subseteq {cache[c]}
  BY DEF RunInv, CacheInv
<1> QED BY <1>1, <1>2, <1>3

\* A judged answer is an answer, so an empty cache was not judged.
LEMMA EmptyIsNotJudged ==
  ASSUME RunInv, NEW c \in Cases, cache[c] = None
  PROVE  judged[c] = {}
<1>1. judged[c] \subseteq {None} /\ judged[c] \in SUBSET Responses
  BY DEF RunInv, CacheInv, RunTypeOK
<1> QED BY <1>1, ResponsesAssumption

LEMMA LookupKeeps ==
  ASSUME RunInv, NEW c \in Cases, Lookup(c)
  PROVE  RunInv'
<1>1. fn[c] = "lookup" /\ Kind = "cached"
  BY CaseFacts DEF Lookup
<1>2. CASE cache[c] # None
  <2>1. /\ fn' = [fn EXCEPT ![c] = "done"] /\ got' = [got EXCEPT ![c] = cache[c]]
        /\ cache' = [cache EXCEPT ![c] = cache[c]] /\ calls' = [calls EXCEPT ![c] = calls[c]]
        /\ UNCHANGED <<vars, phase, executed, ran, failed, judged>>
    BY <1>2, CaseFacts DEF Lookup
  <2> QED BY <1>1, <1>2, <2>1, CaseFacts, BodyStepKeeps DEF FnStates
<1>3. CASE cache[c] = None
  <2>1. /\ fn' = [fn EXCEPT ![c] = "invoke"] /\ got' = [got EXCEPT ![c] = got[c]]
        /\ cache' = [cache EXCEPT ![c] = cache[c]] /\ calls' = [calls EXCEPT ![c] = calls[c]]
        /\ UNCHANGED <<vars, phase, executed, ran, failed, judged>>
    BY <1>3, CaseFacts DEF Lookup
  <2> QED BY <1>1, <1>3, <2>1, CaseFacts, BodyStepKeeps DEF FnStates
<1> QED BY <1>2, <1>3

\* Only a case that found the cache empty calls, and nobody else stores for it.
LEMMA InvokeBeginKeeps ==
  ASSUME RunInv, NEW c \in Cases, InvokeBegin(c)
  PROVE  RunInv'
<1>1. fn[c] = "invoke"
  BY DEF InvokeBegin
<1>2. Failure \in MaybeResponses /\ Failure # None
  BY ResponsesAssumption DEF MaybeResponses
<1>3. CASE cancelled
  <2> DEFINE f == IF Kind = "cached" THEN "store" ELSE "done"
  <2>1. /\ fn' = [fn EXCEPT ![c] = f] /\ got' = [got EXCEPT ![c] = Failure]
        /\ cache' = [cache EXCEPT ![c] = cache[c]] /\ calls' = [calls EXCEPT ![c] = calls[c]]
        /\ UNCHANGED <<vars, phase, executed, ran, failed, judged>>
    BY <1>3, CaseFacts DEF InvokeBegin
  <2>2. f \in FnStates \ {"idle"} /\ (f = "store" <=> Kind = "cached") /\ (f = "done" <=> Kind # "cached")
    BY DEF FnStates
  <2> HIDE DEF f
  <2> QED BY <1>1, <1>2, <2>1, <2>2, CaseFacts, BodyStepKeeps
<1>4. CASE ~cancelled
  <2> DEFINE n == IF Kind = "cached" THEN 1 ELSE calls[c]
  <2>1. Kind = "cached" => calls[c] = 0
    BY <1>1, CaseFacts
  <2>2. /\ fn' = [fn EXCEPT ![c] = "calling"] /\ got' = [got EXCEPT ![c] = got[c]]
        /\ cache' = [cache EXCEPT ![c] = cache[c]] /\ calls' = [calls EXCEPT ![c] = n]
        /\ UNCHANGED <<vars, phase, executed, ran, failed, judged>>
    BY <1>4, <2>1, CaseFacts DEF InvokeBegin
  <2>3. n \in 0 .. 1 /\ (Kind # "cached" => n = calls[c])
    BY CaseFacts
  <2> HIDE DEF n
  <2> QED BY <1>1, <2>2, <2>3, CaseFacts, BodyStepKeeps DEF FnStates
<1> QED BY <1>3, <1>4

LEMMA InvokeEndKeeps ==
  ASSUME RunInv, NEW c \in Cases, InvokeEnd(c)
  PROVE  RunInv'
<1>1. PICK r \in Responses : got' = [got EXCEPT ![c] = r]
  BY DEF InvokeEnd
<1>2. r \in MaybeResponses /\ r # None /\ fn[c] = "calling"
  BY ResponsesAssumption DEF MaybeResponses, InvokeEnd
<1> DEFINE f == IF Kind = "cached" THEN "store" ELSE "done"
<1>3. /\ fn' = [fn EXCEPT ![c] = f]
      /\ cache' = [cache EXCEPT ![c] = cache[c]] /\ calls' = [calls EXCEPT ![c] = calls[c]]
      /\ UNCHANGED <<vars, phase, executed, ran, failed, judged>>
  BY CaseFacts DEF InvokeEnd
<1>4. f \in FnStates \ {"idle"} /\ (f = "store" <=> Kind = "cached") /\ (f = "done" <=> Kind # "cached")
  BY DEF FnStates
<1> HIDE DEF f
<1> QED BY <1>1, <1>2, <1>3, <1>4, CaseFacts, BodyStepKeeps

LEMMA StoreKeeps ==
  ASSUME RunInv, NEW c \in Cases, Store(c)
  PROVE  RunInv'
<1>1. fn[c] = "store" /\ Kind = "cached" /\ cache[c] = None /\ got[c] # None
  BY CaseFacts DEF Store
<1>2. /\ fn' = [fn EXCEPT ![c] = "done"] /\ got' = [got EXCEPT ![c] = got[c]]
      /\ cache' = [cache EXCEPT ![c] = got[c]] /\ calls' = [calls EXCEPT ![c] = calls[c]]
      /\ UNCHANGED <<vars, phase, executed, ran, failed, judged>>
  BY CaseFacts DEF Store
<1>3. judged[c] = {}
  BY <1>1, EmptyIsNotJudged
<1> QED BY <1>1, <1>2, <1>3, CaseFacts, BodyStepKeeps DEF FnStates

\* The call ends: the case keeps its response, and judges the cached one.
LEMMA LeaveCaseKeeps ==
  ASSUME RunInv, NEW c \in Cases, LeaveCase(c)
  PROVE  RunInv'
<1>1. /\ phase = "pool" /\ fn[c] = "done"
      /\ FnReturn(c) \/ (SerialReturn /\ c = next)
      /\ fn' = [fn EXCEPT ![c] = "idle"]
      /\ judged' = IF Kind = "cached" THEN [judged EXCEPT ![c] = @ \cup {got[c]}] ELSE judged
      /\ UNCHANGED <<phase, executed, got, cache, ran, failed, calls, cancelled>>
  BY DEF LeaveCase
<1>2. /\ PoolInv /\ Run!Pooled(Kind) /\ job[c] = "running"
      /\ job \in [Cases -> JobStates] /\ fn \in [Cases -> FnStates]
      /\ judged \in [Cases -> SUBSET Responses]
  BY <1>1, InBody DEF RunInv, RunTypeOK, PoolInv, TypeOK
<1>3. \E j \in {"written", "gone"} : job' = [job EXCEPT ![c] = j]
  BY <1>1 DEF FnReturn, SerialReturn
<1>4. /\ got[c] \in Responses /\ got[c] # None
      /\ Kind = "cached" => cache[c] = got[c]
  BY <1>1, CaseFacts DEF MaybeResponses
<1>5. judged' \in [Cases -> SUBSET Responses]
  BY <1>1, <1>2, <1>4
<1>6. RunTypeOK'
  BY <1>1, <1>5 DEF RunInv, RunTypeOK, FnStates
<1>7. PoolPhaseInv'
  <2>1. Next
    BY <1>1 DEF Next, PoolStep, Dispatcher, Worker
  <2> QED BY <1>1, <2>1, PoolGoesOn
<1>8. CaseInv'
  <2> SUFFICES ASSUME NEW k \in Cases
               PROVE  /\ fn'[k] # "idle" <=> job'[k] = "running"
                      /\ job'[k] \in {"none", "spawned"} => got[k] = None
                      /\ job'[k] \in {"written", "released", "gone"} => got[k] # None
                      /\ fn'[k] \in {"store", "done"} => got[k] # None
    BY <1>1 DEF CaseInv
  <2>1. CASE k = c
    BY <1>1, <1>2, <1>3, <1>4, <2>1
  <2>2. CASE k # c
    <3>1. fn'[k] = fn[k] /\ job'[k] = job[k]
      BY <1>1, <1>2, <1>3, <2>2
    <3> QED BY <1>1, <3>1 DEF RunInv, CaseInv
  <2> QED BY <2>1, <2>2
<1>9. CacheInv'
  <2> SUFFICES ASSUME NEW k \in Cases
               PROVE  /\ fn'[k] \in {"lookup", "store"} => Kind = "cached"
                      /\ fn'[k] \in {"invoke", "calling", "store"} /\ Kind = "cached" => cache[k] = None
                      /\ fn'[k] = "done" /\ Kind = "cached" => cache[k] = got[k]
                      /\ cache[k] = None /\ calls[k] # 0 =>
                           Kind = "cached" /\ fn'[k] \in {"calling", "store"}
                      /\ judged'[k] \subseteq {cache[k]}
    BY <1>1 DEF CacheInv, Kind
  <2>1. CASE k = c
    <3>1. fn'[k] = "idle"
      BY <1>1, <1>2, <2>1
    <3>2. judged'[k] \subseteq {cache[k]}
      BY <1>1, <1>2, <1>4, <2>1, CaseFacts
    <3>3. ~(cache[k] = None /\ calls[k] # 0)
      BY <1>1, <2>1, CaseFacts
    <3> QED BY <3>1, <3>2, <3>3
  <2>2. CASE k # c
    <3>1. fn'[k] = fn[k] /\ judged'[k] = judged[k]
      BY <1>1, <1>2, <2>2
    <3> QED BY <3>1, CaseFacts
  <2> QED BY <2>1, <2>2
<1>10. LoopInv' /\ CompleteInv'
  BY <1>1, LoopsRest
<1> QED BY <1>6, <1>7, <1>8, <1>9, <1>10 DEF RunInv

-----------------------------------------------------------------------------
(***************************************************************************)
(* The end of a suite.                                                      *)
(***************************************************************************)
Filled == {c \in Cases : got[c] # None}
Bad == {c \in Cases : got[c] # Good}

\* When the pool is back nobody is in a body, nothing is counted, and the slots
\* are filled, all of them unless the run was cancelled; a blank slot is bad.
LEMMA PoolIsBack ==
  ASSUME RunInv, phase = "pool", dispatcher = "returned"
  PROVE  /\ sem = 0 /\ wg = 0 /\ \A c \in Cases : fn[c] = "idle"
         /\ Cardinality(Filled) \in 0 .. Count /\ Cardinality(Bad) \in 0 .. Count
         /\ Cardinality(Filled) < Count => cancelled
         /\ Cardinality(Bad) >= Count - Cardinality(Filled)
<1>1. PoolInv
  BY DEF RunInv, PoolPhaseInv
<1>2. wg = 0 /\ next \in 0 .. Count /\ (next = Count \/ cancelled)
  BY <1>1 DEF PoolInv, TypeOK, DispatcherInv
<1>3. \A c \in Cases : job[c] = IF c < next THEN "gone" ELSE "none"
  BY <1>1, <1>2, NobodyRuns
<1>4. sem = 0
  <2>1. CASE Serial
    BY <1>1, <2>1 DEF PoolInv, SerialInv
  <2>2. CASE ~Serial
    <3>1. Where(job, HoldingToken) = {}
      BY <1>3 DEF Where, HoldingToken
    <3> QED BY <1>1, <2>2, <3>1, FS_EmptySet DEF PoolInv, ParallelInv
  <2> QED BY <2>1, <2>2
<1>5. \A c \in Cases : fn[c] = "idle"
  BY <1>3 DEF RunInv, CaseInv
<1>6. Filled = 0 .. next - 1
  <2>1. \A c \in Cases : got[c] # None <=> c < next
    BY <1>3 DEF RunInv, CaseInv
  <2> QED BY <1>2, <2>1, PoolAssumption DEF Filled, Cases
<1>7. Cardinality(Filled) = next
  <2>1. 0 \in Int /\ next - 1 \in Int
    BY <1>2
  <2>2. Cardinality(0 .. next - 1) = IF 0 > next - 1 THEN 0 ELSE (next - 1) - 0 + 1
    BY <2>1, FS_Interval
  <2> QED BY <1>2, <1>6, <2>2
<1>8. IsFiniteSet(Cases) /\ Cardinality(Cases) = Count
  <2>1. 0 \in Int /\ Count - 1 \in Int
    BY PoolAssumption
  <2>2. IsFiniteSet(0 .. Count - 1) /\ Cardinality(0 .. Count - 1) = IF 0 > Count - 1 THEN 0 ELSE (Count - 1) - 0 + 1
    BY <2>1, FS_Interval
  <2> QED BY <2>2, PoolAssumption DEF Cases
<1>9. /\ IsFiniteSet(Bad) /\ Cardinality(Bad) \in Nat /\ Cardinality(Bad) <= Count
  <2>1. Bad \subseteq Cases
    BY DEF Bad
  <2> QED BY <1>8, <2>1, FS_Subset, FS_CardinalityType
<1>10. Cardinality(Bad) >= Count - next
  <2>1. Cases \ Filled \subseteq Bad
    BY ResponsesAssumption DEF Filled, Bad
  <2>2. Filled \subseteq Cases
    BY DEF Filled
  <2>3. Cardinality(Cases \ Filled) = Count - next
    <3>1. Cases \cap Filled = Filled
      BY <2>2
    <3> QED BY <1>7, <1>8, <3>1, FS_Difference
  <2>4. Cardinality(Cases \ Filled) <= Cardinality(Bad)
    BY <1>9, <2>1, FS_Subset
  <2> QED BY <1>2, <1>9, <2>3, <2>4, PoolAssumption
<1> QED BY <1>2, <1>4, <1>5, <1>7, <1>9, <1>10, PoolAssumption

\* What a suite returns is a suite result.
LEMMA ResultType ==
  ASSUME NEW kind, NEW r \in 0 .. Count, NEW b \in 0 .. Count
  PROVE  /\ Run!SuiteResult(kind, r, b) \in Run!SuiteResults
         /\ Run!SuiteResult(kind, r, b).ran = r
<1> DEFINE cases == IF Run!Pooled(kind) THEN Count ELSE r
<1>1. Run!SuitePassed(kind, cases, b) \in BOOLEAN
  <2>1. cases \in Nat /\ b \in Nat /\ MaxErrorRate \in Int
    BY PoolAssumption, SuitesAssumption
  <2> HIDE DEF cases
  <2>2. Run!PercentOf(b, cases) \in Int
    <3>1. cases # 0 => 2 * cases \in Int /\ 2 * cases > 0
      BY <2>1
    <3>2. 200 * b + cases \in Int
      BY <2>1
    <3>3. \A x, y \in Int : y > 0 => x \div y \in Int
      OBVIOUS
    <3> QED BY <3>1, <3>2, <3>3 DEF Run!PercentOf
  <2>3. (Run!PercentOf(b, cases) <= MaxErrorRate) \in BOOLEAN /\ (b = 0) \in BOOLEAN
    BY <2>1, <2>2
  <2> QED BY <2>3, Zenon DEF Run!SuitePassed
<1> QED BY <1>1, PoolAssumption DEF Run!SuiteResult, Run!SuiteResults

\* A suite that ends between suites, leaving nothing behind, keeps everything.
LEMMA EndSuiteKeeps ==
  ASSUME RunInv, NEW r \in 0 .. Count, NEW b \in 0 .. Count, r < Count => cancelled,
         phase # "reported", executed' = Append(executed, Run!SuiteResult(Kind, r, b)),
         phase' = "gate", ran' = 0, failed' = 0, got' = [c \in Cases |-> None],
         \A c \in Cases : fn[c] = "idle", sem = 0, wg = 0,
         UNCHANGED <<vars, fn, cache, calls, judged>>
  PROVE  RunInv'
<1> DEFINE result == Run!SuiteResult(Kind, r, b)
<1>1. result \in Run!SuiteResults /\ result.ran = r
  BY ResultType
<1>2. executed \in Seq(Run!SuiteResults) /\ executed' = Append(executed, result)
  BY DEF RunInv, RunTypeOK
<1> HIDE DEF result
<1>3. executed' \in Seq(Run!SuiteResults)
  BY <1>1, <1>2
<1>4. RunTypeOK'
  <2>1. got' \in [Cases -> MaybeResponses]
    BY DEF MaybeResponses
  <2> QED BY <1>3, <2>1 DEF RunInv, RunTypeOK, vars
<1>5. PoolPhaseInv' /\ CaseInv'
  BY DEF PoolPhaseInv, CaseInv, vars, poolVars
<1>6. CacheInv'
  <2> SUFFICES ASSUME NEW c \in Cases
               PROVE  /\ ~(cache[c] = None /\ calls[c] # 0)
                      /\ judged[c] \subseteq {cache[c]}
    BY DEF CacheInv
  <2> QED BY CaseFacts
<1>7. LoopInv'
  BY PoolAssumption DEF LoopInv
<1>8. CompleteInv'
  <2> SUFFICES ASSUME ~cancelled', NEW s \in DOMAIN executed' PROVE executed'[s].ran = Count
    BY DEF CompleteInv
  <2>1. r = Count /\ \A k \in DOMAIN executed : executed[k].ran = Count
    BY PoolAssumption DEF RunInv, CompleteInv, vars
  <2>2. CASE s \in DOMAIN executed
    BY <1>2, <2>1, <2>2
  <2>3. CASE s \notin DOMAIN executed
    <3>1. s = Len(executed) + 1
      BY <1>1, <1>2, <2>3
    <3> QED BY <1>1, <1>2, <2>1, <3>1
  <2> QED BY <2>2, <2>3
<1> QED BY <1>4, <1>5, <1>6, <1>7, <1>8 DEF RunInv

LEMMA EndPoolSuiteKeeps ==
  ASSUME RunInv, EndPoolSuite
  PROVE  RunInv'
<1>1. /\ phase = "pool" /\ dispatcher = "returned"
      /\ executed' = Append(executed, Run!SuiteResult(Kind, Cardinality(Filled), Cardinality(Bad)))
      /\ got' = [c \in Cases |-> None] /\ phase' = "gate"
      /\ UNCHANGED <<vars, fn, cache, ran, failed, calls, judged>>
  BY DEF EndPoolSuite, Filled, Bad
<1>2. ran' = 0 /\ failed' = 0
  BY <1>1 DEF RunInv, LoopInv
<1> QED BY <1>1, <1>2, PoolIsBack, EndSuiteKeeps

LEMMA LoopCallKeeps ==
  ASSUME RunInv, LoopCall
  PROVE  RunInv'
<1> USE DEF LoopCall, vars, poolVars
<1>1. RunTypeOK'
  BY DEF RunInv, RunTypeOK
<1>2. PoolPhaseInv' /\ CaseInv'
  BY DEF RunInv, PoolPhaseInv, CaseInv
<1>3. CacheInv'
  BY DEF RunInv, CacheInv, Kind
<1>4. LoopInv' /\ CompleteInv'
  BY DEF RunInv, LoopInv, CompleteInv, Kind
<1> QED BY <1>1, <1>2, <1>3, <1>4 DEF RunInv

LEMMA LoopAppendKeeps ==
  ASSUME RunInv, LoopAppend
  PROVE  RunInv'
<1>1. /\ phase = "loopcall" /\ phase' = "loop" /\ ran' = ran + 1
      /\ failed' = failed \/ failed' = failed + 1
      /\ UNCHANGED <<vars, executed, fn, got, cache, calls, judged>>
  BY DEF LoopAppend
<1> USE DEF vars, poolVars
<1>2. RunTypeOK'
  BY <1>1 DEF RunInv, RunTypeOK
<1>3. PoolPhaseInv' /\ CaseInv'
  BY <1>1 DEF RunInv, PoolPhaseInv, CaseInv
<1>4. CacheInv'
  BY <1>1 DEF RunInv, CacheInv, Kind
<1>5. LoopInv' /\ CompleteInv'
  BY <1>1, PoolAssumption DEF RunInv, LoopInv, CompleteInv, Kind
<1> QED BY <1>2, <1>3, <1>4, <1>5 DEF RunInv

LEMMA EndLoopSuiteKeeps ==
  ASSUME RunInv, EndLoopSuite
  PROVE  RunInv'
<1>1. /\ phase = "loop" /\ ran \in 0 .. Count /\ failed \in 0 .. Count
      /\ ran < Count => cancelled
  BY PoolAssumption DEF EndLoopSuite, RunInv, LoopInv
<1>2. sem = 0 /\ wg = 0 /\ \A c \in Cases : fn[c] = "idle" /\ got[c] = None
  BY <1>1 DEF RunInv, PoolPhaseInv
<1>3. got' = [c \in Cases |-> None]
  BY <1>2 DEF EndLoopSuite, RunInv, RunTypeOK
<1> QED BY <1>1, <1>2, <1>3, EndSuiteKeeps DEF EndLoopSuite

-----------------------------------------------------------------------------
LEMMA RunInvNext ==
  ASSUME RunInv, [SuiteNext]_runVars
  PROVE  RunInv'
<1>1. ASSUME NEW c \in Cases, CaseStep(c) PROVE RunInv'
  BY <1>1, EnterCaseKeeps, LookupKeeps, InvokeBeginKeeps, InvokeEndKeeps, StoreKeeps,
     LeaveCaseKeeps DEF CaseStep
<1>2. CASE UNCHANGED runVars
  <2> USE <1>2 DEF runVars, vars, poolVars, suiteVars
  <2>1. RunTypeOK' /\ CaseInv' /\ CacheInv' /\ LoopInv' /\ CompleteInv'
    BY DEF RunInv, RunTypeOK, CaseInv, CacheInv, LoopInv, CompleteInv, Kind
  <2>2. PoolPhaseInv'
    <3>1. CASE phase = "pool"
      BY <3>1, PoolGoesOn
    <3>2. CASE phase # "pool"
      BY <3>2 DEF RunInv, PoolPhaseInv
    <3> QED BY <3>1, <3>2
  <2> QED BY <2>1, <2>2 DEF RunInv
<1> QED BY <1>1, <1>2, StartSuiteKeeps, FinishRunKeeps, PoolInternalKeeps, EndPoolSuiteKeeps,
           LoopCallKeeps, LoopAppendKeeps, EndLoopSuiteKeeps, CancelRunKeeps
        DEF SuiteNext, RunStep

\* The invariant of the run, for any suites, scenarios, workers and responses.
THEOREM RunInvariant == SuiteSpec => []RunInv
<1>1. SuiteInit => RunInv
  BY RunInvInit
<1>2. RunInv /\ [SuiteNext]_runVars => RunInv'
  BY RunInvNext
<1> QED BY <1>1, <1>2, PTL DEF SuiteSpec

\* However the workers interleave and whenever the run is cancelled: at most one
\* live call per scenario for all cached suites, which judge one answer, and no
\* gaps in a report that was not cut short.
THEOREM RunHasOneAnswer == SuiteSpec => []OneAnswerPerScenario
<1>1. RunInv => OneAnswerPerScenario
  BY RunInvImplies
<1> QED BY <1>1, RunInvariant, PTL

-----------------------------------------------------------------------------
(***************************************************************************)
(* The run implements Runner: launching an engine is Runner's StartSuite,   *)
(* the return of a pool or of a loop its EndSuite with one of the Outcomes, *)
(* and everything a suite does in between stutters.                         *)
(***************************************************************************)
\* What a suite may return is an outcome of its kind.
LEMMA IsOutcome ==
  ASSUME NEW kind, NEW r \in 0 .. Count, NEW b \in 0 .. Count, NEW cut,
         r < Count => cut,
         IF Run!Pooled(kind) THEN b >= Count - r ELSE b <= r
  PROVE  Run!SuiteResult(kind, r, b) \in Run!Outcomes(kind, cut)
<1> DEFINE p == <<r, b>>
<1>1. p \in (0 .. Count) \X (0 .. Count) /\ p[1] = r /\ p[2] = b
  OBVIOUS
<1> HIDE DEF p
<1>2. p \in {q \in (0 .. Count) \X (0 .. Count) :
               /\ q[1] < Count => cut
               /\ IF Run!Pooled(kind) THEN q[2] >= Count - q[1] ELSE q[2] <= q[1]}
  BY <1>1
<1>3. Run!SuiteResult(kind, p[1], p[2]) \in Run!Outcomes(kind, cut)
  BY <1>2 DEF Run!Outcomes
<1> QED BY <1>1, <1>3

LEMMA EndPoolSuiteMaps == RunInv /\ EndPoolSuite => Run!EndSuite
<1> SUFFICES ASSUME RunInv, EndPoolSuite PROVE Run!EndSuite
  OBVIOUS
<1> DEFINE result == Run!SuiteResult(Kind, Cardinality(Filled), Cardinality(Bad))
<1>1. /\ phase = "pool" /\ dispatcher = "returned" /\ phase' = "gate"
      /\ executed' = Append(executed, result) /\ cancelled' = cancelled
  BY DEF EndPoolSuite, Filled, Bad, vars
<1>2. Run!Pooled(Kind)
  BY <1>1 DEF RunInv, PoolPhaseInv
<1>3. result \in Run!Outcomes(Kind, cancelled)
  BY <1>1, <1>2, PoolIsBack, IsOutcome
<1> HIDE DEF result
<1> QED BY <1>1, <1>3 DEF Run!EndSuite, Kind

LEMMA EndLoopSuiteMaps == RunInv /\ EndLoopSuite => Run!EndSuite
<1> SUFFICES ASSUME RunInv, EndLoopSuite PROVE Run!EndSuite
  OBVIOUS
<1> DEFINE result == Run!SuiteResult(Kind, ran, failed)
<1>1. /\ phase = "loop" /\ phase' = "gate"
      /\ executed' = Append(executed, result) /\ cancelled' = cancelled
      /\ ran = Count \/ cancelled
  BY DEF EndLoopSuite, vars
<1>2. ~Run!Pooled(Kind) /\ ran \in 0 .. Count /\ failed \in 0 .. ran
  BY <1>1 DEF RunInv, LoopInv
<1>3. failed \in 0 .. Count /\ failed <= ran /\ (ran < Count => cancelled)
  BY <1>1, <1>2, PoolAssumption
<1>4. result \in Run!Outcomes(Kind, cancelled)
  BY <1>2, <1>3, IsOutcome
<1> HIDE DEF result
<1> QED BY <1>1, <1>4 DEF Run!EndSuite, Kind

LEMMA RunnerInit == SuiteInit => Run!Init
BY DEF SuiteInit, Run!Init

LEMMA RunnerStep ==
  RunInv /\ [SuiteNext]_runVars => [Run!Next]_<<Run!runnerVars, cancelled>>
<1> SUFFICES ASSUME RunInv, [SuiteNext]_runVars
             PROVE  Run!Next \/ UNCHANGED <<Run!runnerVars, cancelled>>
  OBVIOUS
<1>1. CASE StartSuite
  <2>1. Run!StartSuite
    BY <1>1 DEF StartSuite, Run!StartSuite
  <2> QED BY <2>1 DEF Run!Next
<1>2. CASE FinishRun
  <2>1. Run!FinishRun
    BY <1>2 DEF FinishRun, vars, Run!FinishRun
  <2> QED BY <2>1 DEF Run!Next
<1>3. CASE CancelRun
  <2>1. Run!Cancel
    BY <1>3 DEF CancelRun, Cancel, suiteVars, Run!Cancel, Run!runnerVars
  <2> QED BY <2>1 DEF Run!Next
<1>4. CASE EndPoolSuite \/ EndLoopSuite
  BY <1>4, EndPoolSuiteMaps, EndLoopSuiteMaps DEF Run!Next
<1>5. ASSUME NEW c \in Cases, CaseStep(c) PROVE UNCHANGED <<phase, executed, cancelled>>
  BY <1>5 DEF CaseStep, EnterCase, Lookup, InvokeBegin, InvokeEnd, Store, LeaveCase, vars
<1>6. CASE PoolInternal \/ UNCHANGED runVars
  BY <1>6 DEF PoolInternal, suiteVars, runVars, vars, Run!runnerVars
<1>7. CASE LoopCall \/ LoopAppend
  BY <1>7 DEF LoopCall, LoopAppend, vars, Run!runnerVars
<1> QED BY <1>1, <1>2, <1>3, <1>4, <1>5, <1>6, <1>7 DEF SuiteNext, RunStep, Run!runnerVars

\* Pool, cache and loops together do nothing that Runner does not allow.
THEOREM RunImplementsRunner == SuiteSpec => ImplementsRunner
<1>1. SuiteInit => Run!Init
  BY RunnerInit
<1>2. RunInv /\ [SuiteNext]_runVars => [Run!Next]_<<Run!runnerVars, cancelled>>
  BY RunnerStep
<1> QED BY <1>1, <1>2, RunInvariant, PTL DEF SuiteSpec, ImplementsRunner, Run!Spec

=============================================================================
