---------------------------- MODULE BoundedCalls ----------------------------
(***************************************************************************)
(* What the doc comment of runBoundedByIndex promises its callers, and      *)
(* nothing of how the worker pool does it: fn(i) is called for the indices  *)
(* of [0, Count) in order, at most Width calls are open at a time, the      *)
(* caller gets control back only when no call is open, and "iteration stops *)
(* early if ctx is cancelled".  The one liberty the abstract contract needs *)
(* is spelled out: a cancellation may find one more call already decided.   *)
(***************************************************************************)
EXTENDS Integers, FiniteSets

CONSTANTS Count,    \* number of cases
          Width     \* bound on the calls open at one time

VARIABLES open,      \* indices whose call has begun and not finished
          finished,  \* indices whose call has finished
          stopped,   \* the context has been cancelled
          grace,     \* a stopped iteration may still begin one call
          closed     \* the caller has control again

vars == <<open, finished, stopped, grace, closed>>

Begun == open \cup finished

Init ==
  /\ open = {}
  /\ finished = {}
  /\ stopped \in BOOLEAN
  /\ grace = ~stopped
  /\ closed = FALSE

\* The next index in order begins.
Begin(i) ==
  /\ ~closed
  /\ i \in 0 .. Count - 1
  /\ Begun = 0 .. i - 1
  /\ Cardinality(open) < Width
  /\ stopped => grace
  /\ open' = open \cup {i}
  /\ grace' = ~stopped
  /\ UNCHANGED <<finished, stopped, closed>>

Finish(i) ==
  /\ i \in open
  /\ open' = open \ {i}
  /\ finished' = finished \cup {i}
  /\ UNCHANGED <<stopped, grace, closed>>

Stop ==
  /\ ~stopped
  /\ stopped' = TRUE
  /\ grace' \in BOOLEAN
  /\ UNCHANGED <<open, finished, closed>>

Close ==
  /\ ~closed
  /\ open = {}
  /\ finished = 0 .. Count - 1 \/ stopped
  /\ closed' = TRUE
  /\ UNCHANGED <<open, finished, stopped, grace>>

Next ==
  \/ \E i \in 0 .. Count - 1 : Begin(i) \/ Finish(i)
  \/ Stop
  \/ Close

Spec == Init /\ [][Next]_vars
=============================================================================
