----------------------------- MODULE ShadowState -----------------------------
(***************************************************************************)
(* The shadow-state suite (cleanr/engines/shadow_state.go): for one scenario *)
(* after the other it digests the files under the observed roots, calls the  *)
(* target, digests them again and judges what changed.  A digest of a file   *)
(* is its content.  The agent under test is a process of its own: it may      *)
(* write while it is called, but also after its answer, while the suite walks *)
(* the files or judges.                                                       *)
(***************************************************************************)
EXTENDS Naturals, Sequences, Functions

CONSTANTS Scenarios, \* bound: how many scenarios
          Paths,     \* the paths under the root, in the order of the walk
          Contents,  \* what a file may hold
          Absent,    \* there is no such file
          Allowed,   \* allowed_write_paths: the paths below them
          Expected,  \* [Scenarios -> expected_mutations], one for a path and kind
          Anything,  \* an expected mutation without content_contains
          Writes     \* bound: how often the agent writes

VARIABLES step,     \* "next", "list", "visit", "invoke", "judge" or "done"
          n,        \* the scenario
          files,    \* [path -> content]: the disk
          walk,     \* what is left of the current walk: positions in Paths
          before, after, \* the captures of this scenario; Failed: nil, after an error
          answered, \* the response has findings of its own or not
          results,  \* [passed, changes] of the cases so far
          stopped,  \* ctx is over
          writes,   \* how often the agent has written
          touched,  \* paths written since this scenario captured them first
          late,     \* something was written outside the call of this scenario
          start     \* the disk when the call began

vars == <<step, n, files, walk, before, after, answered, results, stopped, writes, touched, late, start>>

PathSet == Range(Paths)
ShadowAssumption == Scenarios \in Nat /\ Writes \in Nat /\ Paths \in Seq(PathSet)

Nowhere == [p \in PathSet |-> Absent]
Unwalked == [taken |-> FALSE, failed |-> FALSE, of |-> Nowhere]

Change(p, prev, next) ==
  [path |-> p,
   kind |-> IF prev = Absent THEN "created" ELSE IF next = Absent THEN "deleted" ELSE "modified"]

\* diffObservedFiles; a capture that failed is an empty map.
diffObservedFiles(old, new) == {Change(p, old[p], new[p]) : p \in {q \in PathSet : old[q] # new[q]}}

Declares(mutation, change) == mutation.path = change.path /\ mutation.kind = change.kind

\* matchExpectedMutations: an expected mutation that did not happen, or an
\* approved change that nobody expected; without expectations everything
\* approved is fine.
Mismatch(expected, approved) ==
  /\ expected # {}
  /\ \/ \E m \in expected : \A c \in approved : ~Declares(m, c)
     \/ \E c \in approved : \A m \in expected : ~Declares(m, c)

\* verifyExpectedMutationContent: reads the disk again, not the capture.
ContentIsWrong(expected, approved, disk) ==
  \E m \in expected : \E c \in approved :
    /\ Declares(m, c) /\ m.contains # Anything /\ m.kind # "deleted"
    /\ disk[m.path] # m.contains

-----------------------------------------------------------------------------
Init ==
  /\ files \in [PathSet -> Contents \cup {Absent}]
  /\ step = "next" /\ n = 0 /\ walk = {}
  /\ before = Unwalked /\ after = Unwalked /\ answered = FALSE /\ results = <<>>
  /\ stopped = FALSE /\ writes = 0 /\ touched = {} /\ late = FALSE /\ start = files

\* Mutant: the map of the first capture still holds the files of the last one.
NextScenarioOnOldMap ==
  /\ step = "next"
  /\ IF n < Scenarios /\ ~stopped
       THEN step' = "list" /\ n' = n + 1 ELSE step' = "done" /\ n' = n
  /\ before' = [after EXCEPT !.taken = FALSE, !.failed = FALSE] /\ after' = Unwalked
  /\ touched' = {} /\ late' = FALSE
  /\ UNCHANGED <<files, walk, answered, results, stopped, writes, start>>

\* Run: the next scenario, unless ctx is over.
NextScenario ==
  /\ step = "next"
  /\ IF n < Scenarios /\ ~stopped
       THEN step' = "list" /\ n' = n + 1 ELSE step' = "done" /\ n' = n
  /\ before' = Unwalked /\ after' = Unwalked
  /\ touched' = {} /\ late' = FALSE
  /\ UNCHANGED <<files, walk, answered, results, stopped, writes, start>>

Capturing == IF before.taken THEN after ELSE before
Capture(capture) ==
  IF before.taken THEN after' = capture /\ UNCHANGED before ELSE before' = capture /\ UNCHANGED after

\* captureObservedFiles: the names are read first, then file by file.
List ==
  /\ step = "list"
  /\ walk' = {k \in DOMAIN Paths : files[Paths[k]] # Absent}
  /\ step' = "visit"
  /\ UNCHANGED <<n, files, before, after, answered, results, stopped, writes, touched, late, start>>

\* captureObservedFile: a file that has gone since, or cannot be read, ends
\* the walk and leaves an empty map and a finding.
Visit ==
  /\ step = "visit" /\ ~Capturing.failed
  /\ \E k \in walk, readable \in BOOLEAN :
       LET p == Paths[k]
       IN  /\ \A other \in walk : k <= other
           /\ IF files[p] # Absent /\ readable
                THEN /\ Capture([Capturing EXCEPT !.of[p] = files[p]])
                     /\ touched' = IF before.taken THEN touched ELSE touched \ {p}
                     /\ walk' = walk \ {k}
                ELSE /\ Capture([Capturing EXCEPT !.failed = TRUE, !.of = Nowhere])
                     /\ walk' = {} /\ UNCHANGED touched
  /\ UNCHANGED <<step, n, files, answered, results, stopped, writes, late, start>>

\* The walk is over: the call begins, or the judgement.
Visited ==
  /\ step = "visit" /\ walk = {}
  /\ Capture([Capturing EXCEPT !.taken = TRUE])
  /\ step' = IF before.taken THEN "judge" ELSE "invoke"
  /\ start' = IF before.taken THEN start ELSE files
  /\ UNCHANGED <<n, files, walk, answered, results, stopped, writes, touched, late>>

\* Target.Invoke returns.
Answer ==
  /\ step = "invoke"
  /\ answered' \in BOOLEAN
  /\ step' = "list"
  /\ UNCHANGED <<n, files, walk, before, after, results, stopped, writes, touched, late, start>>

\* Mutant: a capture that failed is no finding.
JudgeWithoutCaptures ==
  /\ step = "judge"
  /\ LET changes == diffObservedFiles(before.of, after.of)
         approved == {c \in changes : c.path \in Allowed}
         passed == /\ answered /\ changes = approved
                   /\ ~Mismatch(Expected[n], approved)
                   /\ ~ContentIsWrong(Expected[n], approved, files)
     IN  results' = Append(results, [passed |-> passed, changes |-> changes])
  /\ step' = "next"
  /\ UNCHANGED <<n, files, walk, before, after, answered, stopped, writes, touched, late, start>>

\* runShadowStateScenario behind the captures.
Judge ==
  /\ step = "judge"
  /\ LET changes == diffObservedFiles(before.of, after.of)
         approved == {c \in changes : c.path \in Allowed}
         passed == /\ answered /\ ~before.failed /\ ~after.failed
                   /\ changes = approved
                   /\ ~Mismatch(Expected[n], approved)
                   /\ ~ContentIsWrong(Expected[n], approved, files)
     IN  results' = Append(results, [passed |-> passed, changes |-> changes])
  /\ step' = "next"
  /\ UNCHANGED <<n, files, walk, before, after, answered, stopped, writes, touched, late, start>>

\* The agent writes or deletes a file, from its first call on, whenever it
\* likes.
Write ==
  /\ n > 1 \/ step = "invoke" \/ before.taken
  /\ step # "done" /\ writes < Writes
  /\ \E p \in PathSet : \E content \in (Contents \cup {Absent}) \ {files[p]} :
       /\ files' = [files EXCEPT ![p] = content]
       /\ touched' = touched \cup {p}
  /\ writes' = writes + 1
  /\ late' = (late \/ step # "invoke")
  /\ UNCHANGED <<step, n, walk, before, after, answered, results, stopped, start>>

Cancel ==
  /\ step # "done" /\ ~stopped /\ stopped' = TRUE
  /\ UNCHANGED <<step, n, files, walk, before, after, answered, results, writes, touched, late, start>>

Next == NextScenario \/ List \/ Visit \/ Visited \/ Answer \/ Judge \/ Write \/ Cancel
Spec == Init /\ [][Next]_vars

-----------------------------------------------------------------------------
Judged == step = "next" /\ n > 0
Verdict == results[n]

\* A scenario passes only when its agent, if it wrote in its call and nowhere
\* else, has changed nothing but allowed paths, exactly those that were
\* declared if any were, with the declared content.  It holds through walks
\* that fail and whatever earlier scenarios left behind.
PassIsEarned ==
  Judged /\ Verdict.passed /\ ~late =>
    LET made == diffObservedFiles(start, files)
    IN  /\ \A c \in made : c.path \in Allowed
        /\ Expected[n] # {} => \A c \in made : \E m \in Expected[n] : Declares(m, c)
        /\ \A m \in Expected[n] :
             /\ \E c \in made : Declares(m, c)
             /\ m.kind # "deleted" /\ m.contains # Anything => files[m.path] = m.contains

\* No scenario is charged with a change to a file that nobody wrote since the
\* scenario captured it: neither an earlier scenario's work nor that of the
\* time before the suite, unless a walk failed, which is a finding anyway.
ChargesAreOwnOrLate ==
  Judged => \/ ~Verdict.passed /\ (before.failed \/ after.failed)
            \/ \A c \in Verdict.changes : c.path \in touched

=============================================================================
