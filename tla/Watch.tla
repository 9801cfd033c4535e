-------------------------------- MODULE Watch --------------------------------
(***************************************************************************)
(* `cleanr watch` (internal/cli/cli_watch.go): run, take a snapshot of the   *)
(* watched files, poll until a file differs from it, run again.  A snapshot  *)
(* is a walk: the names are listed first, then each file is asked for its    *)
(* size and time, while an editor goes on changing files.  A file is the     *)
(* stamp of its last change, 0 when it is not there; a stamp stands for size  *)
(* and modification time.                                                    *)
(***************************************************************************)
EXTENDS Naturals

CONSTANTS Sources,    \* the watched files a run reads
          Output,     \* a file the run writes in a watched directory
          Ignored,    \* the paths of buildWatchIgnorePaths
          MaxRuns,    \* -max-runs, 0: no limit
          MaxEdits    \* bound: changes the editor makes

Files == Sources \cup {Output}
Watched == Files \ Ignored

ASSUME WatchAssumption ==
  /\ Output \notin Sources
  /\ Ignored \subseteq {Output}
  /\ MaxRuns \in Nat /\ MaxEdits \in Nat

VARIABLES pc,        \* where watchCmd is
          content,   \* [Files -> stamp]
          stamp,     \* the latest stamp
          edits,     \* changes the editor has made
          runs,      \* runCount
          lastExit,  \* lastExitCode
          exit,      \* the exit code of watch
          tested,    \* [Sources -> stamp that the last run read]
          todo,      \* the listed files the walk has not come to
          walk,      \* the snapshot under construction
          snapshot,  \* the snapshot taken after the last run
          changed    \* files the editor changed since the last run began
                     \* and before the first walk came to them

vars == <<pc, content, stamp, edits, runs, lastExit, exit, tested, todo, walk, snapshot, changed>>

Empty == [f \in Files |-> 0]

Init ==
  /\ pc = "start"
  /\ content = [f \in Files |-> IF f \in Sources THEN 1 ELSE 0]
  /\ stamp = 1
  /\ edits = 0
  /\ runs = 0
  /\ lastExit = 0
  /\ exit = 0
  /\ tested = [f \in Sources |-> 0]
  /\ todo = {}
  /\ walk = Empty
  /\ snapshot = Empty
  /\ changed = {}

\* executeRunCommand reads what it tests at its start, ...
StartRun ==
  /\ pc = "start"
  /\ runs' = runs + 1
  /\ tested' = [f \in Sources |-> content[f]]
  /\ changed' = {}
  /\ pc' = "run"
  /\ UNCHANGED <<content, stamp, edits, lastExit, exit, todo, walk, snapshot>>

\* Mutant: only the first run is followed by a snapshot.
EndRunKeepingSnapshot ==
  /\ pc = "run"
  /\ lastExit' \in 0 .. 2
  /\ stamp' = stamp + 1
  /\ content' = [content EXCEPT ![Output] = stamp + 1]
  /\ pc' = IF runs = 1 THEN "list" ELSE "sleep"
  /\ UNCHANGED <<edits, runs, exit, tested, todo, walk, snapshot, changed>>

\* ... and writes its output at its end; the last of -max-runs ends watch.
EndRun ==
  /\ pc = "run"
  /\ lastExit' \in 0 .. 2
  /\ stamp' = stamp + 1
  /\ content' = [content EXCEPT ![Output] = stamp + 1]
  /\ IF MaxRuns > 0 /\ runs >= MaxRuns
       THEN pc' = "exited" /\ exit' = lastExit'
       ELSE pc' = "list" /\ exit' = exit
  /\ UNCHANGED <<edits, runs, tested, todo, walk, snapshot, changed>>

\* collectWatchSnapshot, first half: the names.
List(from, to) ==
  /\ pc = from
  /\ todo' = {f \in Watched : content[f] # 0}
  /\ walk' = Empty
  /\ pc' = to
  /\ UNCHANGED <<content, stamp, edits, runs, lastExit, exit, tested, snapshot, changed>>

\* Second half: one file after the other; entry.Info fails for a file that is
\* gone, and watch with it.
Visit(f) ==
  /\ pc \in {"walk", "rewalk"} /\ f \in todo
  /\ todo' = todo \ {f}
  /\ walk' = [walk EXCEPT ![f] = content[f]]
  /\ IF content[f] = 0
       THEN pc' = "exited" /\ exit' = 2
       ELSE pc' = pc /\ exit' = exit
  /\ UNCHANGED <<content, stamp, edits, runs, lastExit, tested, snapshot, changed>>

TakeSnapshot ==
  /\ pc = "walk" /\ todo = {}
  /\ snapshot' = walk
  /\ pc' = "sleep"
  /\ UNCHANGED <<content, stamp, edits, runs, lastExit, exit, tested, todo, walk, changed>>

\* Mutant: files that went away are not looked for.
DiffWithoutRemovals(before, after) == {f \in Files : after[f] # 0 /\ before[f] # after[f]}

\* diffWatchSnapshot: new, changed and removed files.
DiffWatchSnapshot(before, after) == {f \in Files : before[f] # after[f]}

\* Mutant: every poll replaces the snapshot, and a removed file is no change.
CompareRebasing ==
  /\ pc = "rewalk" /\ todo = {}
  /\ snapshot' = walk
  /\ pc' = IF \A f \in Files : walk[f] \in {0, snapshot[f]} THEN "sleep" ELSE "start"
  /\ UNCHANGED <<content, stamp, edits, runs, lastExit, exit, tested, todo, walk, changed>>

Compare ==
  /\ pc = "rewalk" /\ todo = {}
  /\ pc' = IF DiffWatchSnapshot(snapshot, walk) = {} THEN "sleep" ELSE "start"
  /\ UNCHANGED <<content, stamp, edits, runs, lastExit, exit, tested, todo, walk, snapshot, changed>>

\* The editor saves, creates or removes a file.
Edit(f) ==
  /\ edits < MaxEdits /\ pc # "exited"
  /\ edits' = edits + 1
  /\ stamp' = stamp + 1
  /\ \/ content' = [content EXCEPT ![f] = stamp + 1]
     \/ content[f] # 0 /\ content' = [content EXCEPT ![f] = 0]
  /\ changed' = IF pc \in {"run", "list"} \/ (pc = "walk" /\ (f \in todo \/ walk[f] = 0))
                  THEN changed \cup {f} ELSE changed
  /\ UNCHANGED <<pc, runs, lastExit, exit, tested, todo, walk, snapshot>>

WatchStep ==
  \/ StartRun \/ EndRun
  \/ List("list", "walk") \/ List("sleep", "rewalk")
  \/ (\E f \in Watched : Visit(f))
  \/ TakeSnapshot \/ Compare

Next == WatchStep \/ \E f \in Sources : Edit(f)

\* watch goes on; nobody has to edit.
Spec == Init /\ [][Next]_vars /\ WF_vars(WatchStep)

-----------------------------------------------------------------------------
Pending == {f \in Watched : snapshot[f] # content[f]}

\* A run is started by an edit, never by the output of the run before it,
\* which is in the snapshot when it is not among the ignored paths.
RunsOnlyOnEdits == runs <= edits + 1

\* While watch sees nothing to do, what the last run did not test was changed
\* during that run or the walk after it, never later.
MissedChangesAreFromTheRun ==
  pc = "sleep" /\ Pending = {} =>
    {f \in Sources : tested[f] # content[f]} \subseteq changed

\* A run follows an edit, and only what changed during a run stays unnoticed.
RunsFollowEdits == RunsOnlyOnEdits /\ MissedChangesAreFromTheRun

\* A change after the snapshot leads to another run, or to the end of watch,
\* unless it is undone before the next poll.
ChangeIsNoticed ==
  (pc = "sleep" /\ Pending # {}) ~> (pc \in {"start", "exited"} \/ Pending = {})

=============================================================================
