---------------------------- MODULE TrendHistory ----------------------------
(***************************************************************************)
(* The trend file (cleanr/trends/runtime.go, io.go, types.go) under several  *)
(* `cleanr run` processes that share it: load or start a history, compare    *)
(* with its last run, append, trim, write a temporary file beside it and     *)
(* rename that over it.  There is no lock.  Every file operation may fail    *)
(* and a process may be killed between any two.                              *)
(***************************************************************************)
EXTENDS Integers, Sequences, SequencesExt

CONSTANTS Commands,         \* bound: how many commands are started
          ConfiguredLimit,  \* reporting.trend_limit as written, 0 when omitted
          Absent, Garbage   \* no file; a file that does not decode

ASSUME TrendAssumption ==
  /\ Commands \in Nat
  /\ ConfiguredLimit \in Nat
  /\ Absent # Garbage
  /\ \A no \in {Absent, Garbage} : no \notin Nat /\ no \notin Seq(Nat)

\* Each command appends one run, named like it.
Processes == 1 .. Commands

VARIABLES pc,        \* [Processes -> where AttachAndPersist is]
          base,      \* [Processes -> the runs that were loaded]
          previous,  \* [Processes -> the run report.Trend compares with]
          temp,      \* [Processes -> the temporary file: Absent, Garbage, runs]
          file,      \* the trend file: Absent, Garbage or runs
          appended,  \* the processes that renamed, in that order
          overlap    \* some process renamed over a file it had not loaded

vars == <<pc, base, previous, temp, file, appended, overlap>>

\* applyReportingDefaults, for a configuration that names a trend file.
DefaultTrendLimit == 30
TrendLimit == IF ConfiguredLimit = 0 THEN DefaultTrendLimit ELSE ConfiguredLimit

\* Mutant: the history is trimmed one run too late.
TrimOneLate(runs) ==
  IF TrendLimit > 0 /\ Len(runs) > TrendLimit + 1
    THEN SubSeq(runs, Len(runs) - TrendLimit, Len(runs)) ELSE runs

\* Mutant: the oldest runs are kept.
TrimOldest(runs) ==
  IF TrendLimit > 0 /\ Len(runs) > TrendLimit THEN SubSeq(runs, 1, TrendLimit) ELSE runs

\* AppendRun.
Trim(runs) ==
  IF TrendLimit > 0 /\ Len(runs) > TrendLimit
    THEN SubSeq(runs, Len(runs) - TrendLimit + 1, Len(runs)) ELSE runs
AppendRun(runs, p) == Trim(Append(runs, p))

LatestRun(runs) == IF runs = <<>> THEN Absent ELSE Last(runs)

Stages == {"start", "loaded", "created", "written", "done", "failed", "killed"}
Ended == {"done", "failed", "killed"}

-----------------------------------------------------------------------------
TypeOK ==
  /\ pc \in [Processes -> Stages]
  /\ base \in [Processes -> Seq(Processes)]
  /\ previous \in [Processes -> Processes \cup {Absent}]
  /\ temp \in [Processes -> {Absent, Garbage} \cup Seq(Processes)]
  /\ \/ file \in {Absent, Garbage}
     \/ file \in Seq(Processes) /\ Len(file) <= TrendLimit
  /\ appended \in Seq(Processes)
  /\ overlap \in BOOLEAN

Init ==
  /\ pc = [p \in Processes |-> "start"]
  /\ base = [p \in Processes |-> <<>>]
  /\ previous = [p \in Processes |-> Absent]
  /\ temp = [p \in Processes |-> Absent]
  /\ file \in {Absent, Garbage}
  /\ appended = <<>>
  /\ overlap = FALSE

\* Mutant: a full history is compared with its oldest run.
LoadSecondToLast(p) ==
  /\ pc[p] = "start" /\ file # Garbage
  /\ base' = [base EXCEPT ![p] = IF file = Absent THEN <<>> ELSE file]
  /\ previous' = [previous EXCEPT ![p] = IF Len(base'[p]) < 2 THEN Absent ELSE base'[p][1]]
  /\ pc' = [pc EXCEPT ![p] = "loaded"]
  /\ UNCHANGED <<temp, file, appended, overlap>>

\* loadOrInit, LatestRun, Compare: only a file that is not there starts a
\* history.  The file may also be there and not be readable.
Load(p) ==
  /\ pc[p] = "start" /\ file # Garbage
  /\ base' = [base EXCEPT ![p] = IF file = Absent THEN <<>> ELSE file]
  /\ previous' = [previous EXCEPT ![p] = LatestRun(base'[p])]
  /\ pc' = [pc EXCEPT ![p] = "loaded"]
  /\ UNCHANGED <<temp, file, appended, overlap>>

LoadFails(p) ==
  /\ pc[p] = "start" /\ file # Absent
  /\ pc' = [pc EXCEPT ![p] = "failed"]
  /\ UNCHANGED <<base, previous, temp, file, appended, overlap>>

\* writeFileAtomic: the file is created, ...
CreateTemp(p) ==
  /\ pc[p] = "loaded"
  /\ temp' = [temp EXCEPT ![p] = Garbage]
  /\ pc' = [pc EXCEPT ![p] = "created"]
  /\ UNCHANGED <<base, previous, file, appended, overlap>>

\* Mutant: the history is written in place.
WriteTempInPlace(p) ==
  /\ pc[p] = "created"
  /\ file' = Garbage
  /\ temp' = [temp EXCEPT ![p] = AppendRun(base[p], p)]
  /\ pc' = [pc EXCEPT ![p] = "written"]
  /\ UNCHANGED <<base, previous, appended, overlap>>

\* ... written and closed, ...
WriteTemp(p) ==
  /\ pc[p] = "created"
  /\ temp' = [temp EXCEPT ![p] = AppendRun(base[p], p)]
  /\ pc' = [pc EXCEPT ![p] = "written"]
  /\ UNCHANGED <<base, previous, file, appended, overlap>>

\* ... and renamed.
Rename(p) ==
  /\ pc[p] = "written"
  /\ file' = temp[p]
  /\ temp' = [temp EXCEPT ![p] = Absent]
  /\ appended' = Append(appended, p)
  /\ overlap' = (overlap \/ base[p] # IF file = Absent THEN <<>> ELSE file)
  /\ pc' = [pc EXCEPT ![p] = "done"]
  /\ UNCHANGED <<base, previous>>

\* MkdirAll, CreateTemp, Write, Chmod, Close or Rename fails: the deferred
\* Remove takes the temporary file away.
WriteFails(p) ==
  /\ pc[p] \in {"loaded", "created", "written"}
  /\ temp' = [temp EXCEPT ![p] = Absent]
  /\ pc' = [pc EXCEPT ![p] = "failed"]
  /\ UNCHANGED <<base, previous, file, appended, overlap>>

Kill(p) ==
  /\ pc[p] \notin Ended
  /\ pc' = [pc EXCEPT ![p] = "killed"]
  /\ UNCHANGED <<base, previous, temp, file, appended, overlap>>

Step(p) ==
  Load(p) \/ LoadFails(p) \/ CreateTemp(p) \/ WriteTemp(p) \/ Rename(p) \/ WriteFails(p)

Next == \E p \in Processes : Step(p) \/ Kill(p)

Spec == Init /\ [][Next]_vars

-----------------------------------------------------------------------------
\* "an interrupt can never leave a truncated or partially-written state file
\* behind" (io.go): whatever fails or is killed, a history that was readable
\* stays readable, and one that was not is not overwritten.
HistoryStaysWhole ==
  [][(file = Garbage) = (file' = Garbage)]_vars

\* Only a run that ends well changes the history, and it keeps of the runs it
\* loaded all that the limit allows: those it drops are the oldest.
OnlySuccessChangesHistory ==
  [][LET succeeds(p) == pc[p] = "written" /\ pc'[p] = "done"
     IN  /\ file' # file => \E p \in Processes : succeeds(p)
         /\ \A p \in Processes : succeeds(p) =>
              /\ Last(file') = p
              /\ IsSuffix(file', Append(base[p], p))
              /\ Len(file') = TrendLimit \/ Len(file') = Len(base[p]) + 1]_vars

\* As long as no two commands overlapped the file holds exactly the latest
\* runs that ended well, in order; and every run was compared with the one
\* before it in that order.
SerialHistoryIsExact ==
  ~overlap =>
    /\ file \notin {Absent, Garbage} =>
         /\ IsSuffix(file, appended)
         /\ Len(file) = TrendLimit \/ file = appended
    /\ file \in {Absent, Garbage} => appended = <<>>
    /\ \A n \in 1 .. Len(appended) :
         previous[appended[n]] = IF n = 1 THEN Absent ELSE appended[n - 1]

\* The three together: what the trend file promises those who read it.
HistoryIsExact ==
  HistoryStaysWhole /\ OnlySuccessChangesHistory /\ [](TypeOK /\ SerialHistoryIsExact)

=============================================================================
