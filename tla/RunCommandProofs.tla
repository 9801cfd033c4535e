--------------------------- MODULE RunCommandProofs ---------------------------
(***************************************************************************)
(* Proofs about `cleanr run` for any suites, configurations, durations and  *)
(* number of builds: whatever write fails, wherever the process is killed   *)
(* and whatever earlier builds left behind, the exit code, the report, the  *)
(* artifact and the attestation tell one verdict, exit code 0 means that    *)
(* everything asked for is on disk, and enabled gates fail closed.          *)
(***************************************************************************)
EXTENDS RunCommand, FiniteSetTheorems, SequenceTheorems, TLAPS

-----------------------------------------------------------------------------
(***************************************************************************)
(* The inductive invariant.  A file on disk says nothing of the build that  *)
(* wrote it but its build number, so the invariant says at which stage the  *)
(* files of this build can be there, and that they are then what the        *)
(* command has in memory.                                                   *)
(***************************************************************************)
BeforeArtifacts == {"run", "trend", "gates", "artifacts"}
BeforeWrite == BeforeArtifacts \cup {"publish", "write"}
BeforePublish == {"trend", "gates", "artifacts", "publish"}
WithReport == Stages \ {"idle", "run", "exited"}
WithTrend == WithReport \ {"trend"}
WithVerdict == WithTrend \ {"gates"}
WithArtifacts == WithVerdict \ {"artifacts"}
ReportWritten == {"replay", "attest", "side", "exit"}
ReplayWritten == {"attest", "side", "exit"}
AttestWritten == {"side", "exit"}

\* What EvaluateGates has made sure of a report that still passes.
Gated(r) ==
  config.gates /\ r.passed =>
    /\ r.trend # Nothing
    /\ GateApplies(r.trend) => ~Breached(r, r.trend.previous)

\* The run the trend file ends with.
InHistory(r) == history # <<>> /\ history[Len(history)] = HistoryRun(r)

\* The report in memory is this build's.  It is in the trend file unless
\* somebody said no, has passed the gates, and has no integrations before they
\* were published.
ReportInv ==
  /\ stage \in WithReport => report.build = build
  /\ stage \in BeforePublish => ~report.integrations
  /\ stage \in WithTrend /\ config.trend /\ report.passed =>
       "trend" \in warnings \/ InHistory(report)
  /\ stage \in WithVerdict => Gated(report)

\* What was derived from the report in memory agrees with it.
ArtifactsInv ==
  /\ stage \in BeforeArtifacts => replay = Nothing /\ attest = Nothing
  /\ stage \in WithArtifacts =>
       /\ NeedsReplay => replay = [build |-> build, passed |-> report.passed]
       /\ attest # Nothing =>
            attest = [build |-> build, passed |-> report.passed,
                      digest |-> [report EXCEPT !.integrations = FALSE]]
       /\ config.attest => attest # Nothing \/ "attestation" \in warnings

\* The files on disk are of earlier builds until this one writes them.
DiskInv ==
  /\ disk.report # Nothing => disk.report.build <= build
  /\ disk.replay # Nothing => disk.replay.build <= build
  /\ disk.attest # Nothing => disk.attest.build <= build
  /\ stage \in BeforeWrite /\ disk.report # Nothing => disk.report.build < build
  /\ stage \in BeforeWrite \cup {"replay"} /\ disk.replay # Nothing => disk.replay.build < build
  /\ stage \in BeforeWrite \cup {"replay", "attest"} /\ disk.attest # Nothing =>
       disk.attest.build < build
  /\ stage \in ReportWritten => disk.report = report
  /\ stage \in ReplayWritten /\ disk.replay # Nothing /\ disk.replay.build = build =>
       disk.replay = replay
  /\ stage \in ReplayWritten /\ config.replay => disk.replay = replay \/ "replay" \in warnings
  /\ stage \in AttestWritten /\ attest # Nothing =>
       disk.attest = attest \/ "attestation write" \in warnings

\* What was written passed the gates.
GatedInv == disk.report # Nothing => Gated(disk.report)

\* Nothing was returned before the command has exited.
ExitInv == stage # "exited" => exit = Running

CmdInv ==
  /\ CmdTypeOK
  /\ ReportInv /\ ArtifactsInv /\ DiskInv /\ GatedInv
  /\ ExitInv /\ ExitMatchesReport /\ SuccessIsDurable /\ VerdictsAgree

-----------------------------------------------------------------------------
(***************************************************************************)
(* Lemmas about the operators of the model.                                 *)
(***************************************************************************)
\* What stands for a file is told apart from no file.
LEMMA SomethingIsNotNothing ==
  /\ \A r \in Reports : r # Nothing
  /\ \A r \in Replays : r # Nothing
  /\ \A a \in Attestations : a # Nothing
  /\ \A t \in Trends : t # Nothing
BY NothingAssumption

\* The trend file keeps only values it has room for.
LEMMA HistoryRunType ==
  ASSUME NEW r \in Reports
  PROVE  HistoryRun(r) \in HistoryRuns
BY DEF Reports, HistoryRun, HistoryRuns

\* AppendRun ends with the new run and forgets only from the front.
LEMMA AppendRunEnds ==
  ASSUME NEW runs \in Seq(HistoryRuns), NEW run \in HistoryRuns
  PROVE  /\ AppendRun(runs, run) \in Seq(HistoryRuns)
         /\ AppendRun(runs, run) # <<>>
         /\ AppendRun(runs, run)[Len(AppendRun(runs, run))] = run
         /\ TrendLimit > 0 => Len(AppendRun(runs, run)) <= TrendLimit
<1> DEFINE all == Append(runs, run)
           cut == SubSeq(all, Len(all) - TrendLimit + 1, Len(all))
<1>1. all \in Seq(HistoryRuns) /\ Len(all) = Len(runs) + 1 /\ all[Len(all)] = run /\ Len(runs) \in Nat
  OBVIOUS
<1>2. CASE TrendLimit > 0 /\ Len(all) > TrendLimit
  <2>1. AppendRun(runs, run) = cut
    BY <1>2 DEF AppendRun
  <2>2. /\ cut \in Seq(HistoryRuns)
        /\ Len(cut) = TrendLimit
        /\ cut[TrendLimit] = all[Len(all)]
    BY <1>1, <1>2, CommandAssumption
  <2>3. Len(cut) > 0
    BY <1>2, <2>2, CommandAssumption
  <2> HIDE DEF all, cut
  <2>4. cut # <<>>
    BY <2>3
  <2> QED BY <1>1, <2>1, <2>2, <2>4, CommandAssumption
<1>3. CASE ~(TrendLimit > 0 /\ Len(all) > TrendLimit)
  <2>1. AppendRun(runs, run) = all
    BY <1>3 DEF AppendRun
  <2> QED BY <1>1, <1>3, <2>1, CommandAssumption
<1> QED BY <1>2, <1>3

\* What report.Trend says of a history is a trend.
LEMMA CompareType ==
  ASSUME NEW runs \in Seq(HistoryRuns)
  PROVE  Compare(runs) \in Trends
<1>1. LatestRun(runs) \in HistoryRuns \cup {Nothing}
  BY DEF LatestRun
<1>2. (IF TrendLimit > 0 /\ Len(runs) + 1 > TrendLimit THEN TrendLimit ELSE Len(runs) + 1) \in Nat
  BY CommandAssumption
<1> QED BY <1>1, <1>2 DEF Compare, Trends

\* The verdict of a run counts finitely many suites and cases.
LEMMA RunTotals ==
  ASSUME RunnerTypeOK
  PROVE  /\ FailedSuites \in Nat
         /\ FailedCases \in Nat
         /\ [s \in DOMAIN executed |-> executed[s].passed] \in Seq(BOOLEAN)
<1>1. executed \in Seq(SuiteResults) /\ DOMAIN executed = 1 .. Len(executed) /\ Len(executed) \in Nat
  BY DEF RunnerTypeOK
<1>2. IsFiniteSet(DOMAIN executed)
  BY <1>1, FS_Interval
<1>3. FailedSuites \in Nat
  <2>1. {s \in DOMAIN executed : ~executed[s].passed} \subseteq DOMAIN executed
    OBVIOUS
  <2> QED BY <1>2, <2>1, FS_Subset, FS_CardinalityType DEF FailedSuites
<1>4. FailedCases \in Nat
  <2> DEFINE of == [s \in DOMAIN executed |-> {s} \X (1 .. executed[s].failed)]
             all == {of[s] : s \in DOMAIN executed}
  <2>1. ASSUME NEW s \in DOMAIN executed PROVE IsFiniteSet(of[s])
    <3>1. executed[s] \in SuiteResults
      BY <1>1
    <3>2. executed[s].failed \in Int
      BY <3>1 DEF SuiteResults
    <3>3. IsFiniteSet({s})
      BY FS_Singleton
    <3>4. IsFiniteSet(1 .. executed[s].failed)
      BY <3>2, FS_Interval
    <3> QED BY <3>3, <3>4, FS_Product
  <2>2. IsFiniteSet(all)
    <3>1. of \in Surjection(DOMAIN executed, all)
      BY DEF Surjection
    <3> QED BY <1>2, <3>1, FS_Surjection
  <2>3. IsFiniteSet(UNION all)
    BY <2>1, <2>2, FS_UNION
  <2>4. all = {{s} \X (1 .. executed[s].failed) : s \in DOMAIN executed}
    OBVIOUS
  <2> QED BY <2>3, <2>4, FS_CardinalityType DEF FailedCases
<1>5. [s \in DOMAIN executed |-> executed[s].passed] \in Seq(BOOLEAN)
  <2>1. \A s \in 1 .. Len(executed) : executed[s] \in SuiteResults
    BY <1>1
  <2>2. \A s \in 1 .. Len(executed) : executed[s].passed \in BOOLEAN
    BY <2>1 DEF SuiteResults
  <2> DEFINE passed == [s \in 1 .. Len(executed) |-> executed[s].passed]
  <2>3. passed \in [1 .. Len(executed) -> BOOLEAN]
    BY <2>2
  <2>4. passed \in Seq(BOOLEAN)
    BY <1>1, <2>3
  <2> QED BY <1>1, <2>4
<1> QED BY <1>3, <1>4, <1>5

\* What an engine returns is a suite result.
LEMMA OutcomeType ==
  ASSUME NEW kind, NEW cut, NEW r \in Outcomes(kind, cut)
  PROVE  r \in SuiteResults
<1>1. PICK p \in (0 .. Count) \X (0 .. Count) : r = SuiteResult(kind, p[1], p[2])
  BY DEF Outcomes
<1>2. p[1] \in Nat /\ p[2] \in Nat /\ Count \in Nat
  BY RunnerAssumption
<1>3. ASSUME NEW cases PROVE SuitePassed(kind, cases, p[2]) \in BOOLEAN
  <2>1. CASE kind = "tolerant"
    BY <2>1 DEF SuitePassed
  <2>2. CASE kind # "tolerant"
    BY <2>2 DEF SuitePassed
  <2> QED BY <2>1, <2>2
<1> QED BY <1>1, <1>2, <1>3 DEF SuiteResult, SuiteResults

\* The steps of Runner keep its type.
LEMMA RunnerKeepsType ==
  ASSUME RunnerTypeOK, StartSuite \/ EndSuite \/ FinishRun
  PROVE  RunnerTypeOK'
<1>1. CASE StartSuite
  BY <1>1 DEF RunnerTypeOK, StartSuite
<1>2. CASE EndSuite
  <2>1. PICK r \in Outcomes(Suites[Len(executed) + 1], cancelled) : executed' = Append(executed, r)
    BY <1>2 DEF EndSuite
  <2>2. r \in SuiteResults
    BY OutcomeType
  <2>3. executed' \in Seq(SuiteResults)
    BY <2>1, <2>2 DEF RunnerTypeOK
  <2> QED BY <1>2, <2>3 DEF RunnerTypeOK, EndSuite
<1>3. CASE FinishRun
  BY <1>3 DEF RunnerTypeOK, FinishRun
<1> QED BY <1>1, <1>2, <1>3

-----------------------------------------------------------------------------
(***************************************************************************)
(* Every action keeps the invariant.                                        *)
(***************************************************************************)
\* The empty report is a report.
LEMMA NoReportType == NoReport \in Reports
<1>1. <<>> \in Seq(BOOLEAN)
  OBVIOUS
<1> QED BY <1>1 DEF NoReport, Reports

\* What is on disk has a build number.
LEMMA DiskTypes ==
  ASSUME CmdTypeOK
  PROVE  /\ build \in Nat
         /\ disk.report # Nothing => disk.report \in Reports /\ disk.report.build \in Nat
         /\ disk.replay # Nothing => disk.replay \in Replays /\ disk.replay.build \in Nat
         /\ disk.attest # Nothing => disk.attest \in Attestations /\ disk.attest.build \in Nat
<1>1. disk.report \in Reports \cup {Nothing}
  BY DEF CmdTypeOK
<1>2. disk.replay \in Replays \cup {Nothing}
  BY DEF CmdTypeOK
<1>3. disk.attest \in Attestations \cup {Nothing}
  BY DEF CmdTypeOK
<1>4. build \in 0 .. Builds
  BY DEF CmdTypeOK
<1>5. \A r \in Reports : r.build \in Nat
  BY DEF Reports
<1>6. \A r \in Replays : r.build \in Nat
  BY DEF Replays
<1>7. \A r \in Attestations : r.build \in Nat
  BY DEF Attestations
<1> QED BY <1>1, <1>2, <1>3, <1>4, <1>5, <1>6, <1>7

LEMMA CmdInvInit ==
  ASSUME CmdInit
  PROVE  CmdInv
<1> USE DEF CmdInit
<1>1. CmdTypeOK
  <2>1. RunnerTypeOK
    <3>1. executed \in Seq(SuiteResults)
      BY DEF Init
    <3> QED BY <3>1 DEF Init, RunnerTypeOK
  <2>2. config \in Configs /\ build \in 0 .. Builds /\ stage \in Stages /\ exit = -1
    BY CommandAssumption DEF Stages, Running
  <2>3. history \in Seq(HistoryRuns) /\ Len(history) = 0
    OBVIOUS
  <2> QED BY <2>1, <2>2, <2>3, NoReportType, CommandAssumption DEF CmdTypeOK, Running
<1>2. ReportInv /\ ArtifactsInv /\ DiskInv /\ GatedInv
  BY DEF ReportInv, ArtifactsInv, DiskInv, GatedInv, BeforePublish, WithReport, WithTrend, WithVerdict,
         WithArtifacts, BeforeArtifacts, BeforeWrite, ReportWritten, ReplayWritten, AttestWritten
<1>3. ExitInv /\ ExitMatchesReport /\ SuccessIsDurable /\ VerdictsAgree
  BY DEF ExitInv, ExitMatchesReport, SuccessIsDurable, VerdictsAgree, Finished
<1> QED BY <1>1, <1>2, <1>3 DEF CmdInv

\* For a new build all files are old.
LEMMA FilesGetOld ==
  ASSUME CmdTypeOK, DiskInv
  PROVE  /\ disk.report # Nothing => disk.report.build < build + 1 /\ disk.report.build <= build + 1
         /\ disk.replay # Nothing => disk.replay.build < build + 1 /\ disk.replay.build <= build + 1
         /\ disk.attest # Nothing => disk.attest.build < build + 1 /\ disk.attest.build <= build + 1
<1>1. /\ disk.report # Nothing => disk.report.build <= build
      /\ disk.replay # Nothing => disk.replay.build <= build
      /\ disk.attest # Nothing => disk.attest.build <= build
  BY DEF DiskInv
<1> QED BY <1>1, DiskTypes

\* A new build finds only files of earlier ones.
LEMMA StartCommandKeeps ==
  ASSUME CmdInv, StartCommand
  PROVE  CmdInv'
<1> USE DEF CmdInv, StartCommand
<1>0. /\ disk.report # Nothing => disk.report.build < build + 1 /\ disk.report.build <= build + 1
      /\ disk.replay # Nothing => disk.replay.build < build + 1 /\ disk.replay.build <= build + 1
      /\ disk.attest # Nothing => disk.attest.build < build + 1 /\ disk.attest.build <= build + 1
  BY FilesGetOld
<1>1. CmdTypeOK'
  <2>1. RunnerTypeOK'
    <3>1. executed' \in Seq(SuiteResults)
      OBVIOUS
    <3> QED BY <3>1 DEF RunnerTypeOK
  <2>2. build' \in 0 .. Builds /\ stage' \in Stages
    BY DiskTypes, CommandAssumption DEF Stages
  <2> QED BY <2>1, <2>2, NoReportType DEF CmdTypeOK
<1>2. ReportInv'
  BY DEF ReportInv, BeforePublish, WithReport, WithTrend, WithVerdict, ReportWritten
<1>3. ArtifactsInv'
  BY DEF ArtifactsInv, BeforeArtifacts, WithArtifacts, WithVerdict, WithTrend, WithReport
<1>4. DiskInv'
  <2>1. disk' = disk /\ build' = build + 1 /\ stage' \in {"run", "exited"}
    OBVIOUS
  <2> HIDE DEF CmdInv, StartCommand
  <2> QED BY <1>0, <2>1 DEF DiskInv, BeforeArtifacts, BeforeWrite, ReportWritten, ReplayWritten,
       AttestWritten
<1>5. GatedInv'
  BY DEF GatedInv, Gated
<1>6. ExitInv' /\ ExitMatchesReport' /\ SuccessIsDurable'
  BY DEF ExitInv, ExitMatchesReport, SuccessIsDurable, Finished
<1>7. VerdictsAgree'
  BY DEF VerdictsAgree
<1> QED BY <1>1, <1>2, <1>3, <1>4, <1>5, <1>6, <1>7

LEMMA ConfigErrorKeeps ==
  ASSUME CmdInv, ConfigError
  PROVE  CmdInv'
<1> USE DEF CmdInv, ConfigError
<1>0. /\ disk.report # Nothing => disk.report.build < build + 1 /\ disk.report.build <= build + 1
      /\ disk.replay # Nothing => disk.replay.build < build + 1 /\ disk.replay.build <= build + 1
      /\ disk.attest # Nothing => disk.attest.build < build + 1 /\ disk.attest.build <= build + 1
  BY FilesGetOld
<1>1. CmdTypeOK'
  <2>1. RunnerTypeOK'
    BY DEF CmdTypeOK, RunnerTypeOK, runnerVars
  <2>2. build' \in 0 .. Builds /\ stage' \in Stages
    BY DiskTypes, CommandAssumption DEF Stages
  <2> QED BY <2>1, <2>2 DEF CmdTypeOK
<1>2. ReportInv'
  BY DEF ReportInv, BeforePublish, WithReport, WithTrend, WithVerdict, ReportWritten
<1>3. ArtifactsInv'
  BY DEF ArtifactsInv, BeforeArtifacts, WithArtifacts, WithVerdict, WithTrend, WithReport
<1>4. DiskInv'
  <2>1. disk' = disk /\ build' = build + 1 /\ stage' \in {"run", "exited"}
    OBVIOUS
  <2> HIDE DEF CmdInv, ConfigError
  <2> QED BY <1>0, <2>1 DEF DiskInv, BeforeArtifacts, BeforeWrite, ReportWritten, ReplayWritten,
       AttestWritten
<1>5. GatedInv'
  BY DEF GatedInv, Gated
<1>6. ExitInv' /\ SuccessIsDurable'
  BY DEF ExitInv, SuccessIsDurable, Finished
<1>7. ExitMatchesReport'
  BY <1>0, DiskTypes DEF ExitMatchesReport, Finished
<1>8. VerdictsAgree'
  BY DEF VerdictsAgree
<1> QED BY <1>1, <1>2, <1>3, <1>4, <1>5, <1>6, <1>7, <1>8

\* Nothing is said of the exit code of a command that goes on.
LEMMA GoingOn ==
  ASSUME ExitInv, stage # "exited", stage' # "exited", UNCHANGED exit
  PROVE  ExitInv' /\ ExitMatchesReport' /\ SuccessIsDurable'
BY DEF ExitInv, ExitMatchesReport, SuccessIsDurable, Finished

\* Before the first write the disk is as the builds before have left it.
LEMMA BeforeWriteKeepsDisk ==
  ASSUME DiskInv, GatedInv, VerdictsAgree, stage \in BeforeWrite, stage' \in BeforeWrite,
         UNCHANGED <<config, build, disk>>
  PROVE  DiskInv' /\ GatedInv' /\ VerdictsAgree'
<1>1. DiskInv'
  BY DEF DiskInv, BeforeWrite, BeforeArtifacts, ReportWritten, ReplayWritten, AttestWritten
<1>2. GatedInv' /\ VerdictsAgree'
  BY DEF GatedInv, Gated, VerdictsAgree
<1> QED BY <1>1, <1>2

\* The suites and the interrupt have nothing to do with the rest.
LEMMA SuitesKeep ==
  ASSUME CmdInv, RunnerTypeOK', UNCHANGED cmdVars
  PROVE  CmdInv'
<1> USE DEF CmdInv, cmdVars
<1>1. CmdTypeOK'
  BY DEF CmdTypeOK
<1>2. ReportInv' /\ ArtifactsInv'
  BY DEF ReportInv, InHistory, Gated, ArtifactsInv, NeedsReplay
<1>3. DiskInv'
  BY DEF DiskInv
<1>4. GatedInv' /\ VerdictsAgree'
  BY DEF GatedInv, Gated, VerdictsAgree
<1>5. ExitInv' /\ ExitMatchesReport' /\ SuccessIsDurable'
  BY DEF ExitInv, ExitMatchesReport, SuccessIsDurable, Finished
<1> QED BY <1>1, <1>2, <1>3, <1>4, <1>5

\* The totals make a report of this build that nobody has touched yet.
LEMMA BuildReportKeeps ==
  ASSUME CmdInv, BuildReport
  PROVE  CmdInv'
<1>0. stage = "run" /\ stage' = "trend"
  BY DEF BuildReport
<1>1. PICK d \in Durations :
        report' = [NoReport EXCEPT
                     !.build = build,
                     !.passed = RunPassed,
                     !.duration = d,
                     !.failedSuites = FailedSuites,
                     !.failedCases = FailedCases,
                     !.suites = [s \in DOMAIN executed |-> executed[s].passed]]
  BY DEF BuildReport
<1>2. report' \in Reports /\ report'.build = build /\ report'.integrations = FALSE
  <2>1. /\ FailedSuites \in Nat
        /\ FailedCases \in Nat
        /\ [s \in DOMAIN executed |-> executed[s].passed] \in Seq(BOOLEAN)
    BY RunTotals DEF CmdInv, CmdTypeOK
  <2>2. RunPassed \in BOOLEAN /\ d \in Nat /\ build \in Nat
    BY CommandAssumption, DiskTypes DEF RunPassed, CmdInv
  <2> QED BY <1>1, <2>1, <2>2 DEF NoReport, Reports
<1>3. CmdTypeOK'
  <2>1. RunnerTypeOK'
    BY DEF BuildReport, CmdInv, CmdTypeOK, RunnerTypeOK, runnerVars
  <2> QED BY <1>2, <2>1 DEF BuildReport, CmdInv, CmdTypeOK, Stages
<1>4. ReportInv'
  BY <1>0, <1>2 DEF BuildReport, ReportInv, WithTrend, WithVerdict, WithReport
<1>5. ArtifactsInv'
  BY <1>0 DEF BuildReport, CmdInv, ArtifactsInv, BeforeArtifacts, WithArtifacts, WithVerdict, WithTrend
<1>6. DiskInv' /\ GatedInv' /\ VerdictsAgree'
  BY <1>0, BeforeWriteKeepsDisk DEF BuildReport, CmdInv, BeforeWrite, BeforeArtifacts
<1>7. ExitInv' /\ ExitMatchesReport' /\ SuccessIsDurable'
  BY <1>0, GoingOn DEF BuildReport, CmdInv
<1> QED BY <1>3, <1>4, <1>5, <1>6, <1>7 DEF CmdInv

\* The trend file ends with this run or there is a warning.
LEMMA AttachTrendKeeps ==
  ASSUME CmdInv, AttachTrend
  PROVE  CmdInv'
<1>0. stage = "trend" /\ stage' = "gates"
  BY DEF AttachTrend
<1>1. report \in Reports /\ history \in Seq(HistoryRuns) /\ HistoryRun(report) \in HistoryRuns
  BY HistoryRunType DEF CmdInv, CmdTypeOK
<1>2. report.build = build /\ ~report.integrations
  BY <1>0 DEF CmdInv, ReportInv, WithReport, BeforePublish, Stages
<1>3. report' \in {report, [report EXCEPT !.trend = Compare(history)]}
  BY DEF AttachTrend
<1>4. /\ report' \in Reports /\ report'.build = build /\ ~report'.integrations
      /\ report'.passed = report.passed /\ HistoryRun(report') = HistoryRun(report)
  <2>1. Compare(history) \in Trends
    BY <1>1, CompareType
  <2> QED BY <1>1, <1>2, <1>3, <2>1 DEF Reports, HistoryRun
<1>5. \/ warnings' = warnings \cup {"trend"} /\ history' = history
      \/ history' = history /\ warnings' = warnings /\ ~config.trend
      \/ history' = AppendRun(history, HistoryRun(report)) /\ warnings' = warnings
  BY DEF AttachTrend, Warn
<1>6. CmdTypeOK'
  <2>1. RunnerTypeOK'
    BY DEF AttachTrend, CmdInv, CmdTypeOK, RunnerTypeOK, runnerVars
  <2>2. history' \in Seq(HistoryRuns) /\ (TrendLimit > 0 => Len(history') <= TrendLimit)
    BY <1>1, <1>5, AppendRunEnds DEF CmdInv, CmdTypeOK
  <2>3. warnings' \subseteq {"trend", "attestation", "replay", "attestation write", "comment"}
    BY <1>5 DEF CmdInv, CmdTypeOK
  <2> QED BY <1>4, <2>1, <2>2, <2>3 DEF AttachTrend, CmdInv, CmdTypeOK, Stages
<1>7. ReportInv'
  <2>1. config.trend => "trend" \in warnings' \/ InHistory(report)'
    <3>1. CASE history' = AppendRun(history, HistoryRun(report))
      BY <1>1, <1>4, <3>1, AppendRunEnds DEF InHistory
    <3> QED BY <1>5, <3>1
  <2> QED BY <1>0, <1>4, <2>1 DEF AttachTrend, ReportInv, WithVerdict, WithTrend
<1>8. ArtifactsInv'
  BY <1>0 DEF AttachTrend, CmdInv, ArtifactsInv, BeforeArtifacts, WithArtifacts, WithVerdict, WithTrend
<1>9. DiskInv' /\ GatedInv' /\ VerdictsAgree'
  BY <1>0, BeforeWriteKeepsDisk DEF AttachTrend, CmdInv, BeforeWrite, BeforeArtifacts
<1>10. ExitInv' /\ ExitMatchesReport' /\ SuccessIsDurable'
  BY <1>0, GoingOn DEF AttachTrend, CmdInv
<1> QED BY <1>6, <1>7, <1>8, <1>9, <1>10 DEF CmdInv

\* A gate can only take a verdict back, and an enabled one has compared.
LEMMA EvaluateGatesKeeps ==
  ASSUME CmdInv, EvaluateGates
  PROVE  CmdInv'
<1>0. stage = "gates" /\ stage' = "artifacts"
  BY DEF EvaluateGates
<1>1. report \in Reports /\ report.build = build /\ ~report.integrations
  BY <1>0 DEF CmdInv, CmdTypeOK, ReportInv, WithReport, BeforePublish, Stages
<1> DEFINE failing == \/ report.trend = Nothing
                      \/ /\ GateApplies(report.trend)
                         /\ Breached(report, report.trend.previous)
<1>2. report' = IF ~config.gates THEN report
                ELSE [report EXCEPT !.gate = IF failing THEN "failed" ELSE "passed",
                                    !.passed = @ /\ ~failing]
  BY DEF EvaluateGates
<1>3. /\ report' \in Reports /\ report'.build = build /\ ~report'.integrations
      /\ report'.passed => report.passed /\ HistoryRun(report') = HistoryRun(report)
  <2>1. CASE ~config.gates
    BY <1>1, <1>2, <2>1
  <2>2. CASE config.gates
    <3>1. report' = [report EXCEPT !.gate = IF failing THEN "failed" ELSE "passed",
                                   !.passed = @ /\ ~failing]
      BY <1>2, <2>2
    <3>2. (IF failing THEN "failed" ELSE "passed") \in {"failed", "passed"}
      OBVIOUS
    <3> HIDE DEF failing
    <3> QED BY <1>1, <3>1, <3>2 DEF Reports, HistoryRun
  <2> QED BY <2>1, <2>2
<1>4. config.gates /\ report'.passed =>
        /\ report'.trend # Nothing
        /\ GateApplies(report'.trend) => ~Breached(report', report'.trend.previous)
  <2> SUFFICES ASSUME config.gates, report'.passed PROVE ~failing /\ report'.trend = report.trend
                 /\ Breached(report', report.trend.previous) = Breached(report, report.trend.previous)
    OBVIOUS
  <2>1. report' = [report EXCEPT !.gate = IF failing THEN "failed" ELSE "passed",
                                 !.passed = @ /\ ~failing]
    BY <1>2
  <2> HIDE DEF failing
  <2>2. ~failing /\ report'.trend = report.trend
    BY <1>1, <2>1 DEF Reports
  <2>3. /\ report'.failedSuites = report.failedSuites
        /\ report'.failedCases = report.failedCases
        /\ report'.suites = report.suites
        /\ report'.duration = report.duration
    BY <1>1, <2>1 DEF Reports
  <2>4. Breached(report', report.trend.previous) = Breached(report, report.trend.previous)
    BY <2>3 DEF Breached, RegressedSuites
  <2> QED BY <2>2, <2>4
<1>5. CmdTypeOK'
  <2>1. RunnerTypeOK'
    BY DEF EvaluateGates, CmdInv, CmdTypeOK, RunnerTypeOK, runnerVars
  <2> QED BY <1>3, <2>1 DEF EvaluateGates, CmdInv, CmdTypeOK, Stages
<1>6. ReportInv'
  <2>1. config.trend /\ report'.passed => "trend" \in warnings \/ InHistory(report)
    BY <1>0, <1>3 DEF CmdInv, ReportInv, WithReport, WithTrend, Stages
  <2>2. config' = config /\ warnings' = warnings /\ history' = history /\ build' = build
    BY DEF EvaluateGates
  <2> QED BY <1>0, <1>3, <1>4, <2>1, <2>2 DEF ReportInv, Gated, InHistory
<1>7. ArtifactsInv'
  BY <1>0 DEF EvaluateGates, CmdInv, ArtifactsInv, BeforeArtifacts, WithArtifacts, WithVerdict, WithTrend
<1>8. DiskInv' /\ GatedInv' /\ VerdictsAgree'
  BY <1>0, BeforeWriteKeepsDisk DEF EvaluateGates, CmdInv, BeforeWrite, BeforeArtifacts
<1>9. ExitInv' /\ ExitMatchesReport' /\ SuccessIsDurable'
  BY <1>0, GoingOn DEF EvaluateGates, CmdInv
<1> QED BY <1>5, <1>6, <1>7, <1>8, <1>9 DEF CmdInv

\* Nobody looks at the report but those who add to it.
LEMMA SameReport ==
  ASSUME ReportInv, stage \in WithVerdict, stage' \in WithVerdict,
         stage' \in BeforePublish => stage \in BeforePublish,
         warnings \subseteq warnings', UNCHANGED <<config, build, report, history>>
  PROVE  ReportInv'
BY DEF ReportInv, WithVerdict, WithTrend, Gated, InHistory

\* Artifact and attestation are made from the report that was gated.
LEMMA BuildArtifactsKeeps ==
  ASSUME CmdInv, BuildArtifacts
  PROVE  CmdInv'
<1>0. stage = "artifacts" /\ stage' = "publish"
  BY DEF BuildArtifacts
<1>1. report \in Reports /\ report.build = build /\ report.integrations = FALSE /\ build \in Nat
  <2>1. report \in Reports /\ report.build = build /\ ~report.integrations /\ build \in Nat
    BY <1>0, DiskTypes DEF CmdInv, CmdTypeOK, ReportInv, WithReport, BeforePublish, Stages
  <2> QED BY <2>1 DEF Reports
<1>2. replay' = IF NeedsReplay THEN [build |-> build, passed |-> report.passed] ELSE Nothing
  BY DEF BuildArtifacts
<1>3. attest = Nothing
  BY <1>0 DEF CmdInv, ArtifactsInv, BeforeArtifacts
<1>4. /\ \/ attest' = [build |-> build, passed |-> report.passed, digest |-> report]
         \/ attest' = Nothing
      /\ config.attest => attest' # Nothing \/ "attestation" \in warnings'
  <2>1. [build |-> build, passed |-> report.passed, digest |-> report] \in Attestations
    BY <1>1 DEF Attestations, Reports
  <2> QED BY <1>3, <2>1, SomethingIsNotNothing DEF BuildArtifacts, Warn
<1>5. warnings \subseteq warnings' /\ warnings' \subseteq warnings \cup {"attestation"}
  BY DEF BuildArtifacts, Warn
<1>6. CmdTypeOK'
  <2>1. RunnerTypeOK'
    BY DEF BuildArtifacts, CmdInv, CmdTypeOK, RunnerTypeOK, runnerVars
  <2>2. replay' \in Replays \cup {Nothing}
    BY <1>1, <1>2 DEF Replays, Reports
  <2>3. attest' \in Attestations \cup {Nothing}
    BY <1>1, <1>4 DEF Attestations, Reports
  <2>4. warnings' \subseteq {"trend", "attestation", "replay", "attestation write", "comment"}
    BY <1>5 DEF CmdInv, CmdTypeOK
  <2> QED BY <2>1, <2>2, <2>3, <2>4 DEF BuildArtifacts, CmdInv, CmdTypeOK, Stages
<1>7. ReportInv'
  BY <1>0, <1>5, SameReport
     DEF BuildArtifacts, CmdInv, WithVerdict, WithTrend, WithReport, Stages, BeforePublish
<1>8. ArtifactsInv'
  <2>1. report = [report EXCEPT !.integrations = FALSE]
    BY <1>1 DEF Reports
  <2>2. config' = config /\ build' = build /\ report' = report
    BY DEF BuildArtifacts
  <2> QED BY <1>0, <1>2, <1>4, <2>1, <2>2 DEF ArtifactsInv, BeforeArtifacts, NeedsReplay
<1>9. DiskInv' /\ GatedInv' /\ VerdictsAgree'
  BY <1>0, BeforeWriteKeepsDisk DEF BuildArtifacts, CmdInv, BeforeWrite, BeforeArtifacts
<1>10. ExitInv' /\ ExitMatchesReport' /\ SuccessIsDurable'
  BY <1>0, GoingOn DEF BuildArtifacts, CmdInv
<1> QED BY <1>6, <1>7, <1>8, <1>9, <1>10 DEF CmdInv

\* The integrations add what came of them, and the attestation has the report
\* without it.
LEMMA PublishKeeps ==
  ASSUME CmdInv, Publish
  PROVE  CmdInv'
<1>0. stage = "publish" /\ stage' = "write"
  BY DEF Publish
<1>1. report \in Reports /\ report.build = build
  BY <1>0 DEF CmdInv, CmdTypeOK, ReportInv, WithReport, Stages
<1>2. config.sinks \in BOOLEAN
  BY CommandAssumption DEF CmdInv, CmdTypeOK, ConfigRecords
<1>3. report' = [report EXCEPT !.integrations = config.sinks]
  BY DEF Publish
<1>4. /\ report' \in Reports /\ report'.build = build /\ report'.passed = report.passed
      /\ report'.trend = report.trend
      /\ HistoryRun(report') = HistoryRun(report)
      /\ [report' EXCEPT !.integrations = FALSE] = [report EXCEPT !.integrations = FALSE]
  BY <1>1, <1>2, <1>3 DEF Reports, HistoryRun
<1>5. \A previous : Breached(report', previous) = Breached(report, previous)
  <2>1. /\ report'.failedSuites = report.failedSuites
        /\ report'.failedCases = report.failedCases
        /\ report'.suites = report.suites
        /\ report'.duration = report.duration
    BY <1>1, <1>3 DEF Reports
  <2> QED BY <2>1 DEF Breached, RegressedSuites
<1>6. CmdTypeOK'
  <2>1. RunnerTypeOK'
    BY DEF Publish, CmdInv, CmdTypeOK, RunnerTypeOK, runnerVars
  <2> QED BY <1>4, <2>1 DEF Publish, CmdInv, CmdTypeOK, Stages
<1>7. ReportInv'
  <2>1. config.trend /\ report.passed => "trend" \in warnings \/ InHistory(report)
    BY <1>0 DEF CmdInv, ReportInv, WithReport, WithTrend, Stages
  <2>2. Gated(report)
    BY <1>0 DEF CmdInv, ReportInv, WithReport, WithTrend, WithVerdict, Stages
  <2>3. config' = config /\ warnings' = warnings /\ history' = history /\ build' = build
    BY DEF Publish
  <2> QED BY <1>0, <1>4, <1>5, <2>1, <2>2, <2>3 DEF ReportInv, Gated, InHistory, BeforePublish
<1>8. ArtifactsInv'
  <2>1. /\ config' = config /\ build' = build /\ replay' = replay /\ attest' = attest
        /\ warnings' = warnings
    BY DEF Publish
  <2> QED BY <1>0, <1>4, <2>1
       DEF CmdInv, ArtifactsInv, BeforeArtifacts, WithArtifacts, WithVerdict, WithTrend, WithReport,
           Stages, NeedsReplay
<1>9. DiskInv' /\ GatedInv' /\ VerdictsAgree'
  BY <1>0, BeforeWriteKeepsDisk DEF Publish, CmdInv, BeforeWrite, BeforeArtifacts
<1>10. ExitInv' /\ ExitMatchesReport' /\ SuccessIsDurable'
  BY <1>0, GoingOn DEF Publish, CmdInv
<1> QED BY <1>6, <1>7, <1>8, <1>9, <1>10 DEF CmdInv

\* Two verdicts of one build agree; and what was attested was written.
Agree(a, b) == a # Nothing /\ b # Nothing /\ a.build = b.build => a.passed = b.passed

Attested ==
  disk.report # Nothing /\ disk.attest # Nothing /\ disk.report.build = disk.attest.build =>
    disk.attest.digest = [disk.report EXCEPT !.integrations = FALSE]

FilesAgree ==
  /\ Agree(disk.report, disk.replay) /\ Agree(disk.report, disk.attest) /\ Agree(disk.replay, disk.attest)
  /\ Attested

LEMMA AgreementOfFiles == (VerdictsAgree => FilesAgree) /\ (FilesAgree => VerdictsAgree)
<1>1. VerdictsAgree => FilesAgree
  BY DEF FilesAgree, Agree, Attested, VerdictsAgree
<1>2. FilesAgree => VerdictsAgree
  BY DEF FilesAgree, Agree, Attested, VerdictsAgree
<1> QED BY <1>1, <1>2

\* The files of a build in the order in which it writes them.
LEMMA WriteReportKeeps ==
  ASSUME CmdInv, WriteReport
  PROVE  CmdInv'
<1>0. stage = "write"
  BY DEF WriteReport
<1>1. report \in Reports /\ report.build = build /\ Gated(report) /\ report # Nothing
  BY <1>0, SomethingIsNotNothing
     DEF CmdInv, CmdTypeOK, ReportInv, WithVerdict, WithTrend, WithReport, Stages
<1>2. /\ disk.report # Nothing => disk.report.build < build
      /\ disk.replay # Nothing => disk.replay.build < build
      /\ disk.attest # Nothing => disk.attest.build < build
      /\ build \in Nat
  BY <1>0, DiskTypes DEF CmdInv, DiskInv, BeforeWrite
<1>3. disk \in [report : Reports \cup {Nothing}, replay : Replays \cup {Nothing},
                attest : Attestations \cup {Nothing}]
  BY DEF CmdInv, CmdTypeOK
<1>4. RunnerTypeOK'
  BY DEF WriteReport, CmdInv, CmdTypeOK, RunnerTypeOK, runnerVars
<1>5. CASE disk' = [disk EXCEPT !.report = report] /\ stage' = "replay" /\ exit' = exit
  <2>1. /\ disk'.report = report /\ disk'.replay = disk.replay /\ disk'.attest = disk.attest
        /\ disk' \in [report : Reports \cup {Nothing}, replay : Replays \cup {Nothing},
                      attest : Attestations \cup {Nothing}]
    BY <1>1, <1>3, <1>5
  <2>2. CmdTypeOK'
    BY <1>4, <1>5, <2>1 DEF WriteReport, CmdInv, CmdTypeOK, Stages
  <2>3. ReportInv'
    BY <1>0, <1>5, SameReport
       DEF WriteReport, CmdInv, WithVerdict, WithTrend, WithReport, Stages, BeforePublish
  <2>4. ArtifactsInv'
    BY <1>0, <1>5 DEF WriteReport, CmdInv, ArtifactsInv, BeforeArtifacts, WithArtifacts, WithVerdict,
       WithTrend, WithReport, Stages, NeedsReplay
  <2>5. DiskInv'
    <3>1. /\ disk.replay # Nothing => disk.replay.build <= build
          /\ disk.attest # Nothing => disk.attest.build <= build
          /\ report.build <= build
      BY <1>1, <1>2, DiskTypes DEF CmdInv
    <3>2. build' = build /\ report' = report
      BY DEF WriteReport
    <3> QED BY <1>2, <1>5, <2>1, <3>1, <3>2
         DEF DiskInv, BeforeWrite, BeforeArtifacts, ReplayWritten, AttestWritten
  <2>6. GatedInv'
    BY <1>1, <2>1 DEF WriteReport, GatedInv, Gated
  <2>7. VerdictsAgree'
    <3>1. FilesAgree
      BY AgreementOfFiles DEF CmdInv
    <3>2. /\ disk.replay # Nothing => disk.replay.build # build
          /\ disk.attest # Nothing => disk.attest.build # build
      BY <1>2, DiskTypes DEF CmdInv
    <3>3. FilesAgree'
      BY <1>1, <2>1, <3>1, <3>2 DEF FilesAgree, Agree, Attested
    <3> QED BY <3>3 DEF FilesAgree, Agree, Attested, VerdictsAgree
  <2>8. ExitInv' /\ ExitMatchesReport' /\ SuccessIsDurable'
    BY <1>0, <1>5, GoingOn DEF CmdInv
  <2> QED BY <2>2, <2>3, <2>4, <2>5, <2>6, <2>7, <2>8 DEF CmdInv
<1>6. CASE disk' \in {disk, [disk EXCEPT !.report = Nothing]} /\ stage' = "exited" /\ exit' = 2
  <2>1. /\ disk'.report \in {disk.report, Nothing}
        /\ disk'.replay = disk.replay /\ disk'.attest = disk.attest
        /\ disk' \in [report : Reports \cup {Nothing}, replay : Replays \cup {Nothing},
                      attest : Attestations \cup {Nothing}]
    BY <1>3, <1>6
  <2>2. CmdTypeOK'
    BY <1>4, <1>6, <2>1 DEF WriteReport, CmdInv, CmdTypeOK, Stages
  <2>3. ReportInv' /\ ArtifactsInv'
    BY <1>6 DEF ReportInv, ArtifactsInv, WithReport, WithTrend, WithVerdict, WithArtifacts,
       BeforePublish, BeforeArtifacts
  <2>4. DiskInv'
    <3>1. /\ disk'.report # Nothing => disk'.report.build <= build
          /\ disk.replay # Nothing => disk.replay.build <= build
          /\ disk.attest # Nothing => disk.attest.build <= build
      BY <2>1 DEF CmdInv, DiskInv
    <3>2. build' = build
      BY DEF WriteReport
    <3> QED BY <1>6, <2>1, <3>1, <3>2
         DEF DiskInv, BeforeWrite, BeforeArtifacts, ReportWritten, ReplayWritten, AttestWritten
  <2>5. GatedInv'
    BY <2>1 DEF WriteReport, CmdInv, GatedInv, Gated
  <2>6. VerdictsAgree'
    <3>1. FilesAgree
      BY AgreementOfFiles DEF CmdInv
    <3>2. FilesAgree'
      BY <2>1, <3>1 DEF FilesAgree, Agree, Attested
    <3> QED BY <3>2 DEF FilesAgree, Agree, Attested, VerdictsAgree
  <2>7. ExitInv' /\ SuccessIsDurable'
    BY <1>6 DEF ExitInv, SuccessIsDurable, Finished
  <2>8. ExitMatchesReport'
    <3>1. disk'.report # Nothing => disk'.report.build # build
      BY <1>2, <2>1, DiskTypes DEF CmdInv
    <3> QED BY <1>6, <3>1 DEF WriteReport, ExitMatchesReport, Finished
  <2> QED BY <2>2, <2>3, <2>4, <2>5, <2>6, <2>7, <2>8 DEF CmdInv
<1> QED BY <1>5, <1>6 DEF WriteReport

\* The artifact's file is this run's, or as it was, or gone.
LEMMA PersistReplayKeeps ==
  ASSUME CmdInv, PersistReplay
  PROVE  CmdInv'
<1>0. stage = "replay" /\ stage' = "attest"
  BY DEF PersistReplay
<1>1. /\ report.build = build /\ disk.report = report /\ build \in Nat
      /\ disk.replay # Nothing => disk.replay.build # build
      /\ disk.attest # Nothing => disk.attest.build # build
  <2>1. /\ disk.replay # Nothing => disk.replay.build < build
        /\ disk.attest # Nothing => disk.attest.build < build
        /\ report.build = build /\ disk.report = report
    BY <1>0 DEF CmdInv, DiskInv, BeforeWrite, ReportInv, WithReport, ReportWritten, Stages
  <2> QED BY <2>1, DiskTypes DEF CmdInv
<1>2. /\ replay \in Replays \cup {Nothing}
      /\ config.replay => replay = [build |-> build, passed |-> report.passed]
  BY <1>0 DEF CmdInv, CmdTypeOK, ArtifactsInv, NeedsReplay, WithArtifacts, WithVerdict, WithTrend,
     WithReport, Stages
<1>3. disk \in [report : Reports \cup {Nothing}, replay : Replays \cup {Nothing},
                attest : Attestations \cup {Nothing}]
  BY DEF CmdInv, CmdTypeOK
<1>4. /\ disk'.report = disk.report /\ disk'.attest = disk.attest
      /\ \/ disk'.replay = disk.replay \/ disk'.replay = Nothing
         \/ disk'.replay = replay /\ config.replay
      /\ config.replay => disk'.replay = replay \/ "replay" \in warnings'
      /\ disk' \in [report : Reports \cup {Nothing}, replay : Replays \cup {Nothing},
                    attest : Attestations \cup {Nothing}]
  <2>1. CASE ~config.replay /\ UNCHANGED disk
    BY <1>3, <2>1
  <2>2. CASE config.replay /\ disk' = [disk EXCEPT !.replay = replay]
    BY <1>2, <1>3, <2>2
  <2>3. CASE disk' \in {disk, [disk EXCEPT !.replay = Nothing]} /\ Warn("replay")
    BY <1>3, <2>3 DEF Warn
  <2> QED BY <2>1, <2>2, <2>3 DEF PersistReplay
<1>5. warnings \subseteq warnings' /\ warnings' \subseteq warnings \cup {"replay"}
  BY DEF PersistReplay, Warn
<1>6. CmdTypeOK'
  <2>1. RunnerTypeOK'
    BY DEF PersistReplay, CmdInv, CmdTypeOK, RunnerTypeOK, runnerVars
  <2>2. warnings' \subseteq {"trend", "attestation", "replay", "attestation write", "comment"}
    BY <1>5 DEF CmdInv, CmdTypeOK
  <2> QED BY <1>4, <2>1, <2>2 DEF PersistReplay, CmdInv, CmdTypeOK, Stages
<1>7. ReportInv'
  BY <1>0, <1>5, SameReport
     DEF PersistReplay, CmdInv, WithVerdict, WithTrend, WithReport, Stages, BeforePublish
<1>8. ArtifactsInv'
  BY <1>0, <1>5 DEF PersistReplay, CmdInv, ArtifactsInv, BeforeArtifacts, WithArtifacts, WithVerdict,
     WithTrend, WithReport, Stages, NeedsReplay
<1>9. DiskInv'
  <2>1. /\ disk'.report # Nothing => disk'.report.build <= build
        /\ disk'.replay # Nothing => disk'.replay.build <= build
        /\ disk'.attest # Nothing => disk'.attest.build <= build
        /\ disk'.attest # Nothing => disk'.attest.build < build
    <3>1. /\ disk.report # Nothing => disk.report.build <= build
          /\ disk.replay # Nothing => disk.replay.build <= build
          /\ disk.attest # Nothing => disk.attest.build <= build
          /\ disk.attest # Nothing => disk.attest.build < build
      BY <1>0 DEF CmdInv, DiskInv, BeforeWrite
    <3>2. config.replay => replay.build <= build
      BY <1>1, <1>2
    <3> QED BY <1>4, <3>1, <3>2
  <2>2. disk'.replay # Nothing /\ disk'.replay.build = build => disk'.replay = replay
    BY <1>1, <1>4
  <2>3. build' = build /\ report' = report /\ replay' = replay /\ attest' = attest /\ config' = config
    BY DEF PersistReplay
  <2> QED BY <1>0, <1>1, <1>4, <2>1, <2>2, <2>3
       DEF DiskInv, BeforeWrite, BeforeArtifacts, ReportWritten, AttestWritten
<1>10. GatedInv'
  BY <1>4 DEF PersistReplay, CmdInv, GatedInv, Gated
<1>11. VerdictsAgree'
  <2>1. FilesAgree
    BY AgreementOfFiles DEF CmdInv
  <2>2. FilesAgree'
    BY <1>1, <1>2, <1>4, <2>1 DEF FilesAgree, Agree, Attested
  <2> QED BY <2>2 DEF FilesAgree, Agree, Attested, VerdictsAgree
<1>12. ExitInv' /\ ExitMatchesReport' /\ SuccessIsDurable'
  BY <1>0, GoingOn DEF PersistReplay, CmdInv
<1> QED BY <1>6, <1>7, <1>8, <1>9, <1>10, <1>11, <1>12 DEF CmdInv

\* The attestation's file likewise.
LEMMA PersistAttestationKeeps ==
  ASSUME CmdInv, PersistAttestation
  PROVE  CmdInv'
<1>0. stage = "attest" /\ stage' = "side"
  BY DEF PersistAttestation
<1>1. /\ report.build = build /\ disk.report = report /\ build \in Nat
      /\ disk.replay # Nothing /\ disk.replay.build = build => disk.replay = replay
      /\ disk.attest # Nothing => disk.attest.build # build
  <2>1. /\ disk.replay # Nothing /\ disk.replay.build = build => disk.replay = replay
        /\ disk.attest # Nothing => disk.attest.build < build
        /\ report.build = build /\ disk.report = report
    BY <1>0 DEF CmdInv, DiskInv, BeforeWrite, ReportInv, WithReport, ReportWritten, ReplayWritten, Stages
  <2> QED BY <2>1, DiskTypes DEF CmdInv
<1>2. /\ attest \in Attestations \cup {Nothing}
      /\ attest # Nothing => attest = [build |-> build, passed |-> report.passed,
                                       digest |-> [report EXCEPT !.integrations = FALSE]]
  BY <1>0 DEF CmdInv, CmdTypeOK, ArtifactsInv, WithArtifacts, WithVerdict, WithTrend, WithReport, Stages
<1>3. disk \in [report : Reports \cup {Nothing}, replay : Replays \cup {Nothing},
                attest : Attestations \cup {Nothing}]
  BY DEF CmdInv, CmdTypeOK
<1>4. /\ disk'.report = disk.report /\ disk'.replay = disk.replay
      /\ \/ disk'.attest = disk.attest \/ disk'.attest = Nothing
         \/ disk'.attest = attest /\ attest # Nothing
      /\ attest # Nothing => disk'.attest = attest \/ "attestation write" \in warnings'
      /\ disk' \in [report : Reports \cup {Nothing}, replay : Replays \cup {Nothing},
                    attest : Attestations \cup {Nothing}]
  <2>1. CASE attest = Nothing /\ UNCHANGED disk
    BY <1>3, <2>1
  <2>2. CASE attest # Nothing /\ disk' = [disk EXCEPT !.attest = attest]
    BY <1>2, <1>3, <2>2
  <2>3. CASE disk' \in {disk, [disk EXCEPT !.attest = Nothing]} /\ Warn("attestation write")
    BY <1>3, <2>3 DEF Warn
  <2> QED BY <2>1, <2>2, <2>3 DEF PersistAttestation
<1>5. warnings \subseteq warnings' /\ warnings' \subseteq warnings \cup {"attestation write"}
  BY DEF PersistAttestation, Warn
<1>6. CmdTypeOK'
  <2>1. RunnerTypeOK'
    BY DEF PersistAttestation, CmdInv, CmdTypeOK, RunnerTypeOK, runnerVars
  <2>2. warnings' \subseteq {"trend", "attestation", "replay", "attestation write", "comment"}
    BY <1>5 DEF CmdInv, CmdTypeOK
  <2> QED BY <1>4, <2>1, <2>2 DEF PersistAttestation, CmdInv, CmdTypeOK, Stages
<1>7. ReportInv'
  BY <1>0, <1>5, SameReport
     DEF PersistAttestation, CmdInv, WithVerdict, WithTrend, WithReport, Stages, BeforePublish
<1>8. ArtifactsInv'
  BY <1>0, <1>5 DEF PersistAttestation, CmdInv, ArtifactsInv, BeforeArtifacts, WithArtifacts,
     WithVerdict, WithTrend, WithReport, Stages, NeedsReplay
<1>9. DiskInv'
  <2>1. /\ disk'.report # Nothing => disk'.report.build <= build
        /\ disk'.replay # Nothing => disk'.replay.build <= build
        /\ disk'.attest # Nothing => disk'.attest.build <= build
        /\ config.replay => disk.replay = replay \/ "replay" \in warnings
    <3>1. /\ disk.report # Nothing => disk.report.build <= build
          /\ disk.replay # Nothing => disk.replay.build <= build
          /\ disk.attest # Nothing => disk.attest.build <= build
          /\ config.replay => disk.replay = replay \/ "replay" \in warnings
      BY <1>0 DEF CmdInv, DiskInv, ReplayWritten
    <3>2. attest # Nothing => attest.build <= build
      BY <1>1, <1>2
    <3> QED BY <1>4, <3>1, <3>2
  <2>2. build' = build /\ report' = report /\ replay' = replay /\ attest' = attest /\ config' = config
    BY DEF PersistAttestation
  <2> QED BY <1>0, <1>1, <1>4, <1>5, <2>1, <2>2
       DEF DiskInv, BeforeWrite, BeforeArtifacts, ReportWritten
<1>10. GatedInv'
  BY <1>4 DEF PersistAttestation, CmdInv, GatedInv, Gated
<1>11. VerdictsAgree'
  <2>1. FilesAgree
    BY AgreementOfFiles DEF CmdInv
  <2>2. disk.replay # Nothing /\ disk.replay.build = build => disk.replay.passed = report.passed
    <3>1. disk.report # Nothing
      BY <1>1, SomethingIsNotNothing DEF CmdInv, CmdTypeOK
    <3> QED BY <1>1, <2>1, <3>1 DEF FilesAgree, Agree
  <2>3. FilesAgree'
    <3>1. CASE disk'.attest \in {disk.attest, Nothing}
      BY <1>4, <2>1, <3>1 DEF FilesAgree, Agree, Attested
    <3>2. CASE disk'.attest = attest /\ attest # Nothing
      <4>1. /\ attest.build = build /\ attest.passed = report.passed
            /\ attest.digest = [report EXCEPT !.integrations = FALSE]
        BY <1>2, <3>2
      <4> QED BY <1>1, <1>4, <2>1, <2>2, <3>2, <4>1 DEF FilesAgree, Agree, Attested
    <3> QED BY <1>4, <3>1, <3>2
  <2> QED BY <2>3 DEF FilesAgree, Agree, Attested, VerdictsAgree
<1>12. ExitInv' /\ ExitMatchesReport' /\ SuccessIsDurable'
  BY <1>0, GoingOn DEF PersistAttestation, CmdInv
<1> QED BY <1>6, <1>7, <1>8, <1>9, <1>10, <1>11, <1>12 DEF CmdInv

\* The side outputs write nothing anybody reads again.
LEMMA SideOutputsKeeps ==
  ASSUME CmdInv, SideOutputs
  PROVE  CmdInv'
<1>0. stage = "side" /\ stage' = "exit"
  BY DEF SideOutputs
<1>1. warnings \subseteq warnings' /\ warnings' \subseteq warnings \cup {"comment"}
  BY DEF SideOutputs, Warn
<1>2. CmdTypeOK'
  <2>1. RunnerTypeOK'
    BY DEF SideOutputs, CmdInv, CmdTypeOK, RunnerTypeOK, runnerVars
  <2>2. warnings' \subseteq {"trend", "attestation", "replay", "attestation write", "comment"}
    BY <1>1 DEF CmdInv, CmdTypeOK
  <2> QED BY <2>1, <2>2 DEF SideOutputs, CmdInv, CmdTypeOK, Stages
<1>3. ReportInv'
  BY <1>0, <1>1, SameReport
     DEF SideOutputs, CmdInv, WithVerdict, WithTrend, WithReport, Stages, BeforePublish
<1>4. ArtifactsInv'
  BY <1>0, <1>1 DEF SideOutputs, CmdInv, ArtifactsInv, BeforeArtifacts, WithArtifacts, WithVerdict,
     WithTrend, WithReport, Stages, NeedsReplay
<1>5. DiskInv'
  BY <1>0, <1>1 DEF SideOutputs, CmdInv, DiskInv, BeforeWrite, BeforeArtifacts, ReportWritten,
     ReplayWritten, AttestWritten
<1>6. GatedInv' /\ VerdictsAgree'
  BY DEF SideOutputs, CmdInv, GatedInv, Gated, VerdictsAgree
<1>7. ExitInv' /\ ExitMatchesReport' /\ SuccessIsDurable'
  BY <1>0, GoingOn DEF SideOutputs, CmdInv
<1> QED BY <1>2, <1>3, <1>4, <1>5, <1>6, <1>7 DEF CmdInv

\* A command that has exited has no stage left, and the disk stays as it is
\* but for a file that was being written.
LEMMA ExitedKeeps ==
  ASSUME CmdInv, stage' = "exited", exit' \in {Killed, 0, 1, 2}, RunnerTypeOK',
         UNCHANGED <<config, build, report, replay, attest, warnings, history>>,
         disk' \in {disk, [disk EXCEPT !.report = Nothing], [disk EXCEPT !.replay = Nothing],
                    [disk EXCEPT !.attest = Nothing]}
  PROVE  /\ CmdTypeOK' /\ ReportInv' /\ ArtifactsInv' /\ DiskInv' /\ GatedInv'
         /\ ExitInv' /\ VerdictsAgree'
<1>1. disk \in [report : Reports \cup {Nothing}, replay : Replays \cup {Nothing},
                attest : Attestations \cup {Nothing}]
  BY DEF CmdInv, CmdTypeOK
<1>2. /\ disk' \in [report : Reports \cup {Nothing}, replay : Replays \cup {Nothing},
                    attest : Attestations \cup {Nothing}]
      /\ disk'.report \in {disk.report, Nothing}
      /\ disk'.replay \in {disk.replay, Nothing}
      /\ disk'.attest \in {disk.attest, Nothing}
  BY <1>1
<1>3. CmdTypeOK'
  BY <1>2 DEF CmdInv, CmdTypeOK, Stages
<1>4. ReportInv' /\ ArtifactsInv' /\ ExitInv'
  BY DEF ReportInv, ArtifactsInv, ExitInv, WithReport, WithTrend, WithVerdict, WithArtifacts,
     BeforePublish, BeforeArtifacts
<1>5. DiskInv'
  <2>1. /\ disk'.report # Nothing => disk'.report.build <= build
        /\ disk'.replay # Nothing => disk'.replay.build <= build
        /\ disk'.attest # Nothing => disk'.attest.build <= build
    BY <1>2 DEF CmdInv, DiskInv
  <2> QED BY <2>1 DEF DiskInv, BeforeWrite, BeforeArtifacts, ReportWritten, ReplayWritten, AttestWritten
<1>6. GatedInv'
  BY <1>2 DEF CmdInv, GatedInv, Gated
<1>7. VerdictsAgree'
  <2>1. FilesAgree
    BY AgreementOfFiles DEF CmdInv
  <2>2. FilesAgree'
    BY <1>2, <2>1 DEF FilesAgree, Agree, Attested
  <2> QED BY <2>2 DEF FilesAgree, Agree, Attested, VerdictsAgree
<1> QED BY <1>3, <1>4, <1>5, <1>6, <1>7

\* Exit code 0 and 1 are the verdict of the report on disk, and 0 means that
\* there was no warning.
LEMMA ExitKeeps ==
  ASSUME CmdInv, Exit
  PROVE  CmdInv'
<1>0. stage = "exit" /\ stage' = "exited"
  BY DEF Exit
<1>1. exit' = IF ~report.passed THEN 1 ELSE IF warnings # {} THEN 2 ELSE 0
  BY DEF Exit
<1>2. /\ report \in Reports /\ report.build = build /\ disk.report = report
      /\ report.passed \in BOOLEAN
  <2>1. report \in Reports /\ report.build = build /\ disk.report = report
    BY <1>0 DEF CmdInv, CmdTypeOK, ReportInv, WithReport, Stages, DiskInv, ReportWritten
  <2> QED BY <2>1 DEF Reports
<1>3. /\ CmdTypeOK' /\ ReportInv' /\ ArtifactsInv' /\ DiskInv' /\ GatedInv'
      /\ ExitInv' /\ VerdictsAgree'
  <2>1. RunnerTypeOK'
    BY DEF Exit, CmdInv, CmdTypeOK, RunnerTypeOK, runnerVars
  <2> QED BY <1>0, <1>1, <2>1, ExitedKeeps DEF Exit
<1>4. ExitMatchesReport'
  <2>1. report # Nothing
    BY <1>2, SomethingIsNotNothing
  <2> QED BY <1>1, <1>2, <2>1 DEF Exit, ExitMatchesReport, Finished
<1>5. SuccessIsDurable'
  <2> SUFFICES ASSUME report.passed, warnings = {}
               PROVE  SuccessIsDurable'
    BY <1>1 DEF SuccessIsDurable, Finished
  <2>1. config.replay => disk.replay # Nothing /\ disk.replay.build = build
    <3>1. config.replay => disk.replay = replay /\ replay = [build |-> build, passed |-> report.passed]
      BY <1>0 DEF CmdInv, DiskInv, ReplayWritten, ArtifactsInv, NeedsReplay, WithArtifacts,
         WithVerdict, WithTrend, WithReport, Stages
    <3> SUFFICES ASSUME config.replay
                 PROVE  disk.replay # Nothing /\ disk.replay.build = build
      OBVIOUS
    <3>2. replay = [build |-> build, passed |-> report.passed] /\ disk.replay = replay
      BY <3>1
    <3>3. build \in Nat
      BY DiskTypes DEF CmdInv
    <3>4. [build |-> build, passed |-> report.passed] \in Replays
      BY <1>2, <3>3 DEF Replays
    <3>5. replay.build = build
      BY <3>2
    <3>6. replay \in Replays
      BY <3>2, <3>4
    <3>7. replay # Nothing
      BY <3>6, SomethingIsNotNothing
    <3> QED BY <3>2, <3>5, <3>7
  <2>2. config.attest => disk.attest # Nothing /\ disk.attest.build = build
    <3>1. config.attest => attest # Nothing /\ disk.attest = attest
      BY <1>0 DEF CmdInv, DiskInv, AttestWritten, ArtifactsInv, WithArtifacts, WithVerdict,
         WithTrend, WithReport, Stages
    <3>2. attest # Nothing => attest.build = build
      BY <1>0 DEF CmdInv, ArtifactsInv, WithArtifacts, WithVerdict, WithTrend, WithReport, Stages
    <3> QED BY <3>1, <3>2
  <2>3. config.trend => InHistory(report)
    BY <1>0 DEF CmdInv, ReportInv, WithTrend, WithReport, Stages
  <2> QED BY <2>1, <2>2, <2>3 DEF Exit, SuccessIsDurable, Finished, InHistory
<1> QED BY <1>3, <1>4, <1>5 DEF CmdInv

\* A killed process has said nothing, and has at most cut one file short.
LEMMA KillKeeps ==
  ASSUME CmdInv, Kill
  PROVE  CmdInv'
<1>1. RunnerTypeOK'
  BY DEF Kill, CmdInv, CmdTypeOK, RunnerTypeOK, runnerVars
<1>2. disk' \in {disk, [disk EXCEPT !.report = Nothing], [disk EXCEPT !.replay = Nothing],
                 [disk EXCEPT !.attest = Nothing]}
  <2>1. DOMAIN disk = {"report", "replay", "attest"}
    BY DEF CmdInv, CmdTypeOK
  <2>2. CASE stage = "replay"
    BY <2>1, <2>2 DEF Kill
  <2>3. CASE stage = "attest"
    BY <2>1, <2>3 DEF Kill
  <2>4. CASE stage \notin {"replay", "attest"}
    <3>1. stage # "report"
      BY DEF CmdInv, CmdTypeOK, Stages
    <3> QED BY <2>1, <2>4, <3>1 DEF Kill
  <2> QED BY <2>2, <2>3, <2>4
<1>3. /\ CmdTypeOK' /\ ReportInv' /\ ArtifactsInv' /\ DiskInv' /\ GatedInv'
      /\ ExitInv' /\ VerdictsAgree'
  BY <1>1, <1>2, ExitedKeeps DEF Kill
<1>4. ExitMatchesReport' /\ SuccessIsDurable'
  BY DEF Kill, Killed, ExitMatchesReport, SuccessIsDurable, Finished
<1> QED BY <1>3, <1>4 DEF CmdInv

LEMMA CmdInvStep ==
  ASSUME CmdInv, [CmdNext]_allVars
  PROVE  CmdInv'
<1>1. CASE UNCHANGED allVars
  <2>1. RunnerTypeOK'
    BY <1>1 DEF allVars, runnerVars, CmdInv, CmdTypeOK, RunnerTypeOK
  <2> QED BY <1>1, <2>1, SuitesKeep DEF allVars
<1>2. CASE RunSuites
  <2>1. RunnerTypeOK'
    BY <1>2, RunnerKeepsType DEF RunSuites, CmdInv, CmdTypeOK
  <2> QED BY <1>2, <2>1, SuitesKeep DEF RunSuites
<1>3. CASE Interrupt
  <2>1. RunnerTypeOK'
    BY <1>3 DEF Interrupt, Cancel, runnerVars, CmdInv, CmdTypeOK, RunnerTypeOK
  <2> QED BY <1>3, <2>1, SuitesKeep DEF Interrupt
<1> QED BY <1>1, <1>2, <1>3, StartCommandKeeps, ConfigErrorKeeps, BuildReportKeeps, AttachTrendKeeps,
           EvaluateGatesKeeps, BuildArtifactsKeeps, PublishKeeps, WriteReportKeeps, PersistReplayKeeps,
           PersistAttestationKeeps, SideOutputsKeeps, ExitKeeps, KillKeeps
        DEF CmdNext, CommandStep

-----------------------------------------------------------------------------
\* The invariant holds of every state that can be reached.
THEOREM CommandInvariant == CmdSpec => []CmdInv
<1> QED BY CmdInvInit, CmdInvStep, PTL DEF CmdSpec

\* Whatever fails, exit code, report, artifact and attestation of one build
\* never contradict each other: 0 and 1 are the verdict of this build's report
\* on disk, and 2 never covers up a written report that failed.
THEOREM CommandHasOneVerdict == CmdSpec => []OneVerdict
<1>1. CmdInv => OneVerdict
  BY DEF CmdInv, OneVerdict
<1> QED BY <1>1, CommandInvariant, PTL

\* Exit code 0 means that the artifact, the attestation and the entry in the
\* trend file that the configuration asks for are there, and of this build.
THEOREM CommandSuccessIsDurable == CmdSpec => []SuccessIsDurable
<1>1. CmdInv => SuccessIsDurable
  BY DEF CmdInv
<1> QED BY <1>1, CommandInvariant, PTL

\* With gates, no report is on disk that passes without having been compared
\* or without an earlier run to compare with.
THEOREM CommandGatesFailClosed == CmdSpec => []GatesFailClosed
<1>1. CmdInv => GatesFailClosed
  BY DEF CmdInv, GatedInv, Gated, GatesFailClosed
<1> QED BY <1>1, CommandInvariant, PTL
=============================================================================
