----------------------------- MODULE RunCommand -----------------------------
(***************************************************************************)
(* `cleanr run` (internal/cli/cli_run.go), build after build: load the     *)
(* configuration, run the suites (Runner), append the run to the trend      *)
(* file and compare it with the previous one (cleanr/trends), let the trend *)
(* gates flip the verdict, build the replay artifact and the attestation in *)
(* memory, publish the integrations, write the report, then the artifacts,  *)
(* then the side outputs, and turn verdict and warnings into an exit code.  *)
(* Every file operation may fail and the process may be killed between any  *)
(* two of them; the files it left are there for the next build.             *)
(***************************************************************************)
EXTENDS Runner

CONSTANTS Configs,         \* the configurations a command may be given
          Durations,       \* durations a run may take
          RequiredWindow,  \* reporting.trend_gates.required_window
          MaxDurationPct,  \* reporting.trend_gates.max_duration_increase_pct
          TrendLimit,      \* reporting.trend_limit after defaulting
          Builds,          \* bound: number of commands that are started
          Nothing          \* no file, no value

\* trend: trend_file is set; gates: trend_gates.enabled; attest:
\* governance.attestation.enabled; replay: replay_artifact_file is set; sinks:
\* some integration is configured; comment: -github-pr-comment.
ConfigRecords == [trend : BOOLEAN, gates : BOOLEAN, attest : BOOLEAN,
                  replay : BOOLEAN, sinks : BOOLEAN, comment : BOOLEAN]

\* Validation wants a trend file for gates and a window of at least two runs.
ASSUME CommandAssumption ==
  /\ Configs \subseteq {c \in ConfigRecords : c.gates => c.trend}
  /\ Durations \subseteq Nat
  /\ RequiredWindow \in Nat /\ RequiredWindow >= 2
  /\ MaxDurationPct \in Nat
  /\ TrendLimit \in Nat
  /\ Builds \in Nat

VARIABLES config,    \* the configuration of all the builds
          build,     \* number of the current build
          stage,     \* where executeRunCommand is
          report,    \* the report in memory
          replay,    \* the replay artifact in memory
          attest,    \* the attestation in memory
          warnings,  \* persistWarnings
          exit,      \* exit code of the last command, or Running, or Killed
          history,   \* Runs of the trend file
          disk       \* the report, replay and attestation files

cmdVars == <<config, build, stage, report, replay, attest, warnings, exit, history, disk>>
allVars == <<runnerVars, cancelled, cmdVars>>

\* What the trend file keeps of a run, what report.Trend compares it with, the
\* report, and what of the artifact and of the attestation CI may read.
HistoryRuns == [passed : BOOLEAN, duration : Nat, failedSuites : Nat,
                failedCases : Nat, suites : Seq(BOOLEAN)]

Trends == [previous : HistoryRuns \cup {Nothing}, length : Nat]

Reports == [build : Nat, passed : BOOLEAN, duration : Nat, failedSuites : Nat,
            failedCases : Nat, suites : Seq(BOOLEAN), trend : Trends \cup {Nothing},
            gate : {"off", "passed", "failed"}, integrations : BOOLEAN]

Replays == [build : Nat, passed : BOOLEAN]

Attestations == [build : Nat, passed : BOOLEAN, digest : Reports]

\* Nothing is told apart from whatever may be there instead.
ASSUME NothingAssumption ==
  Nothing \notin HistoryRuns \cup Trends \cup Reports \cup Replays \cup Attestations

Stages == {"idle", "run", "trend", "gates", "artifacts", "publish", "write",
           "replay", "attest", "side", "exit", "exited"}

-----------------------------------------------------------------------------
\* BuildRun: what the trend file keeps of a report.
HistoryRun(r) ==
  [passed |-> r.passed, duration |-> r.duration, failedSuites |-> r.failedSuites,
   failedCases |-> r.failedCases, suites |-> r.suites]

\* AppendRun: append and keep the newest TrendLimit runs.
AppendRun(runs, run) ==
  LET all == Append(runs, run)
  IN  IF TrendLimit > 0 /\ Len(all) > TrendLimit
        THEN SubSeq(all, Len(all) - TrendLimit + 1, Len(all)) ELSE all

LatestRun(runs) == IF runs = <<>> THEN Nothing ELSE runs[Len(runs)]

\* report.Trend: the previous run it is compared with, and HistoryLength.
Compare(runs) ==
  [previous |-> LatestRun(runs),
   length   |-> IF TrendLimit > 0 /\ Len(runs) + 1 > TrendLimit
                  THEN TrendLimit ELSE Len(runs) + 1]

\* Suites of both runs that passed before and fail now.  A suite the current
\* run does not have, and one the previous run does not have, are neither.
RegressedSuites(current, previous) ==
  {s \in DOMAIN current.suites \cap DOMAIN previous.suites :
     previous.suites[s] /\ ~current.suites[s]}

\* The thresholds of the strict and moderate presets.
Breached(current, previous) ==
  \/ current.failedSuites > previous.failedSuites
  \/ current.failedCases > previous.failedCases
  \/ RegressedSuites(current, previous) # {}
  \/ /\ previous.duration > 0
     /\ current.duration > previous.duration
     /\ (current.duration - previous.duration) * 100 > MaxDurationPct * previous.duration

\* EvaluateGates does compare: there is a previous run and enough history.
GateApplies(trend) ==
  trend.length >= RequiredWindow /\ trend.previous # Nothing

\* Not an exit code yet; the status of a killed process.
Running == -1
Killed == 137

NoReport == [build |-> 0, passed |-> FALSE, duration |-> 0, failedSuites |-> 0,
             failedCases |-> 0, suites |-> <<>>, trend |-> Nothing,
             gate |-> "off", integrations |-> FALSE]

CmdTypeOK ==
  /\ RunnerTypeOK
  /\ config \in Configs
  /\ build \in 0 .. Builds
  /\ stage \in Stages
  /\ report \in Reports
  /\ replay \in Replays \cup {Nothing}
  /\ attest \in Attestations \cup {Nothing}
  /\ warnings \subseteq {"trend", "attestation", "replay", "attestation write", "comment"}
  /\ exit \in {Running, Killed, 0, 1, 2}
  /\ history \in Seq(HistoryRuns)
  /\ TrendLimit > 0 => Len(history) <= TrendLimit
  /\ disk \in [report : Reports \cup {Nothing}, replay : Replays \cup {Nothing},
               attest : Attestations \cup {Nothing}]

CmdInit ==
  /\ config \in Configs
  /\ build = 0
  /\ stage = "idle"
  /\ report = NoReport
  /\ replay = Nothing
  /\ attest = Nothing
  /\ warnings = {}
  /\ exit = Running
  /\ history = <<>>
  /\ disk = [report |-> Nothing, replay |-> Nothing, attest |-> Nothing]
  /\ Init

-----------------------------------------------------------------------------
\* A build starts the command, with a configuration that loads; ...
StartCommand ==
  /\ stage \in {"idle", "exited"}
  /\ build < Builds
  /\ build' = build + 1
  /\ stage' = "run"
  /\ report' = NoReport
  /\ replay' = Nothing
  /\ attest' = Nothing
  /\ warnings' = {}
  /\ exit' = Running
  /\ phase' = "gate"
  /\ executed' = <<>>
  /\ cancelled' = FALSE
  /\ UNCHANGED <<config, history, disk>>

\* ... or with one that does not load or has no scenarios.
ConfigError ==
  /\ stage \in {"idle", "exited"}
  /\ build < Builds
  /\ build' = build + 1
  /\ stage' = "exited"
  /\ exit' = 2
  /\ UNCHANGED <<runnerVars, cancelled, config, report, replay, attest, warnings, history, disk>>

RunSuites ==
  /\ stage = "run"
  /\ StartSuite \/ EndSuite \/ FinishRun
  /\ UNCHANGED cmdVars

\* The rest of Runner.Run: totals, verdict, duration.
BuildReport ==
  /\ stage = "run"
  /\ phase = "reported"
  /\ \E d \in Durations :
       report' = [NoReport EXCEPT
                    !.build = build,
                    !.passed = RunPassed,
                    !.duration = d,
                    !.failedSuites = FailedSuites,
                    !.failedCases = FailedCases,
                    !.suites = [s \in DOMAIN executed |-> executed[s].passed]]
  /\ stage' = "trend"
  /\ UNCHANGED <<runnerVars, cancelled, config, build, replay, attest, warnings, exit, history, disk>>

Warn(w) == warnings' = warnings \cup {w}

\* AttachAndPersist: the file does not load and the report stays without a
\* trend; or the trend is attached and the file, renamed into place, has the
\* new run or, when the write fails, has not.
AttachTrend ==
  /\ stage = "trend"
  /\ stage' = "gates"
  /\ \/ /\ ~config.trend
        /\ UNCHANGED <<report, history, warnings>>
     \/ /\ config.trend
        /\ Warn("trend")
        /\ UNCHANGED <<report, history>>
     \/ /\ config.trend
        /\ report' = [report EXCEPT !.trend = Compare(history)]
        /\ \/ /\ history' = AppendRun(history, HistoryRun(report))
              /\ UNCHANGED warnings
           \/ /\ Warn("trend")
              /\ UNCHANGED history
  /\ UNCHANGED <<runnerVars, cancelled, config, build, replay, attest, exit, disk>>

\* Mutant: a report without a trend leaves the gate open.
EvaluateGatesFailOpen ==
  /\ stage = "gates"
  /\ stage' = "artifacts"
  /\ LET failing == /\ report.trend # Nothing
                    /\ GateApplies(report.trend)
                    /\ Breached(report, report.trend.previous)
     IN  report' = IF ~config.gates THEN report
                   ELSE [report EXCEPT !.gate = IF failing THEN "failed" ELSE "passed",
                                       !.passed = @ /\ ~failing]
  /\ UNCHANGED <<runnerVars, cancelled, config, build, replay, attest, warnings, exit, history, disk>>

\* EvaluateGates: enabled gates fail the report when it has no trend or when
\* a threshold is breached; they do not compare before there is enough history.
EvaluateGates ==
  /\ stage = "gates"
  /\ stage' = "artifacts"
  /\ LET failing == \/ report.trend = Nothing
                    \/ /\ GateApplies(report.trend)
                       /\ Breached(report, report.trend.previous)
     IN  report' = IF ~config.gates THEN report
                   ELSE [report EXCEPT !.gate = IF failing THEN "failed" ELSE "passed",
                                       !.passed = @ /\ ~failing]
  /\ UNCHANGED <<runnerVars, cancelled, config, build, replay, attest, warnings, exit, history, disk>>

\* Mutant: the artifact records the verdict of the suites, not of the gates.
BuildArtifactsBeforeGates ==
  /\ stage = "artifacts"
  /\ stage' = "publish"
  /\ replay' = IF config.replay \/ config.attest
                 THEN [build |-> build, passed |-> RunPassed] ELSE Nothing
  /\ \/ /\ config.attest
        /\ attest' = [build |-> build, passed |-> report.passed, digest |-> report]
        /\ UNCHANGED warnings
     \/ /\ config.attest
        /\ Warn("attestation")
        /\ UNCHANGED attest
     \/ /\ ~config.attest
        /\ UNCHANGED <<attest, warnings>>
  /\ UNCHANGED <<runnerVars, cancelled, config, build, report, exit, history, disk>>

NeedsReplay == config.replay \/ config.attest

\* buildReplayArtifact and buildAttestation.  The attestation digests the
\* report as it is now; without a usable key there is none.
BuildArtifacts ==
  /\ stage = "artifacts"
  /\ stage' = "publish"
  /\ replay' = IF NeedsReplay THEN [build |-> build, passed |-> report.passed] ELSE Nothing
  /\ \/ /\ config.attest
        /\ attest' = [build |-> build, passed |-> report.passed, digest |-> report]
        /\ UNCHANGED warnings
     \/ /\ config.attest
        /\ Warn("attestation")
        /\ UNCHANGED attest
     \/ /\ ~config.attest
        /\ UNCHANGED <<attest, warnings>>
  /\ UNCHANGED <<runnerVars, cancelled, config, build, report, exit, history, disk>>

\* publishIntegrations: whatever the remote ends do goes into the report.
Publish ==
  /\ stage = "publish"
  /\ stage' = "write"
  /\ report' = [report EXCEPT !.integrations = config.sinks]
  /\ UNCHANGED <<runnerVars, cancelled, config, build, replay, attest, warnings, exit, history, disk>>

\* writeRunReport: on an error the command returns 2 at once, and the output
\* file may have been created already.
WriteReport ==
  /\ stage = "write"
  /\ \/ /\ disk' = [disk EXCEPT !.report = report]
        /\ stage' = "replay"
        /\ UNCHANGED exit
     \/ /\ disk' \in {disk, [disk EXCEPT !.report = Nothing]}
        /\ exit' = 2
        /\ stage' = "exited"
  /\ UNCHANGED <<runnerVars, cancelled, config, build, report, replay, attest, warnings, history>>

\* Mutant: a failed artifact write is only printed.
PersistReplaySilently ==
  /\ stage = "replay"
  /\ stage' = "attest"
  /\ \/ UNCHANGED disk
     \/ disk' = [disk EXCEPT !.replay = replay]
  /\ UNCHANGED warnings
  /\ UNCHANGED <<runnerVars, cancelled, config, build, report, replay, attest, exit, history>>

PersistReplay ==
  /\ stage = "replay"
  /\ stage' = "attest"
  /\ \/ /\ ~config.replay
        /\ UNCHANGED <<disk, warnings>>
     \/ /\ config.replay
        /\ disk' = [disk EXCEPT !.replay = replay]
        /\ UNCHANGED warnings
     \/ /\ config.replay
        /\ disk' \in {disk, [disk EXCEPT !.replay = Nothing]}
        /\ Warn("replay")
  /\ UNCHANGED <<runnerVars, cancelled, config, build, report, replay, attest, exit, history>>

PersistAttestation ==
  /\ stage = "attest"
  /\ stage' = "side"
  /\ \/ /\ attest = Nothing
        /\ UNCHANGED <<disk, warnings>>
     \/ /\ attest # Nothing
        /\ disk' = [disk EXCEPT !.attest = attest]
        /\ UNCHANGED warnings
     \/ /\ attest # Nothing
        /\ disk' \in {disk, [disk EXCEPT !.attest = Nothing]}
        /\ Warn("attestation write")
  /\ UNCHANGED <<runnerVars, cancelled, config, build, report, replay, attest, exit, history>>

\* emitRunSideOutputs: of the CI outputs only a failed pull request comment is
\* reported back.
SideOutputs ==
  /\ stage = "side"
  /\ stage' = "exit"
  /\ \/ UNCHANGED warnings
     \/ config.comment /\ Warn("comment")
  /\ UNCHANGED <<runnerVars, cancelled, config, build, report, replay, attest, exit, history, disk>>

\* Mutant: the warnings are looked at before the verdict.
ExitWarningsFirst ==
  /\ stage = "exit"
  /\ stage' = "exited"
  /\ exit' = IF warnings # {} THEN 2 ELSE IF report.passed THEN 0 ELSE 1
  /\ UNCHANGED <<runnerVars, cancelled, config, build, report, replay, attest, warnings, history, disk>>

\* Verdict first; warnings only show in the code of a run that passed.
Exit ==
  /\ stage = "exit"
  /\ stage' = "exited"
  /\ exit' = IF ~report.passed THEN 1 ELSE IF warnings # {} THEN 2 ELSE 0
  /\ UNCHANGED <<runnerVars, cancelled, config, build, report, replay, attest, warnings, history, disk>>

\* The process is killed.  The trend file is written to a temporary file and
\* renamed; the others are truncated and written in place.
Kill ==
  /\ stage \notin {"idle", "exited"}
  /\ stage' = "exited"
  /\ exit' = Killed
  /\ disk' \in {disk} \cup
       (IF stage \in DOMAIN disk THEN {[disk EXCEPT ![stage] = Nothing]} ELSE {})
         \cup (IF stage = "write" THEN {[disk EXCEPT !.report = Nothing]} ELSE {})
  /\ UNCHANGED <<runnerVars, cancelled, config, build, report, replay, attest, warnings, history>>

\* SIGINT or the -timeout deadline.  The signal stays captured for the whole
\* command, but only the suites and the integrations look at ctx.
Interrupt ==
  /\ stage = "run"
  /\ Cancel
  /\ UNCHANGED cmdVars

CommandStep ==
  \/ RunSuites \/ BuildReport \/ AttachTrend \/ EvaluateGates \/ BuildArtifacts
  \/ Publish \/ WriteReport \/ PersistReplay \/ PersistAttestation \/ SideOutputs
  \/ Exit

CmdNext == StartCommand \/ ConfigError \/ CommandStep \/ Kill \/ Interrupt

CmdSpec == CmdInit /\ [][CmdNext]_allVars

-----------------------------------------------------------------------------
Finished(codes) == stage = "exited" /\ exit \in codes

\* The exit code and the written report tell CI the same: 0 and 1 are only
\* returned over a report of this very build on disk, with that verdict, and
\* a failed verdict that was written is never masked by a later failure.
ExitMatchesReport ==
  /\ Finished({0, 1}) =>
       /\ disk.report # Nothing /\ disk.report.build = build
       /\ disk.report.passed = (exit = 0)
  /\ Finished({2}) /\ disk.report # Nothing /\ disk.report.build = build =>
       disk.report.passed

\* Exit code 0 means that everything the configuration asks for is on disk
\* for this build; no persistence failure on the way is forgotten.
SuccessIsDurable ==
  Finished({0}) =>
    /\ config.replay => disk.replay # Nothing /\ disk.replay.build = build
    /\ config.attest => disk.attest # Nothing /\ disk.attest.build = build
    /\ config.trend => history # <<>> /\ history[Len(history)] = HistoryRun(report)

\* The three verdicts CI may read agree: whatever the gates did to the
\* report, the artifact and the attestation of the same build say the same,
\* and what was attested is the written report but for what the integrations
\* added to it later.
VerdictsAgree ==
  \A f, g \in {"report", "replay", "attest"} :
    disk[f] # Nothing /\ disk[g] # Nothing /\ disk[f].build = disk[g].build =>
      /\ disk[f].passed = disk[g].passed
      /\ f = "attest" /\ g = "report" =>
           disk.attest.digest = [disk.report EXCEPT !.integrations = FALSE]

\* Exit code, report, artifact and attestation tell one verdict.
OneVerdict == CmdTypeOK /\ ExitMatchesReport /\ VerdictsAgree

\* Enabled gates fail closed: no report that passes is ever written unless it
\* was compared with the previous retained run and no threshold was breached,
\* or the trend file was readable and the window is not full yet.
GatesFailClosed ==
  disk.report # Nothing /\ disk.report.passed /\ config.gates =>
    /\ disk.report.trend # Nothing
    /\ GateApplies(disk.report.trend) =>
         ~Breached(disk.report, disk.report.trend.previous)

\* docs/ci.md: "0: all suites passed".
ZeroMeansAllSuitesPassed ==
  Finished({0}) =>
    /\ Len(executed) = Len(Suites)
    /\ \A s \in DOMAIN executed : executed[s].passed

=============================================================================
