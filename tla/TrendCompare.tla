---------------------------- MODULE TrendCompare ----------------------------
(***************************************************************************)
(* What is said of a build by comparing it (cleanr/trends; the trend sources *)
(* of cleanr/integrations/runtime): the runs of a history, the deltas, case    *)
(* trends, buckets and gates of a report, the analysis of `cleanr trends`, the   *)
(* replay artifact, and the history that an external source is imported as.        *)
(*                                                                                 *)
(* Scores and metrics are thousandths, a message is <<signature, detail>>, and the   *)
(* six drift metrics are the two that have gates.  TrendHistory has the file.         *)
(***************************************************************************)
EXTENDS Integers, Sequences, FiniteSets, SequencesExt, FiniteSetsExt

CONSTANTS Reports,   \* what the suites may report
          Exports,   \* how an external source may hold the builds: see Export
          Gate,      \* reporting.trend_gates
          Limit,     \* reporting.trend_limit
          MaxRuns,   \* bound: builds
          None

VARIABLES history,   \* the runs of the trend file
          reports,   \* the reports of the builds, as the suites made them
          report,    \* the last report, with its trend and gate
          remote,    \* what the trend source answers, or None
          analysis,  \* what `cleanr trends` shows, until something else happens, or None
          moved      \* what the deltas reported so far add up to

vars == <<history, reports, report, remote, analysis, moved>>

Rounded(total, n) == (2 * total + n) \div (2 * n)
Total(S, F(_)) == MapThenSumSet(F, S)

-----------------------------------------------------------------------------
(* Runner.Run's verdicts on what the suites report. *)
CasePasses(c) == c.passed
FailedIn(s) == {i \in DOMAIN s.cases : ~CasePasses(s.cases[i])}
SuitePasses(s) == ~s.broken /\ FailedIn(s) = {}
FailedSuites(r) == Cardinality({i \in DOMAIN r.suites : ~SuitePasses(r.suites[i])})
FailedPlaces(r) == UNION {{i} \X FailedIn(r.suites[i]) : i \in DOMAIN r.suites}
FailedCases(r) == Cardinality(FailedPlaces(r))
Passes(r) == FailedSuites(r) = 0 /\ FailedCases(r) = 0

(* Evidence that a history keeps of a case. *)
Workflow == {"claim-trace", "memory-safety", "provenance", "release-policy", "shadow-state"}

Signatures(messages) == {m[1] : m \in ToSet(messages)}

Evidence(details) == UNION {{<<k, v>> : v \in ToSet(details[k])} : k \in DOMAIN details}

HistoryCase(c) ==
  [name |-> c.name, passed |-> c.passed, signatures |-> Signatures(c.messages),
   claim |-> c.claim, evidence |-> Evidence(c.details)]

\* Mutant: only what has evidence is kept, failed or not.
RetainedWithEvidence(c) == c.signatures # {} \/ c.claim # None \/ c.evidence # {}

Retained(c) == ~c.passed \/ c.signatures # {} \/ c.claim # None \/ c.evidence # {}

AverageScore(cases) ==
  LET scored == {i \in DOMAIN cases : cases[i].score > 0}
  IN  IF scored = {} THEN 0
      ELSE Rounded(Total(scored, LAMBDA i : cases[i].score), Cardinality(scored))

\* summarizeDriftSuite; summarizeLoadSuite takes the first case.
DriftMetrics(s) ==
  IF s.name # "drift" \/ s.cases = <<>> THEN None
  ELSE [m \in {"semantic", "baseline"} |->
          Rounded(Total(DOMAIN s.cases, LAMBDA i : s.cases[i].metrics[m]), Len(s.cases))]
LoadMetrics(s) == IF s.name # "load" \/ s.cases = <<>> THEN None ELSE s.cases[1].metrics

buildSuite(s) ==
  [name |-> s.name, passed |-> SuitePasses(s), failed |-> Cardinality(FailedIn(s)),
   score |-> AverageScore(s.cases), drift |-> DriftMetrics(s), load |-> LoadMetrics(s),
   cases |-> IF s.name \in Workflow
               THEN {c \in {HistoryCase(s.cases[i]) : i \in DOMAIN s.cases} : Retained(c)}
               ELSE {}]

BuildRun(r) ==
  [at |-> r.at, duration |-> r.duration, meta |-> r.meta, passed |-> Passes(r),
   failedSuites |-> FailedSuites(r), failedCases |-> FailedCases(r),
   suites |-> [i \in DOMAIN r.suites |-> buildSuite(r.suites[i])]]

LatestRun(runs) == IF runs = <<>> THEN None ELSE Last(runs)

\* Mutant: a full history keeps its oldest runs.
AppendRunKeepingOldest(runs, run) ==
  IF Limit > 0 /\ Len(runs) >= Limit THEN runs ELSE Append(runs, run)

AppendRun(runs, run) ==
  LET all == Append(runs, run)
  IN  IF Limit > 0 /\ Len(all) > Limit THEN SubSeq(all, Len(all) - Limit + 1, Len(all)) ELSE all

-----------------------------------------------------------------------------
(* Compare. *)
SuiteNamed(run, name) ==
  LET found == {i \in DOMAIN run.suites : run.suites[i].name = name}
  IN  IF found = {} THEN None ELSE run.suites[Max(found)]

suiteTrendStatus(before, now) ==
  CASE before /\ ~now -> "regressed" [] ~before /\ now -> "improved" [] OTHER -> "unchanged"

\* A suite that has no metrics, or the same, has no drift trend.
compareDrift(before, now) ==
  IF now = None THEN None
  ELSE LET delta == [m \in DOMAIN now |-> now[m] - (IF before = None THEN 0 ELSE before[m])]
       IN  IF \A m \in DOMAIN delta : delta[m] = 0 THEN None ELSE delta

SuiteTrend(s, previous) ==
  LET before == SuiteNamed(previous, s.name)
  IN  IF before = None
        THEN [name |-> s.name, status |-> "new", failed |-> s.failed, score |-> s.score,
              drift |-> compareDrift(None, s.drift)]
        ELSE [name |-> s.name, status |-> suiteTrendStatus(before.passed, s.passed),
              failed |-> s.failed - before.failed, score |-> s.score - before.score,
              drift |-> compareDrift(before.drift, s.drift)]

\* The cases of a run, by suite and name; runs of cleanr have one of each.
flattenCases(run) ==
  UNION {{[suite |-> run.suites[i].name, case |-> c] : c \in run.suites[i].cases} : i \in DOMAIN run.suites}

Before(item, previous) ==
  {old \in flattenCases(previous) : old.suite = item.suite /\ old.case.name = item.case.name}

CaseStatus(item, previous) ==
  LET old == Before(item, previous)
      failed == \E o \in old : ~o.case.passed
  IN  CASE old = {} /\ ~item.case.passed -> "new"
        [] old # {} /\ ~failed /\ ~item.case.passed -> "regressed"
        [] failed /\ item.case.passed -> "improved"
        [] failed /\ ~item.case.passed /\ item.case \notin {o.case : o \in old} -> "changed"
        [] OTHER -> "same"

buildCaseTrend(item, previous) ==
  LET old == UNION {o.case.signatures : o \in Before(item, previous)}
  IN  [suite |-> item.suite, case |-> item.case, status |-> CaseStatus(item, previous),
       new |-> item.case.signatures \ old, cleared |-> old \ item.case.signatures]

compareCases(run, previous) ==
  {t \in {buildCaseTrend(item, previous) : item \in flattenCases(run)} : t.status # "same"}

BucketsOf(c) ==
  CASE c.signatures # {} -> {<<"finding", g>> : g \in c.signatures}
    [] c.signatures = {} /\ c.claim # None -> {<<"first unsupported claim", c.claim>>}
    [] OTHER -> {<<"case failed", None>>}

buildFailureBuckets(run) ==
  LET failed == {item \in flattenCases(run) : ~item.case.passed}
  IN  {[signature |-> g, cases |-> {<<i.suite, i.case.name>> : i \in {f \in failed : g \in BucketsOf(f.case)}}] :
         g \in UNION {BucketsOf(f.case) : f \in failed}}

\* The model, and what compareScenarioFingerprints finds new, removed or
\* changed.  A run without metadata has no model.
compareBuildMetadata(now, before) ==
  LET names == DOMAIN now.prints \cup DOMAIN before.prints
      Status(n) == CASE n \notin DOMAIN before.prints -> "new"
                     [] n \notin DOMAIN now.prints -> "removed"
                     [] OTHER -> "changed"
      Same(n) == n \in DOMAIN now.prints \cap DOMAIN before.prints /\ now.prints[n] = before.prints[n]
      diff == [model |-> IF now.model = before.model \/ None \in {now.model, before.model} THEN None
                         ELSE <<before.model, now.model>>,
               scenarios |-> {<<n, Status(n)>> : n \in {m \in names : ~Same(m)}}]
  IN  IF diff.model = None /\ diff.scenarios = {} THEN None ELSE diff

Statuses(trends, status) == {i \in DOMAIN trends : trends[i].status = status}

Compare(run, previous, length) ==
  IF previous = None
    THEN [baseline |-> TRUE, length |-> length, buckets |-> buildFailureBuckets(run)]
    ELSE LET trends == [i \in DOMAIN run.suites |-> SuiteTrend(run.suites[i], previous)]
         IN  [baseline |-> FALSE, length |-> length, before |-> previous.duration,
              diff |-> compareBuildMetadata(run.meta, previous.meta),
              summary |-> [suites |-> run.failedSuites - previous.failedSuites,
                           cases |-> run.failedCases - previous.failedCases,
                           duration |-> run.duration - previous.duration,
                           regressed |-> Cardinality(Statuses(trends, "regressed")),
                           improved |-> Cardinality(Statuses(trends, "improved"))],
              suites |-> trends, cases |-> compareCases(run, previous),
              buckets |-> buildFailureBuckets(run)]

-----------------------------------------------------------------------------
(* EvaluateGates; a threshold that is not set is None. *)
Over(value, max) == max # None /\ value > max

DriftTrend(trend) ==
  LET found == {i \in DOMAIN trend.suites : trend.suites[i].name = "drift" /\ trend.suites[i].drift # None}
  IN  IF found = {} THEN None ELSE trend.suites[Min(found)].drift

Breached(trend) ==
  LET drift == DriftTrend(trend)
  IN  \/ Over(trend.summary.suites, Gate.suites)
      \/ Over(trend.summary.cases, Gate.cases)
      \/ Gate.regressed /\ trend.summary.regressed > 0
      \/ /\ Gate.duration # None /\ trend.before > 0 /\ trend.summary.duration > 0
         /\ trend.summary.duration * 100 > Gate.duration * trend.before
      \/ drift # None /\ \E m \in DOMAIN drift : Over(drift[m], Gate.drift[m])

\* With too little history, or none to compare with, the gate stays open.
Evaluated(trend) == ~trend.baseline /\ trend.length >= Gate.window

EvaluateGates(trend) ==
  [evaluated |-> Evaluated(trend), passed |-> ~(Evaluated(trend) /\ Breached(trend))]

-----------------------------------------------------------------------------
(* Analyze. *)
Window(runs, size) ==
  IF size > 0 /\ size < Len(runs) THEN SubSeq(runs, Len(runs) - size + 1, Len(runs)) ELSE runs

\* analyzeDriftWindow and analyzeLoadWindow: the runs that have the metrics,
\* and the metrics of the last run if it has any.
MetricWindow(runs, suite, field) ==
  LET Of(i) == LET s == SuiteNamed(runs[i], suite) IN IF s = None THEN None ELSE s[field]
      having == {i \in DOMAIN runs : Of(i) # None}
      latest == Of(Len(runs))
  IN  IF having = {} THEN None
      ELSE [runs |-> Cardinality(having), latest |-> latest,
            average |-> [m \in DOMAIN Of(Max(having)) |->
                           Rounded(Total(having, LAMBDA i : Of(i)[m]), Cardinality(having))]]

Analyze(runs, size) ==
  LET selected == Window(runs, size)
      latest == Last(selected)
      previous == LatestRun(Front(selected))
      passed == {i \in DOMAIN selected : selected[i].passed}
  IN  [size |-> Len(selected), comparison |-> Compare(latest, previous, Len(selected)),
       failed |-> Len(selected) - Cardinality(passed),
       passRate |-> Rounded(1000 * Cardinality(passed), Len(selected)),
       drift |-> MetricWindow(selected, "drift", "drift"),
       load |-> MetricWindow(selected, "load", "load")]

(* BuildReplayArtifact: an entry for every suite with findings of its own and *)
(* every case that failed or has findings, without the raw provider answer.    *)
BuildReplayArtifact(r) ==
  LET suites == {i \in DOMAIN r.suites : r.suites[i].broken}
      Told(s) == {j \in DOMAIN s.cases : ~s.cases[j].passed \/ s.cases[j].messages # <<>>}
      Fingerprint(n) == IF n \in DOMAIN r.meta.prints THEN r.meta.prints[n] ELSE None
  IN  {[suite |-> r.suites[i].name, name |-> "_suite", scenario |-> None, failed |-> TRUE] : i \in suites}
      \cup UNION {{[suite |-> r.suites[i].name, name |-> r.suites[i].cases[j].name,
                    scenario |-> Fingerprint(r.suites[i].cases[j].name), failed |-> ~r.suites[i].cases[j].passed] :
                     j \in Told(r.suites[i])} : i \in DOMAIN r.suites}

-----------------------------------------------------------------------------
(* Trend sources.  A record is [form, key, report]: form says what it embeds,  *)
(* "history_run", "report", "bare" (a report without the cleanr key), "flat"     *)
(* (the counters) or "native" (it is the run of a trend file); key is the name     *)
(* its time has, or None.  A source is [version, under, records]: under is the        *)
(* key of its list, "cleanr.history", or "list" or "single" when there is none.        *)
EmptyRun == [at |-> 0, duration |-> 0, meta |-> [model |-> None, prints |-> <<>>], passed |-> FALSE,
             failedSuites |-> 0, failedCases |-> 0, suites |-> <<>>]

\* A run of a trend file names its duration and its model otherwise.
Counters(record) ==
  LET run == BuildRun(record.report)
      counted == [EmptyRun EXCEPT !.at = run.at, !.passed = run.passed,
                                  !.failedSuites = run.failedSuites, !.failedCases = run.failedCases]
  IN  IF record.form = "native" THEN counted
      ELSE [counted EXCEPT !.duration = run.duration, !.meta.model = run.meta.model]

\* LoadData of a record: the fields that a run of a trend file has too.
NativeRun(record) ==
  CASE record.form = "native" -> BuildRun(record.report)
    [] record.form = "flat" -> [Counters(record) EXCEPT !.duration = 0, !.meta.model = None]
    [] OTHER -> EmptyRun

NativeRecords(source) == IF source.under = "runs" THEN source.records ELSE <<>>

looksLikeNativeHistory(source) ==
  /\ source.under # "list"
  /\ \/ source.version
     \/ \E i \in DOMAIN NativeRecords(source) : source.records[i].key = "generated_at"

Keys(type) ==
  CASE type = "langsmith" -> {"runs", "traces", "items"}
    [] type = "openllmetry" -> {"traces", "spans", "events", "logs", "items"}
    [] type = "provider_logs" -> {"logs", "events", "rows", "runs", "items"}

\* Under a key that the type does not know there is one record, the whole
\* source, which has neither a run nor a time.
collectImportedItems(source) ==
  IF source.under \in {"list", "single", "cleanr.history"} \cup Keys(source.type)
    THEN source.records ELSE <<>>

\* Mutant: the counters of a record go before what it embeds.
FlatFirst(record) == IF record.key # None THEN Counters(record) ELSE BuildRun(record.report)

\* The embedded run or report, else the counters of a record with a time.
importedHistoryRun(record) ==
  IF record.form \in {"history_run", "report", "bare"} THEN BuildRun(record.report) ELSE Counters(record)
Importable(record) == record.form \in {"history_run", "report", "bare"} \/ record.key # None

\* The oldest first, each behind as many as are older; no two builds have the
\* same time.
ByTime(runs) ==
  [n \in 1 .. Cardinality(runs) |-> CHOOSE r \in runs : Cardinality({o \in runs : o.at < r.at}) = n - 1]

\* The runs of a source, or None when it is an error.
importTrendSourceData(source) ==
  IF looksLikeNativeHistory(source)
    THEN LET records == NativeRecords(source) IN [i \in DOMAIN records |-> NativeRun(records[i])]
    ELSE LET items == {record \in ToSet(collectImportedItems(source)) : Importable(record)}
         IN  IF items = {} THEN None ELSE ByTime({importedHistoryRun(record) : record \in items})

\* CompareTrendSources.
External(run, source) ==
  LET runs == IF source = None THEN None ELSE importTrendSourceData(source)
  IN  CASE runs = None -> [status |-> "error"]
        [] runs = <<>> -> [status |-> "empty"]
        [] OTHER -> LET c == Compare(run, LatestRun(runs), Len(runs) + 1)
                    IN  [status |-> "compared", summary |-> c.summary, diff |-> c.diff]

-----------------------------------------------------------------------------
\* Assumed: a report names each of its suites once, and so does a suite its
\* cases, none of which is called like the entry of a suite in the artifact;
\* None is neither a run, nor the suite of one, nor a history.
Dated(r, n) == [r EXCEPT !.at = n]
Runs == {BuildRun(Dated(r, n)) : r \in Reports, n \in 1 .. MaxRuns}
Distinct(list) == \A i, j \in DOMAIN list : i # j => list[i].name # list[j].name

BuildsAssumption ==
  /\ Limit \in Nat /\ MaxRuns \in Nat
  /\ \A r \in Reports :
       /\ r = [at |-> r.at, duration |-> r.duration, meta |-> r.meta, suites |-> r.suites]
       /\ r.suites \in Seq(ToSet(r.suites)) /\ Distinct(r.suites)
       /\ \A s \in ToSet(r.suites) :
            /\ s.cases \in Seq(ToSet(s.cases)) /\ Distinct(s.cases)
            /\ \A c \in ToSet(s.cases) : c.passed \in BOOLEAN /\ c.name # "_suite"
            /\ buildSuite(s) # None
  /\ None \notin Runs /\ None \notin Seq(Runs)

Nothing == [cases |-> 0, suites |-> 0]

Init ==
  /\ history = <<>>
  /\ reports = <<>>
  /\ report = None
  /\ remote = None
  /\ analysis = None
  /\ moved = Nothing

\* A build: AttachAndPersist, EvaluateGates, buildReplayArtifact and the trend
\* source of publishIntegrations.  The run is retained before the gates.
Build(r) ==
  /\ Len(reports) < MaxRuns
  /\ LET dated == Dated(r, Len(reports) + 1)
         run == BuildRun(dated)
         length == IF Limit > 0 /\ Len(history) + 1 > Limit THEN Limit ELSE Len(history) + 1
         trend == Compare(run, LatestRun(history), length)
         gate == EvaluateGates(trend)
     IN  /\ report' = [run |-> run, trend |-> trend, gate |-> gate, passed |-> run.passed /\ gate.passed,
                       replay |-> BuildReplayArtifact(dated), external |-> External(run, remote)]
         /\ history' = AppendRun(history, run)
         /\ reports' = Append(reports, dated)
         /\ moved' = IF trend.baseline THEN Nothing
                     ELSE [cases |-> moved.cases + trend.summary.cases,
                           suites |-> moved.suites + trend.summary.suites]
  /\ analysis' = None
  /\ UNCHANGED remote

\* An external system exports the builds it knows, in an order of its own.
Export(e) ==
  /\ reports # <<>>
  /\ LET known == CASE e.under = "single" -> <<Last(reports)>>
                   [] e.under # "single" /\ e.reversed -> Reverse(reports)
                   [] OTHER -> reports
     IN  remote' = [type |-> e.type, version |-> e.version, under |-> e.under,
                    records |-> [i \in DOMAIN known |-> [form |-> e.form, key |-> e.key, report |-> known[i]]]]
  /\ analysis' = None
  /\ UNCHANGED <<history, reports, report, moved>>

\* `cleanr trends -window`.
ShowTrends(size) ==
  /\ history # <<>>
  /\ analysis' = Analyze(history, size)
  /\ UNCHANGED <<history, reports, report, remote, moved>>

Next ==
  \/ \E r \in Reports : Build(r)
  \/ \E e \in Exports : Export(e)
  \/ \E size \in 0 .. Limit : ShowTrends(size)

Spec == Init /\ [][Next]_vars

-----------------------------------------------------------------------------
\* The deltas of all builds add up to the difference between the last and the
\* first, whatever the limit trimmed; and `cleanr trends` says of the last two
\* runs what the report of the last build said, for every window that has both.
TrendsTellOneStory ==
  /\ report # None =>
       /\ moved.cases = report.run.failedCases - FailedCases(reports[1])
       /\ moved.suites = report.run.failedSuites - FailedSuites(reports[1])
  /\ analysis # None /\ analysis.size > 1 =>
       [analysis.comparison EXCEPT !.length = report.trend.length] = report.trend

\* Where more cases of a workflow suite fail than before, a case is named that
\* did not fail then; every failing case is in a bucket; and the artifact has an
\* entry for each failing case of the report, with its scenario.
FailuresAreExplained ==
  report # None =>
    LET run == report.run
        failing == {item \in flattenCases(run) : ~item.case.passed}
        entries == {e \in report.replay : e.failed /\ e.name # "_suite"}
    IN  /\ ~report.trend.baseline =>
             \A i \in DOMAIN report.trend.suites :
               LET t == report.trend.suites[i]
               IN  t.name \in Workflow /\ t.failed > 0 =>
                     \E c \in report.trend.cases : c.suite = t.name /\ c.status \in {"new", "regressed"}
        /\ UNION {b.cases : b \in report.trend.buckets} = {<<f.suite, f.case.name>> : f \in failing}
        /\ Cardinality(entries) = run.failedCases
        /\ \A e \in entries : e.name \in DOMAIN run.meta.prints => e.scenario = run.meta.prints[e.name]

\* A source that embeds reports or runs, in any order and under any key its
\* type has, is compared like the trend file with the same builds.
ImportedComparesAlike ==
  [][ /\ report' # report /\ remote # None
      /\ \A i \in DOMAIN remote.records : remote.records[i].form \in {"history_run", "report", "bare"}
      /\ ~looksLikeNativeHistory(remote) /\ collectImportedItems(remote) # <<>>
      /\ Len(remote.records) = Len(reports)
      => /\ report'.external.status = "compared"
         /\ report'.external.summary = report'.trend.summary
         /\ report'.external.diff = report'.trend.diff ]_vars

\* As docs/configuration.md:1000 has it of the presets strict and moderate: a
\* gate that is evaluated blocks on any new failed case.
NewFailureIsBlocked ==
  report # None /\ report.gate.evaluated /\ report.gate.passed =>
    LET Failed(r) == UNION {{<<r.suites[k].name, r.suites[k].cases[j].name>> :
                               j \in FailedIn(r.suites[k])} : k \in DOMAIN r.suites}
    IN  Failed(Last(reports)) \subseteq Failed(reports[Len(reports) - 1])

=============================================================================
