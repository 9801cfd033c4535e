-------------------------- MODULE TrendCompareProofs ------------------------
(***************************************************************************)
(* Proofs about the comparison of builds, for any reports, limit and number   *)
(* of builds: the report and the trends command tell one story whatever the    *)
(* limit trims, every failure is explained, and a source that embeds the       *)
(* builds is compared like the trend file.                                     *)
(***************************************************************************)
EXTENDS MCProject, FiniteSetTheorems, TLAPS

-----------------------------------------------------------------------------
(***************************************************************************)
(* The comparison of builds.                                                  *)
(***************************************************************************)
Count == Len(reports)
RunOf(n) == Builds!BuildRun(reports[n])

\* What there is to compare the n-th build with.
BaselineOf(n) == IF n = 1 THEN None ELSE RunOf(n - 1)

ReportsInv ==
  /\ reports \in Seq({Builds!Dated(r, n) : r \in Reports, n \in 1 .. MaxBuilds})
  /\ Count <= MaxBuilds
  /\ \A n \in 1 .. Count : \E r \in Reports : reports[n] = Builds!Dated(r, n)

\* The history is the latest builds, as many as the limit allows.
KeptInv ==
  /\ history \in Seq(Builds!Runs) /\ Len(history) <= Count /\ (Count > 0 => Len(history) > 0)
  /\ Len(history) = Count \/ Len(history) = ConfiguredLimit
  /\ \A j \in 1 .. Len(history) : history[j] = RunOf(Count - Len(history) + j)

\* The report of the last build, and what all of them said before it.
ReportInv ==
  IF Count = 0 THEN report = None /\ moved = Builds!Nothing
  ELSE /\ report = [run |-> report.run, trend |-> report.trend, gate |-> report.gate, passed |-> report.passed,
                    replay |-> report.replay, external |-> report.external]
       /\ report.run = RunOf(Count)
       /\ report.trend = Builds!Compare(RunOf(Count), BaselineOf(Count), Len(history))
       /\ report.replay = Builds!BuildReplayArtifact(reports[Count])
       /\ moved = [cases |-> Builds!FailedCases(reports[Count]) - Builds!FailedCases(reports[1]),
                   suites |-> Builds!FailedSuites(reports[Count]) - Builds!FailedSuites(reports[1])]

\* What an external system holds are builds, and all of them as long as it is
\* as many.
RemoteInv ==
  source # None =>
    /\ source.records \in Seq({source.records[i] : i \in DOMAIN source.records})
    /\ Len(source.records) <= Count
    /\ \A i \in DOMAIN source.records : source.records[i].report \in {reports[n] : n \in 1 .. Count}
    /\ Len(source.records) = Count =>
         \A n \in 1 .. Count : \E i \in DOMAIN source.records : source.records[i].report = reports[n]

AnalysisInv ==
  analysis # None => history # <<>> /\ \E size \in 0 .. ConfiguredLimit : analysis = Builds!Analyze(history, size)

BuildsInv == ReportsInv /\ KeptInv /\ ReportInv /\ RemoteInv /\ AnalysisInv

-----------------------------------------------------------------------------
\* The instance brings a copy of Cardinality, which is the same operator.
LEMMA SameCount == \A S : Builds!Cardinality(S) = Cardinality(S)
BY Zenon DEF Builds!Cardinality, Cardinality

\* Numbers that add up are numbers.
LEMMA FailuresAreCounted ==
  ASSUME NEW r \in Reports, NEW n
  PROVE  /\ Builds!FailedCases(Builds!Dated(r, n)) \in Nat /\ Builds!FailedSuites(Builds!Dated(r, n)) \in Nat
         /\ IsFiniteSet(Builds!FailedPlaces(Builds!Dated(r, n)))
<1> DEFINE d == Builds!Dated(r, n)
<1>1. d.suites = r.suites
  BY ProjectAssumption DEF Builds!BuildsAssumption, Builds!Dated
<1>2. IsFiniteSet(DOMAIN d.suites)
  <2>1. r.suites \in Seq(Builds!ToSet(r.suites))
    BY ProjectAssumption DEF Builds!BuildsAssumption
  <2>2. DOMAIN r.suites = 1 .. Len(r.suites) /\ Len(r.suites) \in Nat
    BY <2>1
  <2> QED BY <1>1, <2>2, FS_Interval
<1> HIDE DEF d
<1>3. ASSUME NEW i \in DOMAIN d.suites PROVE IsFiniteSet(Builds!FailedIn(d.suites[i]))
  <2>1. d.suites[i] \in Builds!ToSet(r.suites)
    BY <1>1, <1>3 DEF Builds!ToSet
  <2>2. d.suites[i].cases \in Seq(Builds!ToSet(d.suites[i].cases))
    BY <2>1, ProjectAssumption DEF Builds!BuildsAssumption
  <2>3. PICK n_ : n_ \in Nat /\ DOMAIN d.suites[i].cases = 1 .. n_
    BY <2>2
  <2>4. IsFiniteSet(1 .. n_)
    BY <2>3, FS_Interval
  <2>5. Builds!FailedIn(d.suites[i]) \subseteq DOMAIN d.suites[i].cases
    BY DEF Builds!FailedIn
  <2> QED BY <2>3, <2>4, <2>5, FS_Subset
<1>4. IsFiniteSet(Builds!FailedPlaces(d))
  <2> DEFINE places == {{i} \X Builds!FailedIn(d.suites[i]) : i \in DOMAIN d.suites}
  <2>1. IsFiniteSet(places)
    <3> DEFINE place == [i \in DOMAIN d.suites |-> {i} \X Builds!FailedIn(d.suites[i])]
    <3>1. place \in Surjection(DOMAIN d.suites, places)
      BY DEF Surjection
    <3> QED BY <1>2, <3>1, FS_Surjection
  <2>2. \A p \in places : IsFiniteSet(p)
    <3> SUFFICES ASSUME NEW i \in DOMAIN d.suites PROVE IsFiniteSet({i} \X Builds!FailedIn(d.suites[i]))
      OBVIOUS
    <3>1. PICK failed : failed = Builds!FailedIn(d.suites[i])
      OBVIOUS
    <3>2. IsFiniteSet(failed) /\ IsFiniteSet({i})
      BY <1>3, <3>1, FS_Singleton
    <3> QED BY <3>1, <3>2, FS_Product
  <2> HIDE DEF places
  <2>3. IsFiniteSet(UNION places)
    BY <2>1, <2>2, FS_UNION
  <2> QED BY <2>3 DEF places, Builds!FailedPlaces
<1>5. Builds!FailedCases(d) \in Nat
  <2>1. PICK places : places = Builds!FailedPlaces(d)
    OBVIOUS
  <2>2. Builds!FailedCases(d) = Cardinality(places)
    BY <2>1, SameCount DEF Builds!FailedCases
  <2> QED BY <1>4, <2>1, <2>2, FS_CardinalityType
<1>6. Builds!FailedSuites(d) \in Nat
  <2>1. {i \in DOMAIN d.suites : ~Builds!SuitePasses(d.suites[i])} \subseteq DOMAIN d.suites
    OBVIOUS
  <2>2. PICK suites : suites = {i \in DOMAIN d.suites : ~Builds!SuitePasses(d.suites[i])}
    OBVIOUS
  <2>3. IsFiniteSet(suites)
    BY <1>2, <2>1, <2>2, FS_Subset
  <2>4. Builds!FailedSuites(d) = Cardinality(suites)
    BY <2>2, SameCount DEF Builds!FailedSuites
  <2> QED BY <2>3, <2>4, FS_CardinalityType
<1> QED BY <1>4, <1>5, <1>6 DEF d

\* A report of a build is the suites' with its number for a time.
LEMMA DatedIsAReport ==
  ASSUME NEW r \in Reports, NEW n
  PROVE  LET d == Builds!Dated(r, n)
         IN  /\ d = [at |-> n, duration |-> r.duration, meta |-> r.meta, suites |-> r.suites]
             /\ d.at = n /\ d.suites = r.suites /\ d.meta = r.meta
BY ProjectAssumption DEF Builds!BuildsAssumption, Builds!Dated

\* What is there of each build: a run, which None is not.
LEMMA RunsAreRuns ==
  ASSUME ReportsInv, NEW n \in 1 .. Count
  PROVE  /\ RunOf(n) \in Builds!Runs /\ RunOf(n) # None
         /\ Builds!FailedCases(reports[n]) \in Nat /\ Builds!FailedSuites(reports[n]) \in Nat
         /\ RunOf(n).at = n
         /\ RunOf(n).failedCases = Builds!FailedCases(reports[n])
         /\ RunOf(n).failedSuites = Builds!FailedSuites(reports[n])
<1>1. PICK r \in Reports : reports[n] = Builds!Dated(r, n)
  BY DEF ReportsInv
<1>2. n \in 1 .. MaxBuilds
  BY ProjectAssumption DEF Builds!BuildsAssumption, ReportsInv, Count
<1>3. RunOf(n) \in Builds!Runs
  BY <1>1, <1>2 DEF Builds!Runs, RunOf
<1>4. RunOf(n) # None
  BY <1>3, ProjectAssumption DEF Builds!BuildsAssumption
<1>5. reports[n].at = n
  BY <1>1, DatedIsAReport
<1>6. /\ RunOf(n).at = n
      /\ RunOf(n).failedCases = Builds!FailedCases(reports[n])
      /\ RunOf(n).failedSuites = Builds!FailedSuites(reports[n])
  BY <1>5 DEF RunOf, Builds!BuildRun
<1> QED BY <1>1, <1>3, <1>4, <1>6, FailuresAreCounted

LEMMA BuildsStart ==
  ASSUME Builds!Init
  PROVE  BuildsInv
<1> USE DEF Builds!Init, Count
<1>1. ReportsInv
  BY ProjectAssumption DEF Builds!BuildsAssumption, ReportsInv
<1>2. KeptInv
  BY DEF KeptInv
<1> QED BY <1>1, <1>2 DEF BuildsInv, ReportInv, RemoteInv, AnalysisInv

\* The latest run of the history is that of the last build.
LEMMA LatestIsLast ==
  ASSUME ReportsInv, KeptInv, Count > 0
  PROVE  /\ history # <<>> /\ Len(history) \in 1 .. Count
         /\ history[Len(history)] = RunOf(Count)
         /\ Builds!LatestRun(history) = RunOf(Count)
<1>1. Len(history) \in Nat /\ Count \in Nat /\ Len(history) > 0 /\ Len(history) <= Count
  BY DEF KeptInv, ReportsInv, Count
<1>2. history[Len(history)] = RunOf(Count)
  BY <1>1 DEF KeptInv
<1>3. history # <<>>
  BY <1>1
<1> QED BY <1>1, <1>2, <1>3 DEF Builds!LatestRun, Builds!Last

\* Appending a run to the history keeps the latest ones.
LEMMA AppendKeeps ==
  ASSUME ReportsInv, KeptInv, NEW d, reports' = Append(reports, d), reports' \in Seq({Builds!Dated(r, n) : r \in Reports, n \in 1 .. MaxBuilds}),
         history' = Builds!AppendRun(history, Builds!BuildRun(d)), Builds!BuildRun(d) \in Builds!Runs
  PROVE  /\ KeptInv'
         /\ Len(history') = IF ConfiguredLimit > 0 /\ Len(history) + 1 > ConfiguredLimit THEN ConfiguredLimit
                            ELSE Len(history) + 1
<1> DEFINE run == Builds!BuildRun(d)
           longer == Append(history, run)
<1>0. /\ history \in Seq(Builds!Runs) /\ Len(history) \in Nat /\ Count \in Nat /\ Len(history) <= Count
      /\ ConfiguredLimit \in Nat /\ (Count > 0 => Len(history) > 0)
      /\ Len(history) = Count \/ Len(history) = ConfiguredLimit
      /\ reports \in Seq({Builds!Dated(r, n) : r \in Reports, n \in 1 .. MaxBuilds})
  BY TrendAssumption DEF KeptInv, ReportsInv, Count
<1>1. /\ Count' = Count + 1 /\ reports'[Count + 1] = d
      /\ \A n \in 1 .. Count : reports'[n] = reports[n]
  BY <1>0 DEF Count
<1>2. longer \in Seq(Builds!Runs) /\ Len(longer) = Len(history) + 1
  BY <1>0
<1>3. \A j \in 1 .. Len(longer) : longer[j] = Builds!BuildRun(reports'[Count' - Len(longer) + j])
  <2> SUFFICES ASSUME NEW j \in 1 .. Len(longer) PROVE longer[j] = Builds!BuildRun(reports'[Count' - Len(longer) + j])
    OBVIOUS
  <2>1. CASE j = Len(longer)
    <3>1. Count' - Len(longer) + j = Count + 1
      BY <1>0, <1>1, <1>2, <2>1
    <3>2. longer[j] = run
      BY <1>0, <1>2, <2>1
    <3> QED BY <1>1, <3>1, <3>2
  <2>2. CASE j # Len(longer)
    <3>1. j \in 1 .. Len(history) /\ Count' - Len(longer) + j = Count - Len(history) + j
      BY <1>0, <1>1, <1>2, <2>2
    <3>2. Count - Len(history) + j \in 1 .. Count
      BY <1>0, <3>1
    <3>3. longer[j] = history[j] /\ history[j] = Builds!BuildRun(reports[Count - Len(history) + j])
      BY <1>0, <3>1 DEF KeptInv, RunOf
    <3> QED BY <1>1, <3>1, <3>2, <3>3
  <2> QED BY <2>1, <2>2
<1>4. history' = IF ConfiguredLimit > 0 /\ Len(longer) > ConfiguredLimit
                 THEN SubSeq(longer, Len(longer) - ConfiguredLimit + 1, Len(longer)) ELSE longer
  BY DEF Builds!AppendRun
<1> HIDE DEF longer, run
<1>5. CASE ConfiguredLimit > 0 /\ Len(longer) > ConfiguredLimit
  <2>1. /\ history' \in Seq(Builds!Runs) /\ Len(history') = ConfiguredLimit
        /\ \A j \in 1 .. ConfiguredLimit : history'[j] = longer[Len(longer) - ConfiguredLimit + j]
    BY <1>0, <1>2, <1>4, <1>5
  <2>2. \A j \in 1 .. ConfiguredLimit : history'[j] = Builds!BuildRun(reports'[Count' - ConfiguredLimit + j])
    <3> SUFFICES ASSUME NEW j \in 1 .. ConfiguredLimit
                 PROVE  history'[j] = Builds!BuildRun(reports'[Count' - ConfiguredLimit + j])
      OBVIOUS
    <3>1. Len(longer) - ConfiguredLimit + j \in 1 .. Len(longer)
      BY <1>0, <1>2, <1>5
    <3>2. Count' - Len(longer) + (Len(longer) - ConfiguredLimit + j) = Count' - ConfiguredLimit + j
      BY <1>0, <1>1, <1>2
    <3> QED BY <1>3, <2>1, <3>1, <3>2
  <2>3. Len(history') <= Count' /\ Len(history') > 0
    BY <1>0, <1>1, <1>2, <1>5, <2>1
  <2> QED BY <1>0, <1>2, <1>5, <2>1, <2>2, <2>3 DEF KeptInv, RunOf
<1>6. CASE ~ (ConfiguredLimit > 0 /\ Len(longer) > ConfiguredLimit)
  <2>1. history' = longer
    BY <1>4, <1>6
  <2>2. Len(longer) = Count' \/ Len(longer) = ConfiguredLimit
    BY <1>0, <1>1, <1>2, <1>6
  <2>3. Len(longer) <= Count' /\ Len(longer) > 0
    BY <1>0, <1>1, <1>2
  <2>4. KeptInv'
    BY <1>2, <1>3, <2>1, <2>2, <2>3 DEF KeptInv, RunOf
  <2> QED BY <1>0, <1>2, <1>6, <2>1, <2>4
<1> QED BY <1>5, <1>6

LEMMA OtherLength ==
  ASSUME NEW no, NEW n, NEW other, NEW duration, NEW diff, NEW summary, NEW suites, NEW cases, NEW buckets
  PROVE  [[baseline |-> no, length |-> n, before |-> duration, diff |-> diff, summary |-> summary,
           suites |-> suites, cases |-> cases, buckets |-> buckets] EXCEPT !.length = other]
         = [baseline |-> no, length |-> other, before |-> duration, diff |-> diff, summary |-> summary,
            suites |-> suites, cases |-> cases, buckets |-> buckets]
OBVIOUS

\* What a comparison says of the differences; the length is only told.
LEMMA CompareFacts ==
  ASSUME NEW run, NEW before, NEW length
  PROVE  /\ before = None => Builds!Compare(run, before, length).baseline
         /\ before # None =>
              LET c == Builds!Compare(run, before, length)
              IN  /\ ~c.baseline
                  /\ c.summary.cases = run.failedCases - before.failedCases
                  /\ c.summary.suites = run.failedSuites - before.failedSuites
                  /\ \A other :
                       /\ [c EXCEPT !.length = other] = Builds!Compare(run, before, other)
                       /\ Builds!Compare(run, before, other).summary = c.summary
                       /\ Builds!Compare(run, before, other).diff = c.diff
                       /\ Builds!Compare(run, before, other).length = other
<1>1. before = None => Builds!Compare(run, before, length).baseline
  BY DEF Builds!Compare
<1> SUFFICES ASSUME before # None
             PROVE  LET c == Builds!Compare(run, before, length)
                    IN  /\ ~c.baseline
                        /\ c.summary.cases = run.failedCases - before.failedCases
                        /\ c.summary.suites = run.failedSuites - before.failedSuites
                        /\ \A other :
                             /\ [c EXCEPT !.length = other] = Builds!Compare(run, before, other)
                             /\ Builds!Compare(run, before, other).summary = c.summary
                             /\ Builds!Compare(run, before, other).diff = c.diff
                             /\ Builds!Compare(run, before, other).length = other
  BY <1>1
<1> DEFINE trends == [i \in DOMAIN run.suites |-> Builds!SuiteTrend(run.suites[i], before)]
           diff == Builds!compareBuildMetadata(run.meta, before.meta)
           summary == [suites |-> run.failedSuites - before.failedSuites,
                       cases |-> run.failedCases - before.failedCases,
                       duration |-> run.duration - before.duration,
                       regressed |-> Builds!Cardinality(Builds!Statuses(trends, "regressed")),
                       improved |-> Builds!Cardinality(Builds!Statuses(trends, "improved"))]
           cases == Builds!compareCases(run, before)
           buckets == Builds!buildFailureBuckets(run)
<1>2. \A n : Builds!Compare(run, before, n) =
        [baseline |-> FALSE, length |-> n, before |-> before.duration, diff |-> diff, summary |-> summary,
         suites |-> trends, cases |-> cases, buckets |-> buckets]
  BY DEF Builds!Compare
<1>3. /\ summary.cases = run.failedCases - before.failedCases
      /\ summary.suites = run.failedSuites - before.failedSuites
  OBVIOUS
<1> DEFINE Of(n) == [baseline |-> FALSE, length |-> n, before |-> before.duration, diff |-> diff, summary |-> summary,
                     suites |-> trends, cases |-> cases, buckets |-> buckets]
<1> HIDE DEF trends, diff, summary, cases, buckets
<1>4. \A n : /\ ~Of(n).baseline /\ Of(n).length = n /\ Of(n).diff = diff /\ Of(n).summary = summary
             /\ \A other : [Of(n) EXCEPT !.length = other] = Of(other)
  <2> SUFFICES ASSUME NEW n
               PROVE  /\ ~Of(n).baseline /\ Of(n).length = n /\ Of(n).diff = diff /\ Of(n).summary = summary
                      /\ \A other : [Of(n) EXCEPT !.length = other] = Of(other)
    OBVIOUS
  <2>1. ~Of(n).baseline /\ Of(n).length = n /\ Of(n).diff = diff /\ Of(n).summary = summary
    OBVIOUS
  <2>2. ASSUME NEW other PROVE [Of(n) EXCEPT !.length = other] = Of(other)
    <3>1. \A no : [[baseline |-> no, length |-> n, before |-> before.duration, diff |-> diff, summary |-> summary,
                     suites |-> trends, cases |-> cases, buckets |-> buckets] EXCEPT !.length = other]
                  = [baseline |-> no, length |-> other, before |-> before.duration, diff |-> diff, summary |-> summary,
                     suites |-> trends, cases |-> cases, buckets |-> buckets]
      BY OtherLength
    <3> QED BY <3>1, Zenon
  <2> QED BY <2>1, <2>2
<1>5. \A n : Builds!Compare(run, before, n) = Of(n)
  BY <1>2
<1> HIDE DEF Of
<1> QED BY <1>3, <1>4, <1>5

LEMMA BuildStep ==
  ASSUME BuildsInv, NEW r \in Reports, Builds!Build(r)
  PROVE  BuildsInv'
<1> DEFINE d == Builds!Dated(r, Count + 1)
           run == Builds!BuildRun(d)
           length == IF ConfiguredLimit > 0 /\ Len(history) + 1 > ConfiguredLimit THEN ConfiguredLimit ELSE Len(history) + 1
           trend == Builds!Compare(run, Builds!LatestRun(history), length)
           all_ == {Builds!Dated(q, n) : q \in Reports, n \in 1 .. MaxBuilds}
<1>0. /\ Count < MaxBuilds /\ Count \in Nat /\ MaxBuilds \in Nat /\ reports \in Seq(all_)
  BY ProjectAssumption DEF Builds!Build, BuildsInv, ReportsInv, Count, Builds!BuildsAssumption
<1>1. /\ reports' = Append(reports, d)
      /\ history' = Builds!AppendRun(history, run)
      /\ report' = [run |-> run, trend |-> trend, gate |-> report'.gate, passed |-> report'.passed,
                    replay |-> Builds!BuildReplayArtifact(d), external |-> report'.external]
      /\ moved' = IF trend.baseline THEN Builds!Nothing
                  ELSE [cases |-> moved.cases + trend.summary.cases, suites |-> moved.suites + trend.summary.suites]
      /\ analysis' = None /\ source' = source
  BY DEF Builds!Build, Count
<1>2. d \in all_
  BY <1>0
<1>3. run \in Builds!Runs
  <2>1. Count + 1 \in 1 .. MaxBuilds
    BY <1>0
  <2> QED BY <2>1 DEF Builds!Runs
<1>4. /\ Count' = Count + 1 /\ reports'[Count + 1] = d /\ reports' \in Seq(all_)
      /\ \A n \in 1 .. Count : reports'[n] = reports[n]
  <2> HIDE DEF d, all_
  <2> QED BY <1>0, <1>1, <1>2 DEF Count
<1>5. ReportsInv'
  <2>1. \A n \in 1 .. Count' : \E q \in Reports : reports'[n] = Builds!Dated(q, n)
    BY <1>0, <1>4 DEF BuildsInv, ReportsInv
  <2> QED BY <1>0, <1>4, <2>1 DEF ReportsInv
<1>6. KeptInv' /\ Len(history') = length
  <2> HIDE DEF d
  <2> QED BY <1>1, <1>3, <1>4, AppendKeeps DEF BuildsInv
<1>7. Builds!LatestRun(history) = IF Count = 0 THEN None ELSE RunOf(Count)
  <2>1. CASE Count = 0
    BY <2>1 DEF BuildsInv, KeptInv, Builds!LatestRun
  <2>2. CASE Count # 0
    BY <1>0, <2>2, LatestIsLast DEF BuildsInv
  <2> QED BY <2>1, <2>2
<1>8. /\ run.failedCases = Builds!FailedCases(d) /\ run.failedSuites = Builds!FailedSuites(d)
      /\ Builds!FailedCases(d) \in Nat /\ Builds!FailedSuites(d) \in Nat
  BY FailuresAreCounted DEF Builds!BuildRun
<1>9. moved' = [cases |-> Builds!FailedCases(reports'[Count']) - Builds!FailedCases(reports'[1]),
                suites |-> Builds!FailedSuites(reports'[Count']) - Builds!FailedSuites(reports'[1])]
  <2> HIDE DEF d, run, length
  <2>1. CASE Count = 0
    <3>1. trend.baseline
      BY <1>7, <2>1, CompareFacts
    <3>2. moved' = [cases |-> 0, suites |-> 0]
      BY <1>1, <3>1 DEF Builds!Nothing
    <3>3. reports'[Count'] = d /\ reports'[1] = d
      BY <1>4, <2>1
    <3> QED BY <1>8, <3>2, <3>3
  <2>2. CASE Count # 0
    <3>1. /\ Count \in 1 .. Count /\ 1 \in 1 .. Count
          /\ Builds!LatestRun(history) = RunOf(Count) /\ RunOf(Count) # None
          /\ RunOf(Count).failedCases = Builds!FailedCases(reports[Count])
          /\ RunOf(Count).failedSuites = Builds!FailedSuites(reports[Count])
          /\ Builds!FailedCases(reports[Count]) \in Nat /\ Builds!FailedSuites(reports[Count]) \in Nat
          /\ Builds!FailedCases(reports[1]) \in Nat /\ Builds!FailedSuites(reports[1]) \in Nat
      BY <1>0, <1>7, <2>2, RunsAreRuns DEF BuildsInv
    <3>2. /\ ~trend.baseline
          /\ trend.summary.cases = Builds!FailedCases(d) - Builds!FailedCases(reports[Count])
          /\ trend.summary.suites = Builds!FailedSuites(d) - Builds!FailedSuites(reports[Count])
      BY <1>8, <3>1, CompareFacts
    <3>3. moved = [cases |-> Builds!FailedCases(reports[Count]) - Builds!FailedCases(reports[1]),
                   suites |-> Builds!FailedSuites(reports[Count]) - Builds!FailedSuites(reports[1])]
      BY <2>2 DEF BuildsInv, ReportInv
    <3>4. reports'[Count'] = d /\ reports'[1] = reports[1]
      BY <1>4, <3>1
    <3> HIDE DEF trend
    <3>5. /\ moved.cases = Builds!FailedCases(reports[Count]) - Builds!FailedCases(reports[1])
          /\ moved.suites = Builds!FailedSuites(reports[Count]) - Builds!FailedSuites(reports[1])
      BY <3>3
    <3>6. /\ moved.cases + trend.summary.cases = Builds!FailedCases(d) - Builds!FailedCases(reports[1])
          /\ moved.suites + trend.summary.suites = Builds!FailedSuites(d) - Builds!FailedSuites(reports[1])
      BY <1>8, <3>1, <3>2, <3>5
    <3> QED BY <1>1, <3>2, <3>4, <3>6
  <2> QED BY <2>1, <2>2
<1>10. ReportInv'
  <2> HIDE DEF d
  <2>1. /\ report'.run = Builds!BuildRun(reports'[Count']) /\ report'.replay = Builds!BuildReplayArtifact(reports'[Count'])
        /\ report' = [run |-> report'.run, trend |-> report'.trend, gate |-> report'.gate, passed |-> report'.passed,
                      replay |-> report'.replay, external |-> report'.external]
        /\ report'.trend = trend
    BY <1>1, <1>4
  <2>2. Builds!LatestRun(history) = IF Count' = 1 THEN None ELSE Builds!BuildRun(reports'[Count' - 1])
    <3>1. CASE Count = 0
      BY <1>4, <1>7, <3>1
    <3>2. CASE Count # 0
      <4>1. Count' # 1 /\ Count' - 1 = Count /\ Count \in 1 .. Count
        BY <1>0, <1>4, <3>2
      <4>2. reports'[Count' - 1] = reports[Count]
        BY <1>4, <4>1
      <4> QED BY <1>7, <3>2, <4>1, <4>2 DEF RunOf
    <3> QED BY <3>1, <3>2
  <2>3. report'.trend = Builds!Compare(Builds!BuildRun(reports'[Count']),
                          IF Count' = 1 THEN None ELSE Builds!BuildRun(reports'[Count' - 1]), Len(history'))
    BY <1>4, <1>6, <2>1, <2>2
  <2>4. Count' # 0
    BY <1>0, <1>4
  <2> QED BY <1>9, <2>1, <2>3, <2>4 DEF ReportInv, RunOf, BaselineOf
<1>11. RemoteInv'
  <2>1. {reports[n] : n \in 1 .. Count} \subseteq {reports'[n] : n \in 1 .. Count'}
    <3> SUFFICES ASSUME NEW n \in 1 .. Count PROVE \E m \in 1 .. Count' : reports[n] = reports'[m]
      OBVIOUS
    <3>1. n \in 1 .. Count' /\ reports'[n] = reports[n]
      BY <1>0, <1>4
    <3> QED BY <3>1
  <2>2. source # None => Len(source.records) < Count' /\ Len(source.records) \in Nat
    BY <1>0, <1>4 DEF BuildsInv, RemoteInv
  <2>3. source # None => \A i \in DOMAIN source.records : source.records[i].report \in {reports'[n] : n \in 1 .. Count'}
    <3> HIDE DEF d
    <3> QED BY <2>1 DEF BuildsInv, RemoteInv
  <2>4. source' = source
    BY <1>1
  <2> HIDE DEF d, all_
  <2>5. source # None =>
          /\ source.records \in Seq({source.records[i] : i \in DOMAIN source.records})
          /\ Len(source.records) <= Count' /\ Len(source.records) # Count'
          /\ \A i \in DOMAIN source.records : source.records[i].report \in {reports'[n] : n \in 1 .. Count'}
    BY <1>0, <1>4, <2>2, <2>3 DEF BuildsInv, RemoteInv
  <2> QED BY <2>4, <2>5 DEF RemoteInv
<1>12. AnalysisInv'
  BY <1>1 DEF AnalysisInv
<1> QED BY <1>5, <1>6, <1>10, <1>11, <1>12 DEF BuildsInv

\* What is exported are the builds so far, in either order, or the last one.
LEMMA ExportStep ==
  ASSUME BuildsInv, NEW e \in Exports, Builds!Export(e)
  PROVE  BuildsInv'
<1> DEFINE known == CASE e.under = "single" -> <<Builds!Last(reports)>>
                      [] e.under # "single" /\ e.reversed -> Builds!Reverse(reports)
                      [] OTHER -> reports
           records == [i \in DOMAIN known |-> [form |-> e.form, key |-> e.key, report |-> known[i]]]
<1>0. /\ Count \in Nat /\ Count > 0 /\ DOMAIN reports = 1 .. Count
      /\ reports \in Seq({Builds!Dated(q, n) : q \in Reports, n \in 1 .. MaxBuilds})
  BY DEF Builds!Export, BuildsInv, ReportsInv, Count
<1>1. /\ source' = [type |-> e.type, version |-> e.version, under |-> e.under, records |-> records]
      /\ analysis' = None /\ UNCHANGED <<history, reports, report, moved>>
  BY DEF Builds!Export
<1>2. \E m \in 1 .. Count :
        /\ DOMAIN known = 1 .. m
        /\ \A i \in 1 .. m : known[i] \in {reports[n] : n \in 1 .. Count}
        /\ m = Count => \A n \in 1 .. Count : \E i \in 1 .. m : known[i] = reports[n]
  <2>1. CASE e.under = "single"
    <3>1. known = <<reports[Count]>>
      BY <2>1 DEF Builds!Last, Count
    <3>2. DOMAIN known = 1 .. 1 /\ known[1] = reports[Count]
      BY <3>1
    <3> HIDE DEF known
    <3>3. 1 \in 1 .. Count /\ Count \in 1 .. Count /\ (1 = Count => \A n \in 1 .. Count : n = 1)
      BY <1>0
    <3> QED BY <3>2, <3>3
  <2>2. CASE e.under # "single" /\ e.reversed
    <3>1. known = [i \in 1 .. Count |-> reports[(Count - i) + 1]]
      BY <2>2 DEF Builds!Reverse, Count
    <3>2. ASSUME NEW n \in 1 .. Count PROVE (Count - n) + 1 \in 1 .. Count /\ known[(Count - n) + 1] = reports[n]
      <4>1. (Count - n) + 1 \in 1 .. Count /\ (Count - ((Count - n) + 1)) + 1 = n
        BY <1>0
      <4> QED BY <3>1, <4>1
    <3>3. Count \in 1 .. Count /\ DOMAIN known = 1 .. Count
      BY <1>0, <3>1
    <3>4. \A i \in 1 .. Count : known[i] \in {reports[n] : n \in 1 .. Count}
      <4> SUFFICES ASSUME NEW i \in 1 .. Count PROVE \E n \in 1 .. Count : known[i] = reports[n]
        OBVIOUS
      <4>1. (Count - i) + 1 \in 1 .. Count
        BY <1>0
      <4>2. known[i] = reports[(Count - i) + 1]
        BY <3>1
      <4> QED BY <4>1, <4>2
    <3> HIDE DEF known
    <3> QED BY <3>2, <3>3, <3>4
  <2>3. CASE e.under # "single" /\ ~e.reversed
    <3>1. known = reports
      BY <2>3
    <3> HIDE DEF known
    <3>2. Count \in 1 .. Count
      BY <1>0
    <3> QED BY <1>0, <3>1, <3>2
  <2> QED BY <2>1, <2>2, <2>3
<1> HIDE DEF known
<1>3. PICK m \in 1 .. Count :
        /\ DOMAIN known = 1 .. m
        /\ \A i \in 1 .. m : known[i] \in {reports[n] : n \in 1 .. Count}
        /\ m = Count => \A n \in 1 .. Count : \E i \in 1 .. m : known[i] = reports[n]
  BY <1>2
<1>4. /\ records = [i \in 1 .. m |-> records[i]] /\ DOMAIN records = 1 .. m /\ m \in Nat
      /\ \A i \in 1 .. m : records[i].report = known[i]
  BY <1>0, <1>3
<1> HIDE DEF records
<1>5. records \in Seq({records[i] : i \in DOMAIN records}) /\ Len(records) = m
  BY <1>4
<1>6. source'.records = records
  BY <1>1
<1>7. Count' = Count
  BY <1>1 DEF Count
<1>8. RemoteInv'
  <2>1. \A i \in DOMAIN records : records[i].report \in {reports[n] : n \in 1 .. Count}
    BY <1>3, <1>4
  <2>2. m = Count => \A n \in 1 .. Count : \E i \in DOMAIN records : records[i].report = reports[n]
    BY <1>3, <1>4
  <2>3. m <= Count /\ reports' = reports
    BY <1>0, <1>1
  <2>4. PICK told : told = source'.records
    OBVIOUS
  <2>5. told = records
    BY <1>6, <2>4
  <2>6. Len(told) = m /\ m <= Count' /\ (m = Count' => \A n \in 1 .. Count' : \E i \in DOMAIN told : told[i].report = reports'[n])
    BY <1>5, <1>7, <2>2, <2>3, <2>5
  <2>7. \A i \in DOMAIN told : told[i].report \in {reports'[n] : n \in 1 .. Count'}
    BY <1>7, <2>1, <2>3, <2>5
  <2>8. told \in Seq({told[i] : i \in DOMAIN told})
    BY <1>5, <2>5
  <2> QED BY <2>4, <2>6, <2>7, <2>8 DEF RemoteInv
<1>9. ReportsInv' /\ KeptInv' /\ ReportInv'
  BY <1>1, <1>7 DEF BuildsInv, ReportsInv, KeptInv, ReportInv, RunOf, BaselineOf
<1> QED BY <1>1, <1>8, <1>9 DEF BuildsInv, AnalysisInv

LEMMA TrendsStep ==
  ASSUME BuildsInv, NEW size \in 0 .. ConfiguredLimit, Builds!ShowTrends(size)
  PROVE  BuildsInv'
<1>1. /\ history # <<>> /\ analysis' = Builds!Analyze(history, size)
      /\ UNCHANGED <<history, reports, report, source, moved>>
  BY DEF Builds!ShowTrends
<1>2. ReportsInv' /\ KeptInv' /\ ReportInv' /\ RemoteInv'
  BY <1>1 DEF BuildsInv, ReportsInv, KeptInv, ReportInv, RemoteInv, RunOf, BaselineOf, Count
<1> QED BY <1>1, <1>2 DEF BuildsInv, AnalysisInv

LEMMA BuildsNext ==
  ASSUME BuildsInv, Builds!Next \/ UNCHANGED buildVars
  PROVE  BuildsInv'
<1>1. CASE UNCHANGED buildVars
  BY <1>1 DEF buildVars, BuildsInv, ReportsInv, KeptInv, ReportInv, RemoteInv, AnalysisInv, RunOf, BaselineOf, Count
<1> QED BY <1>1, BuildStep, ExportStep, TrendsStep DEF Builds!Next

-----------------------------------------------------------------------------
\* What the trends command compares is what the report compared.
LEMMA OneStory ==
  ASSUME BuildsInv
  PROVE  Builds!TrendsTellOneStory
<1>1. ASSUME report # None
      PROVE  /\ moved.cases = report.run.failedCases - Builds!FailedCases(reports[1])
             /\ moved.suites = report.run.failedSuites - Builds!FailedSuites(reports[1])
  <2>1. Count # 0 /\ Count \in Nat /\ Count \in 1 .. Count
    BY <1>1 DEF BuildsInv, ReportInv, ReportsInv, Count
  <2>2. /\ report.run.failedCases = Builds!FailedCases(reports[Count])
        /\ report.run.failedSuites = Builds!FailedSuites(reports[Count])
    BY <2>1, RunsAreRuns DEF BuildsInv, ReportInv
  <2> QED BY <2>1, <2>2 DEF BuildsInv, ReportInv
<1>2. ASSUME analysis # None, analysis.size > 1
      PROVE  [analysis.comparison EXCEPT !.length = report.trend.length] = report.trend
  <2>1. PICK size \in 0 .. ConfiguredLimit : analysis = Builds!Analyze(history, size)
    BY <1>2 DEF BuildsInv, AnalysisInv
  <2>2. history # <<>> /\ history \in Seq(Builds!Runs) /\ Count \in Nat /\ Len(history) <= Count /\ ConfiguredLimit \in Nat
    BY <1>2, TrendAssumption DEF BuildsInv, AnalysisInv, KeptInv, ReportsInv, Count
  <2> DEFINE selected == Builds!Window(history, size)
             k == Len(selected)
  <2>3. /\ selected \in Seq(Builds!Runs) /\ k \in Nat /\ k <= Len(history)
        /\ \A i \in 1 .. k : selected[i] = history[Len(history) - k + i]
    <3>1. CASE size > 0 /\ size < Len(history)
      <4>1. selected = SubSeq(history, Len(history) - size + 1, Len(history))
        BY <3>1 DEF Builds!Window
      <4>2. size \in Nat /\ Len(history) \in Nat
        BY <2>2
      <4> QED BY <2>2, <3>1, <4>1, <4>2
    <3>2. CASE ~ (size > 0 /\ size < Len(history))
      <4>1. selected = history
        BY <3>2 DEF Builds!Window
      <4> QED BY <2>2, <4>1
    <3> QED BY <3>1, <3>2
  <2>4. k > 1
    <3>1. analysis.size = k
      BY <2>1 DEF Builds!Analyze
    <3> QED BY <1>2, <3>1
  <2>5. analysis.comparison = Builds!Compare(Builds!Last(selected), Builds!LatestRun(Builds!Front(selected)), k)
    BY <2>1 DEF Builds!Analyze
  <2> HIDE DEF selected
  <2>6. Builds!Last(selected) = selected[k] /\ Builds!LatestRun(Builds!Front(selected)) = selected[k - 1]
    <3>1. Builds!Front(selected) = SubSeq(selected, 1, k - 1)
      BY DEF Builds!Front
    <3>2. PICK front : front = SubSeq(selected, 1, k - 1)
      OBVIOUS
    <3>3. Len(front) = k - 1 /\ front[k - 1] = selected[k - 1] /\ front \in Seq(Builds!Runs)
      BY <2>3, <2>4, <3>2
    <3>4. front # <<>>
      BY <2>3, <2>4, <3>3
    <3>5. Builds!LatestRun(front) = front[k - 1]
      BY <3>3, <3>4 DEF Builds!Last, Builds!LatestRun
    <3> QED BY <3>1, <3>2, <3>3, <3>5 DEF Builds!Last
  <2>7. /\ selected[k] = RunOf(Count) /\ selected[k - 1] = RunOf(Count - 1)
        /\ Count > 1 /\ Count - 1 \in 1 .. Count
    <3>1. /\ k \in 1 .. k /\ k - 1 \in 1 .. k /\ Len(history) \in 1 .. Len(history)
          /\ Len(history) - 1 \in 1 .. Len(history) /\ Count > 1 /\ Count - 1 \in 1 .. Count
      BY <2>2, <2>3, <2>4
    <3>2. selected[k] = history[Len(history)] /\ selected[k - 1] = history[Len(history) - 1]
      <4>1. Len(history) - k + k = Len(history) /\ Len(history) - k + (k - 1) = Len(history) - 1
        BY <2>2, <2>3
      <4> QED BY <2>3, <3>1, <4>1
    <3>3. history[Len(history)] = RunOf(Count) /\ history[Len(history) - 1] = RunOf(Count - 1)
      <4>1. Count - Len(history) + Len(history) = Count /\ Count - Len(history) + (Len(history) - 1) = Count - 1
        BY <2>2
      <4> QED BY <3>1, <4>1 DEF BuildsInv, KeptInv
    <3> QED BY <3>1, <3>2, <3>3
  <2>8. BaselineOf(Count) = RunOf(Count - 1) /\ RunOf(Count - 1) # None
    BY <2>2, <2>7, RunsAreRuns DEF BaselineOf, BuildsInv
  <2>9. report.trend = Builds!Compare(RunOf(Count), RunOf(Count - 1), Len(history))
    BY <2>2, <2>7, <2>8 DEF BuildsInv, ReportInv
  <2>10. report.trend.length = Len(history)
    BY <2>8, <2>9, CompareFacts
  <2> QED BY <2>5, <2>6, <2>7, <2>8, <2>9, <2>10, CompareFacts
<1> QED BY <1>1, <1>2 DEF Builds!TrendsTellOneStory

-----------------------------------------------------------------------------
\* A report has suites and cases of different names, none called "_suite".
LEMMA ReportIsSound ==
  ASSUME ReportsInv, NEW n \in 1 .. Count, NEW d, d = reports[n]
  PROVE  /\ IsFiniteSet(Builds!FailedPlaces(d)) /\ Builds!Distinct(d.suites)
         /\ \A i \in DOMAIN d.suites :
              /\ i \in Nat /\ Builds!Distinct(d.suites[i].cases)
              /\ IsFiniteSet(Builds!FailedIn(d.suites[i]))
              /\ Builds!buildSuite(d.suites[i]) # None
              /\ \A j \in DOMAIN d.suites[i].cases :
                   d.suites[i].cases[j].passed \in BOOLEAN /\ d.suites[i].cases[j].name # "_suite"
<1>1. PICK r \in Reports : d = Builds!Dated(r, n)
  BY DEF ReportsInv
<1>2. d.suites = r.suites /\ r.suites \in Seq(Builds!ToSet(r.suites)) /\ Builds!Distinct(r.suites)
  BY <1>1, DatedIsAReport, ProjectAssumption DEF Builds!BuildsAssumption
<1>3. ASSUME NEW i \in DOMAIN d.suites
      PROVE  /\ i \in Nat /\ Builds!Distinct(d.suites[i].cases)
             /\ IsFiniteSet(Builds!FailedIn(d.suites[i]))
             /\ Builds!buildSuite(d.suites[i]) # None
             /\ \A j \in DOMAIN d.suites[i].cases :
                  d.suites[i].cases[j].passed \in BOOLEAN /\ d.suites[i].cases[j].name # "_suite"
  <2>1. PICK s : s = d.suites[i]
    OBVIOUS
  <2>2. s \in Builds!ToSet(r.suites)
    BY <1>2, <2>1 DEF Builds!ToSet
  <2>3. /\ s.cases \in Seq(Builds!ToSet(s.cases)) /\ Builds!Distinct(s.cases) /\ Builds!buildSuite(s) # None
        /\ \A c \in Builds!ToSet(s.cases) : c.passed \in BOOLEAN /\ c.name # "_suite"
    BY <2>2, ProjectAssumption DEF Builds!BuildsAssumption
  <2>4. PICK m \in Nat : DOMAIN s.cases = 1 .. m
    BY <2>3
  <2>5. IsFiniteSet(Builds!FailedIn(s))
    <3>1. Builds!FailedIn(s) \subseteq 1 .. m
      BY <2>4 DEF Builds!FailedIn
    <3>2. IsFiniteSet(1 .. m)
      BY FS_Interval
    <3> QED BY <3>1, <3>2, FS_Subset
  <2>6. \A j \in DOMAIN s.cases : s.cases[j].passed \in BOOLEAN /\ s.cases[j].name # "_suite"
    BY <2>3 DEF Builds!ToSet
  <2>7. i \in Nat
    BY <1>2
  <2> QED BY <2>1, <2>3, <2>5, <2>6, <2>7
<1>4. IsFiniteSet(Builds!FailedPlaces(d))
  BY <1>1, FailuresAreCounted
<1> QED BY <1>2, <1>3, <1>4

\* A history retains every case of a workflow suite that failed, and nothing
\* else of a suite fails.
LEMMA FailedAreRetained ==
  ASSUME NEW s
  PROVE  LET run == Builds!buildSuite(s)
         IN  /\ run.name = s.name /\ run.failed = Cardinality(Builds!FailedIn(s))
             /\ \A c \in run.cases : \E j \in DOMAIN s.cases : c = Builds!HistoryCase(s.cases[j])
             /\ s.name \in Builds!Workflow =>
                  \A j \in Builds!FailedIn(s) : Builds!HistoryCase(s.cases[j]) \in run.cases
<1> DEFINE run == Builds!buildSuite(s)
<1>1. PICK fails : fails = Builds!FailedIn(s)
  OBVIOUS
<1>2. run.name = s.name /\ run.failed = Cardinality(fails)
  BY <1>1, SameCount DEF Builds!buildSuite
<1>3. run.cases = IF s.name \in Builds!Workflow
                  THEN {c \in {Builds!HistoryCase(s.cases[i]) : i \in DOMAIN s.cases} : Builds!Retained(c)}
                  ELSE {}
  BY DEF Builds!buildSuite
<1> HIDE DEF run
<1>4. \A c \in run.cases : \E j \in DOMAIN s.cases : c = Builds!HistoryCase(s.cases[j])
  BY <1>3
<1>5. ASSUME s.name \in Builds!Workflow, NEW j \in Builds!FailedIn(s)
      PROVE  Builds!HistoryCase(s.cases[j]) \in run.cases
  <2>1. j \in DOMAIN s.cases /\ ~s.cases[j].passed
    BY <1>5 DEF Builds!FailedIn, Builds!CasePasses
  <2>2. PICK c : c = Builds!HistoryCase(s.cases[j])
    OBVIOUS
  <2>3. ~c.passed
    BY <2>1, <2>2 DEF Builds!HistoryCase
  <2>4. Builds!Retained(c)
    BY <2>3 DEF Builds!Retained
  <2> QED BY <1>3, <1>5, <2>1, <2>2, <2>4
<1> QED BY <1>1, <1>2, <1>4, <1>5 DEF run

\* Of two sets of failures the larger has one whose name the other lacks.
LEMMA MoreFailuresNameANew ==
  ASSUME NEW s, NEW old, Builds!Distinct(s.cases),
         IsFiniteSet(Builds!FailedIn(s)), IsFiniteSet(Builds!FailedIn(old)),
         Cardinality(Builds!FailedIn(old)) < Cardinality(Builds!FailedIn(s))
  PROVE  \E j \in Builds!FailedIn(s) : \A k \in Builds!FailedIn(old) : old.cases[k].name # s.cases[j].name
<1> SUFFICES ASSUME \A j \in Builds!FailedIn(s) : \E k \in Builds!FailedIn(old) : old.cases[k].name = s.cases[j].name
             PROVE  FALSE
  OBVIOUS
<1>1. PICK now : now = Builds!FailedIn(s)
  OBVIOUS
<1>2. PICK then : then = Builds!FailedIn(old)
  OBVIOUS
<1> DEFINE namesake == [j \in now |-> CHOOSE k \in then : old.cases[k].name = s.cases[j].name]
<1>3. \A j \in now : namesake[j] \in then /\ old.cases[namesake[j]].name = s.cases[j].name
  BY <1>1, <1>2
<1>4. namesake \in [now -> then]
  BY <1>3
<1> HIDE DEF namesake
<1>5. PICK i \in now : \E j \in now : i # j /\ namesake[i] = namesake[j]
  BY <1>1, <1>2, <1>4, FS_PigeonHole
<1>6. PICK j \in now : i # j /\ namesake[i] = namesake[j]
  BY <1>5
<1>7. s.cases[i].name = s.cases[j].name
  BY <1>3, <1>6
<1>8. i \in DOMAIN s.cases /\ j \in DOMAIN s.cases
  BY <1>1 DEF Builds!FailedIn
<1> QED BY <1>6, <1>7, <1>8 DEF Builds!Distinct

LEMMA RunOfReport ==
  ASSUME NEW d
  PROVE  LET run == Builds!BuildRun(d)
         IN  /\ run.suites = [i \in DOMAIN d.suites |-> Builds!buildSuite(d.suites[i])]
             /\ run.meta = d.meta /\ run.failedCases = Builds!FailedCases(d)
BY DEF Builds!BuildRun

\* The suite of a name is the only one, if there is one.
LEMMA SuiteOfAName ==
  ASSUME NEW d, NEW name, Builds!Distinct(d.suites), \A i \in DOMAIN d.suites : i \in Nat
  PROVE  \/ /\ Builds!SuiteNamed(Builds!BuildRun(d), name) = None
            /\ \A i \in DOMAIN d.suites : d.suites[i].name # name
         \/ \E k \in DOMAIN d.suites :
              /\ d.suites[k].name = name /\ \A i \in DOMAIN d.suites : d.suites[i].name = name => i = k
              /\ Builds!SuiteNamed(Builds!BuildRun(d), name) = Builds!buildSuite(d.suites[k])
<1>1. PICK run : run = Builds!BuildRun(d)
  OBVIOUS
<1>2. DOMAIN run.suites = DOMAIN d.suites /\ \A i \in DOMAIN d.suites : run.suites[i] = Builds!buildSuite(d.suites[i])
  BY ZenonT(60), <1>1, RunOfReport
<1>3. \A i \in DOMAIN d.suites : run.suites[i].name = d.suites[i].name
  BY <1>2, FailedAreRetained
<1> DEFINE found == {i \in DOMAIN run.suites : run.suites[i].name = name}
<1>4. Builds!SuiteNamed(run, name) = IF found = {} THEN None ELSE run.suites[Builds!Max(found)]
  BY DEF Builds!SuiteNamed
<1>5. CASE found = {}
  BY <1>1, <1>2, <1>3, <1>4, <1>5
<1>6. CASE found # {}
  <2>1. PICK k \in DOMAIN d.suites : d.suites[k].name = name
    BY <1>2, <1>3, <1>6
  <2>2. \A i \in DOMAIN d.suites : d.suites[i].name = name => i = k
    BY <2>1 DEF Builds!Distinct
  <2>3. found = {k}
    BY <1>2, <1>3, <2>1, <2>2
  <2>4. Builds!Max({k}) = k
    BY <2>1 DEF Builds!Max
  <2> QED BY <1>1, <1>2, <1>4, <1>6, <2>1, <2>2, <2>3, <2>4
<1> QED BY <1>5, <1>6

\* Where more cases of a workflow suite fail than before, one of them is new
\* or has regressed.
LEMMA MoreFailuresAreNamed ==
  ASSUME ReportsInv, NEW n \in 1 .. Count, NEW m \in 1 .. Count, NEW i \in DOMAIN RunOf(n).suites,
         LET t == Builds!SuiteTrend(RunOf(n).suites[i], RunOf(m)) IN t.name \in Builds!Workflow /\ t.failed > 0
  PROVE  LET t == Builds!SuiteTrend(RunOf(n).suites[i], RunOf(m))
         IN  \E c \in Builds!compareCases(RunOf(n), RunOf(m)) : c.suite = t.name /\ c.status \in {"new", "regressed"}
<1>1. PICK d : d = reports[n]
  OBVIOUS
<1>2. PICK b : b = reports[m]
  OBVIOUS
<1>3. PICK run : run = Builds!BuildRun(d)
  OBVIOUS
<1>4. PICK earlier : earlier = Builds!BuildRun(b)
  OBVIOUS
<1>5. /\ DOMAIN run.suites = DOMAIN d.suites
      /\ \A j \in DOMAIN d.suites : run.suites[j] = Builds!buildSuite(d.suites[j])
      /\ DOMAIN earlier.suites = DOMAIN b.suites
      /\ \A j \in DOMAIN b.suites : earlier.suites[j] = Builds!buildSuite(b.suites[j])
      /\ RunOf(n) = run /\ RunOf(m) = earlier /\ i \in DOMAIN d.suites
  <2>1. RunOf(n) = run /\ RunOf(m) = earlier
    BY <1>1, <1>2, <1>3, <1>4 DEF RunOf
  <2>2. run.suites = [j \in DOMAIN d.suites |-> Builds!buildSuite(d.suites[j])]
    BY <1>3, RunOfReport
  <2>3. earlier.suites = [j \in DOMAIN b.suites |-> Builds!buildSuite(b.suites[j])]
    BY <1>4, RunOfReport
  <2>4. i \in DOMAIN run.suites
    BY <2>1
  <2> QED BY <2>1, <2>2, <2>3, <2>4
<1>6. PICK s : s = d.suites[i]
  OBVIOUS
<1>7. /\ Builds!Distinct(s.cases) /\ IsFiniteSet(Builds!FailedIn(s))
      /\ \A j \in DOMAIN s.cases : s.cases[j].passed \in BOOLEAN
  BY <1>1, <1>5, <1>6, ReportIsSound
<1>8. /\ Builds!Distinct(b.suites)
      /\ \A k \in DOMAIN b.suites : /\ k \in Nat /\ IsFiniteSet(Builds!FailedIn(b.suites[k]))
                                    /\ Builds!buildSuite(b.suites[k]) # None
  BY <1>2, ReportIsSound
<1>9. PICK now : now = Builds!buildSuite(s)
  OBVIOUS
<1>10. /\ now.name = s.name /\ now.failed = Cardinality(Builds!FailedIn(s)) /\ run.suites[i] = now
       /\ s.name \in Builds!Workflow => \A j \in Builds!FailedIn(s) : Builds!HistoryCase(s.cases[j]) \in now.cases
  BY <1>5, <1>6, <1>9, FailedAreRetained
<1>11. PICK t : t = Builds!SuiteTrend(now, earlier)
  OBVIOUS
<1>12. PICK before : before = Builds!SuiteNamed(earlier, s.name)
  OBVIOUS
<1>13. /\ t.name = s.name
       /\ t.failed = IF before = None THEN now.failed ELSE now.failed - before.failed
  <2>1. now.name = s.name
    BY <1>10
  <2>2. CASE before = None
    BY <1>11, <1>12, <2>1, <2>2 DEF Builds!SuiteTrend
  <2>3. CASE before # None
    BY <1>11, <1>12, <2>1, <2>3 DEF Builds!SuiteTrend
  <2> QED BY <2>2, <2>3
<1>14. s.name \in Builds!Workflow /\ t.failed > 0
  BY <1>5, <1>10, <1>11, <1>13
<1>15. Cardinality(Builds!FailedIn(s)) \in Nat
  BY <1>7, FS_CardinalityType
\* One that failed before in no case of its name.
<1>16. PICK j \in Builds!FailedIn(s) :
         \A k \in DOMAIN b.suites : b.suites[k].name = s.name =>
           \A l \in Builds!FailedIn(b.suites[k]) : b.suites[k].cases[l].name # s.cases[j].name
  <2>1. CASE before = None /\ \A k \in DOMAIN b.suites : b.suites[k].name # s.name
    <3>1. Builds!FailedIn(s) # {}
      <4>1. Cardinality(Builds!FailedIn(s)) > 0
        BY <1>10, <1>13, <1>14, <2>1
      <4>2. Cardinality({}) = 0
        BY FS_EmptySet
      <4> QED BY <4>1, <4>2
    <3> QED BY <2>1, <3>1
  <2>2. CASE \E k \in DOMAIN b.suites :
               /\ b.suites[k].name = s.name /\ \A l \in DOMAIN b.suites : b.suites[l].name = s.name => l = k
               /\ before = Builds!buildSuite(b.suites[k])
    <3>1. PICK k \in DOMAIN b.suites :
            /\ b.suites[k].name = s.name /\ \A l \in DOMAIN b.suites : b.suites[l].name = s.name => l = k
            /\ before = Builds!buildSuite(b.suites[k])
      BY <2>2
    <3>2. PICK old : old = b.suites[k]
      OBVIOUS
    <3>3. before # None /\ before.failed = Cardinality(Builds!FailedIn(old)) /\ IsFiniteSet(Builds!FailedIn(old))
      BY <1>8, <3>1, <3>2, FailedAreRetained
    <3>4. Cardinality(Builds!FailedIn(old)) \in Nat
      BY <3>3, FS_CardinalityType
    <3>5. Cardinality(Builds!FailedIn(old)) < Cardinality(Builds!FailedIn(s))
      BY <1>10, <1>13, <1>14, <1>15, <3>3, <3>4
    <3>6. PICK j \in Builds!FailedIn(s) : \A l \in Builds!FailedIn(old) : old.cases[l].name # s.cases[j].name
      BY <1>7, <3>3, <3>5, MoreFailuresNameANew
    <3> QED BY <3>1, <3>2, <3>6
  <2> QED BY <1>4, <1>8, <1>12, <2>1, <2>2, SuiteOfAName
<1>17. PICK c : c = Builds!HistoryCase(s.cases[j])
  OBVIOUS
<1>18. j \in DOMAIN s.cases /\ s.cases[j].passed = FALSE /\ c.passed = FALSE /\ c.name = s.cases[j].name
  BY <1>7, <1>17 DEF Builds!FailedIn, Builds!CasePasses, Builds!HistoryCase
<1>19. PICK item : item = [suite |-> s.name, case |-> c]
  OBVIOUS
<1>20. item.suite = s.name /\ item.case = c
  BY <1>19
<1>21. item \in Builds!flattenCases(run)
  <2>1. c \in run.suites[i].cases /\ run.suites[i].name = s.name /\ i \in DOMAIN run.suites
    BY <1>5, <1>10, <1>14, <1>17
  <2> QED BY <1>19, <2>1 DEF Builds!flattenCases
<1>22. \A o \in Builds!Before(item, earlier) : o.case.passed
  <2> SUFFICES ASSUME NEW o \in Builds!Before(item, earlier) PROVE o.case.passed
    OBVIOUS
  <2>1. /\ o \in Builds!flattenCases(earlier)
        /\ o.suite = s.name /\ o.case.name = s.cases[j].name
    BY <1>18, <1>20 DEF Builds!Before
  <2>2. PICK k \in DOMAIN b.suites : \E old \in earlier.suites[k].cases : o = [suite |-> earlier.suites[k].name, case |-> old]
    BY <1>5, <2>1 DEF Builds!flattenCases
  <2>3. PICK old \in earlier.suites[k].cases : o = [suite |-> earlier.suites[k].name, case |-> old]
    BY <2>2
  <2>4. o.suite = earlier.suites[k].name /\ o.case = old
    BY <2>3
  <2>5. earlier.suites[k].name = b.suites[k].name
    BY <1>5, FailedAreRetained
  <2>6. PICK l \in DOMAIN b.suites[k].cases : old = Builds!HistoryCase(b.suites[k].cases[l])
    BY <1>5, <2>3, FailedAreRetained
  <2>7. old.passed = b.suites[k].cases[l].passed /\ old.name = b.suites[k].cases[l].name
    BY <2>6 DEF Builds!HistoryCase
  <2>8. l \notin Builds!FailedIn(b.suites[k])
    BY <1>16, <2>1, <2>4, <2>5, <2>7
  <2> QED BY <2>4, <2>6, <2>7, <2>8 DEF Builds!FailedIn, Builds!CasePasses
<1>23. PICK status : status = Builds!CaseStatus(item, earlier)
  OBVIOUS
<1>24. status \in {"new", "regressed"}
  <2>1. PICK olds : olds = Builds!Before(item, earlier)
    OBVIOUS
  <2>2. ~item.case.passed /\ \A o \in olds : o.case.passed
    BY <1>18, <1>20, <1>22, <2>1
  <2>3. CASE olds = {}
    BY <1>23, <2>1, <2>2, <2>3 DEF Builds!CaseStatus
  <2>4. CASE olds # {}
    BY <1>23, <2>1, <2>2, <2>4 DEF Builds!CaseStatus
  <2> QED BY <2>3, <2>4
<1>25. PICK trend : trend = Builds!buildCaseTrend(item, earlier)
  OBVIOUS
<1>26. trend.suite = s.name /\ trend.status = status
  BY <1>20, <1>23, <1>25 DEF Builds!buildCaseTrend
<1>27. trend \in Builds!compareCases(run, earlier)
  <2>1. status # "same"
    BY <1>24
  <2> QED BY <1>21, <1>25, <1>26, <2>1 DEF Builds!compareCases
<1> QED BY <1>5, <1>10, <1>11, <1>13, <1>24, <1>26, <1>27

\* Every failing case that is retained is in a bucket.
LEMMA BucketsHoldFailures ==
  ASSUME NEW run
  PROVE  UNION {b.cases : b \in Builds!buildFailureBuckets(run)}
         = {<<f_.suite, f_.case.name>> : f_ \in {item \in Builds!flattenCases(run) : ~item.case.passed}}
<1>1. PICK failed : failed = {item \in Builds!flattenCases(run) : ~item.case.passed}
  OBVIOUS
<1> DEFINE Of(g_) == {<<i.suite, i.case.name>> : i \in {h \in failed : g_ \in Builds!BucketsOf(h.case)}}
           Bucket(g_) == [signature |-> g_, cases |-> Of(g_)]
           signatures == UNION {Builds!BucketsOf(h.case) : h \in failed}
<1>2. Builds!buildFailureBuckets(run) = {Bucket(g_) : g_ \in signatures}
  BY <1>1 DEF Builds!buildFailureBuckets
<1>3. ASSUME NEW h \in failed PROVE Builds!BucketsOf(h.case) # {}
  <2>1. CASE h.case.signatures # {}
    BY <2>1 DEF Builds!BucketsOf
  <2>2. CASE h.case.signatures = {} /\ h.case.claim # None
    BY <2>2 DEF Builds!BucketsOf
  <2>3. CASE h.case.signatures = {} /\ h.case.claim = None
    BY <2>3 DEF Builds!BucketsOf
  <2> QED BY <2>1, <2>2, <2>3
<1>4. \A g_ : Bucket(g_).cases = Of(g_)
  OBVIOUS
<1>5. ASSUME NEW g_, NEW x \in Of(g_) PROVE x \in {<<h.suite, h.case.name>> : h \in failed}
  OBVIOUS
<1>6. ASSUME NEW h \in failed PROVE \E g_ \in signatures : <<h.suite, h.case.name>> \in Of(g_)
  <2>1. PICK g_ : g_ \in Builds!BucketsOf(h.case)
    BY <1>3
  <2>2. g_ \in signatures
    BY <2>1
  <2>3. <<h.suite, h.case.name>> \in Of(g_)
    BY <2>1
  <2> QED BY <2>2, <2>3
<1> HIDE DEF Of, signatures
<1>7. UNION {b.cases : b \in {Bucket(g_) : g_ \in signatures}} = UNION {Of(g_) : g_ \in signatures}
  BY <1>4
<1>8. UNION {Of(g_) : g_ \in signatures} = {<<h.suite, h.case.name>> : h \in failed}
  BY <1>5, <1>6
<1> QED BY <1>1, <1>2, <1>7, <1>8

\* The artifact's entries of failing cases are as many as those, and each has
\* the fingerprint of its scenario.
LEMMA ArtifactHoldsFailures ==
  ASSUME ReportsInv, NEW n \in 1 .. Count, NEW entries,
         entries = {e \in Builds!BuildReplayArtifact(reports[n]) : e.failed /\ e.name # "_suite"}
  PROVE  /\ Cardinality(entries) = RunOf(n).failedCases
         /\ \A e \in entries : e.name \in DOMAIN RunOf(n).meta.prints => e.scenario = RunOf(n).meta.prints[e.name]
<1>1. PICK d : d = reports[n]
  OBVIOUS
<1>2. /\ IsFiniteSet(Builds!FailedPlaces(d)) /\ Builds!Distinct(d.suites)
      /\ \A i \in DOMAIN d.suites :
           /\ Builds!Distinct(d.suites[i].cases)
           /\ \A j \in DOMAIN d.suites[i].cases :
                d.suites[i].cases[j].passed \in BOOLEAN /\ d.suites[i].cases[j].name # "_suite"
  BY <1>1, ReportIsSound
<1>3. RunOf(n).failedCases = Builds!FailedCases(d) /\ RunOf(n).meta = d.meta
  BY <1>1, RunOfReport DEF RunOf
<1> DEFINE Fingerprint(name) == IF name \in DOMAIN d.meta.prints THEN d.meta.prints[name] ELSE None
           Told(s) == {j \in DOMAIN s.cases : ~s.cases[j].passed \/ s.cases[j].messages # <<>>}
           CaseEntry(i, j) == [suite |-> d.suites[i].name, name |-> d.suites[i].cases[j].name,
                           scenario |-> Fingerprint(d.suites[i].cases[j].name), failed |-> ~d.suites[i].cases[j].passed]
           SuiteEntry(i) == [suite |-> d.suites[i].name, name |-> "_suite", scenario |-> None, failed |-> TRUE]
<1>4. Builds!BuildReplayArtifact(d)
      = {SuiteEntry(i) : i \in {k \in DOMAIN d.suites : d.suites[k].broken}}
        \cup UNION {{CaseEntry(i, j) : j \in Told(d.suites[i])} : i \in DOMAIN d.suites}
  BY DEF Builds!BuildReplayArtifact
<1>5. \A i, j : /\ CaseEntry(i, j).suite = d.suites[i].name /\ CaseEntry(i, j).name = d.suites[i].cases[j].name
                /\ CaseEntry(i, j).scenario = Fingerprint(d.suites[i].cases[j].name)
                /\ (CaseEntry(i, j).failed <=> ~d.suites[i].cases[j].passed)
  OBVIOUS
<1>6. \A i : SuiteEntry(i).name = "_suite"
  OBVIOUS
<1>7. \A p : p \in Builds!FailedPlaces(d) <=>
        \E i \in DOMAIN d.suites : \E j \in DOMAIN d.suites[i].cases : p = <<i, j>> /\ ~d.suites[i].cases[j].passed
  BY DEF Builds!FailedPlaces, Builds!FailedIn, Builds!CasePasses
<1>8. \A i \in DOMAIN d.suites : Told(d.suites[i]) \subseteq DOMAIN d.suites[i].cases
  OBVIOUS
<1>9. \A i \in DOMAIN d.suites : \A j \in DOMAIN d.suites[i].cases :
        ~d.suites[i].cases[j].passed => j \in Told(d.suites[i])
  OBVIOUS
<1> HIDE DEF CaseEntry, SuiteEntry, Told
<1>10. \A e : e \in entries <=>
         \E i \in DOMAIN d.suites : \E j \in DOMAIN d.suites[i].cases : e = CaseEntry(i, j) /\ ~d.suites[i].cases[j].passed
  <2>1. ASSUME NEW e \in entries
        PROVE  \E i \in DOMAIN d.suites : \E j \in DOMAIN d.suites[i].cases :
                 e = CaseEntry(i, j) /\ ~d.suites[i].cases[j].passed
    <3>1. e \in Builds!BuildReplayArtifact(d) /\ e.failed /\ e.name # "_suite"
      BY <1>1
    <3>2. \E i \in DOMAIN d.suites : \E j \in Told(d.suites[i]) : e = CaseEntry(i, j)
      BY <1>4, <1>6, <3>1
    <3> QED BY <1>5, <1>8, <3>1, <3>2
  <2>2. ASSUME NEW i \in DOMAIN d.suites, NEW j \in DOMAIN d.suites[i].cases, ~d.suites[i].cases[j].passed
        PROVE  CaseEntry(i, j) \in entries
    <3>1. CaseEntry(i, j) \in Builds!BuildReplayArtifact(d)
      BY <1>4, <1>9, <2>2
    <3>2. CaseEntry(i, j).failed /\ CaseEntry(i, j).name # "_suite"
      BY <1>2, <1>5, <2>2
    <3> QED BY <1>1, <3>1, <3>2
  <2> QED BY <2>1, <2>2
<1>11. Cardinality(entries) = Cardinality(Builds!FailedPlaces(d))
  <2>1. PICK places : places = Builds!FailedPlaces(d)
    OBVIOUS
  <2> DEFINE entryOf == [p \in places |-> CaseEntry(p[1], p[2])]
  <2>2. entryOf \in [places -> entries]
    BY <1>7, <1>10, <2>1
  <2>3. \A e \in entries : \E p \in places : entryOf[p] = e
    <3> SUFFICES ASSUME NEW e \in entries PROVE \E p \in places : entryOf[p] = e
      OBVIOUS
    <3>1. PICK i \in DOMAIN d.suites :
            \E j \in DOMAIN d.suites[i].cases : e = CaseEntry(i, j) /\ ~d.suites[i].cases[j].passed
      BY <1>10
    <3>2. PICK j \in DOMAIN d.suites[i].cases : e = CaseEntry(i, j) /\ ~d.suites[i].cases[j].passed
      BY <3>1
    <3>3. <<i, j>> \in places
      BY <1>7, <2>1, <3>2
    <3>4. entryOf[<<i, j>>] = CaseEntry(i, j)
      BY <3>3
    <3> QED BY <3>2, <3>3, <3>4
  <2>4. \A p, q \in places : entryOf[p] = entryOf[q] => p = q
    <3> SUFFICES ASSUME NEW p \in places, NEW q \in places, entryOf[p] = entryOf[q] PROVE p = q
      OBVIOUS
    <3>1. PICK i \in DOMAIN d.suites : \E j \in DOMAIN d.suites[i].cases : p = <<i, j>>
      BY <1>7, <2>1
    <3>2. PICK j \in DOMAIN d.suites[i].cases : p = <<i, j>>
      BY <3>1
    <3>3. PICK k \in DOMAIN d.suites : \E l \in DOMAIN d.suites[k].cases : q = <<k, l>>
      BY <1>7, <2>1
    <3>4. PICK l \in DOMAIN d.suites[k].cases : q = <<k, l>>
      BY <3>3
    <3>5. CaseEntry(i, j) = CaseEntry(k, l)
      BY <3>2, <3>4
    <3>6. d.suites[i].name = d.suites[k].name /\ d.suites[i].cases[j].name = d.suites[k].cases[l].name
      BY <1>5, <3>5
    <3>7. i = k
      BY <1>2, <3>6 DEF Builds!Distinct
    <3>8. j = l
      BY <1>2, <3>6, <3>7 DEF Builds!Distinct
    <3> QED BY <3>2, <3>4, <3>7, <3>8
  <2> HIDE DEF entryOf
  <2>5. entryOf \in Bijection(places, entries)
    <3>1. entryOf \in Injection(places, entries)
      BY <2>2, <2>4 DEF Injection, IsInjective
    <3>2. entryOf \in Surjection(places, entries)
      BY <2>2, <2>3 DEF Surjection
    <3> QED BY <3>1, <3>2 DEF Bijection
  <2>6. ExistsBijection(places, entries)
    BY <2>5 DEF ExistsBijection
  <2> QED BY <1>2, <2>1, <2>6, FS_Bijection
<1>12. Builds!FailedCases(d) = Cardinality(Builds!FailedPlaces(d))
  <2>1. PICK places : places = Builds!FailedPlaces(d)
    OBVIOUS
  <2> QED BY <2>1, SameCount DEF Builds!FailedCases
<1>13. ASSUME NEW e \in entries, e.name \in DOMAIN d.meta.prints PROVE e.scenario = d.meta.prints[e.name]
  BY <1>5, <1>10, <1>13
<1> QED BY <1>3, <1>11, <1>12, <1>13

\* Every failure of a build is told of.
LEMMA FailuresExplained ==
  ASSUME BuildsInv
  PROVE  Builds!FailuresAreExplained
<1> SUFFICES ASSUME report # None
             PROVE  LET run == report.run
                        failing == {item \in Builds!flattenCases(run) : ~item.case.passed}
                        entries == {e \in report.replay : e.failed /\ e.name # "_suite"}
                    IN  /\ ~report.trend.baseline =>
                             \A i \in DOMAIN report.trend.suites :
                               LET t == report.trend.suites[i]
                               IN  t.name \in Builds!Workflow /\ t.failed > 0 =>
                                     \E c \in report.trend.cases : c.suite = t.name /\ c.status \in {"new", "regressed"}
                        /\ UNION {b.cases : b \in report.trend.buckets} = {<<h.suite, h.case.name>> : h \in failing}
                        /\ Builds!Cardinality(entries) = run.failedCases
                        /\ \A e \in entries : e.name \in DOMAIN run.meta.prints => e.scenario = run.meta.prints[e.name]
  BY DEF Builds!FailuresAreExplained
<1>1. /\ ReportsInv /\ Count \in Nat /\ Count # 0 /\ Count \in 1 .. Count
      /\ report.run = RunOf(Count)
      /\ report.trend = Builds!Compare(RunOf(Count), BaselineOf(Count), Len(history))
      /\ report.replay = Builds!BuildReplayArtifact(reports[Count])
  BY DEF BuildsInv, ReportInv, ReportsInv, Count
<1>2. report.trend.buckets = Builds!buildFailureBuckets(RunOf(Count))
  <2>1. CASE BaselineOf(Count) = None
    BY <1>1, <2>1 DEF Builds!Compare
  <2>2. CASE BaselineOf(Count) # None
    BY <1>1, <2>2 DEF Builds!Compare
  <2> QED BY <2>1, <2>2
<1>3. ASSUME ~report.trend.baseline, NEW i \in DOMAIN report.trend.suites,
             report.trend.suites[i].name \in Builds!Workflow, report.trend.suites[i].failed > 0
      PROVE  \E c \in report.trend.cases : c.suite = report.trend.suites[i].name /\ c.status \in {"new", "regressed"}
  <2>1. BaselineOf(Count) # None
    BY <1>1, <1>3, CompareFacts
  <2>2. Count - 1 \in 1 .. Count /\ BaselineOf(Count) = RunOf(Count - 1)
    BY <1>1, <2>1 DEF BaselineOf
  <2>3. /\ report.trend.suites = [j \in DOMAIN RunOf(Count).suites |-> Builds!SuiteTrend(RunOf(Count).suites[j], RunOf(Count - 1))]
        /\ report.trend.cases = Builds!compareCases(RunOf(Count), RunOf(Count - 1))
    BY <1>1, <2>1, <2>2 DEF Builds!Compare
  <2>4. /\ i \in DOMAIN RunOf(Count).suites
        /\ report.trend.suites[i] = Builds!SuiteTrend(RunOf(Count).suites[i], RunOf(Count - 1))
    BY <1>3, <2>3
  <2> QED BY <1>1, <1>3, <2>2, <2>3, <2>4, MoreFailuresAreNamed
<1>4. PICK entries : entries = {e \in report.replay : e.failed /\ e.name # "_suite"}
  OBVIOUS
<1>5. /\ Builds!Cardinality(entries) = report.run.failedCases
      /\ \A e \in entries : e.name \in DOMAIN report.run.meta.prints => e.scenario = report.run.meta.prints[e.name]
  BY <1>1, <1>4, SameCount, ArtifactHoldsFailures
<1>6. UNION {b.cases : b \in report.trend.buckets}
      = {<<h.suite, h.case.name>> : h \in {item \in Builds!flattenCases(report.run) : ~item.case.passed}}
  BY <1>1, <1>2, BucketsHoldFailures
<1> QED BY <1>3, <1>4, <1>5, <1>6

LEMMA ProjectBuilds == ProjectSpec => []BuildsInv
<1>1. ProjectInit => BuildsInv
  BY BuildsStart DEF ProjectInit
<1>2. BuildsInv /\ [ProjectNext]_all => BuildsInv'
  <2> SUFFICES ASSUME BuildsInv, [ProjectNext]_all PROVE BuildsInv'
    OBVIOUS
  <2>1. Builds!Next \/ UNCHANGED buildVars
    BY DEF ProjectNext, all
  <2> QED BY <2>1, BuildsNext
<1> QED BY <1>1, <1>2, PTL DEF ProjectSpec

\* Whatever the limit trims, the deltas of all builds add up, and the trends
\* command says of the last two what the last report said; where more cases
\* fail one is named that did not before, every failing case is in a bucket
\* and has its entry in the artifact (Compare, Analyze, compareCases,
\* buildFailureBuckets, BuildReplayArtifact).
THEOREM ProjectTrendsTellOneStory == ProjectSpec => []TrendsTellOneStory
<1>1. BuildsInv => TrendsTellOneStory
  BY OneStory, FailuresExplained DEF TrendsTellOneStory
<1> QED BY <1>1, ProjectBuilds, PTL

-----------------------------------------------------------------------------
\* As many runs as there are builds, for no two have the same time.
LEMMA RunsAreAsMany ==
  ASSUME ReportsInv, NEW k \in Nat, k <= Count
  PROVE  LET some == {RunOf(n) : n \in 1 .. k} IN IsFiniteSet(some) /\ Cardinality(some) = k
<1>0. Count \in Nat
  BY DEF ReportsInv, Count
<1>1. PICK some : some = {RunOf(n) : n \in 1 .. k}
  OBVIOUS
<1> DEFINE nth == [n \in 1 .. k |-> RunOf(n)]
<1>2. nth \in [1 .. k -> some] /\ \A o \in some : \E n \in 1 .. k : nth[n] = o
  BY <1>1
<1>3. \A n \in 1 .. k : nth[n] = RunOf(n) /\ RunOf(n).at = n
  BY <1>0, RunsAreRuns
<1> HIDE DEF nth
<1>4. nth \in Injection(1 .. k, some)
  BY <1>2, <1>3 DEF Injection, IsInjective
<1>5. nth \in Surjection(1 .. k, some)
  BY <1>2 DEF Surjection
<1>6. IsFiniteSet(1 .. k) /\ Cardinality(1 .. k) = k
  <2>1. IsFiniteSet(1 .. k) /\ Cardinality(1 .. k) = IF 1 > k THEN 0 ELSE k - 1 + 1
    BY FS_Interval
  <2> QED BY <2>1
<1> QED BY <1>1, <1>4, <1>5, <1>6, FS_Surjection

\* The runs of all builds by time are those of the builds in order.
LEMMA ByTimeIsInOrder ==
  ASSUME ReportsInv
  PROVE  Builds!ByTime({RunOf(n) : n \in 1 .. Count}) = [n \in 1 .. Count |-> RunOf(n)]
<1>0. Count \in Nat
  BY DEF ReportsInv, Count
<1>1. PICK known : known = {RunOf(n) : n \in 1 .. Count}
  OBVIOUS
<1>2. Builds!Cardinality(known) = Count
  <2>1. Count <= Count
    BY <1>0
  <2>2. Cardinality(known) = Count
    BY <1>0, <1>1, <2>1, RunsAreAsMany
  <2> QED BY <2>2, SameCount
<1>3. ASSUME NEW n \in 1 .. Count
      PROVE  Builds!Cardinality({o \in known : o.at < RunOf(n).at}) = n - 1
  <2>1. \A m \in 1 .. Count : RunOf(m).at = m
    BY RunsAreRuns
  <2>2. {o \in known : o.at < RunOf(n).at} = {RunOf(m) : m \in 1 .. (n - 1)}
    <3>1. ASSUME NEW m \in 1 .. Count PROVE RunOf(m).at < RunOf(n).at <=> m \in 1 .. (n - 1)
      BY <1>0, <2>1
    <3>2. 1 .. (n - 1) \subseteq 1 .. Count
      BY <1>0
    <3> QED BY <1>1, <3>1, <3>2
  <2>3. PICK older : older = {RunOf(m) : m \in 1 .. (n - 1)}
    OBVIOUS
  <2>4. n - 1 \in Nat /\ n - 1 <= Count
    BY <1>0
  <2>5. Cardinality(older) = n - 1
    BY <2>3, <2>4, RunsAreAsMany
  <2> QED BY <2>2, <2>3, <2>5, SameCount
<1> DEFINE Behind(n) == CHOOSE o \in known : Builds!Cardinality({p \in known : p.at < o.at}) = n - 1
<1>4. ASSUME NEW n \in 1 .. Count PROVE Behind(n) = RunOf(n)
  <2>1. RunOf(n) \in known
    BY <1>1
  <2>2. Behind(n) \in known /\ Builds!Cardinality({p \in known : p.at < Behind(n).at}) = n - 1
    BY <1>3, <2>1
  <2> HIDE DEF Behind
  <2>3. PICK m \in 1 .. Count : Behind(n) = RunOf(m)
    BY <1>1, <2>2
  <2>4. m - 1 = n - 1
    BY <1>3, <2>2, <2>3
  <2> QED BY <2>3, <2>4
<1>5. Builds!ByTime(known) = [n \in 1 .. Count |-> Behind(n)]
  BY <1>2 DEF Builds!ByTime
<1> HIDE DEF Behind
<1> QED BY <1>1, <1>4, <1>5

\* What embeds all the builds is imported as those builds.
LEMMA ImportedAreTheBuilds ==
  ASSUME ReportsInv, RemoteInv, source # None, Count > 0, Len(source.records) = Count,
         \A i \in DOMAIN source.records : source.records[i].form \in {"history_run", "report", "bare"},
         ~Builds!looksLikeNativeHistory(source), Builds!collectImportedItems(source) # <<>>
  PROVE  Builds!importTrendSourceData(source) = [n \in 1 .. Count |-> RunOf(n)]
<1>1. PICK records : records = source.records
  OBVIOUS
<1>2. Builds!collectImportedItems(source) = records
  BY <1>1 DEF Builds!collectImportedItems
<1>3. PICK items : items = {record \in Builds!ToSet(records) : Builds!Importable(record)}
  OBVIOUS
<1>4. items = {records[i] : i \in DOMAIN records} /\ \A item \in items : item.form \in {"history_run", "report", "bare"}
  BY <1>1, <1>3 DEF Builds!ToSet, Builds!Importable
<1>5. items # {}
  <2>1. PICK i \in DOMAIN records : records[i].report = reports[1]
    <3>1. 1 \in 1 .. Count
      BY DEF ReportsInv, Count
    <3> QED BY <1>1, <3>1 DEF RemoteInv
  <2> QED BY <1>4
<1>6. PICK imported : imported = {Builds!importedHistoryRun(item) : item \in items}
  OBVIOUS
<1>7. \A item \in items : Builds!importedHistoryRun(item) = Builds!BuildRun(item.report)
  BY <1>4 DEF Builds!importedHistoryRun
<1>8. imported = {RunOf(n) : n \in 1 .. Count}
  <2>1. ASSUME NEW o \in imported PROVE \E n \in 1 .. Count : o = RunOf(n)
    <3>1. PICK i \in DOMAIN records : o = Builds!BuildRun(records[i].report)
      BY <1>4, <1>6, <1>7
    <3>2. PICK n \in 1 .. Count : records[i].report = reports[n]
      BY <1>1 DEF RemoteInv
    <3> QED BY <3>1, <3>2 DEF RunOf
  <2>2. ASSUME NEW n \in 1 .. Count PROVE RunOf(n) \in imported
    <3>1. PICK i \in DOMAIN records : records[i].report = reports[n]
      BY <1>1 DEF RemoteInv
    <3>2. Builds!importedHistoryRun(records[i]) = RunOf(n) /\ records[i] \in items
      BY <1>4, <1>7, <3>1 DEF RunOf
    <3> QED BY <1>6, <3>2
  <2> QED BY <2>1, <2>2
<1>9. Builds!importTrendSourceData(source) = Builds!ByTime(imported)
  BY <1>2, <1>3, <1>5, <1>6 DEF Builds!importTrendSourceData
<1> QED BY <1>8, <1>9, ByTimeIsInOrder

\* A build compares what is imported of all builds as it compares the history.
LEMMA StepImportsAlike ==
  ASSUME BuildsInv, Builds!Next, report' # report, source # None,
         \A i \in DOMAIN source.records : source.records[i].form \in {"history_run", "report", "bare"},
         ~Builds!looksLikeNativeHistory(source), Builds!collectImportedItems(source) # <<>>,
         Len(source.records) = Len(reports)
  PROVE  /\ report'.external.status = "compared"
         /\ report'.external.summary = report'.trend.summary
         /\ report'.external.diff = report'.trend.diff
<1>1. PICK r \in Reports : Builds!Build(r)
  BY DEF Builds!Next, Builds!Export, Builds!ShowTrends
<1>2. PICK run : run = Builds!BuildRun(Builds!Dated(r, Count + 1))
  OBVIOUS
<1>3. PICK length : report'.trend = Builds!Compare(run, Builds!LatestRun(history), length)
  BY <1>1, <1>2 DEF Builds!Build, Count
<1>4. report'.external = Builds!External(run, source)
  BY <1>1, <1>2 DEF Builds!Build, Count
<1>5. ReportsInv /\ KeptInv /\ RemoteInv /\ Count \in Nat /\ Len(source.records) = Count
  BY DEF BuildsInv, ReportsInv, Count
<1>6. Count > 0
  <2>1. CASE Builds!collectImportedItems(source) = source.records
    <3>1. source.records \in Seq({source.records[i] : i \in DOMAIN source.records})
      BY DEF BuildsInv, RemoteInv
    <3>2. PICK records : records = source.records
      OBVIOUS
    <3>3. records # <<>> /\ Len(records) = Count /\ records \in Seq({records[i] : i \in DOMAIN records})
      BY <1>5, <2>1, <3>1, <3>2
    <3> QED BY <1>5, <3>3
  <2>2. CASE Builds!collectImportedItems(source) # source.records
    BY <2>2 DEF Builds!collectImportedItems
  <2> QED BY <2>1, <2>2
<1>7. Builds!LatestRun(history) = RunOf(Count) /\ RunOf(Count) # None /\ \A n \in 1 .. Count : RunOf(n) \in Builds!Runs
  BY <1>5, <1>6, LatestIsLast, RunsAreRuns
<1>8. PICK imported : imported = Builds!importTrendSourceData(source)
  OBVIOUS
<1>9. imported = [n \in 1 .. Count |-> RunOf(n)]
  BY <1>5, <1>6, <1>8, ImportedAreTheBuilds
<1>10. imported \in Seq(Builds!Runs) /\ Len(imported) = Count /\ imported[Count] = RunOf(Count)
  BY <1>5, <1>6, <1>7, <1>9
<1>11. imported # None /\ imported # <<>>
  BY <1>6, <1>10, ProjectAssumption DEF Builds!BuildsAssumption
<1>12. Builds!LatestRun(imported) = RunOf(Count)
  BY <1>10, <1>11 DEF Builds!LatestRun, Builds!Last
<1>13. PICK c : c = Builds!Compare(run, RunOf(Count), Count + 1)
  OBVIOUS
<1>14. Builds!External(run, source) = [status |-> "compared", summary |-> c.summary, diff |-> c.diff]
  BY <1>8, <1>10, <1>11, <1>12, <1>13 DEF Builds!External
<1>15. c.summary = report'.trend.summary /\ c.diff = report'.trend.diff
  BY <1>3, <1>7, <1>13, CompareFacts
<1> QED BY <1>4, <1>14, <1>15

\* A source that embeds all the builds, whatever the form and order, is
\* compared like the trend file (CompareTrendSources, importTrendSourceData).
THEOREM ProjectImportedComparesAlike == ProjectSpec => ImportedComparesAlike
<1>1. [ProjectNext]_all => Builds!Next \/ UNCHANGED Builds!vars
  BY DEF ProjectNext, all, buildVars, Builds!vars
<1>2. BuildsInv /\ [ProjectNext]_all =>
        [ /\ report' # report /\ source # None
          /\ \A i \in DOMAIN source.records : source.records[i].form \in {"history_run", "report", "bare"}
          /\ ~Builds!looksLikeNativeHistory(source) /\ Builds!collectImportedItems(source) # <<>>
          /\ Len(source.records) = Len(reports)
          => /\ report'.external.status = "compared"
             /\ report'.external.summary = report'.trend.summary
             /\ report'.external.diff = report'.trend.diff ]_(Builds!vars)
  BY <1>1, StepImportsAlike
<1> QED BY <1>2, ProjectBuilds, PTL DEF ProjectSpec, ImportedComparesAlike, Builds!ImportedComparesAlike

=============================================================================
