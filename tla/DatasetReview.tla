----------------------------- MODULE DatasetReview ----------------------------
(***************************************************************************)
(* From a run's failures or a generator's reply to a configuration: `cleanr    *)
(* dataset export` and `cleanr generate` make a dataset, `dataset review`        *)
(* ranks its entries against the configuration, decides them by policy, by       *)
(* options and by hand, writes the review and merges what is approved, and       *)
(* `dataset import` merges a dataset whole (cleanr/integrations, internal/cli).  *)
(***************************************************************************)
EXTENDS ScenarioData

CONSTANTS Cases,   \* the commands given, and the files they find
          MaxEdits \* how often tags or metadata are edited by hand

VARIABLES case,    \* the case, as given
          stage,
          config,  \* scenarios of the base configuration file
          dataset, \* [source, reviewRequired, entries]
          review,  \* [entries, counts]: the review in memory
          at, shown, edits,   \* the entry the reader is at, those seen, edits made
          files,   \* what the command has written: [review, merged], each a tuple of at most one
          exit     \* -1 while a command runs
vars == <<case, stage, config, dataset, review, at, shown, edits, files, exit>>

\* Assumed: the names of a loaded configuration are unique, as its validation
\* demands, and what is read from files has the types of the Go structs.
ReviewAssumption ==
  \A c \in Cases :
    /\ c.config \in Seq(ToSet(c.config)) /\ \A s \in ToSet(c.config) : IsScenario(s)
    /\ \A i, j \in DOMAIN c.config : c.config[i].name = c.config[j].name => i = j
    /\ \A s \in c.authored : s.name \in Int
    /\ c.given \in Seq(ToSet(c.given)) /\ c.rules \in Seq(ToSet(c.rules))
    /\ \A r \in ToSet(c.rules) :
         DOMAIN r = {"action", "sources", "statuses", "tags", "severity", "suitable", "checked", "add"}
    /\ DOMAIN c.hand = {"approve", "reject", "stable", "regression", "retag"}
    /\ c.how \in {"batch", "line", "screen"}
    /\ \A d \in ToSet(c.given) :
         /\ c.from # "generation" => d.severity \in Int
         /\ c.from = "generation" => IsScenario(d)
         /\ c.from \notin {"replay", "generation"} =>
              d = [scenario |-> d.scenario, severity |-> d.severity] /\ IsScenario(d.scenario)
    /\ {c.count, c.gate.minApproved, c.gate.maxDuplicates} \subseteq Int

-----------------------------------------------------------------------------
\* Difference and analysis of a candidate against the configuration.
Status(s, base) ==
  IF s.name \in Names(base)
  THEN LET old == base[Position(base, s.name)]
       IN  IF \A f \in {"body", "meta", "tags", "marks", "checks"} : old[f] = s[f] THEN "unchanged" ELSE "modified"
  ELSE IF \E i \in DOMAIN base : base[i].body = s.body THEN "duplicate" ELSE "new"

reviewNoveltyScore(status) ==
  CASE status = "new" -> 30 [] status = "modified" -> 18 [] status = "duplicate" -> 4 [] OTHER -> 0
reviewDuplicatePenalty(status) ==
  CASE status = "duplicate" -> 20 [] status = "unchanged" -> 28 [] OTHER -> 0

stableSuitability(item, status) ==
  LET If(b, n) == IF b THEN n ELSE 0
  IN  If(item.scenario.checks, 8) + If(item.scenario.marks, 6) - If("generated" \in item.scenario.tags, 6)
      + If(item.severity >= 35, 4) - If(status \in {"duplicate", "unchanged"}, 4)

buildReviewAnalysis(item, status) ==
  LET stable == stableSuitability(item, status)
  IN  [stable |-> stable,
       useful |-> item.severity + reviewNoveltyScore(status) + stable - reviewDuplicatePenalty(status)]

buildReviewedEntry(item, base) ==
  LET status == Status(item.scenario, base)
  IN  [scenario |-> item.scenario, severity |-> item.severity, status |-> status,
       analysis |-> buildReviewAnalysis(item, status)]

-----------------------------------------------------------------------------
\* The policy: [action, sources, statuses, tags, severity,
\* suitable, checked, add].
SuitabilityRank(score) == IF score >= 12 THEN 3 ELSE IF score >= 6 THEN 2 ELSE 1

\* The filters by generator, its model and the expected text, which work as
\* those by source and by checks, are left out.
reviewPolicyRuleMatches(rule, e, source) ==
  /\ rule.sources # {} => source \in rule.sources
  /\ rule.statuses # {} => e.status \in rule.statuses
  /\ rule.tags \subseteq e.scenario.tags
  /\ e.severity >= rule.severity
  /\ SuitabilityRank(e.analysis.stable) >= rule.suitable
  /\ rule.checked => e.scenario.checks

PolicyTags(rule) ==
  CASE rule.action = "promote-stable" -> {"stable"}
    [] rule.action = "promote-regression" -> {"regression"}
    [] rule.action = "add-tags" -> rule.add
    [] OTHER -> {}

ApplyRule(rule, acc) ==
  [scenario |-> [acc.scenario EXCEPT !.tags = @ \cup PolicyTags(rule),
                                     !.meta = IF rule.action = "set-metadata" THEN @ \cup rule.add ELSE @],
   decision |-> CASE rule.action = "approve" -> "approved"
                  [] rule.action = "reject" -> "rejected"
                  [] OTHER -> acc.decision]

\* Mutant: a rule sees the tags the rules before it have added.
RulesSeeEarlierRules(item, e, rules, source) ==
  LET Step(acc, i) == IF reviewPolicyRuleMatches(rules[i], [e EXCEPT !.scenario = acc.scenario], source)
                      THEN ApplyRule(rules[i], acc) ELSE acc
  IN  FoldLeftDomain(Step, [scenario |-> item.scenario, decision |-> "pending"], rules)

\* Every rule is held against the entry as it came; the last word counts.
applyPolicyRules(item, e, rules, source) ==
  LET Step(acc, i) == IF reviewPolicyRuleMatches(rules[i], e, source) THEN ApplyRule(rules[i], acc) ELSE acc
  IN  FoldLeftDomain(Step, [scenario |-> item.scenario, decision |-> "pending"], rules)

\* The options of the command name scenarios: [approve, reject, stable,
\* regression, retag], the last a set of those whose tags are replaced.
applyReviewOptions(item, e, rules, hand, source) ==
  LET n == item.scenario.name
      ruled == applyPolicyRules(item, e, rules, source)
      added == ruled.scenario.tags \cup (IF n \in hand.stable THEN {"stable"} ELSE {})
                                   \cup (IF n \in hand.regression THEN {"regression"} ELSE {})
  IN  [scenario |-> [ruled.scenario EXCEPT !.tags = IF n \in hand.retag THEN {"picked"} ELSE added],
       decision |-> IF n \in hand.reject THEN "rejected"
                    ELSE IF n \in hand.approve THEN "approved" ELSE ruled.decision]

reviewScenario(id, item, base, rules, hand, source) ==
  LET applied == applyReviewOptions(item, buildReviewedEntry(item, base), rules, hand, source)
      e == buildReviewedEntry([item EXCEPT !.scenario = applied.scenario], base)
  IN  [id |-> id, scenario |-> e.scenario, severity |-> e.severity, status |-> e.status,
       analysis |-> e.analysis, decision |-> applied.decision]

\* Most useful first, then most severe, then by name.
RanksAbove(l, r) ==
  \/ l.analysis.useful > r.analysis.useful
  \/ /\ l.analysis.useful = r.analysis.useful
     /\ \/ l.severity > r.severity
        \/ l.severity = r.severity /\ l.scenario.name < r.scenario.name

\* Stable: those that rank the same stay in their order.
Before(entries, i, j) == RanksAbove(entries[i], entries[j]) \/ (~RanksAbove(entries[j], entries[i]) /\ i < j)
Place(entries, i) == Cardinality({j \in DOMAIN entries : Before(entries, j, i)}) + 1
sortReviewedScenarios(entries) ==
  [k \in DOMAIN entries |-> entries[CHOOSE i \in DOMAIN entries : Place(entries, i) = k]]

Count(entries, field, value) == Cardinality({i \in DOMAIN entries : entries[i][field] = value})
NoCounts == [approved |-> 0, rejected |-> 0, pending |-> 0, duplicate |-> 0]
accumulateReviewSummary(counts, entries) ==
  [approved |-> counts.approved + Count(entries, "decision", "approved"),
   rejected |-> counts.rejected + Count(entries, "decision", "rejected"),
   pending |-> counts.pending + Count(entries, "decision", "pending"),
   duplicate |-> counts.duplicate + Count(entries, "status", "duplicate")]

ReviewDatasetAgainstConfig(base, data, rules, hand) ==
  LET reviewed == [i \in DOMAIN data.entries |->
                     reviewScenario(i, data.entries[i], base, rules, hand, data.source)]
  IN  [entries |-> sortReviewedScenarios(reviewed), counts |-> accumulateReviewSummary(NoCounts, reviewed)]

\* Mutant: the counts of the review so far are kept.
FinalizeKeepingCounts(r) ==
  [entries |-> sortReviewedScenarios(r.entries), counts |-> accumulateReviewSummary(r.counts, r.entries)]

\* Mutant: what was edited is analysed again before it is sorted.
FinalizeAnalysingAgain(r) ==
  [entries |-> sortReviewedScenarios([i \in DOMAIN r.entries |-> [r.entries[i] EXCEPT !.analysis =
      buildReviewAnalysis(r.entries[i], Status(r.entries[i].scenario, config))]]),
   counts |-> accumulateReviewSummary(NoCounts, r.entries)]

\* Difference and analysis stay as they were before the reader's edits.
FinalizeReviewedScenarioDataset(r) ==
  [entries |-> sortReviewedScenarios(r.entries), counts |-> accumulateReviewSummary(NoCounts, r.entries)]

Select(entries, chosen) == LET place == Ascending(chosen) IN [k \in DOMAIN place |-> entries[place[k]]]

\* Mutant: what nobody has rejected is approved.
ApprovedUnlessRejected(entries) == Select(entries, {i \in DOMAIN entries : entries[i].decision # "rejected"})

ApprovedDatasetFromReview(entries) == Select(entries, {i \in DOMAIN entries : entries[i].decision = "approved"})

WithProvenance(entries) ==
  [i \in DOMAIN entries |-> [entries[i].scenario EXCEPT !.meta = @ \cup {"provenance"}]]

MergeReviewedDatasetIntoConfig(base, entries) ==
  MergeDatasetIntoConfig(base, WithProvenance(ApprovedDatasetFromReview(entries)))

\* [failOnPending, failOnRejected, minApproved, maxDuplicates]
evaluateDatasetReviewGate(counts, gate) ==
  /\ gate.failOnPending => counts.pending = 0
  /\ gate.failOnRejected => counts.rejected = 0
  /\ counts.approved >= gate.minApproved
  /\ gate.maxDuplicates >= 0 => counts.duplicate <= gate.maxDuplicates

-----------------------------------------------------------------------------
NoData == [source |-> "none", reviewRequired |-> FALSE, entries |-> <<>>]
Nothing == [review |-> <<>>, merged |-> <<>>]
Unreviewed == [entries |-> <<>>, counts |-> NoCounts]

Init ==
  /\ case \in Cases /\ config = case.config
  /\ stage = "start" /\ dataset = NoData /\ review = Unreviewed
  /\ at = 0 /\ shown = {} /\ edits = 0 /\ files = Nothing /\ exit = -1

End(code) == stage' = "done" /\ exit' = code
Unread == UNCHANGED <<at, shown, edits>>

\* A dataset is exported from a replay artifact, generated, or just there.
\* A reply without usable scenarios is an error, and so is a failing write.
MakeDataset ==
  /\ stage = "start"
  /\ dataset' = CASE case.from = "replay" ->
                       [NoData EXCEPT !.source = "replay",
                                      !.entries = ExportScenarioDataset(config, case.given, case.all)]
                 [] case.from = "generation" ->
                       LET made == decodeGeneratedScenarios(case.given, config, case.count, case.all)
                       IN  [source |-> "generation", reviewRequired |-> TRUE,
                            entries |-> [i \in DOMAIN made |-> [scenario |-> made[i], severity |-> 0]]]
                 [] OTHER -> [NoData EXCEPT !.source = "file", !.entries = case.given]
  /\ \/ case.from \in {"replay", "generation"} /\ End(2)
     \/ ~(case.from = "generation" /\ dataset'.entries = <<>>) /\ stage' = "made" /\ UNCHANGED exit
  /\ UNCHANGED <<case, config, review, files>> /\ Unread

\* Somebody writes a scenario into the configuration before the dataset is used.
GenerateAuthoring ==
  /\ stage = "made" /\ config = case.config
  /\ \E s \in case.authored : config' = appendOrReplaceScenario(config, authoredScenario(s.name, s.body))
  /\ UNCHANGED <<case, stage, dataset, review, files, exit>> /\ Unread

ImportRefused ==
  \/ dataset.entries = <<>>
  \/ dataset.source = "generation" /\ dataset.reviewRequired /\ ~case.approved

DatasetImport ==
  /\ stage = "made" /\ case.command = "import"
  /\ \/ End(2) /\ UNCHANGED <<config, files>>   \* refused, or the write fails
     \/ /\ ~ImportRefused /\ End(0)
        /\ files' = [files EXCEPT !.merged = <<MergeDatasetIntoConfig(config, Scenarios(dataset.entries))>>]
        /\ config' = IF case.merge = "in-place" THEN files'.merged[1] ELSE config
  /\ UNCHANGED <<case, dataset, review>> /\ Unread

\* Options must name scenarios of the dataset and not contradict each other.
validateReviewOptions(hand) ==
  /\ hand.approve \cup hand.reject \cup hand.stable \cup hand.regression \cup hand.retag
       \subseteq Names(Scenarios(dataset.entries))
  /\ hand.approve \cap hand.reject = {}

validateDatasetReviewPolicyRule(rule) ==
  /\ rule.action \in {"approve", "reject", "promote-stable", "promote-regression", "add-tags", "set-metadata"}
  /\ rule.action \in {"promote-stable", "promote-regression"} => rule.add = {}
  /\ rule.action \in {"add-tags", "set-metadata"} => rule.add # {}

LoadReviewContext ==
  /\ stage = "made" /\ case.command = "review"
  /\ IF /\ dataset.entries # <<>>
        /\ \A i \in DOMAIN case.rules : validateDatasetReviewPolicyRule(case.rules[i])
        /\ validateReviewOptions(case.hand)
     THEN /\ review' = ReviewDatasetAgainstConfig(config, dataset, case.rules, case.hand)
          /\ stage' = IF case.how = "batch" THEN "save" ELSE case.how
          /\ at' = 1 /\ shown' = {review'.entries[1].id} /\ UNCHANGED exit
     ELSE End(2) /\ UNCHANGED <<review, at, shown>>
  /\ UNCHANGED <<case, config, dataset, edits, files>>

-----------------------------------------------------------------------------
\* The reader: commands line by line, or keys on a screen.
Decided(e, word) ==
  CASE word = "stable" -> [e EXCEPT !.decision = "approved", !.scenario.tags = @ \cup {"stable"}]
    [] word = "regression" -> [e EXCEPT !.decision = "approved", !.scenario.tags = @ \cup {"regression"}]
    [] OTHER -> [e EXCEPT !.decision = word]
Decisions == {"approved", "rejected", "pending", "stable", "regression"}

Edited(e, word) ==
  CASE word = "tag" -> [e EXCEPT !.scenario.tags = @ \cup {"extra"}]
    [] word = "tags" -> [e EXCEPT !.scenario.tags = {"picked"}]
    [] OTHER -> [e EXCEPT !.scenario.meta = @ \cup {"owner"}]

Reading == UNCHANGED <<case, config, dataset, files>>
Show(r, i) == at' = i /\ shown' = shown \cup {r.entries[i].id} /\ UNCHANGED edits

\* Changes tags or metadata of the entry and stays at it.
EditEntry ==
  /\ stage \in {"line", "screen"} /\ edits < MaxEdits
  /\ \E word \in {"tag", "tags", "metadata"} : review' = [review EXCEPT !.entries[at] = Edited(@, word)]
  /\ edits' = edits + 1
  /\ UNCHANGED <<stage, at, shown, exit>> /\ Reading

Leave(r) == review' = FinalizeReviewedScenarioDataset(r) /\ stage' = "save" /\ UNCHANGED <<at, shown, edits>>

\* The line reader goes through the entries in the order they have at first.
LineDecides ==
  /\ stage = "line"
  /\ \E word \in Decisions \cup {"skip"} :
       LET r == IF word = "skip" THEN review ELSE [review EXCEPT !.entries[at] = Decided(@, word)]
       IN  IF at = Len(r.entries) THEN Leave(r) ELSE review' = r /\ Show(r, at + 1) /\ UNCHANGED stage
  /\ UNCHANGED exit /\ Reading

\* At the end of the input the other entries are skipped.
LineEnds == stage = "line" /\ Leave(review) /\ UNCHANGED exit /\ Reading

\* On the screen every decision finalizes, which sorts, and moves on by one;
\* one at the last place ends the session.
ScreenDecides ==
  /\ stage = "screen"
  /\ \E word \in Decisions :
       LET r == FinalizeReviewedScenarioDataset([review EXCEPT !.entries[at] = Decided(@, word)])
       IN  IF at = Len(r.entries) THEN Leave(r) ELSE review' = r /\ Show(r, at + 1) /\ UNCHANGED stage
  /\ UNCHANGED exit /\ Reading

ScreenMoves ==
  /\ stage = "screen"
  /\ \E i \in {at - 1, at + 1} \cap DOMAIN review.entries : Show(review, i)
  /\ UNCHANGED <<stage, review, exit>> /\ Reading

Quit == stage \in {"line", "screen"} /\ End(2) /\ UNCHANGED review /\ Unread /\ Reading

-----------------------------------------------------------------------------
\* The review is written first, then the merged configuration, then the gate
\* is judged.  A write may fail before it has changed anything.
WriteReview ==
  /\ stage = "save"
  /\ \/ End(2) /\ UNCHANGED files
     \/ /\ files' = [files EXCEPT !.review = <<review>>]
        /\ stage' = (IF case.merge = "none" THEN "gate" ELSE "merge") /\ UNCHANGED exit
  /\ UNCHANGED <<case, config, dataset, review>> /\ Unread

WriteMerged ==
  /\ stage = "merge"
  /\ \/ End(2) /\ UNCHANGED <<config, files>>
     \/ /\ files' = [files EXCEPT !.merged = <<MergeReviewedDatasetIntoConfig(config, review.entries)>>]
        /\ config' = IF case.merge = "in-place" THEN files'.merged[1] ELSE config
        /\ stage' = "gate" /\ UNCHANGED exit
  /\ UNCHANGED <<case, dataset, review>> /\ Unread

JudgeGate ==
  /\ stage = "gate" /\ End(IF evaluateDatasetReviewGate(review.counts, case.gate) THEN 0 ELSE 1)
  /\ UNCHANGED <<case, config, dataset, review, files>> /\ Unread

Stop == stage = "done" /\ UNCHANGED vars

Next ==
  \/ MakeDataset \/ GenerateAuthoring \/ DatasetImport \/ LoadReviewContext
  \/ EditEntry \/ LineDecides \/ LineEnds \/ ScreenDecides \/ ScreenMoves \/ Quit
  \/ WriteReview \/ WriteMerged \/ JudgeGate \/ Stop

Spec == Init /\ [][Next]_vars

-----------------------------------------------------------------------------
\* With something approved, the merged configuration is the base one with the
\* approved scenarios of the written review in the places of those with their
\* names, or at the end, and nothing else (MergeReviewedDatasetIntoConfig).
MergedIsReviewed ==
  [][(files'.merged # files.merged /\ case.command = "review") =>
       LET entries == files.review[1].entries
           merged == files'.merged[1]
           approved == {i \in DOMAIN entries : entries[i].decision = "approved"}
           names == {entries[i].scenario.name : i \in approved}
       IN  approved # {} =>
             /\ Len(merged) = Cardinality(Names(config) \cup names)
             /\ \A i \in DOMAIN config : config[i].name \notin names => merged[i] = config[i]
             /\ \A n \in names : \E i \in approved :
                  LET s == entries[i].scenario IN s.name = n /\ [merged[Position(merged, n)] EXCEPT !.meta = s.meta] = s]_vars

\* What the review's command exits with is what the gate says of the review it
\* has written, after all edits; by then the merged file is there as well
\* (datasetReviewCmd, evaluateDatasetReviewGate).
GateIsOfTheWrittenReview ==
  exit \in {0, 1} /\ case.command = "review" =>
    LET gate == case.gate
        entries == files.review[1].entries
        With(field, value) == {i \in DOMAIN entries : entries[i][field] = value}
        passed == /\ gate.failOnPending => With("decision", "pending") = {}
                  /\ gate.failOnRejected => With("decision", "rejected") = {}
                  /\ Cardinality(With("decision", "approved")) >= gate.minApproved
                  /\ gate.maxDuplicates < 0 \/ Cardinality(With("status", "duplicate")) <= gate.maxDuplicates
    IN  /\ (exit = 0) = passed
        /\ case.merge = "none" \/ files.merged # <<>>

\* Rules that add tags or metadata, and options that do, never change what the
\* policy decides of an entry (applyPolicyRules).
TagRulesDoNotDecide ==
  stage = "made" /\ case.command = "review" =>
    \A i \in DOMAIN dataset.entries :
      LET deciding == [k \in DOMAIN case.rules |->
            IF case.rules[k].action \in {"approve", "reject"} THEN case.rules[k]
            ELSE [case.rules[k] EXCEPT !.action = "add-tags", !.add = {}]]
          bare == [case.hand EXCEPT !.stable = {}, !.regression = {}, !.retag = {}]
          Decision(rules, hand) == reviewScenario(i, dataset.entries[i], config, rules, hand, dataset.source).decision
      IN  Decision(case.rules, case.hand) = Decision(deciding, bare)

\* A session on the screen that ends with a decision at the last place has
\* shown every candidate, in whatever order keys moved it (afterScenarioAction).
EveryCandidateIsShown ==
  stage = "save" /\ case.how = "screen" => shown = {review.entries[i].id : i \in DOMAIN review.entries}

\* A generated dataset merged into the configuration it was generated for
\* replaces none of its scenarios (decodeGeneratedScenarios, ensureUniqueName).
GeneratedNeverReplaces ==
  [][(files'.merged # files.merged /\ dataset.source = "generation" /\ config = case.config
       /\ files'.merged[1] # <<>>)
       => SubSeq(files'.merged[1], 1, Len(config)) = config]_vars

\* "expected legacy plus two approved scenarios" (tests/cli/cli_test.go:1351):
\* what a review merges into has the scenarios it had before.
MergeKeepsTheBase ==
  files.merged # <<>> /\ case.command = "review" => Names(case.config) \subseteq Names(files.merged[1])
===============================================================================
