------------------------------ MODULE SyncCommand -----------------------------
(***************************************************************************)
(* `cleanr sync braintrust` (internal/cli/cli_sync.go, cleanr/integrations):   *)
(* fetch the newest experiment that has a replay artifact or an insight, write    *)
(* what it says, apply it to the configuration, write that, and publish the       *)
(* files as a pull request.  Every step may fail, the command may be given        *)
(* again, and what came from outside may need a review first.                     *)
(***************************************************************************)
EXTENDS ConfigPatches

CONSTANTS Remotes,  \* what there may be to fetch: experiments, the newest first
          Orders,   \* the options of the command
          Base,     \* [scenarios, lists]: the configuration synced into
          MaxRuns   \* how often the command is given

VARIABLES remote, order,
          runs, stage, at,   \* runs so far, where this one is, the experiment asked for
          fetched,           \* the insights of this run
          files,             \* [insights, dataset, config]: as on disk, <<>> when never written
          written,           \* the files this run has written
          repo,              \* [branch, heads, staged, published]: heads by branch
          exit
vars == <<remote, order, runs, stage, at, fetched, files, written, repo, exit>>

\* Assumed: what is not there asks for no review; the configuration has been
\* validated, and what is fetched has the types of the Go structs.
Experiments == UNION {ToSet(r) : r \in Remotes}
SyncAssumption ==
  /\ Remotes \subseteq Seq(Experiments)
  /\ \A e \in Experiments :
       /\ {e.review, e.remarks, e.scenarios.there, e.scenarios.review, e.patch.review} \subseteq BOOLEAN
       /\ e.scenarios.review => e.scenarios.there
       /\ e.replay.items \in Seq(ToSet(e.replay.items)) /\ \A f \in ToSet(e.replay.items) : f.severity \in Int
       /\ e.scenarios.items \in Seq(ToSet(e.scenarios.items)) /\ \A s \in ToSet(e.scenarios.items) : IsScenario(s)
       /\ e.patch.items \in Seq(ToSet(e.patch.items))
       /\ \A op \in ToSet(e.patch.items) : op.value \in Seq(ToSet(op.value))
  /\ IsConfig(Base)
  /\ \A o \in Orders : o.limit \in Int /\ o.configuredLimit \in Int

\* A part of an insight that is not there.
NotThere == [there |-> FALSE, review |-> FALSE, items |-> <<>>]
Present(review, items) == [there |-> TRUE, review |-> review, items |-> items]

-----------------------------------------------------------------------------
\* What the configuration or the options say to fetch; the limit of the
\* options is the default one when none is given, so that it always wins.
resolveBraintrustSyncSource(o) ==
  [ok |-> o.project \/ o.configured,
   limit |-> IF o.project \/ o.limit > 0 THEN o.limit ELSE o.configuredLimit]

ListExperiments(source) ==
  LET limit == IF source.limit <= 0 THEN 10 ELSE source.limit
  IN  SubSeq(remote, 1, Min({limit, Len(remote)}))

\* Mutant: what the insight says of the review of its scenarios is dropped.
MergeWithoutReviewFlag(base, added) ==
  IF ~added.there THEN base
  ELSE IF ~base.there THEN added
  ELSE Present(base.review, MergeDatasetIntoConfig(base.items, added.items))

\* Without scenarios of its own an insight empties those of the replay.
mergeScenarioDatasets(base, added) ==
  IF ~added.there THEN base
  ELSE IF ~base.there THEN added
  ELSE Present(base.review \/ added.review, MergeDatasetIntoConfig(base.items, added.items))

\* The failures of the replay first, then the insight over them.
FetchInsights(e) ==
  LET exported == IF e.replay.there
                  THEN Present(FALSE, Scenarios(ExportScenarioDataset(Base.scenarios, e.replay.items, FALSE)))
                  ELSE NotThere
  IN  [review |-> e.review, scenarios |-> mergeScenarioDatasets(exported, e.scenarios), patch |-> e.patch]

\* Any payload is an insight, one that asks for a review or has only fields
\* that cleanr does not read included.
HasSomething(e) == e.replay.there \/ e.scenarios.there \/ e.patch.there \/ e.review \/ e.remarks

requiresReview(insights) == insights.review \/ insights.scenarios.review \/ insights.patch.review

ApplyBraintrustInsightDataset(c, insights, o) ==
  LET merged == IF o.scenarios /\ insights.scenarios.items # <<>>
                THEN [c EXCEPT !.scenarios = MergeDatasetIntoConfig(@, insights.scenarios.items)] ELSE c
  IN  IF requiresReview(insights) /\ ~o.approved THEN Invalid
      ELSE IF o.patches THEN ApplyBraintrustConfigPatchSet(merged, insights.patch.items) ELSE merged

-----------------------------------------------------------------------------
NoInsights == [review |-> FALSE, scenarios |-> NotThere, patch |-> NotThere]

Init ==
  /\ remote \in Remotes /\ order \in Orders
  /\ runs = 0 /\ stage = "idle" /\ at = 0 /\ fetched = NoInsights /\ exit = 0
  /\ files = [insights |-> <<>>, dataset |-> <<>>, config |-> <<>>] /\ written = {}
  /\ repo = [branch |-> "main", heads |-> [b \in {"main"} |-> files], staged |-> files, published |-> <<>>]

End(code) == stage' = "idle" /\ exit' = code
Go(s) == stage' = s /\ UNCHANGED exit
Given == UNCHANGED <<remote, order, runs>>

syncBraintrustCmd ==
  /\ stage = "idle" /\ runs < MaxRuns
  /\ runs' = runs + 1 /\ written' = {} /\ fetched' = NoInsights /\ at' = 1
  /\ order' \in Orders
  /\ IF resolveBraintrustSyncSource(order').ok THEN stage' = "fetch" /\ exit' = -1 ELSE End(2)
  /\ UNCHANGED <<remote, files, repo>>

\* Experiment after experiment: an answer that fails ends the command.
LoadBraintrustSyncArtifacts ==
  /\ stage = "fetch"
  /\ LET list == ListExperiments(resolveBraintrustSyncSource(order))
     IN  \/ End(2) /\ UNCHANGED <<at, fetched>>
         \/ at > Len(list) /\ End(2) /\ UNCHANGED <<at, fetched>>
         \/ /\ at <= Len(list) /\ ~HasSomething(list[at])
            /\ at' = at + 1 /\ UNCHANGED <<stage, exit, fetched>>
         \/ /\ at <= Len(list) /\ HasSomething(list[at])
            /\ fetched' = FetchInsights(list[at]) /\ Go("insights") /\ UNCHANGED at
  /\ Given /\ UNCHANGED <<files, written, repo>>

Write(file, content) == files' = [files EXCEPT ![file] = <<runs, content>>] /\ written' = written \cup {file}

WriteInsights ==
  /\ stage = "insights"
  /\ \/ End(2) /\ UNCHANGED <<files, written>>
     \/ Write("insights", fetched) /\ Go(IF order.dataset /\ fetched.scenarios.there THEN "dataset" ELSE "config")
  /\ Given /\ UNCHANGED <<at, fetched, repo>>

WriteDataset ==
  /\ stage = "dataset"
  /\ \/ End(2) /\ UNCHANGED <<files, written>>
     \/ Write("dataset", fetched.scenarios) /\ Go("config")
  /\ Given /\ UNCHANGED <<at, fetched, repo>>

WriteConfig ==
  /\ stage = "config"
  /\ LET merged == ApplyBraintrustInsightDataset(Base, fetched, order)
     IN  \/ End(2) /\ UNCHANGED <<files, written>>
         \/ /\ merged # Invalid /\ Write("config", merged)
            /\ IF order.publish THEN Go("checkout") ELSE End(0)
  /\ Given /\ UNCHANGED <<at, fetched, repo>>

\* A new branch; one of that name makes it fail.
Checkout ==
  /\ stage = "checkout"
  /\ \/ End(2) /\ UNCHANGED repo
     \/ /\ order.branch \notin DOMAIN repo.heads
        /\ repo' = [repo EXCEPT !.branch = order.branch,
                                !.heads = [b \in DOMAIN @ \cup {order.branch} |->
                                             IF b = order.branch THEN @[repo.branch] ELSE @[b]]]
        /\ Go("add")
  /\ Given /\ UNCHANGED <<at, fetched, files, written>>

\* Mutant: only the configuration is added.
AddConfigOnly ==
  /\ stage = "add"
  /\ repo' = [repo EXCEPT !.staged.config = files.config] /\ Go("commit")
  /\ Given /\ UNCHANGED <<at, fetched, files, written>>

Add ==
  /\ stage = "add"
  /\ \/ End(2) /\ UNCHANGED repo
     \/ /\ repo' = [repo EXCEPT !.staged = [f \in DOMAIN files |-> IF f \in written THEN files[f] ELSE @[f]]]
        /\ Go("commit")
  /\ Given /\ UNCHANGED <<at, fetched, files, written>>

\* Commits whatever is staged.  The branch stays where it is when this or the
\* pull request fails.
Commit ==
  /\ stage = "commit"
  /\ \/ End(2) /\ UNCHANGED repo
     \/ /\ repo.staged # repo.heads[repo.branch]
        /\ repo' = [repo EXCEPT !.heads[repo.branch] = repo.staged] /\ Go("request")
  /\ Given /\ UNCHANGED <<at, fetched, files, written>>

CreatePullRequest ==
  /\ stage = "request"
  /\ \/ End(2) /\ UNCHANGED repo
     \/ repo' = [repo EXCEPT !.published = Append(@, repo.heads[repo.branch])] /\ End(0)
  /\ Given /\ UNCHANGED <<at, fetched, files, written>>

\* Somebody goes back to the main branch, where what is committed on the other
\* is not.
BackToMain ==
  LET here == repo.heads[repo.branch]  main == repo.heads["main"]
      Kept(now) == [f \in DOMAIN files |-> IF here[f] # main[f] THEN main[f] ELSE now[f]]
  IN  /\ stage = "idle" /\ repo.branch # "main"
      /\ \A f \in DOMAIN files : here[f] # main[f] => files[f] = here[f] /\ repo.staged[f] = here[f]
      /\ files' = Kept(files) /\ repo' = [repo EXCEPT !.branch = "main", !.staged = Kept(@)]
      /\ UNCHANGED <<remote, order, runs, stage, at, fetched, written, exit>>

NewExperiment ==
  /\ stage = "idle" /\ 0 < runs /\ runs < MaxRuns /\ Len(remote) = 1
  /\ \E r \in Remotes : Len(r) = 1 /\ r # remote /\ remote' = r \o remote
  /\ UNCHANGED <<order, runs, stage, at, fetched, files, written, repo, exit>>

Stop == stage = "idle" /\ runs = MaxRuns /\ UNCHANGED vars

Next ==
  \/ syncBraintrustCmd \/ LoadBraintrustSyncArtifacts \/ WriteInsights \/ WriteDataset \/ WriteConfig
  \/ Checkout \/ Add \/ Commit \/ CreatePullRequest \/ BackToMain \/ NewExperiment \/ Stop

Spec == Init /\ [][Next]_vars

-----------------------------------------------------------------------------
\* A run that publishes publishes what it has fetched: insights, scenarios and
\* configuration of this run, not of an earlier one that failed half way
\* (runSyncBraintrust, createGitHubPR).
PublishedIsThisRun ==
  [][repo'.published # repo.published =>
       LET commit == Last(repo'.published)
       IN  /\ commit.insights = <<runs, fetched>>
           /\ fetched.scenarios.there /\ order.dataset => commit.dataset = <<runs, fetched.scenarios>>
           /\ commit.config = <<runs, ApplyBraintrustInsightDataset(Base, fetched, order)>>]_vars

\* No configuration is written, by a run without -approve-insights, from an
\* experiment any part of which asks for a review, however its parts were merged
\* (requiresReview, mergeBraintrustInsights).
UnreviewedIsNotApplied ==
  [][stage = "config" /\ files'.config # files.config /\ ~order.approved =>
       ~ (remote[at].review \/ remote[at].scenarios.review \/ remote[at].patch.review)]_vars

\* Syncing the same insights into what they were synced into changes nothing
\* (applyAppendUniquePatch, MergeDatasetIntoConfig).
SyncTwiceIsSyncOnce ==
  stage = "config" =>
    LET once == ApplyBraintrustInsightDataset(Base, fetched, order)
    IN  once # Invalid => ApplyBraintrustInsightDataset(once, fetched, order) = once
===============================================================================
