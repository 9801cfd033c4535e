----------------------------- MODULE MCProject ------------------------------
\* What a project keeps on disk, and the commands that change it: the trend
\* history and the provider profile, which processes share without a lock, the
\* files and packs of a configuration, the datasets under review, the files of a
\* sync and the comparison of builds.  A behaviour is about one of them, so the
\* states are the sum.
EXTENDS TrendHistory, MCConfigInputs, MCScenarioInputs, MCTrendInputs

CONSTANTS Setups, ProviderNames, Envs, Empty, openai, anthropic, key0, key1, oldKey, twin,
          Trees, FileEdits, Sparse, Filled, Default,
          Cases, MaxEdits,
          Remotes, Orders, SyncBase, MaxSyncs,
          Reports, Exports, Gate, MaxBuilds

VARIABLES about,
          setupAt, wants, held, profile, generated, stored, first, serial,
          tree, loadAt, loadPhase, loadResult, saved,
          case, reviewStage, baseConfig, dataset, review, reviewAt, shown, edits, reviewFiles, reviewExit,
          remote, order, runs, syncStage, syncAt, fetched, syncFiles, written, repo, syncExit,
          history, reports, report, source, analysis, moved

\* A profile of both providers; one with two spellings of a name and an entry
\* without a name, written by hand; one without a default.
Provider(name, env, key) == [name |-> name, env |-> env, key |-> key]
HandMade ==
  {[default |-> openai,
    providers |-> {Provider(openai, key0, oldKey), Provider(anthropic, key1, oldKey)}],
   [default |-> openai,
    providers |-> {Provider(openai, key0, oldKey), Provider(openai, Absent, twin),
                   Provider(Absent, key0, oldKey)}],
   [default |-> Absent, providers |-> {}]}

Profile ==
  INSTANCE ProfileStore WITH at <- setupAt, config <- generated, Names <- ProviderNames
Loading ==
  INSTANCE ConfigLoad WITH
    files <- tree, at <- loadAt, phase <- loadPhase, result <- loadResult, Edits <- FileEdits
Review ==
  INSTANCE DatasetReview WITH
    stage <- reviewStage, config <- baseConfig, at <- reviewAt, files <- reviewFiles,
    exit <- reviewExit
Sync ==
  INSTANCE SyncCommand WITH
    stage <- syncStage, at <- syncAt, files <- syncFiles, exit <- syncExit,
    Base <- SyncBase, MaxRuns <- MaxSyncs
Builds ==
  INSTANCE TrendCompare WITH remote <- source, MaxRuns <- MaxBuilds, Limit <- ConfiguredLimit

ASSUME ProjectAssumption ==
  /\ Profile!ProfileAssumption /\ Sync!SyncAssumption
  /\ Builds!BuildsAssumption /\ Review!ReviewAssumption

profileVars == <<setupAt, wants, held, profile, generated, stored, first, serial>>
loadVars == <<tree, loadAt, loadPhase, loadResult, saved>>
reviewVars == <<case, reviewStage, baseConfig, dataset, review, reviewAt, shown, edits, reviewFiles, reviewExit>>
syncVars == <<remote, order, runs, syncStage, syncAt, fetched, syncFiles, written, repo, syncExit>>
buildVars == <<history, reports, report, source, analysis, moved>>
all == <<about, vars, profileVars, loadVars, reviewVars, syncVars, buildVars>>

\* Those a behaviour is not about stay at one of their initial states.
Fixed(part, choice) == about = part \/ (about # part /\ choice)

ProjectInit ==
  /\ about \in {"history", "profile", "load", "review", "sync", "builds"}
  /\ Fixed("history", file = Absent)
  /\ Fixed("profile", profile = Absent)
  /\ Fixed("load", tree = CHOOSE t \in Trees : TRUE)
  /\ Fixed("review", case = CHOOSE c \in Cases : TRUE)
  /\ Fixed("sync", remote = <<>> /\ order = CHOOSE o \in Orders : TRUE)
  /\ Init /\ Profile!Init /\ Loading!Init /\ Review!Init /\ Sync!Init /\ Builds!Init

ProjectNext ==
  /\ UNCHANGED about
  /\ \/ about = "history" /\ Next
          /\ UNCHANGED <<profileVars, loadVars, reviewVars, syncVars, buildVars>>
     \/ about = "profile" /\ Profile!Next
          /\ UNCHANGED <<vars, loadVars, reviewVars, syncVars, buildVars>>
     \/ about = "load" /\ Loading!Next
          /\ UNCHANGED <<vars, profileVars, reviewVars, syncVars, buildVars>>
     \/ about = "review" /\ Review!Next
          /\ UNCHANGED <<vars, profileVars, loadVars, syncVars, buildVars>>
     \/ about = "sync" /\ Sync!Next
          /\ UNCHANGED <<vars, profileVars, loadVars, reviewVars, buildVars>>
     \/ about = "builds" /\ Builds!Next
          /\ UNCHANGED <<vars, profileVars, loadVars, reviewVars, syncVars>>

ProjectSpec == ProjectInit /\ [][ProjectNext]_all

-----------------------------------------------------------------------------
\* ProfileStore: setups that do not overlap lose nothing, a generated
\* configuration finds the key of its setup, and a profile that does not decode
\* is left to its owner.  (HistoryIsExact says the like of the trend history.)
ProfileIsExact ==
  /\ [](about = "profile" => Profile!SerialProfileIsExact /\ Profile!ConfigFindsItsKey)
  /\ Profile!UnreadableIsKept

\* ConfigLoad: what is loaded is what the nearest file says, and what is
\* written loads as it was.
LoadIsExact == about = "load" => Loading!LoadIsExact /\ Loading!WrittenLoadsAlike

\* DatasetReview: the verdict of the gate is about the review that is written,
\* the order of tag rules does not decide, and the reader sees all candidates.
ReviewIsTheWrittenOne ==
  about = "review" =>
    Review!GateIsOfTheWrittenReview /\ Review!TagRulesDoNotDecide /\ Review!EveryCandidateIsShown

\* DatasetReview: only approved scenarios are merged, and generated ones never
\* replace those there are.
MergedIsReviewed == Review!MergedIsReviewed /\ Review!GeneratedNeverReplaces

\* SyncCommand: a second sync of the same changes nothing.
SyncTwiceIsSyncOnce == about = "sync" => Sync!SyncTwiceIsSyncOnce

\* SyncCommand: what is published is of this run, and what asks for a review
\* is not applied without an approval.
PublishedIsThisRun == Sync!PublishedIsThisRun /\ Sync!UnreviewedIsNotApplied

\* TrendCompare: the report and the trends command agree, and every failure
\* that is retained has its reason.
TrendsTellOneStory ==
  about = "builds" => Builds!TrendsTellOneStory /\ Builds!FailuresAreExplained

\* TrendCompare: imported builds compare like those of the trend file.
ImportedComparesAlike == Builds!ImportedComparesAlike

-----------------------------------------------------------------------------
\* docs/configuration.md: "policy packs are resolved relative to the config
\* file that references them", be that file a plugin's.
PluginPacksAreFound == about = "load" => Loading!PluginPacksAreFound

\* tests/cli/cli_test.go: the merged configuration has the scenarios it had.
MergeKeepsTheBase == about = "review" => Review!MergeKeepsTheBase

\* docs/configuration.md: the gate blocks on any new failed suite or case.
NewFailureIsBlocked == about = "builds" => Builds!NewFailureIsBlocked

=============================================================================
