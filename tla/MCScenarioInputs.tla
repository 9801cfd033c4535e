-------------------------- MODULE MCScenarioInputs --------------------------
\* What the datasets of scenarios are checked with: commands that review or
\* import them, and experiments to sync from.
EXTENDS Integers, Sequences

Plain(name, body) ==
  [name |-> name, body |-> body, rest |-> 0, checks |-> FALSE, marks |-> FALSE,
   tags |-> {}, meta |-> {}]

-----------------------------------------------------------------------------
\* DatasetReview: datasets of a file, of a replay artifact and of a generator;
\* policies with every action, decisions by hand, gates, and both editors.
BaseScenarios ==
  <<[Plain(200, 1) EXCEPT !.checks = TRUE, !.tags = {"stable"}], Plain(-100, 2)>>

Entry(scenario, severity) == [scenario |-> scenario, severity |-> severity]

\* A changed scenario, the body of one under another name, and a new one.
Given ==
  <<Entry([Plain(200, 3) EXCEPT !.checks = TRUE], 20),
    Entry(Plain(300, 2), 0),
    Entry([Plain(400, 4) EXCEPT !.marks = TRUE, !.tags = {"generated"}], 35)>>

\* The first is the configuration's but for its stable tag.
Ranked ==
  <<Entry([Plain(200, 1) EXCEPT !.checks = TRUE], 20),
    Entry([Plain(400, 4) EXCEPT !.marks = TRUE], 0),
    Entry(Plain(300, 2), 0)>>

\* A generator repeats names, leaves one out and an input blank.
Reply == <<Plain(-200, 5), Plain(100, 0), Plain(200, 6), Plain(0, 7), Plain(900, 8)>>

Failures ==
  {<<>>,
   <<[case |-> 200, scenario |-> 0, severity |-> 10], [case |-> 7, scenario |-> 200, severity |-> 45],
     [case |-> 8, scenario |-> -100, severity |-> 0], [case |-> 9, scenario |-> 0, severity |-> 4]>>}

NoHand == [approve |-> {}, reject |-> {}, stable |-> {}, regression |-> {}, retag |-> {}]
Hands ==
  {NoHand,
   [NoHand EXCEPT !.approve = {300}, !.reject = {200}],
   [NoHand EXCEPT !.stable = {400}, !.retag = {300}],
   [NoHand EXCEPT !.approve = {400}, !.reject = {400}],
   [NoHand EXCEPT !.approve = {500}]}

NoGate ==
  [failOnPending |-> FALSE, failOnRejected |-> FALSE, minApproved |-> 0, maxDuplicates |-> -1]
PendingGate == [NoGate EXCEPT !.failOnPending = TRUE, !.minApproved = 1]
Gates == {NoGate, PendingGate, [NoGate EXCEPT !.failOnRejected = TRUE, !.maxDuplicates = 0]}

Rule(action) ==
  [action |-> action, sources |-> {}, statuses |-> {}, tags |-> {}, severity |-> 0,
   suitable |-> 0, checked |-> FALSE, add |-> {}]
ReviewPolicies ==
  {<<>>,
   <<[Rule("approve") EXCEPT !.statuses = {"new", "modified"}],
     [Rule("reject") EXCEPT !.severity = 35]>>,
   <<[Rule("add-tags") EXCEPT !.add = {"picked"}, !.checked = TRUE],
     [Rule("approve") EXCEPT !.tags = {"picked"}],
     [Rule("set-metadata") EXCEPT !.add = {"owner"}]>>,
   <<[Rule("promote-stable") EXCEPT !.suitable = 2],
     [Rule("promote-regression") EXCEPT !.sources = {"replay"}],
     Rule("approve")>>,
   <<[Rule("promote-stable") EXCEPT !.add = {"picked"}]>>}

ReviewCase ==
  [config |-> BaseScenarios, authored |-> {}, from |-> "file", given |-> Given, all |-> FALSE,
   count |-> 4, command |-> "review", approved |-> FALSE, rules |-> <<>>, hand |-> NoHand,
   merge |-> "none", gate |-> NoGate, how |-> "batch"]

MCCases ==
  UNION {
    {[ReviewCase EXCEPT !.rules = rules, !.hand = hand, !.gate = gate, !.merge = merge] :
       rules \in ReviewPolicies, hand \in Hands, gate \in Gates, merge \in {"none", "other"}},
    {[ReviewCase EXCEPT !.how = how, !.given = Ranked, !.gate = PendingGate, !.merge = "in-place"] :
       how \in {"line", "screen"}},
    {[ReviewCase EXCEPT !.from = "replay", !.given = failures, !.all = all, !.command = command,
                        !.merge = "in-place", !.rules = <<Rule("approve")>>] :
       failures \in Failures, all \in BOOLEAN, command \in {"review", "import"}},
    {[ReviewCase EXCEPT !.from = "generation", !.given = reply, !.all = all, !.command = command,
                        !.approved = approved, !.merge = "other", !.rules = <<Rule("approve")>>,
                        !.authored = {[name |-> 202, body |-> 9], [name |-> 220, body |-> 9]}] :
       reply \in {Reply, SubSeq(Reply, 2, 2)}, all \in BOOLEAN,
       command \in {"review", "import"}, approved \in BOOLEAN}}

-----------------------------------------------------------------------------
\* SyncCommand: experiments with and without a replay, scenarios and a patch,
\* any of which may ask for a review; commands with and without an approval.
MCSyncBase ==
  [scenarios |-> <<Plain(100, 1), Plain(200, 2)>>, lists |-> [field \in {"terms"} |-> <<"a">>]]

NotThere == [there |-> FALSE, review |-> FALSE, items |-> <<>>]
There(review, items) == [there |-> TRUE, review |-> review, items |-> items]
PatchOp(op, path, value) == [op |-> op, path |-> path, value |-> value]

FailedReplay ==
  There(FALSE, <<[case |-> 100, scenario |-> 0, severity |-> 20],
                 [case |-> 300, scenario |-> 0, severity |-> 1]>>)

NoExperiment ==
  [replay |-> NotThere, review |-> FALSE, remarks |-> FALSE, scenarios |-> NotThere, patch |-> NotThere]
Experiments ==
  {NoExperiment,
   [NoExperiment EXCEPT !.remarks = TRUE],
   [NoExperiment EXCEPT !.review = TRUE],
   [NoExperiment EXCEPT !.replay = FailedReplay],
   [NoExperiment EXCEPT !.replay = FailedReplay,
                        !.scenarios = There(TRUE, <<Plain(100, 3), Plain(300, 4)>>)],
   [NoExperiment EXCEPT !.scenarios = There(FALSE, <<Plain(300, 4)>>),
                        !.patch = There(FALSE, <<PatchOp("append_unique", <<"terms">>, <<"b", "a">>),
                                                 PatchOp("append_unique", <<"scenarios", 300>>, <<"new">>),
                                                 PatchOp("set", <<"unknown">>, <<"x">>)>>)],
   [NoExperiment EXCEPT !.replay = FailedReplay, !.scenarios = There(FALSE, <<>>),
                        !.patch = There(TRUE, <<PatchOp("set", <<"terms">>, <<"c">>),
                                                PatchOp("append_unique", <<"terms">>, <<"b">>)>>)],
   [NoExperiment EXCEPT !.review = TRUE,
                        !.patch = There(FALSE, <<PatchOp("set", <<"terms">>, <<"c">>),
                                                 PatchOp("drop", <<"terms">>, <<>>)>>)],
   [NoExperiment EXCEPT !.patch = There(FALSE, <<PatchOp("set", <<"scenarios", 900>>, <<"c">>)>>)]}

MCRemotes == {<<e>> : e \in Experiments} \cup {<<NoExperiment, e>> : e \in Experiments} \cup {<<>>}

SyncOrder ==
  [project |-> TRUE, configured |-> FALSE, limit |-> 10, configuredLimit |-> 1, dataset |-> TRUE,
   scenarios |-> TRUE, patches |-> TRUE, approved |-> FALSE, publish |-> TRUE, branch |-> "sync"]
MCOrders ==
  {SyncOrder,
   [SyncOrder EXCEPT !.approved = TRUE, !.branch = "retry"],
   [SyncOrder EXCEPT !.approved = TRUE, !.project = FALSE, !.configured = TRUE, !.limit = 0,
                     !.scenarios = FALSE, !.dataset = FALSE],
   [SyncOrder EXCEPT !.project = FALSE],
   [SyncOrder EXCEPT !.patches = FALSE, !.publish = FALSE]}
=============================================================================
