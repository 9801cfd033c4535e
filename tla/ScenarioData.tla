----------------------------- MODULE ScenarioData -----------------------------
(***************************************************************************)
(* Scenarios as configurations, datasets and reviews hold them                *)
(* (cleanr/integrations, cleanr/generation).  A scenario is                    *)
(* [name, body, rest, checks, marks, tags, meta]: body is its system prompt     *)
(* and input, checks says it has assertions, marks expected or forbidden text,   *)
(* meta the keys it has metadata for, rest what no comparison looks at.  An      *)
(* entry of a dataset is [scenario, severity].  Names are numbers in the order    *)
(* of the strings; n below zero is a name that is n's slug once sanitized.         *)
(***************************************************************************)
EXTENDS Integers, Sequences, FiniteSets, SequencesExt, FiniteSetsExt

Names(list) == {list[i].name : i \in DOMAIN list}

IsScenario(s) ==
  /\ s.name \in Int
  /\ s = [name |-> s.name, body |-> s.body, rest |-> s.rest, checks |-> s.checks, marks |-> s.marks,
          tags |-> s.tags, meta |-> s.meta]

\* The members of a set of numbers, the least first.
Ascending(S) == [k \in 1 .. Cardinality(S) |-> CHOOSE x \in S : Cardinality({y \in S : y <= x}) = k]

\* Among equal names the map built over the list keeps the last.
Position(list, name) == Max({i \in DOMAIN list : list[i].name = name})

Put(list, s) ==
  IF s.name \in Names(list) THEN [list EXCEPT ![Position(list, s.name)] = s] ELSE Append(list, s)

\* A dataset without scenarios leaves none.
MergeDatasetIntoConfig(base, added) ==
  IF added = <<>> THEN <<>> ELSE FoldLeft(Put, base, added)

Scenarios(entries) == [i \in DOMAIN entries |-> entries[i].scenario]

-----------------------------------------------------------------------------
\* Failures of a replay artifact, [case, scenario, severity], back to the
\* scenarios of the configuration; of two failures of one the later counts.
FailedName(f) == IF f.scenario # 0 THEN f.scenario ELSE f.case

ExportScenarioDataset(config, failures, includeAll) ==
  LET failed == {i \in DOMAIN failures : FailedName(failures[i]) \in Names(config)}
      names == IF includeAll THEN Names(config) ELSE {FailedName(failures[i]) : i \in failed}
      Entry(n) ==
        LET s == config[Position(config, n)]
            own == {i \in failed : FailedName(failures[i]) = n}
        IN  IF own = {} THEN [scenario |-> s, severity |-> 0]
            ELSE [scenario |-> [s EXCEPT !.tags = @ \cup {"regression"}],
                  severity |-> failures[Max(own)].severity]
      sorted == Ascending(names)
  IN  [i \in DOMAIN sorted |-> Entry(sorted[i])]

-----------------------------------------------------------------------------
\* What a generator sends back, made into scenarios.  100 * k is a plain name,
\* and the next digits are the suffixes -2, -3, ... it was given.
sanitizeScenarioName(n) == IF n < 0 THEN -n ELSE n
NamedAfter(ordinal) == 900 + 10 * ordinal
Suffixed(n, i) == n + i * (IF n % 100 = 0 THEN 10 ELSE 1)

ensureUniqueName(base, used) ==
  IF base \notin used THEN base
  ELSE Suffixed(base, CHOOSE i \in 2 .. Cardinality(used) + 2 :
                         /\ Suffixed(base, i) \notin used
                         /\ \A j \in 2 .. i - 1 : Suffixed(base, j) \in used)

\* An input of 0 is blank: the scenario is dropped.
normalizeScenario(s, ordinal, used, adversarial) ==
  LET name == sanitizeScenarioName(s.name)
  IN  [s EXCEPT !.name = ensureUniqueName(IF name = 0 THEN NamedAfter(ordinal) ELSE name, used),
                !.tags = @ \cup {"generated"} \cup (IF adversarial THEN {"adversarial"} ELSE {}),
                !.meta = IF adversarial THEN @ \cup {"mode"} ELSE @]

\* Mutant: the names the configuration already has are not looked at.
NamesTakenByReply(config) == {}

NamesTaken(config) == {sanitizeScenarioName(n) : n \in Names(config)} \ {0}

\* None when the reply holds no usable scenario.
decodeGeneratedScenarios(reply, config, count, adversarial) ==
  LET cut == SubSeq(reply, 1, Min({count, Len(reply)}))
      Step(acc, i) ==
        IF cut[i].body = 0 THEN acc
        ELSE LET s == normalizeScenario(cut[i], i, acc.used, adversarial)
             IN  [used |-> acc.used \cup {s.name}, out |-> Append(acc.out, s)]
  IN  FoldLeftDomain(Step, [used |-> NamesTaken(config), out |-> <<>>], cut).out

-----------------------------------------------------------------------------
\* The scenario `cleanr generate "test that ..."` writes from a sentence: its
\* name is given or comes from the sentence, its system prompt from the first.
authoredScenario(name, body) ==
  [name |-> name, body |-> body, rest |-> 0, checks |-> FALSE, marks |-> FALSE,
   tags |-> {"generated", "authored"}, meta |-> {"authoring"}]

\* The names of a loaded configuration are unique: first and last are one.
appendOrReplaceScenario(config, s) == Put(config, s)
===============================================================================
