---------------------------- MODULE ConfigPatches -----------------------------
(***************************************************************************)
(* A configuration as a sync patches it (cleanr/integrations): its scenarios   *)
(* and those of its fields that are lists.                                      *)
(***************************************************************************)
EXTENDS ScenarioData

\* What a loaded configuration is: no name comes twice.
IsConfig(c) ==
  /\ c = [scenarios |-> c.scenarios, lists |-> [field \in DOMAIN c.lists |-> c.lists[field]]]
  /\ c.scenarios \in Seq(ToSet(c.scenarios)) /\ \A s \in ToSet(c.scenarios) : IsScenario(s)
  /\ \A i, j \in DOMAIN c.scenarios : c.scenarios[i].name = c.scenarios[j].name => i = j
  /\ \A field \in DOMAIN c.lists : c.lists[field] \in Seq(ToSet(c.lists[field]))

\* A configuration that is not valid.
Invalid == [scenarios |-> <<>>, lists |-> <<>>]

\* An operation is [op, path, value]: a path is <<field>>, or <<"scenarios",
\* name>> for the tags of the scenario with that name.  A field the type of the
\* configuration does not know is lost, a value of another type is an error.
resolvePatchParent(c, path) == Len(path) = 1 \/ path[2] \in Names(c.scenarios)

\* Mutant: what is there already is added again.
AppendAll(list, value) == list \o value

AppendUnique(list, value) ==
  FoldLeft(LAMBDA acc, v : IF v \in ToSet(acc) THEN acc ELSE Append(acc, v), list, value)

applyConfigPatchOperation(c, op) ==
  IF c = Invalid \/ op.op \notin {"set", "append_unique"} \/ ~resolvePatchParent(c, op.path) THEN Invalid
  ELSE IF Len(op.path) = 2
       THEN [c EXCEPT !.scenarios[Position(c.scenarios, op.path[2])].tags =
                        IF op.op = "set" THEN ToSet(op.value) ELSE @ \cup ToSet(op.value)]
  ELSE IF op.path[1] \notin DOMAIN c.lists THEN c
  ELSE IF op.value = <<>> /\ op.op = "set" THEN Invalid
  ELSE [c EXCEPT !.lists[op.path[1]] = IF op.op = "set" THEN op.value ELSE AppendUnique(@, op.value)]

ApplyBraintrustConfigPatchSet(c, operations) == FoldLeft(applyConfigPatchOperation, c, operations)
===============================================================================
