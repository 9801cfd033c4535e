------------------------------ MODULE ConfigLoad ------------------------------
(***************************************************************************)
(* How a configuration file is put together (cleanr/config/io.go): its policy *)
(* packs and those of its plugins are merged under it, the typed result gets   *)
(* its defaults, and commands that write a configuration write all of it.      *)
(* A file is [packs, plugins, own]: what it refers to, and the leaf fields it  *)
(* sets.  A path is <<directory, name>>, a directory a sequence of names.      *)
(***************************************************************************)
EXTENDS Integers, Sequences, SequencesExt, TLC

CONSTANTS Trees,    \* the files there may be at the start, by path
          Edits,    \* what a file may be replaced with
          Fields,   \* the leaf fields
          Sparse,   \* fields tagged omitempty
          Filled,   \* fields that get a default in place of zero
          Zero, Default,
          Garbled   \* the content of a file that does not parse

VARIABLES files, at, phase, result, saved
vars == <<files, at, phase, result, saved>>

Paths == Seq(STRING) \X STRING
Main == <<<<>>, "cleanr.yaml">>
Resolve(dir, ref) == <<dir \o ref[1], ref[2]>>
Readable(fs, path) == path \in DOMAIN fs /\ fs[path] # Garbled

Failed == [ok |-> FALSE, packs |-> <<>>, own |-> <<>>]
Nothing == [ok |-> TRUE, packs |-> <<>>, own |-> <<>>]

\* The override wins, field by field; it replaces the list of packs it has.
overlayConfig(base, override) ==
  IF ~base.ok \/ ~override.ok THEN Failed
  ELSE [ok |-> TRUE, own |-> override.own @@ base.own,
        packs |-> IF override.packs = <<>> THEN base.packs ELSE override.packs]

\* Mutant: what one pack has loaded counts as seen by the next.
PackIsSeenByTheNext(load, base, dir, seen) ==
  LET loaded == [i \in DOMAIN base.packs |->
        load[Resolve(dir, base.packs[i]), seen \cup {Resolve(dir, base.packs[j]) : j \in 1 .. i - 1}]]
      below == FoldLeft(overlayConfig, Nothing, [i \in DOMAIN loaded |-> [loaded[i] EXCEPT !.packs = <<>>]])
  IN  overlayConfig(below, base)

\* Later packs over earlier ones, and the file over them all; load is what
\* loadPackGenericFile returns.
applyPolicyPackGenerics(load, base, dir, seen) ==
  LET loaded == [i \in DOMAIN base.packs |-> load[Resolve(dir, base.packs[i]), seen]]
      below == FoldLeft(overlayConfig, Nothing, [i \in DOMAIN loaded |-> [loaded[i] EXCEPT !.packs = <<>>]])
  IN  overlayConfig(below, base)

\* A pack that is being loaded is not loaded again below itself.
loadPackGenericFile(fs) ==
  LET load[path \in Paths, seen \in SUBSET Paths] ==
        IF path \in seen \/ ~Readable(fs, path) THEN Failed
        ELSE applyPolicyPackGenerics(load, [ok |-> TRUE, packs |-> fs[path].packs, own |-> fs[path].own],
                                     path[1], seen \cup {path})
  IN  load

\* overlayPluginPolicyPack leaves the packs of the pack in what it returns.
loadPluginPolicyPackDefaults(fs, path, seen) ==
  IF ~Readable(fs, path) THEN Failed
  ELSE FoldLeft(LAMBDA below, ref :
         overlayConfig(below, loadPackGenericFile(fs)[Resolve(path[1], ref), seen]),
       Nothing, fs[path].packs)

loadPluginManifests(fs, path, seen) ==
  FoldLeft(LAMBDA below, ref :
      overlayConfig(below, loadPluginPolicyPackDefaults(fs, Resolve(path[1], ref), seen)),
    Nothing, fs[path].plugins)

\* decodeConfigWithPolicyPacks: the plugins' packs are merged in first, and
\* what they leave under "policy_packs" is then read as the file's own.
loadConfigFile(fs, path) ==
  IF ~Readable(fs, path) THEN Failed
  ELSE LET own == [ok |-> TRUE, packs |-> fs[path].packs, own |-> fs[path].own]
           merged == overlayConfig(loadPluginManifests(fs, path, {path}), own)
       IN  IF merged.ok THEN applyPolicyPackGenerics(loadPackGenericFile(fs), merged, path[1], {path}) ELSE Failed

\* The typed configuration has every field; zero ones get their default.
applyDefaults(own) ==
  [f \in Fields |-> IF f \in Filled /\ (f \notin DOMAIN own \/ own[f] = Zero) THEN Default
                    ELSE IF f \in DOMAIN own THEN own[f] ELSE Zero]

\* Mutant: every field is written with omitempty.
encodeNonZero(own) == [f \in {g \in Fields : own[g] # Zero} |-> own[f]]

encodeConfig(own) == [f \in {g \in Fields : g \notin Sparse \/ own[g] # Zero} |-> own[f]]

-----------------------------------------------------------------------------
Init ==
  /\ files \in Trees
  /\ at = Main /\ phase = "start" /\ result = Failed /\ saved = Failed

LoadConfigFile ==
  /\ phase \in {"start", "written", "edited"}
  /\ LET loaded == loadConfigFile(files, at)
     IN  /\ result' = IF loaded.ok THEN [loaded EXCEPT !.own = applyDefaults(loaded.own)] ELSE Failed
         /\ phase' = IF ~loaded.ok THEN "failed" ELSE IF phase = "start" THEN "loaded" ELSE "reloaded"
  /\ UNCHANGED <<files, at, saved>>

\* setup, dataset, sync and openapi commands write what they loaded, here or
\* elsewhere, with the references as they were.
WriteConfigFile(path) ==
  /\ phase = "loaded"
  /\ files' = (path :> [packs |-> result.packs, plugins |-> files[at].plugins, own |-> encodeConfig(result.own)]) @@ files
  /\ at' = path /\ saved' = result /\ phase' = "written"
  /\ UNCHANGED result

\* Somebody edits another file before the written one is read.
EditPack(path) ==
  /\ phase = "written" /\ path # at
  /\ \E content \in Edits : files' = [files EXCEPT ![path] = content]
  /\ phase' = "edited"
  /\ UNCHANGED <<at, result, saved>>

Next ==
  \/ LoadConfigFile
  \/ \E dir \in {<<>>, <<"sub">>} : WriteConfigFile(<<dir, "cleanr.yaml">>)
  \/ \E path \in DOMAIN files : EditPack(path)

Spec == Init /\ [][Next]_vars

-----------------------------------------------------------------------------
Referred(path) == IF Readable(files, path) THEN {Resolve(path[1], r) : r \in Range(files[path].packs)} ELSE {}
Depth == Len(SetToSeq(DOMAIN files)) + 1
Below(paths) ==
  LET down[n \in 0 .. Depth] ==
        IF n = 0 THEN paths ELSE down[n - 1] \cup UNION {Referred(p) : p \in down[n - 1]}
  IN  down[Depth]

\* The packs and plugins a file depends on, wherever they are referred to.
Manifests(path) == IF Readable(files, path) THEN {Resolve(path[1], r) : r \in Range(files[path].plugins)} ELSE {}
Packs(path) == Below(Referred(path) \cup UNION {Referred(m) : m \in Manifests(path)})
MustFail(path) ==
  \E p \in {path} \cup Manifests(path) \cup Packs(path) :
    ~Readable(files, p) \/ (p \notin Manifests(path) /\ p \in Below(Referred(p)))

\* All the files that count, the one that wins first.
Precedence[path \in Paths] ==
  <<path>> \o FlattenSeq(Reverse([i \in DOMAIN files[path].packs |-> Precedence[Resolve(path[1], files[path].packs[i])]]))
FullPrecedence(path) ==
  <<path>> \o FlattenSeq(Reverse([i \in DOMAIN files[path].plugins |->
                                   Tail(Precedence[Resolve(path[1], files[path].plugins[i])])]))
           \o Tail(Precedence[path])
Winning(path, f) ==
  LET setters == SelectSeq(FullPrecedence(path), LAMBDA p : f \in DOMAIN files[p].own)
      value == IF setters = <<>> THEN Zero ELSE files[setters[1]].own[f]
  IN  IF f \in Filled /\ value = Zero THEN Default ELSE value

\* A plugin has a pack with packs of its own.
PluginPackHasPacks(path) == \E m \in Manifests(path) : \E p \in Referred(m) : Referred(p) # {}

\* A configuration loads exactly when every file it depends on is there,
\* parses and is not below itself (a pack that two others share is no cycle);
\* and each field then has the value of the first file that sets it, in the
\* same order: the file, its plugins' packs, then its packs from the last to
\* the first, each over the packs of its own (io.go).  Plugins whose packs have
\* packs are the subject of PluginPacksAreFound.
LoadIsExact ==
  /\ phase = "failed" /\ ~PluginPackHasPacks(at) => MustFail(at)
  /\ phase \in {"loaded", "reloaded"} /\ ~PluginPackHasPacks(at) =>
       /\ ~MustFail(at)
       /\ \A f \in Fields : result.own[f] = Winning(at, f)

\* What a command writes is the whole configuration: read again, next to the
\* first or elsewhere and whatever has become of its packs, it either does not
\* load or has the same fields, except those that are zero, tagged omitempty
\* and so not in the file (io.go: WriteConfigFile, encodeConfig).
WrittenLoadsAlike ==
  phase = "reloaded" =>
    \A f \in Fields : result.own[f] = saved.own[f] \/ (f \in Sparse /\ saved.own[f] = Zero)

\* docs/configuration.md: policy packs are resolved relative to the file that
\* references them; so a configuration whose files are all there loads.
PluginPacksAreFound == phase = "failed" => MustFail(at)

=============================================================================
