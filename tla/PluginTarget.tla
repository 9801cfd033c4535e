---------------------------- MODULE PluginTarget ----------------------------
(***************************************************************************)
(* The target that runs the state adapters and the probes of the plugins     *)
(* behind an answer (cleanr/plugins).  Each entry gets the response as the    *)
(* earlier ones left it and adds evidence to it: first the adapters of all    *)
(* manifests, then their probes.  An entry is a subprocess or a WASM module,  *)
(* with a time limit of its own inside the context of the call.               *)
(***************************************************************************)
EXTENDS Naturals, Sequences, SequencesExt

CONSTANT Chains \* the adapters and probes of the manifests, in manifest order

VARIABLES stage,     \* "base", "run", "wait" or "done": where Invoke is
          chain,     \* the entries in the order in which they run
          turn,      \* the entry that runs
          resp,      \* [err, from]: the response Invoke holds; from: its evidence
          base,      \* the response of the wrapped target
          inputs,    \* what each entry was given as evidence
          outputs,   \* what each entry printed, decoded
          expired,   \* the context of the running entry is over
          cancelled  \* the context of the call is over

vars == <<stage, chain, turn, resp, base, inputs, outputs, expired, cancelled>>

Kinds == {"adapter", "probe"}
Backends == {"command", "wasm"}
Entry(kind, backend, manifest) == [kind |-> kind, backend |-> backend, manifest |-> manifest]

PluginAssumption ==
  Chains \subseteq Seq([kind : Kinds, backend : Backends, manifest : Nat])

\* Mutant: the manifests are walked once, each with its adapters and probes.
RunsBeforeByManifest(entries, i, j) == i < j

\* Registry.StateAdapters, then Registry.Probes.
RunsBefore(entries, i, j) ==
  IF entries[i].kind = entries[j].kind THEN i < j ELSE entries[i].kind = "adapter"

EntriesInOrder(entries) ==
  {[k \in DOMAIN entries |-> entries[order[k]]] : order \in
     {order \in Bijection(DOMAIN entries, DOMAIN entries) :
        \A k, m \in DOMAIN entries : k < m => RunsBefore(entries, order[k], order[m])}}

\* What an entry may print: a delta with calls and state changes, and database
\* or queue observations.
Deltas == [changes : BOOLEAN, observations : BOOLEAN]

\* runStateAdapter and runProbe: only a probe's observations become state
\* changes; an adapter's are decoded and dropped.
Contribution(i, e, delta) ==
  (IF delta.changes THEN <<[of |-> i, what |-> "change"]>> ELSE <<>>)
    \o IF delta.observations /\ e.kind = "probe" THEN <<[of |-> i, what |-> "observation"]>> ELSE <<>>

-----------------------------------------------------------------------------
\* WrapTarget: with neither adapter nor probe there is no such target.
Init ==
  /\ \E entries \in Chains : entries # <<>> /\ chain \in EntriesInOrder(entries)
  /\ stage = "base" /\ turn = 1
  /\ resp = [err |-> FALSE, from |-> <<>>] /\ base = resp
  /\ inputs = <<>> /\ outputs = <<>>
  /\ expired = FALSE /\ cancelled = FALSE

\* Invoke: the wrapped target answers, with evidence of its own or without, or
\* fails, which ends the call.
BaseAnswers ==
  /\ stage = "base"
  /\ \E err, found \in BOOLEAN :
       /\ base' = [err |-> err, from |-> IF found THEN <<[of |-> 0, what |-> "change"]>> ELSE <<>>]
       /\ resp' = base'
       /\ stage' = IF err THEN "done" ELSE "run"
  /\ UNCHANGED <<chain, turn, inputs, outputs, expired, cancelled>>

\* runJSONEntry: the input is the response with all deltas so far; the entry
\* runs under its own limit (5 s if it has none) within the call's context.
StartEntry ==
  /\ stage = "run" /\ turn <= Len(chain)
  /\ inputs' = Append(inputs, resp.from)
  /\ expired' = cancelled
  /\ stage' = "wait"
  /\ UNCHANGED <<chain, turn, resp, base, outputs, cancelled>>

\* The entry ends well and its output decodes.  A subprocess is killed at the
\* end of its context; the runtime of a WASM module does not watch it, so a
\* module that is late is still taken.
EntryEnds ==
  /\ stage = "wait"
  /\ expired => chain[turn].backend = "wasm"
  /\ \E delta \in Deltas :
       /\ outputs' = Append(outputs, delta)
       /\ resp' = [resp EXCEPT !.from = @ \o Contribution(turn, chain[turn], delta)]
  /\ turn' = turn + 1
  /\ stage' = "run"
  /\ UNCHANGED <<chain, base, inputs, expired, cancelled>>

\* Mutant: what the earlier entries added stays in the failed response.
EntryFailsKeepingEvidence ==
  /\ stage = "wait"
  /\ resp' = [resp EXCEPT !.err = TRUE]
  /\ stage' = "done"
  /\ UNCHANGED <<chain, turn, base, inputs, outputs, expired, cancelled>>

\* It cannot be started or read, exits with an error, is killed, or prints no
\* JSON: the adapted response is dropped and the answer of the wrapped target
\* returned with the error.
EntryFails ==
  /\ stage = "wait"
  /\ resp' = [base EXCEPT !.err = TRUE]
  /\ stage' = "done"
  /\ UNCHANGED <<chain, turn, base, inputs, outputs, expired, cancelled>>

Finish ==
  /\ stage = "run" /\ turn > Len(chain)
  /\ stage' = "done"
  /\ UNCHANGED <<chain, turn, resp, base, inputs, outputs, expired, cancelled>>

\* The limit of the running entry ends.
Expire ==
  /\ stage = "wait" /\ ~expired
  /\ expired' = TRUE
  /\ UNCHANGED <<stage, chain, turn, resp, base, inputs, outputs, cancelled>>

Cancel ==
  /\ stage # "done" /\ ~cancelled
  /\ cancelled' = TRUE
  /\ expired' = (expired \/ stage = "wait")
  /\ UNCHANGED <<stage, chain, turn, resp, base, inputs, outputs>>

Invoke == BaseAnswers \/ StartEntry \/ EntryEnds \/ EntryFails \/ Finish
Next == Invoke \/ Expire \/ Cancel

Killed == stage = "wait" /\ expired /\ chain[turn].backend = "command" /\ EntryFails

\* Invoke goes on, limits end, and a killed subprocess is reaped; an entry
\* need not end by itself.
Spec ==
  /\ Init /\ [][Next]_vars
  /\ WF_vars(BaseAnswers \/ StartEntry \/ Finish) /\ WF_vars(Expire) /\ WF_vars(Killed)

-----------------------------------------------------------------------------
\* The evidence behind entry n: what it was given and what it added; that of
\* the wrapped target before the first one.
EvidenceAfter(n) ==
  IF n = 0 THEN base.from ELSE inputs[n] \o Contribution(n, chain[n], outputs[n])

\* The suites judge either all the evidence, of every adapter and after them
\* of every probe, or an error with what the wrapped target reported: never
\* part of it, and never an answer that lacks a plugin's (Invoke discards what
\* the entries before a failure have added).
EvidenceIsAllOrNothing ==
  stage = "done" =>
    IF resp.err THEN resp.from = base.from
                ELSE Len(outputs) = Len(chain) /\ resp.from = EvidenceAfter(Len(chain))

\* Each entry sees everything the entries before it found, so that a probe can
\* check what any adapter reported, also one of a later manifest
\* (ApplyStateAdapters).
EntriesSeeWhatIsBefore ==
  /\ \A n \in DOMAIN inputs : inputs[n] = EvidenceAfter(n - 1)
  /\ \A n \in DOMAIN inputs : \A m \in 1 .. n - 1 :
       chain[n].kind = "adapter" => chain[m].kind = "adapter"

\* Invoke ends within the limits of the entries, as long as no WASM module
\* loops: only a subprocess is stopped (runCommand, runWASMModule).
EndsWithoutWasm ==
  (\A i \in DOMAIN chain : chain[i].backend = "command") => <>(stage = "done")

=============================================================================
