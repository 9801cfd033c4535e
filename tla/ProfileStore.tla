---------------------------- MODULE ProfileStore ----------------------------
(***************************************************************************)
(* The provider profile (cleanr/profile/store.go) under `cleanr setup` and   *)
(* `cleanr setup agent` (internal/cli/setup): each setup reads the file,      *)
(* replaces one provider, makes it the default and writes the file in place,  *)
(* without a lock; then it writes a configuration that names the provider.    *)
(* A run takes its key from the profile.  Files may be edited by hand, any    *)
(* file operation may fail and a setup may be killed between any two.         *)
(***************************************************************************)
EXTENDS Naturals, Sequences, SequencesExt

CONSTANTS Setups,   \* the setup processes
          Names,    \* provider names after normalizeProviderName
          Envs,     \* names of environment variables that hold a key
          HandMade, \* profiles a user may have left in the file
          Absent,   \* no file, no default provider, nothing yet
          Empty,    \* a file that was truncated and not written
          Garbage   \* a file that does not decode

VARIABLES at,       \* [Setups -> where setupProviderCmd or setupAgentCmd is]
          wants,    \* [Setups -> the provider this setup is about]
          held,     \* [Setups -> the File that UpsertProvider holds]
          profile,  \* the profile: Absent, Empty, Garbage or a File
          config,   \* [Setups -> the generated configuration]
          stored,   \* the providers that were saved, in order
          first,    \* the profile at the start
          serial    \* no two saves overlapped and none was cut off

vars == <<at, wants, held, profile, config, stored, first, serial>>

\* A File is a default provider and a set of entries.  Two keys of the JSON
\* object may normalise to one name; an entry without a name is dropped.
File(default, providers) == [default |-> default, providers |-> providers]
Unreadable == {Absent, Empty, Garbage}
defaultFile == File(Absent, {})

NamesOf(providers) == {e.name : e \in providers} \ {Absent}

\* Assumed: what is no file differs from what is, and from a provider.
Keys == Setups \cup {e.key : e \in UNION {f.providers : f \in HandMade}}
Entries == [name : Names \cup {Absent}, env : Envs \cup {Absent}, key : Keys]
Files == [default : Names \cup {Absent}, providers : SUBSET Entries]
ProfileAssumption ==
  /\ Absent \notin {Empty, Garbage} \cup Names \cup Entries
  /\ HandMade \subseteq Files
  /\ \A u \in Unreadable : u \notin Files
  /\ Absent \notin [provider : Names, env : Envs \cup {Absent}]

\* normalizeFile: of entries with one name the map's iteration keeps any.
normalizeFile(f) ==
  {File(f.default, es) : es \in
     {es \in SUBSET f.providers :
        /\ NamesOf(es) = NamesOf(f.providers)
        /\ \A e \in es : e.name # Absent /\ \A d \in es : d.name = e.name => d = e}}

\* Mutant: whatever cannot be read starts a new profile.
LoadOrCreateAlways(p) == IF p \in Unreadable THEN {defaultFile} ELSE normalizeFile(p)

\* LoadOrCreate: the files it may return, none when it returns an error.
LoadOrCreate(p) ==
  IF p = Absent THEN {defaultFile} ELSE IF p \in Unreadable THEN {} ELSE normalizeFile(p)

\* DefaultProvider, of a file that was loaded.
DefaultProvider(f) == {e \in f.providers : e.name = f.default}

\* Mutant: the key of the default provider, whatever the target's is.
LookupAPIKeyOfDefault(p, name, env) ==
  IF p \in Unreadable THEN {Absent}
  ELSE {LET of == DefaultProvider(f)
        IN  IF of = {} THEN Absent ELSE (CHOOSE e \in of : TRUE).key : f \in normalizeFile(p)}

\* LookupAPIKey: the keys a run may find for the provider of its target.
LookupAPIKey(p, name, env) ==
  IF p \in Unreadable THEN {Absent}
  ELSE {LET of == {e \in f.providers : e.name = name /\ (e.env = Absent \/ e.env = env)}
        IN  IF of = {} THEN Absent ELSE (CHOOSE e \in of : TRUE).key : f \in normalizeFile(p)}

\* Mutant: the provider is added and the old entry of its name stays.
WithProviderBeside(f, provider) == File(provider.name, f.providers \cup {provider})

WithProvider(f, provider) ==
  File(provider.name, {e \in f.providers : e.name # provider.name} \cup {provider})

Ended == {"done", "failed", "killed"}
Saving == {"loaded", "opened"}

-----------------------------------------------------------------------------
Init ==
  /\ at = [s \in Setups |-> "start"]
  /\ wants = [s \in Setups |-> Absent]
  /\ held = [s \in Setups |-> defaultFile]
  /\ profile \in HandMade \cup {Absent, Garbage}
  /\ config = [s \in Setups |-> Absent]
  /\ stored = <<>>
  /\ first = profile
  /\ serial = TRUE

\* gatherProviderProfile: the answers of the user.  The key is this setup's.
Ask(s) ==
  /\ at[s] = "start"
  /\ \E name \in Names, env \in Envs :
       wants' = [wants EXCEPT ![s] = [name |-> name, env |-> env, key |-> s]]
  /\ at' = [at EXCEPT ![s] = "asked"]
  /\ UNCHANGED <<held, profile, config, stored, first, serial>>

\* resolveAgentProvider without an override: the default provider as it is
\* stored.  A file without a default leads to Ask, anything else is an error.
TakeDefault(s) ==
  /\ at[s] = "start" /\ profile \notin Unreadable
  /\ \E f \in normalizeFile(profile) : \E e \in DefaultProvider(f) :
       wants' = [wants EXCEPT ![s] = e]
  /\ at' = [at EXCEPT ![s] = "saved"]
  /\ UNCHANGED <<held, profile, config, stored, first, serial>>

\* UpsertProvider up to the call of Save.
Load(s) ==
  /\ at[s] = "asked"
  /\ \E f \in LoadOrCreate(profile) :
       held' = [held EXCEPT ![s] = WithProvider(f, wants[s])]
  /\ serial' = (serial /\ \A t \in Setups \ {s} : at[t] \notin Saving)
  /\ at' = [at EXCEPT ![s] = "loaded"]
  /\ UNCHANGED <<wants, profile, config, stored, first>>

\* Save: os.WriteFile opens the file and truncates it, ...
Truncate(s) ==
  /\ at[s] = "loaded"
  /\ profile' = Empty
  /\ at' = [at EXCEPT ![s] = "opened"]
  /\ UNCHANGED <<wants, held, config, stored, first, serial>>

\* ... and writes from the start: over what another setup has written in
\* between, of which the end may stay.
Write(s) ==
  /\ at[s] = "opened"
  /\ profile' \in {held[s]} \cup (IF profile = Empty THEN {} ELSE {Garbage})
  /\ stored' = Append(stored, wants[s])
  /\ at' = [at EXCEPT ![s] = "saved"]
  /\ UNCHANGED <<wants, held, config, first, serial>>

\* The write stops somewhere: a full disk, or the process is killed.
CutWrite(s) ==
  /\ at[s] = "opened"
  /\ profile' \in {profile, Garbage}
  /\ serial' = FALSE
  /\ at' \in {[at EXCEPT ![s] = "failed"], [at EXCEPT ![s] = "killed"]}
  /\ UNCHANGED <<wants, held, config, stored, first>>

\* writeGeneratedConfig; the target's type is the provider's name.
WriteConfig(s) ==
  /\ at[s] = "saved"
  /\ config' = [config EXCEPT ![s] = [provider |-> wants[s].name, env |-> wants[s].env]]
  /\ at' = [at EXCEPT ![s] = "done"]
  /\ UNCHANGED <<wants, held, profile, stored, first, serial>>

\* An error of a prompt, of Load, MkdirAll, OpenFile or of the configuration;
\* or a kill between two steps.
Stop(s) ==
  /\ at[s] \notin Ended \cup {"opened"}
  /\ at' = [at EXCEPT ![s] = "failed"]
  /\ UNCHANGED <<wants, held, profile, config, stored, first, serial>>

Next == \E s \in Setups :
  \/ Ask(s) \/ TakeDefault(s) \/ Load(s) \/ Truncate(s) \/ Write(s)
  \/ CutWrite(s) \/ WriteConfig(s) \/ Stop(s)

Spec == Init /\ [][Next]_vars

-----------------------------------------------------------------------------
\* The last of its name that was stored, the names stored so far, and the
\* moments when no setup is between opening the file and having written it.
IsLatest(e) ==
  \E i \in DOMAIN stored : stored[i] = e /\ \A j \in DOMAIN stored : j > i => stored[j].name # e.name

StoredNames == {stored[i].name : i \in DOMAIN stored}
NobodyWrites == \A s \in Setups : at[s] # "opened"

\* Setups that do not overlap lose nothing: the profile has the latest stored
\* provider of every name, keeps the other names it had, and its default is
\* the last one stored (UpsertProvider).
SerialProfileIsExact ==
  serial /\ NobodyWrites =>
    IF stored = <<>> THEN profile = first
    ELSE /\ profile.default = Last(stored).name
         /\ \A e \in profile.providers : e.name \in StoredNames => IsLatest(e)
         /\ NamesOf(profile.providers) =
              StoredNames \cup (IF first = Absent THEN {} ELSE NamesOf(first.providers))

\* A configuration that setup generated finds the key it was set up with, on
\* every read of the profile, until another setup stores that provider
\* (LookupAPIKey, starterConfigForProvider).
ConfigFindsItsKey ==
  serial /\ NobodyWrites =>
    \A s \in Setups :
      config[s] # Absent /\ wants[s].key = s /\ IsLatest(wants[s]) =>
        LookupAPIKey(profile, config[s].provider, config[s].env) = {s}

\* A profile that does not decode is left to its owner: only a setup that was
\* already writing replaces it (LoadOrCreate creates only what is not there).
UnreadableIsKept ==
  [][(profile \in {Garbage, Empty}) /\ (\A s \in Setups : at[s] \notin Saving) =>
       (profile' = profile /\ \A s \in Setups : at'[s] # "loaded")]_vars

=============================================================================
