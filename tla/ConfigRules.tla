------------------------------ MODULE ConfigRules -----------------------------
(***************************************************************************)
(* What a configuration means (cleanr/config): `cleanr setup` writes a first   *)
(* one, somebody edits it, and loading fills in what is zero and then judges    *)
(* the result.  Scalars are partial functions of <<section, field>>, with the   *)
(* zero value left out as in the Go structs; a fraction is in thousandths.      *)
(***************************************************************************)
EXTENDS Integers, Sequences, FiniteSets, SequencesExt

CONSTANTS Options,  \* what setup may be asked for, and how many edits follow
          Targets,  \* the targets and judges a file may describe instead, by section
          Edits     \* [kind, field, value]: changes of one field by hand

\* A number that is written into a file by hand is one.
RulesAssumption == \A e \in Edits : e.kind = "num" => e.value \in Int

VARIABLES stage, options, file, loaded, edits
vars == <<stage, options, file, loaded, edits>>

\* Both tables; where they have a field in common, the first.
Over(first, second) ==
  [f \in DOMAIN first \cup DOMAIN second |-> IF f \in DOMAIN first THEN first[f] ELSE second[f]]

Table(section, values) == [f \in {<<section, n>> : n \in DOMAIN values} |-> values[f[2]]]
Num(c, f) == IF f \in DOMAIN c.num THEN c.num[f] ELSE 0
Text(c, f) == IF f \in DOMAIN c.text THEN c.text[f] ELSE ""
Absolute(url) == url # "relative"

OpenAIFamily == {"openai", "openai_compatible", "azure_openai", "gemini", "bedrock", "vertex", "mistral"}
TargetType(c, s) == IF Text(c, <<s, "type">>) = "" THEN "http" ELSE Text(c, <<s, "type">>)
IsPairwise(c) == Text(c, <<"judge", "mode">>) = "pairwise"

-----------------------------------------------------------------------------
\* Defaults: never over a value that is there.
FillNum(c, section, values) == [c EXCEPT !.num = Over(@, Table(section, values))]
FillText(c, section, values) == [c EXCEPT !.text = Over(@, Table(section, values))]

\* Also where the provider has no public endpoint: BaseURLValue ends with
\* OpenAI's for all but two.
BaseURLValue(type) == CASE type = "gemini" -> "google" [] type = "mistral" -> "mistral" [] OTHER -> "openai"

applyTargetDefaults(c, s, explicit) ==
  LET typed == IF explicit THEN c ELSE FillText(c, s, [type |-> "http"])
      type == TargetType(typed, s)
      common == FillNum(FillText(typed, s, [method |-> "POST"]), s, [timeout_ms |-> 5000])
  IN  CASE type \in OpenAIFamily ->
             FillText(common, s, [name |-> type, base_url |-> BaseURLValue(type), auth_header |-> "auth",
                                  api_mode |-> IF type \in {"openai", "openai_compatible"} THEN "responses"
                                               ELSE "chat_completions"])
        [] type = "anthropic" -> FillNum(FillText(common, s, [name |-> type, base_url |-> "anthropic"]), s, [max_tokens |-> 1024])
        [] type = "graphql" -> FillText(common, s, [name |-> type, response_field |-> "data"])
        [] type \in {"cli", "grpc", "mcp"} -> FillText(common, s, [name |-> type])
        [] OTHER -> common

applyScenarioGenerationDefaults(c) ==
  IF "generation" \notin c.on THEN c
  ELSE FillNum(FillText(applyTargetDefaults(c, "generator", TRUE), "generation", [output_file |-> "dataset"]),
               "generation", [count |-> 12])

\* A judge scale of one, and samples below one, are replaced as if left out.
applyLLMJudgeDefaults(c) ==
  IF "judge" \notin c.on THEN c
  ELSE LET unusable == {f \in DOMAIN c.num : \/ f = <<"judge", "scale">> /\ c.num[f] <= 1
                                             \/ f = <<"judge", "samples">> /\ c.num[f] <= 0}
           kept == [c EXCEPT !.num = [f \in DOMAIN @ \ unusable |-> @[f]]]
           judge == FillNum(applyTargetDefaults(kept, "provider", TRUE), "judge",
                            [scale |-> 5, min_score |-> 600, samples |-> 1, confidence_level |-> 950])
           steady == IF Num(judge, <<"judge", "samples">>) > 1
                     THEN FillNum(judge, "judge", [max_disagreement |-> 400]) ELSE judge
       IN  IF IsPairwise(steady)
           THEN FillNum(applyTargetDefaults(steady, "baseline", TRUE), "judge", [min_win_rate |-> 500])
           ELSE steady

\* Mutant: the snapshot budgets are always those of the other comparisons.
DriftDefaultsOverwriting(c) ==
  IF "drift" \notin c.on THEN c
  ELSE LET d == FillNum(c, "drift", [iterations |-> 3, max_normalized_drift |-> 300, max_semantic_drift |-> 250])
           follow == [d EXCEPT !.num = Over(Table("drift", [max_snapshot_drift |-> Num(d, <<"drift", "max_normalized_drift">>)]), @)]
       IN  FillNum(follow, "drift", [max_semantic_snapshot_drift |-> Num(d, <<"drift", "max_semantic_drift">>),
             min_consistency_score |-> 700, min_semantic_consistency_score |-> 750, confidence_level |-> 950])

\* The snapshot budgets follow the budgets they compare with.
applyDriftDefaults(c) ==
  IF "drift" \notin c.on THEN c
  ELSE LET d == FillNum(c, "drift", [iterations |-> 3, max_normalized_drift |-> 300, max_semantic_drift |-> 250])
       IN  FillNum(d, "drift",
             [max_snapshot_drift |-> Num(d, <<"drift", "max_normalized_drift">>),
              max_semantic_snapshot_drift |-> Num(d, <<"drift", "max_semantic_drift">>),
              min_consistency_score |-> 700, min_semantic_consistency_score |-> 750, confidence_level |-> 950])

applyLoadDefaults(c) ==
  IF "load" \in c.on THEN FillNum(c, "load", [virtual_users |-> 4, requests_per_user |-> 5, p95_latency_ms |-> 2500]) ELSE c

applyChaosDefaults(c) ==
  IF "chaos" \in c.on THEN FillNum(c, "chaos", [timeout_scale |-> 400, noise_bytes |-> 512, max_error_rate_pct |-> 35]) ELSE c

applyTokenOptimizationDefaults(c) ==
  IF "tokens" \notin c.on THEN c
  ELSE FillNum(c, "tokens", [max_input_tokens |-> 700, max_output_tokens |-> 350, max_total_tokens |-> 900,
         max_output_input_ratio |-> 1400, max_prompt_duplication_ratio |-> 180,
         max_response_duplication_ratio |-> 120, suggested_max_output_tokens |-> 180])

\* A preset decides whether the gates block, and fills only missing thresholds.
applyTrendGatePreset(c) ==
  LET preset == Text(c, <<"gates", "preset">>)
      blocking == [required_window |-> 2, max_failed_suites_delta |-> 0, max_failed_cases_delta |-> 0]
      strict == [max_duration_increase_pct |-> 15, max_semantic_drift_delta |-> 50, max_baseline_semantic_drift_delta |-> 30]
      moderate == [max_duration_increase_pct |-> 25, max_semantic_drift_delta |-> 80, max_baseline_semantic_drift_delta |-> 50]
  IN  CASE preset = "strict" -> [FillNum(c, "gates", Over(blocking, strict)) EXCEPT !.on = @ \cup {"gates"}]
        [] preset = "moderate" -> [FillNum(c, "gates", Over(blocking, moderate)) EXCEPT !.on = @ \cup {"gates"}]
        [] preset = "exploratory" ->
             [FillNum(c, "gates", [required_window |-> 2, max_duration_increase_pct |-> 50]) EXCEPT !.on = @ \ {"gates"}]
        [] OTHER -> c

\* A path is its name, part after part; only a last part "trends" is replaced.
WithoutTrends(path) == IF Last(path) = "trends" THEN Front(path) ELSE path
deriveReplayArtifactPath(trend) == Append(WithoutTrends(trend), "replay")
deriveAttestationPath(c) ==
  IF "replay" \in DOMAIN c.path THEN Append(c.path["replay"], "attestation")
  ELSE IF "trend" \in DOMAIN c.path THEN Append(WithoutTrends(c.path["trend"]), "attestation")
  ELSE <<Text(c, <<"target", "name">>), "attestation">>

applyReportingDefaults(c) ==
  LET kept == IF "trend" \notin DOMAIN c.path THEN c
              ELSE [FillNum(c, "reporting", [trend_limit |-> 30])
                    EXCEPT !.path = Over(@, [replay |-> deriveReplayArtifactPath(c.path["trend"])])]
      gated == applyTrendGatePreset(kept)
  IN  IF "gates" \in gated.on THEN FillNum(gated, "gates", [required_window |-> 2]) ELSE gated

applyAttestationDefaults(c) ==
  IF "attestation" \notin c.on THEN c
  ELSE [FillText(c, "attestation", [key_env |-> "key"]) EXCEPT !.path = Over(@, [attestation |-> deriveAttestationPath(c)])]

applyIntegrationDefaults(c) ==
  [c EXCEPT !.sinks = {[k EXCEPT !.timeout = IF @ = 0 THEN 5000 ELSE @] : k \in @}]

applySuiteDefaults(c) ==
  applyLLMJudgeDefaults(applyTokenOptimizationDefaults(applyDriftDefaults(applyChaosDefaults(applyLoadDefaults(c)))))

applyDefaults(c) ==
  applyAttestationDefaults(applyReportingDefaults(applyIntegrationDefaults(applySuiteDefaults(
    applyScenarioGenerationDefaults(applyTargetDefaults(c, "target", FALSE))))))

-----------------------------------------------------------------------------
\* The errors of ValidateConfig: the fields they name.
Missing(c, s, names) == {<<s, n>> : n \in {m \in names : Text(c, <<s, m>>) = ""}}
Relative(c, s, names) == {<<s, n>> : n \in {m \in names : ~Absolute(Text(c, <<s, m>>))}}
Negative(c, s, names) == {<<s, n>> : n \in {m \in names : Num(c, <<s, m>>) < 0}}
Below(c, s, names, low) == {<<s, n>> : n \in {m \in names : Num(c, <<s, m>>) < low}}
OutsideUnit(c, s, names) == {<<s, n>> : n \in {m \in names : Num(c, <<s, m>>) \notin 0 .. 1000}}

TargetErrors(c, s) ==
  LET type == TargetType(c, s)
  IN  Negative(c, s, {"timeout_ms"}) \cup
      CASE type = "cli" -> Missing(c, s, {"command"})
        [] type = "graphql" -> Missing(c, s, {"url", "query", "response_field"}) \cup Relative(c, s, {"url"})
        [] type = "grpc" -> Missing(c, s, {"address", "method"})
        [] type = "http" -> Missing(c, s, {"url", "prompt_field", "response_field"}) \cup Relative(c, s, {"url"})
        [] type \in OpenAIFamily ->
             Missing(c, s, {"model"}) \cup Relative(c, s, {"base_url"})
               \cup (IF Text(c, <<s, "api_mode">>) \in {"", "responses", "chat_completions"} THEN {} ELSE {<<s, "api_mode">>})
               \cup (IF type = "openai_compatible" THEN Missing(c, s, {"auth_header"}) ELSE {})
               \cup (IF type \in {"azure_openai", "vertex", "bedrock"} THEN Missing(c, s, {"base_url"}) ELSE {})
               \cup (IF type = "azure_openai" THEN Missing(c, s, {"api_version"}) ELSE {})
        [] type = "anthropic" -> Missing(c, s, {"model"}) \cup Relative(c, s, {"base_url"}) \cup Negative(c, s, {"max_tokens"})
        [] type = "mcp" -> Missing(c, s, {"url", "tool"}) \cup Relative(c, s, {"url"})
        [] OTHER -> {<<s, "type">>}

\* A judge or a generator also has to say which type it is.
ProviderErrors(c, s) == Missing(c, s, {"type"}) \cup TargetErrors(c, s)

GenerationErrors(c) ==
  IF "generation" \notin c.on THEN {}
  ELSE ProviderErrors(c, "generator") \cup Missing(c, "generation", {"app_kind", "goals", "risk_areas", "output_file"})
         \cup Below(c, "generation", {"count"}, 1)
         \cup (IF Text(c, <<"generation", "mode">>) \notin {"", "standard", "adversarial"} THEN {<<"generation", "mode">>} ELSE {})
         \cup (IF Text(c, <<"generation", "mode">>) = "adversarial" THEN Missing(c, "generation", {"attack_families"}) ELSE {})

LoadErrors(c) ==
  IF "load" \notin c.on THEN {}
  ELSE Below(c, "load", {"virtual_users", "requests_per_user"}, 1)
         \cup Negative(c, "load", {"max_error_rate_pct", "p95_latency_ms", "max_cost_per_request", "cost_per_1m_tokens",
                             "min_tokens_per_second"})
         \cup (IF Num(c, <<"load", "max_error_rate_pct">>) > 100 THEN {<<"load", "max_error_rate_pct">>} ELSE {})
         \cup (IF Num(c, <<"load", "max_cost_per_request">>) > 0 /\ Num(c, <<"load", "cost_per_1m_tokens">>) = 0 THEN {<<"load", "">>} ELSE {})

ChaosErrors(c) ==
  IF "chaos" \notin c.on THEN {}
  ELSE Below(c, "chaos", {"timeout_scale"}, 1) \cup Negative(c, "chaos", {"noise_bytes", "max_error_rate_pct"})
         \cup (IF Num(c, <<"chaos", "max_error_rate_pct">>) > 100 THEN {<<"chaos", "max_error_rate_pct">>} ELSE {})

DriftErrors(c) ==
  IF "drift" \notin c.on THEN {}
  ELSE Below(c, "drift", {"iterations"}, 2)
         \cup OutsideUnit(c, "drift", {"max_normalized_drift", "max_semantic_drift", "max_snapshot_drift",
                "max_semantic_snapshot_drift", "min_consistency_score", "min_semantic_consistency_score",
                "confidence_level", "min_pass_rate", "max_flake_rate"})

TokenErrors(c) ==
  IF "tokens" \notin c.on THEN {}
  ELSE Negative(c, "tokens", {"max_input_tokens", "max_output_tokens", "max_total_tokens", "suggested_max_output_tokens"})
         \cup Below(c, "tokens", {"max_output_input_ratio"}, 1)
         \cup OutsideUnit(c, "tokens", {"max_prompt_duplication_ratio", "max_response_duplication_ratio"})

JudgeErrors(c) ==
  IF "judge" \notin c.on THEN {}
  ELSE ProviderErrors(c, "provider")
         \cup (IF Text(c, <<"judge", "mode">>) \notin {"", "score", "pairwise"} THEN {<<"judge", "mode">>} ELSE {})
         \cup (IF IsPairwise(c) THEN ProviderErrors(c, "baseline") \cup OutsideUnit(c, "judge", {"min_win_rate"}) ELSE {})
         \cup (IF Num(c, <<"judge", "scale">>) # 0 /\ Num(c, <<"judge", "scale">>) < 2 THEN {<<"judge", "scale">>} ELSE {})
         \cup Negative(c, "judge", {"samples", "max_calibration_mae"})
         \cup OutsideUnit(c, "judge", {"min_score", "confidence_level", "min_pass_rate", "max_flake_rate", "max_disagreement",
                                       "cascade_margin", "min_calibration_accuracy"})
         \cup (IF Num(c, <<"judge", "min_calibration_accuracy">>) > 0 \/ Num(c, <<"judge", "max_calibration_mae">>) > 0
               THEN Missing(c, "judge", {"calibration_file"}) ELSE {})

\* Mutant: gates from a preset are taken to be complete.
ManualGatesErrors(c) ==
  Negative(c, "reporting", {"trend_limit"})
    \cup (IF Text(c, <<"gates", "preset">>) \notin {"", "strict", "moderate", "exploratory"} THEN {<<"gates", "preset">>} ELSE {})
    \cup (IF "gates" \notin c.on \/ Text(c, <<"gates", "preset">>) # "" THEN {}
          ELSE (IF "trend" \notin DOMAIN c.path THEN {<<"reporting", "trend_file">>} ELSE {}))

\* Thresholds are judged only while the gates block.
ReportingErrors(c) ==
  Negative(c, "reporting", {"trend_limit"})
    \cup (IF Text(c, <<"gates", "preset">>) \notin {"", "strict", "moderate", "exploratory"} THEN {<<"gates", "preset">>} ELSE {})
    \cup (IF "gates" \notin c.on THEN {}
          ELSE (IF "trend" \notin DOMAIN c.path THEN {<<"reporting", "trend_file">>} ELSE {})
                 \cup Below(c, "gates", {"required_window"}, 2)
                 \cup Negative(c, "gates", {"max_failed_suites_delta", "max_failed_cases_delta", "max_duration_increase_pct"})
                 \cup OutsideUnit(c, "gates", {"max_semantic_drift_delta", "max_baseline_semantic_drift_delta"}))

GovernanceErrors(c) ==
  IF "attestation" \notin c.on THEN {}
  ELSE Missing(c, "attestation", {"key_env"}) \cup (IF "attestation" \in DOMAIN c.path THEN {} ELSE {<<"attestation", "output">>})

SinkErrors(k) ==
  \/ k.type = "http" /\ k.endpoint = ""
  \/ k.type = "braintrust" /\ k.endpoint = "" /\ k.project = ""
  \/ ~Absolute(k.endpoint) \/ k.timeout < 0

\* Names and, within a scenario, sessions are unique; a replay has two or more.
ScenarioErrors(c) ==
  LET names == [i \in DOMAIN c.scenarios |-> c.scenarios[i].name]
      Bad(s) == \/ s.name = "" \/ (s.input = "" /\ s.turns = 0)
                \/ (s.turns > 0 /\ s.replay # <<>>) \/ Len(s.replay) = 1
                \/ \E i, j \in DOMAIN s.replay : (i < j /\ s.replay[i] = s.replay[j]) \/ s.replay[i] = ""
  IN  {<<"scenarios", s.name>> : s \in {t \in Range(c.scenarios) : Bad(t)}}
        \cup {<<"scenarios", names[i]>> : i \in {j \in DOMAIN names : \E k \in 1 .. j - 1 : names[k] = names[j]}}
        \cup (IF names = <<>> /\ "generation" \notin c.on THEN {<<"scenarios", "">>} ELSE {})

ValidateConfig(c) ==
  TargetErrors(c, "target") \cup GenerationErrors(c) \cup LoadErrors(c) \cup ChaosErrors(c) \cup DriftErrors(c)
    \cup TokenErrors(c) \cup JudgeErrors(c) \cup ReportingErrors(c) \cup GovernanceErrors(c)
    \cup ScenarioErrors(c) \cup {<<"sinks", k.type>> : k \in {s \in c.sinks : SinkErrors(s)}}

-----------------------------------------------------------------------------
\* Setup.  A release is attested; a preset not asked for comes with the profile.
resolveStarterConfigOptions(o) ==
  [o EXCEPT !.attestation = @ \/ o.profile = "release",
            !.preset = IF @ # "" THEN @ ELSE IF o.profile = "pr" THEN "exploratory" ELSE "moderate"]
OptionsAreRefused(o) ==
  \/ o.profile \notin {"", "pr", "main", "release"}
  \/ "braintrust" \in o.sinks /\ o.project = ""
  \/ "http" \in o.sinks /\ o.endpoint = ""

\* The thresholds a starter sets are all there, and in range.
Given(section, names, v) == [f \in {<<section, n>> : n \in names} |-> v]
StarterNumbers ==
  Over(Given("load", {"virtual_users", "requests_per_user", "max_error_rate_pct", "p95_latency_ms"}, 8),
  Over(Given("chaos", {"timeout_scale", "noise_bytes", "max_error_rate_pct"}, 35),
  Over(Given("drift", {"iterations"}, 4),
  Over(Given("drift", {"max_normalized_drift", "max_semantic_drift", "max_snapshot_drift", "max_semantic_snapshot_drift",
                       "min_consistency_score", "min_semantic_consistency_score"}, 180),
       Given("tokens", {"max_input_tokens", "max_output_tokens", "max_total_tokens", "max_output_input_ratio",
                        "max_prompt_duplication_ratio", "max_response_duplication_ratio", "suggested_max_output_tokens"}, 120)))))
Kept(numbers, sections) == [f \in {g \in DOMAIN numbers : g[1] \in sections} |-> numbers[f]]

\* ExampleConfig, with the example's target replaced by the provider's.
starterConfigForProvider(o) ==
  [on |-> {"load", "chaos", "drift", "tokens"},
   num |-> Over(StarterNumbers, Over(Given("reporting", {"trend_limit"}, 30), Over(Given("target", {"timeout_ms"}, 6000),
             Given("target", IF o.provider = "anthropic" THEN {"max_tokens"} ELSE {}, 1024)))),
   text |-> Over(Table("target", [type |-> o.provider, name |-> "starter", model |-> "model"]), Table("gates", [preset |-> o.preset])),
   path |-> [trend |-> <<"starter", "trends">>],
   sinks |-> {}, summaries |-> {},
   scenarios |-> <<[name |-> "happy-path", input |-> "prompt", turns |-> 0, replay |-> <<>>],
                   [name |-> "secrets-boundary", input |-> "prompt", turns |-> 0, replay |-> <<>>]>>]

\* Every profile replaces the suites and the report files; the paths have the
\* name the target has at the time.
applyStarterProfile(c, o) ==
  LET name == Text(c, <<"target", "name">>)
      suites == IF o.profile = "release" THEN {"load", "chaos", "drift", "tokens"} ELSE {"drift", "tokens"}
      profiled == [c EXCEPT
        !.on = (@ \ {"load", "chaos"}) \cup suites \cup (IF o.profile = "release" THEN {"attestation"} ELSE {}),
        !.num = Over(Kept(StarterNumbers, suites), Kept(@, {"target", "reporting"})),
        !.path = Over(IF o.profile = "release"
                      THEN [trend |-> <<name, "trends">>, replay |-> <<name, "replay">>, attestation |-> <<name, "attestation">>]
                      ELSE [trend |-> <<name, "trends">>, replay |-> <<name, "replay">>], @),
        !.text = Over(Over(Table("gates", [preset |-> o.preset]),
                           IF o.profile = "release" THEN Table("attestation", [key_env |-> "key"]) ELSE <<>>), @)]
  IN  IF o.profile = "" THEN c ELSE profiled

\* Mutant: a sink sends the attestation, whether one is made or not.
IntegrationsAttesting(c, o) ==
  [c EXCEPT !.sinks = {[type |-> t, endpoint |-> IF t = "http" THEN o.endpoint ELSE "", project |-> o.project,
                        attest |-> t \in {"http", "braintrust"}, timeout |-> 0] : t \in o.sinks},
            !.on = @ \cup (IF o.attestation THEN {"attestation"} ELSE {})]

applyStarterIntegrations(c, o) ==
  LET name == Text(c, <<"target", "name">>)
      sinks == {[type |-> t, endpoint |-> IF t = "http" THEN o.endpoint ELSE "",
                 project |-> IF t = "braintrust" THEN o.project ELSE "",
                 attest |-> o.attestation /\ t \in {"http", "braintrust"}, timeout |-> 0] : t \in o.sinks}
      sent == IF sinks = {} THEN c ELSE [c EXCEPT !.sinks = sinks, !.summaries = {<<name, "summary", "md">>, <<name, "summary", "json">>}]
  IN  IF ~o.attestation THEN sent
      ELSE [sent EXCEPT !.on = @ \cup {"attestation"}, !.path = Over([attestation |-> <<name, "attestation">>], @),
                        !.text = Over(Table("attestation", [key_env |-> "key"]), @)]

\* `setup agent` names the target, and applies profile and integrations again.
starterAgentConfig(c, o) ==
  LET named == [c EXCEPT !.text = Over(Table("target", [name |-> "agent"]), @), !.path = Over([trend |-> <<"agent", "trends">>], @)]
  IN  applyStarterIntegrations(applyStarterProfile(named, o), o)

StarterFor(given) ==
  LET o == resolveStarterConfigOptions(given)
      c == applyStarterIntegrations(applyStarterProfile(starterConfigForProvider(o), o), o)
  IN  IF o.agent THEN starterAgentConfig(c, o) ELSE c

-----------------------------------------------------------------------------
NoConfig == [on |-> {}, num |-> <<>>, text |-> <<>>, path |-> <<>>, sinks |-> {}, summaries |-> {}, scenarios |-> <<>>]

Init ==
  /\ options \in Options
  /\ stage = "setup" /\ file = NoConfig /\ loaded = NoConfig /\ edits = 0

\* Resolve the options and write the starter; refused options write nothing.
Setup ==
  /\ stage = "setup"
  /\ IF OptionsAreRefused(options) THEN stage' = "refused" /\ UNCHANGED file
     ELSE stage' = "written" /\ file' = StarterFor(options)
  /\ UNCHANGED <<options, loaded, edits>>

\* Zero is how a field is left out, except for the thresholds of the gates.
IsLeftOut(f, v) == v = 0 /\ (f[1] # "gates" \/ f[2] = "required_window")
SetNum(c, f, v) ==
  [c EXCEPT !.num = IF IsLeftOut(f, v) THEN [g \in DOMAIN @ \ {f} |-> @[g]] ELSE Over([g \in {f} |-> v], @)]
SetText(c, f, v) ==
  [c EXCEPT !.text = IF v = "" THEN [g \in DOMAIN @ \ {f} |-> @[g]] ELSE Over([g \in {f} |-> v], @)]

\* Somebody edits the file: one field, a switch, another target or scenario.
Edit ==
  /\ stage \in {"written", "loaded"} /\ edits < options.edits
  /\ \/ \E e \in Edits :
          file' = CASE e.kind = "num" -> SetNum(file, e.field, e.value)
                    [] e.kind = "text" -> SetText(file, e.field, e.value)
                    [] e.kind = "switch" ->
                         [file EXCEPT !.on = IF e.field \in @ THEN @ \ {e.field} ELSE @ \cup {e.field}]
                    [] e.kind = "unset path" -> [file EXCEPT !.path = [p \in DOMAIN @ \ {e.field} |-> @[p]]]
                    [] OTHER -> [file EXCEPT !.scenarios = Append(@, e.value)]
     \/ \E t \in Targets :
          file' = [file EXCEPT !.text = Over(Table(t.section, t.fields), [f \in {g \in DOMAIN @ : g[1] # t.section} |-> @[f]])]
  /\ file' # file
  /\ stage' = "edited" /\ edits' = edits + 1
  /\ UNCHANGED <<options, loaded>>

LoadConfigFile ==
  /\ stage \in {"written", "edited"}
  /\ loaded' = applyDefaults(file)
  /\ stage' = IF ValidateConfig(loaded') = {} THEN "loaded" ELSE "rejected"
  /\ UNCHANGED <<options, file, edits>>

Next == Setup \/ Edit \/ LoadConfigFile
Spec == Init /\ [][Next]_vars

-----------------------------------------------------------------------------
\* The files a run would write.
Outputs(c) == [p \in DOMAIN c.path |-> c.path[p]]

\* What setup writes for options it accepts loads as it is, when the values
\* passed through are well formed; it publishes exactly to what was asked for,
\* with an attestation exactly if one is made; a release is attested, and gates
\* block unless the preset is exploratory.  No two files of a run share a
\* path: `setup agent` renames the target after the first paths are made
\* (setup/config.go, defaults.go).
StartersRun ==
  edits = 0 /\ stage \in {"loaded", "rejected"} =>
    LET o == resolveStarterConfigOptions(options)
    IN  o.preset \in {"strict", "moderate", "exploratory"} /\ Absolute(o.endpoint) =>
          /\ stage = "loaded"
          /\ {k.type : k \in loaded.sinks} = o.sinks
          /\ \A k \in loaded.sinks : k.attest => "attestation" \in loaded.on
          /\ ("attestation" \in loaded.on) <=> (options.attestation \/ options.profile = "release")
          /\ ("gates" \in loaded.on) <=> (o.preset # "exploratory")
          /\ \A p, q \in DOMAIN Outputs(loaded) : p # q => Outputs(loaded)[p] # Outputs(loaded)[q]
          /\ \A p \in DOMAIN Outputs(loaded) : loaded.path[p][1] = loaded.text[<<"target", "name">>]

\* Loading settles: defaults change nothing in a configuration that has them,
\* so what a command writes from a loaded configuration loads as the same, and
\* they never change a number, a text or a path that the file gives, but for
\* the judge's scale of one and samples below one.  Switches are not kept: the
\* preset decides whether the gates block (defaults.go).
DefaultsSettle ==
  stage \in {"loaded", "rejected"} =>
    /\ applyDefaults(loaded) = loaded
    /\ \A f \in DOMAIN file.num : loaded.num[f] = file.num[f] \/ f \in {<<"judge", "scale">>, <<"judge", "samples">>}
    /\ \A f \in DOMAIN file.text : loaded.text[f] = file.text[f]
    /\ \A p \in DOMAIN file.path : loaded.path[p] = file.path[p]

\* What loads can run: the enabled suites have work and thresholds their
\* engines can use, the gates a history to compare with, the attestation a
\* file and a key, scenarios names of their own; whatever was left out, set to
\* zero or set wrong (validation.go).
AcceptedConfigsRun ==
  stage = "loaded" =>
    /\ TargetType(loaded, "target") \in OpenAIFamily \cup {"anthropic"} => Text(loaded, <<"target", "model">>) # ""
    /\ TargetType(loaded, "target") \in {"http", "graphql", "mcp"} => Text(loaded, <<"target", "url">>) \notin {"", "relative"}
    /\ "load" \in loaded.on => loaded.num[<<"load", "virtual_users">>] * loaded.num[<<"load", "requests_per_user">>] > 0
    /\ "drift" \in loaded.on => /\ loaded.num[<<"drift", "iterations">>] >= 2
                                 /\ loaded.num[<<"drift", "max_snapshot_drift">>] \in 1 .. 1000
    /\ "chaos" \in loaded.on => loaded.num[<<"chaos", "timeout_scale">>] > 0
    /\ "judge" \in loaded.on => /\ loaded.num[<<"judge", "scale">>] >= 2 /\ loaded.num[<<"judge", "samples">>] >= 1
                                 /\ Text(loaded, <<"provider", "type">>) # ""
                                 /\ IsPairwise(loaded) => Text(loaded, <<"baseline", "type">>) # ""
    /\ "gates" \in loaded.on => "trend" \in DOMAIN loaded.path /\ loaded.num[<<"gates", "required_window">>] >= 2
    /\ "attestation" \in loaded.on => "attestation" \in DOMAIN loaded.path /\ Text(loaded, <<"attestation", "key_env">>) # ""
    /\ \A i, j \in DOMAIN loaded.scenarios : i # j => loaded.scenarios[i].name # loaded.scenarios[j].name

=============================================================================
