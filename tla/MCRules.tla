------------------------------ MODULE MCRules -------------------------------
\* The rules of a configuration, from the setup that writes it, over changes by
\* hand, to the load that fills in defaults and validates: every profile, preset
\* and set of sinks of the setup, targets of every type with and without what
\* they need, and the numbers around the bounds of the validation.
EXTENDS Integers, Sequences, TLC

CONSTANTS Options, Targets, RuleEdits
VARIABLES ruleStage, options, ruleFile, loaded, ruleEdits
ruleVars == <<ruleStage, options, ruleFile, loaded, ruleEdits>>

Rules ==
  INSTANCE ConfigRules WITH stage <- ruleStage, file <- ruleFile, edits <- ruleEdits, Edits <- RuleEdits

ASSUME RulesAssumption == Rules!RulesAssumption

-----------------------------------------------------------------------------
\* What the setup writes is accepted and can be run (setup, ValidateConfig).
StartersRun == Rules!StartersRun

\* What the validation accepts can be run, whatever was edited, and loading
\* has settled the derived defaults at once (ValidateConfig, applyDefaults).
AcceptedConfigsRun == Rules!AcceptedConfigsRun /\ Rules!DefaultsSettle

-----------------------------------------------------------------------------
SetupOption(provider, profile, preset, sinks, endpoint, attestation, agent, edits) ==
  [provider |-> provider, profile |-> profile, preset |-> preset, sinks |-> sinks,
   project |-> IF endpoint = "" THEN "" ELSE "project", endpoint |-> endpoint,
   attestation |-> attestation, agent |-> agent, edits |-> edits]

MCOptions ==
  {SetupOption(provider, profile, preset, sinks, "url", attestation, agent, 1) :
     provider \in {"openai", "anthropic"},
     profile \in {"", "pr", "main", "release", "other"},
     preset \in {"", "strict", "exploratory"},
     sinks \in {{}, {"http", "braintrust"}, {"langfuse"}},
     attestation, agent \in BOOLEAN}
  \cup
  {SetupOption("openai", "", "typo", {}, "", FALSE, FALSE, 2),
   SetupOption("openai", "", "", {"braintrust"}, "", TRUE, FALSE, 1),
   SetupOption("openai", "release", "", {"http"}, "", TRUE, FALSE, 1),
   SetupOption("openai", "main", "", {"http"}, "relative", FALSE, TRUE, 1),
   SetupOption("anthropic", "release", "strict", {"http"}, "url", TRUE, TRUE, 2)}

OfModel(type) == [type |-> type, model |-> "model"]
Described(section, targets) == {[section |-> section, fields |-> t] : t \in targets}
HttpFields == [prompt_field |-> "input", response_field |-> "text"]

MCTargets ==
  Described("target",
    {[type |-> "http", url |-> "url"] @@ HttpFields,
     [url |-> "relative", prompt_field |-> "input"],
     OfModel("openai_compatible"),
     OfModel("azure_openai"),
     OfModel("azure_openai") @@ [api_version |-> "v1", base_url |-> "azure"],
     OfModel("vertex"),
     OfModel("gemini") @@ [api_mode |-> "other"],
     [type |-> "graphql", url |-> "url", query |-> "query"],
     [type |-> "cli", command |-> "agent"],
     [type |-> "grpc", address |-> "host"],
     [type |-> "mcp", url |-> "url", tool |-> "ask"],
     [type |-> "other"]})
  \cup Described("provider", {OfModel("openai"), [type |-> "cli"]})
  \cup Described("baseline", {OfModel("anthropic"), [url |-> "url"] @@ HttpFields})
  \cup Described("generator", {OfModel("mistral")})
  \cup Described("generation", {[app_kind |-> "bot", goals |-> "some", risk_areas |-> "some"]})

Numbers(section, names, values) ==
  {[kind |-> "num", field |-> <<section, name>>, value |-> v] : name \in names, v \in values}
Texts(section, name, values) ==
  {[kind |-> "text", field |-> <<section, name>>, value |-> v] : v \in values}
Switched(kind, sections) == {[kind |-> kind, field |-> s, value |-> ""] : s \in sections}

MCRuleEdits ==
  UNION {
    Numbers("load", {"virtual_users", "p95_latency_ms", "max_error_rate_pct", "max_cost_per_request"},
            {-1, 0, 101}),
    Numbers("chaos", {"timeout_scale", "max_error_rate_pct"}, {-1, 0, 101}),
    Numbers("drift", {"iterations", "max_normalized_drift", "max_snapshot_drift"}, {-1, 0, 1, 1001}),
    Numbers("tokens", {"max_output_input_ratio", "max_input_tokens"}, {-1, 0}),
    Numbers("judge", {"scale", "samples"}, {-1, 1, 3}),
    Numbers("judge", {"min_win_rate", "max_calibration_mae"}, {1001}),
    Numbers("reporting", {"trend_limit"}, {-1, 0}),
    Numbers("gates", {"required_window", "max_failed_cases_delta"}, {-1, 0, 1}),
    Numbers("generation", {"count"}, {-1}),
    Numbers("target", {"timeout_ms"}, {-1, 0}),
    Texts("judge", "mode", {"pairwise", "other"}),
    Texts("gates", "preset", {"", "typo", "exploratory"}),
    Texts("generation", "mode", {"adversarial", "other"}),
    Switched("switch", {"generation", "judge", "gates", "attestation", "load", "drift"}),
    Switched("unset path", {"trend", "replay", "attestation"}),
    {[kind |-> "scenario", field |-> "",
      value |-> [name |-> name, input |-> input, turns |-> turns, replay |-> replay]] :
       name \in {"happy-path", "new", ""}, input \in {"", "prompt"}, turns \in {0, 1},
       replay \in {<<>>, <<"s">>, <<"s", "s">>, <<"s", "t">>}}}

=============================================================================
