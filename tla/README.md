# Verification of cleanr

cleanr is a command line tool that tests an AI agent release: it loads a
configuration with scenarios, sends them to a target (an HTTP endpoint, an
OpenAI or Anthropic API, an MCP server, a local command), evaluates the answers
with a number of suites, keeps a history of the runs, lets regression gates flip
the verdict, writes a report with artifacts and an attestation, and returns an
exit code that a CI job blocks a merge on. This directory holds TLA+ models of
the parts of that path that are concurrent, that fail in the middle, or whose
order matters, the TLC configurations that check them, and TLAPS proofs.

## The system

| component | source | state | operations | interacts with |
|---|---|---|---|---|
| worker pool | `cleanr/engines/helpers.go` `runBoundedByIndex` | loop variable, semaphore, WaitGroup, one goroutine per case | dispatch, run, release, wait | called by the pooled suites; reads the run's context |
| response cache | `helpers.go` `responseCache` | map from request to response, mutex | lookup, store around a live call | shared by security, release-policy and token-optimization |
| suites | `cleanr/engines` | cases of one suite | one case per scenario | target, pool, cache, file system (shadow-state, claim-trace), snapshots (drift) |
| runner | `cleanr/runner.go` | report under construction | one engine after the other, verdict | suites; context of the CLI |
| run command | `internal/cli/cli_run.go` | report, artifact, attestation, warnings | the pipeline behind `cleanr run` | everything; the files are shared with the next build |
| trends | `cleanr/trends` | history file | load, compare, append, trim, rename into place; gates | run command, trend command |
| attestation | `cleanr/attest` | none | digest and sign | run command |
| target adapters | `cleanr/adapters` | HTTP client; MCP session (`sync.Once`, request id) | invoke with timeout, retry, backoff | suites, on many goroutines |
| suite evaluators | `cleanr/engines` (assertions, llm-judge, provenance, claim-trace, release-policy, memory-safety, shadow-state) | samples, traces of earlier sessions, digests of files | judge an answer | suites; judge targets; file system |
| plugins | `cleanr/plugins` | loaded manifests, wasm or process runtime | wrap the target, run a suite | runner |
| configuration | `cleanr/config`, `cleanr/core` | configuration files, policy packs | overlay, decode, default, validate, write | all commands |
| snapshots | `cleanr/snapshots` | baseline file | capture, load | drift suite |
| report writers | `cleanr/report` | none | text, JSON, JUnit, SARIF, agent, HTML | run command |
| dataset review | `cleanr/integrations/review*.go`, `internal/cli/cli_dataset*.go` | dataset, review, merged configuration | rank, decide by policy, option or hand, merge, gate | generation, run artifacts, configuration |
| Braintrust sync | `cleanr/integrations/braintrust*.go`, `internal/cli/cli_sync*.go` | insight file, dataset file, configuration, git branch | fetch, write, patch, publish | remote experiments, git, `gh` |
| other integrations | `cleanr/integrations/runtime` | none | publish reports, import trends | run and trends commands |
| scenario generation, OpenAPI | `cleanr/generation`, `cleanr/openapi` | none | build scenarios | generate command, dataset review |
| profile store and setup | `cleanr/profile`, `internal/cli/setup` | developer profile file, generated configuration | load, update, save, generate | every run looks up its key |
| watch | `internal/cli/cli_watch.go` | file snapshot | poll, run again | run command |
| MCP server | `internal/mcpserver` | session (initialized or not) | JSON-RPC over stdio | runs suites on behalf of an agent |
| developer tools | `internal/devtools`, `cmd` | none | build, lint, release | none at run time |

What is hard in it: the workers of a pool write one shared slice while a
cancellation may come between any two of their steps; suites that share a cache
must judge one answer; a run that is cut short must not look like one
that passed; every file the run command writes may fail, or the process may be
killed, between any two of them, and the next build reads what is there; the
gates flip the verdict after part of the bookkeeping has been done; a target
retries under a deadline that it must neither overrun nor waste; an answer
arrives in pieces that may be garbled, interleaved or cut; many workers share
one handshake; an agent goes on writing files after its answer; a judge prefers
whatever comes first; configuration files refer to packs that refer to others;
two setups write one profile; a sync stops between two of its files, and is
repeated; a build is compared with a history that kept only part of what it
saw. PROJECT.json lists these hazards one by one, each at its line.

What makes each component correct:

- *worker pool*: never more calls at a time than the limit; the caller gets
  control back, always, and only when no call is open; what it then finds is a
  prefix of the cases, all of them unless the context was cancelled; the number
  of calls that start after a cancellation is bounded.
- *response cache*: one live call per scenario; all suites judge one answer.
- *runner*: a suite whose pool was cut does not pass; an uninterrupted report
  misses no suite and no scenario.
- *run command*: the exit code, the report on disk, the artifact, the
  attestation and the history tell one story, or the exit code is not 0; gates
  fail closed.
- *trends*: the file is always a whole history; it changes only by a build that
  succeeds in writing; without overlap it is exactly the latest runs.
- *targets*: a request is repeated only when the last attempt earned it and the
  pause has passed; a failure is visible to the suites; an answer without a
  finding is whole; a handshake precedes every tool call and happens once.
- *load suite*: every request is counted once; the verdict is that of the
  budgets whatever the order; the suite ends.
- *watch*: a run never triggers itself; a change after the snapshot is noticed.
- *suite evaluators*: a pass is earned: by every sample, by a majority of the
  judges in both orders of the answers, by the changes the agent itself made;
  what else the agent did never hides a finding; verdicts do not contradict
  each other.
- *plugins*: all the evidence or an error.
- *MCP server*: every request has one answer, in order; no suite runs before
  the session is open; every line is handled.
- *configuration*: what is loaded is what the nearest file says; what is written
  loads as it was; what is accepted can be run; defaults settle at once.
- *profile store*: setups that do not overlap lose nothing; an unreadable file is
  left to its owner; a generated configuration finds its key.
- *dataset review*: only what is approved is merged; the gate judges the review
  that was written; generated scenarios replace none.
- *sync*: what is published is of this run; what wants a review is not applied
  without an approval; a second sync changes nothing.
- *trend comparison*: the report and `cleanr trends` tell one story, also of
  imported histories.

## Modules

| module | models | built on |
|---|---|---|
| `BoundedCalls` | the contract of `runBoundedByIndex`: calls in order, a bound, quiet at the end | |
| `CasePool` | `runBoundedByIndex`, line by line | refines `BoundedCalls` |
| `Runner` | what `Runner.Run` promises: suites one after the other, a suite is one step | |
| `SuiteRun`, `MCSuiteRun` | the run with its pools, its loops and the shared cache | extends `CasePool`, refines `Runner` |
| `SuiteRunProofs` | theorems about `CasePool`, `SuiteRun` and their refinements | extends `SuiteRun`, which extends `CasePool` |
| `RunCommand`, `MCRunCommand` | `executeRunCommand`, build after build | extends `Runner` |
| `RunCommandProofs` | theorems about `RunCommand` | extends it |
| `TrendHistory` | the trend file under several processes | |
| `HttpTarget` | `doWithRetry` and its caller | |
| `StreamTarget` | from the body or event stream to text and tool calls | |
| `McpTarget` | the handshake, the ids and `tools/call` | |
| `PluginTarget` | the adapters and probes behind a call | |
| `MCTargets` | one call of each of the four | extends `HttpTarget`, instances of `McpTarget`, `PluginTarget`, `StreamTarget` |
| `TargetsProofs` | theorems about `MCTargets` | extends it |
| `LoadSuite` | virtual users, channel, summary and budgets | |
| `ShadowState` | files before and after a call, and an agent that writes | |
| `JudgeVerdict` | llm-judge: samples, both orders, consensus, verdict | |
| `TraceEvidence` | release-policy, provenance and claim-trace over a growing trace | |
| `JsonValues`, `Assertions` | answers as trees, assertions over them | |
| `MemorySafety` | sessions that leave memories for later ones | |
| `MCEngines`, `MCJudgingInputs` | one case of each of these suites | extends `LoadSuite`, instances of the others |
| `EnginesProofs` | theorems about `MCEngines` | extends it |
| `Watch` | run, snapshot, poll, compare | |
| `McpServer` | the JSON-RPC loop over stdin | |
| `ProfileStore` | the provider profile under several setups, the key of a run | |
| `ConfigLoad` | packs, plugins, overlay, decoding, writing | |
| `ConfigRules`, `MCRules` | setup's configuration, edits, defaults, presets, validation | |
| `MCServices` | the two commands that go on until they are ended, and the rules of what they load | extends `Watch` and `MCRules`, instance of `McpServer` |
| `ServicesAndRulesProofs` | theorems about `MCServices` | extends it |
| `ScenarioData` | scenarios, datasets, merging, naming | |
| `DatasetReview` | `dataset` and `generate`: make, rank, decide, write, merge, gate | extends `ScenarioData` |
| `ConfigPatches` | a configuration, and the patches of a sync | extends `ScenarioData` |
| `SyncCommand` | `sync braintrust` with its files and its pull request | extends `ConfigPatches` |
| `ScenarioProofs` | theorems about `DatasetReview` alone, lemmas about patches | extends `DatasetReview`, `ConfigPatches` |
| `TrendCompare` | history runs, comparison, gates, analysis, replay artifact, import | |
| `MCProject`, `MCConfigInputs`, `MCScenarioInputs`, `MCTrendInputs` | what a project keeps on disk | extends `TrendHistory`, instances of those above |
| `ProjectProofs` | theorems about `MCProject`: history, profile, sync, review | extends it, an instance of `ScenarioProofs` |
| `TrendCompareProofs` | theorems about `MCProject`: the comparison of builds | extends it |

A module `MC...` that combines several has a variable `about`: a behaviour is
about one of the components and leaves the variables of the others at an initial
state, so the state space is the sum of theirs and not the product. The
components combined there share no state; those that do (pool, suites and
runner; runner, run command and trend file; generation, review and merge) are
composed for real in `SuiteRun`, `RunCommand` and `DatasetReview`.

**CasePool.** `dispatcher` is the position of the caller's goroutine, `next` its
loop variable, `sem` the tokens in the channel, `wg` the counter of the
WaitGroup, `job[i]` the position of goroutine i. `Admit` and `StopDispatch` are
the loop head with its reading of `ctx.Err()`, `Spawn` is the send on the
semaphore with `wg.Add` and `go`, `FnStart`/`FnReturn` the call of `fn`,
`Release` and `WorkerDone` the two deferred calls in the order Go runs them,
`WaitReturn` is `wg.Wait` and the return. `SerialCall`/`SerialReturn` are the
path for one worker. The check of the context and the wait for a token are two
steps, which is where a cancellation can be missed.

**SuiteRun.** A suite of kind `"cached"` or `"direct"` runs its cases on the
pool, with or without the cache; a `"looped"` or `"tolerant"` one runs them on
the goroutine of the runner, the latter against an error rate (chaos).
`Lookup` and `Store` are the two critical sections of `responseCache.invoke`,
`InvokeBegin`/`InvokeEnd` the live call between them. A response is `Good`,
something wrong, or `Failure`; a slot that was never written is `None`. `fn`
follows a case through the body of its suite. `Runner` is the same run with one
step for each suite; `ImplementsRunner` is the refinement.

**RunCommand.** One action per stage of `executeRunCommand`, in its order: run,
attach the trend, gates, replay artifact and attestation in memory, publish,
write the report, the artifact, the attestation, the side outputs, exit. A
failing write appends a warning, or ends the command where the code returns.
`Kill` takes the process at any stage and leaves `disk` and `history` for the
next build. The files are abstracted to the verdict, failures and duration they
record and to the report they were built from.

**TrendHistory.** `LoadOrInit`, append and trim in memory, `os.CreateTemp`,
write, rename, each a step that may fail or be the last one of its process.

**HttpTarget.** `pc` follows `doWithRetry` and then the reading of the body;
time is a clock in ticks of 100 ms that may advance between any two steps;
`answer` is `lastResp`. The jitter of the backoff is a choice over its range.

**StreamTarget.** The server is the environment: it sends the pieces of an
answer in order, those of several tool calls interleaved, may garble one or give
it another form, may report an error, and the connection may end at an event,
within one or with an error; or it sends one body, which may not decode or have
the text or the tool calls elsewhere (`Bodies`). The HTTP target comes with and
without a `response_field` (`bareHttp`), which decides what its loop counts, passes
over and takes for text (`HttpStep`, `PassedOver`, `TakenAsText`). `parseSSEStream` reads to the end before the loop over the events begins;
since nobody sees how far that loop is, the model takes each of its steps when
the event arrives and keeps what it has made so far in `parsed`. `Assemble` makes
the response of that. What the body of an HTTP target reports of a stream behind it
(http.go:491) is left out.

**McpTarget.** `EnterFirst`/`EnterOther` is the entry to `initOnce.Do`; the
others wait inside it. `Initialize`, `Notify` and `Call` are the posts;
each may answer, answer with a JSON-RPC error, fail, or run into the deadline of
the call that made it.

**LoadSuite** and **Watch** follow the code in the same way: a step per
iteration of a user's loop, per send and per receive; a step per run, listing,
visit of a file and comparison. Rates are compared as the code rounds them; an
exact half may fall on either side (`Ties`), as it does in floating point.

**PluginTarget.** `chain` holds the adapters of all manifests and then all their
probes (`RunsBefore`); an entry is started with the response as the earlier ones left it, may
answer, fail, or be overtaken by its limit or by the context of the call. A
WebAssembly entry does not end with its limit, since its runtime is not told to.

**ShadowState.** The suite walks the files one after the other, in the order of
`Paths`, before and after the call, and the agent may write at any step, also between two files of a walk.
`touched` and `late` remember who wrote what and when; the suite does not see
them, the property does.

**JudgeVerdict.** A judge is asked sample by sample, in pairwise mode in both
orders; it answers with a score or a slot, nothing that can be read, or an
error. Quorum, calibration, cascade, consensus and verdict are operators over
the samples.

**TraceEvidence.** The agent adds one call, change, approval or phrase at a time;
the findings of the three suites are functions of the trace so far, so that an
action property can compare the findings before and after.

**Assertions, MemorySafety.** One assertion and one session is a step. An answer
is a tree (`JsonValues`) that is nested at most `MaxDepth` deep; a canary is made
of the name of the step or its session and of the source it was planted in, so
that two sessions have different ones (the validation wants distinct names).

**McpServer.** `Serve` is one iteration of the loop: read a line, handle it,
write the answer. The client may send any line at any time, end its side, also
within a line, or stop reading.

**ProfileStore.** `UpsertProvider` is a read, a change in memory and a write in
place, which truncates first, each a step of its setup that may fail or be the
last; the profile may have been written by hand. `LookupAPIKey` is what a run
with the generated configuration finds.

**ConfigLoad, ConfigRules.** `ConfigLoad` has files that refer to packs and
plugins and the leaf fields they set, and says which value wins; `ConfigRules`
has the fields themselves, with zero values left out as the Go structs have
them, and every default and rule that relates one field to another. An edit of a
file is a step, so what was accepted once is loaded again after it.

**DatasetReview.** `MakeDataset` (export), `GenerateAuthoring`, `DatasetImport` and
`LoadReviewContext` are the commands; a reader then decides line by line or on
the screen, where every decision sorts the entries under the cursor; the review,
the merged configuration and the gate are three further steps.

**SyncCommand.** A step for the fetch, each of the files, the branch, `git add`,
commit and pull request, each of which may fail; a later run finds what was left.

**TrendCompare.** A build appends its run and is compared with the one before;
the same runs may come from an external source in one of the layouts the import
knows; `cleanr trends` analyses the window.

Operators named `...` after the comment `Mutant:` are wrong versions of the
definition below them, with the bug that the comment names. They are no part of
the model; the property that PROJECT.json names must fail with them.

## Runs

Each run asks one question of a part of the system. Its properties are the
conjunctions that the component modules define and comment one by one.

| run | instance | states | shows |
|---|---|---|---|
| `pool` | 4 cases, limit 2, a cancellation at any point | 1,700 | what the caller finds, late calls, termination, refinement of `BoundedCalls` |
| `suites` | 2 scenarios, 4 suites (cached, tolerant, direct, cached), 3 responses, 1 or 2 workers | 133,000 | one live call and one answer per scenario, no gap in an uninterrupted report, refinement of `Runner` |
| `builds` | 2 builds of 2 suites, 3 configurations, history of 2, window 2 | 587,000 | exit code, report, artifact, attestation and history agree; failures surface; gates fail closed |
| `targets` | HTTP: 3 attempts, budget 0.7 s; MCP: 3 callers; 6 chains of plugins; streams of 2 pieces and 2 calls of 2 fragments in every API, HTTP with and without a response field, 1 event garbled | 836,000 | retries, bodies, handshake and ids, evidence of plugins, what an answer may lack, termination |
| `engines` | load: 2 users with 2 requests; shadow: 2 scenarios, 2 files, 2 writes; judge: both modes; traces of 2 steps; answers of two levels; 3 sessions | 1,100,000 | what the suites make of answers |
| `services` | watch: 2 files, an output that is not ignored, 3 edits, 3 runs; server: 3 lines; rules: 365 setups, one change by hand after each, two after two of them | 605,000 | no self-triggering, changes and lines are handled; what setup writes and what is accepted runs |
| `project` | 3 commands on a history of 2; 2 setups of 2 providers; trees of up to 5 files; 1 edit of a review; 2 syncs; 3 builds | 203,000 | what a project keeps on disk |
| `partial_run` | as `builds` | | counterexample: an interrupted run exits 0 |
| `http_last` | budget 0.4 s | | counterexample: the last answer is lost |
| `packs` | as `project` | | counterexample: packs of a plugin's file are not beside it |
| `merge` | as `project` | | counterexample: an empty review empties the configuration |
| `gate` | as `project` | | counterexample: a new failure passes the strict gate |

PROJECT.json names for each property of each passing run at least one plausible
bug of the code with which the property fails, and more for the conjunctions of
several parts.

*Why the bounds are enough.* With 4 cases and limit 2 the pool is full, drains
and fills again, and a cancellation meets every combination of a waiting
dispatcher and workers in different phases; the theorems cover every number.
Two scenarios and two workers are the least with which two cases of one suite
overlap; the first and the last suite share the cache. Two builds are the least
in which one reads what the other left, and a limit of two with three processes
makes the history trim. Three callers of the handshake make one that performs
it and two that wait and wake in either order. Two fragments of two calls
give every interleaving that confuses them. In the HTTP model a budget of 7
ticks lies between the shortest and the longest sum of two pauses. The load
suite has a rate, a percentile and a rate of tokens that each fall on both sides
of their budget. Two scenarios and two files are the least in which a write
after the first answer is seen by the second case, and in which it falls between
two files of one walk. The chains of plugins have up to three entries, so that
one can fail between two. A trace of two steps has one that matches and one that
does not; three sessions are a writer, a reader and one between. Two setups of
two providers overlap in every way; a tree of five files has a main file, a
plugin, packs of both and a pack that names a further one. One edit of a review
follows every rule and option; one change of a configuration sets each field to the
values around its bound, two combine a switch with a number; two syncs are the least that repeat; three builds
make a pair of neighbours with one trimmed before it. Inputs that are
enumerated (options, rules, reports, layouts) are listed in `MCRules` and the
`MC...Inputs` modules, each with the comment that says why it is there. Named bounds
(`MaxClock`, `MaxEdits`, `Builds`, `MaxRuns`, `MaxText`, `MaxArgs`, `MaxNoise`,
`MaxSteps`, `MaxDeeds`, `MaxDepth`, `Lines`) are constants of the modules and stated there.

*Fairness.* Liveness is claimed where something goes on by itself, and a
runnable goroutine gets to run: weak fairness of each step of the pool, of a
target's caller, of a virtual user, of the loop of watch and of the server's
loop. Time passes (`Tick`), the limit of a plugin's process expires (`Expire`) and
what was overtaken by it is killed (`Killed`, as `exec.CommandContext` does; without
a `WaitDelay` the call at plugins/runtime.go:268 also waits for a grandchild that
holds the standard output, and `Killed` assumes there is none), and
`client.Do` returns once its context has ended, as `net/http` promises. Nothing
is assumed of a cancellation, of the target, of an agent, an editor or a client,
nor of a kill. In the pool weak fairness of the function body stands for the
deadline every target call has, and in `SuiteRun` for that of a live call. A
WebAssembly plugin has no such deadline, so `EndsWithoutWasm` claims nothing for
chains that run one. The runs about files (`builds`, `project`), rules and streams state
safety only: a command that stops in the middle is a behaviour they allow.

Deadlock checking is off in each run because each modelled program ends; where
it matters that it ends, and not in the middle, the run has a liveness property.

## Theorems

`SuiteRunProofs` proves of the pool alone, for every `Count` in Nat and every integer `Limit`
(assumption `PoolAssumption`; the code replaces a limit below 1 by 1):

- `PoolTypeCorrect`: `Spec => []TypeOK`
- `PoolWithinLimit`: never more calls of `fn` open than the limit
- `PoolAccounting`: semaphore and WaitGroup count exactly the goroutines that
  hold a token and those not yet done
- `PoolQuietPrefix`: what the caller finds on return
- `PoolLateCallsBounded`: at most limit + 1 calls enter `fn` after a
  cancellation, one on the serial path
- `PoolImplementsContract`: `CasePool` implements `BoundedCalls`

The first three are proved only; the run `pool` checks the others too, and the
limit as a part of the contract.

The type invariant is not inductive: that `sem` and `wg` stay natural numbers
depends on which goroutines have yet to give back. `PoolInv` adds: what the
dispatcher has established at each point (`DispatcherInv`), which cases have
been called (`PrefixInv`), the exact state on the serial path (`SerialInv`),
`sem` and `wg` as cardinalities of sets of goroutines (`ParallelInv`), and the
number of late calls together with those that could still become late
(`LateInv`). Each action has a lemma; lemmas on `Moves` say how the cardinality
of a set of goroutines changes when one of them moves on. The refinement maps
`open` to the cases whose goroutine exists and has not written its slot, and
every step to a step of `BoundedCalls` or a stutter.

It proves of the run, for any suites, scenarios, workers and responses
(`SuitesAssumption`, `ResponsesAssumption`, and `PoolAssumption` for its pools):

- `RunHasOneAnswer`: one live call per scenario, every cached suite judges its
  answer, and a report that was not interrupted has no gap
- `RunImplementsRunner`: pools, loops, cache and cancellation together implement
  `Runner`, in which a suite is one step

`RunInv` takes the pool's invariant over for the suite that is running
(`PoolPhaseInv`) and adds where each case is on its way (`CaseInv`), what the
cache holds and who is about to fill it (`CacheInv`), the suites that loop on the
goroutine of the runner (`LoopInv`), and what a finished suite has left in the
report (`CompleteInv`). The refinement maps every step inside a suite to a
stutter and its end to a step of `Runner`.

`RunCommandProofs` proves, for any number of builds with any configuration,
durations and suites (`CommandAssumption`, `NothingAssumption`,
`RunnerAssumption`), with writes that fail and kills at any stage:

- `CommandHasOneVerdict`: exit code, report, artifact and attestation agree
- `CommandSuccessIsDurable`: exit 0 means that everything asked for is on disk
- `CommandGatesFailClosed`: with gates configured a build passes only when they
  were evaluated on a history that was read

The properties are about the files after the command. `CmdInv` says what is true
of them and of what is in memory at each stage of the pipeline: the report as the
suites, the trend and the gates have left it (`ReportInv`, `GatedInv`), the
artifacts built from it (`ArtifactsInv`), what has reached the disk (`DiskInv`) and
which exit codes are still possible (`ExitInv`). Everything an earlier build left
is universally quantified in it.

`TargetsProofs` proves the safety properties of the run `targets` of its
specification `TargetsSpec` (`TargetsAssumption`, `HttpAssumption`):

- `TargetsSessionIsInOrder`, `TargetsCleanCallsReachTheTool`: for every set of calls
  of `Invoke`
- `TargetsRetriesAndBodies`, and `HttpBodiesAndFailures` of the HTTP target alone,
  for every deadline, set of statuses and of Retry-After: a request is repeated at
  most twice, only after a transient failure and the pause it asked for, and one
  that was given up did not fit; no body stays open; what the suites take for an
  answer is the whole of the last one
- `TargetsEvidenceIsAllOrNothing`: for every set of manifests
- `TargetsCleanAnswerIsWhole`, `TargetsArrivedIsInPlace`: for every number of pieces,
  calls, fragments and garbled events; the first says exactly which pieces a clean
  answer may lack, and proves that nothing else is missing from it

The properties of an MCP session speak of what is on the wire once calls are made;
inductive is what leads there (`SessionInv`): nothing is posted, counted or returned
before the handshake ends (`HandshakeInv`), the handshake has id 1, every call a
later one of its own that stays its id once it is on the wire (`IdInv`), and no
result is there before the outcome of the handshake (`ResultInv`).

`CallInv` says how the log follows the loop (`LogInv`), that the pause that is
running or over is the one the last answer asked for (`PauseInv`), that who gave up
had to (`BudgetInv`), and whose body is open (`BodyInv`). `PluginInv` says whose turn
it is (`TurnInv`) and that the state is what the entries before it have added
(`EvidenceInv`). `StreamInv` compares what has been parsed with what was sent, apart
from what was garbled, passed over or taken for text, for the text (`TextInv`), each call (`CallsInv`), the marks of
the end (`MarksInv`, `CompletionInv`) and a body that is no stream (`BodyEventInv`).

`EnginesProofs` proves every safety property of the run `engines`, for any values of
the constants (`LoadAssumption`, `EnginesAssumption`):

- `EnginesVerdictIsOfAllSamples` (load): the verdict is of all samples, each of one
  request, and passes exactly when the budgets hold of them. `LoadInv` places
  every request with its user, in the channel or in the summary (`UserInv`,
  `SentInv`); the lemmas about rounding say that comparing the rounded rate with
  the budget and comparing the counts agree, on either side of a tie.
- `EnginesMutationsAreEarned` (shadow-state): `ShadowInv` relates what each walk
  has seen so far to what has been written before and since (`FirstWalkInv`,
  `CallInv`, `SecondWalkInv`).
- `EnginesReplaysAreReported` (memory-safety): what is traced is what the earlier
  sessions wrote (`TracedInv`), and the findings are what the history blames
  (`BlameInv`).
- `EnginesMoreTraceMoreEvidence`, `EnginesNoFindingMeansExact` (release-policy,
  provenance, claim-trace): an action property of a trace that grows, from one
  lemma of monotonicity per rule; and that the greedy matching of expected with
  observed changes, when it leaves no finding, is one to one.
- `EnginesJudgedPassIsEarned` (llm-judge): `JudgeInv` counts readable samples and
  decided pairs against the log (`ScoresInv`, `OrdersInv`). `MedianHasAHalf` and
  `SharesGrow` give the samples behind a scored pass, `MajorityIsAWinner` that what
  the judges of a sample decide is a slot or a tie.
- `EnginesAssertionsAgree` (assertions): `AssertInv` says that the findings are the
  assertions so far that do not hold; `ImpliedHolds` and `ExcludedFails` compare two
  assertions on one answer, over lemmas that follow a path step by step
  (`PathStepByStep`) and a value level by level (`NarrowerAcceptsLess`).

What a helper computes by recursion over a list (the matching of changes, the
majority of judges, a path, the levels of a value) is a recursive function here. That
such a function exists, and what it returns, follows from the least argument for
which it would not (`LeastNumber`, `Recursion`), which stands for the induction
theorems that the provers cannot instantiate.

`ServicesAndRulesProofs` proves, for any files, edits, runs and lines (`WatchAssumption`,
`ServicesAssumption`):

- `ServicesRunsFollowEdits`: every run but the first follows an edit of its own, and
  only what changed during a run stays unnoticed
- `ServicesAnswersAreTrue`: each handled request has one answer, in order; suites
  run only in an open session, once for a request; the answer has their exit code

That edits are counted against runs is inductive with `EditsInv`: as long as there
are more runs than edits, what any walk has seen is what there is; and `TestedInv`
says at each point of a walk which files are in it as they were tested. `ServerInv`
has what is due for the lines handled so far (`DueInv`), when the session was opened
(`OpenedInv`) and which runs the answers speak of (`VerdictsInv`, `ExitsInv`).

It also proves, for any options of the setup, any targets and any number of edits of
any fields (`RulesAssumption`: a number that is written into a file is one):

- `RulesDefaultsSettle` (a part of `AcceptedConfigsRun`): the defaults change nothing in a configuration that they have
  filled, and replace no number, text or path that the file gives, but for a scale and
  samples that the judge cannot use
- `RulesAcceptedConfigsRun`: that, and what loads has the model and address of its target, users
  and requests to divide by, thresholds in their range, the paths and keys of gates and
  attestation, and scenarios with names of their own

The invariant (`RulesInvariant`) is that a file is `WellFormed`, that what was loaded is
the file with its defaults, and that what was accepted has no error. The first theorem
goes stage by stage: for each stage of the defaults a predicate says what it fills
(`TargetFilled`, `JudgeFilled`, `ReportingFilled`, ...), a lemma (`...IsFilled`) that
it holds afterwards and that the stage changes nothing where it holds before, and a
lemma (`...Stays`) that the later stages leave it true, as they fill other sections
(`Stays`). So all predicates hold at the end (`AllFilled`), and then every stage has
nothing left to do (`FilledIsSettled`). That fails if a stage derives its values from
fields that a later one still fills; drift's snapshot budgets are derived within one.
The second theorem needs this, and that no default is zero (`DefaultsWhole`): the
rules reject negative numbers, and only the defaults exclude the zeros between.

`ProjectProofs` proves, of what a project keeps on disk and of any values of the
constants (`TrendAssumption`, `ProjectAssumption`):

- `ProjectHistoryIsExact` (trend history): the file stays one that loads, only a
  success changes it and keeps what the limit allows, and without overlap no run is
  lost. `HistoryInv` relates what each command has in memory to its stage
  (`StagesAgree`) and every number in the file to a command that ran
  (`RunsAreThere`); the lemmas about suffixes say what appending and trimming keep.
- `ProjectProfileIsExact` (profile store): setups that do not overlap lose no
  provider, a generated configuration finds its key, and what does not decode is left
  alone. A profile that is saved depends on what was read before, so `SavingInv` says
  of every setup that has loaded which profile it will write when nobody else has
  written since, and `WantsInv` whose provider it stores; `ReadyInv` is the property
  and that the profile can be read. Providers written by hand may share a name or
  have none: `ReadIsAFile` and `CanBeRead` say what normalizing keeps of them.
- `ProjectPublishedIsThisRun` (sync): what is published is what this run fetched, and
  nothing that asks for a review is applied without an approval. Nothing is assumed
  of the files, branches and staged changes that earlier runs left; `WrittenInv` says
  stage by stage which files are by now those of this run, and `FetchedInv` which
  experiment they come from. `FetchedKeepsReview` follows the review flags through
  the merging of replay and insight.

- `ProjectReviewIsTheWrittenOne`, `ProjectMergedIsReviewed` (dataset review), for any
  configuration with unique names, any dataset, policy, options and edits: the exit
  code is the gate's word on the review that was written; rules that only tag decide
  nothing; a screen that ends with the last entry has shown every candidate; what is
  merged is the base with the approved scenarios in their places or at the end; a
  generated dataset replaces no scenario.

The last two come from `ScenarioProofs`, which proves them of the review alone
(`ReviewIsSafe`, `MergeIsReviewed`, `GeneratedReplacesNothing`), from `ReviewAssumption`:
the names of a loaded configuration are unique, as its validation demands, and what
is read from files has the types of the Go structs. A dataset from a file may hold
a name twice. The properties speak of the review as it was written and of the screen
at its end; what leads there is inductive (`ReviewInvariant`): the entries stay a
ranked list of the dataset's scenarios whatever is edited, because an edit leaves
what they are ranked by alone, the counts are those of the decisions whenever the
session is left, the entries shown are those down to some place at or below the
reader's (`ReviewInv`), the file holds the review in memory (`FilesInv`), and no
scenario of a generated dataset has a name of the configuration it was generated for
(`DataInv`). That the last place on the screen is reached only when all were shown
rests on a decision leaving the order as it is: sorting a sorted list changes
nothing (`Sorted`). Merging is a fold; what it returns is proved for the prefixes of
the list, one after the other, by induction over a set of numbers (`UpTo`), for which
the library's well-foundedness of finite sets is enough. In `ProjectProofs` each
operator of the review has two names, of `DatasetReview` and of the theorems about
it, and the lemmas `Same...` say that they are the same.

- `ProjectSyncTwiceIsSyncOnce` (sync): what is fetched, applied once more to what it
  was applied to, changes nothing, for any configuration with unique names
  (`SyncAssumption`), any experiment and any options.

This one is about two folds, the merging of scenarios and the patches, and
`AppliedTwice` of `ScenarioProofs` proves it of them. Merging again may put back the
tags that a patch had changed, so the second run of the patches does not start from
where the first one ended. But the two configurations differ in tags only (`Alike`),
and field by field a second run meets the first: a patch that sets a field makes both
runs equal from there on (`SetsMeet`, `ListsMeet`), and where all patches only append,
the second run starts with the tags of before or of after and ends with the same
(`Collects`). `FetchedIsListed` says that what an experiment and the replay give
is of the kind the lemma asks for.

`TrendCompareProofs` proves, of any reports in which a suite and its cases have
names of their own (`BuildsAssumption`), any limit and any number of builds:

- `ProjectTrendsTellOneStory`: the deltas of all builds add up to the difference
  between the last and the first, whatever the limit trims; the trends command says
  of the last two what the last report said; where more cases of a suite fail one is
  named that did not fail before; every failing case is in a bucket and has its entry
  in the artifact. `KeptInv` says that the history is the latest builds and
  `ReportInv` what the last report was compared with. `MoreFailuresNameANew` is a
  pigeonhole argument on names, `ArtifactHoldsFailures` a bijection from failing
  cases to entries.
- `ProjectImportedComparesAlike`: a source that embeds all the builds, in any form
  and order, is compared like the trend file. `RemoteInv` says which builds an export
  holds; `ByTimeIsInOrder` that ordering them by their times gives the builds back.

Only model-checked:

- liveness (`Returns`, `TargetsReturn`, `LoadReturns`, `ChangeIsNoticed`,
  `EveryLineIsHandled`) and what depends on ENABLED: the prover has no rules for
  fairness here;
- `LoadIsExact` of the run `project`: what a recursion over trees of files returns,
  which needs an induction over the trees;
- `StartersRun` of the run `services`: what setup writes is computed from a few options,
  all combinations of which the run tries.

## What the models say about the code

Five runs end in a counterexample.

- `partial_run`: `Runner.Run` leaves the loop over the engines when the context
  is done (runner.go:51) and takes the verdict over the suites that ran. A run
  that is interrupted after suites that passed is reported as passed, and exits
  0, which docs/ci.md:7 explains as "all suites passed".
- `http_last`: `doWithRetry` closes the body of a 429 or 503 before it knows
  whether the pause fits the deadline (http.go:59); when it does not, the caller
  reads from a closed body and reports a read error instead of the answer that
  the comment at http.go:36 promises.
- `packs`: `overlayPluginPolicyPack` deletes only the key `plugins` of a plugin's
  file (config/io.go:378), so `policy_packs` in it keep their relative paths and
  are looked for beside the main configuration, unlike docs/configuration.md:151.
- `merge`: `MergeDatasetIntoConfig` sets the scenarios to nil for an empty dataset
  (datasets.go:158), so a review in which nothing was approved removes every
  scenario of the configuration it is merged into.
- `gate`: the gates compare numbers of failures (gates.go:60), so a build in which
  one case is fixed and another newly broken passes the gate that
  docs/configuration.md:999 says blocks on any new failed case.

Other observations, made while modelling and left out of the properties, which
say what does hold.

*Runs and trends.*

- Two overlapping runs on one trend file: the later rename drops the run of the
  earlier one (trends/runtime.go:20), although docs/configuration.md:950 says
  each run is appended. `SerialHistoryIsExact` is about runs without overlap,
  `HistoryStaysWhole` about all.
- `trend_limit: 0` becomes 30 (config/defaults.go:254) while the hint of the
  validation (validation.go:521) offers 0 to disable trimming. With `trend_limit: 1`
  the window of the gates never fills and the gates are off without a word.
- The run that is retained has the verdict before the gates, and a build that
  they block becomes the next baseline, so a regression breaches them once.
- A suite that disappears is not listed, and a case that passes without evidence
  is not retained, so that it looks new when it fails and is never "improved".
- A payload whose records have `generated_at` is taken as native history, and a
  cleanr report embedded in it is ignored, unlike docs/configuration.md:263;
  records with counters only have no suites, so none of them can regress.
- The attestation digests the report before the integrations are added
  (cli_run.go:94), so its digest is not that of the file when sinks are
  configured. `OneVerdict` compares the two up to the integrations.
- docs/ci.md:354 lists `CLEANR_TREND_GATE_PRESET`, which `setup --ci` does not read.

*Targets.*

- Of an answer without findings, on a stream that completes without an error, the
  following may be missing (`LostInSilence`, `CallsLostInSilence`): a piece of
  an HTTP stream whose data does not begin as an object, since
  `shouldCountHTTPStreamParseError` passes over it (http.go:549); content of
  a chat stream that is neither text nor a list of parts; the text of a body with
  tool calls that is not where it is looked for, since `responseFindings` ignores
  the extraction error beside a tool call (helpers.go:109); the tool calls of a body
  that does not decode or has them in another form (`decodeStructuredSlice`).
  Without a `response_field`, which loading requires and `NewHTTP` does not, data
  that has no text is itself the text (http.go:530), and with one a body that
  does not decode is (http.go:413) (`JunkTaken`).
- A stream that is cut after the line `event: response.completed` is
  `completed` and has no tool calls (`EndWithoutData`); an error event followed
  by `[DONE]` is a complete stream (`FailureIsOverridden`); a stream that is cut
  anywhere else produces no finding either, only the completion state `eof`; and
  a chat stream that lost an event keeps its extraction error although the
  stream counts as recovered.
- The WebAssembly runtime is made without closing on a done context
  (runtime_wazero.go:24), so a module that loops ignores its limit.

*Suites.*

- A load test of a target that sets no status (`cli`, `grpc`) counts each of its
  successful requests as an error (load.go:109).
- In score mode a judge that fails after some samples may still pass a case, in
  pairwise mode it may not; the cascade margin has no effect in pairwise mode.
- Every artifact, a rejected one included, supports a claim of approval; tool
  names of provenance are compared exactly, those of policies without case.
- Expected changes take the first observed change that fits, so that changes that
  a better assignment would cover can yield a finding: `NoFindingMeansExact` is
  one direction only, unlike docs/configuration.md:582. Expected mutations of
  shadow-state with one path and kind are taken as one.
- JSON schema assertions know no `integer` and no list of types, and take a null
  `const` and an empty `enum` for absent; latency and exit code are satisfied by
  the zero of an answer that has none.
- A session that overwrites a planted key with a clean value still has the later
  reads of it reported.

*Configuration and setup.*

- `applyOpenAITargetDefaults` gives every empty base URL a default
  (defaults.go:324), which is OpenAI's for `azure_openai`, `vertex` and `bedrock` too,
  and a file is validated after the defaults: the rule that these need a base URL
  (tests/config/validation_additional_test.go:93, which calls the validation alone)
  never rejects a file.
- Packs of a plugin override those of the main configuration, and a configuration
  written elsewhere keeps relative references; an explicit zero of a field with
  `omitempty` is lost when the file is written.
- A scale of at most 1 and a sample count of at most 0 are replaced without a
  word; `RequireReview` and `MCP.Initialize` cannot be false; the exploratory
  preset switches off gates that were switched on; the check of the header of an
  `openai_compatible` target is never reached.
- Two overlapping setups lose the provider of one, and a kill while the profile is
  written, in place, loses all of it.

*Datasets and syncs.*

- What is compared does not include every field: a scenario that is "unchanged"
  may still change the configuration when it is merged, and one that was merged
  is reviewed again as "modified"; scenarios of several turns share a key.
- The promoting options approve on the screen, the same words in a policy file do
  not; importing a reviewed artifact merges scenarios without content; an authored
  scenario replaces another one whose name has the same first 48 characters; the
  files are written before the gate ends the command with 1.
- `-history-limit` has a default of 10 that always overrides the configuration; a
  fetch without a dataset leaves the older file; a failed publication leaves the
  repository on the new branch, where a retry with the same branch name stops; an
  empty list of remote scenarios empties those derived from replays.

*Services.*

- Watch takes its snapshot after the run (cli_watch.go:60), so an edit during
  the run starts no new one, unlike docs/ci.md:267; and a listed file that
  vanishes before it is examined ends watch with 2 (cli_watch.go:71), a code
  that docs/ci.md:276 does not give it.
- The notification alone opens a session of the MCP server, without a handshake
  (server.go:72); a last line without a newline is dropped (server.go:32).

## What is not modelled

Within the modelled parts: chaos injects one fault for each scenario; the drift
suite's failure to load its baseline and its filter on stable tags; scenario
names are unique (the configuration is rejected otherwise); Retry-After as an
HTTP date, which allows pauses below a second; the cost gate of the load suite;
usage and timing metrics of streams; bodies of error samples. A run of watch is
a step that reads the files at its beginning. Publishing and the side outputs
for CI systems are a step each, which succeeds or not. Texts that are searched
(phrases of policies, claims, canaries) are sets of the phrases they contain.
Configurations have the fields that a default, a preset or a rule relates to
another one, and one of each kind of the others. Prompts, evidence and notes of a
scenario are one body, which is equal or not.

Left out for good, each with its reason in PROJECT.json: report writers, CI
outputs, other commands and developer tools render text and hold no state.

Left out so far: gRPC and GraphQL targets (one call without retry), snapshots,
the digest of the attestation, the import of an OpenAPI document, the selection
of scenarios by `generate`, and the tools of the MCP server other than the run.

## Plan

The modules above are complete as far as planned. What is left, in the order of
importance:

1. `LoadIsExact` and `StartersRun` as theorems. All other safety properties of the
   runs are proved.
2. `RunCommand` in more detail: side outputs and sinks as a loop in which each may
   fail, and the selection of the replay artifact.
3. Snapshots with the drift suite: a baseline that is captured while runs compare
   with it.
4. The tools of the MCP server as calls of the modules that model them.
