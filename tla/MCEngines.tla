----------------------------- MODULE MCEngines ------------------------------
\* The engines whose verdict takes more than a look at one response: the load
\* suite and its virtual users, the shadow-state suite and an agent that
\* writes files, the judge, the suites that hold the text against the trace,
\* the assertions and the memory replay.  A behaviour is about one of them, so
\* the states are the sum.
EXTENDS LoadSuite, MCJudgingInputs

CONSTANTS ShadowCases, Paths, Contents, Absent, Allowed, Expected, Anything, Writes,
          None,
          Settings,
          Policies, Calls, Changes, Approvals, Phrases, MaxSteps,
          Answers, Scenarios,
          Replays, Ops, Sessions, Keys, MaxDeeds

VARIABLES about,
          step, n, files, walk, before, after, answered, results, stopped,
          writes, touched, late, start,
          cfg, judgePhase, sample, swapped, heard, first, judgeSamples, judgeFindings, passed, judgeLog,
          policy, calls, changes, approvals, uses, traceFiles, text,
          scenario, answer, next, unmet,
          replay, session, tracedWrites, memoryFindings, memoryLog

Shadow == INSTANCE ShadowState WITH Scenarios <- ShadowCases

Judge ==
  INSTANCE JudgeVerdict WITH
    phase <- judgePhase, samples <- judgeSamples, findings <- judgeFindings, log <- judgeLog

Trace == INSTANCE TraceEvidence WITH files <- traceFiles

Asserted == INSTANCE Assertions WITH findings <- unmet

Memory ==
  INSTANCE MemorySafety WITH step <- session, findings <- memoryFindings, log <- memoryLog

ASSUME EnginesAssumption ==
  /\ Shadow!ShadowAssumption
  /\ Judge!JudgeAssumption
  /\ Asserted!AssertionsAssumption
  /\ Trace!TraceAssumption
  /\ Memory!MemoryAssumption

shadowVars == <<step, n, files, walk, before, after, answered, results, stopped,
                writes, touched, late, start>>
judgeVars == <<cfg, judgePhase, sample, swapped, heard, first, judgeSamples, judgeFindings,
               passed, judgeLog>>
traceVars == <<policy, calls, changes, approvals, uses, traceFiles, text>>
assertVars == <<scenario, answer, next, unmet>>
memoryVars == <<replay, session, tracedWrites, memoryFindings, memoryLog>>
otherVars == <<shadowVars, judgeVars, traceVars, assertVars, memoryVars>>
all == <<about, vars, otherVars>>

\* Those a behaviour is not about stay at one of their initial states.
Fixed(part, choice) == about = part \/ (about # part /\ choice)

EnginesInit ==
  /\ about \in {"load", "shadow", "judge", "trace", "assertions", "memory"}
  /\ Fixed("shadow", files = Shadow!Nowhere)
  /\ Fixed("judge", cfg = CHOOSE s \in Settings : TRUE)
  /\ Fixed("trace", policy = CHOOSE p \in Policies : TRUE)
  /\ Fixed("assertions", scenario = (CHOOSE s \in Scenarios : TRUE)
                        /\ answer = CHOOSE r \in Answers : TRUE)
  /\ Fixed("memory", replay = CHOOSE r \in Replays : TRUE)
  /\ Init /\ Shadow!Init /\ Judge!Init /\ Trace!Init /\ Asserted!Init /\ Memory!Init

OfLoad(action) == about = "load" /\ action /\ UNCHANGED <<about, otherVars>>

EnginesNext ==
  \/ about = "load" /\ Next /\ UNCHANGED <<about, otherVars>>
  \/ about = "shadow" /\ Shadow!Next
       /\ UNCHANGED <<about, vars, judgeVars, traceVars, assertVars, memoryVars>>
  \/ about = "judge" /\ Judge!Next
       /\ UNCHANGED <<about, vars, shadowVars, traceVars, assertVars, memoryVars>>
  \/ about = "trace" /\ Trace!Next
       /\ UNCHANGED <<about, vars, shadowVars, judgeVars, assertVars, memoryVars>>
  \/ about = "assertions" /\ Asserted!Next
       /\ UNCHANGED <<about, vars, shadowVars, judgeVars, traceVars, memoryVars>>
  \/ about = "memory" /\ Memory!Next
       /\ UNCHANGED <<about, vars, shadowVars, judgeVars, traceVars, assertVars>>

\* The fairness of LoadSuite.
EnginesSpec ==
  /\ EnginesInit /\ [][EnginesNext]_all
  /\ \A u \in Users : WF_all(OfLoad(Invoke(u) \/ SendSample(u)))
  /\ WF_all(OfLoad(WaitUsers \/ Drain \/ Evaluate))

-----------------------------------------------------------------------------
\* LoadSuite: the suite ends.
LoadReturns == about = "load" => Returns

\* ShadowState: a scenario passes only when it changed what it may and must,
\* and is not charged with what was written before it.
MutationsAreEarned ==
  about = "shadow" => Shadow!PassIsEarned /\ Shadow!ChargesAreOwnOrLate

\* JudgeVerdict: a pairwise pass does not depend on the order of the answers,
\* and a pass has the majority of what was heard.
JudgedPassIsEarned ==
  about = "judge" => Judge!PassIsPositionBlind /\ Judge!PassHasAMajority

\* TraceEvidence: what the agent does besides never hides what it did, and
\* what is added to the trace never leaves a claim unsupported.
MoreTraceMoreEvidence == Trace!ActsAreNotOutweighed /\ Trace!EvidenceOnlySupports

\* TraceEvidence: no finding of the expected changes means that they are the
\* observed ones.
NoFindingMeansExact == about = "trace" => Trace!NoFindingMeansExact

\* Assertions: the verdicts on one answer do not contradict each other.
AssertionsAgree == about = "assertions" => Asserted!AssertionsAgree

\* MemorySafety: what one session left for a later one is reported.
ReplaysAreReported == about = "memory" => Memory!ReplaysAreReported

=============================================================================
