---------------------------- MODULE JudgeVerdict ----------------------------
(***************************************************************************)
(* One case of the llm-judge suite (cleanr/engines/llm_judge*.go): the       *)
(* target answers, and in pairwise mode the baseline too; then a pool of      *)
(* judges is asked, sample after sample, in pairwise mode in both orders of   *)
(* the two answers, and the samples are made into a verdict.  A score is in   *)
(* quarters, so that a median of medians is a number; what is compared with   *)
(* a score, and the score as a share of the scale, is in thousandths.         *)
(***************************************************************************)
EXTENDS Integers, Sequences, FiniteSets, SequencesExt

CONSTANTS Settings, \* the llm_judge settings, and the labels of a calibration file
          None      \* nothing decided

VARIABLES cfg,      \* the settings of this case
          phase,    \* "target", "judge" or "done"
          sample,   \* the sample that is taken
          swapped,  \* pairwise: the second order of the two answers
          heard,    \* what the judges of this decision have said
          first,    \* pairwise: the decision in the first order, or None
          samples,  \* what was collected
          findings, \* whether the response or the judging left findings
          passed,   \* CaseResult.Passed
          log       \* every decision: its order and what was heard

vars == <<cfg, phase, sample, swapped, heard, first, samples, findings, passed, log>>

\* Assumed of the settings: applyLLMJudgeDefaults leaves no zero, and a score
\* is no winner and neither is None.
Winners == {"1", "2", "tie"}
JudgeAssumption ==
  /\ None \notin Int \cup Winners
  /\ \A s \in Settings :
       s.samples \in Nat /\ s.scale \in Nat \ {0} /\ s.minScore \in Int /\ s.minWinRate \in Nat \ {0}
         /\ s.says \subseteq Int

\* The k-th smallest of the scores.
Ranked(scores, k) ==
  CHOOSE x \in Range(scores) :
    /\ Cardinality({i \in DOMAIN scores : scores[i] < x}) < k
    /\ k <= Cardinality({i \in DOMAIN scores : scores[i] <= x})

\* medianScore, with the mean of the two in the middle.
MedianScore(scores) ==
  LET mid == Len(scores) \div 2
  IN  IF Len(scores) % 2 = 1 THEN Ranked(scores, mid + 1)
      ELSE (Ranked(scores, mid) + Ranked(scores, mid + 1)) \div 2

Largest(scores) == CHOOSE x \in Range(scores) : \A y \in Range(scores) : y <= x
Smallest(scores) == CHOOSE x \in Range(scores) : \A y \in Range(scores) : x <= y
scoreSpread(scores) == Largest(scores) - Smallest(scores)

\* round3 of a score in quarters as a share of the scale.
Share(score) == (1000 * score + 2 * cfg.scale) \div (4 * cfg.scale)

\* Does a sample count as good?  Its share of the scale is rounded by round4.
SamplePasses(score) == (10000 * score + 2 * cfg.scale) \div (4 * cfg.scale) >= 10 * cfg.minScore

clampScore(score) == IF score < 1 THEN 1 ELSE IF score > cfg.scale THEN cfg.scale ELSE score

\* majorityWinner: an earlier decision wins a draw.
majorityWinner(decisions) ==
  LET count(w, k) == Cardinality({i \in 1 .. k : decisions[i] = w})
      best[k \in 1 .. Len(decisions)] ==
        IF k = 1 THEN decisions[1]
        ELSE IF count(decisions[k], k) > count(best[k - 1], k) THEN decisions[k] ELSE best[k - 1]
  IN  best[Len(decisions)]

\* Mutant: the slot is the preference, whoever is in it.
PreferenceOfSlot(winner, response1IsCandidate) ==
  IF winner = "tie" THEN "tie" ELSE IF winner = "1" THEN "candidate" ELSE "baseline"

preferenceFor(winner, response1IsCandidate) ==
  IF winner = "tie" THEN "tie"
  ELSE IF (winner = "1") = response1IsCandidate THEN "candidate" ELSE "baseline"

\* passRateCI: whether the lower end of the Wilson interval reaches a floor
\* given in twentieths (its rounding to thousandths left out), at 95 %.
LowerBoundReaches(passes, total, floor) ==
  /\ 20 * passes >= floor * total
  /\ 100 * (20 * passes - floor * total) * (20 * passes - floor * total)
       >= 384 * total * floor * (20 - floor)

\* flakeRate, compared with a limit in thousandths.
FlakeExceeds(passes, total, limit) ==
  LET majority == IF passes > total - passes THEN passes ELSE total - passes
  IN  (2000 * (total - majority) + total) \div (2 * total) > limit

\* What both modes do with the share of good samples.
RatesAreFine(passes, total) ==
  /\ cfg.minPassRate > 0 => LowerBoundReaches(passes, total, cfg.minPassRate)
  /\ cfg.maxFlakeRate > 0 /\ total > 1 => ~FlakeExceeds(passes, total, cfg.maxFlakeRate)

-----------------------------------------------------------------------------
NoSamples == [scores |-> <<>>, wins |-> 0, losses |-> 0, ties |-> 0, unparseable |-> 0, err |-> FALSE]

\* Mutant: the median of the samples need not reach the threshold.
ScoreVerdictOfBest ==
  LET scores == samples.scores
      good == Cardinality({i \in DOMAIN scores : SamplePasses(scores[i])})
  IN  /\ scores # <<>> /\ Share(Largest(scores)) >= cfg.minScore
      /\ cfg.samples > 1 /\ cfg.maxDisagreement > 0 => Share(scoreSpread(scores)) <= cfg.maxDisagreement
      /\ RatesAreFine(good, Len(scores))

\* finalizeScoreCase: an error of the judge is a finding, but what was scored
\* before it decides.
ScoreVerdict ==
  LET scores == samples.scores
      good == Cardinality({i \in DOMAIN scores : SamplePasses(scores[i])})
  IN  /\ scores # <<>> /\ Share(MedianScore(scores)) >= cfg.minScore
      /\ cfg.samples > 1 /\ cfg.maxDisagreement > 0 => Share(scoreSpread(scores)) <= cfg.maxDisagreement
      /\ RatesAreFine(good, Len(scores))

\* finalizePairwiseCase.
PairwiseVerdict ==
  LET decisive == samples.wins + samples.losses
  IN  /\ ~samples.err /\ decisive > 0
      /\ (2000 * samples.wins + decisive) \div (2 * decisive) >= cfg.minWinRate
      /\ RatesAreFine(samples.wins, decisive + samples.ties)

-----------------------------------------------------------------------------
Init ==
  /\ cfg \in Settings
  /\ phase = "target" /\ sample = 1 /\ swapped = FALSE
  /\ heard = <<>> /\ first = None /\ samples = NoSamples
  /\ findings = FALSE /\ passed = FALSE /\ log = <<>>

\* The target, and the baseline, answer; a client error is a finding but the
\* answer is judged.
InvokeTarget ==
  /\ phase = "target"
  /\ \/ phase' = "judge" /\ findings' \in BOOLEAN
     \/ phase' = "done" /\ findings' = TRUE
  /\ UNCHANGED <<cfg, sample, swapped, heard, first, samples, passed, log>>

\* Is another judge of the pool asked after these answers?  The first alone
\* decides when its score is far from the threshold, or when it has a winner.
AsksNext(answers) ==
  /\ Len(answers) < cfg.judges
  /\ Len(answers) = 1 =>
       IF cfg.mode = "pairwise" THEN answers[1] = "tie"
       ELSE LET distance == 250 * answers[1] - cfg.minScore * cfg.scale
            IN  cfg.cascadeMargin > 0 =>
                  (IF distance < 0 THEN -distance ELSE distance) <= cfg.cascadeMargin * cfg.scale

NextSample == sample' = sample + 1 /\ swapped' = FALSE /\ first' = None

\* recordPairwiseOutcome.
Outcome(w1, w2) ==
  LET p1 == preferenceFor(w1, TRUE)
      p2 == preferenceFor(w2, FALSE)
  IN  CASE p1 = "candidate" /\ p2 = "candidate" -> [samples EXCEPT !.wins = @ + 1]
        [] p1 = "baseline" /\ p2 = "baseline" -> [samples EXCEPT !.losses = @ + 1]
        [] OTHER -> [samples EXCEPT !.ties = @ + 1]

Unparseable == [samples EXCEPT !.unparseable = @ + 1]

\* The decision of the pool is made, or could not be parsed (None).
Decide(decision, answers) ==
  /\ heard' = <<>>
  /\ log' = Append(log, [sample |-> sample, swapped |-> swapped, heard |-> answers, ok |-> decision # None])
  /\ IF cfg.mode = "score"
       THEN /\ samples' = IF decision = None THEN Unparseable
                          ELSE [samples EXCEPT !.scores = Append(@, decision)]
            /\ NextSample
       ELSE IF ~swapped
         THEN first' = decision /\ swapped' = TRUE /\ UNCHANGED <<sample, samples>>
         ELSE /\ samples' = IF None \in {first, decision} THEN Unparseable ELSE Outcome(first, decision)
              /\ NextSample

Judging == phase = "judge" /\ sample <= cfg.samples

\* A judge answers: a score, also one off the scale, or a winner.
JudgeAnswers ==
  /\ Judging
  /\ \E said \in IF cfg.mode = "score" THEN cfg.says ELSE Winners :
       LET answers == Append(heard, IF cfg.mode = "score" THEN 4 * clampScore(said) ELSE said)
       IN  IF AsksNext(answers)
             THEN heard' = answers /\ UNCHANGED <<log, samples, sample, swapped, first>>
             ELSE Decide(IF cfg.mode = "score" THEN MedianScore(answers) ELSE majorityWinner(answers), answers)
  /\ UNCHANGED <<cfg, phase, findings, passed>>

\* No JSON, no positive score, no known winner: the decision is lost, with
\* what the judges before said.
JudgeIsUnparseable ==
  /\ Judging
  /\ Decide(None, heard)
  /\ UNCHANGED <<cfg, phase, findings, passed>>

\* An error ends the sampling.
JudgeFails ==
  /\ Judging
  /\ samples' = [samples EXCEPT !.err = TRUE]
  /\ sample' = cfg.samples + 1
  /\ UNCHANGED <<cfg, phase, swapped, heard, first, findings, passed, log>>

Finalize ==
  /\ phase = "judge" /\ sample > cfg.samples
  /\ passed' = IF cfg.mode = "score" THEN ScoreVerdict ELSE PairwiseVerdict
  /\ findings' = (findings \/ ~passed' \/ samples.err \/ samples.unparseable > 0)
  /\ phase' = "done"
  /\ UNCHANGED <<cfg, sample, swapped, heard, first, samples, log>>

Next == InvokeTarget \/ JudgeAnswers \/ JudgeIsUnparseable \/ JudgeFails \/ Finalize
Spec == Init /\ [][Next]_vars

-----------------------------------------------------------------------------
\* The decision about sample s in an order of the answers could be read and
\* went to w.
Won(s, order, w) ==
  \E k \in DOMAIN log :
    log[k].sample = s /\ log[k].swapped = order /\ log[k].ok /\ majorityWinner(log[k].heard) = w

\* The samples in which the one answer won in the one order and the other in
\* the other: those in which the same answer won, wherever it stood.
Settled(plainWinner, swappedWinner) ==
  {s \in 1 .. cfg.samples : Won(s, FALSE, plainWinner) /\ Won(s, TRUE, swappedWinner)}

\* A pairwise case passes only when the candidate won often enough among the
\* samples whose winner did not depend on the order, and all judges answered:
\* a judge that looks at the position only can never pass a case ("a
\* comparison only counts ... when the judge's substantive preference agrees
\* across both orderings", docs/configuration.md).
PassIsPositionBlind ==
  phase = "done" /\ passed /\ cfg.mode = "pairwise" =>
    LET won == Cardinality(Settled("1", "2"))
        lost == Cardinality(Settled("2", "1"))
    IN  /\ ~samples.err /\ won > 0
        /\ 2000 * won + won + lost >= 2 * cfg.minWinRate * (won + lost)

\* A scored case passes only when at least half of the samples that could be
\* read reach the threshold by themselves, rounded like the median that decides
\* (finalizeScoreCase), whichever judges were asked.
PassHasAMajority ==
  phase = "done" /\ passed /\ cfg.mode = "score" =>
    LET read == {k \in DOMAIN log : log[k].ok}
        good == {k \in read : Share(MedianScore(log[k].heard)) >= cfg.minScore}
    IN  read # {} /\ 2 * Cardinality(good) >= Cardinality(read)

=============================================================================
