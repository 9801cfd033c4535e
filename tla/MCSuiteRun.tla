----------------------------- MODULE MCSuiteRun -----------------------------
\* A run with two suites of the shared cache around a tolerant one and one
\* that goes to the target directly, over the pool of CasePool: with two
\* workers, or, when workers is 1, with the cases on the runner's goroutine.
EXTENDS SuiteRun

CONSTANTS good, wrong, err, none

VARIABLE workers

MCSuites == <<"cached", "tolerant", "direct", "cached">>
MCResponses == {good, wrong, err}

OneByOne == INSTANCE SuiteRun WITH Limit <- 1

MCInit == SuiteInit /\ workers \in {1, Limit}

MCStep ==
  /\ \/ workers = Limit /\ RunStep
     \/ workers = 1 /\ OneByOne!RunStep
  /\ UNCHANGED workers

MCNext == MCStep \/ (CancelRun /\ UNCHANGED workers)

\* The fairness of SuiteRun.
MCSpec ==
  /\ MCInit
  /\ [][MCNext]_<<workers, runVars>>
  /\ WF_<<workers, runVars>>(MCStep)
=============================================================================
