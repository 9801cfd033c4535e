--------------------------- MODULE MCTrendInputs ----------------------------
\* What the trend comparison is checked with: six reports over three suites,
\* in which cases pass and fail in different ways, and nine exports.
EXTENDS Integers, Sequences

CONSTANTS None, f, g, claim, tool

TracedCase(name, passed, messages, claims, calls) ==
  [name |-> name, passed |-> passed, messages |-> messages, claim |-> claims,
   score |-> IF passed THEN 1000 ELSE 0, details |-> [calls |-> calls, files |-> <<>>]]

Silent(name) == TracedCase(name, TRUE, <<>>, None, <<>>)
Acts(name) == TracedCase(name, TRUE, <<>>, None, <<tool, tool>>)
Fails(name) == TracedCase(name, FALSE, <<<<f, 1>>, <<f, 2>>>>, None, <<tool>>)
FailsOtherwise(name) == TracedCase(name, FALSE, <<<<g, 1>>, <<f, 1>>>>, claim, <<>>)
Claims(name) == TracedCase(name, FALSE, <<>>, claim, <<>>)
Bare(name) == TracedCase(name, FALSE, <<>>, None, <<>>)

TraceSuite(x, y) == [name |-> "claim-trace", broken |-> FALSE, cases |-> <<x, y>>]
DriftSuite(semantic, baseline) ==
  [name |-> "drift", broken |-> FALSE,
   cases |-> <<[name |-> "a", passed |-> TRUE, score |-> 900, messages |-> <<>>, claim |-> None,
                details |-> <<>>, metrics |-> [semantic |-> semantic, baseline |-> baseline]]>>]
LoadResult(ok, p95) ==
  [name |-> "load", broken |-> ~ok,
   cases |-> <<[name |-> "load", passed |-> TRUE, score |-> 0, messages |-> <<>>, claim |-> None,
                details |-> <<>>, metrics |-> [p95 |-> p95]]>>]

OneModel == [model |-> "m1", prints |-> [a |-> 1, b |-> 1]]
Another == [model |-> "m2", prints |-> [a |-> 1, b |-> 2]]

ReportOf(suites, duration, meta) ==
  [at |-> 0, duration |-> duration, meta |-> meta, suites |-> suites]

MCReports ==
  {ReportOf(<<TraceSuite(Silent("a"), Acts("b"))>>, 100, OneModel),
   ReportOf(<<TraceSuite(Fails("a"), Silent("b"))>>, 100, OneModel),
   ReportOf(<<TraceSuite(FailsOtherwise("a"), Claims("b")), DriftSuite(40, 10)>>, 100, OneModel),
   ReportOf(<<TraceSuite(Acts("a"), Bare("b")), DriftSuite(95, 10)>>, 100, Another),
   ReportOf(<<DriftSuite(40, 20), LoadResult(TRUE, 7)>>, 120, OneModel),
   ReportOf(<<LoadResult(FALSE, 9), TraceSuite(Bare("a"), Acts("b"))>>, 80, OneModel)}

ExportOf(type, version, under, form, key, reversed) ==
  [type |-> type, version |-> version, under |-> under, form |-> form, key |-> key,
   reversed |-> reversed]

MCExports ==
  {ExportOf("langsmith", FALSE, "runs", "report", "start_time", TRUE),
   ExportOf("langsmith", FALSE, "runs", "history_run", "generated_at", FALSE),
   ExportOf("provider_logs", FALSE, "logs", "history_run", None, TRUE),
   ExportOf("provider_logs", TRUE, "single", "bare", "generated_at", FALSE),
   ExportOf("openllmetry", FALSE, "spans", "bare", "start_time", FALSE),
   ExportOf("openllmetry", FALSE, "runs", "report", None, FALSE),
   ExportOf("openllmetry", FALSE, "list", "flat", None, FALSE),
   ExportOf("langsmith", FALSE, "cleanr.history", "native", "generated_at", FALSE),
   ExportOf("langsmith", TRUE, "runs", "native", "generated_at", FALSE)}

MCStrict ==
  [window |-> 2, suites |-> 0, cases |-> 0, regressed |-> TRUE, duration |-> 15,
   drift |-> [semantic |-> 50, baseline |-> 30]]
=============================================================================
