---------------------------- MODULE MCRunCommand ----------------------------
\* Builds of one configuration over two suites and one scenario.
EXTENDS RunCommand

CONSTANT nothing

MCSuites == <<"direct", "tolerant">>

Off == [trend |-> FALSE, gates |-> FALSE, attest |-> FALSE,
        replay |-> FALSE, sinks |-> FALSE, comment |-> FALSE]

\* Everything off; all persistence with gates; attestation without trend.
MCConfigs ==
  {Off,
   [Off EXCEPT !.trend = TRUE, !.gates = TRUE, !.replay = TRUE, !.attest = TRUE, !.comment = TRUE],
   [Off EXCEPT !.attest = TRUE, !.sinks = TRUE]}
=============================================================================
