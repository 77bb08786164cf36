---------------------------- MODULE MCIperf3Cmd ----------------------------
EXTENDS Iperf3Cmd

CONSTANTS e1, e2

MCTest(udp, reverse, n, retrans) ==
  [udp |-> udp, reverse |-> reverse, n |-> n, retrans |-> retrans,
   long |-> FALSE, givesP |-> TRUE, mbits |-> TRUE]

\* e1 runs both protocols in both directions, with one and two streams, with
\* and without retransmits, a test of 100 seconds, or one without -f m; e2,
\* before, after or at the same time, a test without -P.
MCTests == [e \in Execs |->
  IF e = e2 THEN {NoTest}
  ELSE {MCTest(FALSE, FALSE, 1, TRUE), MCTest(FALSE, TRUE, 1, TRUE),
        MCTest(FALSE, TRUE, 1, FALSE), MCTest(FALSE, TRUE, 2, FALSE),
        MCTest(TRUE, FALSE, 2, FALSE), MCTest(TRUE, TRUE, 1, FALSE),
        [MCTest(FALSE, FALSE, 1, FALSE) EXCEPT !.long = TRUE],
        [MCTest(FALSE, FALSE, 1, FALSE) EXCEPT !.mbits = FALSE]}]
=============================================================================
