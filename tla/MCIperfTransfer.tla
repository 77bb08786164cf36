--------------------------- MODULE MCIperfTransfer ---------------------------
EXTENDS IperfTransfer

MCClient(args) == ArgsOf(<<Switch("c")>> \o args, FALSE)
MCFull(args) == ArgsOf(<<Switch("c")>> \o args, TRUE)
MCRate(rate, burst) == [burst |-> burst, opt |-> "b", val |-> rate]

\* Every kind of end (time, bytes, blocks, none), both protocols, both
\* directions and every place of -R, no stream, one, two and too few; rate and
\* burst, or a burst alone; options that stay on the server, some of them from a
\* full build; and two clients that are refused.
MCRequests == {
  MCClient(<<>>),
  MCClient(<<Switch("R"), Arg("n", 3)>>),
  ArgsOf(<<Switch("R"), Switch("c"), Arg("k", 3), Arg("P", 2)>>, FALSE),
  MCClient(<<Switch("R"), Switch("R"), Arg("n", 3)>>),
  MCClient(<<Arg("n", 3), Arg("P", 2), Arg("O", 1)>>),
  MCClient(<<Arg("k", 2), Arg("P", 2), Arg("l", 9), Arg("T", 3)>>),
  MCClient(<<Switch("u"), Switch("R"), Arg("t", 86400), Arg("M", 9)>>),
  MCClient(<<Arg("t", 5), Arg("n", 5)>>), MCClient(<<Arg("P", 129)>>),
  MCClient(<<Arg("k", 2), Switch("u"), Arg("P", 2), Arg("S", 8)>>),
  MCClient(<<Arg("n", 4), Switch("u"), MCRate(5, 2), Switch("udp_counters_64bit")>>),
  MCClient(<<Arg("P", 0), Arg("t", 1)>>),
  MCClient(<<Arg("P", -1)>>), MCClient(<<Arg("P", 0), Arg("n", 1)>>),
  MCClient(<<Switch("R"), MCRate(0, 2), Arg("n", 9)>>), MCClient(<<MCRate(0, 2), Arg("n", 9)>>),
  MCClient(<<MCRate(0, 2), Arg("n", 9), Arg("i", 0)>>),
  MCFull(<<Switch("no_fq_socket_pacing"), Switch("R"), Arg("n", 3), MCRate(5, NoBurst)>>),
  MCFull(<<Switch("no_fq_socket_pacing"), MCRate(0, 2), Arg("n", 9)>>),
  JavaOf(TRUE, 7, 1), JavaOf(FALSE, 0, 2)}
=============================================================================
