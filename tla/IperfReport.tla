----------------------------- MODULE IperfReport -----------------------------
(***************************************************************************)
(* What the client prints, line by line, and which callback it makes into  *)
(* Java when it runs through JNI: iperf_print_intermediate,                *)
(* print_interval_results and iperf_print_results of iperf_api.c, without  *)
(* --json.                                                                 *)
(*                                                                         *)
(* A test is a record: udp; reverse (-R); n, the number of streams;        *)
(* retrans, whether the sender of the data counts retransmits; and long,   *)
(* whether it lasts 100 seconds or more.  A line is a record with what     *)
(* tells lines apart: kind ("title", "report", "error" or "other"),        *)
(* whether it is of the [SUM], how it ends (tail), whether its times have  *)
(* three digits before the point (late), and what its numbers are of: an   *)
(* "interval", or all that was "sent" or "received".                       *)
(***************************************************************************)
EXTENDS Integers, Sequences

Line(kind, sum, tail, of) ==
  [kind |-> kind, sum |-> sum, tail |-> tail, late |-> FALSE, of |-> of]
Title      == Line("title", FALSE, "none", "none")
Other      == Line("other", FALSE, "none", "none")
ErrorLine  == Line("error", FALSE, "none", "none")
Report(sum, tail, of) == Line("report", sum, tail, of)

\* The callbacks into Java (iperf3_java_callback.c) that carry a bandwidth.
Call(call, sum, of) == [call |-> call, sum |-> sum, of |-> of]

\* What is sent is the client's own bandwidth, except in a reverse test.
Local(t) == IF t.reverse THEN "received" ELSE "sent"

If(cond, seq) == IF cond THEN seq ELSE <<>>
Each(t, lines) == [i \in 1..(t.n * Len(lines)) |-> lines[((i - 1) % Len(lines)) + 1]]

-----------------------------------------------------------------------------
(* One interval *)

\* print_interval_results: the number of datagrams from a UDP sender, the
\* losses from a UDP receiver.
IntervalTail(t) == IF ~t.udp THEN "none" ELSE IF t.reverse THEN "loss" ELSE "count"

\* The header comes with the first interval, later a separator if there are
\* several streams.
IntervalHead(t, first) ==
  IF first THEN <<Title>> ELSE If(t.n > 1, <<Other>>)

IntervalLines(t, first) ==
  IntervalHead(t, first)
    \o Each(t, <<Report(FALSE, IntervalTail(t), "interval")>>)
    \o If(t.n > 1, <<Report(TRUE, IntervalTail(t), "interval")>>)

\* on_interval, for the stream if it is the only one, else for the sum.
IntervalCalls(t) == <<Call("onInterval", t.n > 1, "interval")>>

\* Without an interval both functions print an error, and the second returns.
NoIntervalLines == <<Other, Other>>

-----------------------------------------------------------------------------
(* The summary *)

\* The lines and the calls of one stream.
SentLines(t) ==
  IF t.udp THEN <<Report(FALSE, "loss", "sent"), Other>>
           ELSE <<Report(FALSE, "sender", "sent")>>
ReceivedLines(t) == If(~t.udp, <<Report(FALSE, "receiver", "received")>>)

\* Mistake: none of the calls for what was sent looks at reverse.
SentCallsAlways(t) == If(t.n = 1, <<Call("onResult", FALSE, "sent")>>)

\* on_result for what was sent: a TCP test with retransmits makes the call in
\* a reverse test too.
SentCalls(t) ==
  If(t.n = 1 /\ (~t.reverse \/ (~t.udp /\ t.retrans)), <<Call("onResult", FALSE, "sent")>>)
ReceivedCalls(t) ==
  If(t.n = 1 /\ ~t.udp /\ t.reverse, <<Call("onResult", FALSE, "received")>>)

\* The lines and the calls of the sum of all streams.
SumLines(t) ==
  IF t.udp THEN <<Report(TRUE, "loss", "sent")>>
           ELSE <<Report(TRUE, "sender", "sent"), Report(TRUE, "receiver", "received")>>
SumCalls(t) ==
  IF t.reverse THEN If(~t.udp, <<Call("onResult", TRUE, "received")>>)
               ELSE <<Call("onResult", TRUE, "sent")>>

SummaryLines(t) ==
  <<Other, Title>> \o Each(t, SentLines(t) \o ReceivedLines(t))
                       \o If(t.n > 1, SumLines(t))
SummaryCalls(t) ==
  SentCalls(t) \o ReceivedCalls(t) \o If(t.n > 1, SumCalls(t))

-----------------------------------------------------------------------------
(* iperf_reporter_callback: an interval while the test runs; when it is over, *)
(* the last interval (again, if no new one was gathered) and the summary.     *)
(* Without streams only the sums are printed, of numbers nobody has set.      *)

RunningReport(t, gathered) ==
  IF gathered = 0 THEN NoIntervalLines ELSE IntervalLines(t, gathered = 1)

FinalReport(t, gathered) ==
  LET lines == RunningReport(t, gathered) \o SummaryLines(t)
  IN [i \in DOMAIN lines |-> [lines[i] EXCEPT !.late = t.long]]
FinalCalls(t, gathered) == If(gathered > 0, IntervalCalls(t)) \o SummaryCalls(t)

NoStreamReport(t) == <<Other, Title>> \o If(t.n > 1, SumLines(t))
NoStreamCalls(t) == If(t.n > 1, SumCalls(t))
=============================================================================
