------------------------------- MODULE IperfUdp -------------------------------
(***************************************************************************)
(* The accounting of a UDP stream: what iperf_udp_send and iperf_udp_recv  *)
(* count, what the end of the omit period and the interval statistics make *)
(* of the counters (iperf_api.c), and the end of the test: the server      *)
(* prints its totals, the two ends exchange results, and the client prints *)
(* its own.  One datagram stands for its number of bytes; int and uint64_t *)
(* keep their widths.                                                      *)
(***************************************************************************)
EXTENDS Integers, FiniteSets

CONSTANTS
  IntMax,      \* the largest int
  Counters64,  \* test->udp_counters_64bit
  MaxPackets,  \* bound: datagrams the sender numbers
  MaxLate,     \* bound: datagrams the receiver finds out of order
  Faults       \* what the network may do: "lose", "dup", "reorder"

ASSUME UdpAssumption ==
  /\ IntMax \in Nat \ {0} /\ MaxPackets \in Nat /\ MaxLate \in Nat
  /\ Counters64 \in BOOLEAN
  /\ Faults \subseteq {"lose", "dup", "reorder"}

Int32 == (-IntMax - 1)..IntMax
Mod   == 2 * IntMax + 2
Mod64 == Mod * Mod

Sides == {"snd", "rcv"}

\* struct iperf_stream and its result, as far as UDP counts.
Stream == [packet_count : Int32, omitted_packet_count : Int32,
           cnt_error : Int32, omitted_cnt_error : Int32,
           outoforder_packets : Nat, omitted_outoforder_packets : Nat,
           bytes_sent : Int, bytes_sent_omit : Int, bytes_received : Int,
           this_interval : Nat]

\* The interval results: the counters when it ended, its own share of them.
Interval == [packet_count : Int32, cnt_error : Int32, outoforder_packets : Nat,
             interval_packet_count : Int32, interval_cnt_error : Int32,
             interval_outoforder_packets : Int, bytes_transferred : Nat]

VARIABLES
  reverse,    \* test->reverse: the client is the receiver
  omitting,   \* test->omitting on either side
  phase,      \* "running", "ended" (no more statistics) or "closed", by side
  snd, rcv,   \* the stream on the sending and on the receiving side
  irp,        \* the last interval results of the receiver
  net,        \* the datagrams under way
  exchanged,  \* the results were exchanged
  printed,    \* the totals that the two ends have printed
  sent,       \* history: how often iperf_udp_send was called
  got,        \* history: which of its datagrams were read
  reads       \* history: how many datagrams were read

history == <<sent, got, reads>>
vars == <<reverse, omitting, phase, snd, rcv, irp, net, exchanged, printed, history>>

Client == IF reverse THEN "rcv" ELSE "snd"
Server == IF reverse THEN "snd" ELSE "rcv"

\* What iperf_print_results prints of a UDP stream, the losses of its sum.
Total(sp) == sp.packet_count - sp.omitted_packet_count
Lost(sp)  == sp.cnt_error - sp.omitted_cnt_error
Late(sp)  == sp.outoforder_packets - sp.omitted_outoforder_packets
SentOf(sp) == sp.bytes_sent - sp.bytes_sent_omit
Report(side, sp) ==
  [side |-> side, sent |-> SentOf(sp), packets |-> Total(sp), lost |-> Lost(sp)]
Prints(side) ==
  printed' = printed \cup {Report(side, IF side = "snd" THEN snd ELSE rcv)}

TypeOK ==
  /\ reverse \in BOOLEAN /\ exchanged \in BOOLEAN
  /\ omitting \in [Sides -> BOOLEAN]
  /\ phase \in [Sides -> {"running", "ended", "closed"}]
  /\ snd \in Stream /\ rcv \in Stream
  /\ irp \in Interval
  /\ net \subseteq [no : Nat, pcount : 0..(Mod64 - 1)]
  /\ printed \subseteq [side : Sides, sent : Int, packets : Int, lost : Int]
  /\ sent \in 0..MaxPackets
  /\ got \subseteq 1..sent
  /\ reads \in Nat

NewStream == [packet_count |-> 0, omitted_packet_count |-> 0,
              cnt_error |-> 0, omitted_cnt_error |-> 0,
              outoforder_packets |-> 0, omitted_outoforder_packets |-> 0,
              bytes_sent |-> 0, bytes_sent_omit |-> 0, bytes_received |-> 0,
              this_interval |-> 0]

\* Before the first interval: the same as if one had ended with nothing
\* counted.
NoInterval == [packet_count |-> 0, cnt_error |-> 0, outoforder_packets |-> 0,
               interval_packet_count |-> 0, interval_cnt_error |-> 0,
               interval_outoforder_packets |-> 0, bytes_transferred |-> 0]

Init ==
  /\ reverse \in BOOLEAN
  /\ \E omit \in BOOLEAN : omitting = [s \in Sides |-> omit]
  /\ phase = [s \in Sides |-> "running"]
  /\ snd = NewStream /\ rcv = NewStream /\ irp = NoInterval
  /\ net = {} /\ exchanged = FALSE /\ printed = {}
  /\ sent = 0 /\ got = {} /\ reads = 0

-----------------------------------------------------------------------------
(* Widths *)

\* Mistake: an int that does not keep its width.
ToIntPlain(n) == n

\* What an assignment to an int keeps.
ToInt(n) == IF n \in Int32 THEN n ELSE ((n + IntMax + 1) % Mod) - IntMax - 1

\* What the conversion of an int, or of a difference, to uint64_t gives.
ToU64(n) == IF n >= 0 THEN n ELSE n + Mod64

\* The number as it goes into the datagram: htobe64 of the int, or htonl.
Wire(n) == IF n >= 0 THEN n ELSE n + (IF Counters64 THEN Mod64 ELSE Mod)

\* packet_count + 1 as the comparisons of iperf_udp_recv see it.  The
\* overflow of the int is undefined: it wraps, or is carried into 64 bits.
After(n) == {ToU64(n + 1), ToU64(ToInt(n + 1))}

-----------------------------------------------------------------------------
(* Sending and receiving *)

\* iperf_udp_send: the number is taken before the write, which may fail
\* softly; then nothing is sent and no byte is counted.
Send ==
  /\ phase["snd"] = "running" /\ sent < MaxPackets
  /\ sent' = sent + 1
  /\ LET n == ToInt(snd.packet_count + 1) IN
       \/ /\ snd' = [snd EXCEPT !.packet_count = n,
                                !.bytes_sent = @ + 1]
          /\ net' = net \cup {[no |-> sent + 1, pcount |-> Wire(n)]}
       \/ /\ snd' = [snd EXCEPT !.packet_count = n]
          /\ "lose" \in Faults
          /\ UNCHANGED net
  /\ UNCHANGED <<reverse, omitting, phase, rcv, irp, exchanged, printed, got, reads>>

Lose(d) ==
  /\ "lose" \in Faults
  /\ net' = net \ {d}
  /\ UNCHANGED <<reverse, omitting, phase, snd, rcv, irp, exchanged, printed, history>>

\* The client reads on after TEST_END when it is the receiver.
Reading == phase["rcv"] = "running" \/ (reverse /\ phase["rcv"] = "ended")

\* The next to arrive; a duplicate stays under way.
Arrives(d) ==
  /\ "reorder" \in Faults \/ \A e \in net : d.no <= e.no
  /\ net' = net \ {d} \/ ("dup" \in Faults /\ net' = net)

\* Mistakes of Count: the number expected is not moved past a gap; a late
\* datagram counts against the loss.
CountGapOnly(sp, pcount, next) ==
  IF pcount >= next
    THEN [sp EXCEPT !.cnt_error =
                      IF pcount > next
                        THEN ToInt(@ + ToU64(pcount - 1 - ToU64(sp.packet_count)))
                        ELSE @,
                    !.packet_count = ToInt(@ + 1)]
    ELSE [sp EXCEPT !.outoforder_packets = @ + 1]
CountLateAsFound(sp, pcount, next) ==
  IF pcount >= next
    THEN [sp EXCEPT !.cnt_error =
                      IF pcount > next
                        THEN ToInt(@ + ToU64(pcount - 1 - ToU64(sp.packet_count)))
                        ELSE @,
                    !.packet_count = ToInt(pcount)]
    ELSE [sp EXCEPT !.outoforder_packets = @ + 1, !.cnt_error = @ - 1]

\* The counters after a datagram: a jump ahead is loss, anything else late.
Count(sp, pcount, next) ==
  IF pcount >= next
    THEN [sp EXCEPT !.cnt_error =
                      IF pcount > next
                        THEN ToInt(@ + ToU64(pcount - 1 - ToU64(sp.packet_count)))
                        ELSE @,
                    !.packet_count = ToInt(pcount)]
    ELSE [sp EXCEPT !.outoforder_packets = @ + 1]

\* iperf_udp_recv.
Recv(d) ==
  /\ Reading
  /\ Arrives(d)
  /\ \E next \in After(rcv.packet_count) :
       /\ d.pcount >= next \/ rcv.outoforder_packets < MaxLate
       /\ rcv' = [Count(rcv, d.pcount, next) EXCEPT
                    !.bytes_received = @ + 1,
                    !.this_interval = @ + 1]
  /\ got' = got \cup {d.no} /\ reads' = reads + 1
  /\ UNCHANGED <<reverse, omitting, phase, snd, irp, exchanged, printed, sent>>

-----------------------------------------------------------------------------
(* Statistics *)

\* Mistakes of iperf_reset_stats: the losses of the omit period are kept; so
\* are its bytes.
ResetKeepsErrors(sp) ==
  [sp EXCEPT !.omitted_packet_count = sp.packet_count,
             !.omitted_outoforder_packets = sp.outoforder_packets,
             !.bytes_sent_omit = sp.bytes_sent,
             !.bytes_received = 0, !.this_interval = 0]
ResetKeepsBytes(sp) ==
  [sp EXCEPT !.omitted_packet_count = sp.packet_count,
             !.omitted_cnt_error = sp.cnt_error,
             !.omitted_outoforder_packets = sp.outoforder_packets,
             !.bytes_sent_omit = sp.bytes_sent,
             !.this_interval = 0]

\* iperf_reset_stats.
ResetStats(sp) ==
  [sp EXCEPT !.omitted_packet_count = sp.packet_count,
             !.omitted_cnt_error = sp.cnt_error,
             !.omitted_outoforder_packets = sp.outoforder_packets,
             !.bytes_sent_omit = sp.bytes_sent,
             !.bytes_received = 0, !.this_interval = 0]

\* The omit timer of a side, while the loop of that side runs timers.
OmitTimer(s) ==
  /\ phase[s] = "running" /\ omitting[s]
  /\ omitting' = [omitting EXCEPT ![s] = FALSE]
  /\ snd' = IF s = "snd" THEN ResetStats(snd) ELSE snd
  /\ rcv' = IF s = "rcv" THEN ResetStats(rcv) ELSE rcv
  /\ UNCHANGED <<reverse, phase, irp, net, exchanged, printed, history>>

\* iperf_stats_callback on the receiver.
Gather ==
  /\ irp' = [packet_count       |-> rcv.packet_count,
             cnt_error          |-> rcv.cnt_error,
             outoforder_packets |-> rcv.outoforder_packets,
             interval_packet_count |-> ToInt(rcv.packet_count - irp.packet_count),
             interval_cnt_error    |-> ToInt(rcv.cnt_error - irp.cnt_error),
             interval_outoforder_packets |->
               rcv.outoforder_packets - irp.outoforder_packets,
             bytes_transferred |-> rcv.this_interval]
  /\ rcv' = [rcv EXCEPT !.this_interval = 0]

StatsTimer ==
  /\ phase["rcv"] = "running"
  /\ Gather
  /\ UNCHANGED <<reverse, omitting, phase, snd, net, exchanged, printed, history>>

-----------------------------------------------------------------------------
(* The end of the test *)

\* The client ends the test and sends TEST_END.
ClientEnds ==
  /\ phase[Client] = "running" /\ ~omitting[Client]
  /\ phase' = [phase EXCEPT ![Client] = "ended"]
  /\ IF reverse THEN Gather ELSE UNCHANGED <<irp, rcv>>
  /\ UNCHANGED <<reverse, omitting, snd, net, exchanged, printed, history>>

\* TEST_END reaches the server, which closes its stream and prints, from its
\* own counters, before the exchange.
ServerEnds ==
  /\ phase[Client] = "ended" /\ phase[Server] = "running"
  /\ phase' = [phase EXCEPT ![Server] = "closed"]
  /\ IF reverse THEN UNCHANGED <<irp, rcv>> ELSE Gather
  /\ Prints(Server)
  /\ UNCHANGED <<reverse, omitting, snd, net, exchanged, history>>

\* Mistake of send_results: the sender reports what it sent while omitting.
SentAll(sp) == sp.bytes_sent

\* send_results: the bytes of the sender.
SentBytes(sp) == sp.bytes_sent - sp.bytes_sent_omit

\* iperf_exchange_results: send_results and get_results on both sides.  The
\* sender takes over the receiver's counters, the receiver the bytes sent.
Exchange ==
  /\ phase[Client] = "ended" /\ phase[Server] = "closed"
  /\ phase' = [s \in Sides |-> "closed"] /\ exchanged' = TRUE
  /\ snd' = [snd EXCEPT !.cnt_error = rcv.cnt_error,
                        !.packet_count = rcv.packet_count,
                        !.bytes_received = rcv.bytes_received]
  /\ rcv' = [rcv EXCEPT !.bytes_sent = SentBytes(snd)]
  /\ UNCHANGED <<reverse, omitting, irp, net, printed, history>>

\* DISPLAY_RESULTS reaches the client, which prints with what it has got.
ClientPrints ==
  /\ exchanged /\ \A p \in printed : p.side = Server
  /\ Prints(Client)
  /\ UNCHANGED <<reverse, omitting, phase, snd, rcv, irp, net, exchanged, history>>

Next ==
  \/ Send
  \/ \E d \in net : Lose(d) \/ Recv(d)
  \/ \E s \in Sides : OmitTimer(s)
  \/ StatsTimer
  \/ ClientEnds \/ ServerEnds \/ Exchange \/ ClientPrints

Spec == Init /\ [][Next]_vars

-----------------------------------------------------------------------------
(* Safety *)

\* Up to here no number the sender gave is beyond an int.
NoOverflow == sent <= IntMax

\* The counters of the receiver balance at every moment, also when they have
\* wrapped: modulo the width of an int, what was read is what was numbered,
\* less the losses, plus the late ones.
Balanced ==
  (rcv.packet_count - rcv.cnt_error + rcv.outoforder_packets - reads) % Mod = 0

\* Every byte the receiver reports is accounted for by the counters it
\* reports, whenever the omit period ended and whatever the network did.
AccountedFor ==
  NoOverflow => rcv.bytes_received = Total(rcv) - Lost(rcv) + Late(rcv)

\* The same of the last interval.  When the omit period ended within it the
\* bytes start over and the counters do not, so there may be fewer bytes.
IntervalAccountedFor ==
  NoOverflow =>
    LET due == irp.interval_packet_count - irp.interval_cnt_error
                 + irp.interval_outoforder_packets
    IN /\ irp.bytes_transferred <= due
       /\ rcv.omitted_packet_count = 0 /\ rcv.omitted_outoforder_packets = 0
            => irp.bytes_transferred = due

\* No loss the receiver reports, of an interval or of the test, is negative
\* or more than 100%: "A bug that could show negative loss counters with
\* --udp and --omit has been fixed" (RELEASE_NOTES).
LossInRange ==
  NoOverflow =>
    /\ 0 <= irp.interval_cnt_error
    /\ irp.interval_cnt_error <= irp.interval_packet_count
    /\ 0 <= Lost(rcv) /\ Lost(rcv) <= Total(rcv)

\* The losses counted cover what is really missing below the highest number,
\* and exceed it by at most one for every datagram that came late: the
\* receiver never takes a loss back.
LossCovers ==
  NoOverflow =>
    LET missing == rcv.packet_count - Cardinality(got)
    IN /\ missing <= rcv.cnt_error
       /\ rcv.cnt_error <= missing + rcv.outoforder_packets

\* What the two ends print of one stream agrees, though the server prints from
\* its own counters and the client after the exchange, and though each ended
\* its omit period at its own time.  A client that receives prints the bytes
\* that the server printed as sent.  If both left the same out, a client that
\* sends prints the datagrams and the losses of the server, and one that
\* receives prints no more datagrams than the server.
SameOmitted ==
  /\ snd.omitted_packet_count = rcv.omitted_packet_count
  /\ snd.omitted_cnt_error = rcv.omitted_cnt_error
ReportsAgree ==
  \A c, s \in printed : c.side = Client /\ s.side = Server =>
    /\ reverse => c.sent = s.sent
    /\ reverse /\ SameOmitted /\ NoOverflow => c.packets <= s.packets
    /\ ~reverse /\ SameOmitted => c.packets = s.packets /\ c.lost = s.lost

\* The losses that the sender prints are in range as well.
SenderLossInRange ==
  NoOverflow =>
    \A p \in printed : p.side = "snd" => 0 <= p.lost /\ p.lost <= p.packets

\* A stream that loses nothing is reported whole, however long it is: "A
\* --udp-counters-64bit flag has been added to support very long-running UDP
\* tests, which could cause a counter to overflow" (RELEASE_NOTES).
LongTestCounted == rcv.packet_count = reads
=============================================================================
