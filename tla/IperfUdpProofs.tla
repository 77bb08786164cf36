---------------------------- MODULE IperfUdpProofs ----------------------------
(***************************************************************************)
(* Proofs about the UDP accounting, for every width, every number of       *)
(* datagrams and every network.                                            *)
(***************************************************************************)
EXTENDS IperfUdp, FiniteSetTheorems, TLAPS

-----------------------------------------------------------------------------
(* The conversions *)

\* The widths are those of unsigned numbers, the wider one at least as wide.
LEMMA Widths ==
  /\ Mod \in Nat /\ Mod >= 4
  /\ Mod64 \in Nat /\ Mod64 >= Mod
  /\ IntMax \in Nat /\ 0 \in Int32 /\ Int32 \subseteq Int
<1>1. IntMax \in Nat /\ IntMax >= 1
  BY UdpAssumption
<1>2. Mod \in Nat /\ Mod >= 4
  BY <1>1 DEF Mod
<1>3. Mod64 \in Nat /\ Mod64 >= Mod
  <2>1. \A m \in Nat : m >= 1 => m * m \in Nat /\ m * m >= m
    OBVIOUS
  <2> QED BY <1>2, <2>1 DEF Mod64
<1> QED BY <1>1, <1>2, <1>3 DEF Int32

\* The remainder differs from the number by a multiple of the divisor.
LEMMA Remainder ==
  ASSUME NEW n \in Int, NEW w \in Nat, w > 0
  PROVE  n % w \in 0..(w - 1) /\ \E k \in Int : n % w = n + k * w
<1>1. n % w \in 0..(w - 1) /\ n \div w \in Int /\ n = w * (n \div w) + (n % w)
  OBVIOUS
<1>2. PICK q \in Int, r \in 0..(w - 1) : r = n % w /\ n = w * q + r
  BY <1>1, Zenon
<1>3. r = n + (0 - q) * w
  <2>1. (0 - q) * w = 0 - w * q /\ w * q \in Int /\ r \in Int
    OBVIOUS
  <2> QED BY <1>2, <2>1
<1>4. 0 - q \in Int
  OBVIOUS
<1> QED BY <1>2, <1>3, <1>4, Zenon

\* An assignment to an int gives an int, and one that differs by a multiple of
\* the width.
LEMMA ToIntFact ==
  ASSUME NEW n \in Int
  PROVE  /\ ToInt(n) \in Int32
         /\ \E k \in Int : ToInt(n) = n + k * Mod
         /\ n \in Int32 => ToInt(n) = n
<1>1. CASE n \in Int32
  <2>1. ToInt(n) = n + 0 * Mod
    BY <1>1, Widths DEF ToInt
  <2> QED BY <1>1, <2>1 DEF ToInt
<1>2. CASE n \notin Int32
  <2>1. n + IntMax + 1 \in Int /\ Mod \in Nat /\ Mod > 0
    BY Widths
  <2>2. ToInt(n) = ((n + IntMax + 1) % Mod) - IntMax - 1
    BY <1>2 DEF ToInt
  <2>3. (n + IntMax + 1) % Mod \in 0..(Mod - 1)
    BY <2>1, Remainder
  <2>4. ToInt(n) \in Int32
    BY <2>2, <2>3, Widths DEF Int32, Mod
  <2>5. PICK k \in Int : (n + IntMax + 1) % Mod = n + IntMax + 1 + k * Mod
    BY <2>1, Remainder
  <2>6. ToInt(n) = n + k * Mod
    BY <2>1, <2>2, <2>5, Widths
  <2> QED BY <1>2, <2>4, <2>6
<1> QED BY <1>1, <1>2

\* What is compared and sent is a 64-bit unsigned number.
LEMMA WireFact ==
  ASSUME NEW n \in Int32
  PROVE  /\ Wire(n) \in 0..(Mod64 - 1)
         /\ n >= 0 => Wire(n) = n
<1>1. n \in Int /\ -IntMax - 1 <= n /\ n <= IntMax
  BY Widths DEF Int32
<1>2. IntMax + 1 < Mod
  BY Widths DEF Mod
<1> QED BY <1>1, <1>2, Widths DEF Wire

-----------------------------------------------------------------------------
(* Type correctness *)

\* A datagram under way has been sent, and carries its number as long as
\* numbers fit an int.
NetSound ==
  \A d \in net : d.no \in 1..sent /\ (d.no <= IntMax => d.pcount = d.no)

\* The sender's counter is the number of datagrams, until the exchange
\* replaces it or it overflows.
SenderCounts == NoOverflow /\ ~exchanged => snd.packet_count = sent

\* After the exchange both sides are closed.
ClosedAfter == exchanged => phase["snd"] = "closed" /\ phase["rcv"] = "closed"

TypeInv == TypeOK /\ NetSound /\ SenderCounts /\ ClosedAfter

LEMMA Fields ==
  ASSUME NEW sp \in Stream
  PROVE  /\ sp.packet_count \in Int32 /\ sp.omitted_packet_count \in Int32
         /\ sp.cnt_error \in Int32 /\ sp.omitted_cnt_error \in Int32
         /\ sp.packet_count \in Int /\ sp.omitted_packet_count \in Int
         /\ sp.cnt_error \in Int /\ sp.omitted_cnt_error \in Int
         /\ sp.outoforder_packets \in Nat /\ sp.omitted_outoforder_packets \in Nat
         /\ sp.bytes_sent \in Int /\ sp.bytes_sent_omit \in Int
         /\ sp.bytes_received \in Int /\ sp.this_interval \in Nat
<1>1. /\ sp.packet_count \in Int32 /\ sp.omitted_packet_count \in Int32
      /\ sp.cnt_error \in Int32 /\ sp.omitted_cnt_error \in Int32
      /\ sp.outoforder_packets \in Nat /\ sp.omitted_outoforder_packets \in Nat
      /\ sp.bytes_sent \in Int /\ sp.bytes_sent_omit \in Int
      /\ sp.bytes_received \in Int /\ sp.this_interval \in Nat
  BY DEF Stream
<1> QED BY <1>1, Widths

\* Counting a datagram keeps the type of the stream and changes only the
\* three counters.
LEMMA CountType ==
  ASSUME NEW sp \in Stream, NEW p \in 0..(Mod64 - 1), NEW next \in Int
  PROVE  /\ Count(sp, p, next) \in Stream
         /\ Count(sp, p, next) =
              [sp EXCEPT !.packet_count = Count(sp, p, next).packet_count,
                         !.cnt_error = Count(sp, p, next).cnt_error,
                         !.outoforder_packets = Count(sp, p, next).outoforder_packets]
<1> DEFINE u == ToU64(p - 1 - ToU64(sp.packet_count))
<1>1. sp.packet_count \in Int /\ sp.cnt_error \in Int /\ p \in Int
  BY Fields, Widths
<1>2. u \in Int
  BY <1>1, Widths DEF ToU64
<1>3. ToInt(sp.cnt_error + u) \in Int32 /\ ToInt(p) \in Int32
  <2>1. sp.cnt_error + u \in Int
    BY <1>1, <1>2
  <2> QED BY <1>1, <2>1, ToIntFact
<1> HIDE DEF u
<1>4. CASE p >= next
  <2>1. Count(sp, p, next) =
          [sp EXCEPT !.cnt_error = IF p > next THEN ToInt(sp.cnt_error + u)
                                               ELSE sp.cnt_error,
                     !.packet_count = ToInt(p)]
    BY <1>4 DEF Count, u, Stream
  <2> QED BY <1>3, <2>1 DEF Stream
<1>5. CASE ~(p >= next)
  <2>1. sp.outoforder_packets + 1 \in Nat
    BY Fields
  <2>2. Count(sp, p, next) =
          [sp EXCEPT !.outoforder_packets = sp.outoforder_packets + 1]
    BY <1>5 DEF Count
  <2> QED BY <2>1, <2>2 DEF Stream
<1> QED BY <1>4, <1>5

LEMMA ResetType ==
  ASSUME NEW sp \in Stream
  PROVE  ResetStats(sp) \in Stream /\ ResetStats(sp).packet_count = sp.packet_count
<1>1. /\ sp.packet_count \in Int32 /\ sp.cnt_error \in Int32
      /\ sp.outoforder_packets \in Nat /\ sp.bytes_sent \in Int
  BY Fields
<1>2. 0 \in Int /\ 0 \in Nat
  OBVIOUS
<1>3. ResetStats(sp) \in Stream
  BY <1>1, <1>2 DEF ResetStats, Stream
<1>4. ResetStats(sp).packet_count = sp.packet_count
  BY DEF ResetStats, Stream
<1> QED BY <1>3, <1>4

LEMMA AfterType ==
  ASSUME NEW n \in Int32 PROVE After(n) \subseteq Int
<1>1. n + 1 \in Int
  BY Widths
<1>2. ToInt(n + 1) \in Int
  BY <1>1, ToIntFact, Widths
<1> QED BY <1>1, <1>2, Widths DEF After, ToU64

\* What is printed has its type.
LEMMA ReportType ==
  ASSUME TypeOK, NEW side \in Sides, Prints(side)
  PROVE  printed' \subseteq [side : Sides, sent : Int, packets : Int, lost : Int]
<1> DEFINE sp == IF side = "snd" THEN snd ELSE rcv
<1>1. sp \in Stream
  BY DEF TypeOK
<1> HIDE DEF sp
<1>2. SentOf(sp) \in Int /\ Total(sp) \in Int /\ Lost(sp) \in Int
  BY <1>1, Fields DEF SentOf, Total, Lost
<1>3. Report(side, sp) \in [side : Sides, sent : Int, packets : Int, lost : Int]
  BY <1>2 DEF Report
<1>4. printed' = printed \cup {Report(side, sp)}
  BY DEF Prints, sp
<1> QED BY <1>3, <1>4 DEF TypeOK

LEMMA TypeInit == Init => TypeInv
<1> SUFFICES ASSUME Init PROVE TypeInv
  OBVIOUS
<1>1. NewStream \in Stream
  BY Widths DEF NewStream, Stream
<1>2. NoInterval \in Interval
  BY Widths DEF NoInterval, Interval
<1>3. TypeOK
  <2>1. /\ reverse \in BOOLEAN /\ exchanged \in BOOLEAN
        /\ omitting \in [Sides -> BOOLEAN]
        /\ phase \in [Sides -> {"running", "ended", "closed"}]
    BY DEF Init
  <2>2. snd \in Stream /\ rcv \in Stream /\ irp \in Interval
    BY <1>1, <1>2 DEF Init
  <2>3. sent \in 0..MaxPackets /\ got \subseteq 1..sent /\ reads \in Nat
    BY UdpAssumption DEF Init
  <2>4. /\ net \subseteq [no : Nat, pcount : 0..(Mod64 - 1)]
        /\ printed \subseteq [side : Sides, sent : Int, packets : Int, lost : Int]
    BY DEF Init
  <2> QED BY <2>1, <2>2, <2>3, <2>4 DEF TypeOK
<1>4. NetSound /\ SenderCounts /\ ClosedAfter
  BY DEF Init, NetSound, SenderCounts, ClosedAfter, NewStream
<1> QED BY <1>3, <1>4 DEF TypeInv

LEMMA TypeStep == TypeInv /\ [Next]_vars => TypeInv'
<1> SUFFICES ASSUME TypeInv, [Next]_vars PROVE TypeInv'
  OBVIOUS
<1> USE DEF TypeInv, TypeOK, Sides
<1>1. CASE Send
  <2> DEFINE n == ToInt(snd.packet_count + 1)
  <2>1. n \in Int32
    <3>1. snd.packet_count + 1 \in Int
      BY Fields
    <3> QED BY <3>1, ToIntFact
  <2>2. sent \in Nat /\ sent' = sent + 1 /\ sent' \in 0..MaxPackets
    BY <1>1, UdpAssumption DEF Send
  <2>3. ~exchanged
    BY <1>1 DEF Send, ClosedAfter
  <2>4. NoOverflow' => n = sent + 1
    <3> SUFFICES ASSUME sent + 1 <= IntMax PROVE n = sent + 1
      BY <2>2 DEF NoOverflow
    <3>1. snd.packet_count = sent
      BY <2>2, <2>3, Widths DEF SenderCounts, NoOverflow
    <3>2. sent + 1 \in Int32
      BY <2>2, Widths DEF Int32
    <3> QED BY <3>1, <3>2, ToIntFact, Widths
  <2>5. Wire(n) \in 0..(Mod64 - 1) /\ (NoOverflow' => Wire(n) = sent + 1)
    BY <2>1, <2>2, <2>4, WireFact
  <2>6. snd' \in Stream /\ snd'.packet_count = n
    <3>1. snd.bytes_sent + 1 \in Int
      BY Fields
    <3>2. \/ snd' = [snd EXCEPT !.packet_count = n, !.bytes_sent = snd.bytes_sent + 1]
          \/ snd' = [snd EXCEPT !.packet_count = n]
      BY <1>1 DEF Send
    <3> HIDE DEF n
    <3> QED BY <2>1, <3>1, <3>2 DEF Stream
  <2>7. net' \subseteq net \cup {[no |-> sent + 1, pcount |-> Wire(n)]}
    BY <1>1 DEF Send
  <2> HIDE DEF n
  <2>8. NetSound' /\ net' \subseteq [no : Nat, pcount : 0..(Mod64 - 1)]
    BY <2>2, <2>5, <2>7, Widths DEF NetSound, NoOverflow
  <2> QED BY <1>1, <2>2, <2>3, <2>4, <2>6, <2>8
          DEF Send, SenderCounts, ClosedAfter
<1>2. ASSUME NEW d \in net, Lose(d) PROVE TypeInv'
  BY <1>2 DEF Lose, history, NetSound, SenderCounts, NoOverflow, ClosedAfter
<1>3. ASSUME NEW d \in net, Recv(d) PROVE TypeInv'
  <2>1. PICK next \in After(rcv.packet_count) :
          rcv' = [Count(rcv, d.pcount, next) EXCEPT
                    !.bytes_received = @ + 1, !.this_interval = @ + 1]
    BY <1>3 DEF Recv
  <2>2. Count(rcv, d.pcount, next) \in Stream
    <3>1. rcv.packet_count \in Int32
      BY DEF Stream
    <3>2. next \in Int
      BY <3>1, AfterType
    <3> QED BY <3>2, CountType
  <2>3. rcv' \in Stream
    <3> DEFINE c == Count(rcv, d.pcount, next)
    <3>1. c.bytes_received + 1 \in Int /\ c.this_interval + 1 \in Nat
      BY <2>2, Fields
    <3> HIDE DEF c
    <3> QED BY <2>1, <2>2, <3>1 DEF Stream, c
  <2>4. net' \subseteq net /\ got' \subseteq 1..sent /\ reads' \in Nat
    BY <1>3 DEF Recv, Arrives, NetSound
  <2> QED BY <1>3, <2>3, <2>4
          DEF Recv, NetSound, SenderCounts, NoOverflow, ClosedAfter
<1>4. ASSUME NEW s \in Sides, OmitTimer(s) PROVE TypeInv'
  <2>1. ResetStats(snd) \in Stream /\ ResetStats(rcv) \in Stream
    BY ResetType
  <2>2. ResetStats(snd).packet_count = snd.packet_count
    BY ResetType
  <2> QED BY <1>4, <2>1, <2>2
          DEF OmitTimer, history, NetSound, SenderCounts, NoOverflow, ClosedAfter
<1>5. ASSUME Gather PROVE irp' \in Interval /\ rcv' \in Stream
  <2>1. /\ rcv.packet_count - irp.packet_count \in Int
        /\ rcv.cnt_error - irp.cnt_error \in Int
    <3>1. irp.packet_count \in Int32 /\ irp.cnt_error \in Int32
      BY DEF Interval
    <3>2. irp.packet_count \in Int /\ irp.cnt_error \in Int
      BY <3>1, Widths
    <3>3. rcv.packet_count \in Int /\ rcv.cnt_error \in Int
      BY Fields
    <3> QED BY <3>2, <3>3
  <2>2. /\ ToInt(rcv.packet_count - irp.packet_count) \in Int32
        /\ ToInt(rcv.cnt_error - irp.cnt_error) \in Int32
    BY <2>1, ToIntFact
  <2> QED BY <1>5, <2>2 DEF Gather, Stream, Interval
<1>6. CASE StatsTimer
  BY <1>5, <1>6 DEF StatsTimer, history, NetSound, SenderCounts, NoOverflow, ClosedAfter
<1>7. CASE ClientEnds
  BY <1>5, <1>7
  DEF ClientEnds, Client, history, NetSound, SenderCounts, NoOverflow, ClosedAfter
<1>8. CASE ServerEnds
  <2>1. printed' \subseteq [side : Sides, sent : Int, packets : Int, lost : Int]
    BY <1>8, ReportType DEF ServerEnds, Server
  <2> QED BY <1>5, <1>8, <2>1
          DEF ServerEnds, Client, Server, history, NetSound, SenderCounts, NoOverflow,
              ClosedAfter
<1>9. CASE Exchange
  <2>1. SentBytes(snd) \in Int
    BY DEF SentBytes, Stream
  <2>2. snd' \in Stream /\ rcv' \in Stream
    BY <1>9, <2>1 DEF Exchange, Stream
  <2> QED BY <1>9, <2>2
          DEF Exchange, history, NetSound, SenderCounts, NoOverflow, ClosedAfter
<1>10. CASE ClientPrints
  <2>1. printed' \subseteq [side : Sides, sent : Int, packets : Int, lost : Int]
    BY <1>10, ReportType DEF ClientPrints, Client
  <2> QED BY <1>10, <2>1
          DEF ClientPrints, history, NetSound, SenderCounts, NoOverflow, ClosedAfter
<1>11. CASE UNCHANGED vars
  BY <1>11 DEF vars, history, NetSound, SenderCounts, NoOverflow, ClosedAfter
<1> QED BY <1>1, <1>2, <1>3, <1>4, <1>6, <1>7, <1>8, <1>9, <1>10, <1>11 DEF Next

\* The counters keep their types whatever the network does, and nothing is
\* read that was not sent.
THEOREM TypeCorrect == Spec => []TypeOK
<1>1. TypeInv => TypeOK
  BY DEF TypeInv
<1> QED BY <1>1, TypeInit, TypeStep, PTL DEF Spec

-----------------------------------------------------------------------------
(* The balance of the counters *)

\* Two numbers an int cannot tell apart.
Same(a, b) == \E k \in Int : a = b + k * Mod

LEMMA SameSelf == ASSUME NEW a \in Int PROVE Same(a, a)
<1>1. a = a + 0 * Mod
  BY Widths
<1> QED BY <1>1 DEF Same

LEMMA SameDiff ==
  ASSUME NEW a \in Int, NEW b \in Int, NEW c \in Int, NEW d \in Int,
         Same(a, b), Same(c, d)
  PROVE  Same(a - c, b - d)
<1>1. PICK k \in Int : a = b + k * Mod
  BY DEF Same
<1>2. PICK l \in Int : c = d + l * Mod
  BY DEF Same
<1>3. k * Mod \in Int /\ l * Mod \in Int /\ (k - l) * Mod = k * Mod - l * Mod
  BY Widths
<1>4. a - c = b - d + (k - l) * Mod
  BY <1>1, <1>2, <1>3
<1>5. k - l \in Int
  OBVIOUS
<1> QED BY <1>4, <1>5 DEF Same

LEMMA SameSum ==
  ASSUME NEW a \in Int, NEW b \in Int, NEW c \in Int, NEW d \in Int,
         Same(a, b), Same(c, d)
  PROVE  Same(a + c, b + d)
<1>1. PICK k \in Int : a = b + k * Mod
  BY DEF Same
<1>2. PICK l \in Int : c = d + l * Mod
  BY DEF Same
<1>3. k * Mod \in Int /\ l * Mod \in Int /\ (k + l) * Mod = k * Mod + l * Mod
  BY Widths
<1>4. a + c = b + d + (k + l) * Mod
  BY <1>1, <1>2, <1>3
<1>5. k + l \in Int
  OBVIOUS
<1> QED BY <1>4, <1>5 DEF Same

LEMMA SameTrans ==
  ASSUME NEW a \in Int, NEW b \in Int, NEW c \in Int, Same(a, b), Same(b, c)
  PROVE  Same(a, c)
<1>1. Same(b - b, c - b)
  BY SameDiff, SameSelf
<1>2. Same(a + (b - b), b + (c - b))
  <2>1. b - b \in Int /\ c - b \in Int
    OBVIOUS
  <2> QED BY <1>1, <2>1, SameSum
<1>3. a + (b - b) = a /\ b + (c - b) = c
  OBVIOUS
<1> QED BY <1>2, <1>3

\* The conversions keep a number the same.
LEMMA SameInt ==
  ASSUME NEW n \in Int
  PROVE  ToInt(n) \in Int /\ Same(ToInt(n), n)
BY ToIntFact, Widths DEF Same

LEMMA SameU64 ==
  ASSUME NEW n \in Int
  PROVE  ToU64(n) \in Int /\ Same(ToU64(n), n)
<1>1. CASE n >= 0
  BY <1>1, SameSelf DEF ToU64
<1>2. CASE ~(n >= 0)
  <2>1. ToU64(n) = n + Mod * Mod
    BY <1>2 DEF ToU64, Mod64
  <2> QED BY <2>1, Widths DEF Same
<1> QED BY <1>1, <1>2

\* A multiple of the width leaves no remainder.
LEMMA SameZero ==
  ASSUME NEW x \in Int, Same(x, 0) PROVE x % Mod = 0
<1>1. PICK k \in Int : x = 0 + k * Mod
  BY DEF Same
<1>2. PICK l \in Int, r \in 0..(Mod - 1) : r = x % Mod /\ r = x + l * Mod
  BY Remainder, Widths
<1>3. Mod \in Nat /\ Mod >= 4 /\ r \in Int
  BY Widths
<1>4. r = (k + l) * Mod
  <2>1. (k + l) * Mod = k * Mod + l * Mod /\ k * Mod \in Int /\ l * Mod \in Int
    BY <1>3
  <2> QED BY <1>1, <1>2, <2>1
<1>5. \A t \in Int : /\ t >= 1 => t * Mod >= Mod
                     /\ t <= -1 => t * Mod <= -Mod
                     /\ t = 0 => t * Mod = 0
  BY <1>3
<1>6. k + l \in Int
  OBVIOUS
<1>7. r < Mod /\ 0 <= r
  BY <1>2, <1>3
<1>8. r = 0
  <2>1. ~(k + l >= 1)
    BY <1>3, <1>4, <1>5, <1>6, <1>7
  <2>2. ~(k + l <= -1)
    BY <1>3, <1>4, <1>5, <1>6, <1>7
  <2>3. k + l = 0
    BY <1>6, <2>1, <2>2
  <2> QED BY <1>4, <1>5, <1>6, <2>3
<1> QED BY <1>2, <1>8

Balance(sp) == sp.packet_count - sp.cnt_error + sp.outoforder_packets

\* A datagram adds one to the balance, whichever way it is counted.
LEMMA CountBalance ==
  ASSUME NEW sp \in Stream, NEW p \in 0..(Mod64 - 1),
         NEW next \in After(sp.packet_count)
  PROVE  Same(Balance(Count(sp, p, next)), Balance(sp) + 1)
<1> DEFINE pc == sp.packet_count
           ce == sp.cnt_error
           oo == sp.outoforder_packets
           u  == ToU64(p - 1 - ToU64(pc))
           c  == Count(sp, p, next)
<1>1. pc \in Int /\ ce \in Int /\ oo \in Int /\ p \in Int /\ pc + 1 \in Int
  BY Fields, Widths
<1>2. next \in Int
  <2>1. pc \in Int32
    BY Fields
  <2> HIDE DEF pc
  <2> QED BY <2>1, AfterType DEF pc
<1>3. ToInt(p) \in Int /\ Same(ToInt(p), p)
  BY <1>1, SameInt
<1>4. Same(next, pc + 1)
  <2>1. CASE next = ToU64(pc + 1)
    BY <1>1, <2>1, SameU64
  <2>2. CASE next = ToU64(ToInt(pc + 1))
    <3>1. ToInt(pc + 1) \in Int /\ Same(ToInt(pc + 1), pc + 1)
      BY <1>1, SameInt
    <3>2. Same(next, ToInt(pc + 1))
      BY <2>2, <3>1, SameU64
    <3> HIDE DEF pc
    <3> QED BY <1>1, <1>2, <3>1, <3>2, SameTrans
  <2> QED BY <2>1, <2>2 DEF After
<1>5. u \in Int /\ Same(u, p - 1 - pc) /\ ToInt(ce + u) \in Int
        /\ Same(ToInt(ce + u), ce + (p - 1 - pc))
  <2>1. ToU64(pc) \in Int /\ Same(ToU64(pc), pc)
    BY <1>1, SameU64
  <2>2. p - 1 \in Int /\ Same(p - 1, p - 1)
    BY <1>1, SameSelf
  <2>3. Same(p - 1 - ToU64(pc), p - 1 - pc)
    <3> HIDE DEF pc
    <3> QED BY <1>1, <2>1, <2>2, SameDiff
  <2>4. p - 1 - ToU64(pc) \in Int /\ p - 1 - pc \in Int
    BY <1>1, <2>1
  <2>5. u \in Int /\ Same(u, p - 1 - ToU64(pc))
    BY <2>4, SameU64
  <2> HIDE DEF pc, ce, u
  <2>6. Same(u, p - 1 - pc)
    BY <2>3, <2>4, <2>5, SameTrans
  <2>7. Same(ce + u, ce + (p - 1 - pc)) /\ ce + u \in Int
    <3>1. Same(ce, ce)
      BY <1>1, SameSelf
    <3> QED BY <1>1, <2>4, <2>5, <2>6, <3>1, SameSum
  <2>8. ToInt(ce + u) \in Int /\ Same(ToInt(ce + u), ce + u)
    BY <2>7, SameInt
  <2>9. ce + (p - 1 - pc) \in Int
    BY <1>1, <2>4
  <2> QED BY <2>5, <2>6, <2>7, <2>8, <2>9, SameTrans
<1>6. CASE p > next
  <2>1. Balance(c) = ToInt(p) - ToInt(ce + u) + oo
    <3>1. p >= next
      BY <1>1, <1>2, <1>6
    <3> QED BY <1>6, <3>1 DEF Balance, Count, Stream
  <2> HIDE DEF pc, ce, oo, u, c
  <2>2. ce + (p - 1 - pc) \in Int
    BY <1>1
  <2>3. Same(ToInt(p) - ToInt(ce + u), p - (ce + (p - 1 - pc)))
    BY <1>1, <1>3, <1>5, <2>2, SameDiff
  <2>4. Same(ToInt(p) - ToInt(ce + u) + oo, p - (ce + (p - 1 - pc)) + oo)
    <3>1. Same(oo, oo) /\ ToInt(p) - ToInt(ce + u) \in Int
            /\ p - (ce + (p - 1 - pc)) \in Int
      BY <1>1, <1>3, <1>5, <2>2, SameSelf
    <3> QED BY <1>1, <2>3, <3>1, SameSum
  <2>5. p - (ce + (p - 1 - pc)) + oo = pc - ce + oo + 1
    BY <1>1
  <2> QED BY <2>1, <2>4, <2>5 DEF Balance, pc, ce, oo, c
<1>7. CASE p = next
  <2>1. Balance(c) = ToInt(p) - ce + oo
    <3>1. p >= next /\ ~(p > next)
      BY <1>1, <1>2, <1>7
    <3> QED BY <3>1 DEF Balance, Count, Stream
  <2> HIDE DEF pc, ce, oo, u, c
  <2>2. Same(ToInt(p), pc + 1)
    BY <1>1, <1>3, <1>4, <1>7, SameTrans
  <2>3. Same(ToInt(p) - (ce - oo), pc + 1 - (ce - oo))
    <3>1. ce - oo \in Int /\ Same(ce - oo, ce - oo)
      BY <1>1, SameSelf
    <3> QED BY <1>1, <1>3, <2>2, <3>1, SameDiff
  <2>4. /\ ToInt(p) - (ce - oo) = ToInt(p) - ce + oo
        /\ pc + 1 - (ce - oo) = pc - ce + oo + 1
    BY <1>1, <1>3
  <2> QED BY <2>1, <2>3, <2>4 DEF Balance, pc, ce, oo, c
<1>8. CASE ~(p >= next)
  <2>1. Balance(c) = pc - ce + (oo + 1)
    BY <1>8 DEF Balance, Count, Stream
  <2>2. Balance(c) = Balance(sp) + 1 /\ Balance(sp) + 1 \in Int
    <3> HIDE DEF c
    <3> QED BY <1>1, <2>1 DEF Balance
  <2> QED BY <2>2, SameSelf
<1> QED BY <1>1, <1>2, <1>6, <1>7, <1>8

BalanceInv == Same(Balance(rcv) - reads, 0)

SameCounters ==
  /\ rcv'.packet_count = rcv.packet_count
  /\ rcv'.cnt_error = rcv.cnt_error
  /\ rcv'.outoforder_packets = rcv.outoforder_packets

\* What does not read a datagram leaves the counters of the receiver alone.
LEMMA OtherSteps ==
  ASSUME TypeInv, Next, ~ \E d \in net : Recv(d)
  PROVE  SameCounters /\ reads' = reads /\ got' = got /\ sent <= sent'
<1> USE DEF TypeInv, TypeOK
<1>1. CASE Send
  <2>1. sent \in Nat
    BY UdpAssumption
  <2> QED BY <1>1, <2>1 DEF Send, SameCounters
<1>2. sent' = sent => sent <= sent'
  BY UdpAssumption
<1>3. ASSUME NEW d \in net, Lose(d)
      PROVE  SameCounters /\ reads' = reads /\ got' = got /\ sent <= sent'
  BY <1>2, <1>3 DEF Lose, history, SameCounters
<1>4. ASSUME NEW s \in Sides, OmitTimer(s)
      PROVE  SameCounters /\ reads' = reads /\ got' = got /\ sent <= sent'
  <2>1. /\ ResetStats(rcv).packet_count = rcv.packet_count
        /\ ResetStats(rcv).cnt_error = rcv.cnt_error
        /\ ResetStats(rcv).outoforder_packets = rcv.outoforder_packets
    BY DEF ResetStats, Stream
  <2> QED BY <1>2, <1>4, <2>1 DEF OmitTimer, history, SameCounters
<1>5. ASSUME Gather PROVE SameCounters
  BY <1>5 DEF Gather, SameCounters, Stream
<1>6. CASE StatsTimer
  BY <1>2, <1>5, <1>6 DEF StatsTimer, history
<1>7. CASE ClientEnds
  BY <1>2, <1>5, <1>7 DEF ClientEnds, history, SameCounters
<1>8. CASE ServerEnds
  BY <1>2, <1>5, <1>8 DEF ServerEnds, history, SameCounters
<1>9. CASE Exchange
  BY <1>2, <1>9 DEF Exchange, history, SameCounters, Stream
<1>10. CASE ClientPrints
  BY <1>2, <1>10 DEF ClientPrints, history, SameCounters
<1> QED BY <1>1, <1>3, <1>4, <1>6, <1>7, <1>8, <1>9, <1>10 DEF Next

LEMMA BalanceStep == TypeInv /\ BalanceInv /\ [Next]_vars => BalanceInv'
<1> SUFFICES ASSUME TypeInv, BalanceInv, [Next]_vars PROVE BalanceInv'
  OBVIOUS
<1>1. ASSUME NEW d \in net, Recv(d) PROVE BalanceInv'
  <2>1. PICK next \in After(rcv.packet_count) :
          rcv' = [Count(rcv, d.pcount, next) EXCEPT
                    !.bytes_received = @ + 1, !.this_interval = @ + 1]
    BY <1>1 DEF Recv
  <2> DEFINE c == Count(rcv, d.pcount, next)
  <2>2. rcv \in Stream /\ d.pcount \in 0..(Mod64 - 1) /\ reads \in Int
    BY DEF TypeInv, TypeOK
  <2>3. rcv.packet_count \in Int32
    BY <2>2, Fields
  <2>4. next \in Int
    BY <2>3, AfterType
  <2>5. c \in Stream
    BY <2>2, <2>4, CountType
  <2>6. Same(Balance(c), Balance(rcv) + 1)
    BY <2>2, CountBalance
  <2> HIDE DEF c
  <2>7. rcv' = [c EXCEPT !.bytes_received = c.bytes_received + 1,
                         !.this_interval = c.this_interval + 1]
    BY <2>1 DEF c
  <2>8. Balance(rcv') = Balance(c)
    BY <2>5, <2>7 DEF Balance, Stream
  <2>9. Balance(c) \in Int /\ Balance(rcv) \in Int
    BY <2>2, <2>5, Fields DEF Balance
  <2>10. Same(Balance(c) - (reads + 1), Balance(rcv) + 1 - (reads + 1))
    <3>1. Same(reads + 1, reads + 1)
      BY <2>2, SameSelf
    <3> QED BY <2>2, <2>6, <2>9, <3>1, SameDiff
  <2>11. Balance(rcv) + 1 - (reads + 1) = Balance(rcv) - reads
    BY <2>2, <2>9
  <2>12. Same(Balance(c) - (reads + 1), 0)
    BY <2>2, <2>9, <2>10, <2>11, SameTrans DEF BalanceInv
  <2>13. reads' = reads + 1
    BY <1>1 DEF Recv
  <2> QED BY <2>8, <2>12, <2>13 DEF BalanceInv
<1>2. CASE Next /\ ~ \E d \in net : Recv(d)
  BY <1>2, OtherSteps DEF BalanceInv, Balance, SameCounters
<1>3. CASE UNCHANGED vars
  BY <1>3 DEF BalanceInv, vars, history
<1> QED BY <1>1, <1>2, <1>3

\* The receiver's counters balance against what it read, for every width and
\* also after they have wrapped, with 32-bit and with 64-bit numbers.
THEOREM CountersBalance == Spec => []Balanced
<1>1. Init => BalanceInv
  BY SameSelf DEF Init, BalanceInv, Balance, NewStream
<1>2. TypeInv /\ BalanceInv => Balanced
  <2> SUFFICES ASSUME TypeInv, BalanceInv PROVE Balanced
    OBVIOUS
  <2>1. rcv \in Stream /\ reads \in Int
    BY DEF TypeInv, TypeOK
  <2>2. Balance(rcv) - reads \in Int
    BY <2>1, Fields DEF Balance
  <2>3. \A x \in Int : Same(x, 0) => x % Mod = 0
    BY SameZero
  <2>4. Balance(rcv) - reads =
          rcv.packet_count - rcv.cnt_error + rcv.outoforder_packets - reads
    BY <2>1, Fields DEF Balance
  <2> QED BY <2>2, <2>3, <2>4 DEF Balanced, BalanceInv
<1> QED BY <1>1, <1>2, TypeInit, TypeStep, BalanceStep, PTL DEF Spec

-----------------------------------------------------------------------------
(* What the receiver reports, as long as numbers fit an int *)

\* Then a datagram is counted without any conversion.
LEMMA CountPlain ==
  ASSUME NEW sp \in Stream, NEW p \in 0..IntMax, NEW next \in After(sp.packet_count),
         0 <= sp.cnt_error, sp.cnt_error <= sp.packet_count
  PROVE  /\ p > sp.packet_count =>
              Count(sp, p, next) =
                [sp EXCEPT !.cnt_error = sp.cnt_error + (p - 1 - sp.packet_count),
                           !.packet_count = p]
         /\ ~(p > sp.packet_count) =>
              Count(sp, p, next) =
                [sp EXCEPT !.outoforder_packets = sp.outoforder_packets + 1]
<1> DEFINE pc == sp.packet_count
           ce == sp.cnt_error
<1>1. pc \in Int /\ ce \in Int /\ 0 <= pc /\ pc <= IntMax /\ pc \in Int32
        /\ IntMax \in Nat /\ p \in Int /\ p <= IntMax /\ 0 <= p
  BY Fields, Widths DEF Int32
<1> HIDE DEF pc, ce
<1>2. next = pc + 1 \/ (pc = IntMax /\ next > IntMax)
  <2>1. ToU64(pc + 1) = pc + 1
    BY <1>1 DEF ToU64
  <2>2. CASE pc < IntMax
    <3>1. ToInt(pc + 1) = pc + 1
      BY <1>1, <2>2, ToIntFact DEF Int32
    <3> QED BY <2>1, <3>1 DEF After, pc
  <2>3. CASE pc = IntMax
    <3> DEFINE t == ToInt(pc + 1)
    <3>1. t \in Int32 /\ t \in Int
      BY <1>1, ToIntFact, Widths
    <3>2. PICK k \in Int : t = pc + 1 + k * Mod
      BY <1>1, ToIntFact
    <3>3. k >= 0 => k * Mod >= 0
      BY Widths
    <3>4. k <= -1 => k * Mod <= -Mod
      BY Widths
    <3>5. k * Mod \in Int /\ (k >= 0 \/ k <= -1)
      BY Widths
    <3>6. t < 0
      <4>1. t <= IntMax
        BY <1>1, <3>1 DEF Int32
      <4> HIDE DEF t
      <4> QED BY <1>1, <2>3, <3>1, <3>2, <3>3, <3>4, <3>5, <4>1 DEF Mod
    <3>7. ToU64(t) = t + Mod64 /\ t >= -IntMax - 1
      BY <1>1, <3>1, <3>6 DEF ToU64, Int32
    <3>8. ToU64(t) > IntMax
      <4>1. Mod64 \in Int /\ Mod64 >= 2 * IntMax + 2
        BY <1>1, Widths DEF Mod
      <4> HIDE DEF t
      <4> QED BY <1>1, <3>1, <3>7, <4>1
    <3> QED BY <2>1, <2>3, <3>8 DEF After, pc
  <2> QED BY <1>1, <2>2, <2>3
<1>3. next \in Int /\ (p >= next <=> p > pc) /\ (p >= next => next = pc + 1)
  <2>1. next \in Int
    BY <1>1, AfterType DEF pc
  <2> QED BY <1>1, <1>2, <2>1
<1>4. CASE p > pc
  <2>1. ToInt(p) = p
    BY <1>1, <1>4, ToIntFact DEF Int32
  <2>2. ToU64(p - 1 - ToU64(pc)) = p - 1 - pc
    BY <1>1, <1>4 DEF ToU64
  <2>3. ToInt(ce + (p - 1 - pc)) = ce + (p - 1 - pc)
    <3>1. ce + (p - 1 - pc) \in Int32
      BY <1>1, <1>4 DEF Int32, pc, ce
    <3> QED BY <3>1, ToIntFact, Widths
  <2>4. ~(p > next) => ce + (p - 1 - pc) = ce
    BY <1>1, <1>3, <1>4
  <2> QED BY <1>3, <1>4, <2>1, <2>2, <2>3, <2>4 DEF Count, pc, ce
<1>5. CASE ~(p > pc)
  BY <1>3, <1>5 DEF Count, pc
<1> QED BY <1>4, <1>5 DEF pc

\* The counters of the receiver only grow, losses no faster than numbers, and
\* the snapshots of the omit period and of the last interval are old values.
CountsGrow ==
  /\ rcv.packet_count <= sent
  /\ 0 <= rcv.omitted_packet_count /\ 0 <= rcv.omitted_cnt_error
  /\ rcv.omitted_packet_count <= rcv.packet_count
  /\ rcv.omitted_cnt_error <= rcv.cnt_error
  /\ rcv.cnt_error <= rcv.packet_count
  /\ rcv.omitted_outoforder_packets <= rcv.outoforder_packets
  /\ Lost(rcv) <= Total(rcv)
  /\ 0 <= irp.packet_count /\ 0 <= irp.cnt_error
  /\ irp.packet_count <= rcv.packet_count
  /\ irp.cnt_error <= rcv.cnt_error
  /\ irp.outoforder_packets <= rcv.outoforder_packets
  /\ rcv.cnt_error - irp.cnt_error <= rcv.packet_count - irp.packet_count

\* What the interval that runs will have to account for.
IntervalDue ==
  (rcv.packet_count - irp.packet_count) - (rcv.cnt_error - irp.cnt_error)
    + (rcv.outoforder_packets - irp.outoforder_packets)

NoOmit == rcv.omitted_packet_count = 0 /\ rcv.omitted_outoforder_packets = 0

IntervalRuns ==
  /\ rcv.this_interval <= IntervalDue
  /\ NoOmit => rcv.this_interval = IntervalDue

ReportInv ==
  NoOverflow => /\ CountsGrow /\ IntervalRuns
                /\ AccountedFor /\ IntervalAccountedFor /\ LossInRange

\* The steps that change neither the receiver's counters nor its interval.
LEMMA ReportSame ==
  ASSUME ReportInv, rcv.packet_count \in Int, sent \in Int, IntMax \in Int,
         sent' \in Int, sent <= sent', irp' = irp,
         /\ rcv'.packet_count = rcv.packet_count
         /\ rcv'.omitted_packet_count = rcv.omitted_packet_count
         /\ rcv'.cnt_error = rcv.cnt_error
         /\ rcv'.omitted_cnt_error = rcv.omitted_cnt_error
         /\ rcv'.outoforder_packets = rcv.outoforder_packets
         /\ rcv'.omitted_outoforder_packets = rcv.omitted_outoforder_packets
         /\ rcv'.bytes_received = rcv.bytes_received
         /\ rcv'.this_interval = rcv.this_interval
  PROVE  ReportInv'
<1>1. NoOverflow' => NoOverflow
  BY DEF NoOverflow
<1> SUFFICES ASSUME NoOverflow, NoOverflow' PROVE ReportInv'
  BY <1>1 DEF ReportInv
<1>2. CountsGrow' /\ IntervalRuns'
  BY DEF ReportInv, CountsGrow, IntervalRuns, IntervalDue, NoOmit, Total, Lost
<1>3. AccountedFor' /\ IntervalAccountedFor' /\ LossInRange'
  BY DEF ReportInv, AccountedFor, IntervalAccountedFor, LossInRange, Total, Lost, Late
<1> QED BY <1>2, <1>3 DEF ReportInv

\* A statistics callback closes the interval that runs.
LEMMA ReportGather ==
  ASSUME TypeInv, ReportInv, Gather, sent' = sent
  PROVE  ReportInv'
<1>1. NoOverflow' <=> NoOverflow
  BY DEF NoOverflow
<1> SUFFICES ASSUME NoOverflow, NoOverflow' PROVE ReportInv'
  BY <1>1 DEF ReportInv
<1>2. rcv \in Stream /\ irp \in Interval /\ sent \in Int
  BY UdpAssumption DEF TypeInv, TypeOK
<1>3. /\ rcv.packet_count \in Int /\ rcv.cnt_error \in Int
      /\ rcv.omitted_packet_count \in Int /\ rcv.omitted_cnt_error \in Int
      /\ rcv.outoforder_packets \in Int /\ rcv.omitted_outoforder_packets \in Int
      /\ rcv.packet_count <= IntMax /\ IntMax \in Nat
      /\ rcv.this_interval \in Int
  <2>1. rcv.packet_count \in Int32
    BY <1>2, Fields
  <2> QED BY <1>2, <2>1, Fields, Widths DEF Int32
<1>4. /\ irp.packet_count \in Int /\ irp.cnt_error \in Int
      /\ irp.outoforder_packets \in Nat
  <2>1. /\ irp.packet_count \in Int32 /\ irp.cnt_error \in Int32
        /\ irp.outoforder_packets \in Nat
    BY <1>2 DEF Interval
  <2> QED BY <2>1, Widths
<1>5. CountsGrow /\ IntervalRuns /\ AccountedFor
  BY DEF ReportInv
<1>6. /\ ToInt(rcv.packet_count - irp.packet_count) = rcv.packet_count - irp.packet_count
      /\ ToInt(rcv.cnt_error - irp.cnt_error) = rcv.cnt_error - irp.cnt_error
  <2>1. /\ rcv.packet_count - irp.packet_count \in Int32
        /\ rcv.cnt_error - irp.cnt_error \in Int32
    BY <1>3, <1>4, <1>5 DEF CountsGrow, Int32
  <2> QED BY <2>1, ToIntFact, Widths
<1>7. /\ rcv'.packet_count = rcv.packet_count
      /\ rcv'.omitted_packet_count = rcv.omitted_packet_count
      /\ rcv'.cnt_error = rcv.cnt_error
      /\ rcv'.omitted_cnt_error = rcv.omitted_cnt_error
      /\ rcv'.outoforder_packets = rcv.outoforder_packets
      /\ rcv'.omitted_outoforder_packets = rcv.omitted_outoforder_packets
      /\ rcv'.bytes_received = rcv.bytes_received
      /\ rcv'.this_interval = 0
  BY <1>2 DEF Gather, Stream
<1>8. /\ irp'.packet_count = rcv.packet_count
      /\ irp'.cnt_error = rcv.cnt_error
      /\ irp'.outoforder_packets = rcv.outoforder_packets
      /\ irp'.interval_packet_count = rcv.packet_count - irp.packet_count
      /\ irp'.interval_cnt_error = rcv.cnt_error - irp.cnt_error
      /\ irp'.interval_outoforder_packets
           = rcv.outoforder_packets - irp.outoforder_packets
      /\ irp'.bytes_transferred = rcv.this_interval
  BY <1>6 DEF Gather
<1>9. CountsGrow'
  BY <1>3, <1>4, <1>5, <1>7, <1>8 DEF CountsGrow, Lost, Total
<1>10. IntervalRuns'
  BY <1>3, <1>7, <1>8 DEF IntervalRuns, IntervalDue
<1>11. AccountedFor'
  BY <1>5, <1>7 DEF AccountedFor, Total, Lost, Late
<1>12. IntervalAccountedFor'
  BY <1>3, <1>4, <1>5, <1>7, <1>8
  DEF IntervalAccountedFor, IntervalRuns, IntervalDue, NoOmit
<1>13. LossInRange'
  BY <1>3, <1>4, <1>5, <1>7, <1>8 DEF LossInRange, CountsGrow, Lost, Total
<1> QED BY <1>9, <1>10, <1>11, <1>12, <1>13 DEF ReportInv

\* The end of the omit period on the receiver.
LEMMA ReportReset ==
  ASSUME TypeInv, ReportInv, rcv' = ResetStats(rcv), irp' = irp, sent' = sent
  PROVE  ReportInv'
<1>1. NoOverflow' <=> NoOverflow
  BY DEF NoOverflow
<1> SUFFICES ASSUME NoOverflow, NoOverflow' PROVE ReportInv'
  BY <1>1 DEF ReportInv
<1>2. rcv \in Stream /\ irp \in Interval /\ sent \in Int
  BY UdpAssumption DEF TypeInv, TypeOK
<1>3. /\ rcv.packet_count \in Int /\ rcv.cnt_error \in Int
      /\ rcv.omitted_packet_count \in Int /\ rcv.omitted_cnt_error \in Int
      /\ rcv.outoforder_packets \in Nat /\ rcv.omitted_outoforder_packets \in Int
      /\ rcv.this_interval \in Int
  BY <1>2, Fields
<1>4. /\ irp.packet_count \in Int /\ irp.cnt_error \in Int
      /\ irp.outoforder_packets \in Nat
  <2>1. /\ irp.packet_count \in Int32 /\ irp.cnt_error \in Int32
        /\ irp.outoforder_packets \in Nat
    BY <1>2 DEF Interval
  <2> QED BY <2>1, Widths
<1>5. CountsGrow /\ IntervalRuns /\ AccountedFor /\ IntervalAccountedFor /\ LossInRange
  BY DEF ReportInv
<1>6. /\ rcv'.packet_count = rcv.packet_count
      /\ rcv'.omitted_packet_count = rcv.packet_count
      /\ rcv'.cnt_error = rcv.cnt_error
      /\ rcv'.omitted_cnt_error = rcv.cnt_error
      /\ rcv'.outoforder_packets = rcv.outoforder_packets
      /\ rcv'.omitted_outoforder_packets = rcv.outoforder_packets
      /\ rcv'.bytes_received = 0
      /\ rcv'.this_interval = 0
  BY <1>2 DEF ResetStats, Stream
<1>7. CountsGrow'
  BY <1>3, <1>4, <1>5, <1>6 DEF CountsGrow, Lost, Total
<1>8. IntervalRuns'
  <2>1. 0 <= IntervalDue
    BY <1>3, <1>4, <1>5 DEF CountsGrow, IntervalDue
  <2>2. IntervalDue' = IntervalDue
    BY <1>6 DEF IntervalDue
  <2>3. NoOmit' => IntervalDue = 0
    BY <1>3, <1>4, <1>5, <1>6 DEF NoOmit, IntervalDue, CountsGrow
  <2> QED BY <1>6, <2>1, <2>2, <2>3 DEF IntervalRuns
<1>9. AccountedFor'
  BY <1>3, <1>6 DEF AccountedFor, Total, Lost, Late
<1>10. IntervalAccountedFor'
  <2>1. rcv.omitted_outoforder_packets \in Nat
    BY <1>2, Fields
  <2>2. NoOmit' => NoOmit
    BY <1>3, <1>5, <1>6, <2>1 DEF NoOmit, CountsGrow
  <2> QED BY <1>5, <2>2 DEF IntervalAccountedFor, NoOmit
<1>11. LossInRange'
  BY <1>3, <1>5, <1>6 DEF LossInRange, Lost, Total
<1> QED BY <1>7, <1>8, <1>9, <1>10, <1>11 DEF ReportInv

\* A datagram that is read.
LEMMA ReportRecv ==
  ASSUME TypeInv, ReportInv, NEW d \in net, Recv(d)
  PROVE  ReportInv'
<1>1. NoOverflow' <=> NoOverflow
  BY DEF NoOverflow, Recv
<1> SUFFICES ASSUME NoOverflow, NoOverflow' PROVE ReportInv'
  BY <1>1 DEF ReportInv
<1>2. rcv \in Stream /\ irp \in Interval /\ sent \in Int /\ sent <= IntMax
        /\ irp' = irp /\ sent' = sent
  BY UdpAssumption DEF TypeInv, TypeOK, NoOverflow, Recv
<1>3. /\ rcv.packet_count \in Int /\ rcv.cnt_error \in Int
      /\ rcv.omitted_packet_count \in Int /\ rcv.omitted_cnt_error \in Int
      /\ rcv.outoforder_packets \in Nat /\ rcv.omitted_outoforder_packets \in Nat
      /\ rcv.this_interval \in Int /\ rcv.bytes_received \in Int
  BY <1>2, Fields
<1>4. /\ irp.packet_count \in Int /\ irp.cnt_error \in Int
      /\ irp.outoforder_packets \in Nat
  <2>1. /\ irp.packet_count \in Int32 /\ irp.cnt_error \in Int32
        /\ irp.outoforder_packets \in Nat
    BY <1>2 DEF Interval
  <2> QED BY <2>1, Widths
<1>5. CountsGrow /\ IntervalRuns /\ AccountedFor /\ IntervalAccountedFor /\ LossInRange
  BY DEF ReportInv
<1>6. PICK next \in After(rcv.packet_count) :
        rcv' = [Count(rcv, d.pcount, next) EXCEPT
                  !.bytes_received = @ + 1, !.this_interval = @ + 1]
  BY DEF Recv
<1> DEFINE p == d.pcount
<1>7. p \in 1..sent /\ p \in 0..IntMax
  BY <1>2, Widths DEF TypeInv, NetSound
<1> HIDE DEF p
<1>8. 0 <= rcv.cnt_error
  BY <1>3, <1>5 DEF CountsGrow
<1>9. rcv.cnt_error <= rcv.packet_count
  BY <1>5 DEF CountsGrow
<1>10. CASE p > rcv.packet_count
  <2>1. Count(rcv, p, next) =
          [rcv EXCEPT !.cnt_error = rcv.cnt_error + (p - 1 - rcv.packet_count),
                      !.packet_count = p]
    BY <1>2, <1>7, <1>8, <1>9, <1>10, CountPlain
  <2>2. /\ rcv'.packet_count = p
        /\ rcv'.omitted_packet_count = rcv.omitted_packet_count
        /\ rcv'.cnt_error = rcv.cnt_error + (p - 1 - rcv.packet_count)
        /\ rcv'.omitted_cnt_error = rcv.omitted_cnt_error
        /\ rcv'.outoforder_packets = rcv.outoforder_packets
        /\ rcv'.omitted_outoforder_packets = rcv.omitted_outoforder_packets
        /\ rcv'.bytes_received = rcv.bytes_received + 1
        /\ rcv'.this_interval = rcv.this_interval + 1
    BY <1>2, <1>6, <2>1 DEF Stream, p
  <2>3. CountsGrow'
    BY <1>2, <1>3, <1>4, <1>5, <1>7, <1>10, <2>2 DEF CountsGrow, Lost, Total
  <2>4. IntervalRuns'
    BY <1>2, <1>3, <1>4, <1>5, <1>7, <2>2 DEF IntervalRuns, IntervalDue, NoOmit
  <2>5. AccountedFor'
    BY <1>3, <1>5, <1>7, <2>2 DEF AccountedFor, Total, Lost, Late
  <2>6. IntervalAccountedFor'
    BY <1>2, <1>5, <2>2 DEF IntervalAccountedFor
  <2>7. LossInRange'
    BY <1>2, <1>3, <1>5, <1>7, <1>10, <2>2 DEF LossInRange, Lost, Total
  <2> QED BY <2>3, <2>4, <2>5, <2>6, <2>7 DEF ReportInv
<1>11. CASE ~(p > rcv.packet_count)
  <2>1. Count(rcv, p, next) =
          [rcv EXCEPT !.outoforder_packets = rcv.outoforder_packets + 1]
    BY <1>2, <1>7, <1>8, <1>9, <1>11, CountPlain
  <2>2. /\ rcv'.packet_count = rcv.packet_count
        /\ rcv'.omitted_packet_count = rcv.omitted_packet_count
        /\ rcv'.cnt_error = rcv.cnt_error
        /\ rcv'.omitted_cnt_error = rcv.omitted_cnt_error
        /\ rcv'.outoforder_packets = rcv.outoforder_packets + 1
        /\ rcv'.omitted_outoforder_packets = rcv.omitted_outoforder_packets
        /\ rcv'.bytes_received = rcv.bytes_received + 1
        /\ rcv'.this_interval = rcv.this_interval + 1
    BY <1>2, <1>6, <2>1 DEF Stream, p
  <2>3. CountsGrow'
    BY <1>2, <1>3, <1>4, <1>5, <2>2 DEF CountsGrow, Lost, Total
  <2>4. IntervalRuns'
    BY <1>2, <1>3, <1>4, <1>5, <2>2 DEF IntervalRuns, IntervalDue, NoOmit
  <2>5. AccountedFor'
    BY <1>3, <1>5, <2>2 DEF AccountedFor, Total, Lost, Late
  <2>6. IntervalAccountedFor'
    BY <1>2, <1>5, <2>2 DEF IntervalAccountedFor
  <2>7. LossInRange'
    BY <1>2, <1>3, <1>5, <2>2 DEF LossInRange, Lost, Total
  <2> QED BY <2>3, <2>4, <2>5, <2>6, <2>7 DEF ReportInv
<1> QED BY <1>10, <1>11

LEMMA ReportStep == TypeInv /\ TypeInv' /\ ReportInv /\ [Next]_vars => ReportInv'
<1> SUFFICES ASSUME TypeInv, TypeInv', ReportInv, [Next]_vars PROVE ReportInv'
  OBVIOUS
<1>1. rcv \in Stream /\ rcv.packet_count \in Int /\ IntMax \in Int
        /\ sent \in Int /\ sent' \in Int
  BY Fields, UdpAssumption DEF TypeInv, TypeOK
<1>2. CASE Send
  <2>1. rcv' = rcv /\ irp' = irp /\ sent <= sent'
    BY <1>1, <1>2 DEF Send
  <2> QED BY <1>1, <2>1, ReportSame
<1>3. ASSUME NEW d \in net, Lose(d) PROVE ReportInv'
  <2>1. rcv' = rcv /\ irp' = irp /\ sent <= sent'
    BY <1>1, <1>3 DEF Lose, history
  <2> QED BY <1>1, <2>1, ReportSame
<1>4. ASSUME NEW d \in net, Recv(d) PROVE ReportInv'
  BY <1>4, ReportRecv
<1>5. ASSUME NEW s \in Sides, OmitTimer(s) PROVE ReportInv'
  <2>1. irp' = irp /\ sent' = sent
    BY <1>5 DEF OmitTimer, history
  <2>2. CASE s = "rcv"
    BY <1>5, <2>1, <2>2, ReportReset DEF OmitTimer
  <2>3. CASE s = "snd"
    <3>1. rcv' = rcv /\ sent <= sent'
      BY <1>1, <1>5, <2>1, <2>3 DEF OmitTimer
    <3> QED BY <1>1, <2>1, <3>1, ReportSame
  <2> QED BY <2>2, <2>3 DEF Sides
<1>6. CASE Gather /\ sent' = sent
  BY <1>6, ReportGather
<1>7. CASE StatsTimer
  BY <1>6, <1>7 DEF StatsTimer, history
<1>8. CASE irp' = irp /\ rcv' = rcv /\ sent' = sent
  <2>1. sent <= sent'
    BY <1>1, <1>8
  <2> QED BY <1>1, <1>8, <2>1, ReportSame
<1>9. CASE ClientEnds
  BY <1>6, <1>8, <1>9 DEF ClientEnds, history
<1>10. CASE ServerEnds
  BY <1>6, <1>8, <1>10 DEF ServerEnds, history
<1>11. CASE Exchange
  <2>1. rcv' = [rcv EXCEPT !.bytes_sent = SentBytes(snd)] /\ irp' = irp /\ sent' = sent
    BY <1>11 DEF Exchange, history
  <2>2. /\ rcv'.packet_count = rcv.packet_count
        /\ rcv'.omitted_packet_count = rcv.omitted_packet_count
        /\ rcv'.cnt_error = rcv.cnt_error
        /\ rcv'.omitted_cnt_error = rcv.omitted_cnt_error
        /\ rcv'.outoforder_packets = rcv.outoforder_packets
        /\ rcv'.omitted_outoforder_packets = rcv.omitted_outoforder_packets
        /\ rcv'.bytes_received = rcv.bytes_received
        /\ rcv'.this_interval = rcv.this_interval
    BY <1>1, <2>1 DEF Stream
  <2>3. sent <= sent'
    BY <1>1, <2>1
  <2> QED BY <1>1, <2>1, <2>2, <2>3, ReportSame
<1>12. CASE ClientPrints
  BY <1>8, <1>12 DEF ClientPrints, history
<1>13. CASE UNCHANGED vars
  BY <1>8, <1>13 DEF vars, history
<1> QED BY <1>2, <1>3, <1>4, <1>5, <1>7, <1>9, <1>10, <1>11, <1>12, <1>13 DEF Next

LEMMA ReportInit == Init => ReportInv
<1> SUFFICES ASSUME Init PROVE ReportInv
  OBVIOUS
<1>1. rcv = NewStream /\ irp = NoInterval /\ sent = 0
  BY DEF Init
<1>2. CountsGrow /\ IntervalRuns
  BY <1>1 DEF CountsGrow, IntervalRuns, IntervalDue, NewStream, NoInterval, Total, Lost
<1>3. AccountedFor /\ IntervalAccountedFor /\ LossInRange
  BY <1>1 DEF AccountedFor, IntervalAccountedFor, LossInRange, NewStream, NoInterval,
              Total, Lost, Late
<1> QED BY <1>2, <1>3 DEF ReportInv

LEMMA ReportAlways == Spec => [](NoOverflow => CountsGrow /\ AccountedFor
                                    /\ IntervalAccountedFor /\ LossInRange)
<1>1. ReportInv => (NoOverflow => CountsGrow /\ AccountedFor
                                    /\ IntervalAccountedFor /\ LossInRange)
  BY DEF ReportInv
<1> QED BY <1>1, TypeInit, TypeStep, ReportInit, ReportStep, PTL DEF Spec

\* Whenever the omit period ends and whatever the network does, every byte the
\* receiver reports is accounted for by the counters it reports.
THEOREM BytesAccountedFor == Spec => []AccountedFor
<1>1. (NoOverflow => CountsGrow /\ AccountedFor /\ IntervalAccountedFor /\ LossInRange)
        => AccountedFor
  BY DEF AccountedFor
<1> QED BY <1>1, ReportAlways, PTL

\* The same of every interval it prints.
THEOREM IntervalsAccountedFor == Spec => []IntervalAccountedFor
<1>1. (NoOverflow => CountsGrow /\ AccountedFor /\ IntervalAccountedFor /\ LossInRange)
        => IntervalAccountedFor
  BY DEF IntervalAccountedFor
<1> QED BY <1>1, ReportAlways, PTL

\* No loss that the receiver reports, of an interval or of the whole test, is
\* negative or more than what was sent.
THEOREM ReceiverLossInRange == Spec => []LossInRange
<1>1. (NoOverflow => CountsGrow /\ AccountedFor /\ IntervalAccountedFor /\ LossInRange)
        => LossInRange
  BY DEF LossInRange
<1> QED BY <1>1, ReportAlways, PTL

-----------------------------------------------------------------------------
(* Losses counted and losses that happened *)

\* What was read lies below the highest number; there is at least one datagram
\* for every number that moved the counter up, and at most one for every read.
LossInv ==
  NoOverflow =>
    /\ IsFiniteSet(got)
    /\ \A n \in got : n <= rcv.packet_count
    /\ rcv.packet_count - rcv.cnt_error <= Cardinality(got)
    /\ Cardinality(got) <= Balance(rcv)

LEMMA LossRecv ==
  ASSUME TypeInv, ReportInv, LossInv, NEW d \in net, Recv(d)
  PROVE  LossInv'
<1>1. NoOverflow' <=> NoOverflow
  BY DEF NoOverflow, Recv
<1> SUFFICES ASSUME NoOverflow, NoOverflow' PROVE LossInv'
  BY <1>1 DEF LossInv
<1>2. rcv \in Stream /\ sent \in Int /\ sent <= IntMax /\ IntMax \in Nat
  BY UdpAssumption DEF TypeInv, TypeOK, NoOverflow
<1>3. rcv.packet_count \in Int /\ rcv.cnt_error \in Int /\ rcv.outoforder_packets \in Nat
  BY <1>2, Fields
<1>4. 0 <= rcv.cnt_error /\ rcv.cnt_error <= rcv.packet_count
  <2>1. CountsGrow
    BY DEF ReportInv
  <2>2. rcv.omitted_cnt_error \in Int
    BY <1>2, Fields
  <2> QED BY <1>3, <2>1, <2>2 DEF CountsGrow
<1>5. PICK next \in After(rcv.packet_count) :
        rcv' = [Count(rcv, d.pcount, next) EXCEPT
                  !.bytes_received = @ + 1, !.this_interval = @ + 1]
  BY DEF Recv
<1> DEFINE p == d.pcount
<1>6. p = d.no /\ p \in Int /\ p \in 0..IntMax
  BY <1>2 DEF TypeInv, NetSound
<1>7. got' = got \cup {p}
  BY <1>6 DEF Recv
<1> HIDE DEF p
<1>8. /\ IsFiniteSet(got) /\ Cardinality(got) \in Nat
      /\ \A n \in got : n <= rcv.packet_count
      /\ rcv.packet_count - rcv.cnt_error <= Cardinality(got)
      /\ Cardinality(got) <= rcv.packet_count - rcv.cnt_error + rcv.outoforder_packets
  <2>1. IsFiniteSet(got)
    BY DEF LossInv
  <2>2. Cardinality(got) \in Nat
    BY <2>1, FS_CardinalityType
  <2> QED BY <2>1, <2>2 DEF LossInv, Balance
<1>9. /\ IsFiniteSet(got') /\ Cardinality(got') \in Nat
      /\ p \in got => Cardinality(got') = Cardinality(got)
      /\ p \notin got => Cardinality(got') = Cardinality(got) + 1
  BY <1>7, <1>8, FS_AddElement, FS_CardinalityType
<1>10. CASE p > rcv.packet_count
  <2>1. Count(rcv, p, next) =
          [rcv EXCEPT !.cnt_error = rcv.cnt_error + (p - 1 - rcv.packet_count),
                      !.packet_count = p]
    BY <1>2, <1>4, <1>6, <1>10, CountPlain
  <2>2. /\ rcv'.packet_count = p
        /\ rcv'.cnt_error = rcv.cnt_error + (p - 1 - rcv.packet_count)
        /\ rcv'.outoforder_packets = rcv.outoforder_packets
    BY <1>2, <1>5, <2>1 DEF Stream, p
  <2>3. p \notin got
    BY <1>3, <1>6, <1>8, <1>10
  <2>4. got \subseteq Int
    BY <1>2 DEF TypeInv, TypeOK
  <2>5. \A n \in got' : n <= rcv'.packet_count
    BY <1>3, <1>6, <1>7, <1>8, <1>10, <2>2, <2>4
  <2>6. /\ rcv'.packet_count - rcv'.cnt_error <= Cardinality(got')
        /\ Cardinality(got') <= Balance(rcv')
    BY <1>3, <1>6, <1>8, <1>9, <2>2, <2>3 DEF Balance
  <2> QED BY <1>9, <2>5, <2>6 DEF LossInv
<1>11. CASE ~(p > rcv.packet_count)
  <2>1. Count(rcv, p, next) =
          [rcv EXCEPT !.outoforder_packets = rcv.outoforder_packets + 1]
    BY <1>2, <1>4, <1>6, <1>11, CountPlain
  <2>2. /\ rcv'.packet_count = rcv.packet_count
        /\ rcv'.cnt_error = rcv.cnt_error
        /\ rcv'.outoforder_packets = rcv.outoforder_packets + 1
    BY <1>2, <1>5, <2>1 DEF Stream, p
  <2>3. \A n \in got' : n <= rcv'.packet_count
    BY <1>3, <1>6, <1>7, <1>8, <1>11, <2>2
  <2>4. /\ rcv'.packet_count - rcv'.cnt_error <= Cardinality(got')
        /\ Cardinality(got') <= Balance(rcv')
    BY <1>3, <1>8, <1>9, <2>2 DEF Balance
  <2> QED BY <1>9, <2>3, <2>4 DEF LossInv
<1> QED BY <1>10, <1>11

LEMMA LossStep == TypeInv /\ ReportInv /\ LossInv /\ [Next]_vars => LossInv'
<1> SUFFICES ASSUME TypeInv, ReportInv, LossInv, [Next]_vars PROVE LossInv'
  OBVIOUS
<1>1. ASSUME NEW d \in net, Recv(d) PROVE LossInv'
  BY <1>1, LossRecv
<1>2. CASE Next /\ ~ \E d \in net : Recv(d)
  <2>1. SameCounters /\ got' = got /\ sent <= sent'
    BY <1>2, OtherSteps
  <2>2. NoOverflow' => NoOverflow
    <3>1. sent \in Int /\ sent' \in Int /\ IntMax \in Int
      BY <1>2, TypeStep, UdpAssumption DEF TypeInv, TypeOK
    <3> QED BY <2>1, <3>1 DEF NoOverflow
  <2> QED BY <2>1, <2>2 DEF LossInv, SameCounters, Balance
<1>3. CASE UNCHANGED vars
  BY <1>3 DEF vars, history, LossInv, NoOverflow, Balance
<1> QED BY <1>1, <1>2, <1>3

\* The losses the receiver counts cover what is missing, and exceed it by at
\* most one for each datagram that came late.
THEOREM LossesCovered == Spec => []LossCovers
<1>1. Init => LossInv
  BY FS_EmptySet DEF Init, LossInv, Balance, NewStream
<1>2. TypeInv /\ LossInv => LossCovers
  <2> SUFFICES ASSUME TypeInv, LossInv, NoOverflow PROVE LossCovers
    BY DEF LossCovers
  <2>1. /\ rcv.packet_count \in Int /\ rcv.cnt_error \in Int
        /\ rcv.outoforder_packets \in Int
    BY Fields DEF TypeInv, TypeOK
  <2>2. Cardinality(got) \in Nat
    BY FS_CardinalityType DEF LossInv
  <2> QED BY <2>1, <2>2 DEF LossInv, LossCovers, Balance
<1> QED BY <1>1, <1>2, TypeInit, TypeStep, ReportInit, ReportStep, LossStep, PTL DEF Spec

-----------------------------------------------------------------------------
(* The exchange of results, and what is printed before and after it *)

\* Until the exchange the receiver has sent nothing; after it the two ends have
\* each other's numbers.
ExchangeInv ==
  /\ rcv.bytes_sent_omit = 0
  /\ ~exchanged => rcv.bytes_sent = 0
  /\ exchanged => /\ rcv.bytes_sent = SentOf(snd)
                  /\ snd.packet_count = rcv.packet_count
                  /\ snd.cnt_error = rcv.cnt_error

\* What the server has printed are its counters when it closed its stream, which
\* the exchange leaves in the receiver and, of the bytes, in the sender; what
\* the client has printed are its counters after the exchange.
OfServer(p) ==
  /\ phase[Server] = "closed"
  /\ reverse => /\ p.sent = SentOf(snd)
                /\ NoOverflow => p.packets = sent - snd.omitted_packet_count
  /\ ~reverse => p.packets = Total(rcv) /\ p.lost = Lost(rcv)
OfClient(p) ==
  /\ exchanged
  /\ reverse => p.sent = SentOf(rcv) /\ p.packets = Total(rcv)
  /\ ~reverse => p.packets = Total(snd) /\ p.lost = Lost(snd)
PrintedInv ==
  \A p \in printed : (p.side = Server /\ OfServer(p)) \/ (p.side = Client /\ OfClient(p))

\* The counters that the exchange and the totals are made of.
SameTotals(sp, sq) ==
  /\ sp.packet_count = sq.packet_count
  /\ sp.omitted_packet_count = sq.omitted_packet_count
  /\ sp.cnt_error = sq.cnt_error /\ sp.omitted_cnt_error = sq.omitted_cnt_error
SameBytes(sp, sq) ==
  sp.bytes_sent = sq.bytes_sent /\ sp.bytes_sent_omit = sq.bytes_sent_omit

\* A step before the exchange, after which the server has not printed or the
\* side of the server is as it was.
LEMMA PrintedKept ==
  ASSUME TypeInv, PrintedInv, ~exchanged, printed' = printed, reverse' = reverse,
         phase[Server] = "closed" =>
           /\ phase'[Server] = "closed"
           /\ reverse => SameBytes(snd', snd) /\ sent' = sent
                           /\ snd'.omitted_packet_count = snd.omitted_packet_count
           /\ ~reverse => SameTotals(rcv', rcv)
  PROVE  PrintedInv'
<1>1. Server' = Server
  BY DEF Server
<1> SUFFICES ASSUME NEW p \in printed PROVE (p.side = Server /\ OfServer(p)')
  BY <1>1 DEF PrintedInv
<1>2. p.side = Server /\ OfServer(p)
  BY DEF PrintedInv, OfClient
<1>3. phase[Server] = "closed"
  BY <1>2 DEF OfServer
<1>4. CASE reverse
  BY <1>1, <1>2, <1>3, <1>4 DEF OfServer, SameBytes, SentOf, NoOverflow
<1>5. CASE ~reverse
  BY <1>1, <1>2, <1>3, <1>5 DEF OfServer, SameTotals, Total, Lost
<1> QED BY <1>4, <1>5

LEMMA ExchangeStep ==
  TypeInv /\ ExchangeInv /\ PrintedInv /\ [Next]_vars => ExchangeInv' /\ PrintedInv'
<1> SUFFICES ASSUME TypeInv, ExchangeInv, PrintedInv, [Next]_vars
             PROVE  ExchangeInv' /\ PrintedInv'
  OBVIOUS
<1>1. /\ snd \in Stream /\ rcv \in Stream /\ phase \in [Sides -> {"running", "ended", "closed"}]
      /\ reverse \in BOOLEAN /\ Sides = {"snd", "rcv"}
      /\ Server \in Sides /\ Client \in Sides /\ Server # Client
  BY DEF TypeInv, TypeOK, Server, Client, Sides
<1>2. ASSUME ~exchanged, ~exchanged', SameBytes(rcv', rcv)
      PROVE  ExchangeInv'
  BY <1>2 DEF ExchangeInv, SameBytes
<1>3. CASE Send
  <2>1. ~exchanged /\ ~exchanged' /\ rcv' = rcv /\ phase["snd"] = "running"
        /\ phase' = phase /\ printed' = printed /\ reverse' = reverse
    BY <1>3 DEF Send, TypeInv, ClosedAfter
  <2>2. PrintedInv'
    BY <2>1, PrintedKept DEF Server, SameTotals
  <2> QED BY <1>2, <2>1, <2>2 DEF SameBytes
<1>4. ASSUME NEW d \in net, Lose(d) PROVE ExchangeInv' /\ PrintedInv'
  BY <1>4 DEF Lose, history, ExchangeInv, PrintedInv, OfServer, OfClient, SentOf, Total, Lost,
              Server, Client, NoOverflow
<1>5. ASSUME NEW d \in net, Recv(d) PROVE ExchangeInv' /\ PrintedInv'
  <2>1. /\ ~exchanged /\ ~exchanged' /\ Reading
        /\ phase' = phase /\ printed' = printed /\ reverse' = reverse
        /\ snd' = snd /\ sent' = sent
    BY <1>5 DEF Recv, Reading, TypeInv, ClosedAfter
  <2>2. PICK next \in After(rcv.packet_count) :
          rcv' = [Count(rcv, d.pcount, next) EXCEPT
                    !.bytes_received = @ + 1, !.this_interval = @ + 1]
    BY <1>5 DEF Recv
  <2> DEFINE c == Count(rcv, d.pcount, next)
  <2>3. c \in Stream
    <3>1. d.pcount \in 0..(Mod64 - 1)
      BY DEF TypeInv, TypeOK
    <3>2. rcv.packet_count \in Int32
      BY <1>1, Fields
    <3>3. next \in Int
      BY <3>2, AfterType
    <3> QED BY <1>1, <3>1, <3>3, CountType
  <2>4. c.bytes_sent = rcv.bytes_sent /\ c.bytes_sent_omit = rcv.bytes_sent_omit
    BY <1>1 DEF Count, Stream
  <2> HIDE DEF c
  <2>5. rcv'.bytes_sent = c.bytes_sent /\ rcv'.bytes_sent_omit = c.bytes_sent_omit
    BY <2>2, <2>3 DEF Stream, c
  <2>6. phase[Server] = "closed" => reverse
    BY <2>1 DEF Reading, Server
  <2>7. PrintedInv'
    BY <2>1, <2>6, PrintedKept DEF SameBytes
  <2> QED BY <1>2, <2>1, <2>4, <2>5, <2>7 DEF SameBytes
<1>6. ASSUME NEW s \in Sides, OmitTimer(s) PROVE ExchangeInv' /\ PrintedInv'
  <2>1. /\ ~exchanged /\ ~exchanged' /\ phase[s] = "running"
        /\ phase' = phase /\ printed' = printed /\ reverse' = reverse /\ sent' = sent
        /\ s # "snd" => snd' = snd
        /\ s # "rcv" => rcv' = rcv
    BY <1>6 DEF OmitTimer, TypeInv, ClosedAfter, Sides, history
  <2>2. /\ ResetStats(rcv).bytes_sent = rcv.bytes_sent
        /\ ResetStats(rcv).bytes_sent_omit = rcv.bytes_sent
    BY <1>1 DEF ResetStats, Stream
  <2>3. SameBytes(rcv', rcv)
    BY <1>6, <2>1, <2>2 DEF OmitTimer, SameBytes, ExchangeInv
  <2>4. phase[Server] = "closed" => s # Server
    BY <2>1
  <2>5. PrintedInv'
    BY <2>1, <2>4, PrintedKept DEF Server, SameBytes, SameTotals
  <2> QED BY <1>2, <2>1, <2>3, <2>5
<1>7. ASSUME Gather PROVE SameBytes(rcv', rcv) /\ SameTotals(rcv', rcv)
  BY <1>1, <1>7 DEF Gather, Stream, SameBytes, SameTotals
<1>8. CASE StatsTimer
  <2>1. /\ ~exchanged /\ ~exchanged' /\ phase["rcv"] = "running" /\ Gather
        /\ phase' = phase /\ printed' = printed /\ reverse' = reverse
        /\ snd' = snd /\ sent' = sent
    BY <1>8 DEF StatsTimer, TypeInv, ClosedAfter, history
  <2>2. PrintedInv'
    BY <1>7, <2>1, PrintedKept DEF SameBytes
  <2> QED BY <1>2, <1>7, <2>1, <2>2
<1>9. CASE ClientEnds
  <2>1. /\ ~exchanged /\ ~exchanged' /\ phase'[Server] = phase[Server]
        /\ printed' = printed /\ reverse' = reverse /\ snd' = snd /\ sent' = sent
        /\ reverse => Gather
        /\ ~reverse => rcv' = rcv
    BY <1>1, <1>9 DEF ClientEnds, TypeInv, ClosedAfter, history
  <2>2. PrintedInv'
    BY <2>1, PrintedKept DEF SameBytes, SameTotals
  <2> QED BY <1>2, <1>7, <2>1, <2>2 DEF SameBytes
<1>10. CASE ServerEnds
  <2>1. /\ ~exchanged /\ ~exchanged' /\ phase[Server] = "running" /\ phase'[Server] = "closed"
        /\ Prints(Server) /\ reverse' = reverse /\ snd' = snd /\ sent' = sent
        /\ ~reverse => Gather
        /\ reverse => rcv' = rcv
    BY <1>1, <1>10 DEF ServerEnds, TypeInv, ClosedAfter, history
  <2>2. printed = {}
    BY <2>1 DEF PrintedInv, OfServer, OfClient
  <2> DEFINE sp == IF Server = "snd" THEN snd ELSE rcv
  <2>2a. PICK p : p = Report(Server, sp)
    OBVIOUS
  <2>3. printed' = {p} /\ Server' = Server
    BY <2>1, <2>2, <2>2a DEF Prints, Server
  <2>4. /\ p.side = Server /\ p.sent = SentOf(sp) /\ p.packets = Total(sp)
        /\ p.lost = Lost(sp)
    BY <2>2a DEF Report
  <2>5. CASE reverse
    <3>1. sp = snd /\ (NoOverflow => snd.packet_count = sent)
      BY <2>1, <2>5 DEF Server, TypeInv, SenderCounts
    <3>2. OfServer(p)'
      BY <2>1, <2>3, <2>4, <2>5, <3>1 DEF OfServer, SentOf, Total, NoOverflow
    <3> QED BY <1>2, <2>1, <2>3, <2>4, <2>5, <3>2 DEF PrintedInv, SameBytes
  <2>6. CASE ~reverse
    <3>1. sp = rcv /\ SameTotals(rcv', rcv) /\ SameBytes(rcv', rcv)
      BY <1>7, <2>1, <2>6 DEF Server
    <3>2. OfServer(p)'
      BY <2>1, <2>3, <2>4, <2>6, <3>1 DEF OfServer, SameTotals, Total, Lost
    <3> QED BY <1>2, <2>1, <2>3, <2>4, <3>1, <3>2 DEF PrintedInv
  <2> QED BY <2>5, <2>6
<1>11. CASE Exchange
  <2>1. /\ ~exchanged /\ exchanged' /\ printed' = printed /\ reverse' = reverse
        /\ phase'[Server] = "closed" /\ sent' = sent
    BY <1>1, <1>11 DEF Exchange, TypeInv, ClosedAfter, history
  <2>2. /\ SameBytes(snd', snd)
        /\ snd'.omitted_packet_count = snd.omitted_packet_count
        /\ snd'.packet_count = rcv.packet_count /\ snd'.cnt_error = rcv.cnt_error
    BY <1>1, <1>11 DEF Exchange, Stream, SameBytes
  <2>3. /\ rcv'.bytes_sent = snd.bytes_sent - snd.bytes_sent_omit
        /\ rcv'.bytes_sent_omit = rcv.bytes_sent_omit
        /\ SameTotals(rcv', rcv)
    BY <1>1, <1>11 DEF Exchange, SentBytes, Stream, SameTotals
  <2>4. ExchangeInv'
    BY <2>1, <2>2, <2>3 DEF ExchangeInv, SentOf, SameBytes, SameTotals
  <2>5. PrintedInv'
    BY <2>1, <2>2, <2>3, PrintedKept
  <2> QED BY <2>4, <2>5
<1>12. CASE ClientPrints
  <2>1. /\ exchanged /\ exchanged' /\ Prints(Client) /\ (\A p \in printed : p.side = Server)
        /\ UNCHANGED <<reverse, phase, snd, rcv, sent>>
    BY <1>12 DEF ClientPrints, history
  <2> DEFINE sp == IF Client = "snd" THEN snd ELSE rcv
  <2>2a. PICK p : p = Report(Client, sp)
    OBVIOUS
  <2>2. /\ printed' = printed \cup {p} /\ Server' = Server /\ Client' = Client
    BY <2>1, <2>2a DEF Prints, Server, Client
  <2>3. /\ p.side = Client /\ p.sent = SentOf(sp) /\ p.packets = Total(sp)
        /\ p.lost = Lost(sp)
    BY <2>2a DEF Report
  <2>4. OfClient(p)'
    BY <2>1, <2>3 DEF OfClient, Client, SentOf, Total, Lost
  <2>5. ASSUME NEW q \in printed PROVE q.side = Server /\ OfServer(q)'
    BY <1>1, <2>1, <2>2 DEF PrintedInv, OfServer, SentOf, Total, Lost, NoOverflow
  <2>6. PrintedInv'
    BY <2>2, <2>3, <2>4, <2>5 DEF PrintedInv
  <2>7. ExchangeInv'
    BY <2>1 DEF ExchangeInv, SentOf
  <2> QED BY <2>6, <2>7
<1>13. CASE UNCHANGED vars
  BY <1>13 DEF vars, history, ExchangeInv, PrintedInv, OfServer, OfClient, SentOf, Total, Lost,
               Server, Client, NoOverflow
<1> QED BY <1>3, <1>4, <1>5, <1>6, <1>8, <1>9, <1>10, <1>11, <1>12, <1>13 DEF Next

\* iperf_handle_message_server prints before iperf_exchange_results and the
\* client after it: the bytes sent that a receiving client prints are those the
\* server printed, whenever each omit period ended; if both left the same out,
\* a sending client prints the server's datagrams and losses, and a receiving
\* one prints no more datagrams than the server.
THEOREM EndsAgree == Spec => []ReportsAgree
<1>1. Init => ExchangeInv /\ PrintedInv
  BY DEF Init, ExchangeInv, PrintedInv, NewStream
<1>2. TypeInv /\ ReportInv /\ ExchangeInv /\ PrintedInv => ReportsAgree
  <2> SUFFICES ASSUME TypeInv, ReportInv, ExchangeInv, PrintedInv,
                      NEW c \in printed, NEW s \in printed, c.side = Client, s.side = Server
               PROVE  /\ reverse => c.sent = s.sent
                      /\ reverse /\ SameOmitted /\ NoOverflow => c.packets <= s.packets
                      /\ ~reverse /\ SameOmitted => c.packets = s.packets /\ c.lost = s.lost
    BY DEF ReportsAgree
  <2>1. OfClient(c) /\ OfServer(s)
    <3>1. Client # Server
      BY DEF Client, Server
    <3> QED BY <3>1 DEF PrintedInv
  <2>2. /\ rcv.packet_count \in Int /\ rcv.omitted_packet_count \in Int /\ sent \in Int
        /\ rcv.bytes_sent \in Int
    BY Fields, UdpAssumption DEF TypeInv, TypeOK
  <2>3. reverse => c.sent = s.sent
    BY <2>1, <2>2 DEF OfClient, OfServer, ExchangeInv, SentOf
  <2>4. reverse /\ SameOmitted /\ NoOverflow => c.packets <= s.packets
    <3>1. NoOverflow => rcv.packet_count <= sent
      BY DEF ReportInv, CountsGrow
    <3> QED BY <2>1, <2>2, <3>1 DEF OfClient, OfServer, SameOmitted, Total
  <2>5. ~reverse /\ SameOmitted => c.packets = s.packets /\ c.lost = s.lost
    BY <2>1 DEF OfClient, OfServer, ExchangeInv, SameOmitted, Total, Lost
  <2> QED BY <2>3, <2>4, <2>5
<1> QED BY <1>1, <1>2, TypeInit, TypeStep, ReportInit, ReportStep, ExchangeStep, PTL DEF Spec
=============================================================================
