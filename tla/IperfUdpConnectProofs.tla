------------------------ MODULE IperfUdpConnectProofs ------------------------
(***************************************************************************)
(* Proofs about the handshake of a UDP test, for every number of clients   *)
(* and streams, every fault and every number of faults.                    *)
(***************************************************************************)
EXTENDS IperfUdpConnect, FiniteSetTheorems, SequenceTheorems, TLAPS

-----------------------------------------------------------------------------
(* The inductive invariant *)

\* The sockets on the server's list.
OnList(s) == \E j \in DOMAIN streams : streams[j] = s

\* The clients that were admitted, refused, or died before.
Past == {c \in Clients : cpc[c] # "wait"}

\* The sockets of the session that are not on its list, and the sockets the
\* session may still make.
Extra == IF spc \in {"select", "accepted"} THEN 1 ELSE IF spc = "announced" THEN 2 ELSE 0
ToMake == IF spc \in {"idle", "running"} THEN 0 ELSE NumStreams + 1 - Len(streams) - Extra

\* What the server holds in each state of its loop.  A socket is made once,
\* and the listener is always the socket made last.
ServerShape ==
  /\ spc = "idle" => holder = NoClient /\ listener = NoSock /\ taken = NoSock /\ streams = <<>>
  /\ spc # "idle" => holder \in Clients /\ cpc[holder] # "wait"
  /\ spc \in {"select", "accepted", "announced"} => listener = fresh - 1 /\ listener \in Socks
  /\ spc \in {"select", "announced"} => peer[listener] = Any
  /\ spc \in {"select", "running"} => taken = NoSock
  /\ spc \in {"accepted", "announced"} => taken \in Socks /\ peer[taken] \in Addr
  /\ spc = "accepted" => taken = listener
  /\ spc = "running" => listener = NoSock /\ Len(streams) = NumStreams
  /\ \A j \in DOMAIN streams : peer[streams[j]] \in Addr
  /\ \A s \in Socks : s >= fresh => peer[s] = Free /\ queue[s] = <<>>

\* Every client is admitted once, and its session makes at most one socket
\* more than it has streams and is aborted at most once.
Counted ==
  /\ fresh - 1 + ToMake <= (NumStreams + 1) * Cardinality(Past)
  /\ aborted + (IF spc = "idle" THEN 0 ELSE 1) <= Cardinality(Past)

\* How far a client is.
ClientShape == \A c \in Clients :
  /\ cpc[c] = "wait" => next[c] = 1 /\ inbox[c] = "none" /\ base[c] = c
  /\ cpc[c] \in {"hello", "recv"} => next[c] <= NumStreams
  /\ cpc[c] = "ready" => next[c] = NumStreams + 1

\* The clients whose addresses are in use: no two of them have the same.
Current(c) == ~Finished(c) \/ c = holder
Alone == \A c, d \in Clients : c # d /\ base[c] = base[d] => ~Current(c) \/ ~Current(d)

\* The hellos a client has sent, and an address that the network or the session
\* knows of: only addresses whose hello was sent are known.  (Sockets that
\* earlier sessions left open may be connected to any address.)
Sent(c) == IF cpc[c] \in {"wait", "hello"} THEN next[c] - 1 ELSE next[c]
Known(a) ==
  \/ a \in hellos \cup replies
  \/ listener \in Socks /\ \E i \in DOMAIN queue[listener] : queue[listener][i] = a
  \/ taken \in Socks /\ peer[taken] = a
  \/ \E j \in DOMAIN streams : peer[streams[j]] = a
KnownWasSent == \A c \in Clients : \A a \in Addr :
  Current(c) /\ base[c] = a[1] /\ Known(a) => a[2] <= Sent(c)

\* The streams are those of the client of the session, in its order.
Matched == \A j \in DOMAIN streams : peer[streams[j]] = <<base[holder], j>>

\* As long as the streams match, the client is at most one stream ahead of the
\* list.  Once a stray or doubled hello took a place, it stays one behind for
\* good, and never gets to the end.
Reach == IF Matched THEN Len(streams) ELSE Len(streams) - 1
InReach == spc # "idle" =>
  /\ next[holder] <= Reach + 1
  /\ inbox[holder] = "reply" => next[holder] <= Reach
  /\ \A i \in 1..NumStreams : <<base[holder], i>> \in replies => i <= Reach
  /\ \A j \in DOMAIN streams : peer[streams[j]][1] = base[holder] => peer[streams[j]][2] <= Reach

RunningInSession == \A c \in Clients :
  cpc[c] = "running" => spc = "running" /\ holder = c /\ Matched

\* A client without trouble has its session, its streams match, no other socket
\* is connected to an address of it, and the hello or the reply it waits for is
\* under way.
ClientsCalm == \A c \in Clients \ trouble :
  /\ cpc[c] \in {"hello", "recv", "ready"} => holder = c
  /\ cpc[c] # "failed" /\ inbox[c] # "refused"

SessionCalm == spc # "idle" /\ holder \notin trouble =>
  /\ Matched
  /\ \A s \in Socks : peer[s][1] = base[holder] => OnList(s) \/ s = taken
  /\ spc \in {"accepted", "announced"} => peer[taken] = <<base[holder], Len(streams) + 1>>
  /\ spc \in {"select", "announced"} =>
       \A i \in DOMAIN queue[listener] : queue[listener][i][1] = base[holder] =>
         queue[listener][i][2] > Len(streams) + (IF spc = "select" THEN 0 ELSE 1)
  /\ cpc[holder] = "recv" /\ inbox[holder] = "none" =>
       /\ next[holder] <= Len(streams) => <<base[holder], next[holder]>> \in replies
       /\ next[holder] = Len(streams) + 1 /\ spc = "select" =>
            \/ <<base[holder], next[holder]>> \in hellos
            \/ \E i \in DOMAIN queue[listener] :
                 queue[listener][i] = <<base[holder], next[holder]>>

NoTrouble == ClientsCalm /\ SessionCalm

\* The sockets that are open are those of aborted sessions and of this one.
OpenCounted == Cardinality(Open) <= aborted * NumStreams + midway + Len(streams) + Extra

Base == TypeOK /\ ServerShape /\ Counted /\ ClientShape
IInv == Base /\ Alone /\ KnownWasSent /\ InReach /\ RunningInSession /\ NoTrouble /\ OpenCounted
-----------------------------------------------------------------------------
(* Constants and counting *)

LEMMA Constants ==
  /\ NumStreams \in Nat /\ NumStreams >= 1
  /\ Cardinality(Clients) \in Nat /\ IsFiniteSet(Clients)
  /\ Cardinality(Clients) * (NumStreams + 1) \in Nat
  /\ Socks \subseteq Nat \ {0}
  /\ NoSock \notin Socks /\ NoClient \notin Clients
  /\ MaxFaults \in Nat
<1>1. Cardinality(Clients) \in Nat
  BY UdpConnectAssumption, FS_CardinalityType
<1>2. \A m, n \in Nat : m * (n + 1) \in Nat
  OBVIOUS
<1> QED BY <1>1, <1>2, UdpConnectAssumption DEF Socks

\* An address is a pair, and no socket that is connected to one is free, bound
\* or closed.
LEMMA AddrFacts ==
  ASSUME NEW a \in Addr
  PROVE  /\ a[1] \in Clients /\ a[2] \in 1..NumStreams /\ a = <<a[1], a[2]>>
         /\ a # Free /\ a # Any /\ a # Closed
BY Constants DEF Addr, Free, Any, Closed

LEMMA Marks == Free # Any /\ Free # Closed /\ Any # Closed
               /\ Free[1] = NoClient /\ Any[1] = NoClient /\ Closed[1] = NoClient
BY DEF Free, Any, Closed

\* The clients that were admitted are a set whose cardinality grows with it.
LEMMA PastFacts ==
  /\ IsFiniteSet(Past) /\ Cardinality(Past) \in Nat
  /\ Cardinality(Past) <= Cardinality(Clients)
<1>1. Past \in SUBSET Clients
  BY DEF Past
<1> QED BY <1>1, Constants, FS_Subset, FS_CardinalityType

LEMMA ProductGrows ==
  ASSUME NEW n \in Nat, NEW p \in Nat, NEW q \in Nat, p <= q
  PROVE  /\ n * p \in Nat /\ n * q \in Nat /\ n * p <= n * q
         /\ n * (p + 1) = n * p + n /\ n * p = p * n
<1>1. n * p \in Nat /\ n * q \in Nat /\ n * (p + 1) = n * p + n /\ n * p = p * n
  OBVIOUS
<1>2. PICK d \in Nat : q = p + d
  <2>1. q - p \in Nat /\ q = p + (q - p)
    OBVIOUS
  <2> QED BY <2>1
<1>3. n * (p + d) = n * p + n * d /\ n * d \in Nat
  OBVIOUS
<1> QED BY <1>1, <1>2, <1>3

\* The room that is left for a socket.
LEMMA RoomForFresh ==
  ASSUME Base, ToMake >= 1
  PROVE  fresh \in Socks
<1>1. (NumStreams + 1) * Cardinality(Past) <= (NumStreams + 1) * Cardinality(Clients)
  BY PastFacts, Constants, ProductGrows
<1>2. (NumStreams + 1) * Cardinality(Past) \in Nat
      /\ (NumStreams + 1) * Cardinality(Clients) = Cardinality(Clients) * (NumStreams + 1)
  BY PastFacts, Constants, ProductGrows
<1>3. fresh \in Nat /\ fresh >= 1
  BY Constants DEF Base, TypeOK
<1>4. fresh - 1 + ToMake <= (NumStreams + 1) * Cardinality(Past)
  BY DEF Base, Counted
<1>5. ToMake \in Int
  <2>1. Len(streams) \in Nat
    BY DEF Base, TypeOK
  <2> QED BY <2>1, Constants DEF ToMake, Extra
<1>6. Cardinality(Clients) * (NumStreams + 1) \in Nat
  BY Constants
<1>7. fresh <= Cardinality(Clients) * (NumStreams + 1)
  BY <1>1, <1>2, <1>3, <1>4, <1>5, <1>6
<1> QED BY <1>3, <1>6, <1>7 DEF Socks

\* The count holds after a step that uses up no more of it.
LEMMA CountedStep ==
  ASSUME Base, cpc' \in [Clients -> ClientPC],
         \A c \in Clients : cpc[c] # "wait" => cpc'[c] # "wait",
         fresh' \in Int, ToMake' \in Int, aborted' \in Int,
         fresh' + ToMake' <= fresh + ToMake,
         aborted' + (IF spc' = "idle" THEN 0 ELSE 1) <= aborted + (IF spc = "idle" THEN 0 ELSE 1)
  PROVE  Counted'
<1>1. Past \subseteq Past' /\ Past' \in SUBSET Clients
  BY DEF Past
<1>2. IsFiniteSet(Past') /\ Cardinality(Past') \in Nat
  BY <1>1, Constants, FS_Subset, FS_CardinalityType
<1>3. Cardinality(Past) <= Cardinality(Past')
  BY <1>1, <1>2, FS_Subset
<1>4. Cardinality(Past) \in Nat
  BY PastFacts
<1>5. (NumStreams + 1) * Cardinality(Past) \in Nat
      /\ (NumStreams + 1) * Cardinality(Past') \in Nat
      /\ (NumStreams + 1) * Cardinality(Past) <= (NumStreams + 1) * Cardinality(Past')
  BY <1>2, <1>3, <1>4, Constants, ProductGrows
<1>6. fresh \in Int /\ aborted \in Int /\ ToMake \in Int
  <2>1. Len(streams) \in Nat
    BY DEF Base, TypeOK
  <2> QED BY <2>1, Constants DEF Base, TypeOK, ToMake, Extra
<1>7. fresh - 1 + ToMake <= (NumStreams + 1) * Cardinality(Past)
      /\ aborted + (IF spc = "idle" THEN 0 ELSE 1) <= Cardinality(Past)
  BY DEF Base, Counted
<1> DEFINE x == (NumStreams + 1) * Cardinality(Past)
           y == (NumStreams + 1) * Cardinality(Past')
           p == Cardinality(Past)
           q == Cardinality(Past')
           u == IF spc = "idle" THEN 0 ELSE 1
           v == IF spc' = "idle" THEN 0 ELSE 1
<1>8. x \in Int /\ y \in Int /\ x <= y /\ p \in Int /\ q \in Int /\ p <= q
      /\ u \in Int /\ v \in Int
  BY <1>2, <1>3, <1>4, <1>5
<1>9. fresh - 1 + ToMake <= x /\ aborted + u <= p /\ aborted' + v <= aborted + u
  BY <1>7
<1> HIDE DEF x, y, p, q, u, v
<1>10. \A f, t, g, w, m, n \in Int :
         f - 1 + t <= m /\ m <= n /\ g + w <= f + t => g - 1 + w <= n
  OBVIOUS
<1>11. \A a, b, m, n, e, f \in Int : a + e <= m /\ m <= n /\ b + f <= a + e => b + f <= n
  OBVIOUS
<1>12. fresh' - 1 + ToMake' <= y
  BY <1>6, <1>8, <1>9, <1>10, Zenon
<1>13. aborted' + v <= q
  BY <1>6, <1>8, <1>9, <1>11, Zenon
<1> QED BY <1>12, <1>13 DEF Counted, y, q, v

-----------------------------------------------------------------------------
(* Types, shapes and counts *)

LEMMA LenStreams ==
  ASSUME Base
  PROVE  /\ Len(streams) \in Nat /\ DOMAIN streams = 1..Len(streams)
         /\ Len(streams) <= NumStreams /\ ToMake \in Int /\ ToMake >= 0
         /\ spc \in {"select", "accepted", "announced"} => Len(streams) < NumStreams
         /\ \A j \in DOMAIN streams : streams[j] \in Socks
<1>1. Len(streams) \in Nat /\ DOMAIN streams = 1..Len(streams)
      /\ \A j \in DOMAIN streams : streams[j] \in Socks
  BY DEF Base, TypeOK
<1> QED BY <1>1, Constants DEF Base, TypeOK, ServerPC, ToMake, Extra

LEMMA BaseInit == Init => Base
<1> SUFFICES ASSUME Init PROVE Base
  OBVIOUS
<1>1. Past = {} /\ Cardinality(Past) = 0
  BY FS_EmptySet DEF Init, Past
<1>2. TypeOK
  <2>1. streams \in Seq(Socks) /\ Len(streams) = 0 /\ queue \in [Socks -> Seq(Addr)]
    BY EmptySeq DEF Init
  <2>2. fresh \in 1..(Cardinality(Clients) * (NumStreams + 1) + 1)
    BY Constants DEF Init
  <2> QED BY <2>1, <2>2, Constants DEF Init, TypeOK, ServerPC, ClientPC, Addr
<1>3. ServerShape
  BY DEF Init, ServerShape
<1>4. Counted
  BY <1>1, Constants DEF Init, Counted, ToMake
<1>5. ClientShape
  BY Constants DEF Init, ClientShape
<1> QED BY <1>2, <1>3, <1>4, <1>5 DEF Base

\* A step of a client or of the network leaves the server as it was, up to the
\* queues of the sockets that are made.
LEMMA ShapeQuiet ==
  ASSUME Base,
         UNCHANGED <<spc, holder, listener, taken, streams, peer, fresh, aborted, midway, base>>,
         cpc' \in [Clients -> ClientPC],
         \A c \in Clients : cpc[c] # "wait" => cpc'[c] # "wait",
         \A s \in Socks : s >= fresh => queue'[s] = queue[s]
  PROVE  ServerShape' /\ Counted'
<1>1. spc' = spc /\ holder' = holder /\ listener' = listener /\ taken' = taken
      /\ streams' = streams /\ peer' = peer /\ fresh' = fresh /\ aborted' = aborted
  OBVIOUS
<1>2. ServerShape'
  BY <1>1 DEF Base, ServerShape
<1>3. ToMake' = ToMake
  BY <1>1 DEF ToMake, Extra
<1>4. fresh \in Int /\ aborted \in Int /\ (IF spc = "idle" THEN 0 ELSE 1) \in Int
  BY DEF Base, TypeOK
<1>5. fresh' + ToMake' <= fresh + ToMake
      /\ aborted' + (IF spc' = "idle" THEN 0 ELSE 1) <= aborted + (IF spc = "idle" THEN 0 ELSE 1)
  BY <1>1, <1>3, <1>4, LenStreams
<1>6. Counted'
  BY <1>1, <1>3, <1>4, <1>5, LenStreams, CountedStep
<1> QED BY <1>2, <1>6

\* The types of a step that leaves the server's side alone.
LEMMA TypesQuiet ==
  ASSUME Base, UNCHANGED <<spc, holder, listener, taken, streams, peer, fresh, aborted, midway, base>>,
         queue' \in [Socks -> Seq(Addr)],
         cpc' \in [Clients -> ClientPC],
         next' \in [Clients -> 1..(NumStreams + 1)],
         inbox' \in [Clients -> {"none", "reply", "refused"}],
         hellos' \subseteq Addr, replies' \subseteq Addr,
         faults' \in 0..MaxFaults, trouble' \subseteq Clients
  PROVE  TypeOK'
BY DEF Base, TypeOK

LEMMA InjectFacts ==
  ASSUME Base, NEW f, Inject(f)
  PROVE  faults' \in 0..MaxFaults
BY Constants DEF Base, TypeOK, Inject

LEMMA BaseSendHello ==
  ASSUME Base, NEW c \in Clients, SendHello(c)
  PROVE  Base'
<1>1. /\ UNCHANGED <<spc, holder, listener, taken, streams, peer, fresh, aborted, midway, base>>
      /\ queue' = queue /\ next' = next /\ inbox' = inbox /\ replies' = replies
      /\ trouble' = trouble /\ faults' = faults
      /\ cpc[c] = "hello" /\ cpc' = [cpc EXCEPT ![c] = "recv"]
      /\ hellos' = hellos \cup {<<base[c], next[c]>>}
  BY DEF SendHello, Address, serverVars
<1>2. cpc' \in [Clients -> ClientPC] /\ cpc'[c] = "recv"
      /\ \A d \in Clients : d # c => cpc'[d] = cpc[d]
  BY <1>1 DEF Base, TypeOK, ClientPC
<1>3. next[c] \in 1..NumStreams
  BY <1>1, Constants DEF Base, TypeOK, ClientShape
<1>4. hellos' \subseteq Addr
  BY <1>1, <1>3 DEF Base, TypeOK, Addr
<1>5. TypeOK'
  <2>1. /\ queue' \in [Socks -> Seq(Addr)] /\ next' \in [Clients -> 1..(NumStreams + 1)]
        /\ inbox' \in [Clients -> {"none", "reply", "refused"}]
        /\ replies' \subseteq Addr /\ faults' \in 0..MaxFaults /\ trouble' \subseteq Clients
    BY <1>1 DEF Base, TypeOK
  <2> QED BY <1>1, <1>2, <1>4, <2>1, TypesQuiet
<1>6. ServerShape' /\ Counted'
  BY <1>1, <1>2, ShapeQuiet
<1>7. ClientShape'
  BY <1>1, <1>2 DEF Base, ClientShape
<1> QED BY <1>5, <1>6, <1>7 DEF Base

LEMMA BaseRecvReply ==
  ASSUME Base, NEW c \in Clients, RecvReply(c)
  PROVE  Base'
<1>1. /\ UNCHANGED <<spc, holder, listener, taken, streams, peer, fresh, aborted, midway, base>>
      /\ queue' = queue /\ replies' = replies /\ hellos' = hellos
      /\ trouble' = trouble /\ faults' = faults
      /\ cpc[c] = "recv" /\ next' = [next EXCEPT ![c] = @ + 1]
      /\ cpc' = [cpc EXCEPT ![c] = IF next[c] = NumStreams THEN "ready" ELSE "hello"]
      /\ inbox' = [inbox EXCEPT ![c] = "none"]
  BY DEF RecvReply, serverVars, netVars
<1>2. cpc' \in [Clients -> ClientPC] /\ cpc'[c] \in {"ready", "hello"}
      /\ cpc'[c] = (IF next[c] = NumStreams THEN "ready" ELSE "hello")
      /\ \A d \in Clients : d # c => cpc'[d] = cpc[d]
  BY <1>1 DEF Base, TypeOK, ClientPC
<1>3. next[c] \in 1..NumStreams
  BY <1>1, Constants DEF Base, TypeOK, ClientShape
<1>4. next' \in [Clients -> 1..(NumStreams + 1)] /\ next'[c] = next[c] + 1
      /\ \A d \in Clients : d # c => next'[d] = next[d]
  BY <1>1, <1>3, Constants DEF Base, TypeOK
<1>5. inbox' \in [Clients -> {"none", "reply", "refused"}]
      /\ \A d \in Clients : d # c => inbox'[d] = inbox[d]
  BY <1>1 DEF Base, TypeOK
<1>6. TypeOK'
  <2>1. /\ queue' \in [Socks -> Seq(Addr)]
        /\ hellos' \subseteq Addr
        /\ replies' \subseteq Addr /\ faults' \in 0..MaxFaults /\ trouble' \subseteq Clients
    BY <1>1 DEF Base, TypeOK
  <2> QED BY <1>1, <1>2, <1>4, <1>5, <2>1, TypesQuiet
<1>7. ServerShape' /\ Counted'
  BY <1>1, <1>2, ShapeQuiet
<1>8. ClientShape'
  <2>1. base' = base
    BY <1>1
  <2> QED BY <1>2, <1>3, <1>4, <1>5, <2>1, Constants DEF Base, ClientShape
<1> QED BY <1>6, <1>7, <1>8 DEF Base

\* A client whose test ends for it, by a failure or a death.
LEMMA BaseClientEnds ==
  ASSUME Base, NEW c \in Clients, NEW what \in {"failed", "killed"},
         UNCHANGED <<serverVars, base, next, netVars>>,
         cpc' = [cpc EXCEPT ![c] = what],
         inbox' = inbox \/ inbox' = [inbox EXCEPT ![c] = "none"],
         trouble' \subseteq Clients, faults' \in 0..MaxFaults
  PROVE  Base'
<1>1. /\ UNCHANGED <<spc, holder, listener, taken, streams, peer, fresh, aborted, midway, base>>
      /\ queue' = queue /\ replies' = replies /\ hellos' = hellos /\ next' = next
  BY DEF serverVars, netVars
<1>2. cpc' \in [Clients -> ClientPC] /\ cpc'[c] = what
      /\ \A d \in Clients : d # c => cpc'[d] = cpc[d]
  BY DEF Base, TypeOK, ClientPC
<1>3. inbox' \in [Clients -> {"none", "reply", "refused"}]
      /\ \A d \in Clients : d # c => inbox'[d] = inbox[d]
  BY DEF Base, TypeOK
<1>4. TypeOK'
  <2>1. /\ queue' \in [Socks -> Seq(Addr)] /\ next' \in [Clients -> 1..(NumStreams + 1)]
        /\ hellos' \subseteq Addr /\ replies' \subseteq Addr
    BY <1>1 DEF Base, TypeOK
  <2> QED BY <1>1, <1>2, <1>3, <2>1, TypesQuiet
<1>5. ServerShape' /\ Counted'
  BY <1>1, <1>2, ShapeQuiet
<1>6. ClientShape'
  BY <1>1, <1>2, <1>3 DEF Base, ClientShape
<1> QED BY <1>4, <1>5, <1>6 DEF Base

LEMMA BaseRecvFails ==
  ASSUME Base, NEW c \in Clients, RecvFails(c)
  PROVE  Base'
<1>1. UNCHANGED <<serverVars, base, next, netVars>>
      /\ cpc' = [cpc EXCEPT ![c] = "failed"] /\ inbox' = [inbox EXCEPT ![c] = "none"]
  BY DEF RecvFails
<1>2. trouble' \subseteq Clients /\ faults' \in 0..MaxFaults
  <2>1. CASE UNCHANGED <<trouble, faults>>
    BY <2>1 DEF Base, TypeOK
  <2>2. CASE Inject("slow") /\ trouble' = trouble \cup {c}
    BY <2>2, InjectFacts DEF Base, TypeOK
  <2> QED BY <2>1, <2>2 DEF RecvFails
<1> QED BY <1>1, <1>2, BaseClientEnds

LEMMA BaseCrash ==
  ASSUME Base, NEW c \in Clients, Crash(c)
  PROVE  Base'
<1>1. UNCHANGED <<serverVars, base, next, netVars>> /\ trouble' = trouble /\ Inject("crash")
      /\ cpc' = [cpc EXCEPT ![c] = "killed"] /\ inbox' = [inbox EXCEPT ![c] = "none"]
  BY DEF Crash
<1>2. trouble' \subseteq Clients /\ faults' \in 0..MaxFaults
  BY <1>1, InjectFacts DEF Base, TypeOK
<1> QED BY <1>1, <1>2, BaseClientEnds

\* A client whose stream is not opened, or that reads the end of file.
LEMMA BaseClientStops ==
  ASSUME Base, NEW c \in Clients, StreamFails(c) \/ LoseControl(c)
  PROVE  Base'
<1>1. UNCHANGED <<serverVars, base, next, netVars>> /\ inbox' = inbox
      /\ cpc' = [cpc EXCEPT ![c] = "failed"]
  BY DEF StreamFails, LoseControl
<1>2. trouble' \subseteq Clients /\ faults' \in 0..MaxFaults
  <2>1. CASE StreamFails(c)
    BY <2>1, InjectFacts DEF StreamFails, Base, TypeOK
  <2>2. CASE LoseControl(c)
    BY <2>2 DEF LoseControl, Base, TypeOK
  <2> QED BY <2>1, <2>2
<1> QED BY <1>1, <1>2, BaseClientEnds

LEMMA BaseBeginTest ==
  ASSUME Base, NEW c \in Clients, BeginTest(c)
  PROVE  Base'
<1>1. /\ UNCHANGED <<spc, holder, listener, taken, streams, peer, fresh, aborted, midway, base>>
      /\ queue' = queue /\ replies' = replies /\ hellos' = hellos /\ next' = next
      /\ inbox' = inbox /\ trouble' = trouble /\ faults' = faults
      /\ cpc' = [cpc EXCEPT ![c] = "running"]
  BY DEF BeginTest, serverVars, netVars
<1>2. cpc' \in [Clients -> ClientPC] /\ cpc'[c] = "running"
      /\ \A d \in Clients : d # c => cpc'[d] = cpc[d]
  BY <1>1 DEF Base, TypeOK, ClientPC
<1>3. TypeOK'
  <2>1. /\ queue' \in [Socks -> Seq(Addr)] /\ next' \in [Clients -> 1..(NumStreams + 1)]
        /\ inbox' \in [Clients -> {"none", "reply", "refused"}] /\ hellos' \subseteq Addr
        /\ replies' \subseteq Addr /\ faults' \in 0..MaxFaults /\ trouble' \subseteq Clients
    BY <1>1 DEF Base, TypeOK
  <2> QED BY <1>1, <1>2, <2>1, TypesQuiet
<1>4. ServerShape' /\ Counted'
  BY <1>1, <1>2, ShapeQuiet
<1>5. ClientShape'
  BY <1>1, <1>2 DEF Base, ClientShape
<1> QED BY <1>3, <1>4, <1>5 DEF Base

\* What the arrival of a hello does: it is queued at the sockets that take it,
\* or the sender gets an error.
Connected(a) == {s \in Socks : peer[s] = a}
LEMMA ArriveFacts ==
  ASSUME Base, NEW a \in Addr, Arrive(a)
  PROVE  /\ a \in hellos
         /\ UNCHANGED <<spc, holder, listener, taken, streams, peer, fresh, aborted, midway, base>>
         /\ cpc' = cpc /\ next' = next /\ replies' = replies /\ trouble' = trouble
         /\ queue' \in [Socks -> Seq(Addr)]
         /\ inbox' \in [Clients -> {"none", "reply", "refused"}]
         /\ \A s \in Socks :
              \/ queue'[s] = queue[s]
              \/ /\ queue'[s] = Append(queue[s], a)
                 /\ peer[s] = a \/ (Connected(a) = {} /\ peer[s] = Any)
         /\ \A d \in Clients :
              \/ inbox'[d] = inbox[d]
              \/ /\ Address(d) = a /\ cpc[d] = "recv" /\ inbox'[d] = "refused"
                 /\ Connected(a) = {}
                 /\ \A s \in Socks : s = fresh - 1 => peer[s] # Any
         /\ Connected(a) = {} /\ spc \in {"select", "announced"} =>
              queue'[listener] = Append(queue[listener], a)
         /\ Connected(a) # {} => inbox' = inbox
<1> DEFINE targets == IF Connected(a) # {} THEN Connected(a)
                      ELSE {s \in Bound : \A t \in Bound : t <= s}
<1>1. /\ a \in hellos
      /\ UNCHANGED <<spc, holder, listener, taken, streams, peer, fresh, aborted, midway, base>>
      /\ cpc' = cpc /\ next' = next /\ replies' = replies /\ trouble' = trouble
  BY DEF Arrive
<1>2. IF targets = {}
        THEN Deliver(a, "refused") /\ queue' = queue
        ELSE /\ queue' = [s \in Socks |-> IF s \in targets THEN Append(queue[s], a) ELSE queue[s]]
             /\ inbox' = inbox
  BY Zenon DEF Arrive, Connected
<1>3. queue \in [Socks -> Seq(Addr)] /\ inbox \in [Clients -> {"none", "reply", "refused"}]
  BY DEF Base, TypeOK
<1>4. \A s \in targets : s \in Socks /\ (peer[s] = a \/ (Connected(a) = {} /\ peer[s] = Any))
  BY DEF Connected, Bound
<1>5. \A s \in Socks : s = fresh - 1 /\ peer[s] = Any => targets # {}
      /\ (Connected(a) = {} => s \in targets)
  <2> SUFFICES ASSUME NEW s \in Socks, s = fresh - 1, peer[s] = Any, Connected(a) = {}
               PROVE  s \in targets
    OBVIOUS
  <2>1. s \in Bound
    BY DEF Bound
  <2>2. \A t \in Bound : t <= s
    <3> SUFFICES ASSUME NEW t \in Bound, ~(t <= s) PROVE FALSE
      OBVIOUS
    <3>1. t \in Socks /\ peer[t] = Any /\ t \in Nat /\ s \in Nat /\ fresh \in Int
      BY Constants DEF Bound, Base, TypeOK
    <3>2. t >= fresh
      BY <3>1
    <3> QED BY <3>1, <3>2, Marks DEF Base, ServerShape
  <2> QED BY <2>1, <2>2
<1> HIDE DEF targets
<1>6. CASE targets = {}
  <2>1. queue' = queue /\ Deliver(a, "refused")
    BY <1>2, <1>6
  <2>2. Connected(a) = {}
    BY <1>6 DEF targets
  <2>3. \A s \in Socks : s = fresh - 1 => peer[s] # Any
    BY <1>5, <1>6
  <2>4. spc \notin {"select", "announced"}
    BY <2>3 DEF Base, ServerShape
  <2>5. inbox' = [c \in Clients |->
                    IF cpc[c] = "recv" /\ Address(c) = a /\ inbox[c] = "none"
                    THEN "refused" ELSE inbox[c]]
    BY <2>1 DEF Deliver
  <2>6. inbox' \in [Clients -> {"none", "reply", "refused"}]
    BY <1>3, <2>5
  <2>7. \A d \in Clients : inbox'[d] = inbox[d]
                         \/ (Address(d) = a /\ cpc[d] = "recv" /\ inbox'[d] = "refused")
    BY <2>5
  <2>8. \A s \in Socks : queue'[s] = queue[s]
    BY <2>1
  <2>9. queue' \in [Socks -> Seq(Addr)]
    BY <1>3, <2>1
  <2> HIDE DEF Connected
  <2> QED BY <1>1, <2>2, <2>3, <2>4, <2>6, <2>7, <2>8, <2>9
<1>7. CASE targets # {}
  <2>1. queue' = [s \in Socks |-> IF s \in targets THEN Append(queue[s], a) ELSE queue[s]]
        /\ inbox' = inbox
    BY <1>2, <1>7
  <2>2. \A s \in Socks : Append(queue[s], a) \in Seq(Addr)
    BY <1>3, AppendProperties
  <2>3. queue' \in [Socks -> Seq(Addr)]
    BY <2>1, <2>2, <1>3
  <2>4. \A s \in Socks : queue'[s] = IF s \in targets THEN Append(queue[s], a) ELSE queue[s]
    BY <2>1
  <2>5. Connected(a) = {} /\ spc \in {"select", "announced"} =>
          queue'[listener] = Append(queue[listener], a)
    <3> SUFFICES ASSUME Connected(a) = {}, spc \in {"select", "announced"}
                 PROVE  queue'[listener] = Append(queue[listener], a)
      OBVIOUS
    <3>1. listener \in Socks /\ listener = fresh - 1 /\ peer[listener] = Any
      BY DEF Base, ServerShape
    <3>2. listener \in targets
      BY <1>5, <3>1
    <3> QED BY <2>4, <3>1, <3>2
  <2> QED BY <1>1, <1>3, <1>4, <2>1, <2>3, <2>4, <2>5
<1> QED BY <1>6, <1>7

LEMMA BaseArrive ==
  ASSUME Base, NEW a \in Addr, Arrive(a), hellos' \subseteq Addr, faults' \in 0..MaxFaults
  PROVE  Base'
<1>1. /\ UNCHANGED <<spc, holder, listener, taken, streams, peer, fresh, aborted, midway, base>>
      /\ cpc' = cpc /\ next' = next /\ replies' = replies /\ trouble' = trouble
      /\ queue' \in [Socks -> Seq(Addr)]
      /\ inbox' \in [Clients -> {"none", "reply", "refused"}]
  BY ArriveFacts
<1>2. \A s \in Socks : s >= fresh => queue'[s] = queue[s]
  <2> SUFFICES ASSUME NEW s \in Socks, s >= fresh PROVE queue'[s] = queue[s]
    OBVIOUS
  <2>1. peer[s] = Free /\ peer[s] # a /\ peer[s] # Any
    BY Marks, AddrFacts DEF Base, ServerShape
  <2> QED BY <2>1, ArriveFacts
<1>3. \A d \in Clients : cpc[d] = "wait" => inbox'[d] = inbox[d]
  BY ArriveFacts
<1>4. TypeOK'
  <2>1. /\ next' \in [Clients -> 1..(NumStreams + 1)] /\ cpc' \in [Clients -> ClientPC]
        /\ replies' \subseteq Addr /\ trouble' \subseteq Clients
    BY <1>1 DEF Base, TypeOK
  <2> QED BY <1>1, <2>1, TypesQuiet
<1>5. cpc' \in [Clients -> ClientPC]
  BY <1>1 DEF Base, TypeOK
<1>6. ServerShape' /\ Counted'
  BY <1>1, <1>2, <1>5, ShapeQuiet
<1>7. ClientShape'
  BY <1>1, <1>3 DEF Base, ClientShape
<1> QED BY <1>4, <1>6, <1>7 DEF Base

LEMMA BaseHello ==
  ASSUME Base, NEW a \in Addr, HelloArrives(a) \/ HelloTwice(a)
  PROVE  Base'
<1>1. Arrive(a) /\ hellos' \subseteq Addr /\ faults' \in 0..MaxFaults
  <2>1. CASE HelloArrives(a)
    BY <2>1 DEF HelloArrives, Base, TypeOK
  <2>2. CASE HelloTwice(a)
    BY <2>2, InjectFacts DEF HelloTwice, Base, TypeOK
  <2> QED BY <2>1, <2>2
<1> QED BY <1>1, BaseArrive

\* A reply reaches the client that waits for it, and nothing else changes.
LEMMA ReplyFacts ==
  ASSUME Base, NEW a \in Addr, ReplyArrives(a)
  PROVE  /\ UNCHANGED <<spc, holder, listener, taken, streams, peer, queue, fresh, aborted, midway, base>>
         /\ cpc' = cpc /\ next' = next /\ hellos' = hellos /\ trouble' = trouble
         /\ faults' = faults /\ a \in replies /\ replies' = replies \ {a}
         /\ inbox' \in [Clients -> {"none", "reply", "refused"}]
         /\ \A d \in Clients : inbox'[d] =
              IF cpc[d] = "recv" /\ Address(d) = a /\ inbox[d] = "none"
                THEN "reply" ELSE inbox[d]
<1>1. /\ UNCHANGED <<spc, holder, listener, taken, streams, peer, queue, fresh, aborted, midway, base>>
      /\ cpc' = cpc /\ next' = next /\ hellos' = hellos /\ trouble' = trouble
      /\ faults' = faults /\ a \in replies /\ replies' = replies \ {a}
      /\ Deliver(a, "reply")
  BY DEF ReplyArrives, serverVars
<1>2. inbox \in [Clients -> {"none", "reply", "refused"}]
  BY DEF Base, TypeOK
<1>3. inbox' = [c \in Clients |->
                  IF cpc[c] = "recv" /\ Address(c) = a /\ inbox[c] = "none"
                  THEN "reply" ELSE inbox[c]]
  BY <1>1 DEF Deliver
<1> QED BY <1>1, <1>2, <1>3

LEMMA BaseReplyArrives ==
  ASSUME Base, NEW a \in Addr, ReplyArrives(a)
  PROVE  Base'
<1>1. /\ UNCHANGED <<spc, holder, listener, taken, streams, peer, fresh, aborted, midway, base>>
      /\ queue' = queue /\ cpc' = cpc /\ next' = next /\ hellos' = hellos
      /\ trouble' = trouble /\ faults' = faults /\ replies' = replies \ {a}
      /\ inbox' \in [Clients -> {"none", "reply", "refused"}]
      /\ \A d \in Clients : cpc[d] # "recv" => inbox'[d] = inbox[d]
  BY ReplyFacts
<1>2. TypeOK'
  <2>1. /\ next' \in [Clients -> 1..(NumStreams + 1)] /\ cpc' \in [Clients -> ClientPC]
        /\ queue' \in [Socks -> Seq(Addr)] /\ hellos' \subseteq Addr
        /\ replies' \subseteq Addr /\ trouble' \subseteq Clients /\ faults' \in 0..MaxFaults
    BY <1>1 DEF Base, TypeOK
  <2> QED BY <1>1, <2>1, TypesQuiet
<1>3. cpc' \in [Clients -> ClientPC]
  BY <1>1 DEF Base, TypeOK
<1>4. ServerShape' /\ Counted'
  BY <1>1, <1>3, ShapeQuiet
<1>5. ClientShape'
  BY <1>1 DEF Base, ClientShape
<1> QED BY <1>2, <1>4, <1>5 DEF Base

LEMMA BaseLose ==
  ASSUME Base, NEW a \in Addr, Lose(a)
  PROVE  Base'
<1>1. /\ UNCHANGED <<spc, holder, listener, taken, streams, peer, fresh, aborted, midway, base>>
      /\ queue' = queue /\ cpc' = cpc /\ next' = next /\ inbox' = inbox
      /\ trouble' = trouble \cup {c \in Clients : base[c] = a[1]} /\ Inject("loss")
      /\ hellos' \subseteq hellos /\ replies' \subseteq replies
  BY DEF Lose, serverVars, clientVars
<1>2. TypeOK'
  <2>1. /\ next' \in [Clients -> 1..(NumStreams + 1)] /\ cpc' \in [Clients -> ClientPC]
        /\ queue' \in [Socks -> Seq(Addr)] /\ hellos' \subseteq Addr
        /\ inbox' \in [Clients -> {"none", "reply", "refused"}]
        /\ replies' \subseteq Addr /\ trouble' \subseteq Clients /\ faults' \in 0..MaxFaults
    BY <1>1, AddrFacts, InjectFacts DEF Base, TypeOK
  <2> QED BY <1>1, <2>1, TypesQuiet
<1>3. cpc' \in [Clients -> ClientPC]
  BY <1>1 DEF Base, TypeOK
<1>4. ServerShape' /\ Counted'
  BY <1>1, <1>3, ShapeQuiet
<1>5. ClientShape'
  BY <1>1 DEF Base, ClientShape
<1> QED BY <1>2, <1>4, <1>5 DEF Base

\* netannounce makes the next socket, which nothing was connected to.
LEMMA AnnounceFacts ==
  ASSUME Base, Announce, ToMake >= 1
  PROVE  /\ fresh \in Socks /\ listener' = fresh /\ fresh' = fresh + 1
         /\ fresh' \in 1..(Cardinality(Clients) * (NumStreams + 1) + 1)
         /\ peer' \in [Socks -> Addr \cup {Free, Any, Closed}]
         /\ peer'[fresh] = Any /\ peer[fresh] = Free /\ queue[fresh] = <<>>
         /\ \A s \in Socks : s # fresh => peer'[s] = peer[s]
<1>1. fresh \in Socks
  BY RoomForFresh
<1>2. listener' = fresh /\ fresh' = fresh + 1 /\ peer' = [peer EXCEPT ![fresh] = Any]
  BY DEF Announce
<1>3. fresh' \in 1..(Cardinality(Clients) * (NumStreams + 1) + 1)
  BY <1>1, <1>2, Constants DEF Socks
<1>4. peer \in [Socks -> Addr \cup {Free, Any, Closed}]
  BY DEF Base, TypeOK
<1>5. peer[fresh] = Free /\ queue[fresh] = <<>>
  BY <1>1, Constants DEF Base, ServerShape
<1> QED BY <1>1, <1>2, <1>3, <1>4, <1>5

\* The stream is connected to whoever the first hello of the queue came from.
LEMMA AcceptFacts ==
  ASSUME Base, AcceptHello
  PROVE  /\ spc = "select" /\ spc' = "accepted" /\ listener \in Socks
         /\ taken' = listener /\ holder \in Clients
         /\ UNCHANGED <<faults, holder, listener, streams, fresh, aborted, midway, cpc,
                        base, next, inbox, hellos, replies>>
         /\ DOMAIN queue[listener] = 1..Len(queue[listener])
         /\ 1 \in DOMAIN queue[listener]
         /\ queue[listener][1] \in Addr /\ peer'[listener] = queue[listener][1]
         /\ peer[listener] = Any
         /\ peer' \in [Socks -> Addr \cup {Free, Any, Closed}]
         /\ \A s \in Socks : s # listener => peer'[s] = peer[s] /\ queue'[s] = queue[s]
         /\ queue' \in [Socks -> Seq(Addr)]
         /\ \A i \in DOMAIN queue'[listener] :
              i + 1 \in DOMAIN queue[listener] /\ queue'[listener][i] = queue[listener][i + 1]
         /\ trouble' = IF queue[listener][1][1] = base[holder] THEN trouble ELSE trouble \cup {holder}
<1>1. spc = "select" /\ listener \in Socks /\ peer[listener] = Any /\ holder \in Clients
  BY DEF AcceptHello, Base, ServerShape
<1>2. queue[listener] \in Seq(Addr) /\ queue[listener] # <<>>
  BY <1>1 DEF AcceptHello, Base, TypeOK
<1>3. Head(queue[listener]) = queue[listener][1] /\ Head(queue[listener]) \in Addr
      /\ Tail(queue[listener]) \in Seq(Addr)
      /\ Len(Tail(queue[listener])) = Len(queue[listener]) - 1
      /\ \A i \in 1..Len(Tail(queue[listener])) : Tail(queue[listener])[i] = queue[listener][i + 1]
      /\ Len(queue[listener]) \in Nat \ {0}
  BY <1>2, HeadTailProperties, EmptySeq
<1>4. DOMAIN queue[listener] = 1..Len(queue[listener])
      /\ DOMAIN Tail(queue[listener]) = 1..Len(Tail(queue[listener]))
      /\ 1 \in DOMAIN queue[listener]
  BY <1>2, <1>3, LenProperties
<1>5. /\ spc' = "accepted" /\ taken' = listener
      /\ peer' = [peer EXCEPT ![listener] = queue[listener][1]]
      /\ queue' = [queue EXCEPT ![listener] = Tail(queue[listener])]
      /\ trouble' = IF queue[listener][1][1] = base[holder] THEN trouble ELSE trouble \cup {holder}
      /\ UNCHANGED <<faults, holder, listener, streams, fresh, aborted, midway, cpc,
                     base, next, inbox, hellos, replies>>
  BY <1>3 DEF AcceptHello, clientVars, netVars
<1>6. peer \in [Socks -> Addr \cup {Free, Any, Closed}] /\ queue \in [Socks -> Seq(Addr)]
  BY DEF Base, TypeOK
<1>7. /\ peer' \in [Socks -> Addr \cup {Free, Any, Closed}]
      /\ queue' \in [Socks -> Seq(Addr)] /\ peer'[listener] = queue[listener][1]
      /\ queue'[listener] = Tail(queue[listener])
      /\ \A s \in Socks : s # listener => peer'[s] = peer[s] /\ queue'[s] = queue[s]
  BY <1>1, <1>3, <1>5, <1>6
<1>8. \A i \in DOMAIN queue'[listener] :
        i + 1 \in DOMAIN queue[listener] /\ queue'[listener][i] = queue[listener][i + 1]
  BY <1>3, <1>4, <1>7
<1> QED BY <1>1, <1>3, <1>4, <1>5, <1>7, <1>8

LEMMA BaseAcceptHello ==
  ASSUME Base, AcceptHello
  PROVE  Base'
<1>1. /\ spc = "select" /\ spc' = "accepted" /\ listener \in Socks
      /\ taken' = listener /\ holder \in Clients
      /\ faults' = faults /\ holder' = holder /\ listener' = listener /\ streams' = streams
      /\ fresh' = fresh /\ aborted' = aborted /\ midway' = midway /\ cpc' = cpc
      /\ base' = base /\ next' = next /\ inbox' = inbox /\ hellos' = hellos /\ replies' = replies
  BY AcceptFacts
<1>2. /\ peer'[listener] \in Addr /\ peer[listener] = Any
      /\ peer' \in [Socks -> Addr \cup {Free, Any, Closed}]
      /\ queue' \in [Socks -> Seq(Addr)]
      /\ \A s \in Socks : s # listener => peer'[s] = peer[s] /\ queue'[s] = queue[s]
  BY AcceptFacts
<1>3. trouble' \subseteq Clients
  BY AcceptFacts DEF Base, TypeOK
<1>4. listener = fresh - 1 /\ fresh \in Nat
  BY <1>1, Constants DEF Base, ServerShape, TypeOK
<1>5. TypeOK'
  BY <1>1, <1>2, <1>3, LenStreams DEF Base, TypeOK, ServerPC
<1>6. ServerShape'
  <2>1. \A j \in DOMAIN streams : peer'[streams[j]] \in Addr
    BY <1>2, LenStreams DEF Base, ServerShape
  <2>2. \A s \in Socks : s >= fresh => peer'[s] = Free /\ queue'[s] = <<>>
    BY <1>2, <1>4, Constants DEF Base, ServerShape
  <2> QED BY <1>1, <1>2, <1>4, <2>1, <2>2 DEF Base, ServerShape
<1>7. Counted'
  <2>1. ToMake' = ToMake
    BY <1>1 DEF ToMake, Extra
  <2>2. fresh' + ToMake' <= fresh + ToMake /\ fresh' \in Int /\ ToMake' \in Int
    BY <1>1, <1>4, <2>1, LenStreams
  <2>3. aborted' + (IF spc' = "idle" THEN 0 ELSE 1) <= aborted + (IF spc = "idle" THEN 0 ELSE 1)
        /\ aborted' \in Int
    BY <1>1 DEF Base, TypeOK
  <2>4. cpc' \in [Clients -> ClientPC] /\ \A c \in Clients : cpc[c] # "wait" => cpc'[c] # "wait"
    BY <1>1 DEF Base, TypeOK
  <2> QED BY <2>2, <2>3, <2>4, CountedStep
<1>8. ClientShape'
  BY <1>1 DEF Base, ClientShape
<1> QED BY <1>5, <1>6, <1>7, <1>8 DEF Base

\* A session that is aborted: what is open stays open, up to the listener.
LEMMA BaseAbort ==
  ASSUME Base, AbortSession, spc # "idle", trouble' \subseteq Clients, faults' \in 0..MaxFaults,
         midway' \in {midway, midway + 1}, replies' \subseteq Addr,
         peer' \in [Socks -> Addr \cup {Free, Any, Closed}],
         \A s \in Socks : s >= fresh => peer'[s] = peer[s]
  PROVE  Base'
<1>1. /\ spc' = "idle" /\ holder' = NoClient /\ listener' = NoSock /\ taken' = NoSock
      /\ streams' = <<>> /\ aborted' = aborted + 1
      /\ queue' = queue /\ fresh' = fresh /\ cpc' = cpc /\ base' = base /\ next' = next
      /\ inbox' = inbox /\ hellos' = hellos
  BY DEF AbortSession, clientVars
<1>2. aborted \in Nat /\ aborted + 1 <= Cardinality(Clients)
  BY PastFacts, Constants DEF Base, Counted, TypeOK
<1>3. TypeOK'
  <2>1. streams' \in Seq(Socks) /\ Len(streams') = 0
    BY <1>1, EmptySeq
  <2>2. aborted' \in 0..Cardinality(Clients)
    BY <1>1, <1>2, Constants
  <2>3. /\ queue' \in [Socks -> Seq(Addr)]
        /\ fresh' \in 1..(Cardinality(Clients) * (NumStreams + 1) + 1)
        /\ cpc' \in [Clients -> ClientPC] /\ base' \in [Clients -> Clients]
        /\ next' \in [Clients -> 1..(NumStreams + 1)]
        /\ inbox' \in [Clients -> {"none", "reply", "refused"}]
        /\ hellos' \subseteq Addr
    BY <1>1 DEF Base, TypeOK
  <2>4. Len(streams') <= NumStreams - (IF spc' \in {"idle", "running"} THEN 0 ELSE 1)
    BY <1>1, <2>1, Constants
  <2>5. midway' \in 0..aborted'
    BY <1>1, <1>2 DEF Base, TypeOK
  <2> QED BY <1>1, <2>1, <2>2, <2>3, <2>4, <2>5 DEF TypeOK, ServerPC
<1>4. ServerShape'
  <2>1. DOMAIN streams' = {}
    BY <1>1
  <2> QED BY <1>1, <2>1 DEF Base, ServerShape
<1>5. Counted'
  <2>1. ToMake' = 0
    BY <1>1 DEF ToMake
  <2>2. fresh' + ToMake' <= fresh + ToMake /\ fresh' \in Int /\ ToMake' \in Int
    BY <1>1, <2>1, LenStreams DEF Base, TypeOK
  <2>3. aborted' + (IF spc' = "idle" THEN 0 ELSE 1) <= aborted + (IF spc = "idle" THEN 0 ELSE 1)
        /\ aborted' \in Int
    BY <1>1, <1>2
  <2>4. cpc' \in [Clients -> ClientPC] /\ \A c \in Clients : cpc[c] # "wait" => cpc'[c] # "wait"
    BY <1>1 DEF Base, TypeOK
  <2> QED BY <2>2, <2>3, <2>4, CountedStep
<1>6. ClientShape'
  BY <1>1 DEF Base, ClientShape
<1> QED BY <1>3, <1>4, <1>5, <1>6 DEF Base

\* What the steps that abort a session have in common.
Aborts ==
  \/ ClientGone
  \/ AcceptFails
  \/ /\ spc = "accepted" /\ Inject("listen") /\ AbortSession
     /\ UNCHANGED <<peer, midway, replies>> /\ trouble' = trouble \cup {holder}
  \/ ReplyFails
  \/ StartFails

LEMMA AbortFacts ==
  ASSUME Base, Aborts
  PROVE  /\ AbortSession /\ spc # "idle" /\ holder \in Clients
         /\ trouble \subseteq trouble' /\ trouble' \subseteq Clients
         /\ faults' \in 0..MaxFaults
         /\ holder \in trouble' \/ cpc[holder] \in {"failed", "killed"}
         /\ spc # "running" \/ cpc[holder] # "running"
         /\ \A a \in replies' : a \in replies \/ (taken \in Socks /\ peer[taken] = a)
         /\ replies' \subseteq Addr
<1>1. spc # "idle" => holder \in Clients
  BY DEF Base, ServerShape
<1>2. trouble \subseteq Clients /\ faults \in 0..MaxFaults /\ replies \subseteq Addr
  BY DEF Base, TypeOK
<1>3. CASE ClientGone
  BY <1>1, <1>2, <1>3 DEF ClientGone
<1>4. CASE AcceptFails
  BY <1>1, <1>2, <1>4, InjectFacts DEF AcceptFails
<1>5. CASE /\ spc = "accepted" /\ Inject("listen") /\ AbortSession
           /\ UNCHANGED <<peer, midway, replies>> /\ trouble' = trouble \cup {holder}
  BY <1>1, <1>2, <1>5, InjectFacts
<1>6. spc = "announced" => taken \in Socks /\ peer[taken] \in Addr
  BY DEF Base, ServerShape
<1>7. CASE ReplyFails
  BY <1>1, <1>2, <1>6, <1>7, InjectFacts DEF ReplyFails
<1>8. CASE StartFails
  BY <1>1, <1>2, <1>6, <1>8, InjectFacts DEF StartFails
<1> QED BY <1>3, <1>4, <1>5, <1>7, <1>8 DEF Aborts

\* Each keeps what the sockets are connected to, but a listener that is closed.
LEMMA AbortPeers ==
  ASSUME Base, Aborts
  PROVE  /\ midway' \in {midway, midway + 1}
         /\ peer' = peer \/ (StartFails /\ listener \in Socks /\ peer[listener] = Any
                              /\ peer' = [peer EXCEPT ![listener] = Closed])
<1>1. CASE ~StartFails
  BY <1>1 DEF Aborts, ClientGone, AcceptFails, ReplyFails
<1>2. CASE StartFails
  BY <1>2 DEF StartFails, Base, ServerShape
<1> QED BY <1>1, <1>2

LEMMA BaseAborts ==
  ASSUME Base, Aborts
  PROVE  Base'
<1>1. peer \in [Socks -> Addr \cup {Free, Any, Closed}]
  BY DEF Base, TypeOK
<1>2. peer' \in [Socks -> Addr \cup {Free, Any, Closed}]
  BY <1>1, AbortPeers
<1>3. \A s \in Socks : s >= fresh => peer'[s] = peer[s]
  BY <1>1, AbortPeers, Marks DEF Base, ServerShape
<1> QED BY <1>2, <1>3, AbortFacts, AbortPeers, BaseAbort

\* A step of iperf_udp_accept that makes the new listener, or aborts.
LEMMA NewListenerFacts ==
  ASSUME NewListener
  PROVE  \/ Aborts
         \/ /\ spc = "accepted" /\ Announce /\ spc' = "announced"
            /\ UNCHANGED <<holder, taken, streams, queue, aborted, midway, cpc, base, next,
                           inbox, hellos, replies, trouble, faults>>
BY DEF NewListener, Aborts, clientVars, netVars

LEMMA BaseNewListener ==
  ASSUME Base, NewListener
  PROVE  Base'
<1>1. spc = "accepted" /\ holder \in Clients
  BY DEF NewListener, Base, ServerShape
<1>2. CASE Aborts
  BY <1>2, BaseAborts
<1>3. CASE /\ Announce /\ spc' = "announced"
           /\ UNCHANGED <<holder, taken, streams, queue, aborted, midway, cpc, base, next,
                          inbox, hellos, replies, trouble, faults>>
  <2>1. /\ spc' = "announced" /\ holder' = holder /\ taken' = taken /\ streams' = streams
        /\ queue' = queue /\ aborted' = aborted /\ midway' = midway /\ cpc' = cpc
        /\ base' = base /\ next' = next /\ inbox' = inbox /\ hellos' = hellos
        /\ replies' = replies /\ trouble' = trouble /\ faults' = faults
    BY <1>3
  <2>2. ToMake >= 1 /\ ToMake' = ToMake - 1
    BY <1>1, <2>1, LenStreams, Constants DEF ToMake, Extra
  <2>3. /\ fresh \in Socks /\ listener' = fresh /\ fresh' = fresh + 1
        /\ fresh' \in 1..(Cardinality(Clients) * (NumStreams + 1) + 1)
        /\ peer' \in [Socks -> Addr \cup {Free, Any, Closed}]
        /\ peer'[fresh] = Any /\ peer[fresh] = Free
        /\ \A s \in Socks : s # fresh => peer'[s] = peer[s]
    BY <1>3, <2>2, AnnounceFacts
  <2>4. TypeOK'
    BY <1>1, <2>1, <2>3 DEF Base, TypeOK, ServerPC
  <2>5. ServerShape'
    <3>1. taken \in Socks /\ peer[taken] \in Addr /\ taken # fresh
      BY <1>1, <2>3, AddrFacts DEF Base, ServerShape
    <3>2. \A j \in DOMAIN streams : peer'[streams[j]] \in Addr
      <4> SUFFICES ASSUME NEW j \in DOMAIN streams PROVE peer'[streams[j]] \in Addr
        OBVIOUS
      <4>1. streams[j] \in Socks /\ peer[streams[j]] \in Addr
        BY LenStreams DEF Base, ServerShape
      <4>2. streams[j] # fresh
        BY <4>1, <2>3, AddrFacts
      <4> QED BY <4>1, <4>2, <2>3
    <3>3. \A s \in Socks : s >= fresh + 1 => peer'[s] = Free /\ queue[s] = <<>>
      BY <2>3, Constants DEF Base, ServerShape
    <3>4. fresh' - 1 = fresh
      BY <2>3, Constants
    <3> QED BY <1>1, <2>1, <2>3, <3>1, <3>2, <3>3, <3>4 DEF Base, ServerShape
  <2>6. Counted'
    <3>1. fresh' + ToMake' <= fresh + ToMake /\ fresh' \in Int /\ ToMake' \in Int
      BY <2>2, <2>3, LenStreams, Constants
    <3>2. aborted' + (IF spc' = "idle" THEN 0 ELSE 1) <= aborted + (IF spc = "idle" THEN 0 ELSE 1)
          /\ aborted' \in Int
      BY <1>1, <2>1 DEF Base, TypeOK
    <3>3. cpc' \in [Clients -> ClientPC] /\ \A c \in Clients : cpc[c] # "wait" => cpc'[c] # "wait"
      BY <2>1 DEF Base, TypeOK
    <3> QED BY <3>1, <3>2, <3>3, CountedStep
  <2>7. ClientShape'
    BY <2>1 DEF Base, ClientShape
  <2> QED BY <2>4, <2>5, <2>6, <2>7 DEF Base
<1> QED BY <1>2, <1>3, NewListenerFacts

\* The new stream of the list, the reply, and after the last the listener
\* closed.
LEMMA AddFacts ==
  ASSUME Base, ReplyAndAdd
  PROVE  /\ spc = "announced" /\ taken \in Socks /\ peer[taken] \in Addr /\ holder \in Clients
         /\ replies' = replies \cup {peer[taken]} /\ taken' = NoSock
         /\ streams' \in Seq(Socks) /\ Len(streams') = Len(streams) + 1
         /\ Len(streams) < NumStreams
         /\ DOMAIN streams' = 1..(Len(streams) + 1)
         /\ \A j \in DOMAIN streams : streams'[j] = streams[j]
         /\ streams'[Len(streams) + 1] = taken
         /\ listener \in Socks /\ peer[listener] = Any
         /\ spc' = IF Len(streams) + 1 = NumStreams THEN "running" ELSE "select"
         /\ listener' = IF Len(streams) + 1 = NumStreams THEN NoSock ELSE listener
         /\ peer' \in [Socks -> Addr \cup {Free, Any, Closed}]
         /\ peer'[listener] = IF Len(streams) + 1 = NumStreams THEN Closed ELSE Any
         /\ \A s \in Socks : s # listener => peer'[s] = peer[s]
         /\ UNCHANGED <<holder, queue, fresh, aborted, midway, cpc, base, next, inbox, hellos,
                     trouble, faults>>
<1>1. /\ spc = "announced" /\ replies' = replies \cup {peer[taken]} /\ taken' = NoSock
      /\ streams' = Append(streams, taken)
      /\ UNCHANGED <<holder, queue, fresh, aborted, midway, cpc, base, next, inbox, hellos,
                     trouble, faults>>
      /\ IF Len(streams) + 1 = NumStreams
           THEN /\ spc' = "running" /\ listener' = NoSock
                /\ peer' = [peer EXCEPT ![listener] = Closed]
           ELSE spc' = "select" /\ listener' = listener /\ peer' = peer
  BY DEF ReplyAndAdd, clientVars
<1>2. /\ taken \in Socks /\ peer[taken] \in Addr /\ holder \in Clients
      /\ listener \in Socks /\ peer[listener] = Any
  BY <1>1 DEF Base, ServerShape
<1>3. streams \in Seq(Socks) /\ peer \in [Socks -> Addr \cup {Free, Any, Closed}]
  BY DEF Base, TypeOK
<1>4. /\ streams' \in Seq(Socks) /\ Len(streams') = Len(streams) + 1
      /\ \A j \in 1..Len(streams) : streams'[j] = streams[j]
      /\ streams'[Len(streams) + 1] = taken
  BY <1>1, <1>2, <1>3, AppendProperties
<1>5. DOMAIN streams' = 1..(Len(streams) + 1) /\ DOMAIN streams = 1..Len(streams)
      /\ Len(streams) < NumStreams
  BY <1>1, <1>4, LenProperties, LenStreams
<1>6. /\ spc' = IF Len(streams) + 1 = NumStreams THEN "running" ELSE "select"
      /\ listener' = IF Len(streams) + 1 = NumStreams THEN NoSock ELSE listener
      /\ peer' \in [Socks -> Addr \cup {Free, Any, Closed}]
      /\ peer'[listener] = IF Len(streams) + 1 = NumStreams THEN Closed ELSE Any
      /\ \A s \in Socks : s # listener => peer'[s] = peer[s]
  <2>1. CASE Len(streams) + 1 = NumStreams
    BY <1>1, <1>2, <1>3, <2>1
  <2>2. CASE Len(streams) + 1 # NumStreams
    BY <1>1, <1>2, <1>3, <2>2
  <2> QED BY <2>1, <2>2
<1> QED BY <1>1, <1>2, <1>4, <1>5, <1>6

LEMMA BaseReplyAndAdd ==
  ASSUME Base, ReplyAndAdd
  PROVE  Base'
<1>1. /\ spc = "announced" /\ taken \in Socks /\ peer[taken] \in Addr /\ holder \in Clients
      /\ replies' = replies \cup {peer[taken]} /\ taken' = NoSock
      /\ streams' \in Seq(Socks) /\ Len(streams') = Len(streams) + 1
      /\ Len(streams) < NumStreams
      /\ listener \in Socks /\ peer[listener] = Any
      /\ spc' = IF Len(streams) + 1 = NumStreams THEN "running" ELSE "select"
      /\ listener' = IF Len(streams) + 1 = NumStreams THEN NoSock ELSE listener
      /\ peer' \in [Socks -> Addr \cup {Free, Any, Closed}]
      /\ peer'[listener] = IF Len(streams) + 1 = NumStreams THEN Closed ELSE Any
      /\ \A s \in Socks : s # listener => peer'[s] = peer[s]
  BY AddFacts
<1>2. /\ holder' = holder /\ queue' = queue /\ fresh' = fresh /\ aborted' = aborted
      /\ midway' = midway /\ cpc' = cpc /\ base' = base /\ next' = next /\ inbox' = inbox /\ hellos' = hellos
      /\ trouble' = trouble /\ faults' = faults
  BY AddFacts
<1>3. TypeOK'
  <2>1. Len(streams') <= NumStreams - (IF spc' \in {"idle", "running"} THEN 0 ELSE 1)
    BY <1>1, LenStreams, Constants
  <2>2. listener' \in Socks \cup {NoSock} /\ spc' \in ServerPC
    BY <1>1 DEF ServerPC
  <2> QED BY <1>1, <1>2, <2>1, <2>2 DEF Base, TypeOK
<1>4. ServerShape'
  <2>1. \A j \in DOMAIN streams' : peer'[streams'[j]] \in Addr
    <3> SUFFICES ASSUME NEW j \in DOMAIN streams' PROVE peer'[streams'[j]] \in Addr
      OBVIOUS
    <3>1. streams'[j] \in Socks /\ peer[streams'[j]] \in Addr
      BY AddFacts, LenStreams DEF Base, ServerShape
    <3>2. streams'[j] # listener
      BY <1>1, <3>1, AddrFacts
    <3> QED BY <1>1, <3>1, <3>2
  <2>2. listener = fresh - 1 /\ fresh \in Nat
    BY <1>1, Constants DEF Base, ServerShape, TypeOK
  <2>3. \A s \in Socks : s >= fresh => peer'[s] = Free /\ queue[s] = <<>>
    <3>1. \A s \in Socks : s >= fresh => s # listener
      BY <2>2, Constants
    <3> QED BY <1>1, <3>1 DEF Base, ServerShape
  <2>4. holder \in Clients /\ cpc[holder] # "wait"
    BY <1>1 DEF Base, ServerShape
  <2> QED BY <1>1, <1>2, <2>1, <2>2, <2>3, <2>4 DEF ServerShape
<1>5. Counted'
  <2>1. ToMake \in Int /\ ToMake' \in Int /\ ToMake' <= ToMake
    BY <1>1, LenStreams, Constants DEF ToMake, Extra
  <2>2. fresh' + ToMake' <= fresh + ToMake /\ fresh' \in Int
    <3>1. fresh \in Int /\ fresh' = fresh
      BY <1>2 DEF Base, TypeOK
    <3>2. \A f, m, n \in Int : m <= n => f + m <= f + n
      OBVIOUS
    <3>3. fresh + ToMake' <= fresh + ToMake
      BY <2>1, <3>1, <3>2, Zenon
    <3> QED BY <3>1, <3>3, Zenon
  <2>3. aborted' + (IF spc' = "idle" THEN 0 ELSE 1) <= aborted + (IF spc = "idle" THEN 0 ELSE 1)
        /\ aborted' \in Int
    BY <1>1, <1>2 DEF Base, TypeOK
  <2>4. cpc' \in [Clients -> ClientPC] /\ \A c \in Clients : cpc[c] # "wait" => cpc'[c] # "wait"
    BY <1>2 DEF Base, TypeOK
  <2> QED BY <2>1, <2>2, <2>3, <2>4, CountedStep
<1>6. ClientShape'
  BY <1>2 DEF Base, ClientShape
<1> QED BY <1>3, <1>4, <1>5, <1>6 DEF Base

\* The end of a test closes the sockets on the list.
LEMMA EndFacts ==
  ASSUME Base, NEW c \in Clients, EndTest(c)
  PROVE  /\ cpc[c] = "running" /\ spc' = "idle" /\ holder' = NoClient /\ streams' = <<>>
         /\ cpc' \in [Clients -> ClientPC] /\ cpc'[c] = "done"
         /\ \A d \in Clients : d # c => cpc'[d] = cpc[d]
         /\ peer' \in [Socks -> Addr \cup {Free, Any, Closed}]
         /\ \A s \in Socks : peer'[s] = IF OnList(s) THEN Closed ELSE peer[s]
         /\ UNCHANGED <<listener, taken, queue, fresh, aborted, midway, base, next, inbox,
                        hellos, replies, trouble, faults>>
<1>1. /\ cpc[c] = "running" /\ spc' = "idle" /\ holder' = NoClient /\ streams' = <<>>
      /\ cpc' = [cpc EXCEPT ![c] = "done"]
      /\ peer' = [s \in Socks |-> IF OnList(s) THEN Closed ELSE peer[s]]
      /\ UNCHANGED <<listener, taken, queue, fresh, aborted, midway, base, next, inbox,
                     hellos, replies, trouble, faults>>
  BY DEF EndTest, OnList, netVars
<1>2. peer \in [Socks -> Addr \cup {Free, Any, Closed}] /\ cpc \in [Clients -> ClientPC]
  BY DEF Base, TypeOK
<1>3. peer' \in [Socks -> Addr \cup {Free, Any, Closed}]
      /\ \A s \in Socks : peer'[s] = IF OnList(s) THEN Closed ELSE peer[s]
  BY <1>1, <1>2
<1> QED BY <1>1, <1>2, <1>3 DEF ClientPC

LEMMA BaseEndTest ==
  ASSUME Base, RunningInSession, NEW c \in Clients, EndTest(c)
  PROVE  Base'
<1>1. /\ cpc[c] = "running" /\ spc' = "idle" /\ holder' = NoClient /\ streams' = <<>>
      /\ cpc' \in [Clients -> ClientPC] /\ cpc'[c] = "done"
      /\ \A d \in Clients : d # c => cpc'[d] = cpc[d]
      /\ peer' \in [Socks -> Addr \cup {Free, Any, Closed}]
      /\ \A s \in Socks : peer'[s] = IF OnList(s) THEN Closed ELSE peer[s]
      /\ listener' = listener /\ taken' = taken /\ queue' = queue /\ fresh' = fresh
      /\ aborted' = aborted /\ midway' = midway /\ base' = base /\ next' = next
      /\ inbox' = inbox /\ hellos' = hellos
      /\ replies' = replies /\ trouble' = trouble /\ faults' = faults
  BY EndFacts
<1>2. spc = "running" /\ listener = NoSock /\ taken = NoSock
  BY <1>1 DEF RunningInSession, Base, ServerShape
<1>3. Len(streams') = 0 /\ streams' \in Seq(Socks) /\ DOMAIN streams' = {}
  BY <1>1, EmptySeq
<1>4. TypeOK'
  <2>1. Len(streams') <= NumStreams - (IF spc' \in {"idle", "running"} THEN 0 ELSE 1)
    BY <1>1, <1>3, Constants
  <2> QED BY <1>1, <1>3, <2>1 DEF Base, TypeOK, ServerPC
<1>5. ServerShape'
  <2>1. \A s \in Socks : s >= fresh => peer'[s] = Free /\ queue[s] = <<>>
    <3> SUFFICES ASSUME NEW s \in Socks, s >= fresh PROVE peer'[s] = Free /\ queue[s] = <<>>
      OBVIOUS
    <3>1. peer[s] = Free /\ queue[s] = <<>>
      BY DEF Base, ServerShape
    <3>2. ~OnList(s)
      BY <3>1, AddrFacts DEF OnList, Base, ServerShape
    <3> QED BY <1>1, <3>1, <3>2
  <2> QED BY <1>1, <1>2, <1>3, <2>1 DEF ServerShape
<1>6. Counted'
  <2>1. ToMake' = 0
    BY <1>1 DEF ToMake
  <2>2. fresh' + ToMake' <= fresh + ToMake /\ fresh' \in Int /\ ToMake' \in Int
    BY <1>1, <2>1, LenStreams DEF Base, TypeOK
  <2>3. aborted' + (IF spc' = "idle" THEN 0 ELSE 1) <= aborted + (IF spc = "idle" THEN 0 ELSE 1)
        /\ aborted' \in Int
    BY <1>1, <1>2 DEF Base, TypeOK
  <2>4. \A d \in Clients : cpc[d] # "wait" => cpc'[d] # "wait"
    BY <1>1
  <2> QED BY <1>1, <2>2, <2>3, <2>4, CountedStep
<1>7. ClientShape'
  BY <1>1 DEF Base, ClientShape
<1> QED BY <1>4, <1>5, <1>6, <1>7 DEF Base

\* A client that is admitted, or refused because there is no listener.
LEMMA AdmitFacts ==
  ASSUME Base, NEW c \in Clients, Admit(c)
  PROVE  /\ spc = "idle" /\ cpc[c] = "wait"
         /\ cpc' \in [Clients -> ClientPC] /\ cpc'[c] \in {"hello", "failed"}
         /\ \A d \in Clients : d # c => cpc'[d] = cpc[d]
         /\ trouble \subseteq trouble' /\ trouble' \subseteq trouble \cup {c}
         /\ UNCHANGED <<taken, streams, queue, aborted, midway, next, inbox, hellos, replies>>
         /\ \/ /\ Announce /\ spc' = "select" /\ holder' = c /\ cpc'[c] = "hello"
               /\ base' \in [Clients -> Clients] /\ base'[c] \in BasesFor(c)
               /\ \A d \in Clients : d # c => base'[d] = base[d]
               /\ c \notin trouble' => \A s \in Socks : peer[s][1] # base'[c]
               /\ UNCHANGED faults
            \/ /\ Inject("listen") /\ cpc'[c] = "failed" /\ c \in trouble'
               /\ UNCHANGED <<spc, holder, listener, peer, fresh, base>>
<1>1. cpc \in [Clients -> ClientPC] /\ base \in [Clients -> Clients]
  BY DEF Base, TypeOK
<1>2. /\ spc = "idle" /\ cpc[c] = "wait"
      /\ UNCHANGED <<taken, streams, queue, aborted, midway, next, inbox, hellos, replies>>
  BY DEF Admit, netVars
<1>3. CASE /\ Announce /\ spc' = "select" /\ holder' = c /\ cpc' = [cpc EXCEPT ![c] = "hello"]
           /\ \E b \in BasesFor(c) :
                /\ base' = [base EXCEPT ![c] = b]
                /\ trouble' = IF \E s \in Socks : peer[s][1] = b THEN trouble \cup {c}
                              ELSE trouble
           /\ UNCHANGED faults
  <2>1. PICK b \in BasesFor(c) :
          /\ base' = [base EXCEPT ![c] = b]
          /\ trouble' = IF \E s \in Socks : peer[s][1] = b THEN trouble \cup {c} ELSE trouble
    BY <1>3
  <2>2. b \in Clients
    BY DEF BasesFor
  <2>3. base' \in [Clients -> Clients] /\ base'[c] = b
        /\ \A d \in Clients : d # c => base'[d] = base[d]
    BY <1>1, <2>1, <2>2
  <2> QED BY <1>1, <1>2, <1>3, <2>1, <2>3 DEF ClientPC
<1>4. CASE /\ Inject("listen") /\ cpc' = [cpc EXCEPT ![c] = "failed"] /\ trouble' = trouble \cup {c}
           /\ UNCHANGED <<spc, holder, listener, peer, fresh, base>>
  BY <1>1, <1>2, <1>4 DEF ClientPC
<1> QED BY <1>3, <1>4 DEF Admit

LEMMA BaseAdmit ==
  ASSUME Base, NEW c \in Clients, Admit(c)
  PROVE  Base'
<1>1. /\ spc = "idle" /\ cpc[c] = "wait"
      /\ cpc' \in [Clients -> ClientPC] /\ cpc'[c] \in {"hello", "failed"}
      /\ \A d \in Clients : d # c => cpc'[d] = cpc[d]
      /\ taken' = taken /\ streams' = streams /\ queue' = queue /\ aborted' = aborted
      /\ midway' = midway /\ next' = next /\ inbox' = inbox /\ hellos' = hellos
      /\ replies' = replies /\ trouble' \subseteq trouble \cup {c}
      /\ base' \in [Clients -> Clients] /\ \A d \in Clients : d # c => base'[d] = base[d]
  BY AdmitFacts DEF Base, TypeOK
<1>2. holder = NoClient /\ listener = NoSock /\ taken = NoSock /\ streams = <<>>
      /\ Len(streams) = 0 /\ DOMAIN streams = {}
  BY <1>1 DEF Base, ServerShape
<1>3. ClientShape'
  BY <1>1, Constants DEF Base, ClientShape
<1>4. CASE Inject("listen") /\ cpc'[c] = "failed"
           /\ UNCHANGED <<spc, holder, listener, peer, fresh, base>>
  <2>1. TypeOK'
    <3>1. faults' \in 0..MaxFaults
      BY <1>4, InjectFacts
    <3>2. Len(streams') = Len(streams)
      BY <1>1
    <3> QED BY <1>1, <1>4, <3>1, <3>2 DEF Base, TypeOK
  <2>2. ServerShape' /\ Counted'
    BY <1>1, <1>4, ShapeQuiet
  <2> QED BY <1>3, <2>1, <2>2 DEF Base
<1>5. CASE Announce /\ spc' = "select" /\ holder' = c /\ cpc'[c] = "hello"
           /\ UNCHANGED faults
  <2>1. IsFiniteSet(Past') /\ Cardinality(Past') = Cardinality(Past) + 1
        /\ Cardinality(Past') <= Cardinality(Clients)
    <3>1. Past' = Past \cup {c} /\ c \notin Past /\ Past' \in SUBSET Clients
      BY <1>1 DEF Past
    <3> QED BY <3>1, PastFacts, Constants, FS_AddElement, FS_Subset
  <2>2. (NumStreams + 1) * Cardinality(Past') = (NumStreams + 1) * Cardinality(Past) + (NumStreams + 1)
        /\ (NumStreams + 1) * Cardinality(Past') \in Nat
        /\ (NumStreams + 1) * Cardinality(Past) \in Nat
        /\ (NumStreams + 1) * Cardinality(Past') <= (NumStreams + 1) * Cardinality(Clients)
        /\ (NumStreams + 1) * Cardinality(Clients) = Cardinality(Clients) * (NumStreams + 1)
        /\ (NumStreams + 1) * Cardinality(Clients) \in Nat
    BY <2>1, PastFacts, Constants, ProductGrows
  <2>3. fresh \in Nat /\ fresh >= 1 /\ fresh - 1 <= (NumStreams + 1) * Cardinality(Past)
    BY <1>1, Constants DEF Base, TypeOK, Counted, ToMake
  <2>4. fresh \in Socks
    BY <2>2, <2>3, Constants DEF Socks
  <2>5. /\ listener' = fresh /\ fresh' = fresh + 1
        /\ peer' \in [Socks -> Addr \cup {Free, Any, Closed}] /\ peer'[fresh] = Any
        /\ \A s \in Socks : s # fresh => peer'[s] = peer[s]
    BY <1>5, <2>4 DEF Announce, Base, TypeOK
  <2>6. TypeOK'
    <3>1. fresh' \in 1..(Cardinality(Clients) * (NumStreams + 1) + 1)
      BY <2>2, <2>3, <2>4, <2>5, Constants DEF Socks
    <3>2. Len(streams') <= NumStreams - (IF spc' \in {"idle", "running"} THEN 0 ELSE 1)
      BY <1>1, <1>2, Constants
    <3> QED BY <1>1, <1>5, <2>4, <2>5, <3>1, <3>2 DEF Base, TypeOK, ServerPC
  <2>7. ServerShape'
    <3>1. \A s \in Socks : s >= fresh + 1 => peer'[s] = Free /\ queue[s] = <<>>
      <4> SUFFICES ASSUME NEW s \in Socks, s >= fresh + 1
                   PROVE  peer'[s] = Free /\ queue[s] = <<>>
        OBVIOUS
      <4>1. s \in Nat /\ fresh \in Nat
        BY <2>3, Constants
      <4>2. s >= fresh /\ s # fresh
        BY <4>1
      <4> QED BY <2>5, <4>2 DEF Base, ServerShape
    <3>2. fresh' - 1 = fresh
      BY <2>3, <2>5
    <3> QED BY <1>1, <1>2, <1>5, <2>4, <2>5, <3>1, <3>2 DEF ServerShape
  <2>8. Counted'
    <3>1. ToMake' = NumStreams
      BY <1>1, <1>2, <1>5, Constants DEF ToMake, Extra
    <3>2. fresh' - 1 + ToMake' <= (NumStreams + 1) * Cardinality(Past')
      BY <2>2, <2>3, <2>5, <3>1, Constants
    <3>3. aborted \in Nat /\ aborted <= Cardinality(Past)
      BY <1>1, PastFacts, Constants DEF Base, TypeOK, Counted
    <3>4. aborted' + (IF spc' = "idle" THEN 0 ELSE 1) <= Cardinality(Past')
      BY <1>1, <1>5, <2>1, <3>3, PastFacts
    <3> QED BY <3>2, <3>4 DEF Counted
  <2> QED BY <1>3, <2>6, <2>7, <2>8 DEF Base
<1> QED BY <1>4, <1>5, AdmitFacts

-----------------------------------------------------------------------------
(* Only addresses whose hello was sent are known *)

LEMMA SentInt ==
  ASSUME TypeOK, NEW c \in Clients
  PROVE  Sent(c) \in Int /\ next[c] \in Int
BY Constants DEF TypeOK, Sent

\* The clients keep their addresses, and none comes back.
Stays == /\ base' = base /\ holder' \in {holder, NoClient}
         /\ \A c \in Clients : Finished(c) => (Finished(c))'

LEMMA CurrentStays ==
  ASSUME Stays, NEW c \in Clients, (Current(c))'
  PROVE  Current(c)
BY Constants DEF Stays, Current

LEMMA AloneStays ==
  ASSUME Alone, Stays
  PROVE  Alone'
<1> SUFFICES ASSUME NEW c \in Clients, NEW d \in Clients, c # d, base'[c] = base'[d],
                    (Current(c))', (Current(d))'
             PROVE  FALSE
  BY DEF Alone
<1>1. Current(c) /\ Current(d)
  BY CurrentStays
<1> QED BY <1>1 DEF Alone, Stays

\* Every step but the admission of a client leaves the clients their addresses.
LEMMA StaysNext ==
  ASSUME Base, [Next]_vars
  PROVE  Stays \/ \E c \in Clients : Admit(c)
<1>0. cpc \in [Clients -> ClientPC]
  BY DEF Base, TypeOK
<1>1. ASSUME UNCHANGED <<base, holder, cpc>> PROVE Stays
  BY <1>1 DEF Stays, Finished
<1>2. ASSUME AcceptHello PROVE Stays
  BY <1>1, <1>2 DEF AcceptHello, clientVars
<1>3. ASSUME ReplyAndAdd PROVE Stays
  BY <1>1, <1>3 DEF ReplyAndAdd, clientVars
<1>4. ASSUME Aborts PROVE Stays
  <2>1. AbortSession
    BY <1>4, AbortFacts
  <2> QED BY <2>1 DEF AbortSession, clientVars, Stays, Finished
<1>5. ASSUME NewListener PROVE Stays
  BY <1>1, <1>4, <1>5, NewListenerFacts
<1>6. ASSUME NEW c \in Clients, NEW what, cpc' = [cpc EXCEPT ![c] = what], ~Finished(c),
             base' = base, holder' \in {holder, NoClient}
      PROVE  Stays
  <2>1. \A d \in Clients : d # c => cpc'[d] = cpc[d]
    BY <1>0, <1>6
  <2> QED BY <1>6, <2>1 DEF Stays, Finished
<1>7. ASSUME NEW c \in Clients, SendHello(c) PROVE Stays
  BY <1>6, <1>7 DEF SendHello, serverVars, Finished
<1>8. ASSUME NEW c \in Clients, RecvReply(c) PROVE Stays
  BY <1>6, <1>8 DEF RecvReply, serverVars, Finished
<1>9. ASSUME NEW c \in Clients, RecvFails(c) PROVE Stays
  BY <1>6, <1>9 DEF RecvFails, serverVars, Finished
<1>10. ASSUME NEW c \in Clients, BeginTest(c) PROVE Stays
  BY <1>6, <1>10 DEF BeginTest, serverVars, Finished
<1>11. ASSUME NEW c \in Clients, LoseControl(c) PROVE Stays
  BY <1>6, <1>11 DEF LoseControl, serverVars, Finished
<1>12. ASSUME NEW c \in Clients, StreamFails(c) PROVE Stays
  BY <1>6, <1>12 DEF StreamFails, serverVars, Finished
<1>13. ASSUME NEW c \in Clients, EndTest(c) PROVE Stays
  BY <1>6, <1>13 DEF EndTest, Finished
<1>14. ASSUME NEW c \in Clients, Crash(c) PROVE Stays
  BY <1>6, <1>14 DEF Crash, serverVars
<1>15. ASSUME NEW a \in Addr, HelloArrives(a) \/ HelloTwice(a) PROVE Stays
  BY <1>1, <1>15 DEF HelloArrives, HelloTwice, Arrive
<1>16. ASSUME NEW a \in Addr, ReplyArrives(a) PROVE Stays
  BY <1>1, <1>16 DEF ReplyArrives, serverVars
<1>17. ASSUME NEW a \in Addr, Lose(a) PROVE Stays
  BY <1>1, <1>17 DEF Lose, serverVars, clientVars
<1>18. ASSUME UNCHANGED vars PROVE Stays
  BY <1>1, <1>18 DEF vars, serverVars, clientVars
<1>19. ASSUME AcceptFails \/ ReplyFails \/ StartFails \/ ClientGone PROVE Stays
  BY <1>4, <1>19 DEF Aborts
<1> QED BY <1>2, <1>3, <1>5, <1>7, <1>8, <1>9, <1>10, <1>11, <1>12, <1>13, <1>14, <1>15,
           <1>16, <1>17, <1>18, <1>19 DEF Next, ServerStep, ClientStep, NetStep

\* A client that is admitted has addresses that nobody else has, and none of
\* their datagrams is under way.
LEMMA AloneNext ==
  ASSUME Base, Alone, [Next]_vars
  PROVE  Alone'
<1>1. ASSUME NEW c \in Clients, Admit(c), ~Stays PROVE Alone'
  <2>1. /\ spc = "idle" /\ cpc[c] = "wait" /\ \A d \in Clients : d # c => cpc'[d] = cpc[d]
        /\ cpc'[c] \in {"hello", "failed"}
    BY <1>1, AdmitFacts
  <2>2. holder = NoClient /\ base[c] = c
    BY <2>1 DEF Base, ServerShape, ClientShape
  <2>3. CASE UNCHANGED <<holder, base>>
    <3>1. Stays
      BY <2>1, <2>3 DEF Stays, Finished
    <3> QED BY <1>1, <3>1
  <2>4. CASE /\ holder' = c /\ base'[c] \in BasesFor(c)
             /\ \A d \in Clients : d # c => base'[d] = base[d]
    <3>1. \A d \in Clients : d # c /\ (Current(d))' => ~Finished(d) /\ Current(d)
      BY <2>1, <2>4 DEF Current, Finished
    <3>2. ASSUME NEW d \in Clients, d # c, base[d] = base'[c], ~Finished(d) PROVE FALSE
      <4>1. CASE base'[c] = c
        BY <2>1, <2>2, <3>2, <4>1 DEF Alone, Current, Finished
      <4>2. CASE \A e \in Clients : base[e] = base'[c] => Finished(e)
        BY <3>2, <4>2
      <4> QED BY <2>4, <4>1, <4>2 DEF BasesFor
    <3> SUFFICES ASSUME NEW d \in Clients, NEW e \in Clients, d # e, base'[d] = base'[e],
                        (Current(d))', (Current(e))'
                 PROVE  FALSE
      BY DEF Alone
    <3>3. CASE d = c
      BY <2>4, <3>1, <3>2, <3>3
    <3>4. CASE e = c
      BY <2>4, <3>1, <3>2, <3>4
    <3>5. CASE d # c /\ e # c
      BY <2>4, <3>1, <3>5 DEF Alone
    <3> QED BY <3>3, <3>4, <3>5
  <2> QED BY <1>1, <2>3, <2>4, AdmitFacts
<1> QED BY <1>1, StaysNext, AloneStays

LEMMA AloneInit == Init => Alone
BY DEF Init, Alone

\* A step that makes known only addresses that were known or are sent now.
LEMMA KnownStep ==
  ASSUME TypeOK, TypeOK', KnownWasSent, Stays,
         \A c \in Clients : Sent(c) <= (Sent(c))',
         \A a \in Addr : (Known(a))' =>
           \/ Known(a)
           \/ \A c \in Clients : Current(c) /\ base[c] = a[1] => a[2] <= (Sent(c))'
  PROVE  KnownWasSent'
<1> SUFFICES ASSUME NEW c \in Clients, NEW a \in Addr, (Current(c))', base'[c] = a[1], (Known(a))'
             PROVE  a[2] <= (Sent(c))'
  BY DEF KnownWasSent
<1>1. a[2] \in Int /\ Current(c) /\ base[c] = a[1]
  BY AddrFacts, CurrentStays DEF Stays
<1>2. CASE Known(a)
  <2>1. a[2] <= Sent(c) /\ Sent(c) <= (Sent(c))' /\ Sent(c) \in Int
    BY <1>1, <1>2, SentInt DEF KnownWasSent
  <2>2. (Sent(c))' \in Int
    BY Constants DEF TypeOK, Sent
  <2>3. \A m, n, p \in Int : m <= n /\ n <= p => m <= p
    OBVIOUS
  <2> QED BY <1>1, <2>1, <2>2, <2>3, Zenon
<1> QED BY <1>1, <1>2

\* Nothing new is known, and no client opens another stream.
LEMMA KnownLess ==
  ASSUME TypeOK, TypeOK', KnownWasSent, Stays, next' = next,
         \A c \in Clients : \/ cpc'[c] = cpc[c] \/ cpc[c] = "wait"
                            \/ cpc'[c] \notin {"wait", "hello"},
         \A a \in Addr : (Known(a))' => Known(a)
  PROVE  KnownWasSent'
<1>1. \A d \in Clients : Sent(d) <= (Sent(d))'
  <2> SUFFICES ASSUME NEW d \in Clients PROVE Sent(d) <= (Sent(d))'
    OBVIOUS
  <2>1. Sent(d) \in Int /\ next[d] \in Int
    BY SentInt
  <2>2. (Sent(d))' = Sent(d) \/ (Sent(d) = next[d] - 1 /\ (Sent(d))' = next[d])
    BY DEF Sent
  <2> QED BY <2>1, <2>2
<1> QED BY <1>1, KnownStep

LEMMA KnownParts ==
  /\ \A a \in hellos \cup replies : Known(a)
  /\ listener \in Socks => \A i \in DOMAIN queue[listener] : Known(queue[listener][i])
  /\ taken \in Socks => Known(peer[taken])
  /\ \A j \in DOMAIN streams : Known(peer[streams[j]])
BY DEF Known

LEMMA KnownInit == Init => KnownWasSent
<1> SUFFICES ASSUME Init, NEW a \in Addr, Known(a) PROVE FALSE
  BY DEF KnownWasSent
<1>1. hellos = {} /\ replies = {} /\ listener = NoSock /\ taken = NoSock /\ DOMAIN streams = {}
  BY DEF Init
<1> QED BY <1>1, Constants DEF Known

\* A client that is admitted has none of the addresses that are known.
LEMMA AdmitUnknown ==
  ASSUME Base, KnownWasSent, NEW c \in Clients, Admit(c), base'[c] \in BasesFor(c)
  PROVE  \A a \in hellos \cup replies : a[1] # base'[c]
<1>1. cpc[c] = "wait"
  BY AdmitFacts
<1>2. base[c] = c /\ Sent(c) = 0 /\ Current(c)
  BY <1>1 DEF Base, ClientShape, Sent, Current, Finished
<1>3. CASE base'[c] = c
  <2> SUFFICES ASSUME NEW a \in hellos \cup replies, a[1] = c PROVE FALSE
    BY <1>3
  <2>1. a \in Addr /\ Known(a)
    BY DEF Base, TypeOK, Known
  <2>2. a[2] <= 0
    BY <1>2, <2>1 DEF KnownWasSent
  <2> QED BY <2>1, <2>2, AddrFacts, Constants
<1> QED BY <1>3 DEF BasesFor

LEMMA KnownAdmit ==
  ASSUME Base, Base', KnownWasSent, NEW c \in Clients, Admit(c)
  PROVE  KnownWasSent'
<1>1. /\ spc = "idle" /\ cpc[c] = "wait" /\ cpc'[c] \in {"hello", "failed"}
      /\ \A d \in Clients : d # c => cpc'[d] = cpc[d]
      /\ UNCHANGED <<taken, streams, queue, next, hellos, replies>>
  BY AdmitFacts
<1>2. holder = NoClient /\ listener = NoSock /\ taken = NoSock /\ DOMAIN streams = {}
  BY <1>1 DEF Base, ServerShape
<1>3. CASE UNCHANGED <<spc, holder, listener, peer, fresh, base>>
  <2>1. Stays
    BY <1>1, <1>3 DEF Stays, Finished
  <2>2. \A a \in Addr : (Known(a))' => Known(a)
    BY <1>1, <1>3 DEF Known
  <2>3. \A d \in Clients : \/ cpc'[d] = cpc[d] \/ cpc[d] = "wait"
                           \/ cpc'[d] \notin {"wait", "hello"}
    BY <1>1
  <2> QED BY <1>1, <2>1, <2>2, <2>3, KnownLess DEF Base
<1>4. CASE /\ Announce /\ holder' = c /\ base'[c] \in BasesFor(c) /\ cpc'[c] = "hello"
           /\ \A d \in Clients : d # c => base'[d] = base[d]
  <2>1. DOMAIN queue'[listener'] = {} \/ listener' \notin Socks
    <3>1. listener' = fresh /\ queue' = queue /\ fresh \in Nat
      BY <1>1, <1>4, Constants DEF Announce, Base, TypeOK
    <3> QED BY <3>1 DEF Base, ServerShape
  <2>2. \A a \in Addr : (Known(a))' => a \in hellos \cup replies
    BY <1>1, <1>2, <2>1, Constants DEF Known
  <2> SUFFICES ASSUME NEW d \in Clients, NEW a \in Addr, (Current(d))', base'[d] = a[1], (Known(a))'
               PROVE  a[2] <= (Sent(d))'
    BY DEF KnownWasSent
  <2>3. a \in hellos \cup replies /\ d # c
    BY <1>4, <2>2, AdmitUnknown
  <2>4. Current(d) /\ base[d] = a[1] /\ Known(a) /\ (Sent(d))' = Sent(d)
    BY <1>1, <1>4, <2>3 DEF Current, Finished, Known, Sent
  <2> QED BY <2>4 DEF KnownWasSent
<1> QED BY <1>3, <1>4, AdmitFacts

LEMMA KnownSendHello ==
  ASSUME Base, Base', Alone, KnownWasSent, Stays, NEW c \in Clients, SendHello(c)
  PROVE  KnownWasSent'
<1>1. /\ cpc[c] = "hello" /\ cpc' = [cpc EXCEPT ![c] = "recv"] /\ next' = next
      /\ hellos' = hellos \cup {<<base[c], next[c]>>}
      /\ UNCHANGED <<listener, taken, streams, peer, queue, replies>>
  BY DEF SendHello, Address, serverVars
<1>2. cpc \in [Clients -> ClientPC] /\ next[c] \in Int
  BY Constants DEF Base, TypeOK
<1>3. Sent(c) = next[c] - 1 /\ (Sent(c))' = next[c]
  BY <1>1, <1>2 DEF Sent
<1>4. \A d \in Clients : d # c => (Sent(d))' = Sent(d)
  BY <1>1, <1>2 DEF Sent
<1>5. \A d \in Clients : Sent(d) <= (Sent(d))'
  <2>1. \A d \in Clients : Sent(d) \in Int
    BY SentInt DEF Base
  <2> QED BY <1>2, <1>3, <1>4, <2>1
<1>6. ASSUME NEW a \in Addr, (Known(a))'
      PROVE  Known(a) \/ \A d \in Clients : Current(d) /\ base[d] = a[1] => a[2] <= (Sent(d))'
  <2>1. CASE a = <<base[c], next[c]>>
    <3> SUFFICES ASSUME NEW d \in Clients, Current(d), base[d] = a[1] PROVE a[2] <= (Sent(d))'
      OBVIOUS
    <3>1. d = c
      BY <1>1, <2>1 DEF Alone, Current, Finished
    <3> QED BY <1>2, <1>3, <2>1, <3>1
  <2>2. CASE a # <<base[c], next[c]>>
    BY <1>1, <1>6, <2>2 DEF Known
  <2> QED BY <2>1, <2>2
<1> QED BY <1>5, <1>6, KnownStep DEF Base

LEMMA KnownRecvReply ==
  ASSUME Base, Base', KnownWasSent, Stays, NEW c \in Clients, RecvReply(c)
  PROVE  KnownWasSent'
<1>1. /\ cpc[c] = "recv" /\ next' = [next EXCEPT ![c] = @ + 1]
      /\ cpc' = [cpc EXCEPT ![c] = IF next[c] = NumStreams THEN "ready" ELSE "hello"]
      /\ UNCHANGED <<listener, taken, streams, peer, queue, replies, hellos>>
  BY DEF RecvReply, serverVars, netVars
<1>2. cpc \in [Clients -> ClientPC] /\ next[c] \in Int /\ next \in [Clients -> 1..(NumStreams + 1)]
  BY SentInt DEF Base, TypeOK
<1>3. next'[c] = next[c] + 1 /\ cpc'[c] \in {"ready", "hello"}
  BY <1>1, <1>2
<1>4. \A d \in Clients : d # c => (Sent(d))' = Sent(d)
  BY <1>1, <1>2 DEF Sent
<1>5. Sent(c) = next[c] /\ (Sent(c))' \in {next[c], next[c] + 1}
  BY <1>1, <1>2, <1>3 DEF Sent
<1>6. \A d \in Clients : Sent(d) <= (Sent(d))'
  <2>1. \A d \in Clients : Sent(d) \in Int
    BY SentInt DEF Base
  <2> QED BY <1>2, <1>4, <1>5, <2>1
<1>7. \A a \in Addr : (Known(a))' => Known(a)
  BY <1>1 DEF Known
<1> QED BY <1>6, <1>7, KnownStep DEF Base

\* The peers of the streams do not change when a socket that is free or bound
\* does.
LEMMA StreamsStay ==
  ASSUME Base, NEW t \in Socks, peer[t] \notin Addr, UNCHANGED <<streams, holder, base>>,
         \A s \in Socks : s # t => peer'[s] = peer[s]
  PROVE  /\ Matched' = Matched /\ Reach' = Reach /\ \A s : (OnList(s))' = OnList(s)
         /\ \A j \in DOMAIN streams : peer'[streams[j]] = peer[streams[j]]
<1>1. \A j \in DOMAIN streams : peer'[streams[j]] = peer[streams[j]]
  BY LenStreams DEF Base, ServerShape
<1>2. Matched' = Matched
  BY <1>1 DEF Matched
<1>3. Reach' = Reach
  BY <1>2 DEF Reach
<1>4. \A s : (OnList(s))' = OnList(s)
  BY DEF OnList
<1> QED BY <1>1, <1>2, <1>3, <1>4

LEMMA KnownAccept ==
  ASSUME Base, AcceptHello
  PROVE  \A a \in Addr : (Known(a))' => Known(a)
<1>1. /\ spc = "select" /\ listener' = listener /\ taken' = listener /\ listener \in Socks
      /\ UNCHANGED <<streams, holder, base, hellos, replies>>
      /\ peer[listener] = Any /\ 1 \in DOMAIN queue[listener]
      /\ peer'[listener] = queue[listener][1]
      /\ \A s \in Socks : s # listener => peer'[s] = peer[s]
      /\ \A i \in DOMAIN queue'[listener] :
           i + 1 \in DOMAIN queue[listener] /\ queue'[listener][i] = queue[listener][i + 1]
  BY AcceptFacts
<1>2. \A j \in DOMAIN streams : peer'[streams[j]] = peer[streams[j]]
  BY <1>1, AddrFacts, StreamsStay
<1> QED BY <1>1, <1>2 DEF Known

LEMMA KnownNewListener ==
  ASSUME Base, spc = "accepted", Announce,
         UNCHANGED <<holder, taken, streams, queue, base, hellos, replies>>
  PROVE  \A a \in Addr : (Known(a))' => Known(a)
<1>1. ToMake >= 1
  BY LenStreams, Constants DEF ToMake, Extra
<1>2. /\ fresh \in Socks /\ listener' = fresh /\ peer'[fresh] = Any /\ peer[fresh] = Free
      /\ queue[fresh] = <<>>
      /\ \A s \in Socks : s # fresh => peer'[s] = peer[s]
  BY <1>1, AnnounceFacts
<1>3. \A j \in DOMAIN streams : peer'[streams[j]] = peer[streams[j]]
  BY <1>2, AddrFacts, StreamsStay
<1>4. peer'[taken] = peer[taken]
  BY <1>2, AddrFacts DEF Base, ServerShape
<1>5. DOMAIN queue'[listener'] = {}
  BY <1>2
<1> QED BY <1>3, <1>4, <1>5 DEF Known

LEMMA KnownReplyAndAdd ==
  ASSUME Base, ReplyAndAdd
  PROVE  \A a \in Addr : (Known(a))' => Known(a)
<1> DEFINE L == Len(streams)
<1>1. /\ taken \in Socks /\ peer[taken] \in Addr /\ hellos' = hellos /\ queue' = queue
      /\ replies' = replies \cup {peer[taken]} /\ taken' = NoSock
      /\ listener \in Socks /\ peer[listener] = Any /\ listener' \in {NoSock, listener}
      /\ DOMAIN streams' = 1..(L + 1) /\ DOMAIN streams = 1..L /\ L \in Nat
      /\ \A j \in DOMAIN streams : streams'[j] = streams[j]
      /\ streams'[L + 1] = taken
      /\ \A s \in Socks : s # listener => peer'[s] = peer[s]
  BY AddFacts, LenStreams
<1>2. /\ peer'[taken] = peer[taken]
      /\ \A j \in DOMAIN streams : peer'[streams[j]] = peer[streams[j]]
  BY <1>1, AddrFacts, LenStreams DEF Base, ServerShape
<1>3. ASSUME NEW j \in DOMAIN streams' PROVE Known(peer'[streams'[j]])
  <2>1. CASE j \in DOMAIN streams
    BY <1>1, <1>2, <2>1 DEF Known
  <2>2. CASE j = L + 1
    BY <1>1, <1>2, <2>2 DEF Known
  <2> QED BY <1>1, <2>1, <2>2
<1>4. \A a \in replies' : Known(a)
  BY <1>1 DEF Known
<1>5. NoSock \notin Socks
  BY Constants
<1> QED BY <1>1, <1>3, <1>4, <1>5 DEF Known

LEMMA KnownAborts ==
  ASSUME Base, Aborts
  PROVE  \A a \in Addr : (Known(a))' => Known(a)
<1>1. /\ AbortSession
      /\ \A a \in replies' : a \in replies \/ (taken \in Socks /\ peer[taken] = a)
  BY AbortFacts
<1>2. hellos' = hellos /\ listener' = NoSock /\ taken' = NoSock /\ DOMAIN streams' = {}
  BY <1>1 DEF AbortSession
<1> QED BY <1>1, <1>2, Constants DEF Known

LEMMA KnownArrive ==
  ASSUME Base, NEW a \in Addr, Arrive(a), hellos' \subseteq hellos
  PROVE  \A b \in Addr : (Known(b))' => Known(b)
<1>1. /\ UNCHANGED <<listener, taken, streams, peer, replies>> /\ a \in hellos
      /\ \A s \in Socks : queue'[s] = queue[s] \/ queue'[s] = Append(queue[s], a)
  BY ArriveFacts
<1>2. ASSUME listener \in Socks, NEW i \in DOMAIN queue'[listener]
      PROVE  Known(queue'[listener][i])
  <2>1. CASE queue'[listener] = queue[listener]
    BY <1>2, <2>1 DEF Known
  <2>2. CASE queue'[listener] = Append(queue[listener], a)
    <3>1. queue[listener] \in Seq(Addr)
      BY <1>2 DEF Base, TypeOK
    <3>2. /\ Len(queue'[listener]) = Len(queue[listener]) + 1 /\ queue'[listener] \in Seq(Addr)
          /\ \A k \in 1..Len(queue[listener]) : queue'[listener][k] = queue[listener][k]
          /\ queue'[listener][Len(queue[listener]) + 1] = a
      BY <2>2, <3>1, AppendProperties
    <3>3. /\ DOMAIN queue'[listener] = 1..(Len(queue[listener]) + 1)
          /\ DOMAIN queue[listener] = 1..Len(queue[listener])
          /\ Len(queue[listener]) \in Nat
      BY <3>1, <3>2, LenProperties
    <3>4. i \in DOMAIN queue[listener] \/ i = Len(queue[listener]) + 1
      BY <1>2, <3>3
    <3> QED BY <1>1, <1>2, <3>2, <3>3, <3>4 DEF Known
  <2> QED BY <1>1, <1>2, <2>1, <2>2
<1> QED BY <1>1, <1>2 DEF Known

LEMMA KnownNext ==
  ASSUME Base, Base', Alone, KnownWasSent, [Next]_vars
  PROVE  KnownWasSent'
<1>0. TypeOK /\ TypeOK' /\ cpc \in [Clients -> ClientPC]
  BY DEF Base, TypeOK
<1>1. CASE \E c \in Clients : Admit(c)
  BY <1>1, KnownAdmit
<1>2. CASE Stays
  <2>1. ASSUME cpc' = cpc, next' = next, \A a \in Addr : (Known(a))' => Known(a)
        PROVE  KnownWasSent'
    BY <1>0, <1>2, <2>1, KnownLess
  <2>2. ASSUME AcceptHello PROVE KnownWasSent'
    BY <2>1, <2>2, AcceptFacts, KnownAccept
  <2>3. ASSUME Aborts PROVE KnownWasSent'
    <3>1. cpc' = cpc /\ next' = next
      BY <2>3, AbortFacts DEF AbortSession, clientVars
    <3> QED BY <2>1, <2>3, <3>1, KnownAborts
  <2>4. ASSUME NewListener PROVE KnownWasSent'
    BY <2>1, <2>3, <2>4, NewListenerFacts, KnownNewListener
  <2>5. ASSUME ReplyAndAdd PROVE KnownWasSent'
    BY <2>1, <2>5, AddFacts, KnownReplyAndAdd
  <2>6. ASSUME NEW c \in Clients, NEW what \in {"failed", "killed", "running"},
               UNCHANGED <<serverVars, next, netVars>>, cpc' = [cpc EXCEPT ![c] = what]
        PROVE  KnownWasSent'
    <3>1. UNCHANGED <<listener, taken, streams, peer, queue, hellos, replies, next>>
      BY <2>6 DEF serverVars, netVars
    <3>2. \A a \in Addr : (Known(a))' => Known(a)
      BY <3>1 DEF Known
    <3>3. \A d \in Clients : cpc'[d] = cpc[d] \/ cpc'[d] \notin {"wait", "hello"}
      BY <1>0, <2>6
    <3> QED BY <1>0, <1>2, <3>1, <3>2, <3>3, KnownLess
  <2>7. ASSUME NEW c \in Clients,
               RecvFails(c) \/ BeginTest(c) \/ LoseControl(c) \/ StreamFails(c) \/ Crash(c)
        PROVE  KnownWasSent'
    BY <2>6, <2>7 DEF RecvFails, BeginTest, LoseControl, StreamFails, Crash
  <2>8. ASSUME NEW c \in Clients, EndTest(c) PROVE KnownWasSent'
    <3>1. /\ UNCHANGED <<listener, taken, queue, hellos, replies, next>> /\ streams' = <<>>
          /\ cpc'[c] = "done" /\ \A d \in Clients : d # c => cpc'[d] = cpc[d]
          /\ \A s \in Socks : peer'[s] \in {Closed, peer[s]}
      BY <2>8, EndFacts
    <3>2. \A a \in Addr : (Known(a))' => Known(a)
      BY <3>1, AddrFacts DEF Known
    <3> QED BY <1>0, <1>2, <3>1, <3>2, KnownLess
  <2>9. ASSUME NEW a \in Addr, HelloArrives(a) \/ HelloTwice(a) PROVE KnownWasSent'
    <3>1. Arrive(a) /\ hellos' \subseteq hellos
      BY <2>9 DEF HelloArrives, HelloTwice
    <3> QED BY <2>1, <3>1, ArriveFacts, KnownArrive
  <2>10. ASSUME cpc' = cpc, next' = next, hellos' \subseteq hellos, replies' \subseteq replies,
                UNCHANGED <<listener, taken, streams, peer, queue>>
         PROVE  KnownWasSent'
    BY <2>1, <2>10 DEF Known
  <2>11. ASSUME NEW a \in Addr, ReplyArrives(a) PROVE KnownWasSent'
    <3>1. cpc' = cpc /\ next' = next /\ hellos' \subseteq hellos /\ replies' \subseteq replies
          /\ UNCHANGED <<listener, taken, streams, peer, queue>>
      BY <2>11, ReplyFacts
    <3> QED BY <2>10, <3>1
  <2>12. ASSUME NEW a \in Addr, Lose(a) PROVE KnownWasSent'
    BY <2>10, <2>12 DEF Lose, serverVars, clientVars
  <2>13. ASSUME UNCHANGED vars PROVE KnownWasSent'
    BY <2>10, <2>13 DEF vars, serverVars, clientVars, netVars
  <2>14. ASSUME AcceptFails \/ ReplyFails \/ StartFails \/ ClientGone PROVE KnownWasSent'
    BY <2>3, <2>14 DEF Aborts
  <2> QED BY <1>1, <1>2, <2>2, <2>4, <2>5, <2>7, <2>8, <2>9, <2>11, <2>12, <2>13, <2>14,
             KnownSendHello, KnownRecvReply
          DEF Next, ServerStep, ClientStep, NetStep
<1> QED BY <1>1, <1>2, StaysNext

-----------------------------------------------------------------------------
(* The streams of a session *)

Session == InReach /\ RunningInSession

LEMMA ReachFacts ==
  ASSUME Base
  PROVE  Reach \in Int /\ Len(streams) - 1 <= Reach /\ Reach <= Len(streams)
         /\ (Reach = Len(streams) <=> Matched)
<1>1. Len(streams) \in Nat
  BY LenStreams
<1>2. CASE Matched
  BY <1>1, <1>2 DEF Reach
<1>3. CASE ~Matched
  BY <1>1, <1>3 DEF Reach
<1> QED BY <1>2, <1>3

LEMMA KnownAddr ==
  ASSUME Base, KnownWasSent, NEW c \in Clients, Current(c),
         NEW a \in Addr, a[1] = base[c], Known(a)
  PROVE  a[2] <= next[c] /\ next[c] \in Int /\ a[2] \in Int /\ a[2] >= 1
         /\ (cpc[c] \in {"wait", "hello"} => a[2] <= next[c] - 1)
<1>1. a[2] \in Int /\ a[2] >= 1 /\ next[c] \in Int
  BY AddrFacts, SentInt DEF Base
<1>2. a[2] <= Sent(c)
  BY DEF KnownWasSent
<1> QED BY <1>1, <1>2 DEF Sent

LEMMA SessionInit == Init => Session
BY DEF Init, Session, InReach, RunningInSession

\* A step of the client or of the network that leaves the streams alone.
LEMMA SessionQuiet ==
  ASSUME Base, Session, UNCHANGED <<spc, holder, streams, peer, base>>,
         spc # "idle" => next'[holder] = next[holder],
         spc # "idle" => (inbox'[holder] = "reply" => inbox[holder] = "reply"),
         replies' \subseteq replies,
         \A c \in Clients : cpc'[c] = "running" => cpc[c] = "running"
  PROVE  Session'
<1>1. Matched' = Matched /\ Reach' = Reach
  BY DEF Matched, Reach
<1>2. InReach'
  BY <1>1 DEF Session, InReach
<1>3. RunningInSession'
  BY <1>1 DEF Session, RunningInSession
<1> QED BY <1>2, <1>3 DEF Session

LEMMA SessionAccept ==
  ASSUME Base, Session, AcceptHello
  PROVE  Session'
<1>1. /\ spc = "select" /\ spc' = "accepted" /\ listener \in Socks
      /\ holder' = holder /\ streams' = streams /\ cpc' = cpc /\ base' = base /\ next' = next
      /\ inbox' = inbox /\ replies' = replies /\ peer[listener] = Any
      /\ \A s \in Socks : s # listener => peer'[s] = peer[s]
  BY AcceptFacts
<1>2. /\ Matched' = Matched /\ Reach' = Reach
      /\ \A j \in DOMAIN streams : peer'[streams[j]] = peer[streams[j]]
  BY <1>1, AddrFacts, StreamsStay
<1>3. InReach'
  BY <1>1, <1>2 DEF Session, InReach
<1>4. RunningInSession'
  BY <1>1 DEF Session, RunningInSession
<1> QED BY <1>3, <1>4 DEF Session

\* A session that is aborted has no client that runs its test.
LEMMA SessionAborts ==
  ASSUME Base, Session, Aborts
  PROVE  Session'
<1>1. spc' = "idle" /\ cpc' = cpc /\ (spc # "running" \/ cpc[holder] # "running")
  BY AbortFacts DEF AbortSession, clientVars
<1>2. InReach'
  BY <1>1 DEF InReach
<1>3. RunningInSession'
  BY <1>1 DEF Session, RunningInSession
<1> QED BY <1>2, <1>3 DEF Session

LEMMA SessionNewListener ==
  ASSUME Base, Session, NewListener
  PROVE  Session'
<1>1. spc = "accepted"
  BY DEF NewListener
<1>2. CASE Aborts
  BY <1>2, SessionAborts
<1>3. CASE /\ Announce /\ spc' = "announced"
           /\ UNCHANGED <<holder, taken, streams, queue, aborted, midway, cpc, base, next,
                          inbox, hellos, replies, trouble, faults>>
  <2>1. ToMake >= 1
    BY <1>1, LenStreams, Constants DEF ToMake, Extra
  <2>2. /\ fresh \in Socks /\ peer[fresh] = Free
        /\ \A s \in Socks : s # fresh => peer'[s] = peer[s]
    BY <1>3, <2>1, AnnounceFacts
  <2>3. /\ Matched' = Matched /\ Reach' = Reach
        /\ \A j \in DOMAIN streams : peer'[streams[j]] = peer[streams[j]]
    BY <1>3, <2>2, AddrFacts, StreamsStay
  <2>4. InReach'
    BY <1>1, <1>3, <2>3 DEF Session, InReach
  <2>5. RunningInSession'
    BY <1>1, <1>3 DEF Session, RunningInSession
  <2> QED BY <2>4, <2>5 DEF Session
<1> QED BY <1>2, <1>3, NewListenerFacts

\* The list matches after a stream was added when it did before, and the
\* stream is the next of the client.
LEMMA AddMatches ==
  ASSUME Base, ReplyAndAdd
  PROVE  /\ Matched' <=> Matched /\ peer[taken] = <<base[holder], Len(streams) + 1>>
         /\ peer'[taken] = peer[taken]
         /\ \A j \in DOMAIN streams : streams[j] \in Socks /\ peer'[streams[j]] = peer[streams[j]]
<1> DEFINE p == peer[taken]
           L == Len(streams)
<1>1. /\ spc = "announced" /\ taken \in Socks /\ p \in Addr /\ holder' = holder
      /\ base' = base /\ L \in Nat /\ DOMAIN streams' = 1..(L + 1) /\ DOMAIN streams = 1..L
      /\ \A j \in DOMAIN streams : streams'[j] = streams[j]
      /\ streams'[L + 1] = taken /\ listener \in Socks /\ peer[listener] = Any
      /\ \A s \in Socks : s # listener => peer'[s] = peer[s]
  BY AddFacts, LenStreams
<1>2. /\ peer'[taken] = p
      /\ \A j \in DOMAIN streams : streams[j] \in Socks /\ peer'[streams[j]] = peer[streams[j]]
  BY <1>1, AddrFacts, LenStreams DEF Base, ServerShape
<1>3. Matched' <=> Matched /\ p = <<base[holder], L + 1>>
  <2>1. Matched' <=> \A j \in 1..(L + 1) : peer'[streams'[j]] = <<base[holder], j>>
    BY <1>1 DEF Matched
  <2>2. peer'[streams'[L + 1]] = p /\ \A j \in 1..L : peer'[streams'[j]] = peer[streams[j]]
    BY <1>1, <1>2
  <2>3. \A j : j \in 1..(L + 1) <=> j \in 1..L \/ j = L + 1
    BY <1>1
  <2>4. Matched <=> \A j \in 1..L : peer[streams[j]] = <<base[holder], j>>
    BY <1>1 DEF Matched
  <2> HIDE DEF p, L
  <2> QED BY <2>1, <2>2, <2>3, <2>4
<1> QED BY <1>2, <1>3

\* The stream that is added either continues the list in the client's order,
\* or the client stays behind from then on.
LEMMA SessionReplyAndAdd ==
  ASSUME Base, Session, KnownWasSent, ReplyAndAdd
  PROVE  Session'
<1> DEFINE p == peer[taken]
           L == Len(streams)
<1>1. /\ spc = "announced" /\ taken \in Socks /\ p \in Addr /\ holder \in Clients
      /\ holder' = holder /\ cpc' = cpc /\ base' = base /\ next' = next /\ inbox' = inbox
      /\ replies' = replies \cup {p} /\ Len(streams') = L + 1 /\ L \in Nat
      /\ DOMAIN streams' = 1..(L + 1) /\ DOMAIN streams = 1..L
      /\ \A j \in DOMAIN streams : streams'[j] = streams[j]
      /\ streams'[L + 1] = taken
      /\ listener \in Socks /\ peer[listener] = Any /\ peer'[listener] \in {Closed, Any}
      /\ \A s \in Socks : s # listener => peer'[s] = peer[s]
  BY AddFacts, LenStreams
<1>2. /\ peer'[taken] = p
      /\ \A j \in DOMAIN streams : streams[j] \in Socks /\ peer'[streams[j]] = peer[streams[j]]
  BY <1>1, AddrFacts, LenStreams DEF Base, ServerShape
<1>3. Known(p) /\ Current(holder) /\ p[2] \in Nat /\ p = <<p[1], p[2]>>
  BY <1>1, KnownParts, AddrFacts, Constants DEF Current
<1>4. p[1] = base[holder] => p[2] <= next[holder]
  BY <1>1, <1>3, KnownAddr
<1>5. Matched' <=> Matched /\ p = <<base[holder], L + 1>>
  BY AddMatches
<1>6. Reach' = IF Matched' THEN L + 1 ELSE L
  BY <1>1 DEF Reach
<1>7. Reach \in Int /\ Reach' \in Int /\ Reach <= Reach' /\ Reach <= L
  BY <1>1, <1>6, ReachFacts
<1>8. next[holder] \in Int /\ next[holder] <= Reach + 1
  BY <1>1, SentInt DEF Session, InReach, Base
<1>9. p[1] = base[holder] => p[2] <= Reach'
  <2> SUFFICES ASSUME p[1] = base[holder] PROVE p[2] <= Reach'
    OBVIOUS
  <2>1. p[2] <= Reach + 1
    BY <1>3, <1>4, <1>7, <1>8
  <2>2. CASE Matched
    <3>1. Reach = L
      BY <2>2, ReachFacts
    <3>2. p[2] = L + 1 => Matched'
      BY <1>3, <1>5, <2>2
    <3>3. p[2] = L + 1 => Reach' = L + 1
      BY <1>6, <3>2
    <3>4. Reach' \in {L, L + 1}
      BY <1>6
    <3> HIDE DEF p, L
    <3> QED BY <1>1, <1>3, <2>1, <3>1, <3>3, <3>4
  <2>3. CASE ~Matched
    <3>1. Reach = L - 1
      BY <1>1, <2>3 DEF Reach
    <3>2. Reach' = L
      BY <1>5, <1>6, <2>3
    <3> HIDE DEF p, L
    <3> QED BY <1>1, <1>3, <2>1, <3>1, <3>2
  <2> QED BY <2>2, <2>3
<1>10. InReach'
  <2>1. next'[holder'] <= Reach' + 1 /\ (inbox'[holder'] = "reply" => next'[holder'] <= Reach')
    BY <1>1, <1>7, <1>8 DEF Session, InReach
  <2>2. \A i \in 1..NumStreams : <<base'[holder'], i>> \in replies' => i <= Reach'
    <3> SUFFICES ASSUME NEW i \in 1..NumStreams, <<base[holder], i>> \in replies' PROVE i <= Reach'
      BY <1>1
    <3>1. CASE <<base[holder], i>> \in replies
      <4>1. i <= Reach /\ i \in Int
        BY <1>1, <3>1, Constants DEF Session, InReach
      <4> QED BY <1>7, <4>1
    <3>2. CASE <<base[holder], i>> = p
      BY <1>9, <3>2
    <3> QED BY <1>1, <3>1, <3>2
  <2>3. \A j \in DOMAIN streams' : peer'[streams'[j]][1] = base'[holder'] => peer'[streams'[j]][2] <= Reach'
    <3> SUFFICES ASSUME NEW j \in DOMAIN streams', peer'[streams'[j]][1] = base[holder]
                 PROVE  peer'[streams'[j]][2] <= Reach'
      BY <1>1
    <3>1. CASE j \in DOMAIN streams
      <4>1. peer'[streams'[j]] = peer[streams[j]] /\ peer[streams[j]] \in Addr
        BY <1>1, <1>2, <3>1 DEF Base, ServerShape
      <4>2. peer[streams[j]][2] <= Reach
        BY <1>1, <3>1, <4>1 DEF Session, InReach
      <4>3. peer[streams[j]][2] \in Int
        BY <4>1, AddrFacts, Constants
      <4> QED BY <1>7, <4>1, <4>2, <4>3
    <3>2. CASE j = L + 1
      <4>1. peer'[streams'[j]] = p
        BY <1>1, <1>2, <3>2
      <4> QED BY <1>9, <4>1
    <3> QED BY <1>1, <3>1, <3>2
  <2> QED BY <2>1, <2>2, <2>3 DEF InReach
<1>11. RunningInSession'
  BY <1>1 DEF Session, RunningInSession
<1> QED BY <1>10, <1>11 DEF Session

LEMMA SessionAdmit ==
  ASSUME Base, Base', Session, KnownWasSent, NEW c \in Clients, Admit(c)
  PROVE  Session'
<1>1. /\ spc = "idle" /\ cpc[c] = "wait" /\ cpc'[c] \in {"hello", "failed"}
      /\ \A d \in Clients : d # c => cpc'[d] = cpc[d]
      /\ streams' = streams /\ next' = next /\ inbox' = inbox /\ replies' = replies
  BY AdmitFacts
<1>2. RunningInSession'
  BY <1>1 DEF Session, RunningInSession
<1>3. CASE spc' = "idle"
  BY <1>2, <1>3 DEF Session, InReach
<1>4. CASE spc' = "select" /\ holder' = c /\ base'[c] \in BasesFor(c)
  <2>1. next[c] = 1 /\ inbox[c] = "none" /\ streams = <<>> /\ Len(streams) = 0 /\ DOMAIN streams = {}
    BY <1>1 DEF Base, ServerShape, ClientShape
  <2>2. Reach' = 0
    BY <1>1, <2>1 DEF Reach, Matched
  <2>3. \A i \in 1..NumStreams : <<base'[c], i>> \notin replies
    <3> SUFFICES ASSUME NEW i \in 1..NumStreams, <<base'[c], i>> \in replies PROVE FALSE
      OBVIOUS
    <3>1. <<base'[c], i>>[1] = base'[c]
      OBVIOUS
    <3> QED BY <1>4, <3>1, AdmitUnknown
  <2>4. InReach'
    BY <1>1, <1>4, <2>1, <2>2, <2>3 DEF InReach
  <2> QED BY <1>2, <2>4 DEF Session
<1> QED BY <1>1, <1>3, <1>4, AdmitFacts

LEMMA SessionRecvReply ==
  ASSUME Base, Session, NEW c \in Clients, RecvReply(c)
  PROVE  Session'
<1>1. /\ cpc[c] = "recv" /\ inbox[c] = "reply" /\ next' = [next EXCEPT ![c] = @ + 1]
      /\ cpc' = [cpc EXCEPT ![c] = IF next[c] = NumStreams THEN "ready" ELSE "hello"]
      /\ inbox' = [inbox EXCEPT ![c] = "none"]
      /\ UNCHANGED <<spc, holder, streams, peer, base, replies>>
  BY DEF RecvReply, serverVars, netVars
<1>2. /\ cpc'[c] \in {"ready", "hello"} /\ next'[c] = next[c] + 1 /\ inbox'[c] = "none"
      /\ \A d \in Clients : d # c => cpc'[d] = cpc[d] /\ next'[d] = next[d] /\ inbox'[d] = inbox[d]
  BY <1>1 DEF Base, TypeOK
<1>3. CASE spc = "idle" \/ holder # c
  <2>1. spc # "idle" => holder \in Clients /\ holder # c
    BY <1>3 DEF Base, ServerShape
  <2>2. \A d \in Clients : cpc'[d] = "running" => cpc[d] = "running"
    BY <1>2
  <2> QED BY <1>1, <1>2, <2>1, <2>2, SessionQuiet
<1>4. CASE spc # "idle" /\ holder = c
  <2>1. Matched' = Matched /\ Reach' = Reach
    BY <1>1 DEF Matched, Reach
  <2>2. next[c] <= Reach /\ next[c] \in Int /\ Reach \in Int
    BY <1>1, <1>4, SentInt, ReachFacts DEF Session, InReach, Base
  <2>3. next'[c] <= Reach' + 1
    BY <1>2, <2>1, <2>2
  <2>4. InReach'
    BY <1>1, <1>2, <1>4, <2>1, <2>3 DEF Session, InReach
  <2>5. RunningInSession'
    BY <1>1, <1>2, <2>1 DEF Session, RunningInSession
  <2> QED BY <2>4, <2>5 DEF Session
<1> QED BY <1>3, <1>4

LEMMA SessionBeginTest ==
  ASSUME Base, Session, NEW c \in Clients, BeginTest(c)
  PROVE  Session'
<1>1. /\ cpc[c] = "ready" /\ holder = c /\ spc = "running"
      /\ cpc' = [cpc EXCEPT ![c] = "running"]
      /\ UNCHANGED <<spc, holder, streams, peer, base, replies, next, inbox>>
  BY DEF BeginTest, serverVars, netVars
<1>2. \A d \in Clients : d # c => cpc'[d] = cpc[d]
  BY <1>1 DEF Base, TypeOK
<1>3. Matched' = Matched /\ Reach' = Reach
  BY <1>1 DEF Matched, Reach
<1>4. InReach'
  BY <1>1, <1>3 DEF Session, InReach
<1>5. Matched
  <2>1. next[c] = NumStreams + 1 /\ next[c] <= Reach + 1
    BY <1>1 DEF Base, ClientShape, Session, InReach
  <2>2. Len(streams) = NumStreams
    BY <1>1 DEF Base, ServerShape
  <2> QED BY <2>1, <2>2, ReachFacts, Constants
<1>6. RunningInSession'
  BY <1>1, <1>2, <1>3, <1>5 DEF Session, RunningInSession
<1> QED BY <1>4, <1>6 DEF Session

LEMMA SessionEndTest ==
  ASSUME Base, Session, NEW c \in Clients, EndTest(c)
  PROVE  Session'
<1>1. /\ cpc[c] = "running" /\ spc' = "idle" /\ cpc'[c] = "done"
      /\ \A d \in Clients : d # c => cpc'[d] = cpc[d]
  BY EndFacts
<1>2. RunningInSession'
  BY <1>1 DEF Session, RunningInSession
<1> QED BY <1>1, <1>2 DEF Session, InReach

LEMMA SessionReplyArrives ==
  ASSUME Base, Session, NEW a \in Addr, ReplyArrives(a)
  PROVE  Session'
<1>1. /\ UNCHANGED <<spc, holder, listener, taken, streams, peer, queue, fresh, aborted, midway, base>>
      /\ cpc' = cpc /\ next' = next /\ a \in replies /\ replies' = replies \ {a}
      /\ \A d \in Clients : inbox'[d] =
           IF cpc[d] = "recv" /\ Address(d) = a /\ inbox[d] = "none"
             THEN "reply" ELSE inbox[d]
  BY ReplyFacts
<1>2. Matched' = Matched /\ Reach' = Reach
  BY <1>1 DEF Matched, Reach
<1>3. InReach'
  <2> SUFFICES ASSUME spc # "idle"
               PROVE  inbox'[holder] = "reply" => next[holder] <= Reach
    BY <1>1, <1>2 DEF Session, InReach
  <2>1. holder \in Clients
    BY DEF Base, ServerShape
  <2>2. CASE Address(holder) = a
    <3>1. a = <<base[holder], next[holder]>> /\ next[holder] \in 1..NumStreams
      BY <2>2, AddrFacts DEF Address
    <3> QED BY <1>1, <3>1 DEF Session, InReach
  <2>3. CASE Address(holder) # a
    BY <1>1, <2>1, <2>3 DEF Session, InReach
  <2> QED BY <2>2, <2>3
<1>4. RunningInSession'
  BY <1>1, <1>2 DEF Session, RunningInSession
<1> QED BY <1>3, <1>4 DEF Session

LEMMA SessionNext ==
  ASSUME Base, Base', KnownWasSent, Session, [Next]_vars
  PROVE  Session'
<1>0. spc # "idle" => holder \in Clients
  BY DEF Base, ServerShape
<1>1. ASSUME AcceptFails \/ ReplyFails \/ StartFails \/ ClientGone PROVE Session'
  BY <1>1, SessionAborts DEF Aborts
<1>2. ASSUME NEW c \in Clients, SendHello(c) PROVE Session'
  <2>1. /\ UNCHANGED <<spc, holder, streams, peer, base>> /\ next' = next /\ inbox' = inbox
        /\ replies' = replies /\ cpc' = [cpc EXCEPT ![c] = "recv"]
    BY <1>2 DEF SendHello, serverVars
  <2>2. \A d \in Clients : cpc'[d] = "running" => cpc[d] = "running"
    BY <2>1 DEF Base, TypeOK
  <2> QED BY <2>1, <2>2, SessionQuiet
<1>3. ASSUME NEW c \in Clients, NEW what \in {"failed", "killed"},
             UNCHANGED <<serverVars, base, next, netVars>>, cpc' = [cpc EXCEPT ![c] = what],
             inbox' = inbox \/ inbox' = [inbox EXCEPT ![c] = "none"]
      PROVE  Session'
  <2>1. UNCHANGED <<spc, holder, streams, peer, base>> /\ next' = next /\ replies' = replies
    BY <1>3 DEF serverVars, netVars
  <2>2. /\ \A d \in Clients : cpc'[d] = "running" => cpc[d] = "running"
        /\ \A d \in Clients : inbox'[d] = "reply" => inbox[d] = "reply"
    BY <1>3 DEF Base, TypeOK
  <2> QED BY <1>0, <2>1, <2>2, SessionQuiet
<1>4. ASSUME NEW c \in Clients, RecvFails(c) PROVE Session'
  BY <1>3, <1>4 DEF RecvFails
<1>5. ASSUME NEW c \in Clients, Crash(c) PROVE Session'
  BY <1>3, <1>5 DEF Crash
<1>6. ASSUME NEW a \in Addr, HelloArrives(a) \/ HelloTwice(a) PROVE Session'
  <2>1. Arrive(a)
    BY <1>6 DEF HelloArrives, HelloTwice
  <2>2. /\ UNCHANGED <<spc, holder, streams, peer, base>> /\ next' = next /\ cpc' = cpc
        /\ replies' = replies
        /\ \A d \in Clients : inbox'[d] = inbox[d] \/ inbox'[d] = "refused"
    BY <2>1, ArriveFacts
  <2> QED BY <1>0, <2>2, SessionQuiet
<1>7. ASSUME NEW a \in Addr, Lose(a) PROVE Session'
  <2>1. /\ UNCHANGED <<spc, holder, streams, peer, base>> /\ next' = next /\ cpc' = cpc
        /\ inbox' = inbox /\ replies' \subseteq replies
    BY <1>7 DEF Lose, serverVars, clientVars
  <2> QED BY <2>1, SessionQuiet
<1>8. ASSUME UNCHANGED vars PROVE Session'
  <2>1. /\ UNCHANGED <<spc, holder, streams, peer, base>> /\ next' = next /\ cpc' = cpc
        /\ inbox' = inbox /\ replies' = replies
    BY <1>8 DEF vars, serverVars, clientVars, netVars
  <2> QED BY <2>1, SessionQuiet
<1>9. ASSUME NEW c \in Clients, StreamFails(c) \/ LoseControl(c) PROVE Session'
  BY <1>3, <1>9 DEF StreamFails, LoseControl
<1> QED BY <1>1, <1>2, <1>4, <1>5, <1>6, <1>7, <1>8, <1>9, SessionAccept, SessionNewListener,
           SessionReplyAndAdd, SessionAdmit, SessionRecvReply, SessionBeginTest,
           SessionEndTest, SessionReplyArrives
        DEF Next, ServerStep, ClientStep, NetStep

-----------------------------------------------------------------------------
(* A client fails only with trouble *)

LEMMA CalmInit == Init => NoTrouble
BY DEF Init, NoTrouble, ClientsCalm, SessionCalm

\* The numbers of a session whose client has no trouble.
LEMMA CalmFacts ==
  ASSUME Base, Session, NoTrouble, spc # "idle", holder \notin trouble
  PROVE  /\ holder \in Clients /\ Matched /\ Len(streams) \in Nat
         /\ next[holder] \in Int /\ next[holder] >= 1 /\ next[holder] <= Len(streams) + 1
         /\ DOMAIN streams = 1..Len(streams)
         /\ \A j \in DOMAIN streams : streams[j] \in Socks /\ peer[streams[j]] = <<base[holder], j>>
         /\ \A s \in Socks : peer[s][1] = base[holder] => OnList(s) \/ s = taken
<1>1. /\ holder \in Clients /\ Matched
      /\ \A s \in Socks : peer[s][1] = base[holder] => OnList(s) \/ s = taken
  BY DEF Base, ServerShape, NoTrouble, SessionCalm
<1>2. next[holder] \in Int /\ next[holder] >= 1
  BY <1>1, SentInt, Constants DEF Base, TypeOK
<1>3. next[holder] <= Reach + 1
  BY DEF Session, InReach
<1> QED BY <1>1, <1>2, <1>3, ReachFacts, LenStreams DEF Matched

\* The step changes neither the streams nor what the listener holds.
LEMMA CalmQuiet ==
  ASSUME SessionCalm, UNCHANGED <<spc, holder, listener, taken, streams, peer, queue, base>>,
         trouble \subseteq trouble',
         spc # "idle" /\ holder \notin trouble' =>
           \/ cpc'[holder] # "recv" \/ inbox'[holder] # "none"
           \/ /\ cpc[holder] = "recv" /\ inbox[holder] = "none" /\ next'[holder] = next[holder]
              /\ <<base[holder], next[holder]>> \in hellos => <<base[holder], next[holder]>> \in hellos'
              /\ <<base[holder], next[holder]>> \in replies => <<base[holder], next[holder]>> \in replies'
  PROVE  SessionCalm'
<1>1. Matched' = Matched /\ \A s : (OnList(s))' = OnList(s)
  BY DEF Matched, OnList
<1> QED BY <1>1 DEF SessionCalm

LEMMA CalmAccept ==
  ASSUME Base, Session, KnownWasSent, NoTrouble, AcceptHello
  PROVE  NoTrouble'
<1>1. /\ spc = "select" /\ spc' = "accepted" /\ listener \in Socks /\ taken' = listener
      /\ holder' = holder /\ streams' = streams /\ cpc' = cpc /\ base' = base /\ next' = next
      /\ inbox' = inbox /\ replies' = replies /\ hellos' = hellos /\ peer[listener] = Any
      /\ \A s \in Socks : s # listener => peer'[s] = peer[s]
      /\ 1 \in DOMAIN queue[listener] /\ peer'[listener] = queue[listener][1]
      /\ queue[listener][1] \in Addr
      /\ trouble' = IF queue[listener][1][1] = base[holder] THEN trouble ELSE trouble \cup {holder}
  BY AcceptFacts
<1>2. ClientsCalm'
  BY <1>1 DEF NoTrouble, ClientsCalm
<1>3. SessionCalm'
  <2> SUFFICES ASSUME holder \notin trouble' PROVE SessionCalm'
    BY <1>1 DEF SessionCalm
  <2> DEFINE a == queue[listener][1]
  <2>1. holder \notin trouble /\ a[1] = base[holder] /\ spc # "idle"
    BY <1>1
  <2>2. next[holder] \in Int /\ Len(streams) \in Nat /\ next[holder] <= Len(streams) + 1
    BY <2>1, CalmFacts
  <2>3. a[2] > Len(streams)
    BY <1>1, <2>1, <2>2 DEF NoTrouble, SessionCalm
  <2>4. a[2] <= next[holder] /\ a[2] \in Int
    <3>1. Current(holder) /\ holder \in Clients
      BY <2>1, CalmFacts DEF Current
    <3> QED BY <1>1, <2>1, <3>1, KnownParts, KnownAddr
  <2>5. a[2] = Len(streams) + 1
    <3> HIDE DEF a
    <3> QED BY <2>2, <2>3, <2>4
  <2>6. a = <<base[holder], Len(streams) + 1>>
    BY <1>1, <2>1, <2>5, AddrFacts
  <2>7. Matched' = Matched /\ \A s : (OnList(s))' = OnList(s)
    BY <1>1, AddrFacts, StreamsStay
  <2>8. \A s \in Socks : peer'[s][1] = base'[holder'] => (OnList(s))' \/ s = taken'
    <3>1. taken = NoSock /\ NoSock \notin Socks
      BY <1>1, Constants DEF Base, ServerShape
    <3> QED BY <1>1, <2>1, <2>7, <3>1, CalmFacts
  <2>9. peer'[taken'] = <<base'[holder'], Len(streams') + 1>>
    BY <1>1, <2>6
  <2>10. Matched' /\ spc' = "accepted"
    BY <1>1, <2>1, <2>7, CalmFacts
  <2>11. cpc'[holder'] = "recv" /\ inbox'[holder'] = "none" =>
           (next'[holder'] <= Len(streams') => <<base'[holder'], next'[holder']>> \in replies')
    BY <1>1, <2>1 DEF NoTrouble, SessionCalm
  <2> QED BY <2>8, <2>9, <2>10, <2>11 DEF SessionCalm
<1> QED BY <1>2, <1>3 DEF NoTrouble

LEMMA CalmAborts ==
  ASSUME Base, NoTrouble, Aborts
  PROVE  NoTrouble'
<1>1. spc' = "idle" /\ cpc' = cpc /\ inbox' = inbox
  BY AbortFacts DEF AbortSession, clientVars
<1>2. trouble \subseteq trouble' /\ (holder \in trouble' \/ cpc[holder] \in {"failed", "killed"})
  BY AbortFacts
<1>3. ClientsCalm'
  BY <1>1, <1>2 DEF NoTrouble, ClientsCalm
<1> QED BY <1>1, <1>3 DEF NoTrouble, SessionCalm

LEMMA CalmNewListener ==
  ASSUME Base, Session, NoTrouble, NewListener
  PROVE  NoTrouble'
<1>1. spc = "accepted" /\ holder \in Clients
  BY DEF NewListener, Base, ServerShape
<1>2. CASE Aborts
  BY <1>2, CalmAborts
<1>3. CASE /\ Announce /\ spc' = "announced"
           /\ UNCHANGED <<holder, taken, streams, queue, aborted, midway, cpc, base, next,
                          inbox, hellos, replies, trouble, faults>>
  <2>1. ToMake >= 1
    BY <1>1, LenStreams, Constants DEF ToMake, Extra
  <2>2. /\ fresh \in Socks /\ listener' = fresh /\ peer'[fresh] = Any /\ peer[fresh] = Free
        /\ queue[fresh] = <<>>
        /\ \A s \in Socks : s # fresh => peer'[s] = peer[s]
    BY <1>3, <2>1, AnnounceFacts
  <2>3. Matched' = Matched /\ \A s : (OnList(s))' = OnList(s)
    BY <1>3, <2>2, AddrFacts, StreamsStay
  <2>4. peer'[taken] = peer[taken]
    BY <1>1, <2>2, AddrFacts DEF Base, ServerShape
  <2>5. DOMAIN queue'[listener'] = {}
    BY <1>3, <2>2
  <2>6. SessionCalm'
    <3> SUFFICES ASSUME holder \notin trouble PROVE SessionCalm'
      BY <1>3 DEF SessionCalm
    <3>1. base[holder] \in Clients
      BY <1>1 DEF Base, TypeOK
    <3>2. \A s \in Socks : peer'[s][1] = base'[holder'] => (OnList(s))' \/ s = taken'
      BY <1>1, <1>3, <2>2, <2>3, <3>1, Marks, Constants DEF NoTrouble, SessionCalm
    <3>3. Matched' /\ peer'[taken'] = <<base'[holder'], Len(streams') + 1>>
      BY <1>1, <1>3, <2>3, <2>4 DEF NoTrouble, SessionCalm
    <3>4. cpc'[holder'] = "recv" /\ inbox'[holder'] = "none" =>
            (next'[holder'] <= Len(streams') => <<base'[holder'], next'[holder']>> \in replies')
      BY <1>1, <1>3 DEF NoTrouble, SessionCalm
    <3> QED BY <1>3, <2>5, <3>2, <3>3, <3>4 DEF SessionCalm
  <2>7. ClientsCalm'
    BY <1>3 DEF NoTrouble, ClientsCalm
  <2> QED BY <2>6, <2>7 DEF NoTrouble
<1> QED BY <1>2, <1>3, NewListenerFacts

\* The sockets that are connected to the client stay on the list.
LEMMA AddKeepsList ==
  ASSUME Base, Session, NoTrouble, ReplyAndAdd, holder \notin trouble
  PROVE  \A s \in Socks : peer'[s][1] = base'[holder'] => (OnList(s))' \/ s = taken'
<1> DEFINE L == Len(streams)
<1>1. /\ spc = "announced" /\ holder \in Clients /\ holder' = holder /\ base' = base
      /\ DOMAIN streams' = 1..(L + 1) /\ DOMAIN streams = 1..L /\ L \in Nat
      /\ \A j \in DOMAIN streams : streams'[j] = streams[j]
      /\ streams'[L + 1] = taken
      /\ listener \in Socks /\ peer'[listener] \in {Closed, Any}
      /\ \A s \in Socks : s # listener => peer'[s] = peer[s]
  BY AddFacts, LenStreams
<1>2. base[holder] \in Clients
  BY <1>1 DEF Base, TypeOK
<1> SUFFICES ASSUME NEW s \in Socks, peer'[s][1] = base[holder] PROVE (OnList(s))'
  BY <1>1
<1>3. s # listener
  BY <1>1, <1>2, Marks, Constants
<1>4. OnList(s) \/ s = taken
  BY <1>1, <1>3, CalmFacts
<1>5. CASE s = taken
  BY <1>1, <1>5 DEF OnList
<1>6. CASE OnList(s)
  <2>1. PICK j \in DOMAIN streams : streams[j] = s
    BY <1>6 DEF OnList
  <2>2. j \in DOMAIN streams' /\ streams'[j] = s
    BY <1>1, <2>1
  <2> QED BY <2>2 DEF OnList
<1> QED BY <1>4, <1>5, <1>6

LEMMA CalmReplyAndAdd ==
  ASSUME Base, Session, NoTrouble, ReplyAndAdd
  PROVE  NoTrouble'
<1>1. /\ spc = "announced" /\ peer[taken] \in Addr
      /\ holder' = holder /\ cpc' = cpc /\ base' = base /\ next' = next /\ inbox' = inbox
      /\ trouble' = trouble /\ hellos' = hellos /\ queue' = queue
      /\ replies' = replies \cup {peer[taken]} /\ Len(streams') = Len(streams) + 1
      /\ spc' = IF Len(streams) + 1 = NumStreams THEN "running" ELSE "select"
      /\ listener' = IF Len(streams) + 1 = NumStreams THEN NoSock ELSE listener
      /\ listener \in Socks
  BY AddFacts
<1>2. ClientsCalm'
  BY <1>1 DEF NoTrouble, ClientsCalm
<1>3. SessionCalm'
  <2> SUFFICES ASSUME holder \notin trouble PROVE SessionCalm'
    BY <1>1 DEF SessionCalm
  <2>1. spc # "idle"
    BY <1>1
  <2>2. next[holder] \in Int /\ Len(streams) \in Nat /\ next[holder] <= Len(streams) + 1 /\ Matched
    BY <2>1, CalmFacts
  <2>3. peer[taken] = <<base[holder], Len(streams) + 1>>
    BY <1>1 DEF NoTrouble, SessionCalm
  <2>4. Matched'
    BY <2>2, <2>3, AddMatches
  <2>5. spc' \notin {"accepted", "announced", "idle"}
    BY <1>1
  <2>6. ASSUME spc' = "select", NEW i \in DOMAIN queue'[listener'],
               queue'[listener'][i][1] = base'[holder']
        PROVE  queue'[listener'][i][2] > Len(streams') + 0
    <3>1. listener' = listener
      BY <1>1, <2>6
    <3>2. queue[listener][i][2] > Len(streams) + 1
      BY <1>1, <2>6, <3>1 DEF NoTrouble, SessionCalm
    <3>3. Len(streams') + 0 = Len(streams) + 1
      BY <1>1, <2>2
    <3> QED BY <1>1, <3>1, <3>2, <3>3
  <2>7. next[holder] <= Len(streams') /\ next[holder] # Len(streams') + 1
    BY <1>1, <2>2
  <2>8. cpc[holder] = "recv" /\ inbox[holder] = "none" => <<base[holder], next[holder]>> \in replies'
    <3> SUFFICES ASSUME cpc[holder] = "recv", inbox[holder] = "none"
                 PROVE  <<base[holder], next[holder]>> \in replies'
      OBVIOUS
    <3>1. CASE next[holder] <= Len(streams)
      BY <1>1, <2>1, <3>1 DEF NoTrouble, SessionCalm
    <3>2. CASE next[holder] = Len(streams) + 1
      BY <1>1, <2>3, <3>2
    <3> QED BY <2>2, <3>1, <3>2
  <2>9. spc' \in {"select", "announced"} =>
          \A i \in DOMAIN queue'[listener'] : queue'[listener'][i][1] = base'[holder'] =>
            queue'[listener'][i][2] > Len(streams') + (IF spc' = "select" THEN 0 ELSE 1)
    BY <2>5, <2>6
  <2>10. cpc'[holder'] = "recv" /\ inbox'[holder'] = "none" =>
           <<base'[holder'], next'[holder']>> \in replies' /\ next'[holder'] # Len(streams') + 1
    BY <1>1, <2>7, <2>8
  <2>11. \A s \in Socks : peer'[s][1] = base'[holder'] => (OnList(s))' \/ s = taken'
    BY <1>1, <2>1, AddKeepsList
  <2> QED BY <2>4, <2>5, <2>9, <2>10, <2>11 DEF SessionCalm
<1> QED BY <1>2, <1>3 DEF NoTrouble

LEMMA CalmAdmit ==
  ASSUME Base, Base', NoTrouble, NEW c \in Clients, Admit(c)
  PROVE  NoTrouble'
<1>1. /\ spc = "idle" /\ cpc[c] = "wait" /\ cpc'[c] \in {"hello", "failed"}
      /\ \A d \in Clients : d # c => cpc'[d] = cpc[d]
      /\ trouble \subseteq trouble' /\ streams' = streams /\ inbox' = inbox /\ queue' = queue
  BY AdmitFacts
<1>2. \A d \in Clients \ trouble : cpc[d] \notin {"hello", "recv", "ready"}
  BY <1>1, Constants DEF NoTrouble, ClientsCalm, Base, ServerShape
<1>3. CASE /\ Announce /\ spc' = "select" /\ holder' = c /\ cpc'[c] = "hello"
           /\ base' \in [Clients -> Clients]
           /\ c \notin trouble' => \A s \in Socks : peer[s][1] # base'[c]
  <2>1. ClientsCalm'
    BY <1>1, <1>2, <1>3 DEF NoTrouble, ClientsCalm
  <2>2. Matched'
    BY <1>1 DEF Matched, Base, ServerShape
  <2>3. listener' = fresh /\ fresh \in Socks /\ peer' = [peer EXCEPT ![fresh] = Any]
    BY <1>3 DEF Announce, Base, ServerShape
  <2>4. DOMAIN queue'[listener'] = {}
    <3>1. queue[fresh] = <<>>
      BY <2>3, Constants DEF Base, ServerShape
    <3> QED BY <1>1, <2>3, <3>1
  <2>5. c \notin trouble' => \A s \in Socks : peer'[s][1] # base'[c]
    <3>1. base'[c] \in Clients
      BY <1>3
    <3>2. \A s \in Socks : peer'[s] \in {peer[s], Any}
      BY <2>3 DEF Base, TypeOK
    <3> QED BY <1>3, <3>1, <3>2, Marks, Constants
  <2>6. SessionCalm'
    BY <1>3, <2>2, <2>4, <2>5 DEF SessionCalm
  <2> QED BY <2>1, <2>6 DEF NoTrouble
<1>4. CASE cpc'[c] = "failed" /\ c \in trouble' /\ spc' = spc
  <2>1. ClientsCalm'
    BY <1>1, <1>2, <1>4 DEF NoTrouble, ClientsCalm
  <2> QED BY <1>1, <1>4, <2>1 DEF NoTrouble, SessionCalm
<1> QED BY <1>3, <1>4, AdmitFacts

LEMMA CalmSendHello ==
  ASSUME Base, Session, KnownWasSent, NoTrouble, NEW c \in Clients, SendHello(c)
  PROVE  NoTrouble'
<1>1. /\ UNCHANGED <<spc, holder, listener, taken, streams, peer, queue, base>>
      /\ next' = next /\ inbox' = inbox /\ replies' = replies /\ trouble' = trouble
      /\ cpc[c] = "hello" /\ cpc' = [cpc EXCEPT ![c] = "recv"]
      /\ hellos' = hellos \cup {<<base[c], next[c]>>}
  BY DEF SendHello, Address, serverVars
<1>2. cpc'[c] = "recv" /\ \A d \in Clients : d # c => cpc'[d] = cpc[d]
  BY <1>1 DEF Base, TypeOK
<1>3. ClientsCalm'
  BY <1>1, <1>2 DEF NoTrouble, ClientsCalm
<1>4. CASE spc = "idle" \/ holder # c \/ holder \in trouble
  <2>1. spc # "idle" => holder \in Clients
    BY DEF Base, ServerShape
  <2>2. SessionCalm'
    BY <1>1, <1>2, <1>4, <2>1, CalmQuiet DEF NoTrouble
  <2> QED BY <1>3, <2>2 DEF NoTrouble
<1>5. CASE spc # "idle" /\ holder = c /\ c \notin trouble
  <2>1. /\ next[c] \in Int /\ next[c] >= 1 /\ DOMAIN streams = 1..Len(streams) /\ Len(streams) \in Nat
        /\ \A j \in DOMAIN streams : streams[j] \in Socks /\ peer[streams[j]] = <<base[holder], j>>
    BY <1>5, CalmFacts
  <2>2. ~(next[c] <= Len(streams))
    <3> SUFFICES ASSUME next[c] <= Len(streams) PROVE FALSE
      OBVIOUS
    <3>1. next[c] \in DOMAIN streams
      BY <2>1
    <3>2. Known(<<base[c], next[c]>>) /\ Current(c)
      BY <1>5, <2>1, <3>1, KnownParts DEF Current
    <3>3. <<base[c], next[c]>> \in Addr
      BY <1>1, <2>1, Constants DEF Addr, Base, ClientShape, TypeOK
    <3>4. next[c] <= next[c] - 1
      BY <1>1, <3>2, <3>3, KnownAddr
    <3> QED BY <2>1, <3>4
  <2>3. Matched' = Matched /\ \A s : (OnList(s))' = OnList(s)
    BY <1>1 DEF Matched, OnList
  <2>4. SessionCalm'
    BY <1>1, <1>5, <2>2, <2>3 DEF NoTrouble, SessionCalm
  <2> QED BY <1>3, <2>4 DEF NoTrouble
<1> QED BY <1>4, <1>5

LEMMA CalmRecvReply ==
  ASSUME Base, NoTrouble, NEW c \in Clients, RecvReply(c)
  PROVE  NoTrouble'
<1>1. /\ UNCHANGED <<spc, holder, listener, taken, streams, peer, queue, base>>
      /\ replies' = replies /\ hellos' = hellos /\ trouble' = trouble
      /\ cpc[c] = "recv" /\ next' = [next EXCEPT ![c] = @ + 1]
      /\ cpc' = [cpc EXCEPT ![c] = IF next[c] = NumStreams THEN "ready" ELSE "hello"]
      /\ inbox' = [inbox EXCEPT ![c] = "none"]
  BY DEF RecvReply, serverVars, netVars
<1>2. /\ cpc'[c] \in {"ready", "hello"} /\ inbox'[c] = "none"
      /\ \A d \in Clients : d # c => cpc'[d] = cpc[d] /\ inbox'[d] = inbox[d] /\ next'[d] = next[d]
  BY <1>1 DEF Base, TypeOK
<1>3. ClientsCalm'
  BY <1>1, <1>2 DEF NoTrouble, ClientsCalm
<1>4. spc # "idle" => holder \in Clients
  BY DEF Base, ServerShape
<1>5. spc # "idle" /\ holder \notin trouble' =>
        \/ cpc'[holder] # "recv" \/ inbox'[holder] # "none"
        \/ cpc[holder] = "recv" /\ inbox[holder] = "none" /\ next'[holder] = next[holder]
  BY <1>2, <1>4
<1>6. SessionCalm'
  BY <1>1, <1>5, CalmQuiet DEF NoTrouble
<1> QED BY <1>3, <1>6 DEF NoTrouble

\* While its hello is not lost or late, a client that waits can still be
\* answered, and is not refused.
LEMMA CalmRecvFails ==
  ASSUME Base, Session, NoTrouble, NEW c \in Clients, RecvFails(c)
  PROVE  NoTrouble'
<1>1. /\ UNCHANGED <<spc, holder, listener, taken, streams, peer, queue, base>>
      /\ replies' = replies /\ hellos' = hellos /\ next' = next
      /\ trouble' = trouble \/ trouble' = trouble \cup {c}
      /\ cpc[c] = "recv" /\ cpc' = [cpc EXCEPT ![c] = "failed"]
      /\ inbox' = [inbox EXCEPT ![c] = "none"]
  BY DEF RecvFails, serverVars, netVars
<1>2. /\ cpc'[c] = "failed" /\ inbox'[c] = "none"
      /\ \A d \in Clients : d # c => cpc'[d] = cpc[d] /\ inbox'[d] = inbox[d]
  BY <1>1 DEF Base, TypeOK
<1>3. c \in trouble'
  <2> SUFFICES ASSUME c \notin trouble' PROVE FALSE
    OBVIOUS
  <2>1. c \notin trouble /\ inbox[c] = "none" /\ ~UnderWay(<<base[c], next[c]>>)
    BY DEF RecvFails, Address, NoTrouble, ClientsCalm
  <2>2. holder = c /\ spc # "idle"
    BY <1>1, <2>1, Constants DEF NoTrouble, ClientsCalm, Base, ServerShape
  <2>3. /\ next[c] \in Int /\ next[c] >= 1 /\ next[c] <= Len(streams) + 1 /\ Len(streams) \in Nat
        /\ next[c] <= NumStreams
    BY <1>1, <2>1, <2>2, CalmFacts DEF Base, ClientShape
  <2>4. next[c] = Len(streams) + 1
    <3>1. <<base[c], next[c]>> \notin replies
      BY <2>1 DEF UnderWay
    <3>2. ~(next[c] <= Len(streams))
      BY <1>1, <2>1, <2>2, <3>1 DEF NoTrouble, SessionCalm
    <3> QED BY <2>3, <3>2
  <2>5. spc \in {"select", "accepted", "announced", "running"}
    BY <2>2 DEF Base, TypeOK, ServerPC
  <2>6. CASE spc = "select"
    BY <1>1, <2>1, <2>2, <2>4, <2>6, Constants
       DEF UnderWay, NoTrouble, SessionCalm, Base, ServerShape
  <2>7. CASE spc \in {"accepted", "announced"}
    BY <2>1, <2>2, <2>4, <2>7, Constants DEF UnderWay, NoTrouble, SessionCalm, Base, ServerShape
  <2>8. CASE spc = "running"
    <3>1. Len(streams) = NumStreams
      BY <2>8 DEF Base, ServerShape
    <3> QED BY <2>3, <2>4, <3>1
  <2> QED BY <2>5, <2>6, <2>7, <2>8
<1>4. ClientsCalm'
  BY <1>1, <1>2, <1>3 DEF NoTrouble, ClientsCalm
<1>5. spc # "idle" /\ holder \notin trouble' => holder # c /\ holder \in Clients
  BY <1>3 DEF Base, ServerShape
<1>6. SessionCalm'
  BY <1>1, <1>2, <1>5, CalmQuiet DEF NoTrouble
<1> QED BY <1>4, <1>6 DEF NoTrouble

\* A client that has lost its session has trouble.
LEMMA CalmClientStops ==
  ASSUME Base, NoTrouble, NEW c \in Clients, StreamFails(c) \/ LoseControl(c)
  PROVE  NoTrouble'
<1>1. /\ UNCHANGED <<spc, holder, listener, taken, streams, peer, queue, base>>
      /\ replies' = replies /\ hellos' = hellos /\ next' = next /\ inbox' = inbox
      /\ cpc' = [cpc EXCEPT ![c] = "failed"]
  BY DEF StreamFails, LoseControl, serverVars, netVars
<1>2. trouble \subseteq trouble' /\ c \in trouble'
  BY DEF StreamFails, LoseControl, NoTrouble, ClientsCalm
<1>3. cpc'[c] = "failed" /\ \A d \in Clients : d # c => cpc'[d] = cpc[d]
  BY <1>1 DEF Base, TypeOK
<1>4. ClientsCalm'
  BY <1>1, <1>2, <1>3 DEF NoTrouble, ClientsCalm
<1>5. spc # "idle" /\ holder \notin trouble' => holder # c /\ holder \in Clients
  BY <1>2 DEF Base, ServerShape
<1>6. SessionCalm'
  BY <1>1, <1>2, <1>3, <1>5, CalmQuiet DEF NoTrouble
<1> QED BY <1>4, <1>6 DEF NoTrouble

LEMMA CalmBeginTest ==
  ASSUME Base, NoTrouble, NEW c \in Clients, BeginTest(c)
  PROVE  NoTrouble'
<1>1. /\ UNCHANGED <<spc, holder, listener, taken, streams, peer, queue, base>>
      /\ replies' = replies /\ hellos' = hellos /\ next' = next /\ trouble' = trouble
      /\ inbox' = inbox /\ cpc' = [cpc EXCEPT ![c] = "running"]
  BY DEF BeginTest, serverVars, netVars
<1>2. cpc'[c] = "running" /\ \A d \in Clients : d # c => cpc'[d] = cpc[d]
  BY <1>1 DEF Base, TypeOK
<1>3. ClientsCalm'
  BY <1>1, <1>2 DEF NoTrouble, ClientsCalm
<1>4. spc # "idle" => holder \in Clients
  BY DEF Base, ServerShape
<1>5. SessionCalm'
  BY <1>1, <1>2, <1>4, CalmQuiet DEF NoTrouble
<1> QED BY <1>3, <1>5 DEF NoTrouble

LEMMA CalmEndTest ==
  ASSUME Base, Session, NoTrouble, NEW c \in Clients, EndTest(c)
  PROVE  NoTrouble'
<1>1. /\ cpc[c] = "running" /\ spc' = "idle" /\ cpc'[c] = "done"
      /\ \A d \in Clients : d # c => cpc'[d] = cpc[d]
      /\ inbox' = inbox /\ trouble' = trouble
  BY EndFacts
<1>2. holder = c
  BY <1>1 DEF Session, RunningInSession
<1>3. ClientsCalm'
  BY <1>1, <1>2 DEF NoTrouble, ClientsCalm
<1> QED BY <1>1, <1>3 DEF NoTrouble, SessionCalm

LEMMA CalmCrash ==
  ASSUME Base, NoTrouble, NEW c \in Clients, Crash(c)
  PROVE  NoTrouble'
<1>1. /\ UNCHANGED <<spc, holder, listener, taken, streams, peer, queue, base>>
      /\ replies' = replies /\ hellos' = hellos /\ next' = next /\ trouble' = trouble
      /\ cpc' = [cpc EXCEPT ![c] = "killed"] /\ inbox' = [inbox EXCEPT ![c] = "none"]
  BY DEF Crash, serverVars, netVars
<1>2. /\ cpc'[c] = "killed" /\ inbox'[c] = "none"
      /\ \A d \in Clients : d # c => cpc'[d] = cpc[d] /\ inbox'[d] = inbox[d]
  BY <1>1 DEF Base, TypeOK
<1>3. ClientsCalm'
  BY <1>1, <1>2 DEF NoTrouble, ClientsCalm
<1>4. spc # "idle" => holder \in Clients
  BY DEF Base, ServerShape
<1>5. SessionCalm'
  BY <1>1, <1>2, <1>4, CalmQuiet DEF NoTrouble
<1> QED BY <1>3, <1>5 DEF NoTrouble

\* A hello of a client without trouble finds the listener, or the stream it is
\* a copy of.
LEMMA CalmArrive ==
  ASSUME Base, Session, KnownWasSent, NoTrouble, NEW a \in Addr, Arrive(a),
         hellos' = hellos \/ hellos' = hellos \ {a}
  PROVE  NoTrouble'
<1>1. /\ a \in hellos
      /\ UNCHANGED <<spc, holder, listener, taken, streams, peer, fresh, aborted, midway, base>>
      /\ cpc' = cpc /\ next' = next /\ replies' = replies /\ trouble' = trouble
      /\ \A d \in Clients : inbox'[d] = inbox[d] \/ inbox'[d] = "refused"
  BY ArriveFacts
<1>2. a[1] \in Clients /\ a[2] \in Nat /\ a[2] >= 1 /\ a = <<a[1], a[2]>>
  BY AddrFacts, Constants
<1>3. \A s \in Socks : peer[s] = a => s \in Connected(a)
  BY DEF Connected
<1>4. ASSUME NEW d \in Clients, d \notin trouble, inbox'[d] # inbox[d] PROVE FALSE
  <2>1. /\ a[1] = base[d] /\ cpc[d] = "recv" /\ next[d] = a[2] /\ Connected(a) = {}
        /\ \A s \in Socks : s = fresh - 1 => peer[s] # Any
    BY <1>4, ArriveFacts DEF Address
  <2>2. holder = d /\ spc # "idle"
    BY <1>4, <2>1, Constants DEF NoTrouble, ClientsCalm, Base, ServerShape
  <2>3. /\ next[d] <= Len(streams) + 1 /\ Len(streams) \in Nat /\ next[d] <= NumStreams
        /\ DOMAIN streams = 1..Len(streams)
        /\ \A j \in DOMAIN streams : streams[j] \in Socks /\ peer[streams[j]] = <<base[holder], j>>
    BY <1>4, <2>1, <2>2, CalmFacts DEF Base, ClientShape
  <2>4. \A j \in DOMAIN streams : j # a[2]
    BY <1>2, <1>3, <2>1, <2>2, <2>3
  <2>5. a[2] = Len(streams) + 1
    BY <1>2, <2>1, <2>3, <2>4
  <2>6. spc \in {"select", "accepted", "announced", "running"}
    BY <2>2 DEF Base, TypeOK, ServerPC
  <2>7. spc \notin {"select", "announced"}
    BY <2>1 DEF Base, ServerShape
  <2>8. spc # "running"
    <3> SUFFICES ASSUME spc = "running" PROVE FALSE
      OBVIOUS
    <3>1. Len(streams) = NumStreams
      BY DEF Base, ServerShape
    <3> QED BY <2>1, <2>3, <2>5, <3>1
  <2>9. spc # "accepted"
    <3> SUFFICES ASSUME spc = "accepted" PROVE FALSE
      OBVIOUS
    <3>1. taken \in Socks /\ peer[taken] = <<base[holder], Len(streams) + 1>>
      BY <1>4, <2>2 DEF NoTrouble, SessionCalm, Base, ServerShape
    <3> QED BY <1>2, <1>3, <2>1, <2>2, <2>5, <3>1
  <2> QED BY <2>6, <2>7, <2>8, <2>9
<1>5. ClientsCalm'
  BY <1>1, <1>4 DEF NoTrouble, ClientsCalm
<1>6. SessionCalm'
  <2> SUFFICES ASSUME spc # "idle", holder \notin trouble PROVE SessionCalm'
    BY <1>1 DEF SessionCalm
  <2>1. /\ holder \in Clients /\ Matched /\ Len(streams) \in Nat
        /\ DOMAIN streams = 1..Len(streams)
        /\ \A j \in DOMAIN streams : streams[j] \in Socks /\ peer[streams[j]] = <<base[holder], j>>
    BY CalmFacts
  <2>2. Matched' = Matched /\ \A s : (OnList(s))' = OnList(s)
    BY <1>1 DEF Matched, OnList
  <2>3. ASSUME spc \in {"select", "announced"}
        PROVE  /\ listener \in Socks /\ peer[listener] # a
               /\ queue[listener] \in Seq(Addr)
               /\ Connected(a) = {} => queue'[listener] = Append(queue[listener], a)
               /\ queue'[listener] # queue[listener] =>
                    Connected(a) = {} /\ queue'[listener] = Append(queue[listener], a)
    <3>1. listener \in Socks /\ peer[listener] # a
      BY <2>3, AddrFacts DEF Base, ServerShape
    <3> QED BY <2>3, <3>1, ArriveFacts DEF Base, TypeOK
  <2>4. ASSUME spc \in {"select", "announced"}, queue'[listener] = Append(queue[listener], a)
        PROVE  /\ DOMAIN queue[listener] = 1..Len(queue[listener]) /\ Len(queue[listener]) \in Nat
               /\ DOMAIN queue'[listener] = 1..(Len(queue[listener]) + 1)
               /\ \A k \in DOMAIN queue[listener] : queue'[listener][k] = queue[listener][k]
               /\ queue'[listener][Len(queue[listener]) + 1] = a
    <3>1. queue[listener] \in Seq(Addr)
      BY <2>3, <2>4
    <3>2. /\ queue'[listener] \in Seq(Addr) /\ Len(queue'[listener]) = Len(queue[listener]) + 1
          /\ \A k \in 1..Len(queue[listener]) : queue'[listener][k] = queue[listener][k]
          /\ queue'[listener][Len(queue[listener]) + 1] = a
      BY <2>4, <3>1, AppendProperties
    <3>3. DOMAIN queue'[listener] = 1..Len(queue'[listener])
          /\ DOMAIN queue[listener] = 1..Len(queue[listener]) /\ Len(queue[listener]) \in Nat
      BY <3>1, <3>2, LenProperties
    <3> QED BY <3>2, <3>3
  <2>5. ASSUME Connected(a) = {}, a[1] = base[holder], spc \in {"select", "announced"}
        PROVE  a[2] > Len(streams) + (IF spc = "select" THEN 0 ELSE 1)
    <3>1. \A j \in DOMAIN streams : j # a[2]
      BY <1>2, <1>3, <2>1, <2>5
    <3>2. a[2] > Len(streams)
      BY <1>2, <2>1, <3>1
    <3>3. spc = "announced" => a[2] # Len(streams) + 1
      <4> SUFFICES ASSUME spc = "announced", a[2] = Len(streams) + 1 PROVE FALSE
        OBVIOUS
      <4>1. taken \in Socks /\ peer[taken] = <<base[holder], Len(streams) + 1>>
        BY DEF NoTrouble, SessionCalm, Base, ServerShape
      <4> QED BY <1>2, <1>3, <2>5, <4>1
    <3> QED BY <1>2, <2>1, <2>5, <3>2, <3>3
  <2>6. ASSUME spc \in {"select", "announced"}, NEW i \in DOMAIN queue'[listener],
               queue'[listener][i][1] = base[holder]
        PROVE  queue'[listener][i][2] > Len(streams) + (IF spc = "select" THEN 0 ELSE 1)
    <3>1. CASE i \in DOMAIN queue[listener] /\ queue'[listener][i] = queue[listener][i]
      BY <2>6, <3>1 DEF NoTrouble, SessionCalm
    <3>2. CASE queue'[listener][i] = a /\ Connected(a) = {}
      BY <2>5, <2>6, <3>2
    <3>3. CASE queue'[listener] = queue[listener]
      BY <2>6, <3>1, <3>3
    <3>4. CASE Connected(a) = {} /\ queue'[listener] = Append(queue[listener], a)
      <4>1. i \in DOMAIN queue[listener] \/ i = Len(queue[listener]) + 1
        BY <2>4, <2>6, <3>4
      <4> QED BY <2>4, <2>6, <3>1, <3>2, <3>4, <4>1
    <3> QED BY <2>3, <2>6, <3>3, <3>4
  <2>7. ASSUME cpc[holder] = "recv", inbox'[holder] = "none"
        PROVE  /\ next[holder] <= Len(streams) => <<base[holder], next[holder]>> \in replies
               /\ next[holder] = Len(streams) + 1 /\ spc = "select" =>
                    \/ <<base[holder], next[holder]>> \in hellos'
                    \/ \E i \in DOMAIN queue'[listener] :
                         queue'[listener][i] = <<base[holder], next[holder]>>
    <3>1. inbox[holder] = "none"
      BY <1>1, <2>1, <2>7
    <3>2. next[holder] <= Len(streams) => <<base[holder], next[holder]>> \in replies
      BY <2>7, <3>1 DEF NoTrouble, SessionCalm
    <3>3. ASSUME next[holder] = Len(streams) + 1, spc = "select", <<base[holder], next[holder]>> \notin hellos'
          PROVE  \E i \in DOMAIN queue'[listener] : queue'[listener][i] = <<base[holder], next[holder]>>
      <4>1. CASE <<base[holder], next[holder]>> = a
        <5>1. Connected(a) = {}
          <6> SUFFICES ASSUME NEW s \in Socks, peer[s] = a PROVE FALSE
            BY DEF Connected
          <6>1. peer[s][1] = base[holder] /\ a[2] = Len(streams) + 1
            BY <3>3, <4>1
          <6>2. OnList(s)
            BY <3>3, <6>1, CalmFacts, Constants DEF Base, ServerShape
          <6>3. PICK j \in DOMAIN streams : streams[j] = s
            BY <6>2 DEF OnList
          <6>4. a = <<base[holder], j>>
            BY <2>1, <6>3
          <6> QED BY <2>1, <6>1, <6>3, <6>4
        <5>2. queue'[listener] = Append(queue[listener], a)
          BY <2>3, <3>3, <5>1
        <5> QED BY <2>4, <3>3, <4>1, <5>2
      <4>2. CASE <<base[holder], next[holder]>> # a
        <5>1. <<base[holder], next[holder]>> \notin hellos
          BY <3>3, <4>2
        <5>2. PICK i \in DOMAIN queue[listener] : queue[listener][i] = <<base[holder], next[holder]>>
          BY <2>7, <3>1, <3>3, <5>1 DEF NoTrouble, SessionCalm
        <5>3. CASE queue'[listener] = queue[listener]
          BY <5>2, <5>3
        <5>4. CASE queue'[listener] = Append(queue[listener], a)
          BY <2>4, <3>3, <5>2, <5>4
        <5> QED BY <2>3, <3>3, <5>3, <5>4
      <4> QED BY <4>1, <4>2
    <3> QED BY <3>2, <3>3
  <2>8. /\ spc \in {"accepted", "announced"} => peer[taken] = <<base[holder], Len(streams) + 1>>
        /\ \A s \in Socks : peer[s][1] = base[holder] => OnList(s) \/ s = taken
    BY DEF NoTrouble, SessionCalm
  <2> QED BY <1>1, <2>1, <2>2, <2>6, <2>7, <2>8 DEF SessionCalm
<1> QED BY <1>5, <1>6 DEF NoTrouble

LEMMA CalmReplyArrives ==
  ASSUME Base, NoTrouble, NEW a \in Addr, ReplyArrives(a)
  PROVE  NoTrouble'
<1>1. /\ UNCHANGED <<spc, holder, listener, taken, streams, peer, queue, base>>
      /\ cpc' = cpc /\ next' = next /\ hellos' = hellos /\ trouble' = trouble
      /\ replies' = replies \ {a}
      /\ \A d \in Clients : inbox'[d] =
           IF cpc[d] = "recv" /\ Address(d) = a /\ inbox[d] = "none"
             THEN "reply" ELSE inbox[d]
  BY ReplyFacts
<1>2. ClientsCalm'
  BY <1>1 DEF NoTrouble, ClientsCalm
<1>3. spc # "idle" => holder \in Clients
  BY DEF Base, ServerShape
<1>4. spc # "idle" /\ cpc'[holder] = "recv" /\ inbox'[holder] = "none" =>
        inbox[holder] = "none" /\ <<base[holder], next[holder]>> # a
  BY <1>1, <1>3 DEF Address
<1>5. SessionCalm'
  BY <1>1, <1>3, <1>4, CalmQuiet DEF NoTrouble
<1> QED BY <1>2, <1>5 DEF NoTrouble

LEMMA CalmLose ==
  ASSUME Base, NoTrouble, NEW a \in Addr, Lose(a)
  PROVE  NoTrouble'
<1>1. /\ UNCHANGED <<spc, holder, listener, taken, streams, peer, queue, base>>
      /\ cpc' = cpc /\ next' = next /\ inbox' = inbox /\ trouble' = trouble \cup {c \in Clients : base[c] = a[1]}
      /\ hellos \ {a} \subseteq hellos' /\ replies \ {a} \subseteq replies'
  BY DEF Lose, serverVars, clientVars
<1>2. ClientsCalm'
  BY <1>1 DEF NoTrouble, ClientsCalm
<1>3. spc # "idle" /\ holder \notin trouble' => <<base[holder], next[holder]>> # a
  BY <1>1 DEF Base, ServerShape
<1>4. SessionCalm'
  BY <1>1, <1>3, CalmQuiet DEF NoTrouble
<1> QED BY <1>2, <1>4 DEF NoTrouble

LEMMA CalmNext ==
  ASSUME Base, Base', KnownWasSent, Session, NoTrouble, [Next]_vars
  PROVE  NoTrouble'
<1>1. ASSUME AcceptFails \/ ReplyFails \/ StartFails \/ ClientGone PROVE NoTrouble'
  BY <1>1, CalmAborts DEF Aborts
<1>2. ASSUME NEW a \in Addr, HelloArrives(a) \/ HelloTwice(a) PROVE NoTrouble'
  BY <1>2, CalmArrive DEF HelloArrives, HelloTwice
<1>3. ASSUME UNCHANGED vars PROVE NoTrouble'
  <2>1. UNCHANGED <<spc, holder, listener, taken, streams, peer, queue, cpc, base, next,
                    inbox, hellos, replies, trouble>>
    BY <1>3 DEF vars, serverVars, clientVars, netVars
  <2>2. ClientsCalm'
    BY <2>1 DEF NoTrouble, ClientsCalm
  <2>3. SessionCalm'
    BY <2>1, CalmQuiet DEF NoTrouble
  <2> QED BY <2>2, <2>3 DEF NoTrouble
<1> QED BY <1>1, <1>2, <1>3, CalmAccept, CalmNewListener, CalmReplyAndAdd, CalmAdmit,
           CalmSendHello, CalmRecvReply, CalmRecvFails, CalmBeginTest, CalmEndTest,
           CalmClientStops, CalmCrash, CalmReplyArrives, CalmLose
        DEF Next, ServerStep, ClientStep, NetStep

-----------------------------------------------------------------------------
(* The sockets that stay open *)

LEMMA OpenFinite ==
  /\ IsFiniteSet(Socks) /\ IsFiniteSet(Open) /\ Cardinality(Open) \in Nat
<1>1. IsFiniteSet(Socks)
  BY Constants, FS_Interval DEF Socks
<1>2. Open \in SUBSET Socks
  BY DEF Open
<1> QED BY <1>1, <1>2, FS_Subset, FS_CardinalityType

\* The bound as a number: what the aborted sessions may leave.
LEMMA Allowance ==
  ASSUME Base
  PROVE  /\ aborted * NumStreams \in Nat /\ (aborted + 1) * NumStreams = aborted * NumStreams + NumStreams
         /\ midway \in Nat /\ Len(streams) \in Nat /\ Extra \in 0..2
<1>1. aborted \in Nat /\ midway \in Nat
  BY Constants DEF Base, TypeOK
<1>2. \A m, n \in Nat : m * n \in Nat /\ (m + 1) * n = m * n + n
  OBVIOUS
<1> QED BY <1>1, <1>2, Constants, LenStreams DEF Extra

LEMMA OpenInit == Init => OpenCounted
<1> SUFFICES ASSUME Init PROVE OpenCounted
  OBVIOUS
<1>1. Open = {}
  BY DEF Init, Open
<1>2. Cardinality(Open) = 0
  BY <1>1, FS_EmptySet
<1>3. aborted = 0 /\ midway = 0 /\ Len(streams) = 0 /\ Extra = 0 /\ 0 * NumStreams = 0
  BY Constants DEF Init, Extra
<1> QED BY <1>2, <1>3 DEF OpenCounted

\* The count after a step, from how the set of open sockets and the bound
\* change.
LEMMA OpenStep ==
  ASSUME Base, Base', OpenCounted, NEW d \in Int,
         Cardinality(Open') <= Cardinality(Open) + d,
         aborted * NumStreams + midway + Len(streams) + Extra + d
           <= aborted' * NumStreams + midway' + Len(streams') + Extra'
  PROVE  OpenCounted'
<1> DEFINE x == Cardinality(Open)
           y == Cardinality(Open')
           m == aborted * NumStreams + midway + Len(streams) + Extra
           n == aborted' * NumStreams + midway' + Len(streams') + Extra'
<1>1. x \in Int /\ m \in Int
  BY OpenFinite, Allowance
<1>2. y \in Int
  <2>1. Open' \in SUBSET Socks
    BY DEF Open
  <2> QED BY <2>1, OpenFinite, FS_Subset, FS_CardinalityType
<1>3. n \in Int
  <2>1. aborted' \in Nat /\ midway' \in Nat /\ Len(streams') \in Nat /\ Extra' \in 0..2
    BY Constants DEF Base, TypeOK, Extra
  <2>2. \A p, q \in Nat : p * q \in Nat
    OBVIOUS
  <2>3. aborted' * NumStreams \in Nat
    BY <2>1, <2>2, Constants, Zenon
  <2>4. \A p, q, r, t \in Int : p + q + r + t \in Int
    OBVIOUS
  <2>5. Extra' \in Int /\ midway' \in Int /\ Len(streams') \in Int /\ aborted' * NumStreams \in Int
    BY <2>1, <2>3
  <2> QED BY <2>4, <2>5, Zenon
<1>4. x <= m /\ y <= x + d /\ m + d <= n
  BY DEF OpenCounted
<1> HIDE DEF x, y, m, n
<1>5. \A p, q, r, t, e \in Int : p <= r /\ q <= p + e /\ r + e <= t => q <= t
  OBVIOUS
<1>6. y <= n
  BY <1>1, <1>2, <1>3, <1>4, <1>5, Zenon
<1> QED BY <1>6 DEF OpenCounted, y, n

\* Steps that open and close no socket of the server.
LEMMA OpenQuiet ==
  ASSUME Base, Base', OpenCounted, UNCHANGED <<spc, streams, aborted, midway>>, Open' = Open
  PROVE  OpenCounted'
<1>1. Extra' = Extra
  BY DEF Extra
<1>2. Cardinality(Open') <= Cardinality(Open) + 0
  BY OpenFinite
<1>3. aborted * NumStreams + midway + Len(streams) + Extra + 0
        <= aborted' * NumStreams + midway' + Len(streams') + Extra'
  BY <1>1, Allowance
<1> QED BY <1>2, <1>3, OpenStep

LEMMA OpenAccept ==
  ASSUME Base, Base', OpenCounted, AcceptHello
  PROVE  OpenCounted'
<1>1. /\ spc = "select" /\ spc' = "accepted" /\ aborted' = aborted /\ midway' = midway
      /\ streams' = streams
      /\ listener \in Socks /\ peer[listener] = Any /\ peer'[listener] \in Addr
      /\ \A s \in Socks : s # listener => peer'[s] = peer[s]
  BY AcceptFacts
<1>2. \A s \in Socks : peer'[s] \in {Free, Closed} <=> peer[s] \in {Free, Closed}
  BY <1>1, AddrFacts, Marks
<1>3. Open' = Open
  BY <1>2 DEF Open
<1>4. Extra' = 1 /\ Extra = 1
  BY <1>1 DEF Extra
<1>5. Cardinality(Open') <= Cardinality(Open) + 0
  BY <1>3, OpenFinite
<1>6. aborted * NumStreams + midway + Len(streams) + Extra + 0
        <= aborted' * NumStreams + midway' + Len(streams') + Extra'
  BY <1>1, <1>4, Allowance
<1> QED BY <1>5, <1>6, OpenStep

\* A new listener is one socket more.
LEMMA OpenAnnounce ==
  ASSUME Base, Base', OpenCounted, NEW t \in Socks, peer'[t] = Any, peer[t] = Free,
         \A s \in Socks : s # t => peer'[s] = peer[s],
         UNCHANGED <<aborted, midway, streams>>, Extra' = Extra + 1
  PROVE  OpenCounted'
<1>1. Open' = Open \cup {t}
  <2>1. \A s : s \in Open' <=> s \in Open \/ s = t
    BY Marks DEF Open
  <2> QED BY <2>1
<1>2. Cardinality(Open') <= Cardinality(Open) + 1
  <2>1. IsFiniteSet(Open) /\ Cardinality(Open) \in Nat
    BY OpenFinite
  <2>2. Cardinality(Open \cup {t}) = IF t \in Open THEN Cardinality(Open) ELSE Cardinality(Open) + 1
    BY <2>1, FS_AddElement
  <2>3. Cardinality(Open') = Cardinality(Open \cup {t})
    BY <1>1
  <2> QED BY <2>1, <2>2, <2>3
<1>3. aborted * NumStreams + midway + Len(streams) + Extra + 1
        <= aborted' * NumStreams + midway' + Len(streams') + Extra'
  BY Allowance
<1> QED BY <1>2, <1>3, OpenStep

\* A session that is aborted has at most as many sockets as streams, unless
\* its new listener was there.
LEMMA OpenAborts ==
  ASSUME Base, Base', OpenCounted, Aborts
  PROVE  OpenCounted'
<1>1. spc' = "idle" /\ aborted' = aborted + 1 /\ streams' = <<>>
  BY AbortFacts DEF AbortSession
<1>2. Extra' = 0 /\ Len(streams') = 0 /\ aborted' * NumStreams = aborted * NumStreams + NumStreams
      /\ NumStreams \in Nat
  BY <1>1, Allowance, Constants DEF Extra
<1>3. midway \in Nat /\ Len(streams) \in Nat /\ Extra \in Nat /\ NumStreams \in Nat
  BY Allowance, Constants
<1>4. ASSUME NEW d \in Int, midway' \in Nat,
             Len(streams) + Extra + d + midway <= NumStreams + midway'
      PROVE  aborted * NumStreams + midway + Len(streams) + Extra + d
               <= aborted' * NumStreams + midway' + Len(streams') + Extra'
  <2> DEFINE x == aborted * NumStreams
             y == aborted' * NumStreams
  <2>1. x \in Int /\ y = x + NumStreams /\ NumStreams \in Int /\ midway \in Int
        /\ Len(streams) \in Int /\ Extra \in Int
    BY <1>2, Allowance
  <2>2. x + midway + Len(streams) + Extra + d <= y + midway' + 0 + 0
    <3> HIDE DEF x, y
    <3> QED BY <1>4, <2>1
  <2>3. x + midway + Len(streams) + Extra + d <= y + midway' + Len(streams') + Extra'
    <3> HIDE DEF x, y
    <3> QED BY <1>2, <2>2
  <2> QED BY <2>3
<1>5. ASSUME peer' = peer PROVE Cardinality(Open') <= Cardinality(Open) + 0
  <2>1. Open' = Open
    BY <1>5 DEF Open
  <2> QED BY <2>1, OpenFinite
<1>6. ASSUME midway' = midway, peer' = peer, spc \in {"select", "accepted", "running"}
      PROVE  OpenCounted'
  <2>1. Len(streams) + Extra <= NumStreams
    BY <1>6, LenStreams, Constants DEF Extra
  <2>2. aborted * NumStreams + midway + Len(streams) + Extra + 0
          <= aborted' * NumStreams + midway' + Len(streams') + Extra'
    <3>1. midway' \in Nat /\ Len(streams) + Extra + 0 + midway <= NumStreams + midway'
      BY <1>6, <1>3, <2>1
    <3> QED BY <1>4, <3>1
  <2> QED BY <1>5, <1>6, <2>2, OpenStep
<1>7. CASE ReplyFails
  <2>1. spc = "announced" /\ midway' = midway + 1 /\ peer' = peer
    BY <1>7 DEF ReplyFails
  <2>2. Len(streams) + Extra <= NumStreams + 1
    BY <2>1, LenStreams, Constants DEF Extra
  <2>3. aborted * NumStreams + midway + Len(streams) + Extra + 0
          <= aborted' * NumStreams + midway' + Len(streams') + Extra'
    <3>1. midway' \in Nat /\ Len(streams) + Extra + 0 + midway <= NumStreams + midway'
      BY <1>3, <2>1, <2>2
    <3> QED BY <1>4, <3>1
  <2> QED BY <1>5, <2>1, <2>3, OpenStep
<1>8. CASE StartFails
  <2>1. /\ spc = "announced" /\ midway' = midway /\ Len(streams) + 1 = NumStreams
        /\ peer' = [peer EXCEPT ![listener] = Closed]
        /\ listener \in Socks /\ peer[listener] = Any
    BY <1>8 DEF StartFails, Base, ServerShape
  <2>2. Open' = Open \ {listener}
    <3>1. peer'[listener] = Closed /\ \A s \in Socks : s # listener => peer'[s] = peer[s]
      BY <2>1 DEF Base, TypeOK
    <3>2. \A s : s \in Open' <=> s \in Open /\ s # listener
      BY <2>1, <3>1 DEF Open
    <3> QED BY <3>2
  <2>3. Cardinality(Open') <= Cardinality(Open) + (0 - 1)
    <3>1. IsFiniteSet(Open) /\ Cardinality(Open) \in Nat /\ listener \in Open
      BY <2>1, OpenFinite, Marks DEF Open
    <3>2. Cardinality(Open \ {listener}) = Cardinality(Open) - 1
      BY <3>1, FS_RemoveElement
    <3>3. Cardinality(Open') = Cardinality(Open \ {listener})
      BY <2>2
    <3> QED BY <3>1, <3>2, <3>3
  <2>4. aborted * NumStreams + midway + Len(streams) + Extra + (0 - 1)
          <= aborted' * NumStreams + midway' + Len(streams') + Extra'
    <3>1. Extra = 2
      BY <2>1 DEF Extra
    <3>2. Len(streams) + Extra + (0 - 1) + midway <= NumStreams + midway'
      BY <1>3, <2>1, <3>1
    <3> QED BY <1>4, <1>3, <2>1, <3>2
  <2> QED BY <2>3, <2>4, OpenStep
<1>9. CASE ClientGone
  BY <1>6, <1>9 DEF ClientGone
<1>10. CASE AcceptFails
  BY <1>6, <1>10 DEF AcceptFails
<1>11. CASE spc = "accepted" /\ UNCHANGED <<peer, midway, replies>>
  BY <1>6, <1>11
<1> QED BY <1>7, <1>8, <1>9, <1>10, <1>11 DEF Aborts

LEMMA OpenNewListener ==
  ASSUME Base, Base', OpenCounted, NewListener
  PROVE  OpenCounted'
<1>1. spc = "accepted"
  BY DEF NewListener
<1>2. CASE Aborts
  BY <1>2, OpenAborts
<1>3. CASE Announce /\ spc' = "announced" /\ UNCHANGED <<aborted, midway, streams>>
  <2>1. ToMake >= 1
    BY <1>1, LenStreams, Constants DEF ToMake, Extra
  <2>2. /\ fresh \in Socks /\ peer'[fresh] = Any /\ peer[fresh] = Free
        /\ \A s \in Socks : s # fresh => peer'[s] = peer[s]
    BY <1>3, <2>1, AnnounceFacts
  <2>3. Extra' = Extra + 1
    BY <1>1, <1>3 DEF Extra
  <2> QED BY <1>3, <2>2, <2>3, OpenAnnounce
<1> QED BY <1>2, <1>3, NewListenerFacts

LEMMA OpenReplyAndAdd ==
  ASSUME Base, Base', OpenCounted, ReplyAndAdd
  PROVE  OpenCounted'
<1>1. /\ spc = "announced" /\ aborted' = aborted /\ midway' = midway
      /\ Len(streams') = Len(streams) + 1
      /\ spc' = IF Len(streams) + 1 = NumStreams THEN "running" ELSE "select"
      /\ listener \in Socks /\ peer[listener] = Any
      /\ peer'[listener] = IF Len(streams) + 1 = NumStreams THEN Closed ELSE Any
      /\ \A s \in Socks : s # listener => peer'[s] = peer[s]
  BY AddFacts
<1>2. Extra = 2
  BY <1>1 DEF Extra
<1>3. CASE Len(streams) + 1 = NumStreams
  <2>1. Open' = Open \ {listener}
    <3>1. \A s : s \in Open' <=> s \in Open /\ s # listener
      BY <1>1, <1>3 DEF Open
    <3> QED BY <3>1
  <2>2. listener \in Open
    BY <1>1, Marks DEF Open
  <2>3. Cardinality(Open') <= Cardinality(Open) + (0 - 1)
    <3>1. IsFiniteSet(Open) /\ Cardinality(Open) \in Nat
      BY OpenFinite
    <3>2. Cardinality(Open \ {listener}) = Cardinality(Open) - 1
      BY <2>2, <3>1, FS_RemoveElement
    <3>3. Cardinality(Open') = Cardinality(Open \ {listener})
      BY <2>1
    <3> QED BY <3>1, <3>2, <3>3
  <2>4. Extra' = 0
    BY <1>1, <1>3 DEF Extra
  <2>5. aborted * NumStreams + midway + Len(streams) + Extra + (0 - 1)
          <= aborted' * NumStreams + midway' + Len(streams') + Extra'
    BY <1>1, <1>2, <2>4, Allowance
  <2> QED BY <2>3, <2>5, OpenStep
<1>4. CASE Len(streams) + 1 # NumStreams
  <2>1. Open' = Open
    <3>1. \A s \in Socks : peer'[s] = peer[s]
      BY <1>1, <1>4
    <3> QED BY <3>1 DEF Open
  <2>2. Extra' = 1
    BY <1>1, <1>4 DEF Extra
  <2>3. Cardinality(Open') <= Cardinality(Open) + 0
    BY <2>1, OpenFinite
  <2>4. aborted * NumStreams + midway + Len(streams) + Extra + 0
          <= aborted' * NumStreams + midway' + Len(streams') + Extra'
    BY <1>1, <1>2, <2>2, Allowance
  <2> QED BY <2>3, <2>4, OpenStep
<1> QED BY <1>3, <1>4

\* The streams of a test that ends are different sockets, one for each stream.
LEMMA OpenEndTest ==
  ASSUME Base, Base', OpenCounted, RunningInSession, NEW c \in Clients, EndTest(c)
  PROVE  OpenCounted'
<1> DEFINE L == {streams[j] : j \in 1..NumStreams}
<1>1. /\ cpc[c] = "running" /\ spc' = "idle" /\ streams' = <<>> /\ aborted' = aborted
      /\ midway' = midway
      /\ \A s \in Socks : peer'[s] = IF OnList(s) THEN Closed ELSE peer[s]
  BY EndFacts
<1>2. spc = "running" /\ Matched /\ Len(streams) = NumStreams
      /\ DOMAIN streams = 1..NumStreams
  BY <1>1, LenStreams DEF RunningInSession, Base, ServerShape
<1>3. \A j \in 1..NumStreams : streams[j] \in Socks /\ peer[streams[j]] = <<base[holder], j>>
                               /\ peer[streams[j]] \in Addr
  BY <1>2, LenStreams DEF Matched, Base, ServerShape
<1>4. IsFiniteSet(L) /\ Cardinality(L) = NumStreams
  <2>1. IsFiniteSet(1..NumStreams) /\ Cardinality(1..NumStreams) = NumStreams
    BY Constants, FS_Interval
  <2> DEFINE f == [j \in 1..NumStreams |-> streams[j]]
  <2>2. \A i, j \in 1..NumStreams : streams[i] = streams[j] => i = j
    BY <1>3
  <2>3. f \in Bijection(1..NumStreams, L)
    BY <2>2 DEF Bijection, Injection, Surjection, IsInjective
  <2>4. ExistsBijection(1..NumStreams, L)
    BY <2>3 DEF ExistsBijection
  <2> HIDE DEF L
  <2> QED BY <2>1, <2>4, FS_Bijection
<1>5. \A s \in L : s \in Open
  BY <1>3, AddrFacts DEF Open
<1>6. Open' = Open \ L
  <2>1. \A s : OnList(s) <=> s \in L
    BY <1>2 DEF OnList
  <2>2. \A s : s \in Open' <=> s \in Open /\ s \notin L
    BY <1>1, <2>1 DEF Open
  <2> QED BY <2>2
<1>7. Cardinality(Open') = Cardinality(Open) - NumStreams
  <2>1. Open \cap L = L
    BY <1>5
  <2> HIDE DEF L
  <2> QED BY <1>4, <1>6, <2>1, OpenFinite, FS_Difference
<1>8. Cardinality(Open') <= Cardinality(Open) + (0 - NumStreams)
  <2>1. \A m, n \in Int : m - n <= m + (0 - n)
    OBVIOUS
  <2>2. Cardinality(Open) \in Int /\ NumStreams \in Int
    BY OpenFinite, Constants
  <2>3. Cardinality(Open) - NumStreams <= Cardinality(Open) + (0 - NumStreams)
    BY <2>1, <2>2
  <2> QED BY <1>7, <2>3, Zenon
<1>9. Extra = 0 /\ Extra' = 0 /\ Len(streams') = 0
  BY <1>1, <1>2 DEF Extra
<1>10. aborted * NumStreams + midway + Len(streams) + Extra + (0 - NumStreams)
         <= aborted' * NumStreams + midway' + Len(streams') + Extra'
  BY <1>1, <1>2, <1>9, Allowance, Constants
<1>11. 0 - NumStreams \in Int
  BY Constants
<1> QED BY <1>8, <1>10, <1>11, OpenStep

LEMMA OpenNext ==
  ASSUME Base, Base', RunningInSession, OpenCounted, [Next]_vars
  PROVE  OpenCounted'
<1>1. ASSUME AcceptFails \/ ReplyFails \/ StartFails \/ ClientGone PROVE OpenCounted'
  BY <1>1, OpenAborts DEF Aborts
<1>2. ASSUME NEW c \in Clients, Admit(c) PROVE OpenCounted'
  <2>1. spc = "idle" /\ aborted' = aborted /\ midway' = midway /\ streams' = streams
    BY <1>2, AdmitFacts
  <2>2. CASE UNCHANGED <<spc, holder, listener, peer, fresh, base>>
    <3>1. Open' = Open
      BY <2>2 DEF Open
    <3> QED BY <2>1, <2>2, <3>1, OpenQuiet
  <2>3. CASE Announce /\ spc' = "select" /\ holder' = c
    <3>1. fresh \in Socks
      BY <2>3 DEF Announce, Base, ServerShape
    <3>2. /\ peer'[fresh] = Any /\ peer[fresh] = Free
          /\ \A s \in Socks : s # fresh => peer'[s] = peer[s]
      BY <2>3, <3>1, Constants DEF Announce, Base, TypeOK, ServerShape
    <3>3. Extra' = Extra + 1
      BY <2>1, <2>3 DEF Extra
    <3> QED BY <2>1, <3>1, <3>2, <3>3, OpenAnnounce
  <2> QED BY <1>2, <2>2, <2>3, AdmitFacts
<1>3. ASSUME UNCHANGED <<spc, streams, aborted, midway, peer>> PROVE OpenCounted'
  <2>1. Open' = Open
    BY <1>3 DEF Open
  <2> QED BY <1>3, <2>1, OpenQuiet
<1>4. ASSUME NEW c \in Clients,
             \/ SendHello(c) \/ RecvReply(c) \/ RecvFails(c) \/ BeginTest(c)
             \/ StreamFails(c) \/ LoseControl(c) \/ Crash(c)
      PROVE  OpenCounted'
  BY <1>3, <1>4 DEF SendHello, RecvReply, RecvFails, BeginTest, StreamFails, LoseControl, Crash,
                    serverVars
<1>5. ASSUME NEW a \in Addr,
             HelloArrives(a) \/ HelloTwice(a) \/ ReplyArrives(a) \/ Lose(a)
      PROVE  OpenCounted'
  BY <1>3, <1>5 DEF HelloArrives, HelloTwice, Arrive, ReplyArrives, Lose, serverVars
<1>6. ASSUME UNCHANGED vars PROVE OpenCounted'
  BY <1>3, <1>6 DEF vars, serverVars
<1> QED BY <1>1, <1>2, <1>4, <1>5, <1>6, OpenAccept, OpenNewListener, OpenReplyAndAdd,
           OpenEndTest
        DEF Next, ServerStep, ClientStep, NetStep

-----------------------------------------------------------------------------
(* The theorems *)

LEMMA BaseNext ==
  ASSUME Base, RunningInSession, [Next]_vars
  PROVE  Base'
<1>1. ASSUME UNCHANGED vars PROVE Base'
  <2>1. /\ UNCHANGED <<spc, holder, listener, taken, streams, peer, queue, fresh, aborted, midway, base>>
        /\ midway' = midway /\ base' = base /\ cpc' = cpc /\ next' = next /\ inbox' = inbox
        /\ hellos' = hellos /\ replies' = replies /\ faults' = faults /\ trouble' = trouble
    BY <1>1 DEF vars, serverVars, clientVars, netVars
  <2>2. TypeOK'
    BY <2>1 DEF Base, TypeOK
  <2>3. ServerShape' /\ Counted'
    BY <2>1, ShapeQuiet DEF Base, TypeOK
  <2>4. ClientShape'
    BY <2>1 DEF Base, ClientShape
  <2> QED BY <2>2, <2>3, <2>4 DEF Base
<1>2. ASSUME AcceptFails \/ ReplyFails \/ StartFails \/ ClientGone PROVE Base'
  BY <1>2, BaseAborts DEF Aborts
<1> QED BY <1>1, <1>2, BaseAcceptHello, BaseNewListener, BaseReplyAndAdd, BaseAdmit,
           BaseSendHello, BaseRecvReply, BaseRecvFails, BaseBeginTest, BaseEndTest,
           BaseClientStops, BaseCrash, BaseHello, BaseReplyArrives, BaseLose
        DEF Next, ServerStep, ClientStep, NetStep

LEMMA Inductive == Spec => []IInv
<1>1. Init => IInv
  BY BaseInit, AloneInit, KnownInit, SessionInit, CalmInit, OpenInit DEF IInv, Session
<1>2. IInv /\ [Next]_vars => IInv'
  <2> SUFFICES ASSUME IInv, [Next]_vars PROVE IInv'
    OBVIOUS
  <2>1. Base /\ Alone /\ KnownWasSent /\ Session /\ NoTrouble /\ OpenCounted /\ RunningInSession
    BY DEF IInv, Session
  <2>2. Base'
    BY <2>1, BaseNext
  <2>3. KnownWasSent'
    BY <2>1, <2>2, KnownNext
  <2>4. Session'
    BY <2>1, <2>2, SessionNext
  <2>5. NoTrouble'
    BY <2>1, <2>2, CalmNext
  <2>6. OpenCounted'
    BY <2>1, <2>2, OpenNext
  <2>7. Alone'
    BY <2>1, AloneNext
  <2> QED BY <2>2, <2>3, <2>4, <2>5, <2>6, <2>7 DEF IInv, Session
<1> QED BY <1>1, <1>2, PTL DEF Spec

\* Type correctness of the handshake: among others the sockets that exist, the
\* sessions that were aborted and those of them that had a new listener
\* (iperf_udp_accept, cleanup_server) are bounded by the number of clients.
THEOREM ConnectTypeCorrect == Spec => []TypeOK
<1>1. IInv => TypeOK
  BY DEF IInv, Base
<1> QED BY <1>1, Inductive, PTL

\* A client that runs its test is connected, stream by stream and in its own
\* order, to the sockets on the server's list (iperf_udp_accept,
\* iperf_add_stream), whatever is lost, doubled, late, or left over from other
\* sessions, and also when it has the addresses of an earlier client.
THEOREM ConnectRunningMatched == Spec => []RunningMatched
<1>1. IInv => RunningMatched
  <2> SUFFICES ASSUME IInv, NEW c \in Clients, cpc[c] = "running"
               PROVE  /\ holder = c
                      /\ [i \in DOMAIN streams |-> peer[streams[i]]]
                           = [i \in 1..NumStreams |-> <<base[c], i>>]
    BY DEF RunningMatched
  <2>1. spc = "running" /\ holder = c /\ Matched
    BY DEF IInv, RunningInSession
  <2>2. DOMAIN streams = 1..NumStreams
    BY <2>1, LenStreams DEF IInv, Base, ServerShape
  <2>3. \A i \in 1..NumStreams : peer[streams[i]] = <<base[c], i>>
    BY <2>1, <2>2 DEF Matched
  <2> QED BY <2>1, <2>2, <2>3
<1> QED BY <1>1, Inductive, PTL

\* A client fails only when one of its datagrams was lost or late, a call of it
\* or of its session failed, a stray hello took its place, or it was admitted
\* with an address that a socket left open is connected to (iperf_udp_connect,
\* iperf_udp_accept).
THEOREM ConnectFailsForAReason == Spec => []FailsForAReason
<1>1. IInv => FailsForAReason
  BY DEF IInv, NoTrouble, ClientsCalm, FailsForAReason
<1> QED BY <1>1, Inductive, PTL

\* Between sessions the server holds at most as many sockets as its aborted
\* sessions had streams, and one for each that was aborted with its new
\* listener there (iperf_udp_accept, cleanup_server, iperf_reset_test).
THEOREM ConnectLeakPerAbort == Spec => []LeakPerAbort
<1>1. IInv => LeakPerAbort
  <2> SUFFICES ASSUME IInv, spc = "idle"
               PROVE  Cardinality(Open) <= aborted * NumStreams + midway
    BY DEF LeakPerAbort
  <2>1. Len(streams) = 0 /\ Extra = 0
    BY DEF IInv, Base, ServerShape, Extra
  <2>2. aborted * NumStreams \in Int /\ midway \in Int
    BY Allowance DEF IInv
  <2> QED BY <2>1, <2>2 DEF IInv, OpenCounted
<1> QED BY <1>1, Inductive, PTL

=============================================================================
