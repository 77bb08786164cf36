--------------------------- MODULE IperfUdpConnect ---------------------------
(***************************************************************************)
(* The handshake that opens the streams of a UDP test (iperf_udp.c:        *)
(* iperf_udp_listen, iperf_udp_accept, iperf_udp_connect) between the      *)
(* server loop and iperf_create_streams.  A client sends one datagram (a   *)
(* hello) for each stream and waits up to 30 seconds for a reply; the      *)
(* server binds its listening socket to whoever a hello came from, and     *)
(* makes a new listening socket.  Nothing in a hello says whose it is.     *)
(*                                                                         *)
(* The control connection is reliable and is modelled in IperfControl;     *)
(* here it is only what the two ends know of each other through it.        *)
(***************************************************************************)
EXTENDS Integers, Sequences, FiniteSets

CONSTANTS
  Clients,     \* the client processes; each runs one UDP test
  NumStreams,  \* test->num_streams
  Faults,      \* a subset of FaultKinds
  MaxFaults,   \* bound on the faults of a behaviour
  NoSock,      \* prot_listener = -1
  NoClient     \* ctrl_sck = -1

\* "loss", "dup": of datagrams; "slow": an answer takes more than 30 seconds;
\* "listen": netannounce fails, or setsockopt before it; "stream": another call
\* that opens a stream or starts the test fails; "crash": a client dies.
FaultKinds == {"loss", "dup", "slow", "listen", "stream", "crash"}

\* An address is that of the i-th stream socket of a client with new ports, or
\* of a later client that has the same ports again.  Every session makes one
\* socket more than it has streams.
Addr  == Clients \X (1..NumStreams)
Socks == 1..(Cardinality(Clients) * (NumStreams + 1))

ASSUME UdpConnectAssumption ==
  /\ IsFiniteSet(Clients)
  /\ NumStreams \in Nat \ {0}
  /\ Faults \subseteq FaultKinds
  /\ MaxFaults \in Nat
  /\ NoSock \notin Socks
  /\ NoClient \notin Clients

\* What a server socket is connected to: an address, or one of these.
Free   == <<NoClient, 0>>  \* not made yet
Any    == <<NoClient, 1>>  \* bound to the port and not connected
Closed == <<NoClient, 2>>

VARIABLES
  spc,       \* the server: "idle", "select", "accepted", "announced", "running"
  holder,    \* the client behind ctrl_sck
  listener,  \* test->prot_listener
  taken,     \* s of iperf_udp_accept, between its calls
  streams,   \* the sockets on the server's test->streams, in their order
  peer,      \* what each socket is connected to, see Free
  queue,     \* the hellos each socket holds that are not read yet
  fresh,     \* the next socket netannounce returns
  aborted,   \* sessions that ended before TEST_END (for the properties)
  midway,    \* those of them that had a new listener besides taken
  cpc,       \* where each client is: see ClientPC
  base,      \* whose addresses a client has: its own, or an earlier client's
  next,      \* the stream each client opens next
  inbox,     \* what the recv a client is in finds: "none", "reply", "refused"
  hellos,    \* the addresses whose hello is under way
  replies,   \* the addresses whose reply is under way
  faults,    \* the faults injected so far
  trouble    \* clients with a reason to fail: see FailsForAReason

serverVars == <<spc, holder, listener, taken, streams, peer, queue, fresh, aborted, midway>>
clientVars == <<cpc, base, next, inbox>>
netVars    == <<hellos, replies>>
vars       == <<serverVars, clientVars, netVars, trouble, faults>>

ServerPC == {"idle", "select", "accepted", "announced", "running"}
ClientPC == {"wait", "hello", "recv", "ready", "running", "done", "failed", "killed"}

TypeOK ==
  /\ spc \in ServerPC
  /\ holder \in Clients \cup {NoClient}
  /\ listener \in Socks \cup {NoSock}
  /\ taken \in Socks \cup {NoSock}
  /\ streams \in Seq(Socks)
  /\ Len(streams) <= NumStreams - (IF spc \in {"idle", "running"} THEN 0 ELSE 1)
  /\ peer \in [Socks -> Addr \cup {Free, Any, Closed}]
  /\ queue \in [Socks -> Seq(Addr)]
  /\ fresh \in 1..(Cardinality(Clients) * (NumStreams + 1) + 1)
  /\ aborted \in 0..Cardinality(Clients) /\ midway \in 0..aborted
  /\ cpc \in [Clients -> ClientPC] /\ base \in [Clients -> Clients]
  /\ next \in [Clients -> 1..(NumStreams + 1)]
  /\ inbox \in [Clients -> {"none", "reply", "refused"}]
  /\ hellos \subseteq Addr /\ replies \subseteq Addr
  /\ faults \in 0..MaxFaults
  /\ trouble \subseteq Clients

Init ==
  /\ spc = "idle" /\ holder = NoClient /\ listener = NoSock /\ taken = NoSock
  /\ streams = <<>>
  /\ peer = [s \in Socks |-> Free] /\ queue = [s \in Socks |-> <<>>]
  /\ fresh = 1 /\ aborted = 0 /\ midway = 0
  /\ cpc = [c \in Clients |-> "wait"] /\ base = [c \in Clients |-> c]
  /\ next = [c \in Clients |-> 1]
  /\ inbox = [c \in Clients |-> "none"]
  /\ hellos = {} /\ replies = {} /\ faults = 0 /\ trouble = {}

Inject(f) == f \in Faults /\ faults < MaxFaults /\ faults' = faults + 1

Finished(c) == cpc[c] \in {"done", "failed", "killed"}
Bound == {s \in Socks : peer[s] = Any}
Open  == {s \in Socks : peer[s] \notin {Free, Closed}}
PeersOf(seq) == {peer[seq[i]] : i \in DOMAIN seq}
Address(c) == <<base[c], next[c]>>

-----------------------------------------------------------------------------
(* The server *)

\* netannounce: a new socket on the port, or an error.
Announce == /\ listener' = fresh /\ fresh' = fresh + 1
            /\ peer' = [peer EXCEPT ![fresh] = Any]

\* cleanup_server and iperf_reset_test after an error or end of file:
\* prot_listener and the streams are forgotten, their sockets stay open.
AbortSession ==
  /\ spc' = "idle" /\ holder' = NoClient
  /\ listener' = NoSock /\ taken' = NoSock /\ streams' = <<>>
  /\ aborted' = aborted + 1
  /\ UNCHANGED <<queue, fresh, clientVars, hellos>>

\* The addresses client c may have: new ones, or those of earlier clients that
\* are gone (--cport, or by chance), with none of their datagrams under way,
\* which live for less time than it takes to start a client.
BasesFor(c) ==
  {c} \cup {b \in Clients : /\ \A d \in Clients : base[d] = b => Finished(d)
                            /\ \A a \in hellos \cup replies : a[1] # b}

\* iperf_exchange_parameters: the listener is there before CREATE_STREAMS is
\* sent.  A client has a reason to fail if a socket left open is connected to an
\* address of it.
Admit(c) ==
  /\ spc = "idle" /\ cpc[c] = "wait"
  /\ \/ /\ Announce
        /\ spc' = "select" /\ holder' = c
        /\ cpc' = [cpc EXCEPT ![c] = "hello"]
        /\ \E b \in BasesFor(c) :
             /\ base' = [base EXCEPT ![c] = b]
             /\ trouble' = IF \E s \in Socks : peer[s][1] = b THEN trouble \cup {c}
                           ELSE trouble
        /\ UNCHANGED faults
     \/ /\ Inject("listen")
        /\ cpc' = [cpc EXCEPT ![c] = "failed"]
        /\ trouble' = trouble \cup {c}
        /\ UNCHANGED <<spc, holder, listener, peer, fresh, base>>
  /\ UNCHANGED <<taken, streams, queue, aborted, midway, next, inbox, netVars>>

\* Mistake: the reply is sent before there is a new listener.
AcceptRepliesFirst ==
  /\ spc = "select" /\ queue[listener] # <<>>
  /\ spc' = "accepted" /\ taken' = listener
  /\ peer' = [peer EXCEPT ![listener] = Head(queue[listener])]
  /\ queue' = [queue EXCEPT ![listener] = Tail(@)]
  /\ replies' = replies \cup {Head(queue[listener])}
  /\ trouble' = IF Head(queue[listener])[1] = base[holder] THEN trouble
                ELSE trouble \cup {holder}
  /\ UNCHANGED <<faults, holder, listener, streams, fresh, aborted, midway,
                 clientVars, hellos>>

\* iperf_udp_accept, recvfrom and connect: the listening socket becomes the
\* stream of whoever the hello came from.
AcceptHello ==
  /\ spc = "select" /\ queue[listener] # <<>>
  /\ spc' = "accepted" /\ taken' = listener
  /\ peer' = [peer EXCEPT ![listener] = Head(queue[listener])]
  /\ queue' = [queue EXCEPT ![listener] = Tail(@)]
  /\ trouble' = IF Head(queue[listener])[1] = base[holder] THEN trouble
                ELSE trouble \cup {holder}
  /\ UNCHANGED <<faults, holder, listener, streams, fresh, aborted, midway,
                 clientVars, netVars>>

\* iperf_udp_accept, netannounce.
NewListener ==
  /\ spc = "accepted"
  /\ \/ /\ Announce
        /\ spc' = "announced"
        /\ UNCHANGED <<holder, taken, streams, queue, aborted, midway, clientVars,
                       netVars, trouble, faults>>
     \/ /\ Inject("listen")
        /\ AbortSession /\ UNCHANGED <<peer, midway, replies>>
        /\ trouble' = trouble \cup {holder}

\* iperf_udp_accept, when recvfrom or connect fails.
AcceptFails ==
  /\ spc = "select" /\ queue[listener] # <<>> /\ Inject("stream")
  /\ AbortSession /\ UNCHANGED <<peer, midway, replies>>
  /\ trouble' = trouble \cup {holder}

\* Mistakes: the listener of a session that has all its streams stays; the
\* streams are counted before the new one is added.
ReplyKeepsListener ==
  /\ spc = "announced"
  /\ replies' = replies \cup {peer[taken]}
  /\ streams' = Append(streams, taken) /\ taken' = NoSock
  /\ IF Len(streams) + 1 = NumStreams
       THEN spc' = "running" /\ listener' = NoSock
       ELSE spc' = "select" /\ UNCHANGED listener
  /\ UNCHANGED <<holder, peer, queue, fresh, aborted, midway, clientVars, hellos,
                 trouble, faults>>

CountsBeforeAdding ==
  /\ spc = "announced"
  /\ replies' = replies \cup {peer[taken]}
  /\ streams' = Append(streams, taken) /\ taken' = NoSock
  /\ IF Len(streams) = NumStreams
       THEN /\ spc' = "running" /\ listener' = NoSock
            /\ peer' = [peer EXCEPT ![listener] = Closed]
       ELSE spc' = "select" /\ UNCHANGED <<listener, peer>>
  /\ UNCHANGED <<holder, queue, fresh, aborted, midway, clientVars, hellos, trouble,
                 faults>>

\* iperf_udp_accept, the reply; then iperf_run_server adds the stream, and
\* after the last one closes the listener and starts the test.
ReplyAndAdd ==
  /\ spc = "announced"
  /\ replies' = replies \cup {peer[taken]}
  /\ streams' = Append(streams, taken) /\ taken' = NoSock
  /\ IF Len(streams) + 1 = NumStreams
       THEN /\ spc' = "running" /\ listener' = NoSock
            /\ peer' = [peer EXCEPT ![listener] = Closed]
       ELSE spc' = "select" /\ UNCHANGED <<listener, peer>>
  /\ UNCHANGED <<holder, queue, fresh, aborted, midway, clientVars, hellos, trouble,
                 faults>>

\* With the new listener there, the reply fails or, after it, iperf_new_stream:
\* both sockets stay open.
ReplyFails ==
  /\ spc = "announced" /\ Inject("stream")
  /\ replies' \in {replies, replies \cup {peer[taken]}}
  /\ AbortSession /\ midway' = midway + 1 /\ UNCHANGED peer
  /\ trouble' = trouble \cup {holder}

\* The last stream is there and the listener closed, and the test does not
\* start: TEST_START or TEST_RUNNING is not sent, or a timer not made.
StartFails ==
  /\ spc = "announced" /\ Len(streams) + 1 = NumStreams /\ Inject("stream")
  /\ replies' = replies \cup {peer[taken]}
  /\ peer' = [peer EXCEPT ![listener] = Closed]
  /\ AbortSession /\ UNCHANGED midway
  /\ trouble' = trouble \cup {holder}

\* The end of file of a client that failed or was killed.
ClientGone ==
  /\ spc \in {"select", "running"} /\ cpc[holder] \in {"failed", "killed"}
  /\ AbortSession /\ UNCHANGED <<peer, midway, replies, trouble, faults>>

-----------------------------------------------------------------------------
(* The client *)

\* iperf_udp_connect: netdial, the timeout and the hello.
SendHello(c) ==
  /\ cpc[c] = "hello"
  /\ cpc' = [cpc EXCEPT ![c] = "recv"]
  /\ hellos' = hellos \cup {Address(c)}
  /\ UNCHANGED <<serverVars, base, next, inbox, replies, trouble, faults>>

\* netdial or the write of the hello fails or, after a reply, iperf_new_stream.
StreamFails(c) ==
  /\ cpc[c] \in {"hello", "ready"} /\ Inject("stream")
  /\ cpc' = [cpc EXCEPT ![c] = "failed"]
  /\ trouble' = trouble \cup {c}
  /\ UNCHANGED <<serverVars, base, next, inbox, netVars>>

\* Mistake: the client does not wait for the reply.
RecvNoWait(c) ==
  /\ cpc[c] = "recv"
  /\ next' = [next EXCEPT ![c] = @ + 1]
  /\ cpc' = [cpc EXCEPT ![c] = IF next[c] = NumStreams THEN "ready" ELSE "hello"]
  /\ UNCHANGED <<serverVars, base, inbox, netVars, trouble, faults>>

\* iperf_udp_connect: recv returns, and iperf_create_streams goes on.
RecvReply(c) ==
  /\ cpc[c] = "recv" /\ inbox[c] = "reply"
  /\ next' = [next EXCEPT ![c] = @ + 1]
  /\ cpc' = [cpc EXCEPT ![c] = IF next[c] = NumStreams THEN "ready" ELSE "hello"]
  /\ inbox' = [inbox EXCEPT ![c] = "none"]
  /\ UNCHANGED <<serverVars, base, netVars, trouble, faults>>

\* Mistake: the socket has no timeout.
RecvNoTimeout(c) ==
  /\ cpc[c] = "recv" /\ inbox[c] = "refused"
  /\ cpc' = [cpc EXCEPT ![c] = "failed"]
  /\ UNCHANGED <<serverVars, base, next, inbox, netVars, trouble, faults>>

\* An ICMP error makes recv fail at once, and the timeout after 30 seconds:
\* by then an answer that was not lost is there, unless the fault is "slow".
UnderWay(a) ==
  \/ a \in hellos \cup replies
  \/ listener # NoSock /\ \E i \in DOMAIN queue[listener] : queue[listener][i] = a
  \/ taken # NoSock /\ peer[taken] = a
RecvFails(c) ==
  /\ cpc[c] = "recv"
  /\ LET a == Address(c) IN
       \/ /\ inbox[c] = "refused"
          /\ UNCHANGED <<trouble, faults>>
       \/ /\ inbox[c] = "none" /\ ~UnderWay(a)
          /\ UNCHANGED <<trouble, faults>>
       \/ /\ inbox[c] = "none" /\ UnderWay(a) /\ Inject("slow")
          /\ trouble' = trouble \cup {c}
  /\ cpc' = [cpc EXCEPT ![c] = "failed"]
  /\ inbox' = [inbox EXCEPT ![c] = "none"]
  /\ UNCHANGED <<serverVars, base, next, netVars>>

\* TEST_START and TEST_RUNNING, which the client reads once it has its streams.
BeginTest(c) ==
  /\ cpc[c] = "ready" /\ holder = c /\ spc = "running"
  /\ cpc' = [cpc EXCEPT ![c] = "running"]
  /\ UNCHANGED <<serverVars, base, next, inbox, netVars, trouble, faults>>

\* In place of them it reads the end of file: the server has closed ctrl_sck.
LoseControl(c) ==
  /\ cpc[c] = "ready" /\ holder # c
  /\ cpc' = [cpc EXCEPT ![c] = "failed"]
  /\ UNCHANGED <<serverVars, base, next, inbox, netVars, trouble, faults>>

\* The client ends its test; at TEST_END the server closes the streams.
EndTest(c) ==
  /\ cpc[c] = "running"
  /\ cpc' = [cpc EXCEPT ![c] = "done"]
  /\ spc' = "idle" /\ holder' = NoClient /\ streams' = <<>>
  /\ peer' = [s \in Socks |-> IF \E i \in DOMAIN streams : streams[i] = s
                              THEN Closed ELSE peer[s]]
  /\ UNCHANGED <<listener, taken, queue, fresh, aborted, midway, base, next, inbox,
                 netVars, trouble, faults>>

Crash(c) ==
  /\ Inject("crash") /\ ~Finished(c)
  /\ cpc' = [cpc EXCEPT ![c] = "killed"]
  /\ inbox' = [inbox EXCEPT ![c] = "none"]
  /\ UNCHANGED <<serverVars, base, next, netVars, trouble>>

-----------------------------------------------------------------------------
(* The network *)

\* What a client socket receives matters while the client waits on it.
Deliver(a, what) ==
  inbox' = [c \in Clients |->
              IF cpc[c] = "recv" /\ Address(c) = a /\ inbox[c] = "none"
              THEN what ELSE inbox[c]]

\* A datagram goes to the socket that is connected to its sender, else to the
\* socket bound last; without either, the sender's socket gets an error.
Arrive(a) ==
  /\ a \in hellos
  /\ LET connected == {s \in Socks : peer[s] = a}
         targets == IF connected # {} THEN connected
                    ELSE {s \in Bound : \A t \in Bound : t <= s}
     IN IF targets = {}
          THEN /\ Deliver(a, "refused")
               /\ UNCHANGED queue
          ELSE /\ queue' = [s \in Socks |-> IF s \in targets
                                            THEN Append(queue[s], a) ELSE queue[s]]
               /\ UNCHANGED inbox
  /\ UNCHANGED <<spc, holder, listener, taken, streams, peer, fresh, aborted, midway,
                 cpc, base, next, replies, trouble>>

\* A duplicate is an arrival that leaves the datagram under way; only one is
\* made of each, so that the queues stay finite.
HelloArrives(a) == Arrive(a) /\ hellos' = hellos \ {a} /\ UNCHANGED faults
HelloTwice(a) ==
  /\ Inject("dup") /\ \A s \in Socks : peer[s] # a
  /\ \A s \in Socks : \A i \in DOMAIN queue[s] : queue[s][i] # a
  /\ Arrive(a) /\ hellos' = hellos
ReplyArrives(a) ==
  /\ a \in replies
  /\ replies' = replies \ {a}
  /\ Deliver(a, "reply")
  /\ UNCHANGED <<serverVars, cpc, base, next, hellos, trouble, faults>>
Lose(a) ==
  /\ Inject("loss") /\ a \in hellos \cup replies
  /\ \/ a \in hellos /\ hellos' = hellos \ {a} /\ UNCHANGED replies
     \/ a \in replies /\ replies' = replies \ {a} /\ UNCHANGED hellos
  /\ trouble' = trouble \cup {c \in Clients : base[c] = a[1]}
  /\ UNCHANGED <<serverVars, clientVars>>

-----------------------------------------------------------------------------
Quiescent == spc = "idle" /\ (\A c \in Clients : Finished(c)) /\ hellos = {} /\ replies = {}

ServerStep ==
  \/ AcceptHello \/ AcceptFails \/ NewListener \/ ReplyAndAdd \/ ReplyFails \/ StartFails
  \/ ClientGone
ClientStep(c) ==
  \/ Admit(c) \/ SendHello(c) \/ RecvReply(c) \/ RecvFails(c) \/ BeginTest(c)
  \/ LoseControl(c) \/ EndTest(c)
NetStep(a) == HelloArrives(a) \/ ReplyArrives(a)

Next ==
  \/ ServerStep
  \/ \E c \in Clients : ClientStep(c) \/ StreamFails(c) \/ Crash(c)
  \/ \E a \in Addr : NetStep(a) \/ HelloTwice(a) \/ Lose(a)
  \/ Quiescent /\ UNCHANGED vars

Spec == Init /\ [][Next]_vars

\* The loops and the network go on; faults are not fair.
FairSpec ==
  /\ Spec /\ WF_vars(ServerStep)
  /\ \A c \in Clients : WF_vars(ClientStep(c))
  /\ \A a \in Addr : WF_vars(NetStep(a))

-----------------------------------------------------------------------------
(* Properties *)

\* A client that runs its test is connected, stream by stream and in its own
\* order, to the sockets on the server's list, although a hello carries no
\* cookie and hellos of other sessions are taken as streams: results are
\* matched by the position on the lists (iperf_add_stream), and it is the
\* reply on each socket that makes them match.
RunningMatched ==
  \A c \in Clients : cpc[c] = "running" =>
    /\ holder = c
    /\ [i \in DOMAIN streams |-> peer[streams[i]]] = [i \in 1..NumStreams |-> <<base[c], i>>]

\* A client fails only when a datagram of it was lost or late, a call failed, a
\* stray hello took its place, or it has an address that a socket left open by an
\* earlier session is connected to (--cport, or a port that came again): other
\* sockets that earlier sessions left open never take its datagrams, and there
\* is a listener whenever it sends one.
FailsForAReason == \A c \in Clients : cpc[c] = "failed" => c \in trouble

\* Between sessions the server holds no more sockets than its aborted sessions
\* had streams, and one for each that was aborted between the new listener and
\* the stream it replaced: any other abort during the handshake leaves the
\* listening socket in place of a stream, never besides all of them.
LeakPerAbort == spc = "idle" => Cardinality(Open) <= aborted * NumStreams + midway

\* The server comes back to where it admits a client, whatever is lost.
ServerComesBack == []<>(spc = "idle")
=============================================================================
