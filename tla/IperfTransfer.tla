---------------------------- MODULE IperfTransfer ----------------------------
(***************************************************************************)
(* One server process, and clients one after the other: each gets its      *)
(* options, tells them to the server, and the two run the test with them.  *)
(* While it runs the end that sends calls iperf_send in every turn of its  *)
(* loop and the other iperf_recv, the server only when select found a      *)
(* socket ready; the client ends it by the time or by the bytes or blocks  *)
(* counted (-t, -n, -k).                                                   *)
(*                                                                         *)
(* Data is counted in units, BlockUnits of them in a block of -l.  Whether *)
(* a stream is below its rate is a choice, made where check_throttle       *)
(* compares the two; a timer comes as often as the choice of due says.     *)
(***************************************************************************)
EXTENDS IperfOptions

CONSTANTS
  Requests,    \* what clients are started with: ArgsOf or JavaOf
  MaxSessions, \* bound on the clients that are started
  Multisend,   \* the passes of iperf_send without a rate (10 in the code)
  BlockUnits,  \* units of data in a block
  Room,        \* units a connection holds
  MaxCount     \* bound on the blocks that are counted apart

ASSUME TransferAssumption ==
  /\ Requests \subseteq RequestType
  /\ MaxSessions \in Nat /\ Multisend \in Nat \ {0}
  /\ BlockUnits \in Nat \ {0} /\ Room \in Nat \ {0} /\ MaxCount \in Nat

VARIABLES
  server,   \* the options of the server process
  client,   \* those of the client
  request,  \* what it was started with
  phase,    \* "idle", "connected", "waiting", "running", "ended"
  last,     \* the value each option was last given by a client
  sessions, \* the clients started so far
  pipe,     \* the units on their way, of each stream
  green,    \* green_light of the streams, and their bits in write_set
  counted,  \* bytes_sent and blocks_sent of each end
  omitting  \* the ends that are in the omit period

optionVars == <<server, client, request, last, sessions>>
dataVars == <<pipe, green, counted, omitting>>
vars == <<optionVars, phase, dataVars>>

Ends == {"client", "server"}
Of(e) == IF e = "client" THEN client ELSE server
NoClient == iperf_defaults
NoRequest == ArgsOf(<<>>, FALSE)
Streams == 1..client.set["parallel"]
Zero == [bytes |-> 0, blocks |-> 0]

Init ==
  /\ server = iperf_parse_arguments(<<Switch("s")>>, FALSE).test
  /\ client = NoClient /\ request = NoRequest
  /\ phase = "idle" /\ sessions = 0
  /\ last = [k \in WireKeys |-> Default(k)]
  /\ pipe = <<>> /\ green = {}
  /\ counted = [e \in Ends |-> Zero] /\ omitting = {}

TestType == [role : {"none", "c", "s"}, protocol : {"tcp", "udp"}, sender : BOOLEAN,
             reverse : BOOLEAN, retrans : BOOLEAN, set : [Keys -> Int]]

\* The types, and that a client with arguments has one end condition at most.
TypeOK ==
  /\ server \in TestType /\ server.role = "s"
  /\ client \in TestType
  /\ phase \in {"idle", "connected", "waiting", "running", "ended"}
  /\ request.kind = "args" =>
       Cardinality({k \in {"time", "num", "blockcount"} : client.set[k] # 0}) <= 1
  /\ DOMAIN last = WireKeys /\ sessions \in 0..MaxSessions
  /\ phase = "running" => \A e \in Ends : Of(e).set["parallel"] >= 0
  /\ phase # "running" \/ pipe \in [Streams -> 0..Room]
  /\ green \subseteq DOMAIN pipe
  /\ counted \in [Ends -> [bytes : 0..(MaxCount * BlockUnits), blocks : 0..MaxCount]]
  /\ omitting \subseteq Ends

-----------------------------------------------------------------------------
(* Clients come and go *)

StartClient(r) ==
  /\ phase = "idle" /\ sessions < MaxSessions
  /\ sessions' = sessions + 1
  /\ LET c == ClientOf(r) IN
       /\ c.ok /\ c.test.role = "c"
       /\ client' = c.test
  /\ request' = r /\ phase' = "connected"
  /\ UNCHANGED <<server, last, dataVars>>

\* The parameters, and what follows on both ends until the streams are there.
\* The server waits for as many streams as there are to be, none included; for
\* a number below 0 it waits for ever.
ExchangeParameters ==
  /\ phase = "connected"
  /\ LET j == send_parameters(client) IN
       /\ server' = get_parameters(server, j)
       /\ last' = [k \in WireKeys |-> IF k \in DOMAIN j.set THEN j.set[k] ELSE last[k]]
  /\ phase' = IF client.set["parallel"] >= 0 THEN "running" ELSE "waiting"
  /\ pipe' = [s \in Streams |-> 0] /\ green' = Streams
  /\ counted' = [e \in Ends |-> Zero]
  /\ omitting' = IF client.set["omit"] = 0 THEN {} ELSE Ends
  /\ UNCHANGED <<client, request, sessions>>

\* The session is over, after the results or because the client is gone.
CleanUp ==
  /\ phase # "idle"
  /\ server' = ResetOptions(server)
  /\ client' = NoClient /\ request' = NoRequest /\ phase' = "idle"
  /\ pipe' = <<>> /\ green' = {} /\ omitting' = {}
  /\ counted' = [e \in Ends |-> Zero]
  /\ UNCHANGED <<last, sessions>>

-----------------------------------------------------------------------------
(* The sockets *)

Least(a, b) == IF a < b THEN a ELSE b

\* What select finds, of the streams in write_set and in read_set.
Sends(e) == client.reverse = (e = "server")
Writable(t) == {s \in green : t.protocol = "udp" \/ pipe[s] < Room}
Readable(e) == IF Of(e).sender THEN {} ELSE {s \in Streams : pipe[s] > 0}
Ready(e) == IF Sends(e) THEN Writable(Of(e)) ELSE Readable(e)

-----------------------------------------------------------------------------
(* iperf_send and iperf_recv *)

Add(c, units) ==
  [bytes |-> Least(c.bytes + units, MaxCount * BlockUnits),
   blocks |-> Least(c.blocks + 1, MaxCount)]

Passes(t) ==
  IF t.set["burst"] # 0 THEN t.set["burst"]
  ELSE IF t.set["bandwidth"] = 0 THEN Multisend ELSE 1
PacesEach(t) == t.set["bandwidth"] # 0 /\ t.set["burst"] = 0

\* What a call has done: skip, the pass is left; active, something was sent in
\* it; stop, no more passes.  c are the counters.
Begin(e) == [pipe |-> pipe, green |-> green, c |-> counted[e],
             skip |-> FALSE, active |-> TRUE, stop |-> FALSE]

\* TCP writes what fits, down to nothing; a datagram without room is lost.
Written(t, room) == IF t.protocol = "udp" THEN BlockUnits ELSE Least(room, BlockUnits)

\* Mistake: a limit must be met exactly.
LimitMet(t, c) ==
  \/ t.set["num"] # 0 /\ c.bytes = t.set["num"]
  \/ t.set["blockcount"] # 0 /\ c.blocks = t.set["blockcount"]

LimitReached(t, c) ==
  \/ t.set["num"] # 0 /\ c.bytes >= t.set["num"]
  \/ t.set["blockcount"] # 0 /\ c.blocks >= t.set["blockcount"]

\* iperf_check_throttle, of stream s: the rate decides.  Without a rate no
\* stream is below it.
Throttled(t, green0, s) ==
  {green0 \ {s}} \cup (IF t.set["bandwidth"] = 0 THEN {} ELSE {green0 \cup {s}})

\* Mistake: the limits are looked at after a whole call only.
SendOneMore(t, st, s, m) ==
  LET r == Written(t, Room - st.pipe[s]) IN
    {[st EXCEPT !.pipe[s] = Least(@ + r, Room), !.c = Add(@, r), !.active = TRUE,
                !.green = g] :
       g \in IF PacesEach(t) THEN Throttled(t, st.green, s) ELSE {st.green}}

\* sp->snd, the counters, the rate of the stream, and the limits.
SendOne(t, st, s, m) ==
  LET r == Written(t, Room - st.pipe[s])
      c == Add(st.c, r)
  IN {[st EXCEPT !.pipe[s] = Least(@ + r, Room), !.c = c, !.active = TRUE,
                 !.skip = m > 1 /\ LimitReached(t, c), !.green = g] :
        g \in IF PacesEach(t) THEN Throttled(t, st.green, s) ELSE {st.green}}

\* What stream s may come to in pass m.  ready are the streams select found
\* writable, and only pacing asks for that; a datagram may find no buffer (a
\* soft error), which ends the pass.
Visit(t, st, s, m, ready) ==
  IF st.stop \/ st.skip \/
       (t.set["no_fq_socket_pacing"] # 0 /\ ~(s \in st.green /\ s \in ready))
  THEN {st}
  ELSE SendOne(t, st, s, m)
         \cup (IF t.protocol = "udp" THEN {[st EXCEPT !.skip = TRUE]} ELSE {})

\* A pass is the last if nothing was sent in it.
BeginPass(st) == [st EXCEPT !.stop = @ \/ ~st.active, !.active = FALSE, !.skip = FALSE]

\* The passes, stream by stream, with every outcome; with a burst the rate is
\* looked at afterwards.
iperf_send(e) ==
  LET t == Of(e)
      n == Cardinality(Streams)
      ready == Writable(t)
      sent[i \in 0..(Passes(t) * n)] ==
        IF i = 0 THEN {Begin(e)}
        ELSE LET s == ((i - 1) % n) + 1
                 m == Passes(t) - ((i - 1) \div n)
             IN UNION {Visit(t, IF s = 1 THEN BeginPass(st) ELSE st, s, m, ready) :
                         st \in sent[i - 1]}
      all == sent[Passes(t) * n]
  IN IF t.set["burst"] = 0 THEN all
     ELSE {[st EXCEPT !.green = g] : st \in all,
             g \in IF t.set["bandwidth"] = 0 THEN {{}} ELSE SUBSET Streams}

\* Each stream with data, if it is watched for reading, is read once.
iperf_recv(e) ==
  [Begin(e) EXCEPT
     !.pipe = [s \in Streams |->
                 IF s \in Readable(e) THEN @[s] - Least(@[s], BlockUnits) ELSE @[s]],
     !.c = FoldLeft(LAMBDA c, s : Add(c, Least(pipe[s], BlockUnits)), @,
                    SetToSeq(Readable(e)))]

-----------------------------------------------------------------------------
(* A turn of the loop of an end: data, timers, and is the test done? *)

\* The timers that may be due; those of the statistics and the reports are one.
Timers(e) ==
  (IF e \in omitting THEN {"omit"} ELSE {})
    \cup (IF Of(e).set["bandwidth"] # 0 THEN {"send"} ELSE {})
    \cup (IF Of(e).set["interval"] # 0 THEN {"stats"} ELSE {})
    \cup (IF e = "client" /\ client.set["time"] # 0 THEN {"test"} ELSE {})

\* The client calls iperf_send whatever woke it.  The server calls it only if
\* select found a socket ready: a stream, or the listener, where another client
\* knocks, to be denied.
Transfer(e, knock) ==
  IF ~Sends(e) THEN {iperf_recv(e)}
  ELSE IF e = "client" \/ Ready(e) # {} \/ knock THEN iperf_send(e)
  ELSE {Begin(e)}

\* select returns for a socket or for a timer.  The omit timer starts the counters
\* over; the send timers compare each stream with its rate.
Turn(e, due, knock) ==
  /\ phase = "running"
  /\ knock => e = "server"
  /\ Ready(e) # {} \/ due # {} \/ knock
  /\ \E st \in Transfer(e, knock) :
       LET c == IF "omit" \in due THEN Zero ELSE st.c
           omits == IF "omit" \in due THEN omitting \ {e} ELSE omitting
       IN /\ pipe' = st.pipe
          /\ green' \in IF "send" \in due /\ Sends(e) THEN SUBSET Streams ELSE {st.green}
          /\ counted' = [counted EXCEPT ![e] = c]
          /\ omitting' = omits
          /\ phase' = IF /\ e = "client" /\ e \notin omits
                         /\ "test" \in due \/ LimitReached(client, c)
                      THEN "ended" ELSE phase
  /\ UNCHANGED optionVars

Next ==
  \/ \E r \in Requests : StartClient(r)
  \/ ExchangeParameters \/ CleanUp
  \/ \E e \in Ends, knock \in BOOLEAN : \E due \in SUBSET Timers(e) : Turn(e, due, knock)
  \/ phase = "idle" /\ sessions = MaxSessions /\ UNCHANGED vars

Spec == Init /\ [][Next]_vars

\* A turn that moves data: for a socket that is ready or, the client's, for a timer
\* that comes again and again.
Moves(e) ==
  \E due \in SUBSET (Timers(e) \ {"omit"}) :
    Turn(e, due, FALSE) /\ counted'[e] # counted[e]

\* Every timer comes, and finds the streams below their rates.
TimersRun(e) == Turn(e, Timers(e), FALSE) /\ ("send" \in Timers(e) /\ Sends(e) => green' = Streams)

\* Both loops go round, and buffers do not run out for ever; that a client leaves
\* early is up to its user, and no one need knock.
FairSpec == Spec /\ \A e \in Ends : WF_vars(Moves(e)) /\ WF_vars(TimersRun(e))

-----------------------------------------------------------------------------
(* Properties *)

Exchanged == phase \in {"waiting", "running", "ended"}

\* The server runs the test of its client: what the client sent, and of the
\* rest the defaults, as if no client had been there before; except for the
\* options that iperf_reset_test leaves, which are those of the last client
\* that gave them.
ServerRunsClientsTest ==
  Exchanged =>
    /\ server.protocol = client.protocol /\ server.reverse = client.reverse
    /\ \A k \in WireKeys :
         server.set[k] = IF k \in Given(client) THEN client.set[k]
                         ELSE IF k \in Sticky THEN last[k] ELSE Default(k)

\* However the arguments are ordered, one end sends and the other receives, in
\* the direction asked for, and exactly a sender over TCP counts retransmits,
\* unless -R is given twice: each toggles the sender.
Reversals == IF request.kind = "java" THEN 1
             ELSE Cardinality({i \in DOMAIN request.args : request.args[i].opt = "R"})
OneEndSends ==
  Exchanged /\ Reversals <= 1 =>
    /\ client.sender = ~client.reverse /\ server.sender = client.reverse
    /\ \A e \in Ends :
         Of(e).retrans = (Of(e).sender /\ Of(e).protocol = "tcp" /\ HasTcpinfoRetransmits)

\* A test that its limit ends goes over it by less than the streams and the
\* passes allow: once it is reached, each pass but the last sends one block.
Excess == Passes(client) - 1 + Cardinality(Streams)
LimitKept ==
  phase = "ended" /\ client.set["time"] = 0 =>
    /\ LimitReached(client, counted["client"])
    /\ client.set["num"] # 0 =>
         counted["client"].bytes < client.set["num"] + Excess * BlockUnits
    /\ client.set["blockcount"] # 0 =>
         counted["client"].blocks < client.set["blockcount"] + Excess

\* A test ends by itself if it has a duration, or a limit and a stream; but not
\* by its limit if -R was given twice, and it may stop half way if it has a burst but
\* no rate, for which no stream is below its rate after the first call: if the
\* server sends, since nothing wakes it; if the client does and has no timer of the
\* statistics to wake it; or with pacing on, as other builds can ask.
Limited == client.set["num"] # 0 \/ client.set["blockcount"] # 0
Sending == Of(IF client.reverse THEN "server" ELSE "client")
Stalls ==
  /\ Sending.set["burst"] # 0 /\ Sending.set["bandwidth"] = 0
  /\ client.reverse \/ client.set["interval"] = 0 \/ Sending.set["no_fq_socket_pacing"] # 0
WillEnd ==
  \/ client.set["time"] # 0
  \/ Limited /\ Streams # {} /\ client.sender # client.reverse /\ ~Stalls
TestEnds == phase = "running" /\ WillEnd ~> phase # "running"
=============================================================================
