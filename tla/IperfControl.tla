---------------------------- MODULE IperfControl ----------------------------
(***************************************************************************)
(* The control protocol of a TCP test: the server loop of                  *)
(* iperf_server_api.c (iperf_run_server and the handlers it calls), the    *)
(* client loop of iperf_client_api.c (iperf_run_client), and the           *)
(* connections between them.  Client and server are processes that block   *)
(* where the code blocks: every program counter value other than "select"  *)
(* is a blocking read (or the pause between two calls) inside a handler.   *)
(*                                                                         *)
(* A connection is <<c, i>>: i = 0 is the control connection of client c,  *)
(* i > 0 its i-th data connection.  Each direction is a FIFO sequence; a   *)
(* side that has closed leaves what it sent readable, then end of file.    *)
(***************************************************************************)
EXTENDS Integers, Sequences, FiniteSets

CONSTANTS
  Clients,     \* the client processes; each runs one test
  Reversed,    \* the clients started with -R (the server sends the data)
  Jni,         \* the clients run through JNI: SAFE_EXIT does not exit there
  NumStreams,  \* test->num_streams, the same for every client
  Relisten,    \* the clients ask for -N, -M or -w: the listener is recreated
  Faults,      \* the faults a run injects, a subset of FaultKinds
  DataCap,     \* bound on the half blocks buffered on a data connection
  NoConn       \* ctrl_sck = -1

\* "listen": the server cannot listen; "sigpipe": SIGPIPE kills the server;
\* "reset": a connection is reset, not just closed; "signal" and "crash" end a
\* client, "serverSignal" and "serverCrash" the server.
FaultKinds == {"listen", "sigpipe", "reset", "signal", "crash",
               "serverSignal", "serverCrash"}

ASSUME ControlAssumption ==
  /\ Reversed \subseteq Clients /\ Jni \subseteq Clients
  /\ NumStreams \in Nat \ {0}
  /\ Relisten \in BOOLEAN
  /\ Faults \subseteq FaultKinds
  /\ DataCap \in Nat /\ DataCap >= 2
  /\ NoConn \notin Clients \X (0..NumStreams)
  /\ NoConn \notin Clients

VARIABLES
  spc,       \* where the server is blocked: see ServerPC
  sstate,    \* the server's test->state
  ctrl,      \* the connection behind the server's test->ctrl_sck
  cookie,    \* the client whose cookie is in test->cookie
  acc,       \* the socket iperf_tcp_accept is reading a cookie from
  accepted,  \* streams_accepted of iperf_run_server
  streams,   \* the connections on the server's test->streams list
  reverse,   \* the server's test->reverse
  backlog,   \* connections the listener holds that are not accepted yet
  cpc,       \* where each client is blocked: see ClientPC
  cstate,    \* each client's test->state
  next,      \* the stream each client connects next in iperf_create_streams
  reading,   \* the stream whose blocking read a draining client is in, or 0
  cEnd,      \* the client's end of each connection
  sEnd,      \* the server's end of each connection
  up,        \* what was sent to the server and is not read yet
  down       \* what was sent to the client and is not read yet

serverVars == <<spc, sstate, ctrl, cookie, acc, accepted, streams, reverse>>
clientVars == <<cpc, cstate, next, reading>>
netVars    == <<backlog, cEnd, sEnd, up, down>>
vars       == <<serverVars, clientVars, netVars>>

Conns == Clients \X (0..NumStreams)
Ctrl(c) == <<c, 0>>
Data(c) == {k \in Conns : k[1] = c /\ k[2] > 0}

ServerPC == {"start", "select", "cookie", "params", "streamCookie",
             "starting", "results", "display", "dead"}
ClientPC == {"init", "cookie", "select", "connect", "streamCookie", "results",
             "drain", "done", "failed", "killed"}

\* The codes of iperf_api.h that go over the control connection, and the
\* other things a connection carries: cookies, JSON documents and data.
States == {"TEST_START", "TEST_RUNNING", "TEST_END", "PARAM_EXCHANGE",
           "CREATE_STREAMS", "SERVER_TERMINATE", "CLIENT_TERMINATE",
           "EXCHANGE_RESULTS", "DISPLAY_RESULTS", "IPERF_START", "IPERF_DONE",
           "ACCESS_DENIED", "SERVER_ERROR"}
Messages == States \cup {"cookie", "json", "half"}

TypeOK ==
  /\ spc \in ServerPC
  /\ sstate \in States
  /\ ctrl \in Conns \cup {NoConn}
  /\ cookie \in Clients \cup {NoConn}
  /\ acc \in Conns \cup {NoConn}
  /\ accepted \in 0..NumStreams
  /\ streams \in SUBSET Conns
  /\ reverse \in BOOLEAN
  /\ backlog \in Seq(Conns)
  /\ cpc \in [Clients -> ClientPC]
  /\ cstate \in [Clients -> States]
  /\ next \in [Clients -> 1..(NumStreams + 1)]
  /\ reading \in [Clients -> 0..NumStreams]
  /\ cEnd \in [Conns -> {"none", "open", "closed"}]
  /\ sEnd \in [Conns -> {"none", "backlog", "open", "closed"}]
  /\ up \in [Conns -> Seq(Messages)]
  /\ down \in [Conns -> Seq(Messages)]

Init ==
  /\ spc = "start" /\ sstate = "IPERF_START"
  /\ ctrl = NoConn /\ cookie = NoConn /\ acc = NoConn
  /\ accepted = 0 /\ streams = {} /\ reverse = FALSE
  /\ backlog = <<>>
  /\ cpc = [c \in Clients |-> "init"]
  /\ cstate = [c \in Clients |-> "IPERF_START"]
  /\ next = [c \in Clients |-> 1] /\ reading = [c \in Clients |-> 0]
  /\ cEnd = [k \in Conns |-> "none"] /\ sEnd = [k \in Conns |-> "none"]
  /\ up = [k \in Conns |-> <<>>] /\ down = [k \in Conns |-> <<>>]

-----------------------------------------------------------------------------
(* Sockets *)

\* A write succeeds while the peer is there; after the peer has closed, the
\* bytes are lost or the write fails (Nwrite returns NET_HARDERROR).
SendDown(k, m) ==
  down' = IF cEnd[k] = "open" THEN [down EXCEPT ![k] = Append(@, m)] ELSE down
SendUp(k, m) ==
  up' = IF sEnd[k] \in {"backlog", "open"}
        THEN [up EXCEPT ![k] = Append(@, m)] ELSE up
DownFails(k) == cEnd[k] = "closed"
UpFails(k)   == sEnd[k] = "closed"

UpIs(k, m)   == up[k] # <<>> /\ Head(up[k]) = m
DownIs(k, m) == down[k] # <<>> /\ Head(down[k]) = m
UpEOF(k)     == up[k] = <<>> /\ cEnd[k] = "closed"
DownEOF(k)   == down[k] = <<>> /\ sEnd[k] = "closed"
PopUp(k)     == up' = [up EXCEPT ![k] = Tail(@)]
PopDown(k)   == down' = [down EXCEPT ![k] = Tail(@)]

\* JSON_read and the cookie read want more than one byte: what is not the
\* document it expects only ends the read once the peer has closed.
BadUp(k, m)   == cEnd[k] = "closed" /\ ~UpIs(k, m)
BadDown(k, m) == sEnd[k] = "closed" /\ ~DownIs(k, m)

CloseServer(S) == sEnd' = [k \in Conns |-> IF k \in S THEN "closed" ELSE sEnd[k]]
CloseClient(S) == cEnd' = [k \in Conns |-> IF k \in S /\ cEnd[k] = "open"
                                           THEN "closed" ELSE cEnd[k]]
Waiting == {k \in Conns : sEnd[k] = "backlog"}

Listening == spc \notin {"start", "dead"}

-----------------------------------------------------------------------------
(* The server *)

\* The end of a session: cleanup_server closes the control socket and the
\* listener (and so resets what waits on it), iperf_reset_test forgets the
\* rest; also is what the handler itself has closed.  Stream sockets that no
\* handler closed stay open.
EndSession(also) ==
  /\ spc' = "start" /\ sstate' = "IPERF_START"
  /\ ctrl' = NoConn /\ cookie' = NoConn /\ acc' = NoConn
  /\ accepted' = 0 /\ streams' = {} /\ reverse' = FALSE
  /\ backlog' = <<>>
  /\ CloseServer({ctrl} \cup Waiting \cup also)

Abort == EndSession({}) /\ UNCHANGED <<clientVars, cEnd, up, down>>

\* The server process is gone: the kernel closes every socket it had.
ServerExit ==
  /\ spc' = "dead"
  /\ backlog' = <<>>
  /\ CloseServer({k \in Conns : sEnd[k] \in {"backlog", "open"}})
  /\ UNCHANGED <<sstate, ctrl, cookie, acc, accepted, streams, reverse,
                 clientVars, cEnd, up>>

\* A write on a connection the client has closed may fail, which ends the
\* session; the SIGPIPE that comes with it is ignored or kills the process.
\* The first write after an orderly close does not fail, so on a connection
\* nothing was written to before it takes the fault "reset".
WriteFails(k, also) ==
  /\ cEnd[k] = "closed"
  /\ \/ EndSession(also) /\ UNCHANGED <<clientVars, cEnd, up, down>>
     \/ "sigpipe" \in Faults /\ ServerExit /\ UNCHANGED down

\* A read on a connection the client has reset fails.
ReadFails(k) == "reset" \in Faults /\ cEnd[k] = "closed" /\ Abort

\* iperf_run_server up to its loop; if iperf_server_listen fails, it returns
\* -2 and run() exits.
ServerListen ==
  /\ spc = "start"
  /\ \/ spc' = "select"
     \/ "listen" \in Faults /\ spc' = "dead"
  /\ UNCHANGED <<sstate, ctrl, cookie, acc, accepted, streams, reverse,
                 clientVars, netVars>>

\* Mistake: a new client takes the place of the one that is there.
AcceptAnyClient ==
  /\ spc = "select" /\ backlog # <<>> /\ sstate # "CREATE_STREAMS"
  /\ spc' = "cookie"
  /\ ctrl' = Head(backlog)
  /\ backlog' = Tail(backlog)
  /\ sEnd' = [sEnd EXCEPT ![Head(backlog)] = "open"]
  /\ UNCHANGED <<sstate, cookie, acc, accepted, streams, reverse, clientVars,
                 cEnd, up, down>>

\* iperf_accept with no client: the connection becomes ctrl_sck.
AcceptClient ==
  /\ spc = "select" /\ backlog # <<>>
  /\ sstate # "CREATE_STREAMS" /\ ctrl = NoConn
  /\ spc' = "cookie"
  /\ ctrl' = Head(backlog)
  /\ backlog' = Tail(backlog)
  /\ sEnd' = [sEnd EXCEPT ![Head(backlog)] = "open"]
  /\ UNCHANGED <<sstate, cookie, acc, accepted, streams, reverse, clientVars,
                 cEnd, up, down>>

\* iperf_accept during a test: ACCESS_DENIED and close.
AcceptBusy ==
  /\ spc = "select" /\ backlog # <<>>
  /\ sstate # "CREATE_STREAMS" /\ ctrl # NoConn
  /\ \/ /\ SendDown(Head(backlog), "ACCESS_DENIED")
        /\ CloseServer({Head(backlog)})
        /\ backlog' = Tail(backlog)
        /\ UNCHANGED <<serverVars, clientVars, cEnd, up>>
     \/ "reset" \in Faults /\ WriteFails(Head(backlog), {})

\* iperf_accept after accept(): Nread of the cookie, then PARAM_EXCHANGE.  A
\* cookie cut short by end of file is taken as it is.
ReadCookie ==
  /\ spc = "cookie"
  /\ \/ /\ \/ UpIs(ctrl, "cookie") /\ cookie' = ctrl[1]
           \/ BadUp(ctrl, "cookie") /\ cookie' = NoConn
        /\ up' = [up EXCEPT ![ctrl] = IF @ = <<>> THEN @ ELSE Tail(@)]
        /\ SendDown(ctrl, "PARAM_EXCHANGE")
        /\ sstate' = "PARAM_EXCHANGE" /\ spc' = "params"
        /\ UNCHANGED <<ctrl, acc, accepted, streams, reverse, clientVars,
                       backlog, cEnd, sEnd>>
     \/ WriteFails(ctrl, {})
     \/ ReadFails(ctrl)

\* The listener is closed and opened again with the client's options.
Reopen ==
  IF Relisten THEN backlog' = <<>> /\ CloseServer(Waiting)
              ELSE UNCHANGED <<backlog, sEnd>>

\* get_parameters, then iperf_tcp_listen, then CREATE_STREAMS.  What is not a
\* JSON document ends the session; a listener that cannot be opened does so
\* after SERVER_ERROR was sent.
ReadParams ==
  /\ spc = "params"
  /\ \/ /\ UpIs(ctrl, "json") /\ PopUp(ctrl)
        /\ SendDown(ctrl, "CREATE_STREAMS")
        /\ sstate' = "CREATE_STREAMS" /\ spc' = "select"
        /\ reverse' = (ctrl[1] \in Reversed)
        /\ Reopen
        /\ UNCHANGED <<ctrl, cookie, acc, accepted, streams, clientVars, cEnd>>
     \/ /\ UpIs(ctrl, "json") /\ PopUp(ctrl)
        /\ Relisten /\ "listen" \in Faults
        /\ SendDown(ctrl, "SERVER_ERROR")
        /\ EndSession({})
        /\ UNCHANGED <<clientVars, cEnd>>
     \/ UpIs(ctrl, "json") /\ WriteFails(ctrl, {})
     \/ BadUp(ctrl, "json") /\ Abort

\* iperf_run_server in CREATE_STREAMS: iperf_tcp_accept takes the next
\* connection, whoever made it.
AcceptStream ==
  /\ spc = "select" /\ backlog # <<>> /\ sstate = "CREATE_STREAMS"
  /\ spc' = "streamCookie"
  /\ acc' = Head(backlog)
  /\ backlog' = Tail(backlog)
  /\ sEnd' = [sEnd EXCEPT ![Head(backlog)] = "open"]
  /\ UNCHANGED <<sstate, ctrl, cookie, accepted, streams, reverse, clientVars,
                 cEnd, up, down>>

\* Mistakes: TEST_START is left out; iperf_tcp_accept does not compare the
\* cookies.
NewStreamRuns ==
  /\ UpIs(acc, "cookie") /\ acc[1] = cookie
  /\ PopUp(acc)
  /\ streams' = streams \cup {acc}
  /\ accepted' = accepted + 1
  /\ acc' = NoConn
  /\ IF accepted + 1 = NumStreams
       THEN /\ sstate' = "TEST_RUNNING" /\ spc' = "select"
            /\ SendDown(ctrl, "TEST_RUNNING")
            /\ Reopen
       ELSE /\ spc' = "select"
            /\ UNCHANGED <<sstate, backlog, sEnd, down>>
  /\ UNCHANGED <<ctrl, cookie, reverse, clientVars, cEnd>>
NewStreamAnyCookie ==
  /\ UpIs(acc, "cookie") /\ PopUp(acc)
  /\ streams' = streams \cup {acc}
  /\ accepted' = accepted + 1
  /\ acc' = NoConn
  /\ IF accepted + 1 = NumStreams
       THEN /\ sstate' = "TEST_START" /\ spc' = "starting"
            /\ SendDown(ctrl, "TEST_START")
            /\ Reopen
       ELSE /\ spc' = "select"
            /\ UNCHANGED <<sstate, backlog, sEnd, down>>
  /\ UNCHANGED <<ctrl, cookie, reverse, clientVars, cEnd>>

\* A stream whose cookie matches: iperf_new_stream, and after the last one
\* TEST_START (with the listener opened again if it was replaced).
NewStream ==
  /\ UpIs(acc, "cookie") /\ acc[1] = cookie
  /\ PopUp(acc)
  /\ streams' = streams \cup {acc}
  /\ accepted' = accepted + 1
  /\ acc' = NoConn
  /\ IF accepted + 1 = NumStreams
       THEN /\ sstate' = "TEST_START" /\ spc' = "starting"
            /\ SendDown(ctrl, "TEST_START")
            /\ Reopen
       ELSE /\ spc' = "select"
            /\ UNCHANGED <<sstate, backlog, sEnd, down>>
  /\ UNCHANGED <<ctrl, cookie, reverse, clientVars, cEnd>>

\* Mistakes: iperf_run_server counts the connection that was denied; it takes
\* the denial for an error.
DenyStreamCounts ==
  /\ UpIs(acc, "cookie") /\ acc[1] # cookie
  /\ up' = [up EXCEPT ![acc] = <<>>]
  /\ SendDown(acc, "ACCESS_DENIED")
  /\ CloseServer({acc})
  /\ acc' = NoConn /\ spc' = "select" /\ accepted' = accepted + 1
  /\ UNCHANGED <<sstate, ctrl, cookie, streams, reverse, clientVars, backlog,
                 cEnd>>
DenyStreamAborts ==
  /\ UpIs(acc, "cookie") /\ acc[1] # cookie
  /\ SendDown(acc, "ACCESS_DENIED")
  /\ EndSession({acc})
  /\ UNCHANGED <<clientVars, cEnd, up>>

\* A cookie that does not match: ACCESS_DENIED and close.
DenyStream ==
  /\ \/ UpIs(acc, "cookie") /\ acc[1] # cookie
     \/ BadUp(acc, "cookie")
  /\ up' = [up EXCEPT ![acc] = <<>>]
  /\ SendDown(acc, "ACCESS_DENIED")
  /\ CloseServer({acc})
  /\ acc' = NoConn /\ spc' = "select"
  /\ UNCHANGED <<sstate, ctrl, cookie, accepted, streams, reverse, clientVars,
                 backlog, cEnd>>

\* iperf_tcp_accept after accept(), and what iperf_run_server does with the
\* socket.  On an error the socket just accepted is not closed.
ReadStreamCookie ==
  /\ spc = "streamCookie"
  /\ \/ NewStream
     \/ DenyStream
     \/ UpIs(acc, "cookie") /\ acc[1] = cookie
          /\ accepted + 1 = NumStreams /\ WriteFails(ctrl, {})
     \/ ~(UpIs(acc, "cookie") /\ acc[1] = cookie)
          /\ "reset" \in Faults /\ WriteFails(acc, {})
     \/ ReadFails(acc)

\* iperf_init_test, the timers, then TEST_RUNNING.
StartTest ==
  /\ spc = "starting"
  /\ \/ /\ sstate' = "TEST_RUNNING" /\ spc' = "select"
        /\ SendDown(ctrl, "TEST_RUNNING")
        /\ UNCHANGED <<ctrl, cookie, acc, accepted, streams, reverse,
                       clientVars, backlog, cEnd, sEnd, up>>
     \/ WriteFails(ctrl, {})

\* iperf_send in reverse mode: half a block on some stream, while the socket
\* takes it.
SendData ==
  /\ spc = "select" /\ sstate = "TEST_RUNNING" /\ reverse
  /\ \E k \in streams :
       \/ /\ cEnd[k] = "open" /\ Len(down[k]) < DataCap
          /\ SendDown(k, "half")
          /\ UNCHANGED <<serverVars, clientVars, backlog, cEnd, sEnd, up>>
       \/ WriteFails(k, {})

\* iperf_recv otherwise: what arrives is read and counted, and a stream the
\* client has reset ends the session.
RecvData ==
  /\ spc = "select" /\ sstate = "TEST_RUNNING" /\ ~reverse
  /\ \E k \in streams : ReadFails(k)

\* Mistakes: the streams stay open until the results are in; the new state is
\* sent but not entered.
TestEndKeepsStreams ==
  /\ UpIs(ctrl, "TEST_END") /\ PopUp(ctrl)
  /\ sstate' = "EXCHANGE_RESULTS" /\ spc' = "results"
  /\ SendDown(ctrl, "EXCHANGE_RESULTS")
  /\ UNCHANGED <<ctrl, cookie, acc, accepted, streams, reverse, clientVars,
                 backlog, cEnd, sEnd>>
TestEndKeepsState ==
  /\ UpIs(ctrl, "TEST_END") /\ PopUp(ctrl)
  /\ CloseServer(streams)
  /\ spc' = "results"
  /\ SendDown(ctrl, "EXCHANGE_RESULTS")
  /\ UNCHANGED <<sstate, ctrl, cookie, acc, accepted, streams, reverse,
                 clientVars, backlog, cEnd>>

\* TEST_END in iperf_handle_message_server: the streams are closed before the
\* results are asked for.
HandleTestEnd ==
  /\ UpIs(ctrl, "TEST_END")
  /\ \/ /\ PopUp(ctrl)
        /\ CloseServer(streams)
        /\ sstate' = "EXCHANGE_RESULTS" /\ spc' = "results"
        /\ SendDown(ctrl, "EXCHANGE_RESULTS")
        /\ UNCHANGED <<ctrl, cookie, acc, accepted, streams, reverse,
                       clientVars, backlog, cEnd>>
     \/ WriteFails(ctrl, streams)

\* Mistake: end of file is not told from an empty read.
HandleLastNoEOF ==
  /\ UpIs(ctrl, "IPERF_DONE") \/ UpIs(ctrl, "CLIENT_TERMINATE")
  /\ PopUp(ctrl) /\ EndSession({})
  /\ UNCHANGED <<clientVars, cEnd, down>>

\* IPERF_DONE and CLIENT_TERMINATE leave the loop, the second after closing
\* the streams; so do end of file, and with an error a message that is not in
\* the switch.
HandleLast ==
  /\ \/ /\ UpIs(ctrl, "CLIENT_TERMINATE") /\ PopUp(ctrl) /\ EndSession(streams)
     \/ /\ up[ctrl] # <<>>
        /\ Head(up[ctrl]) \notin {"TEST_START", "TEST_END", "CLIENT_TERMINATE"}
        /\ PopUp(ctrl) /\ EndSession({})
     \/ /\ UpEOF(ctrl) /\ UNCHANGED up /\ EndSession({})
  /\ UNCHANGED <<clientVars, cEnd, down>>

HandleMessageServer ==
  /\ spc = "select" /\ ctrl # NoConn
  /\ HandleTestEnd \/ HandleLast

\* iperf_exchange_results on the server: get_results, then send_results.
ReadResults ==
  /\ spc = "results"
  /\ \/ /\ UpIs(ctrl, "json") /\ PopUp(ctrl)
        /\ SendDown(ctrl, "json")
        /\ spc' = "display"
        /\ UNCHANGED <<sstate, ctrl, cookie, acc, accepted, streams, reverse,
                       clientVars, backlog, cEnd, sEnd>>
     \/ UpIs(ctrl, "json") /\ WriteFails(ctrl, {})
     \/ BadUp(ctrl, "json") /\ Abort

SendDisplay ==
  /\ spc = "display"
  /\ \/ /\ sstate' = "DISPLAY_RESULTS" /\ spc' = "select"
        /\ SendDown(ctrl, "DISPLAY_RESULTS")
        /\ UNCHANGED <<ctrl, cookie, acc, accepted, streams, reverse,
                       clientVars, backlog, cEnd, sEnd, up>>
     \/ WriteFails(ctrl, {})

\* iperf_got_sigend on the server, and a server that is killed.
ServerSignal ==
  /\ "serverSignal" \in Faults /\ spc # "dead"
  /\ IF ctrl # NoConn THEN SendDown(ctrl, "SERVER_TERMINATE")
                      ELSE UNCHANGED down
  /\ ServerExit
ServerCrash ==
  "serverCrash" \in Faults /\ spc # "dead" /\ ServerExit /\ UNCHANGED down

ServerStep ==
  \/ ServerListen \/ AcceptClient \/ AcceptBusy \/ ReadCookie \/ ReadParams
  \/ AcceptStream \/ ReadStreamCookie \/ StartTest \/ SendData \/ RecvData
  \/ HandleMessageServer \/ ReadResults \/ SendDisplay

-----------------------------------------------------------------------------
(* The client *)

Of(c) == {k \in Conns : k[1] = c}
Finished(c) == cpc[c] \in {"done", "failed", "killed"}

At(c, pc)   == cpc[c] = pc
Goto(c, pc) == cpc' = [cpc EXCEPT ![c] = pc]
Enter(c, m) == cstate' = [cstate EXCEPT ![c] = m]

\* run() after an error: iperf_errexit exits the process, except under JNI,
\* where the sockets stay open.
ClientFails(c) ==
  /\ Goto(c, "failed")
  /\ CloseClient(IF c \in Jni THEN {} ELSE Of(c))
  /\ UNCHANGED <<serverVars, cstate, next, reading, backlog, sEnd, up, down>>

\* iperf_connect: the control connection, then the cookie.
Connect(c) ==
  /\ At(c, "init")
  /\ IF Listening
       THEN /\ Goto(c, "cookie")
            /\ cEnd' = [cEnd EXCEPT ![Ctrl(c)] = "open"]
            /\ sEnd' = [sEnd EXCEPT ![Ctrl(c)] = "backlog"]
            /\ backlog' = Append(backlog, Ctrl(c))
            /\ UNCHANGED <<serverVars, cstate, next, reading, up, down>>
       ELSE ClientFails(c)
SendCookie(c) ==
  /\ At(c, "cookie")
  /\ \/ /\ SendUp(Ctrl(c), "cookie") /\ Goto(c, "select")
        /\ UNCHANGED <<serverVars, cstate, next, reading, backlog, cEnd, sEnd, down>>
     \/ UpFails(Ctrl(c)) /\ ClientFails(c)

\* The switch of iperf_handle_message_client, by what a message leads to:
\* a reply, a local step, the end of the client, or an error.
Reply(c, m, reply, pc) ==
  /\ DownIs(Ctrl(c), m) /\ PopDown(Ctrl(c))
  /\ Enter(c, m) /\ Goto(c, pc)
  /\ SendUp(Ctrl(c), reply)
  /\ UNCHANGED <<serverVars, next, reading, backlog, cEnd, sEnd>>

HandleExchange(c) ==
  \/ Reply(c, "PARAM_EXCHANGE", "json", "select")
  \/ Reply(c, "EXCHANGE_RESULTS", "json", "results")
  \/ /\ DownIs(Ctrl(c), "PARAM_EXCHANGE") \/ DownIs(Ctrl(c), "EXCHANGE_RESULTS")
     /\ UpFails(Ctrl(c)) /\ ClientFails(c)

HandleStart(c) ==
  /\ \/ DownIs(Ctrl(c), "CREATE_STREAMS") /\ Goto(c, "connect")
     \/ DownIs(Ctrl(c), "TEST_START") /\ UNCHANGED cpc
     \/ DownIs(Ctrl(c), "TEST_RUNNING") /\ UNCHANGED cpc
  /\ PopDown(Ctrl(c))
  /\ Enter(c, Head(down[Ctrl(c)]))
  /\ UNCHANGED <<serverVars, next, reading, backlog, cEnd, sEnd, up>>

\* DISPLAY_RESULTS: iperf_client_end closes the streams and sends IPERF_DONE
\* (whether or not that works, the loop ends); main then exits.
HandleDisplay(c) ==
  /\ DownIs(Ctrl(c), "DISPLAY_RESULTS") /\ PopDown(Ctrl(c))
  /\ SendUp(Ctrl(c), "IPERF_DONE")
  /\ Enter(c, "IPERF_DONE") /\ Goto(c, "done")
  /\ CloseClient(IF c \in Jni THEN Data(c) ELSE Of(c))
  /\ UNCHANGED <<serverVars, next, reading, backlog, sEnd>>

HandleError(c) ==
  /\ \/ DownEOF(Ctrl(c))
     \/ \E m \in {"ACCESS_DENIED", "SERVER_TERMINATE", "SERVER_ERROR", "json"} :
          DownIs(Ctrl(c), m)
  /\ ClientFails(c)

HandleMessageClient(c) ==
  /\ At(c, "select")
  /\ HandleExchange(c) \/ HandleStart(c) \/ HandleDisplay(c) \/ HandleError(c)

\* iperf_create_streams: one connection after the other, each with the
\* cookie, and no look at the control connection in between.
ConnectStream(c) ==
  /\ At(c, "connect") /\ next[c] <= NumStreams
  /\ IF Listening
       THEN /\ Goto(c, "streamCookie")
            /\ cEnd' = [cEnd EXCEPT ![<<c, next[c]>>] = "open"]
            /\ sEnd' = [sEnd EXCEPT ![<<c, next[c]>>] = "backlog"]
            /\ backlog' = Append(backlog, <<c, next[c]>>)
            /\ UNCHANGED <<serverVars, cstate, next, reading, up, down>>
       ELSE ClientFails(c)
SendStreamCookie(c) ==
  /\ At(c, "streamCookie")
  /\ \/ /\ SendUp(<<c, next[c]>>, "cookie")
        /\ Goto(c, IF next[c] = NumStreams THEN "select" ELSE "connect")
        /\ next' = [next EXCEPT ![c] = @ + 1]
        /\ UNCHANGED <<serverVars, cstate, reading, backlog, cEnd, sEnd, down>>
     \/ UpFails(<<c, next[c]>>) /\ ClientFails(c)

\* get_results after EXCHANGE_RESULTS.
ClientResults(c) ==
  /\ At(c, "results")
  /\ \/ /\ DownIs(Ctrl(c), "json") /\ PopDown(Ctrl(c)) /\ Goto(c, "select")
        /\ UNCHANGED <<serverVars, cstate, next, reading, backlog, cEnd, sEnd, up>>
     \/ BadDown(Ctrl(c), "json") /\ ClientFails(c)

\* The time or the amount is used up: TEST_END.
EndTest(c) ==
  /\ At(c, "select") /\ cstate[c] = "TEST_RUNNING"
  /\ \/ /\ SendUp(Ctrl(c), "TEST_END") /\ Enter(c, "TEST_END")
        /\ UNCHANGED <<serverVars, cpc, next, reading, backlog, cEnd, sEnd, down>>
     \/ UpFails(Ctrl(c)) /\ ClientFails(c)

\* iperf_recv in a running reverse test: the sockets do not block.
ReceiveData(c) ==
  /\ At(c, "select") /\ cstate[c] = "TEST_RUNNING" /\ c \in Reversed
  /\ \E k \in Data(c) :
       /\ down[k] # <<>>
       /\ down' = [down EXCEPT ![k] = <<>>]
  /\ UNCHANGED <<serverVars, clientVars, backlog, cEnd, sEnd, up>>

\* iperf_send in a running test fails once the server has closed the stream.
SendDataFails(c) ==
  /\ At(c, "select") /\ cstate[c] = "TEST_RUNNING" /\ c \notin Reversed
  /\ \E k \in Data(c) : UpFails(k)
  /\ ClientFails(c)

\* iperf_recv after TEST_END: the sockets block again, so a read that has
\* begun goes on until a whole block or end of file.
BeginDrain(c) ==
  /\ At(c, "select") /\ cstate[c] = "TEST_END" /\ c \in Reversed
  /\ \E k \in Data(c) : down[k] # <<>> /\ reading' = [reading EXCEPT ![c] = k[2]]
  /\ Goto(c, "drain")
  /\ UNCHANGED <<serverVars, cstate, next, netVars>>
Drain(c) ==
  /\ At(c, "drain")
  /\ LET k == <<c, reading[c]>> IN
       \/ /\ Len(down[k]) >= 2
          /\ down' = [down EXCEPT ![k] = SubSeq(@, 3, Len(@))]
       \/ /\ Len(down[k]) < 2 /\ sEnd[k] = "closed"
          /\ down' = [down EXCEPT ![k] = <<>>]
  /\ Goto(c, "select")
  /\ reading' = [reading EXCEPT ![c] = 0]
  /\ UNCHANGED <<serverVars, cstate, next, backlog, cEnd, sEnd, up>>

\* iperf_got_sigend on the client (run from the shell, not through JNI).
ClientSignal(c) ==
  /\ "signal" \in Faults /\ c \notin Jni /\ ~Finished(c)
  /\ Goto(c, "killed")
  /\ IF cEnd[Ctrl(c)] = "open" THEN SendUp(Ctrl(c), "CLIENT_TERMINATE")
                               ELSE UNCHANGED up
  /\ CloseClient(Of(c))
  /\ UNCHANGED <<serverVars, cstate, next, reading, backlog, sEnd, down>>

\* The client process, or the app it runs in, dies: every socket is closed.
ClientCrash(c) ==
  /\ "crash" \in Faults
  /\ ~Finished(c) \/ (c \in Jni /\ cpc[c] # "killed")
  /\ Goto(c, "killed")
  /\ CloseClient(Of(c))
  /\ UNCHANGED <<serverVars, cstate, next, reading, backlog, sEnd, up, down>>

ClientStep(c) ==
  \/ Connect(c) \/ SendCookie(c) \/ HandleMessageClient(c) \/ ConnectStream(c)
  \/ SendStreamCookie(c) \/ ClientResults(c) \/ EndTest(c) \/ ReceiveData(c)
  \/ SendDataFails(c) \/ BeginDrain(c) \/ Drain(c)

\* Every test is over and the server waits for the next one, or is gone.
Quiescent ==
  /\ \A c \in Clients : Finished(c)
  /\ spc = "dead" \/ (spc = "select" /\ ctrl = NoConn /\ backlog = <<>>)

Next ==
  \/ ServerStep \/ ServerSignal \/ ServerCrash
  \/ \E c \in Clients : ClientStep(c) \/ ClientSignal(c) \/ ClientCrash(c)
  \/ Quiescent /\ UNCHANGED vars

Spec == Init /\ [][Next]_vars

\* Each process runs as long as it has something to do: select wakes it up,
\* and its loops look at the listener and the control socket every time.
\* SendData, ReceiveData and SendDataFails depend on traffic and are not fair.
ServerReact ==
  \/ ServerListen \/ AcceptClient \/ AcceptBusy \/ ReadCookie \/ ReadParams
  \/ AcceptStream \/ ReadStreamCookie \/ StartTest \/ HandleMessageServer
  \/ ReadResults \/ SendDisplay
ClientReact(c) ==
  \/ Connect(c) \/ SendCookie(c) \/ HandleMessageClient(c) \/ ConnectStream(c)
  \/ SendStreamCookie(c) \/ ClientResults(c) \/ EndTest(c) \/ BeginDrain(c)
  \/ Drain(c)
FairSpec ==
  Spec /\ WF_vars(ServerReact) /\ \A c \in Clients : WF_vars(ClientReact(c))

-----------------------------------------------------------------------------
(* Safety *)

\* Every stream of the running session was opened by the client whose cookie
\* came over the control connection: a connection of somebody else that
\* iperf_tcp_accept takes during CREATE_STREAMS never becomes a stream.
OwnStreams ==
  \A k \in streams : ctrl # NoConn /\ k[1] = cookie /\ ctrl[1] = cookie

\* Nobody is told that the test runs before the server has accepted every
\* stream: streams_accepted counts streams, not connections.
StartedIsComplete ==
  /\ spc = "starting" \/ sstate = "TEST_RUNNING" =>
       Cardinality(streams) = NumStreams
  /\ \A c \in Clients :
       cstate[c] \in {"TEST_START", "TEST_RUNNING", "TEST_END"} =>
         \A k \in Data(c) : sEnd[k] \in {"open", "closed"}

\* Two clients are never both in a test with this server: a client that got
\* past the parameter exchange, and whose control connection the server has
\* not closed, is the one behind ctrl_sck.
InTest(c) ==
  /\ cstate[c] \notin {"IPERF_START", "IPERF_DONE"} /\ ~Finished(c)
  /\ sEnd[Ctrl(c)] = "open"
OneTest == \A c \in Clients : InTest(c) => ctrl = Ctrl(c)

\* The client follows the server: it is never in a later phase of the test,
\* so when it displays results the server has read and sent them.
Phase == [m \in States |->
  CASE m = "PARAM_EXCHANGE" -> 1 [] m = "CREATE_STREAMS" -> 2
    [] m = "TEST_START" -> 3 [] m = "TEST_RUNNING" -> 4 [] m = "TEST_END" -> 4
    [] m = "EXCHANGE_RESULTS" -> 5 [] m \in {"DISPLAY_RESULTS", "IPERF_DONE"} -> 6
    [] OTHER -> 0]
ClientFollows ==
  \A c \in Clients :
    ctrl = Ctrl(c) /\ sEnd[ctrl] = "open" => Phase[cstate[c]] <= Phase[sstate]

\* A session of the server ends only because its own client is finished or
\* gone: denying another connection is not an error (iperf_util.c, is_closed).
OnlyOwnClientEndsSession ==
  [][ctrl # NoConn /\ ctrl' = NoConn =>
       cEnd[ctrl] = "closed" \/ UpIs(ctrl, "IPERF_DONE")]_vars

\* Between two sessions the server has no stream socket open: cleanup_server
\* says it closes open test sockets.
NoStreamLeft ==
  spc = "start" => \A k \in Conns : sEnd[k] # "open"

-----------------------------------------------------------------------------
(* Liveness *)

\* Every client's run ends, whatever it meets.
TestsEnd == \A c \in Clients : <>Finished(c)

\* A client the server has admitted ends its test with both results, unless
\* it is killed, whatever happens meanwhile to the clients that knock.
Succeeds(c) == (ctrl = Ctrl(c)) ~> (cpc[c] \in {"done", "killed"})
AdmittedSucceeds == \A c \in Clients : Succeeds(c)

\* The server always comes back to where it admits a client.
ServerComesBack == []<>(Listening /\ ctrl = NoConn)

-----------------------------------------------------------------------------
(* What the protocol promises *)

\* The phases a client was told of: those it has entered and those of the
\* messages that wait on its control connection.
PhaseOf(m) == IF m \in States THEN Phase[m] ELSE 0
Told(c) ==
  {n \in 1..6 :
     \/ n <= Phase[cstate[c]]
     \/ \E i \in DOMAIN down[Ctrl(c)] : PhaseOf(down[Ctrl(c)][i]) = n}
Outcome(c) ==
  CASE cpc[c] = "done" -> "success" [] cpc[c] = "failed" -> "failure"
    [] cpc[c] = "killed" -> "killed" [] OTHER -> "none"

\* A data connection that comes after its session has ended is taken for a
\* control connection: then the server is busy and serves nobody.
Serving == IF spc # "dead" /\ \E c \in Clients : ctrl = Ctrl(c)
           THEN ctrl[1] ELSE NoConn

Session == INSTANCE TestSession WITH
  NoClient <- NoConn,
  serving  <- Serving,
  told     <- [c \in Clients |-> Told(c)],
  seen     <- [c \in Clients |-> Phase[cstate[c]]],
  outcome  <- [c \in Clients |-> Outcome(c)]

\* The handlers, the messages they exchange and the ways they fail implement
\* the session a client is promised: one client at a time, every phase after
\* the one before it, and success only at the end.
ImplementsSession == Session!Spec
=============================================================================
