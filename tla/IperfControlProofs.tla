-------------------------- MODULE IperfControlProofs --------------------------
(***************************************************************************)
(* Proofs about the control protocol, for any clients, any number of       *)
(* streams and any faults: its types, and that a session only ever holds   *)
(* streams of the client it belongs to.                                    *)
(***************************************************************************)
EXTENDS IperfControl, TLAPS

-----------------------------------------------------------------------------
(* The inductive invariant *)

ServerTypes ==
  /\ spc \in ServerPC
  /\ sstate \in States
  /\ ctrl \in Conns \cup {NoConn}
  /\ cookie \in Clients \cup {NoConn}
  /\ acc \in Conns \cup {NoConn}
  /\ accepted \in 0..NumStreams
  /\ streams \in SUBSET Conns
  /\ reverse \in BOOLEAN

ClientTypes ==
  /\ cpc \in [Clients -> ClientPC]
  /\ cstate \in [Clients -> States]
  /\ next \in [Clients -> 1..(NumStreams + 1)]
  /\ reading \in [Clients -> 0..NumStreams]

NetTypes ==
  /\ backlog \in Seq(Conns)
  /\ cEnd \in [Conns -> {"none", "open", "closed"}]
  /\ sEnd \in [Conns -> {"none", "backlog", "open", "closed"}]
  /\ up \in [Conns -> Seq(Messages)]
  /\ down \in [Conns -> Seq(Messages)]

\* The cookie is that of the client behind ctrl_sck.
OwnCookie == cookie # NoConn => ctrl # NoConn /\ ctrl[1] = cookie

\* Without a control connection the server is between two sessions.
NoSession ==
  ctrl = NoConn => /\ accepted = 0 /\ sstate = "IPERF_START"
                   /\ spc \in {"start", "select", "dead"}

\* What the server knows where it is blocked in a handler.
Blocked ==
  /\ spc = "cookie" => cookie = NoConn /\ streams = {}
  /\ spc \in {"cookie", "params"} => accepted = 0
  /\ spc = "streamCookie" => acc \in Conns /\ sstate = "CREATE_STREAMS"
  /\ sstate = "CREATE_STREAMS" => accepted < NumStreams

ServerInv == ServerTypes /\ OwnStreams /\ OwnCookie /\ NoSession /\ Blocked

ClientInv ==
  /\ ClientTypes
  /\ \A c \in Clients : cpc[c] = "streamCookie" => next[c] <= NumStreams

Inv == ServerInv /\ ClientInv /\ NetTypes

LEMMA TypeParts == TypeOK <=> ServerTypes /\ ClientTypes /\ NetTypes
BY DEF TypeOK, ServerTypes, ClientTypes, NetTypes

-----------------------------------------------------------------------------
(* Connections *)

LEMMA Numbers == NumStreams \in Nat /\ NumStreams >= 1 /\ 0 \in 0..NumStreams
BY ControlAssumption

LEMMA CtrlConn ==
  ASSUME NEW c \in Clients
  PROVE  Ctrl(c) \in Conns /\ Data(c) \subseteq Conns /\ Of(c) \subseteq Conns
BY ControlAssumption DEF Ctrl, Data, Of, Conns

LEMMA NoConnOther == NoConn \notin Conns /\ NoConn \notin Clients
BY ControlAssumption DEF Conns

LEMMA ConnParts ==
  ASSUME NEW k \in Conns
  PROVE  k[1] \in Clients /\ k[2] \in 0..NumStreams
BY DEF Conns

LEMMA CloseServerType ==
  ASSUME NetTypes, NEW S, CloseServer(S)
  PROVE  sEnd' \in [Conns -> {"none", "backlog", "open", "closed"}]
BY DEF NetTypes, CloseServer

LEMMA CloseClientType ==
  ASSUME NetTypes, NEW S, CloseClient(S)
  PROVE  cEnd' \in [Conns -> {"none", "open", "closed"}]
BY DEF NetTypes, CloseClient

LEMMA SendDownType ==
  ASSUME NetTypes, NEW k \in Conns, NEW m \in Messages, SendDown(k, m)
  PROVE  down' \in [Conns -> Seq(Messages)]
BY DEF NetTypes, SendDown

LEMMA SendUpType ==
  ASSUME NetTypes, NEW k \in Conns, NEW m \in Messages, SendUp(k, m)
  PROVE  up' \in [Conns -> Seq(Messages)]
BY DEF NetTypes, SendUp

LEMMA PopUpType ==
  ASSUME NetTypes, NEW k \in Conns, up[k] # <<>>, PopUp(k)
  PROVE  up' \in [Conns -> Seq(Messages)]
BY DEF NetTypes, PopUp

LEMMA PopDownType ==
  ASSUME NetTypes, NEW k \in Conns, down[k] # <<>>, PopDown(k)
  PROVE  down' \in [Conns -> Seq(Messages)]
BY DEF NetTypes, PopDown

\* The connection at the head of the backlog.
LEMMA HeadConn ==
  ASSUME NetTypes, backlog # <<>>
  PROVE  Head(backlog) \in Conns /\ Tail(backlog) \in Seq(Conns)
BY DEF NetTypes

LEMMA EmptyBacklog == <<>> \in Seq(Conns)
OBVIOUS

-----------------------------------------------------------------------------
(* The ends of a session *)

LEMMA EndSessionInv ==
  ASSUME Inv, NEW S, EndSession(S)
  PROVE  /\ ServerInv'
         /\ backlog' \in Seq(Conns)
         /\ sEnd' \in [Conns -> {"none", "backlog", "open", "closed"}]
<1>1. sEnd' \in [Conns -> {"none", "backlog", "open", "closed"}]
  BY CloseServerType DEF Inv, EndSession
<1>2. ServerTypes'
  BY ControlAssumption, Numbers DEF EndSession, ServerTypes, ServerPC, States
<1>3. (OwnStreams /\ OwnCookie /\ NoSession /\ Blocked)'
  BY DEF EndSession, OwnStreams, OwnCookie, NoSession, Blocked
<1>4. backlog' \in Seq(Conns)
  BY EmptyBacklog DEF EndSession
<1> QED BY <1>1, <1>2, <1>3, <1>4 DEF ServerInv

LEMMA ServerExitInv ==
  ASSUME Inv, ServerExit, down' \in [Conns -> Seq(Messages)]
  PROVE  Inv'
<1>1. sEnd' \in [Conns -> {"none", "backlog", "open", "closed"}]
  BY CloseServerType DEF Inv, ServerExit
<1>2. ServerInv'
  BY DEF Inv, ServerInv, ServerExit, ServerTypes, ServerPC,
         OwnStreams, OwnCookie, NoSession, Blocked
<1>3. ClientInv'
  BY DEF Inv, ServerExit, ClientInv, ClientTypes, clientVars
<1>4. NetTypes'
  BY <1>1, EmptyBacklog DEF Inv, NetTypes, ServerExit
<1> QED BY <1>2, <1>3, <1>4 DEF Inv

\* A step of the server leaves what belongs to the clients.
LEMMA ClientsStay == ASSUME Inv, UNCHANGED clientVars PROVE ClientInv'
BY DEF Inv, clientVars, ClientInv, ClientTypes

\* And the other way round.
LEMMA ServerStays == ASSUME Inv, UNCHANGED serverVars PROVE ServerInv'
BY DEF Inv, serverVars, ServerInv, ServerTypes, OwnStreams, OwnCookie,
       NoSession, Blocked

LEMMA AbortInv == ASSUME Inv, Abort PROVE Inv'
<1>1. ClientInv'
  BY ClientsStay DEF Abort
<1> QED BY <1>1, EndSessionInv DEF Inv, Abort, NetTypes

LEMMA WriteFailsInv ==
  ASSUME Inv, NEW k, NEW S, WriteFails(k, S) PROVE Inv'
<1>1. CASE EndSession(S) /\ UNCHANGED <<clientVars, cEnd, up, down>>
  <2>1. ClientInv'
    BY <1>1, ClientsStay
  <2> QED BY <1>1, <2>1, EndSessionInv DEF Inv, NetTypes
<1>2. CASE ServerExit /\ UNCHANGED down
  BY <1>2, ServerExitInv DEF Inv, NetTypes
<1> QED BY <1>1, <1>2 DEF WriteFails

LEMMA ReadFailsInv == ASSUME Inv, NEW k, ReadFails(k) PROVE Inv'
BY AbortInv DEF ReadFails

-----------------------------------------------------------------------------
(* The steps of the server *)

\* The listener opened again.
LEMMA ReopenType ==
  ASSUME NetTypes, Reopen
  PROVE  /\ backlog' \in Seq(Conns)
         /\ sEnd' \in [Conns -> {"none", "backlog", "open", "closed"}]
BY CloseServerType, EmptyBacklog DEF Reopen, NetTypes

\* A cell of the server's ends set by a step.
LEMMA ServerEndType ==
  ASSUME NetTypes, NEW k \in Conns, NEW e \in {"backlog", "open"},
         sEnd' = [sEnd EXCEPT ![k] = e]
  PROVE  sEnd' \in [Conns -> {"none", "backlog", "open", "closed"}]
BY DEF NetTypes

LEMMA ListenInv == ASSUME Inv, ServerListen PROVE Inv'
<1>1. ServerInv'
  BY DEF Inv, ServerInv, ServerListen, ServerTypes, ServerPC,
         OwnStreams, OwnCookie, NoSession, Blocked
<1>2. ClientInv'
  BY ClientsStay DEF ServerListen
<1> QED BY <1>1, <1>2 DEF Inv, ServerListen, netVars, NetTypes

LEMMA AcceptClientInv == ASSUME Inv, AcceptClient PROVE Inv'
<1>1. Head(backlog) \in Conns /\ Tail(backlog) \in Seq(Conns)
  BY HeadConn DEF Inv, AcceptClient
<1>2. streams = {} /\ cookie = NoConn /\ accepted = 0
  BY DEF Inv, ServerInv, AcceptClient, OwnStreams, OwnCookie, NoSession
<1>3. ServerInv'
  BY <1>1, <1>2, NoConnOther
  DEF Inv, ServerInv, AcceptClient, ServerTypes, ServerPC,
      OwnStreams, OwnCookie, NoSession, Blocked
<1>4. ClientInv'
  BY ClientsStay DEF AcceptClient
<1>5. NetTypes'
  BY <1>1, ServerEndType DEF Inv, AcceptClient, NetTypes
<1> QED BY <1>3, <1>4, <1>5 DEF Inv

LEMMA AcceptBusyInv == ASSUME Inv, AcceptBusy PROVE Inv'
<1>1. Head(backlog) \in Conns /\ Tail(backlog) \in Seq(Conns)
  BY HeadConn DEF Inv, AcceptBusy
<1>2. CASE "reset" \in Faults /\ WriteFails(Head(backlog), {})
  BY <1>2, WriteFailsInv
<1>3. CASE /\ SendDown(Head(backlog), "ACCESS_DENIED")
           /\ CloseServer({Head(backlog)})
           /\ backlog' = Tail(backlog)
           /\ UNCHANGED <<serverVars, clientVars, cEnd, up>>
  <2>1. ServerInv' /\ ClientInv'
    BY <1>3, ServerStays, ClientsStay
  <2>2. sEnd' \in [Conns -> {"none", "backlog", "open", "closed"}]
    BY <1>3, CloseServerType DEF Inv
  <2>3. down' \in [Conns -> Seq(Messages)]
    <3>1. "ACCESS_DENIED" \in Messages
      BY DEF Messages, States
    <3> QED BY <1>1, <1>3, <3>1, SendDownType DEF Inv
  <2> QED BY <1>1, <1>3, <2>1, <2>2, <2>3 DEF Inv, NetTypes
<1> QED BY <1>2, <1>3 DEF AcceptBusy

LEMMA ReadCookieInv == ASSUME Inv, ReadCookie PROVE Inv'
<1>1. ctrl \in Conns /\ streams = {} /\ accepted = 0 /\ cookie = NoConn
  BY DEF Inv, ServerInv, ReadCookie, ServerTypes, NoSession, Blocked
<1>2. CASE WriteFails(ctrl, {}) \/ ReadFails(ctrl)
  BY <1>2, WriteFailsInv, ReadFailsInv
<1>3. CASE /\ \/ UpIs(ctrl, "cookie") /\ cookie' = ctrl[1]
              \/ BadUp(ctrl, "cookie") /\ cookie' = NoConn
           /\ up' = [up EXCEPT ![ctrl] = IF @ = <<>> THEN @ ELSE Tail(@)]
           /\ SendDown(ctrl, "PARAM_EXCHANGE")
           /\ sstate' = "PARAM_EXCHANGE" /\ spc' = "params"
           /\ UNCHANGED <<ctrl, acc, accepted, streams, reverse, clientVars,
                          backlog, cEnd, sEnd>>
  <2>1. cookie' \in Clients \cup {NoConn} /\ (cookie' # NoConn => cookie' = ctrl[1])
    BY <1>1, <1>3, ConnParts
  <2>2. ServerInv'
    BY <1>1, <1>3, <2>1, NoConnOther
    DEF Inv, ServerInv, ServerTypes, ServerPC, States,
        OwnStreams, OwnCookie, NoSession, Blocked
  <2>3. ClientInv'
    BY <1>3, ClientsStay
  <2>4. up' \in [Conns -> Seq(Messages)]
    BY <1>1, <1>3 DEF Inv, NetTypes
  <2>5. down' \in [Conns -> Seq(Messages)]
    <3>1. "PARAM_EXCHANGE" \in Messages
      BY DEF Messages, States
    <3> QED BY <1>1, <1>3, <3>1, SendDownType DEF Inv
  <2> QED BY <1>3, <2>2, <2>3, <2>4, <2>5 DEF Inv, NetTypes
<1> QED BY <1>2, <1>3 DEF ReadCookie

LEMMA ReadParamsInv == ASSUME Inv, ReadParams PROVE Inv'
<1>1. ctrl \in Conns /\ accepted = 0
  BY DEF Inv, ServerInv, ReadParams, ServerTypes, NoSession, Blocked
<1>2. CASE UpIs(ctrl, "json") /\ WriteFails(ctrl, {})
  BY <1>2, WriteFailsInv
<1>3. CASE BadUp(ctrl, "json") /\ Abort
  BY <1>3, AbortInv
<1>4. ASSUME UpIs(ctrl, "json"), PopUp(ctrl)
      PROVE  up' \in [Conns -> Seq(Messages)]
  BY <1>1, <1>4, PopUpType DEF Inv, UpIs
<1>5. CASE /\ UpIs(ctrl, "json") /\ PopUp(ctrl)
           /\ SendDown(ctrl, "CREATE_STREAMS")
           /\ sstate' = "CREATE_STREAMS" /\ spc' = "select"
           /\ reverse' = (ctrl[1] \in Reversed)
           /\ Reopen
           /\ UNCHANGED <<ctrl, cookie, acc, accepted, streams, clientVars, cEnd>>
  <2>1. ServerInv'
    <3>1. reverse' \in BOOLEAN
      BY <1>5
    <3>2. ServerTypes'
      BY <1>5, <3>1 DEF Inv, ServerInv, ServerTypes, ServerPC, States
    <3>3. (OwnStreams /\ OwnCookie)'
      BY <1>5 DEF Inv, ServerInv, OwnStreams, OwnCookie
    <3>4. (NoSession /\ Blocked)'
      BY <1>1, <1>5, NoConnOther, Numbers DEF NoSession, Blocked
    <3> QED BY <3>2, <3>3, <3>4 DEF ServerInv
  <2>2. ClientInv'
    BY <1>5, ClientsStay
  <2>3. down' \in [Conns -> Seq(Messages)]
    <3>1. "CREATE_STREAMS" \in Messages
      BY DEF Messages, States
    <3> QED BY <1>1, <1>5, <3>1, SendDownType DEF Inv
  <2>4. NetTypes'
    BY <1>4, <1>5, <2>3, ReopenType DEF Inv, NetTypes
  <2> QED BY <2>1, <2>2, <2>4 DEF Inv
<1>6. CASE /\ UpIs(ctrl, "json") /\ PopUp(ctrl)
           /\ Relisten /\ "listen" \in Faults
           /\ SendDown(ctrl, "SERVER_ERROR")
           /\ EndSession({})
           /\ UNCHANGED <<clientVars, cEnd>>
  <2>1. ClientInv'
    BY <1>6, ClientsStay
  <2>2. down' \in [Conns -> Seq(Messages)]
    <3>1. "SERVER_ERROR" \in Messages
      BY DEF Messages, States
    <3> QED BY <1>1, <1>6, <3>1, SendDownType DEF Inv
  <2> QED BY <1>4, <1>6, <2>1, <2>2, EndSessionInv DEF Inv, NetTypes
<1> QED BY <1>2, <1>3, <1>5, <1>6 DEF ReadParams

LEMMA AcceptStreamInv == ASSUME Inv, AcceptStream PROVE Inv'
<1>1. Head(backlog) \in Conns /\ Tail(backlog) \in Seq(Conns)
  BY HeadConn DEF Inv, AcceptStream
<1>2. ServerInv'
  BY <1>1 DEF Inv, ServerInv, AcceptStream, ServerTypes, ServerPC,
      OwnStreams, OwnCookie, NoSession, Blocked
<1>3. ClientInv'
  BY ClientsStay DEF AcceptStream
<1>4. NetTypes'
  BY <1>1, ServerEndType DEF Inv, AcceptStream, NetTypes
<1> QED BY <1>2, <1>3, <1>4 DEF Inv

\* The cookie that came with the stream is that of the control connection, so
\* the stream is of the same client.
LEMMA NewStreamInv == ASSUME Inv, spc = "streamCookie", NewStream PROVE Inv'
<1>1. acc \in Conns /\ sstate = "CREATE_STREAMS" /\ accepted < NumStreams
        /\ accepted \in 0..NumStreams
  BY DEF Inv, ServerInv, ServerTypes, Blocked
<1>2. ctrl \in Conns /\ cookie # NoConn /\ ctrl[1] = cookie /\ acc[1] = cookie
  BY <1>1, ConnParts, NoConnOther
  DEF Inv, ServerInv, ServerTypes, OwnCookie, NewStream
<1>3. /\ spc' \in {"starting", "select"} /\ sstate' \in States
      /\ sstate' = "CREATE_STREAMS" => accepted' < NumStreams
      /\ accepted' \in 0..NumStreams
  BY <1>1, Numbers DEF NewStream, States
<1>4. ServerTypes'
  BY <1>1, <1>3 DEF Inv, ServerInv, NewStream, ServerTypes, ServerPC
<1>5. (OwnStreams /\ OwnCookie)'
  BY <1>1, <1>2, NoConnOther DEF Inv, ServerInv, NewStream, OwnStreams, OwnCookie
<1>6. (NoSession /\ Blocked)'
  BY <1>2, <1>3, NoConnOther DEF NewStream, NoSession, Blocked
<1>7. ClientInv'
  BY ClientsStay DEF NewStream
<1>8. NetTypes'
  <2>1. up' \in [Conns -> Seq(Messages)]
    BY <1>1, PopUpType DEF Inv, NewStream, UpIs
  <2>2. CASE accepted + 1 = NumStreams
    <3>1. SendDown(ctrl, "TEST_START") /\ Reopen
      BY <2>2 DEF NewStream
    <3>2. "TEST_START" \in Messages
      BY DEF Messages, States
    <3>3. down' \in [Conns -> Seq(Messages)]
      BY <1>2, <3>1, <3>2, SendDownType DEF Inv
    <3> QED BY <2>1, <3>1, <3>3, ReopenType DEF Inv, NewStream, NetTypes
  <2>3. CASE accepted + 1 # NumStreams
    BY <2>1, <2>3 DEF Inv, NewStream, NetTypes
  <2> QED BY <2>2, <2>3
<1> QED BY <1>4, <1>5, <1>6, <1>7, <1>8 DEF Inv, ServerInv

LEMMA DenyStreamInv == ASSUME Inv, spc = "streamCookie", DenyStream PROVE Inv'
<1>1. acc \in Conns
  BY DEF Inv, ServerInv, Blocked
<1>2. ServerInv'
  BY DEF Inv, ServerInv, DenyStream, ServerTypes, ServerPC,
      OwnStreams, OwnCookie, NoSession, Blocked
<1>3. ClientInv'
  BY ClientsStay DEF DenyStream
<1>4. sEnd' \in [Conns -> {"none", "backlog", "open", "closed"}]
  BY CloseServerType DEF Inv, DenyStream
<1>5. down' \in [Conns -> Seq(Messages)]
  <2>1. "ACCESS_DENIED" \in Messages
    BY DEF Messages, States
  <2> QED BY <1>1, <2>1, SendDownType DEF Inv, DenyStream
<1>6. up' \in [Conns -> Seq(Messages)]
  <2>1. <<>> \in Seq(Messages)
    OBVIOUS
  <2> QED BY <1>1, <2>1 DEF Inv, NetTypes, DenyStream
<1> QED BY <1>2, <1>3, <1>4, <1>5, <1>6 DEF Inv, DenyStream, NetTypes

LEMMA ReadStreamCookieInv == ASSUME Inv, ReadStreamCookie PROVE Inv'
BY NewStreamInv, DenyStreamInv, WriteFailsInv, ReadFailsInv DEF ReadStreamCookie

\* What both sides write.
LEMMA Written ==
  {"TEST_START", "TEST_RUNNING", "TEST_END", "EXCHANGE_RESULTS", "json", "half",
   "DISPLAY_RESULTS", "SERVER_TERMINATE", "CLIENT_TERMINATE", "IPERF_DONE",
   "cookie"} \subseteq Messages
BY DEF Messages, States

\* A handler that is blocked in a session has a control connection.
LEMMA InSession ==
  ASSUME Inv, spc \notin {"start", "select", "dead"}
  PROVE  ctrl \in Conns
BY DEF Inv, ServerInv, ServerTypes, NoSession

LEMMA StartTestInv == ASSUME Inv, StartTest PROVE Inv'
<1>1. CASE WriteFails(ctrl, {})
  BY <1>1, WriteFailsInv
<1>2. CASE /\ sstate' = "TEST_RUNNING" /\ spc' = "select"
           /\ SendDown(ctrl, "TEST_RUNNING")
           /\ UNCHANGED <<ctrl, cookie, acc, accepted, streams, reverse,
                          clientVars, backlog, cEnd, sEnd, up>>
  <2>1. ctrl \in Conns
    BY InSession DEF StartTest
  <2>2. ServerInv'
    BY <1>2, <2>1, NoConnOther
    DEF Inv, ServerInv, ServerTypes, ServerPC, States,
        OwnStreams, OwnCookie, NoSession, Blocked
  <2>3. ClientInv'
    BY <1>2, ClientsStay
  <2>4. down' \in [Conns -> Seq(Messages)]
    BY <1>2, <2>1, Written, SendDownType DEF Inv
  <2> QED BY <1>2, <2>2, <2>3, <2>4 DEF Inv, NetTypes
<1> QED BY <1>1, <1>2 DEF StartTest

LEMMA SendDataInv == ASSUME Inv, SendData PROVE Inv'
<1>1. PICK k \in streams :
        \/ /\ cEnd[k] = "open" /\ Len(down[k]) < DataCap
           /\ SendDown(k, "half")
           /\ UNCHANGED <<serverVars, clientVars, backlog, cEnd, sEnd, up>>
        \/ WriteFails(k, {})
  BY DEF SendData
<1>2. k \in Conns
  BY DEF Inv, ServerInv, ServerTypes
<1>3. CASE WriteFails(k, {})
  BY <1>3, WriteFailsInv
<1>4. CASE /\ SendDown(k, "half")
           /\ UNCHANGED <<serverVars, clientVars, backlog, cEnd, sEnd, up>>
  <2>1. down' \in [Conns -> Seq(Messages)]
    BY <1>2, <1>4, Written, SendDownType DEF Inv
  <2> QED BY <1>4, <2>1, ServerStays, ClientsStay DEF Inv, NetTypes
<1> QED BY <1>1, <1>3, <1>4

LEMMA RecvDataInv == ASSUME Inv, RecvData PROVE Inv'
BY ReadFailsInv DEF RecvData

LEMMA HandleTestEndInv ==
  ASSUME Inv, spc = "select", ctrl \in Conns, HandleTestEnd PROVE Inv'
<1>1. CASE WriteFails(ctrl, streams)
  BY <1>1, WriteFailsInv
<1>2. CASE /\ PopUp(ctrl)
           /\ CloseServer(streams)
           /\ sstate' = "EXCHANGE_RESULTS" /\ spc' = "results"
           /\ SendDown(ctrl, "EXCHANGE_RESULTS")
           /\ UNCHANGED <<ctrl, cookie, acc, accepted, streams, reverse,
                          clientVars, backlog, cEnd>>
  <2>1. ServerInv'
    BY <1>2, NoConnOther
    DEF Inv, ServerInv, ServerTypes, ServerPC, States,
        OwnStreams, OwnCookie, NoSession, Blocked
  <2>2. ClientInv'
    BY <1>2, ClientsStay
  <2>3. down' \in [Conns -> Seq(Messages)]
    BY <1>2, Written, SendDownType DEF Inv
  <2>4. up' \in [Conns -> Seq(Messages)]
    BY <1>2, PopUpType DEF Inv, HandleTestEnd, UpIs
  <2>5. sEnd' \in [Conns -> {"none", "backlog", "open", "closed"}]
    BY <1>2, CloseServerType DEF Inv
  <2> QED BY <1>2, <2>1, <2>2, <2>3, <2>4, <2>5 DEF Inv, NetTypes
<1> QED BY <1>1, <1>2 DEF HandleTestEnd

LEMMA HandleLastInv ==
  ASSUME Inv, ctrl \in Conns, HandleLast PROVE Inv'
<1>1. ClientInv'
  BY ClientsStay DEF HandleLast
<1>2. up' \in [Conns -> Seq(Messages)]
  <2>1. CASE up[ctrl] # <<>> /\ PopUp(ctrl)
    BY <2>1, PopUpType DEF Inv
  <2>2. CASE UNCHANGED up
    BY <2>2 DEF Inv, NetTypes
  <2> QED BY <2>1, <2>2 DEF HandleLast, UpIs
<1>3. PICK S : EndSession(S)
  BY DEF HandleLast
<1> QED BY <1>1, <1>2, <1>3, EndSessionInv DEF Inv, HandleLast, NetTypes

LEMMA HandleMessageServerInv == ASSUME Inv, HandleMessageServer PROVE Inv'
<1>1. ctrl \in Conns
  BY DEF Inv, ServerInv, ServerTypes, HandleMessageServer
<1> QED BY <1>1, HandleTestEndInv, HandleLastInv DEF HandleMessageServer

LEMMA ReadResultsInv == ASSUME Inv, ReadResults PROVE Inv'
<1>1. CASE UpIs(ctrl, "json") /\ WriteFails(ctrl, {})
  BY <1>1, WriteFailsInv
<1>2. CASE BadUp(ctrl, "json") /\ Abort
  BY <1>2, AbortInv
<1>3. CASE /\ UpIs(ctrl, "json") /\ PopUp(ctrl)
           /\ SendDown(ctrl, "json")
           /\ spc' = "display"
           /\ UNCHANGED <<sstate, ctrl, cookie, acc, accepted, streams, reverse,
                          clientVars, backlog, cEnd, sEnd>>
  <2>1. ctrl \in Conns
    BY InSession DEF ReadResults
  <2>2. ServerInv'
    BY <1>3, <2>1, NoConnOther
    DEF Inv, ServerInv, ServerTypes, ServerPC,
        OwnStreams, OwnCookie, NoSession, Blocked
  <2>3. ClientInv'
    BY <1>3, ClientsStay
  <2>4. down' \in [Conns -> Seq(Messages)]
    BY <1>3, <2>1, Written, SendDownType DEF Inv
  <2>5. up' \in [Conns -> Seq(Messages)]
    BY <1>3, <2>1, PopUpType DEF Inv, UpIs
  <2> QED BY <1>3, <2>2, <2>3, <2>4, <2>5 DEF Inv, NetTypes
<1> QED BY <1>1, <1>2, <1>3 DEF ReadResults

LEMMA SendDisplayInv == ASSUME Inv, SendDisplay PROVE Inv'
<1>1. CASE WriteFails(ctrl, {})
  BY <1>1, WriteFailsInv
<1>2. CASE /\ sstate' = "DISPLAY_RESULTS" /\ spc' = "select"
           /\ SendDown(ctrl, "DISPLAY_RESULTS")
           /\ UNCHANGED <<ctrl, cookie, acc, accepted, streams, reverse,
                          clientVars, backlog, cEnd, sEnd, up>>
  <2>1. ctrl \in Conns
    BY InSession DEF SendDisplay
  <2>2. ServerInv'
    BY <1>2, <2>1, NoConnOther
    DEF Inv, ServerInv, ServerTypes, ServerPC, States,
        OwnStreams, OwnCookie, NoSession, Blocked
  <2>3. ClientInv'
    BY <1>2, ClientsStay
  <2>4. down' \in [Conns -> Seq(Messages)]
    BY <1>2, <2>1, Written, SendDownType DEF Inv
  <2> QED BY <1>2, <2>2, <2>3, <2>4 DEF Inv, NetTypes
<1> QED BY <1>1, <1>2 DEF SendDisplay

LEMMA ServerEndsInv == ASSUME Inv, ServerSignal \/ ServerCrash PROVE Inv'
<1>1. CASE ServerCrash
  BY <1>1, ServerExitInv DEF Inv, ServerCrash, NetTypes
<1>2. CASE ServerSignal
  <2>1. CASE ctrl # NoConn /\ SendDown(ctrl, "SERVER_TERMINATE")
    <3>1. ctrl \in Conns
      BY <2>1 DEF Inv, ServerInv, ServerTypes
    <3>2. down' \in [Conns -> Seq(Messages)]
      BY <2>1, <3>1, Written, SendDownType DEF Inv
    <3> QED BY <1>2, <3>2, ServerExitInv DEF ServerSignal
  <2>2. CASE UNCHANGED down
    BY <1>2, <2>2, ServerExitInv DEF Inv, ServerSignal, NetTypes
  <2> QED BY <1>2, <2>1, <2>2 DEF ServerSignal
<1> QED BY <1>1, <1>2

LEMMA ServerStepInv == ASSUME Inv, ServerStep PROVE Inv'
BY ListenInv, AcceptClientInv, AcceptBusyInv, ReadCookieInv, ReadParamsInv,
   AcceptStreamInv, ReadStreamCookieInv, StartTestInv, SendDataInv, RecvDataInv,
   HandleMessageServerInv, ReadResultsInv, SendDisplayInv
DEF ServerStep

-----------------------------------------------------------------------------
(* The steps of a client *)

\* A client that goes on to another program counter.
LEMMA GotoType ==
  ASSUME ClientInv, NEW c \in Clients, NEW pc \in ClientPC,
         Goto(c, pc),
         cstate' \in [Clients -> States], UNCHANGED <<next, reading>>,
         pc # "streamCookie"
  PROVE  ClientInv'
BY DEF ClientInv, ClientTypes, Goto

LEMMA EnterType ==
  ASSUME ClientInv, NEW c \in Clients, NEW m \in States, Enter(c, m)
  PROVE  cstate' \in [Clients -> States]
BY DEF ClientInv, ClientTypes, Enter

\* A client opens a connection.
LEMMA OpenType ==
  ASSUME NetTypes, NEW k \in Conns,
         cEnd' = [cEnd EXCEPT ![k] = "open"],
         sEnd' = [sEnd EXCEPT ![k] = "backlog"],
         backlog' = Append(backlog, k), UNCHANGED <<up, down>>
  PROVE  NetTypes'
<1>1. backlog' \in Seq(Conns)
  BY DEF NetTypes
<1>2. cEnd' \in [Conns -> {"none", "open", "closed"}]
  BY DEF NetTypes
<1>3. sEnd' \in [Conns -> {"none", "backlog", "open", "closed"}]
  BY DEF NetTypes
<1> QED BY <1>1, <1>2, <1>3 DEF NetTypes

\* cstate does not change.
LEMMA SameState == ASSUME Inv, UNCHANGED cstate PROVE cstate' \in [Clients -> States]
BY DEF Inv, ClientInv, ClientTypes

LEMMA ClientFailsInv ==
  ASSUME Inv, NEW c \in Clients, ClientFails(c) PROVE Inv'
<1>1. ServerInv'
  BY ServerStays DEF ClientFails
<1>2. ClientInv'
  BY GotoType, SameState DEF Inv, ClientFails, ClientPC
<1>3. cEnd' \in [Conns -> {"none", "open", "closed"}]
  BY CloseClientType DEF Inv, ClientFails
<1> QED BY <1>1, <1>2, <1>3 DEF Inv, ClientFails, NetTypes

LEMMA ConnectInv == ASSUME Inv, NEW c \in Clients, Connect(c) PROVE Inv'
<1>1. CASE ~Listening
  BY <1>1, ClientFailsInv DEF Connect
<1>2. CASE Listening
  <2>1. ServerInv'
    BY <1>2, ServerStays DEF Connect
  <2>2. ClientInv'
    BY <1>2, GotoType, SameState DEF Inv, Connect, ClientPC
  <2>3. NetTypes'
    <3>1. Ctrl(c) \in Conns
      BY CtrlConn
    <3> QED BY <1>2, <3>1, OpenType DEF Inv, Connect
  <2> QED BY <2>1, <2>2, <2>3 DEF Inv
<1> QED BY <1>1, <1>2

LEMMA SendCookieInv == ASSUME Inv, NEW c \in Clients, SendCookie(c) PROVE Inv'
<1>1. CASE UpFails(Ctrl(c)) /\ ClientFails(c)
  BY <1>1, ClientFailsInv
<1>2. CASE /\ SendUp(Ctrl(c), "cookie") /\ Goto(c, "select")
           /\ UNCHANGED <<serverVars, cstate, next, reading, backlog, cEnd, sEnd, down>>
  <2>1. ServerInv'
    BY <1>2, ServerStays
  <2>2. ClientInv'
    BY <1>2, GotoType, SameState DEF Inv, ClientPC
  <2>3. up' \in [Conns -> Seq(Messages)]
    BY <1>2, CtrlConn, Written, SendUpType DEF Inv
  <2> QED BY <1>2, <2>1, <2>2, <2>3 DEF Inv, NetTypes
<1> QED BY <1>1, <1>2 DEF SendCookie

LEMMA ReplyInv ==
  ASSUME Inv, NEW c \in Clients, NEW m \in States, NEW r \in Messages,
         NEW pc \in {"select", "results"}, Reply(c, m, r, pc)
  PROVE  Inv'
<1>1. ServerInv'
  BY ServerStays DEF Reply
<1>2. ClientInv'
  <2>1. cstate' \in [Clients -> States]
    BY EnterType DEF Inv, Reply
  <2> QED BY <2>1, GotoType DEF Inv, Reply, ClientPC
<1>3. up' \in [Conns -> Seq(Messages)]
  BY CtrlConn, SendUpType DEF Inv, Reply
<1>4. down' \in [Conns -> Seq(Messages)]
  BY CtrlConn, PopDownType DEF Inv, Reply, DownIs
<1> QED BY <1>1, <1>2, <1>3, <1>4 DEF Inv, Reply, NetTypes

LEMMA HandleExchangeInv ==
  ASSUME Inv, NEW c \in Clients, HandleExchange(c) PROVE Inv'
<1>1. "PARAM_EXCHANGE" \in States /\ "EXCHANGE_RESULTS" \in States
  BY DEF States
<1>2. CASE Reply(c, "PARAM_EXCHANGE", "json", "select")
  BY <1>1, <1>2, Written, ReplyInv
<1>3. CASE Reply(c, "EXCHANGE_RESULTS", "json", "results")
  BY <1>1, <1>3, Written, ReplyInv
<1> QED BY <1>2, <1>3, ClientFailsInv DEF HandleExchange

LEMMA HandleStartInv == ASSUME Inv, NEW c \in Clients, HandleStart(c) PROVE Inv'
<1>1. ServerInv'
  BY ServerStays DEF HandleStart
<1>2. Head(down[Ctrl(c)]) \in States /\ down[Ctrl(c)] # <<>>
  BY DEF HandleStart, DownIs, States
<1>3. ClientInv'
  <2>1. cstate' \in [Clients -> States]
    BY <1>2, EnterType DEF Inv, HandleStart
  <2>2. CASE Goto(c, "connect")
    BY <2>1, <2>2, GotoType DEF Inv, HandleStart, ClientPC
  <2>3. CASE UNCHANGED cpc
    BY <2>1, <2>3 DEF Inv, HandleStart, ClientInv, ClientTypes
  <2> QED BY <2>2, <2>3 DEF HandleStart
<1>4. down' \in [Conns -> Seq(Messages)]
  BY <1>2, CtrlConn, PopDownType DEF Inv, HandleStart
<1> QED BY <1>1, <1>3, <1>4 DEF Inv, HandleStart, NetTypes

LEMMA HandleDisplayInv ==
  ASSUME Inv, NEW c \in Clients, HandleDisplay(c) PROVE Inv'
<1>1. ServerInv'
  BY ServerStays DEF HandleDisplay
<1>2. ClientInv'
  <2>1. cstate' \in [Clients -> States]
    BY EnterType DEF Inv, HandleDisplay, States
  <2> QED BY <2>1, GotoType DEF Inv, HandleDisplay, ClientPC
<1>3. up' \in [Conns -> Seq(Messages)]
  BY CtrlConn, Written, SendUpType DEF Inv, HandleDisplay
<1>4. down' \in [Conns -> Seq(Messages)]
  BY CtrlConn, PopDownType DEF Inv, HandleDisplay, DownIs
<1>5. cEnd' \in [Conns -> {"none", "open", "closed"}]
  BY CloseClientType DEF Inv, HandleDisplay
<1> QED BY <1>1, <1>2, <1>3, <1>4, <1>5 DEF Inv, HandleDisplay, NetTypes

LEMMA HandleMessageClientInv ==
  ASSUME Inv, NEW c \in Clients, HandleMessageClient(c) PROVE Inv'
BY HandleExchangeInv, HandleStartInv, HandleDisplayInv, ClientFailsInv
DEF HandleMessageClient, HandleError

\* The stream a client connects next.
LEMMA NextConn ==
  ASSUME Inv, NEW c \in Clients, next[c] <= NumStreams
  PROVE  <<c, next[c]>> \in Conns /\ next[c] \in 1..NumStreams
BY Numbers DEF Inv, ClientInv, ClientTypes, Conns

LEMMA ConnectStreamInv ==
  ASSUME Inv, NEW c \in Clients, ConnectStream(c) PROVE Inv'
<1>1. CASE ~Listening
  BY <1>1, ClientFailsInv DEF ConnectStream
<1>2. CASE Listening
  <2>1. ServerInv'
    BY <1>2, ServerStays DEF ConnectStream
  <2>2. ClientInv'
    BY <1>2 DEF Inv, ConnectStream, Goto, ClientInv, ClientTypes, ClientPC
  <2>3. NetTypes'
    <3>1. <<c, next[c]>> \in Conns
      BY NextConn DEF ConnectStream
    <3> QED BY <1>2, <3>1, OpenType DEF Inv, ConnectStream
  <2> QED BY <2>1, <2>2, <2>3 DEF Inv
<1> QED BY <1>1, <1>2

LEMMA SendStreamCookieInv ==
  ASSUME Inv, NEW c \in Clients, SendStreamCookie(c) PROVE Inv'
<1>1. <<c, next[c]>> \in Conns /\ next[c] \in 1..NumStreams
  BY NextConn DEF Inv, ClientInv, SendStreamCookie, At
<1>2. CASE ClientFails(c)
  BY <1>2, ClientFailsInv
<1>3. CASE /\ SendUp(<<c, next[c]>>, "cookie")
           /\ Goto(c, IF next[c] = NumStreams THEN "select" ELSE "connect")
           /\ next' = [next EXCEPT ![c] = @ + 1]
           /\ UNCHANGED <<serverVars, cstate, reading, backlog, cEnd, sEnd, down>>
  <2>1. ServerInv'
    BY <1>3, ServerStays
  <2>2. next[c] + 1 \in 1..(NumStreams + 1)
    BY <1>1, Numbers
  <2>3. next' \in [Clients -> 1..(NumStreams + 1)]
    BY <1>3, <2>2 DEF Inv, ClientInv, ClientTypes
  <2>4. PICK pc \in {"select", "connect"} : Goto(c, pc)
    BY <1>3
  <2>5. cpc' \in [Clients -> ClientPC] /\ cpc'[c] # "streamCookie"
    BY <2>4 DEF Inv, ClientInv, ClientTypes, Goto, ClientPC
  <2>6. \A d \in Clients \ {c} : cpc'[d] = cpc[d] /\ next'[d] = next[d]
    BY <1>3, <2>4 DEF Inv, ClientInv, ClientTypes, Goto
  <2>7. ClientInv'
    BY <1>3, <2>3, <2>5, <2>6 DEF Inv, ClientInv, ClientTypes
  <2>8. up' \in [Conns -> Seq(Messages)]
    BY <1>1, <1>3, Written, SendUpType DEF Inv
  <2> QED BY <1>3, <2>1, <2>7, <2>8 DEF Inv, NetTypes
<1> QED BY <1>2, <1>3 DEF SendStreamCookie

LEMMA ClientResultsInv ==
  ASSUME Inv, NEW c \in Clients, ClientResults(c) PROVE Inv'
<1>1. CASE ClientFails(c)
  BY <1>1, ClientFailsInv
<1>2. CASE /\ DownIs(Ctrl(c), "json") /\ PopDown(Ctrl(c)) /\ Goto(c, "select")
           /\ UNCHANGED <<serverVars, cstate, next, reading, backlog, cEnd, sEnd, up>>
  <2>1. ServerInv'
    BY <1>2, ServerStays
  <2>2. ClientInv'
    BY <1>2, GotoType, SameState DEF Inv, ClientPC
  <2>3. down' \in [Conns -> Seq(Messages)]
    BY <1>2, CtrlConn, PopDownType DEF Inv, DownIs
  <2> QED BY <1>2, <2>1, <2>2, <2>3 DEF Inv, NetTypes
<1> QED BY <1>1, <1>2 DEF ClientResults

LEMMA EndTestInv == ASSUME Inv, NEW c \in Clients, EndTest(c) PROVE Inv'
<1>1. CASE ClientFails(c)
  BY <1>1, ClientFailsInv
<1>2. CASE /\ SendUp(Ctrl(c), "TEST_END") /\ Enter(c, "TEST_END")
           /\ UNCHANGED <<serverVars, cpc, next, reading, backlog, cEnd, sEnd, down>>
  <2>1. ServerInv'
    BY <1>2, ServerStays
  <2>2. ClientInv'
    <3>1. cstate' \in [Clients -> States]
      BY <1>2, EnterType DEF Inv, States
    <3> QED BY <1>2, <3>1 DEF Inv, ClientInv, ClientTypes
  <2>3. up' \in [Conns -> Seq(Messages)]
    BY <1>2, CtrlConn, Written, SendUpType DEF Inv
  <2> QED BY <1>2, <2>1, <2>2, <2>3 DEF Inv, NetTypes
<1> QED BY <1>1, <1>2 DEF EndTest

LEMMA ReceiveDataInv == ASSUME Inv, NEW c \in Clients, ReceiveData(c) PROVE Inv'
<1>1. ServerInv' /\ ClientInv'
  BY ServerStays, ClientsStay DEF ReceiveData
<1>2. PICK k \in Data(c) : down' = [down EXCEPT ![k] = <<>>]
  BY DEF ReceiveData
<1>3. down' \in [Conns -> Seq(Messages)]
  <2>1. <<>> \in Seq(Messages)
    OBVIOUS
  <2> QED BY <1>2, <2>1 DEF Inv, NetTypes
<1> QED BY <1>1, <1>3 DEF Inv, ReceiveData, NetTypes

LEMMA BeginDrainInv == ASSUME Inv, NEW c \in Clients, BeginDrain(c) PROVE Inv'
<1>1. ServerInv'
  BY ServerStays DEF BeginDrain
<1>2. PICK k \in Data(c) : reading' = [reading EXCEPT ![c] = k[2]]
  BY DEF BeginDrain
<1>3. k[2] \in 0..NumStreams
  BY CtrlConn, ConnParts
<1>4. reading' \in [Clients -> 0..NumStreams]
  BY <1>2, <1>3 DEF Inv, ClientInv, ClientTypes
<1>5. ClientInv'
  BY <1>4 DEF Inv, ClientInv, ClientTypes, BeginDrain, Goto, ClientPC
<1> QED BY <1>1, <1>5 DEF Inv, BeginDrain, netVars, NetTypes

\* Reading a block off a stream leaves a sequence of what is left.
LEMMA BlockRead ==
  ASSUME NEW S, NEW s \in Seq(S), Len(s) >= 2
  PROVE  SubSeq(s, 3, Len(s)) \in Seq(S)
OBVIOUS

LEMMA DrainInv == ASSUME Inv, NEW c \in Clients, Drain(c) PROVE Inv'
<1>1. ServerInv'
  BY ServerStays DEF Drain
<1>2. reading[c] \in 0..NumStreams /\ <<c, reading[c]>> \in Conns
  BY DEF Inv, ClientInv, ClientTypes, Conns
<1>3. ClientInv'
  <2>1. reading' \in [Clients -> 0..NumStreams]
    BY Numbers DEF Inv, ClientInv, ClientTypes, Drain
  <2> QED BY <2>1 DEF Inv, ClientInv, ClientTypes, Drain, Goto, ClientPC
<1>4. down' \in [Conns -> Seq(Messages)]
  <2>1. <<>> \in Seq(Messages)
    OBVIOUS
  <2>2. CASE down' = [down EXCEPT ![<<c, reading[c]>>] = <<>>]
    BY <1>2, <2>1, <2>2 DEF Inv, NetTypes
  <2>3. CASE /\ Len(down[<<c, reading[c]>>]) >= 2
             /\ down' = [down EXCEPT ![<<c, reading[c]>>] = SubSeq(@, 3, Len(@))]
    <3>1. down[<<c, reading[c]>>] \in Seq(Messages)
      BY <1>2 DEF Inv, NetTypes
    <3>2. SubSeq(down[<<c, reading[c]>>], 3, Len(down[<<c, reading[c]>>]))
            \in Seq(Messages)
      BY <2>3, <3>1, BlockRead
    <3> QED BY <1>2, <2>3, <3>2 DEF Inv, NetTypes
  <2> QED BY <2>2, <2>3 DEF Drain
<1> QED BY <1>1, <1>3, <1>4 DEF Inv, Drain, NetTypes

\* A client that dies closes its ends, and may say so first.
LEMMA ClientGoneInv ==
  ASSUME Inv, NEW c \in Clients, Goto(c, "killed"), CloseClient(Of(c)),
         up' \in [Conns -> Seq(Messages)],
         UNCHANGED <<serverVars, cstate, next, reading, backlog, sEnd, down>>
  PROVE  Inv'
<1>1. ServerInv'
  BY ServerStays
<1>2. ClientInv'
  BY GotoType, SameState DEF Inv, ClientPC
<1>3. cEnd' \in [Conns -> {"none", "open", "closed"}]
  BY CloseClientType DEF Inv
<1> QED BY <1>1, <1>2, <1>3 DEF Inv, NetTypes

LEMMA ClientSignalInv == ASSUME Inv, NEW c \in Clients, ClientSignal(c) PROVE Inv'
<1>1. up' \in [Conns -> Seq(Messages)]
  <2>1. CASE SendUp(Ctrl(c), "CLIENT_TERMINATE")
    BY <2>1, CtrlConn, Written, SendUpType DEF Inv
  <2>2. CASE UNCHANGED up
    BY <2>2 DEF Inv, NetTypes
  <2> QED BY <2>1, <2>2 DEF ClientSignal
<1> QED BY <1>1, ClientGoneInv DEF ClientSignal

LEMMA ClientCrashInv == ASSUME Inv, NEW c \in Clients, ClientCrash(c) PROVE Inv'
<1>1. up' \in [Conns -> Seq(Messages)]
  BY DEF Inv, ClientCrash, NetTypes
<1> QED BY <1>1, ClientGoneInv DEF ClientCrash

LEMMA ClientStepInv == ASSUME Inv, NEW c \in Clients, ClientStep(c) PROVE Inv'
BY ConnectInv, SendCookieInv, HandleMessageClientInv, ConnectStreamInv,
   SendStreamCookieInv, ClientResultsInv, EndTestInv, ReceiveDataInv,
   ClientFailsInv, BeginDrainInv, DrainInv
DEF ClientStep, SendDataFails

-----------------------------------------------------------------------------
(* The theorems *)

LEMMA InitInv == Init => Inv
<1> SUFFICES ASSUME Init PROVE Inv
  OBVIOUS
<1>1. ServerTypes
  BY Numbers DEF Init, ServerTypes, ServerPC, States
<1>2. OwnStreams /\ OwnCookie /\ NoSession /\ Blocked
  BY DEF Init, OwnStreams, OwnCookie, NoSession, Blocked
<1>3. ClientInv
  <2>1. 1 \in 1..(NumStreams + 1) /\ 0 \in 0..NumStreams
    BY Numbers
  <2> QED BY <2>1 DEF Init, ClientInv, ClientTypes, ClientPC, States
<1>4. NetTypes
  <2>1. <<>> \in Seq(Messages) /\ <<>> \in Seq(Conns)
    OBVIOUS
  <2> QED BY <2>1 DEF Init, NetTypes
<1> QED BY <1>1, <1>2, <1>3, <1>4 DEF Inv, ServerInv

LEMMA StepInv == Inv /\ [Next]_vars => Inv'
<1> SUFFICES ASSUME Inv, [Next]_vars PROVE Inv'
  OBVIOUS
<1>1. CASE ServerStep \/ ServerSignal \/ ServerCrash
  BY <1>1, ServerStepInv, ServerEndsInv
<1>2. CASE \E c \in Clients : ClientStep(c) \/ ClientSignal(c) \/ ClientCrash(c)
  BY <1>2, ClientStepInv, ClientSignalInv, ClientCrashInv
<1>3. CASE UNCHANGED vars
  BY <1>3, ServerStays, ClientsStay DEF Inv, vars, netVars, NetTypes
<1> QED BY <1>1, <1>2, <1>3 DEF Next

\* Type correctness of the server, the clients and the connections between
\* them, whatever the faults.
THEOREM TypeCorrect == Spec => []TypeOK
<1>1. Inv => TypeOK
  BY TypeParts DEF Inv, ServerInv, ClientInv
<1> QED BY <1>1, InitInv, StepInv, PTL DEF Spec

\* The cookie check of iperf_tcp_accept: for any number of clients that knock
\* at any moment, each stream of a session is of the client that was accepted.
THEOREM StreamsAreOwn == Spec => []OwnStreams
<1>1. Inv => OwnStreams
  BY DEF Inv, ServerInv
<1> QED BY <1>1, InitInv, StepInv, PTL DEF Spec
=============================================================================
