------------------------- MODULE IperfSessionProofs -------------------------
(***************************************************************************)
(* More about the control protocol, for any clients, any number of streams *)
(* and any faults: two clients are never both in a test, and nobody is     *)
(* told of a start before every stream is accepted.                        *)
(*                                                                         *)
(* Both are about what the server may still do with a connection, so the   *)
(* invariant follows a connection from the listener to its close.          *)
(***************************************************************************)
EXTENDS IperfControlProofs, FiniteSetTheorems, FunctionTheorems

-----------------------------------------------------------------------------
(* The inductive invariant *)

\* A connection the server has accepted, whether or not it has closed it since.
Served(k) == sEnd[k] \in {"open", "closed"}

\* What waits at the listener waits once.
Queue ==
  \A i \in DOMAIN backlog :
    /\ sEnd[backlog[i]] = "backlog"
    /\ \A j \in DOMAIN backlog : backlog[i] = backlog[j] => i = j

\* A client connects once, its streams one after the other, and only after the
\* server has accepted it.
Fresh(c) ==
  cpc[c] = "init" => /\ cstate[c] = "IPERF_START" /\ down[Ctrl(c)] = <<>>
                     /\ cEnd[Ctrl(c)] = "none" /\ sEnd[Ctrl(c)] = "none"
Unused(c, i) ==
  i > next[c] \/ (i = next[c] /\ cpc[c] \notin {"streamCookie", "failed", "killed"})
InTurn(c) ==
  /\ \A i \in 1..NumStreams : Unused(c, i) => sEnd[<<c, i>>] = "none"
  /\ \A i \in 1..NumStreams : sEnd[<<c, i>>] # "none" => Served(Ctrl(c))
  /\ cpc[c] \in {"connect", "streamCookie"} => Served(Ctrl(c))

Ends == Queue /\ \A c \in Clients : Fresh(c) /\ InTurn(c)

\* What the server does with a connection: it is the control connection, or
\* one that a cookie is read from, or a stream, and of these only one.
Roles ==
  /\ ctrl # NoConn => Served(ctrl)
  /\ acc # NoConn => /\ spc \in {"streamCookie", "dead"} /\ Served(acc)
                     /\ acc # ctrl /\ acc \notin streams
                     /\ acc[1] = ctrl[1] => acc[2] > 0
  /\ \A k \in streams : Served(k) /\ k # ctrl /\ k[2] > 0

\* streams_accepted is the number of streams, and all of them once the test
\* starts.
Counted ==
  /\ IsFiniteSet(streams) /\ Cardinality(streams) = accepted
  /\ spc = "starting" \/ sstate = "TEST_RUNNING" => accepted = NumStreams

\* A client that was sent something is the one behind ctrl_sck, or was closed;
\* a client that was told of the start has all its streams accepted.
Started == {"TEST_START", "TEST_RUNNING", "TEST_END"}
Addressed(c) ==
  cstate[c] # "IPERF_START" \/ down[Ctrl(c)] # <<>> =>
    sEnd[Ctrl(c)] = "closed" \/ ctrl = Ctrl(c)
ToldStart(c) ==
  \/ cstate[c] \in Started
  \/ \E i \in DOMAIN down[Ctrl(c)] : down[Ctrl(c)][i] \in Started
Complete(c) == ToldStart(c) => \A k \in Data(c) : Served(k)

Mail == \A c \in Clients : Addressed(c) /\ Complete(c)

SessionInv == Ends /\ Roles /\ Counted /\ Mail

-----------------------------------------------------------------------------
(* How the server's ends of the connections change *)

\* What is accepted stays accepted, what is closed stays closed, and only a
\* client makes a connection.
Onward ==
  \A k \in Conns : /\ Served(k) => Served(k)'
                   /\ sEnd[k] = "closed" => sEnd'[k] = "closed"
                   /\ sEnd[k] = "none" => sEnd'[k] = "none"

LEMMA CloseOnward ==
  ASSUME Inv, NEW S, CloseServer(S), \A k \in S \cap Conns : sEnd[k] # "none"
  PROVE  Onward
BY DEF CloseServer, Onward, Served, Inv, NetTypes

LEMMA StayOnward == ASSUME UNCHANGED sEnd PROVE Onward
BY DEF Onward, Served

\* The connection at the head of the queue.
LEMMA HeadWaits ==
  ASSUME Inv, Queue, backlog # <<>>
  PROVE  /\ Head(backlog) \in Conns /\ sEnd[Head(backlog)] = "backlog"
         /\ ~Served(Head(backlog))
BY HeadConn DEF Queue, Inv, NetTypes, Served

LEMMA AcceptOnward ==
  ASSUME Inv, Queue, backlog # <<>>,
         sEnd' = [sEnd EXCEPT ![Head(backlog)] = "open"]
  PROVE  Onward /\ sEnd'[Head(backlog)] = "open"
<1>1. Head(backlog) \in Conns /\ ~Served(Head(backlog))
      /\ sEnd[Head(backlog)] = "backlog"
  BY HeadWaits
<1>2. sEnd'[Head(backlog)] = "open"
  BY <1>1 DEF Inv, NetTypes
<1>3. \A k \in Conns \ {Head(backlog)} : sEnd'[k] = sEnd[k]
  BY <1>1 DEF Inv, NetTypes
<1>4. Onward
  BY <1>1, <1>2, <1>3 DEF Onward, Served
<1> QED BY <1>2, <1>4

LEMMA EmptyQueue == ASSUME backlog' = <<>> PROVE Queue'
BY DEF Queue

LEMMA TailOf ==
  ASSUME NEW S, NEW s \in Seq(S), s # <<>>
  PROVE  /\ Tail(s) \in Seq(S)
         /\ DOMAIN Tail(s) = 1..(Len(s) - 1)
         /\ \A i \in DOMAIN Tail(s) : i + 1 \in DOMAIN s /\ Tail(s)[i] = s[i + 1]
OBVIOUS

\* The rest of the queue does not notice what becomes of its head.
LEMMA ShorterQueue ==
  ASSUME Inv, Queue, backlog # <<>>, backlog' = Tail(backlog),
         \A k \in Conns \ {Head(backlog)} : sEnd'[k] = sEnd[k]
  PROVE  Queue'
<1>1. backlog \in Seq(Conns)
  BY DEF Inv, NetTypes
<1>2. /\ DOMAIN backlog' = 1..(Len(backlog) - 1)
      /\ \A i \in DOMAIN backlog' :
           i + 1 \in DOMAIN backlog /\ backlog'[i] = backlog[i + 1]
  BY <1>1, TailOf
<1>3. Head(backlog) = backlog[1] /\ 1 \in DOMAIN backlog
  BY <1>1
<1>4. ASSUME NEW i \in DOMAIN backlog'
      PROVE  sEnd'[backlog'[i]] = "backlog"
  <2>1. i \in Nat /\ i >= 1 /\ i + 1 # 1
    BY <1>2, <1>1
  <2>2. backlog[i + 1] # Head(backlog) /\ backlog[i + 1] \in Conns
    BY <1>1, <1>2, <1>3, <2>1 DEF Queue
  <2> QED BY <1>2, <2>2 DEF Queue
<1>5. ASSUME NEW i \in DOMAIN backlog', NEW j \in DOMAIN backlog',
             backlog'[i] = backlog'[j]
      PROVE  i = j
  <2>1. i + 1 = j + 1
    BY <1>2, <1>5 DEF Queue
  <2> QED BY <1>1, <1>2, <2>1
<1> QED BY <1>4, <1>5 DEF Queue

LEMMA SameQueue ==
  ASSUME Inv, Queue, UNCHANGED backlog,
         \A k \in Conns : sEnd[k] = "backlog" => sEnd'[k] = "backlog"
  PROVE  Queue'
BY DEF Queue, Inv, NetTypes

\* A step of the server leaves the clients' connections as the clients left
\* them.
LEMMA ServerEnds ==
  ASSUME Inv, Ends, Queue', Onward, UNCHANGED clientVars, UNCHANGED cEnd,
         \A c \in Clients : cEnd[Ctrl(c)] = "none" => down'[Ctrl(c)] = down[Ctrl(c)]
  PROVE  Ends'
<1>1. ASSUME NEW c \in Clients PROVE Fresh(c)'
  BY CtrlConn DEF Ends, Fresh, Onward, clientVars, Ctrl
<1>2. ASSUME NEW c \in Clients PROVE InTurn(c)'
  <2>1. Ctrl(c) \in Conns /\ \A i \in 1..NumStreams : <<c, i>> \in Conns
    BY CtrlConn, Numbers DEF Conns
  <2>2. ASSUME NEW i \in 1..NumStreams, Unused(c, i)' PROVE sEnd'[<<c, i>>] = "none"
    BY <2>1, <2>2 DEF Ends, InTurn, Unused, Onward, clientVars
  <2>3. ASSUME NEW i \in 1..NumStreams, sEnd'[<<c, i>>] # "none" PROVE Served(Ctrl(c))'
    BY <2>1, <2>3 DEF Ends, InTurn, Onward
  <2>4. cpc'[c] \in {"connect", "streamCookie"} => Served(Ctrl(c))'
    BY <2>1 DEF Ends, InTurn, Onward, clientVars
  <2> QED BY <2>2, <2>3, <2>4 DEF InTurn, Ctrl, Served
<1> QED BY <1>1, <1>2 DEF Ends

-----------------------------------------------------------------------------
(* What the server sends *)

\* What a step of the server sends to a client goes to the control connection,
\* or to a connection it closes.
Sent(c) ==
  \/ down'[Ctrl(c)] = down[Ctrl(c)]
  \/ \E m \in Messages :
       /\ down'[Ctrl(c)] = Append(down[Ctrl(c)], m)
       /\ m \in Started => \A k \in Data(c) : Served(k)
       /\ ctrl = Ctrl(c) \/ sEnd'[Ctrl(c)] = "closed"

LEMMA Appended ==
  ASSUME NEW S, NEW s \in Seq(S), NEW m \in S, NEW i \in DOMAIN Append(s, m)
  PROVE  (i \in DOMAIN s /\ Append(s, m)[i] = s[i]) \/ Append(s, m)[i] = m
OBVIOUS

LEMMA ServerMail ==
  ASSUME Inv, Mail, Onward, UNCHANGED clientVars,
         \A c \in Clients : Sent(c),
         \A c \in Clients : ctrl = Ctrl(c) => ctrl' = ctrl \/ sEnd'[ctrl] = "closed"
  PROVE  Mail'
<1> SUFFICES ASSUME NEW c \in Clients PROVE (Addressed(c) /\ Complete(c))'
  BY DEF Mail
<1>1. Ctrl(c) \in Conns /\ Data(c) \subseteq Conns /\ Ctrl(c)' = Ctrl(c) /\ Data(c)' = Data(c)
  BY CtrlConn DEF Ctrl, Data, Conns
<1>2. cstate' = cstate
  BY DEF clientVars
<1>3. Addressed(c) /\ Complete(c) /\ Sent(c)
  BY DEF Mail
<1>4. (ctrl = Ctrl(c) \/ sEnd[Ctrl(c)] = "closed")
        => ctrl' = Ctrl(c) \/ sEnd'[Ctrl(c)] = "closed"
  BY <1>1 DEF Onward
<1>5. Addressed(c)'
  BY <1>1, <1>2, <1>3, <1>4 DEF Addressed, Sent
<1>6. ToldStart(c)' => ToldStart(c) \/ \A k \in Data(c) : Served(k)
  <2>1. CASE down'[Ctrl(c)] = down[Ctrl(c)]
    BY <1>1, <1>2, <2>1 DEF ToldStart
  <2>2. CASE down'[Ctrl(c)] # down[Ctrl(c)]
    <3>1. PICK m \in Messages :
            /\ down'[Ctrl(c)] = Append(down[Ctrl(c)], m)
            /\ m \in Started => \A k \in Data(c) : Served(k)
      BY <1>3, <2>2 DEF Sent
    <3>2. down[Ctrl(c)] \in Seq(Messages)
      BY <1>1 DEF Inv, NetTypes
    <3>3. ASSUME NEW i \in DOMAIN down'[Ctrl(c)], down'[Ctrl(c)][i] \in Started
          PROVE  ToldStart(c) \/ \A k \in Data(c) : Served(k)
      BY <3>1, <3>2, <3>3, Appended DEF ToldStart
    <3> QED BY <1>1, <1>2, <3>3 DEF ToldStart
  <2> QED BY <2>1, <2>2
<1>7. Complete(c)'
  <2>1. (\A k \in Data(c) : Served(k)) => (\A k \in Data(c) : Served(k)')
    BY <1>1 DEF Onward
  <2>2. ToldStart(c)' => \A k \in Data(c) : Served(k)'
    BY <1>3, <1>6, <2>1 DEF Complete
  <2> QED BY <1>1, <2>2 DEF Complete
<1> QED BY <1>5, <1>7

\* SendDown puts the message on one connection, and only if the client has
\* opened it.
LEMMA SendDownTo ==
  ASSUME Inv, NEW k \in Conns, NEW m \in Messages, SendDown(k, m)
  PROVE  /\ \A j \in Conns \ {k} : down'[j] = down[j]
         /\ down'[k] = down[k] \/ down'[k] = Append(down[k], m)
         /\ \A j \in Conns : cEnd[j] = "none" => down'[j] = down[j]
BY DEF SendDown, Inv, NetTypes

\* A message other than those of the start, on the control connection.
LEMMA SentPlain ==
  ASSUME Inv, ctrl \in Conns, NEW m \in Messages \ Started, SendDown(ctrl, m)
  PROVE  \A c \in Clients : /\ Sent(c)
                            /\ cEnd[Ctrl(c)] = "none" => down'[Ctrl(c)] = down[Ctrl(c)]
BY SendDownTo, CtrlConn DEF Sent

LEMMA SentNothing ==
  ASSUME UNCHANGED down
  PROVE  \A c \in Clients : /\ Sent(c)
                            /\ cEnd[Ctrl(c)] = "none" => down'[Ctrl(c)] = down[Ctrl(c)]
BY DEF Sent

\* Words that do not say that a test starts.
LEMMA Plain ==
  {"ACCESS_DENIED", "PARAM_EXCHANGE", "CREATE_STREAMS", "SERVER_ERROR",
   "EXCHANGE_RESULTS", "json", "DISPLAY_RESULTS", "SERVER_TERMINATE", "half"}
    \subseteq Messages \ Started
BY DEF Messages, States, Started

-----------------------------------------------------------------------------
(* The ends of a session *)

\* What the server holds, but for what a client sent it.
LEMMA NotNone ==
  ASSUME Inv, SessionInv, NEW S \in SUBSET streams
  PROVE  \A k \in ({ctrl} \cup Waiting \cup S) \cap Conns : sEnd[k] # "none"
BY NoConnOther DEF SessionInv, Roles, Served, Waiting

LEMMA EndSessionKeeps ==
  ASSUME Inv, SessionInv, NEW S \in SUBSET streams, EndSession(S),
         UNCHANGED clientVars, UNCHANGED cEnd,
         UNCHANGED down \/ (ctrl \in Conns /\ SendDown(ctrl, "SERVER_ERROR"))
  PROVE  SessionInv'
<1>1. Onward
  BY NotNone, CloseOnward DEF EndSession
<1>2. \A c \in Clients : /\ Sent(c)
                         /\ cEnd[Ctrl(c)] = "none" => down'[Ctrl(c)] = down[Ctrl(c)]
  BY SentNothing, SentPlain, Plain
<1>3. Ends'
  BY <1>1, <1>2, EmptyQueue, ServerEnds DEF SessionInv, EndSession
<1>4. Roles'
  BY DEF EndSession, Roles
<1>5. Counted'
  BY FS_EmptySet DEF EndSession, Counted
<1>6. \A c \in Clients : ctrl = Ctrl(c) => sEnd'[ctrl] = "closed"
  BY CtrlConn DEF EndSession, CloseServer
<1>7. Mail'
  BY <1>1, <1>2, <1>6, ServerMail DEF SessionInv
<1> QED BY <1>3, <1>4, <1>5, <1>7 DEF SessionInv

\* A step that changes nothing of the roles but where the server is.
LEMMA SameRoles ==
  ASSUME Inv, Roles, Onward, UNCHANGED <<ctrl, acc, streams>>,
         spc' = spc \/ spc' = "dead" \/ acc = NoConn
  PROVE  Roles'
<1>1. ctrl # NoConn => Served(ctrl)'
  BY DEF Inv, ServerInv, ServerTypes, Roles, Onward, Served
<1>2. acc # NoConn => Served(acc)'
  BY DEF Inv, ServerInv, ServerTypes, Roles, Onward, Served
<1>3. \A k \in streams : Served(k)'
  BY DEF Inv, ServerInv, ServerTypes, Roles, Onward, Served
<1> QED BY <1>1, <1>2, <1>3 DEF Roles, Served

LEMMA ServerExitKeeps ==
  ASSUME Inv, SessionInv, ServerExit,
         UNCHANGED down \/ (ctrl \in Conns /\ SendDown(ctrl, "SERVER_TERMINATE"))
  PROVE  SessionInv'
<1>1. Onward
  BY CloseOnward DEF ServerExit
<1>2. \A c \in Clients : /\ Sent(c)
                         /\ cEnd[Ctrl(c)] = "none" => down'[Ctrl(c)] = down[Ctrl(c)]
  BY SentNothing, SentPlain, Plain
<1>3. Ends'
  BY <1>1, <1>2, EmptyQueue, ServerEnds DEF SessionInv, ServerExit
<1>4. Roles'
  BY <1>1, SameRoles DEF SessionInv, ServerExit
<1>5. Counted'
  BY DEF SessionInv, ServerExit, Counted
<1>6. Mail'
  BY <1>1, <1>2, ServerMail DEF SessionInv, ServerExit
<1> QED BY <1>3, <1>4, <1>5, <1>6 DEF SessionInv

LEMMA AbortKeeps == ASSUME Inv, SessionInv, Abort PROVE SessionInv'
BY EndSessionKeeps DEF Abort

LEMMA WriteFailsKeeps ==
  ASSUME Inv, SessionInv, NEW k, NEW S \in SUBSET streams, WriteFails(k, S)
  PROVE  SessionInv'
BY EndSessionKeeps, ServerExitKeeps DEF WriteFails

LEMMA ReadFailsKeeps ==
  ASSUME Inv, SessionInv, NEW k, ReadFails(k) PROVE SessionInv'
BY AbortKeeps DEF ReadFails

-----------------------------------------------------------------------------
(* The steps of the server *)

LEMMA ListenKeeps == ASSUME Inv, SessionInv, ServerListen PROVE SessionInv'
<1>1. Onward
  BY StayOnward DEF ServerListen, netVars
<1>2. \A c \in Clients : /\ Sent(c)
                         /\ cEnd[Ctrl(c)] = "none" => down'[Ctrl(c)] = down[Ctrl(c)]
  BY SentNothing DEF ServerListen, netVars
<1>3. Queue'
  BY SameQueue DEF SessionInv, Ends, ServerListen, netVars
<1>4. Ends'
  BY <1>1, <1>2, <1>3, ServerEnds DEF SessionInv, ServerListen, netVars
<1>5. acc = NoConn
  BY DEF SessionInv, Roles, ServerListen
<1>6. Roles'
  BY <1>1, <1>5, SameRoles DEF SessionInv, ServerListen
<1>7. Counted'
  BY DEF SessionInv, ServerListen, Counted
<1>8. Mail'
  BY <1>1, <1>2, ServerMail DEF SessionInv, ServerListen
<1> QED BY <1>4, <1>6, <1>7, <1>8 DEF SessionInv

LEMMA AcceptClientKeeps == ASSUME Inv, SessionInv, AcceptClient PROVE SessionInv'
<1>1. Onward /\ sEnd'[Head(backlog)] = "open" /\ Head(backlog) \in Conns
  BY AcceptOnward, HeadWaits DEF SessionInv, Ends, AcceptClient
<1>2. \A c \in Clients : /\ Sent(c)
                         /\ cEnd[Ctrl(c)] = "none" => down'[Ctrl(c)] = down[Ctrl(c)]
  BY SentNothing DEF AcceptClient
<1>3. \A k \in Conns \ {Head(backlog)} : sEnd'[k] = sEnd[k]
  BY DEF AcceptClient, Inv, NetTypes
<1>4. Queue'
  BY <1>3, ShorterQueue DEF SessionInv, Ends, AcceptClient
<1>5. Ends'
  BY <1>1, <1>2, <1>4, ServerEnds DEF SessionInv, AcceptClient
<1>6. streams = {} /\ acc = NoConn
  BY DEF Inv, ServerInv, OwnStreams, SessionInv, Roles, AcceptClient
<1>7. Roles'
  BY <1>1, <1>6 DEF AcceptClient, Roles, Served
<1>8. Counted'
  BY DEF SessionInv, AcceptClient, Counted
<1>9. \A c \in Clients : ctrl # Ctrl(c)
  BY NoConnOther, CtrlConn DEF AcceptClient
<1>10. Mail'
  BY <1>1, <1>2, <1>9, ServerMail DEF SessionInv, AcceptClient
<1> QED BY <1>5, <1>7, <1>8, <1>10 DEF SessionInv

\* The connection that is denied is closed, so what it was sent does not count.
LEMMA AcceptBusyKeeps == ASSUME Inv, SessionInv, AcceptBusy PROVE SessionInv'
<1>1. CASE "reset" \in Faults /\ WriteFails(Head(backlog), {})
  BY <1>1, WriteFailsKeeps
<1>2. CASE /\ SendDown(Head(backlog), "ACCESS_DENIED")
           /\ CloseServer({Head(backlog)})
           /\ backlog' = Tail(backlog)
           /\ UNCHANGED <<serverVars, clientVars, cEnd, up>>
  <2>1. /\ Head(backlog) \in Conns /\ sEnd[Head(backlog)] = "backlog"
        /\ backlog # <<>>
    BY HeadWaits DEF SessionInv, Ends, AcceptBusy
  <2>2. Onward
    BY <1>2, <2>1, CloseOnward
  <2>3. /\ \A k \in Conns \ {Head(backlog)} : sEnd'[k] = sEnd[k]
        /\ sEnd'[Head(backlog)] = "closed"
    BY <1>2, <2>1 DEF CloseServer
  <2>4. Queue'
    BY <1>2, <2>1, <2>3, ShorterQueue DEF SessionInv, Ends
  <2>5. \A c \in Clients : /\ Sent(c)
                           /\ cEnd[Ctrl(c)] = "none" => down'[Ctrl(c)] = down[Ctrl(c)]
    BY <1>2, <2>1, <2>3, Plain, SendDownTo, CtrlConn DEF Sent
  <2>6. Ends'
    BY <1>2, <2>2, <2>4, <2>5, ServerEnds DEF SessionInv
  <2>7. Roles'
    BY <1>2, <2>2, SameRoles DEF SessionInv, serverVars
  <2>8. Counted'
    BY <1>2 DEF SessionInv, serverVars, Counted
  <2>9. Mail'
    BY <1>2, <2>2, <2>5, ServerMail DEF SessionInv, serverVars
  <2> QED BY <2>6, <2>7, <2>8, <2>9 DEF SessionInv
<1> QED BY <1>1, <1>2 DEF AcceptBusy

\* A step that sends a plain word on the control connection and goes on.
LEMMA TalkKeeps ==
  ASSUME Inv, SessionInv, ctrl \in Conns, acc = NoConn,
         NEW m \in Messages \ Started, SendDown(ctrl, m),
         UNCHANGED <<ctrl, acc, accepted, streams, clientVars, cEnd>>,
         spc' # "starting", sstate' # "TEST_RUNNING",
         Onward, Queue'
  PROVE  SessionInv'
<1>1. \A c \in Clients : /\ Sent(c)
                         /\ cEnd[Ctrl(c)] = "none" => down'[Ctrl(c)] = down[Ctrl(c)]
  BY SentPlain
<1>2. Ends'
  BY <1>1, ServerEnds DEF SessionInv
<1>3. Roles'
  BY SameRoles DEF SessionInv
<1>4. Counted'
  BY DEF SessionInv, Counted
<1>5. Mail'
  BY <1>1, ServerMail DEF SessionInv
<1> QED BY <1>2, <1>3, <1>4, <1>5 DEF SessionInv

\* A socket is read from only where iperf_tcp_accept is blocked.
LEMMA NotAccepting ==
  ASSUME SessionInv, spc \notin {"streamCookie", "dead"} PROVE acc = NoConn
BY DEF SessionInv, Roles

LEMMA StayQueue ==
  ASSUME Inv, SessionInv, UNCHANGED <<backlog, sEnd>> PROVE Onward /\ Queue'
BY StayOnward, SameQueue DEF SessionInv, Ends

LEMMA ReopenQueue ==
  ASSUME Inv, SessionInv, Reopen PROVE Onward /\ Queue'
<1>1. CASE Relisten
  BY <1>1, CloseOnward, EmptyQueue DEF Reopen, Waiting
<1>2. CASE ~Relisten
  BY <1>2, StayQueue DEF Reopen
<1> QED BY <1>1, <1>2

LEMMA ReadCookieKeeps == ASSUME Inv, SessionInv, ReadCookie PROVE SessionInv'
<1>1. ctrl \in Conns /\ acc = NoConn
  BY InSession, NotAccepting DEF ReadCookie
<1>2. CASE WriteFails(ctrl, {}) \/ ReadFails(ctrl)
  BY <1>2, WriteFailsKeeps, ReadFailsKeeps
<1>3. CASE /\ SendDown(ctrl, "PARAM_EXCHANGE")
           /\ sstate' = "PARAM_EXCHANGE" /\ spc' = "params"
           /\ UNCHANGED <<ctrl, acc, accepted, streams, reverse, clientVars,
                          backlog, cEnd, sEnd>>
  BY <1>1, <1>3, StayQueue, Plain, TalkKeeps
<1> QED BY <1>2, <1>3 DEF ReadCookie

LEMMA ReadParamsKeeps == ASSUME Inv, SessionInv, ReadParams PROVE SessionInv'
<1>1. ctrl \in Conns /\ acc = NoConn
  BY InSession, NotAccepting DEF ReadParams
<1>2. CASE WriteFails(ctrl, {}) \/ Abort
  BY <1>2, WriteFailsKeeps, AbortKeeps
<1>3. CASE /\ SendDown(ctrl, "CREATE_STREAMS")
           /\ sstate' = "CREATE_STREAMS" /\ spc' = "select"
           /\ Reopen
           /\ UNCHANGED <<ctrl, cookie, acc, accepted, streams, clientVars, cEnd>>
  BY <1>1, <1>3, ReopenQueue, Plain, TalkKeeps
<1>4. CASE /\ SendDown(ctrl, "SERVER_ERROR")
           /\ EndSession({})
           /\ UNCHANGED <<clientVars, cEnd>>
  BY <1>1, <1>4, EndSessionKeeps
<1> QED BY <1>2, <1>3, <1>4 DEF ReadParams

LEMMA AcceptStreamKeeps == ASSUME Inv, SessionInv, AcceptStream PROVE SessionInv'
<1>1. Onward /\ sEnd'[Head(backlog)] = "open"
  BY AcceptOnward DEF SessionInv, Ends, AcceptStream
<1>2. Head(backlog) \in Conns /\ ~Served(Head(backlog))
  BY HeadWaits DEF SessionInv, Ends, AcceptStream
<1>3. \A c \in Clients : /\ Sent(c)
                         /\ cEnd[Ctrl(c)] = "none" => down'[Ctrl(c)] = down[Ctrl(c)]
  BY SentNothing DEF AcceptStream
<1>4. \A k \in Conns \ {Head(backlog)} : sEnd'[k] = sEnd[k]
  BY DEF AcceptStream, Inv, NetTypes
<1>5. Queue'
  BY <1>4, ShorterQueue DEF SessionInv, Ends, AcceptStream
<1>6. Ends'
  BY <1>1, <1>3, <1>5, ServerEnds DEF SessionInv, AcceptStream
<1>7. Roles'
  <2>1. ctrl \in Conns /\ Served(ctrl)
    BY DEF Inv, ServerInv, ServerTypes, NoSession, SessionInv, Roles, AcceptStream
  <2>2. Served(ctrl)' /\ \A k \in streams : Served(k)'
    BY <1>1, <2>1
    DEF Onward, Inv, ServerInv, ServerTypes, SessionInv, Roles, AcceptStream, Served
  <2>3. Head(backlog) # ctrl /\ Head(backlog) \notin streams
    BY <1>2, <2>1 DEF SessionInv, Roles
  <2>4. ASSUME Head(backlog)[1] = ctrl[1], ~(Head(backlog)[2] > 0) PROVE FALSE
    <3>1. PICK c \in Clients, i \in 0..NumStreams : ctrl = <<c, i>>
      BY <2>1 DEF Conns
    <3>2. Head(backlog) = Ctrl(c)
      BY <1>2, <2>4, <3>1, Numbers DEF Conns, Ctrl
    <3>3. i \in 1..NumStreams
      BY <2>3, <3>1, <3>2, Numbers DEF Ctrl
    <3>4. sEnd[<<c, i>>] # "none"
      BY <2>1, <3>1 DEF Served
    <3>5. Served(Ctrl(c))
      BY <3>3, <3>4 DEF SessionInv, Ends, InTurn
    <3> QED BY <1>2, <3>2, <3>5
  <2>5. streams' = streams /\ ctrl' = ctrl /\ acc' = Head(backlog) /\ spc' = "streamCookie"
    BY DEF AcceptStream
  <2>6. Served(acc)'
    BY <1>1, <2>5 DEF Served
  <2>7. \A k \in streams : k # ctrl /\ k[2] > 0
    BY DEF SessionInv, Roles
  <2> QED BY <2>2, <2>3, <2>4, <2>5, <2>6, <2>7 DEF Roles
<1>8. Counted'
  BY DEF SessionInv, AcceptStream, Counted
<1>9. Mail'
  BY <1>1, <1>3, ServerMail DEF SessionInv, AcceptStream
<1> QED BY <1>6, <1>7, <1>8, <1>9 DEF SessionInv

\* A client has NumStreams data connections.
LEMMA DataCount ==
  ASSUME NEW c \in Clients
  PROVE  IsFiniteSet(Data(c)) /\ Cardinality(Data(c)) = NumStreams
<1> DEFINE f == [i \in 1..NumStreams |-> <<c, i>>]
<1>1. \A k \in Data(c) : k = <<c, k[2]>> /\ k[2] \in 1..NumStreams
  BY Numbers DEF Data, Conns
<1>2. f \in [1..NumStreams -> Data(c)]
  BY Numbers DEF Data, Conns
<1>3. \A a, b \in 1..NumStreams : f[a] = f[b] => a = b
  OBVIOUS
<1>4. \A t \in Data(c) : \E s \in 1..NumStreams : f[s] = t
  BY <1>1
<1>5. f \in Bijection(1..NumStreams, Data(c))
  BY <1>2, <1>3, <1>4, Fun_IsBij
<1>6. ExistsBijection(1..NumStreams, Data(c))
  BY <1>5, Fun_ExistsBij
<1> QED BY <1>6, Numbers, FS_NatBijection, FS_CountingElements

\* So many streams of one client are all it has.
LEMMA AllStreams ==
  ASSUME Inv, NEW c \in Clients, NEW S \in SUBSET Conns,
         \A k \in S : k[1] = c /\ k[2] > 0, Cardinality(S) = NumStreams
  PROVE  S = Data(c)
<1>1. S \in SUBSET Data(c)
  BY DEF Data
<1> QED BY <1>1, DataCount, FS_Subset

\* What is sent when the streams are complete is sent to a client all of whose
\* streams are accepted.
LEMMA SentStart ==
  ASSUME Inv, ctrl \in Conns, NEW m \in Messages, SendDown(ctrl, m),
         NEW S \in SUBSET Conns, \A k \in S : Served(k) /\ k[1] = ctrl[1] /\ k[2] > 0,
         Cardinality(S) = NumStreams
  PROVE  \A c \in Clients : /\ Sent(c)
                            /\ cEnd[Ctrl(c)] = "none" => down'[Ctrl(c)] = down[Ctrl(c)]
<1> SUFFICES ASSUME NEW c \in Clients
             PROVE  /\ Sent(c)
                    /\ cEnd[Ctrl(c)] = "none" => down'[Ctrl(c)] = down[Ctrl(c)]
  OBVIOUS
<1>1. CASE ctrl # Ctrl(c)
  BY <1>1, SendDownTo, CtrlConn DEF Sent
<1>2. CASE ctrl = Ctrl(c)
  <2>1. ctrl[1] = c
    BY <1>2 DEF Ctrl
  <2>2. S = Data(c)
    BY <2>1, AllStreams
  <2>3. \A k \in Data(c) : Served(k)
    BY <2>2
  <2> QED BY <1>2, <2>3, SendDownTo, CtrlConn DEF Sent
<1> QED BY <1>1, <1>2

LEMMA NewStreamKeeps ==
  ASSUME Inv, SessionInv, spc = "streamCookie", NewStream PROVE SessionInv'
<1>1. /\ acc \in Conns /\ acc # NoConn /\ sstate = "CREATE_STREAMS"
      /\ accepted < NumStreams /\ accepted \in 0..NumStreams
  BY NoConnOther DEF Inv, ServerInv, ServerTypes, Blocked
<1>2. ctrl \in Conns /\ ctrl # NoConn /\ ctrl[1] = cookie /\ acc[1] = cookie
  BY <1>1, ConnParts, NoConnOther
  DEF Inv, ServerInv, ServerTypes, OwnCookie, NewStream
<1>3. Served(acc) /\ acc # ctrl /\ acc \notin streams /\ acc[2] > 0
  BY <1>1, <1>2 DEF SessionInv, Roles
<1>4. Onward /\ Queue'
  BY ReopenQueue, StayQueue DEF NewStream
<1>5. /\ streams' = streams \cup {acc} /\ accepted' = accepted + 1
      /\ acc' = NoConn /\ ctrl' = ctrl
  BY DEF NewStream
<1>6. IsFiniteSet(streams') /\ Cardinality(streams') = accepted'
  BY <1>3, <1>5, FS_AddElement DEF SessionInv, Counted
<1>7. /\ streams' \in SUBSET Conns
      /\ \A k \in streams' : Served(k) /\ k[1] = ctrl[1] /\ k[2] > 0 /\ k # ctrl
  BY <1>1, <1>2, <1>3, <1>5
  DEF Inv, ServerInv, ServerTypes, OwnStreams, SessionInv, Roles
<1>8. \A c \in Clients : /\ Sent(c)
                         /\ cEnd[Ctrl(c)] = "none" => down'[Ctrl(c)] = down[Ctrl(c)]
  <2>1. CASE accepted + 1 = NumStreams
    <3>1. SendDown(ctrl, "TEST_START") /\ Cardinality(streams') = NumStreams
      BY <1>5, <1>6, <2>1 DEF NewStream
    <3>2. PICK S \in SUBSET Conns : S = streams'
      BY <1>7
    <3>3. /\ \A k \in S : Served(k) /\ k[1] = ctrl[1] /\ k[2] > 0
          /\ Cardinality(S) = NumStreams
      BY <1>7, <3>1, <3>2
    <3>4. "TEST_START" \in Messages
      BY Written
    <3> QED BY <1>2, <3>1, <3>3, <3>4, SentStart
  <2>2. CASE accepted + 1 # NumStreams
    BY <2>2, SentNothing DEF NewStream
  <2> QED BY <2>1, <2>2
<1>9. Ends'
  BY <1>4, <1>8, ServerEnds DEF SessionInv, NewStream
<1>10. Roles'
  <2>1. Served(ctrl)' /\ \A k \in streams' : Served(k)'
    BY <1>2, <1>4, <1>5, <1>7 DEF Onward, SessionInv, Roles, Served
  <2> QED BY <1>5, <1>7, <2>1 DEF Roles
<1>11. Counted'
  BY <1>1, <1>5, <1>6 DEF NewStream, Counted
<1>12. Mail'
  BY <1>4, <1>8, ServerMail DEF SessionInv, NewStream
<1> QED BY <1>9, <1>10, <1>11, <1>12 DEF SessionInv

LEMMA DenyStreamKeeps ==
  ASSUME Inv, SessionInv, spc = "streamCookie", DenyStream PROVE SessionInv'
<1>1. acc \in Conns /\ acc # NoConn /\ sstate = "CREATE_STREAMS"
  BY NoConnOther DEF Inv, ServerInv, Blocked
<1>2. Served(acc) /\ sEnd[acc] # "none" /\ sEnd[acc] # "backlog"
  BY <1>1 DEF SessionInv, Roles, Served
<1>3. Onward
  BY <1>2, CloseOnward DEF DenyStream
<1>4. sEnd'[acc] = "closed" /\ \A k \in Conns \ {acc} : sEnd'[k] = sEnd[k]
  BY <1>1 DEF DenyStream, CloseServer
<1>5. Queue'
  BY <1>2, <1>4, SameQueue DEF SessionInv, Ends, DenyStream
<1>6. \A c \in Clients : /\ Sent(c)
                         /\ cEnd[Ctrl(c)] = "none" => down'[Ctrl(c)] = down[Ctrl(c)]
  <2>1. SendDown(acc, "ACCESS_DENIED")
    BY DEF DenyStream
  <2> QED BY <1>1, <1>4, <2>1, Plain, SendDownTo, CtrlConn DEF Sent
<1>7. Ends'
  BY <1>3, <1>5, <1>6, ServerEnds DEF SessionInv, DenyStream
<1>8. Roles'
  <2>1. ctrl # NoConn => Served(ctrl)'
    BY <1>3 DEF Inv, ServerInv, ServerTypes, SessionInv, Roles, Onward, DenyStream, Served
  <2>2. \A k \in streams : Served(k)'
    BY <1>3 DEF Inv, ServerInv, ServerTypes, SessionInv, Roles, Onward
  <2>3. acc' = NoConn /\ streams' = streams /\ ctrl' = ctrl
    BY DEF DenyStream
  <2>4. \A k \in streams : k # ctrl /\ k[2] > 0
    BY DEF SessionInv, Roles
  <2> QED BY <2>1, <2>2, <2>3, <2>4 DEF Roles
<1>9. Counted'
  BY <1>1 DEF SessionInv, DenyStream, Counted
<1>10. Mail'
  BY <1>3, <1>6, ServerMail DEF SessionInv, DenyStream
<1> QED BY <1>7, <1>8, <1>9, <1>10 DEF SessionInv

LEMMA ReadStreamCookieKeeps ==
  ASSUME Inv, SessionInv, ReadStreamCookie PROVE SessionInv'
BY NewStreamKeeps, DenyStreamKeeps, WriteFailsKeeps, ReadFailsKeeps
DEF ReadStreamCookie

LEMMA StartTestKeeps == ASSUME Inv, SessionInv, StartTest PROVE SessionInv'
<1>1. CASE WriteFails(ctrl, {})
  BY <1>1, WriteFailsKeeps
<1>2. CASE /\ sstate' = "TEST_RUNNING" /\ spc' = "select"
           /\ SendDown(ctrl, "TEST_RUNNING")
           /\ UNCHANGED <<ctrl, cookie, acc, accepted, streams, reverse,
                          clientVars, backlog, cEnd, sEnd, up>>
  <2>1. ctrl \in Conns /\ acc = NoConn
    BY InSession, NotAccepting DEF StartTest
  <2>2. Cardinality(streams) = NumStreams /\ accepted = NumStreams
    BY DEF SessionInv, Counted, StartTest
  <2>3. /\ streams \in SUBSET Conns
        /\ \A k \in streams : Served(k) /\ k[1] = ctrl[1] /\ k[2] > 0
    BY DEF Inv, ServerInv, ServerTypes, OwnStreams, SessionInv, Roles
  <2>4. Onward /\ Queue'
    BY <1>2, StayQueue
  <2>5. \A c \in Clients : /\ Sent(c)
                           /\ cEnd[Ctrl(c)] = "none" => down'[Ctrl(c)] = down[Ctrl(c)]
    BY <1>2, <2>1, <2>2, <2>3, Written, SentStart
  <2>6. Ends'
    BY <1>2, <2>4, <2>5, ServerEnds DEF SessionInv
  <2>7. Roles'
    BY <1>2, <2>1, <2>4, SameRoles DEF SessionInv
  <2>8. Counted'
    BY <1>2, <2>2 DEF SessionInv, Counted
  <2>9. Mail'
    BY <1>2, <2>4, <2>5, ServerMail DEF SessionInv
  <2> QED BY <2>6, <2>7, <2>8, <2>9 DEF SessionInv
<1> QED BY <1>1, <1>2 DEF StartTest

\* Data goes over the streams, which are not control connections.
LEMMA SendDataKeeps == ASSUME Inv, SessionInv, SendData PROVE SessionInv'
<1>1. PICK k \in streams :
        \/ /\ SendDown(k, "half")
           /\ UNCHANGED <<serverVars, clientVars, backlog, cEnd, sEnd, up>>
        \/ WriteFails(k, {})
  BY DEF SendData
<1>2. k \in Conns /\ k[2] > 0
  BY DEF Inv, ServerInv, ServerTypes, SessionInv, Roles
<1>3. CASE WriteFails(k, {})
  BY <1>3, WriteFailsKeeps
<1>4. CASE /\ SendDown(k, "half")
           /\ UNCHANGED <<serverVars, clientVars, backlog, cEnd, sEnd, up>>
  <2>1. \A c \in Clients : k # Ctrl(c)
    BY <1>2 DEF Ctrl
  <2>2. \A c \in Clients : /\ Sent(c)
                           /\ cEnd[Ctrl(c)] = "none" => down'[Ctrl(c)] = down[Ctrl(c)]
    BY <1>2, <1>4, <2>1, Written, SendDownTo, CtrlConn DEF Sent
  <2>3. Onward /\ Queue'
    BY <1>4, StayQueue
  <2>4. Ends'
    BY <1>4, <2>2, <2>3, ServerEnds DEF SessionInv
  <2>5. Roles'
    BY <1>4, <2>3, SameRoles DEF SessionInv, serverVars
  <2>6. Counted'
    BY <1>4 DEF SessionInv, Counted, serverVars
  <2>7. Mail'
    BY <1>4, <2>2, <2>3, ServerMail DEF SessionInv, serverVars
  <2> QED BY <2>4, <2>5, <2>6, <2>7 DEF SessionInv
<1> QED BY <1>1, <1>3, <1>4

LEMMA RecvDataKeeps == ASSUME Inv, SessionInv, RecvData PROVE SessionInv'
BY ReadFailsKeeps DEF RecvData

\* Streams that are closed are not in the queue.
LEMMA HandleTestEndKeeps ==
  ASSUME Inv, SessionInv, spc = "select", ctrl \in Conns, HandleTestEnd
  PROVE  SessionInv'
<1>1. CASE WriteFails(ctrl, streams)
  BY <1>1, WriteFailsKeeps
<1>2. CASE /\ CloseServer(streams)
           /\ sstate' = "EXCHANGE_RESULTS" /\ spc' = "results"
           /\ SendDown(ctrl, "EXCHANGE_RESULTS")
           /\ UNCHANGED <<ctrl, cookie, acc, accepted, streams, reverse,
                          clientVars, backlog, cEnd>>
  <2>1. \A k \in streams : sEnd[k] # "none" /\ sEnd[k] # "backlog"
    BY DEF SessionInv, Roles, Served
  <2>2. Onward
    BY <1>2, <2>1, CloseOnward
  <2>3. Queue'
    BY <1>2, <2>1, SameQueue DEF SessionInv, Ends, CloseServer
  <2>4. acc = NoConn
    BY NotAccepting
  <2> QED BY <1>2, <2>2, <2>3, <2>4, Plain, TalkKeeps
<1> QED BY <1>1, <1>2 DEF HandleTestEnd

LEMMA HandleLastKeeps == ASSUME Inv, SessionInv, HandleLast PROVE SessionInv'
<1>1. PICK S \in SUBSET streams : EndSession(S)
  BY DEF HandleLast
<1> QED BY <1>1, EndSessionKeeps DEF HandleLast

LEMMA HandleMessageServerKeeps ==
  ASSUME Inv, SessionInv, HandleMessageServer PROVE SessionInv'
<1>1. ctrl \in Conns
  BY DEF Inv, ServerInv, ServerTypes, HandleMessageServer
<1> QED BY <1>1, HandleTestEndKeeps, HandleLastKeeps DEF HandleMessageServer

\* Results are read with every stream closed, so the test is not running.
LEMMA ReadResultsKeeps == ASSUME Inv, SessionInv, ReadResults PROVE SessionInv'
<1>1. ctrl \in Conns /\ acc = NoConn
  BY InSession, NotAccepting DEF ReadResults
<1>2. CASE WriteFails(ctrl, {}) \/ Abort
  BY <1>2, WriteFailsKeeps, AbortKeeps
<1>3. CASE /\ SendDown(ctrl, "json")
           /\ spc' = "display"
           /\ UNCHANGED <<sstate, ctrl, cookie, acc, accepted, streams, reverse,
                          clientVars, backlog, cEnd, sEnd>>
  <2>1. \A c \in Clients : /\ Sent(c)
                           /\ cEnd[Ctrl(c)] = "none" => down'[Ctrl(c)] = down[Ctrl(c)]
    BY <1>1, <1>3, Plain, SentPlain
  <2>2. Onward /\ Queue'
    BY <1>3, StayQueue
  <2>3. Ends'
    BY <1>3, <2>1, <2>2, ServerEnds DEF SessionInv
  <2>4. Roles'
    BY <1>1, <1>3, <2>2, SameRoles DEF SessionInv
  <2>5. Counted'
    BY <1>3 DEF SessionInv, Counted
  <2>6. Mail'
    BY <1>3, <2>1, <2>2, ServerMail DEF SessionInv
  <2> QED BY <2>3, <2>4, <2>5, <2>6 DEF SessionInv
<1> QED BY <1>2, <1>3 DEF ReadResults

LEMMA SendDisplayKeeps == ASSUME Inv, SessionInv, SendDisplay PROVE SessionInv'
<1>1. ctrl \in Conns /\ acc = NoConn
  BY InSession, NotAccepting DEF SendDisplay
<1>2. CASE WriteFails(ctrl, {})
  BY <1>2, WriteFailsKeeps
<1>3. CASE /\ sstate' = "DISPLAY_RESULTS" /\ spc' = "select"
           /\ SendDown(ctrl, "DISPLAY_RESULTS")
           /\ UNCHANGED <<ctrl, cookie, acc, accepted, streams, reverse,
                          clientVars, backlog, cEnd, sEnd, up>>
  BY <1>1, <1>3, StayQueue, Plain, TalkKeeps
<1> QED BY <1>2, <1>3 DEF SendDisplay

LEMMA ServerGoneKeeps ==
  ASSUME Inv, SessionInv, ServerSignal \/ ServerCrash PROVE SessionInv'
<1>1. ctrl # NoConn => ctrl \in Conns
  BY DEF Inv, ServerInv, ServerTypes
<1> QED BY <1>1, ServerExitKeeps DEF ServerSignal, ServerCrash

LEMMA ServerStepKeeps == ASSUME Inv, SessionInv, ServerStep PROVE SessionInv'
BY ListenKeeps, AcceptClientKeeps, AcceptBusyKeeps, ReadCookieKeeps,
   ReadParamsKeeps, AcceptStreamKeeps, ReadStreamCookieKeeps, StartTestKeeps,
   SendDataKeeps, RecvDataKeeps, HandleMessageServerKeeps, ReadResultsKeeps,
   SendDisplayKeeps
DEF ServerStep

-----------------------------------------------------------------------------
(* The steps of a client *)

\* Where a client is and what it was sent, if it has not begun, and the
\* connections it has made, if a step of a client makes none.
LEMMA ClientEnds ==
  ASSUME Inv, Ends, NEW c \in Clients, UNCHANGED <<backlog, sEnd>>,
         cpc'[c] # "init", InTurn(c)',
         \A d \in Clients \ {c} : /\ cpc'[d] = cpc[d] /\ cstate'[d] = cstate[d]
                                  /\ next'[d] = next[d]
                                  /\ cEnd'[Ctrl(d)] = cEnd[Ctrl(d)]
                                  /\ down'[Ctrl(d)] = down[Ctrl(d)]
  PROVE  Ends'
<1>1. Queue'
  BY SameQueue DEF Ends
<1>2. Fresh(c)'
  BY DEF Fresh
<1>3. ASSUME NEW d \in Clients \ {c} PROVE (Fresh(d) /\ InTurn(d))'
  <2>1. Fresh(d)'
    BY <1>3 DEF Ends, Fresh, Ctrl
  <2>2. InTurn(d)'
    BY <1>3 DEF Ends, InTurn, Unused, Served, Ctrl
  <2> QED BY <2>1, <2>2
<1> QED BY <1>1, <1>2, <1>3 DEF Ends

\* A client that connects nothing and goes on, or has ended.
LEMMA TurnKept ==
  ASSUME Ends, NEW c \in Clients, UNCHANGED sEnd, next'[c] = next[c],
         \/ cpc'[c] \in {"failed", "killed"}
         \/ cpc[c] \notin {"streamCookie", "failed", "killed"},
         cpc'[c] \in {"connect", "streamCookie"} => Served(Ctrl(c))
  PROVE  InTurn(c)'
BY DEF Ends, InTurn, Unused, Served, Ctrl

\* What is left of what the client was sent.
Left(c) ==
  \A i \in DOMAIN down'[Ctrl(c)] :
    \E j \in DOMAIN down[Ctrl(c)] : down'[Ctrl(c)][i] = down[Ctrl(c)][j]

LEMMA LeftEmpty ==
  ASSUME Inv, Inv', NEW c \in Clients, Left(c), down'[Ctrl(c)] # <<>>
  PROVE  down[Ctrl(c)] # <<>>
<1>1. down'[Ctrl(c)] \in Seq(Messages) /\ Ctrl(c) \in Conns
  BY CtrlConn DEF Inv, NetTypes
<1>2. 1 \in DOMAIN down'[Ctrl(c)]
  BY <1>1
<1>3. PICK j \in DOMAIN down[Ctrl(c)] : TRUE
  BY <1>2 DEF Left
<1> QED BY <1>3

\* A client enters a state it is told of, or that follows from one it is in.
LEMMA ClientMail ==
  ASSUME Inv, Inv', Mail, NEW c \in Clients, UNCHANGED ctrl,
         \A k \in Conns : /\ Served(k) => Served(k)'
                          /\ sEnd[k] = "closed" => sEnd'[k] = "closed",
         \A d \in Clients : Left(d),
         \A d \in Clients \ {c} : cstate'[d] = cstate[d],
         \/ cstate'[c] = cstate[c]
         \/ /\ cstate[c] # "IPERF_START" \/ down[Ctrl(c)] # <<>>
            /\ cstate'[c] \in Started => ToldStart(c)
  PROVE  Mail'
<1> SUFFICES ASSUME NEW d \in Clients PROVE (Addressed(d) /\ Complete(d))'
  BY DEF Mail
<1>1. Ctrl(d) \in Conns /\ Data(d) \subseteq Conns /\ Ctrl(d)' = Ctrl(d) /\ Data(d)' = Data(d)
  BY CtrlConn DEF Ctrl, Data, Conns
<1>2. Addressed(d) /\ Complete(d) /\ Left(d)
  BY DEF Mail
<1>3. Addressed(d)'
  <2>1. cstate'[d] # "IPERF_START" \/ down'[Ctrl(d)] # <<>>
          => cstate[d] # "IPERF_START" \/ down[Ctrl(d)] # <<>>
    BY LeftEmpty
  <2> QED BY <1>1, <1>2, <2>1 DEF Addressed
<1>4. ToldStart(d)' => ToldStart(d)
  <2>1. cstate'[d] \in Started => ToldStart(d)
    BY DEF ToldStart
  <2>2. ASSUME NEW i \in DOMAIN down'[Ctrl(d)], down'[Ctrl(d)][i] \in Started
        PROVE  ToldStart(d)
    BY <1>2, <2>2 DEF Left, ToldStart
  <2> QED BY <1>1, <2>1, <2>2 DEF ToldStart
<1>5. Complete(d)'
  <2>1. (\A k \in Data(d) : Served(k)) => (\A k \in Data(d) : Served(k)')
    BY <1>1
  <2>2. ToldStart(d)' => \A k \in Data(d) : Served(k)'
    BY <1>2, <1>4, <2>1 DEF Complete
  <2> QED BY <1>1, <2>2 DEF Complete
<1> QED BY <1>3, <1>5

\* The server's view of a step that is not its own.
LEMMA ServerView ==
  ASSUME Inv, SessionInv, UNCHANGED serverVars,
         \A k \in Conns : Served(k) => Served(k)'
  PROVE  (Roles /\ Counted)'
<1>1. Roles'
  <2>1. /\ ctrl # NoConn => Served(ctrl)'
        /\ acc # NoConn => Served(acc)'
        /\ \A k \in streams : Served(k)'
    BY DEF Inv, ServerInv, ServerTypes, SessionInv, Roles, serverVars, Served
  <2> QED BY <2>1 DEF SessionInv, Roles, serverVars, Served
<1>2. Counted'
  BY DEF SessionInv, Counted, serverVars
<1> QED BY <1>1, <1>2

\* All of that for a step of a client that makes no connection.
LEMMA ClientKeeps ==
  ASSUME Inv, Inv', SessionInv, NEW c \in Clients,
         UNCHANGED serverVars, UNCHANGED <<backlog, sEnd>>,
         cpc'[c] # "init", InTurn(c)',
         \A d \in Clients : Left(d),
         \A d \in Clients \ {c} : /\ cpc'[d] = cpc[d] /\ cstate'[d] = cstate[d]
                                  /\ next'[d] = next[d]
                                  /\ cEnd'[Ctrl(d)] = cEnd[Ctrl(d)]
                                  /\ down'[Ctrl(d)] = down[Ctrl(d)],
         \/ cstate'[c] = cstate[c]
         \/ /\ cstate[c] # "IPERF_START" \/ down[Ctrl(c)] # <<>>
            /\ cstate'[c] \in Started => ToldStart(c)
  PROVE  SessionInv'
<1>1. Ends'
  BY ClientEnds DEF SessionInv
<1>2. \A k \in Conns : /\ Served(k) => Served(k)'
                       /\ sEnd[k] = "closed" => sEnd'[k] = "closed"
  BY DEF Served
<1>3. (Roles /\ Counted)'
  BY <1>2, ServerView
<1>4. Mail'
  BY <1>2, ClientMail DEF SessionInv, serverVars
<1> QED BY <1>1, <1>3, <1>4 DEF SessionInv

-----------------------------------------------------------------------------
(* What a step of a client does to the others *)

LEMMA Others ==
  ASSUME NEW c \in Clients, NEW d \in Clients \ {c}
  PROVE  /\ Ctrl(d) \notin Of(c) /\ Ctrl(d) \notin Data(c) /\ Ctrl(d) # Ctrl(c)
         /\ \A i : Ctrl(d) # <<c, i>>
BY DEF Ctrl, Of, Data

LEMMA GotoOther ==
  ASSUME Inv, NEW c \in Clients, NEW pc, Goto(c, pc)
  PROVE  cpc'[c] = pc /\ \A d \in Clients \ {c} : cpc'[d] = cpc[d]
BY DEF Inv, ClientInv, ClientTypes, Goto

LEMMA EnterOther ==
  ASSUME Inv, NEW c \in Clients, NEW m, Enter(c, m)
  PROVE  cstate'[c] = m /\ \A d \in Clients \ {c} : cstate'[d] = cstate[d]
BY DEF Inv, ClientInv, ClientTypes, Enter

LEMMA CloseOther ==
  ASSUME Inv, NEW c \in Clients, NEW S, S \subseteq Of(c), CloseClient(S)
  PROVE  \A d \in Clients \ {c} : cEnd'[Ctrl(d)] = cEnd[Ctrl(d)]
BY Others, CtrlConn DEF CloseClient

LEMMA LeftSame == ASSUME UNCHANGED down PROVE \A d \in Clients : Left(d)
BY DEF Left

\* A message is taken off the control connection.
LEMMA LeftTail ==
  ASSUME Inv, NEW c \in Clients, down[Ctrl(c)] # <<>>, PopDown(Ctrl(c))
  PROVE  /\ \A d \in Clients : Left(d)
         /\ \A d \in Clients \ {c} : down'[Ctrl(d)] = down[Ctrl(d)]
<1>1. Ctrl(c) \in Conns /\ down[Ctrl(c)] \in Seq(Messages)
  BY CtrlConn DEF Inv, NetTypes
<1>2. \A d \in Clients \ {c} : down'[Ctrl(d)] = down[Ctrl(d)]
  BY Others, CtrlConn DEF PopDown, Inv, NetTypes
<1>3. down'[Ctrl(c)] = Tail(down[Ctrl(c)])
  BY <1>1 DEF PopDown, Inv, NetTypes
<1>4. Left(c)
  BY <1>1, <1>3, TailOf DEF Left
<1>5. \A d \in Clients \ {c} : Left(d)
  BY <1>2 DEF Left
<1> QED BY <1>2, <1>4, <1>5

\* Data is read off a connection of the client.
LEMMA LeftData ==
  ASSUME Inv, NEW c \in Clients, NEW k \in Of(c),
         \A j \in Conns \ {k} : down'[j] = down[j],
         \A i \in DOMAIN down'[k] : \E j \in DOMAIN down[k] : down'[k][i] = down[k][j]
  PROVE  /\ \A d \in Clients : Left(d)
         /\ \A d \in Clients \ {c} : down'[Ctrl(d)] = down[Ctrl(d)]
<1>1. \A d \in Clients \ {c} : down'[Ctrl(d)] = down[Ctrl(d)]
  BY Others, CtrlConn DEF Of
<1>2. \A d \in Clients \ {c} : Left(d)
  BY <1>1 DEF Left
<1>3. Left(c)
  BY CtrlConn DEF Left
<1> QED BY <1>1, <1>2, <1>3

\* All of the data is read.
LEMMA LeftNone ==
  ASSUME Inv, NEW c \in Clients, NEW k \in Of(c), down' = [down EXCEPT ![k] = <<>>]
  PROVE  /\ \A d \in Clients : Left(d)
         /\ \A d \in Clients \ {c} : down'[Ctrl(d)] = down[Ctrl(d)]
<1>1. k \in Conns
  BY DEF Of
<1>2. down'[k] = <<>> /\ \A j \in Conns \ {k} : down'[j] = down[j]
  BY <1>1 DEF Inv, NetTypes
<1>3. \A i \in DOMAIN down'[k] : FALSE
  BY <1>2
<1> QED BY <1>2, <1>3, LeftData

-----------------------------------------------------------------------------
(* The actions of the clients *)

LEMMA ClientFailsKeeps ==
  ASSUME Inv, Inv', SessionInv, NEW c \in Clients, ClientFails(c) PROVE SessionInv'
<1>1. cpc'[c] = "failed" /\ \A d \in Clients \ {c} : cpc'[d] = cpc[d]
  BY GotoOther DEF ClientFails
<1>2. PICK S : S \subseteq Of(c) /\ CloseClient(S)
  BY DEF ClientFails
<1>3. \A d \in Clients \ {c} : cEnd'[Ctrl(d)] = cEnd[Ctrl(d)]
  BY <1>2, CloseOther
<1>4. /\ UNCHANGED serverVars /\ UNCHANGED <<backlog, sEnd>>
      /\ UNCHANGED <<cstate, next, down>>
  BY DEF ClientFails
<1>5. InTurn(c)'
  BY <1>1, <1>4, TurnKept DEF SessionInv
<1> QED BY <1>1, <1>3, <1>4, <1>5, LeftSame, ClientKeeps

\* The connection a client makes waits once.
LEMMA LongerQueue ==
  ASSUME Inv, Queue, NEW k \in Conns, sEnd[k] = "none",
         sEnd' = [sEnd EXCEPT ![k] = "backlog"], backlog' = Append(backlog, k)
  PROVE  /\ Queue'
         /\ \A j \in Conns \ {k} : sEnd'[j] = sEnd[j]
         /\ \A j \in Conns : /\ Served(j) => Served(j)'
                             /\ sEnd[j] = "closed" => sEnd'[j] = "closed"
<1>1. sEnd'[k] = "backlog" /\ \A j \in Conns \ {k} : sEnd'[j] = sEnd[j]
  BY DEF Inv, NetTypes
<1>2. backlog \in Seq(Conns)
  BY DEF Inv, NetTypes
<1>3. \A i \in DOMAIN backlog : backlog[i] # k /\ backlog[i] \in Conns
  BY <1>2 DEF Queue
<1>4. /\ DOMAIN backlog' = 1..(Len(backlog) + 1) /\ backlog'[Len(backlog) + 1] = k
      /\ \A i \in DOMAIN backlog : backlog'[i] = backlog[i]
      /\ \A i \in DOMAIN backlog' : i \in DOMAIN backlog \/ i = Len(backlog) + 1
  BY <1>2
<1>5. \A i \in DOMAIN backlog' : sEnd'[backlog'[i]] = "backlog"
  BY <1>1, <1>3, <1>4 DEF Queue
<1>6. \A i, j \in DOMAIN backlog' : backlog'[i] = backlog'[j] => i = j
  BY <1>3, <1>4 DEF Queue
<1>7. Queue'
  BY <1>5, <1>6 DEF Queue
<1> QED BY <1>1, <1>7 DEF Served

\* A client that makes a connection is in turn afterwards, and the others are
\* where they were.
LEMMA OpenKeeps ==
  ASSUME Inv, Inv', SessionInv, NEW c \in Clients, NEW i \in 0..NumStreams,
         NEW pc \in {"cookie", "streamCookie"}, Goto(c, pc),
         sEnd[<<c, i>>] = "none",
         cEnd' = [cEnd EXCEPT ![<<c, i>>] = "open"],
         sEnd' = [sEnd EXCEPT ![<<c, i>>] = "backlog"],
         backlog' = Append(backlog, <<c, i>>),
         UNCHANGED <<serverVars, cstate, next, reading, up, down>>,
         InTurn(c)'
  PROVE  SessionInv'
<1>1. <<c, i>> \in Conns
  BY DEF Conns
<1>2. /\ Queue'
      /\ \A j \in Conns \ {<<c, i>>} : sEnd'[j] = sEnd[j]
      /\ \A j \in Conns : /\ Served(j) => Served(j)'
                          /\ sEnd[j] = "closed" => sEnd'[j] = "closed"
  BY <1>1, LongerQueue DEF SessionInv, Ends
<1>3. cpc'[c] = pc /\ \A d \in Clients \ {c} : cpc'[d] = cpc[d]
  BY GotoOther
<1>4. \A j \in Conns \ {<<c, i>>} : cEnd'[j] = cEnd[j]
  BY DEF Inv, NetTypes
<1>5. Ends'
  <2>1. Fresh(c)'
    BY <1>3 DEF Fresh
  <2>2. ASSUME NEW d \in Clients \ {c} PROVE (Fresh(d) /\ InTurn(d))'
    <3>1. /\ Ctrl(d) \in Conns \ {<<c, i>>}
          /\ \A n \in 1..NumStreams : <<d, n>> \in Conns \ {<<c, i>>}
      BY <2>2, CtrlConn, Others DEF Conns
    <3>2. /\ sEnd'[Ctrl(d)] = sEnd[Ctrl(d)] /\ cEnd'[Ctrl(d)] = cEnd[Ctrl(d)]
          /\ \A n \in 1..NumStreams : sEnd'[<<d, n>>] = sEnd[<<d, n>>]
      BY <1>2, <1>4, <3>1
    <3>3. cpc'[d] = cpc[d] /\ next'[d] = next[d] /\ cstate' = cstate /\ down' = down
      BY <1>3, <2>2
    <3>4. Fresh(d)'
      BY <3>2, <3>3 DEF SessionInv, Ends, Fresh, Ctrl
    <3>5. InTurn(d)'
      BY <3>2, <3>3 DEF SessionInv, Ends, InTurn, Unused, Served, Ctrl
    <3> QED BY <3>4, <3>5
  <2> QED BY <1>2, <2>1, <2>2 DEF Ends
<1>6. (Roles /\ Counted)'
  BY <1>2, ServerView
<1>7. Mail'
  BY <1>2, LeftSame, ClientMail DEF SessionInv, serverVars
<1> QED BY <1>5, <1>6, <1>7 DEF SessionInv

LEMMA ConnectKeeps ==
  ASSUME Inv, Inv', SessionInv, NEW c \in Clients, Connect(c) PROVE SessionInv'
<1>1. CASE ~Listening
  BY <1>1, ClientFailsKeeps DEF Connect
<1>2. CASE Listening
  <2>1. sEnd[Ctrl(c)] = "none" /\ cpc[c] = "init"
    BY DEF SessionInv, Ends, Fresh, Connect, At
  <2>2. \A n \in 1..NumStreams : sEnd[<<c, n>>] = "none"
    BY <2>1 DEF SessionInv, Ends, InTurn, Served
  <2>3. Goto(c, "cookie") /\ cpc'[c] = "cookie"
    BY <1>2, GotoOther DEF Connect
  <2>4. \A n \in 1..NumStreams : sEnd'[<<c, n>>] = "none"
    <3>1. \A n \in 1..NumStreams : <<c, n>> \in Conns \ {Ctrl(c)}
      BY DEF Conns, Ctrl
    <3> QED BY <1>2, <2>2, <3>1 DEF Connect, Inv, NetTypes
  <2>5. InTurn(c)'
    BY <2>3, <2>4 DEF InTurn
  <2> QED BY <1>2, <2>1, <2>3, <2>5, Numbers, OpenKeeps DEF Connect, Ctrl
<1> QED BY <1>1, <1>2

LEMMA ConnectStreamKeeps ==
  ASSUME Inv, Inv', SessionInv, NEW c \in Clients, ConnectStream(c) PROVE SessionInv'
<1>1. CASE ~Listening
  BY <1>1, ClientFailsKeeps DEF ConnectStream
<1>2. CASE Listening
  <2>1. /\ next[c] \in 1..NumStreams /\ <<c, next[c]>> \in Conns
        /\ cpc[c] = "connect"
    BY NextConn DEF ConnectStream, At
  <2>2. sEnd[<<c, next[c]>>] = "none" /\ Served(Ctrl(c))
    BY <2>1 DEF SessionInv, Ends, InTurn, Unused
  <2>3. Goto(c, "streamCookie") /\ cpc'[c] = "streamCookie" /\ next' = next
    BY <1>2, GotoOther DEF ConnectStream
  <2>4. \A k \in Conns \ {<<c, next[c]>>} : sEnd'[k] = sEnd[k]
    BY <1>2 DEF ConnectStream, Inv, NetTypes
  <2>5. Served(Ctrl(c))'
    <3>1. Ctrl(c) \in Conns \ {<<c, next[c]>>}
      BY <2>1, CtrlConn DEF Ctrl
    <3> QED BY <2>2, <2>4, <3>1 DEF Served, Ctrl
  <2>6. ASSUME NEW n \in 1..NumStreams, Unused(c, n)' PROVE sEnd'[<<c, n>>] = "none"
    <3>1. n > next[c]
      BY <2>3, <2>6 DEF Unused
    <3>2. <<c, n>> \in Conns \ {<<c, next[c]>>} /\ Unused(c, n)
      BY <2>1, <3>1 DEF Conns, Unused
    <3> QED BY <2>4, <3>2 DEF SessionInv, Ends, InTurn
  <2>7. InTurn(c)'
    BY <2>5, <2>6 DEF InTurn
  <2>8. next[c] \in 0..NumStreams
    BY <2>1
  <2> QED BY <1>2, <2>2, <2>3, <2>7, <2>8, OpenKeeps DEF ConnectStream
<1> QED BY <1>1, <1>2

LEMMA SendCookieKeeps ==
  ASSUME Inv, Inv', SessionInv, NEW c \in Clients, SendCookie(c) PROVE SessionInv'
<1>1. CASE ClientFails(c)
  BY <1>1, ClientFailsKeeps
<1>2. CASE /\ Goto(c, "select")
           /\ UNCHANGED <<serverVars, cstate, next, reading, backlog, cEnd, sEnd, down>>
  <2>1. cpc'[c] = "select" /\ \A d \in Clients \ {c} : cpc'[d] = cpc[d]
    BY <1>2, GotoOther
  <2>2. InTurn(c)'
    BY <1>2, <2>1, TurnKept DEF SessionInv, SendCookie, At
  <2> QED BY <1>2, <2>1, <2>2, LeftSame, ClientKeeps
<1> QED BY <1>1, <1>2 DEF SendCookie

LEMMA SendStreamCookieKeeps ==
  ASSUME Inv, Inv', SessionInv, NEW c \in Clients, SendStreamCookie(c)
  PROVE  SessionInv'
<1>1. CASE ClientFails(c)
  BY <1>1, ClientFailsKeeps
<1>2. CASE /\ Goto(c, IF next[c] = NumStreams THEN "select" ELSE "connect")
           /\ next' = [next EXCEPT ![c] = @ + 1]
           /\ UNCHANGED <<serverVars, cstate, reading, backlog, cEnd, sEnd, down>>
  <2>1. /\ cpc'[c] \in {"select", "connect"}
        /\ \A d \in Clients \ {c} : cpc'[d] = cpc[d]
    BY <1>2, GotoOther
  <2>2. /\ next[c] \in Nat /\ next'[c] = next[c] + 1
        /\ \A d \in Clients \ {c} : next'[d] = next[d]
    BY <1>2, Numbers DEF Inv, ClientInv, ClientTypes
  <2>3. Served(Ctrl(c))' /\ cpc[c] = "streamCookie"
    BY <1>2 DEF SessionInv, Ends, InTurn, SendStreamCookie, At, Served, Ctrl
  <2>4. ASSUME NEW n \in 1..NumStreams, Unused(c, n)' PROVE sEnd'[<<c, n>>] = "none"
    <3>1. Unused(c, n)
      BY <2>2, <2>4 DEF Unused
    <3> QED BY <1>2, <3>1 DEF SessionInv, Ends, InTurn
  <2>5. InTurn(c)'
    BY <2>3, <2>4 DEF InTurn
  <2> QED BY <1>2, <2>1, <2>2, <2>5, LeftSame, ClientKeeps
<1> QED BY <1>1, <1>2 DEF SendStreamCookie

\* A client that handles a message has been accepted.
LEMMA Accepted ==
  ASSUME Inv, SessionInv, NEW c \in Clients, down[Ctrl(c)] # <<>>
  PROVE  Served(Ctrl(c))
<1>1. sEnd[Ctrl(c)] = "closed" \/ ctrl = Ctrl(c)
  BY DEF SessionInv, Mail, Addressed
<1>2. ctrl = Ctrl(c) => ctrl # NoConn
  BY CtrlConn, NoConnOther
<1> QED BY <1>1, <1>2 DEF SessionInv, Roles, Served

\* The message at the head is one the client was told of.
LEMMA HeadTold ==
  ASSUME Inv, NEW c \in Clients, down[Ctrl(c)] # <<>>, Head(down[Ctrl(c)]) \in Started
  PROVE  ToldStart(c)
<1>1. down[Ctrl(c)] \in Seq(Messages)
  BY CtrlConn DEF Inv, NetTypes
<1>2. 1 \in DOMAIN down[Ctrl(c)] /\ Head(down[Ctrl(c)]) = down[Ctrl(c)][1]
  BY <1>1
<1> QED BY <1>2 DEF ToldStart

\* A client takes a message and enters the state it says, or one that is not
\* of the start.
LEMMA TakeKeeps ==
  ASSUME Inv, Inv', SessionInv, NEW c \in Clients, cpc[c] \in {"select", "results"},
         down[Ctrl(c)] # <<>>, PopDown(Ctrl(c)),
         UNCHANGED <<serverVars, next, backlog, sEnd>>,
         NEW pc \in {"select", "results", "connect", "done"}, cpc'[c] = pc,
         \A d \in Clients \ {c} : /\ cpc'[d] = cpc[d] /\ cstate'[d] = cstate[d]
                                  /\ cEnd'[Ctrl(d)] = cEnd[Ctrl(d)],
         cstate'[c] \in Started =>
           cstate'[c] = cstate[c] \/ cstate'[c] = Head(down[Ctrl(c)])
  PROVE  SessionInv'
<1>1. Served(Ctrl(c))
  BY Accepted
<1>2. InTurn(c)'
  BY <1>1, TurnKept DEF SessionInv
<1>3. /\ \A d \in Clients : Left(d)
      /\ \A d \in Clients \ {c} : down'[Ctrl(d)] = down[Ctrl(d)]
  BY LeftTail
<1>4. cstate'[c] \in Started => ToldStart(c)
  BY HeadTold DEF ToldStart
<1> QED BY <1>2, <1>3, <1>4, ClientKeeps

LEMMA ReplyKeeps ==
  ASSUME Inv, Inv', SessionInv, NEW c \in Clients, cpc[c] = "select",
         NEW m \in Messages \ Started, NEW r,
         NEW pc \in {"select", "results"}, Reply(c, m, r, pc)
  PROVE  SessionInv'
<1>1. cpc'[c] = pc /\ \A d \in Clients \ {c} : cpc'[d] = cpc[d]
  BY GotoOther DEF Reply
<1>2. cstate'[c] = m /\ \A d \in Clients \ {c} : cstate'[d] = cstate[d]
  BY EnterOther DEF Reply
<1> QED BY <1>1, <1>2, TakeKeeps DEF Reply, DownIs

LEMMA HandleExchangeKeeps ==
  ASSUME Inv, Inv', SessionInv, NEW c \in Clients, cpc[c] = "select",
         HandleExchange(c)
  PROVE  SessionInv'
BY ReplyKeeps, Plain, ClientFailsKeeps DEF HandleExchange

LEMMA HandleStartKeeps ==
  ASSUME Inv, Inv', SessionInv, NEW c \in Clients, cpc[c] = "select", HandleStart(c)
  PROVE  SessionInv'
<1>1. /\ cstate'[c] = Head(down[Ctrl(c)])
      /\ \A d \in Clients \ {c} : cstate'[d] = cstate[d]
  BY EnterOther DEF HandleStart
<1>2. /\ cpc'[c] \in {"select", "connect"}
      /\ \A d \in Clients \ {c} : cpc'[d] = cpc[d]
  BY GotoOther DEF HandleStart
<1>3. down[Ctrl(c)] # <<>>
  BY DEF HandleStart, DownIs
<1> QED BY <1>1, <1>2, <1>3, TakeKeeps DEF HandleStart

LEMMA HandleDisplayKeeps ==
  ASSUME Inv, Inv', SessionInv, NEW c \in Clients, cpc[c] = "select", HandleDisplay(c)
  PROVE  SessionInv'
<1>1. cstate'[c] = "IPERF_DONE" /\ \A d \in Clients \ {c} : cstate'[d] = cstate[d]
  BY EnterOther DEF HandleDisplay
<1>2. cpc'[c] = "done" /\ \A d \in Clients \ {c} : cpc'[d] = cpc[d]
  BY GotoOther DEF HandleDisplay
<1>3. PICK S : S \subseteq Of(c) /\ CloseClient(S)
  <2>1. Data(c) \subseteq Of(c)
    BY DEF Data, Of
  <2> QED BY <2>1 DEF HandleDisplay
<1>4. \A d \in Clients \ {c} : cEnd'[Ctrl(d)] = cEnd[Ctrl(d)]
  BY <1>3, CloseOther
<1>5. "IPERF_DONE" \notin Started
  BY DEF Started
<1> QED BY <1>1, <1>2, <1>4, <1>5, TakeKeeps DEF HandleDisplay, DownIs

LEMMA HandleMessageClientKeeps ==
  ASSUME Inv, Inv', SessionInv, NEW c \in Clients, HandleMessageClient(c)
  PROVE  SessionInv'
BY HandleExchangeKeeps, HandleStartKeeps, HandleDisplayKeeps, ClientFailsKeeps
DEF HandleMessageClient, HandleError, At

LEMMA ClientResultsKeeps ==
  ASSUME Inv, Inv', SessionInv, NEW c \in Clients, ClientResults(c)
  PROVE  SessionInv'
<1>1. CASE ClientFails(c)
  BY <1>1, ClientFailsKeeps
<1>2. CASE /\ DownIs(Ctrl(c), "json") /\ PopDown(Ctrl(c)) /\ Goto(c, "select")
           /\ UNCHANGED <<serverVars, cstate, next, reading, backlog, cEnd, sEnd, up>>
  <2>1. cpc'[c] = "select" /\ \A d \in Clients \ {c} : cpc'[d] = cpc[d]
    BY <1>2, GotoOther
  <2> QED BY <1>2, <2>1, TakeKeeps DEF ClientResults, At, DownIs
<1> QED BY <1>1, <1>2 DEF ClientResults

\* A client that is where it was, in a running test or after it.
LEMMA RunningKeeps ==
  ASSUME Inv, Inv', SessionInv, NEW c \in Clients, cpc[c] \in {"select", "drain"},
         UNCHANGED <<serverVars, next, backlog, cEnd, sEnd>>,
         cpc'[c] \in {"select", "drain"},
         \A d \in Clients : Left(d),
         \A d \in Clients \ {c} : /\ cpc'[d] = cpc[d] /\ cstate'[d] = cstate[d]
                                  /\ down'[Ctrl(d)] = down[Ctrl(d)],
         cstate'[c] = cstate[c] \/ cstate[c] = "TEST_RUNNING"
  PROVE  SessionInv'
<1>1. InTurn(c)'
  BY TurnKept DEF SessionInv
<1>2. cstate[c] = "TEST_RUNNING" => ToldStart(c) /\ cstate[c] # "IPERF_START"
  BY DEF ToldStart, Started
<1> QED BY <1>1, <1>2, ClientKeeps

LEMMA EndTestKeeps ==
  ASSUME Inv, Inv', SessionInv, NEW c \in Clients, EndTest(c) PROVE SessionInv'
<1>1. CASE ClientFails(c)
  BY <1>1, ClientFailsKeeps
<1>2. CASE /\ Enter(c, "TEST_END")
           /\ UNCHANGED <<serverVars, cpc, next, reading, backlog, cEnd, sEnd, down>>
  BY <1>2, EnterOther, LeftSame, RunningKeeps DEF EndTest, At
<1> QED BY <1>1, <1>2 DEF EndTest

LEMMA ReceiveDataKeeps ==
  ASSUME Inv, Inv', SessionInv, NEW c \in Clients, ReceiveData(c) PROVE SessionInv'
<1>1. PICK k \in Data(c) : down' = [down EXCEPT ![k] = <<>>]
  BY DEF ReceiveData
<1>2. k \in Of(c)
  BY DEF Data, Of
<1>3. /\ \A d \in Clients : Left(d)
      /\ \A d \in Clients \ {c} : down'[Ctrl(d)] = down[Ctrl(d)]
  BY <1>1, <1>2, LeftNone
<1> QED BY <1>3, RunningKeeps DEF ReceiveData, At, clientVars

LEMMA BeginDrainKeeps ==
  ASSUME Inv, Inv', SessionInv, NEW c \in Clients, BeginDrain(c) PROVE SessionInv'
<1>1. cpc'[c] = "drain" /\ \A d \in Clients \ {c} : cpc'[d] = cpc[d]
  BY GotoOther DEF BeginDrain
<1> QED BY <1>1, LeftSame, RunningKeeps DEF BeginDrain, At, netVars

LEMMA DrainKeeps ==
  ASSUME Inv, Inv', SessionInv, NEW c \in Clients, Drain(c) PROVE SessionInv'
<1>1. PICK k \in Of(c) :
        \/ down' = [down EXCEPT ![k] = <<>>]
        \/ /\ Len(down[k]) >= 2
           /\ down' = [down EXCEPT ![k] = SubSeq(@, 3, Len(@))]
  <2>1. <<c, reading[c]>> \in Of(c)
    BY DEF Inv, ClientInv, ClientTypes, Of, Conns
  <2> QED BY <2>1 DEF Drain
<1>2. down[k] \in Seq(Messages)
  BY DEF Inv, NetTypes, Of
<1>3. /\ \A d \in Clients : Left(d)
      /\ \A d \in Clients \ {c} : down'[Ctrl(d)] = down[Ctrl(d)]
  <2>1. CASE down' = [down EXCEPT ![k] = <<>>]
    BY <2>1, LeftNone
  <2>2. CASE /\ Len(down[k]) >= 2
             /\ down' = [down EXCEPT ![k] = SubSeq(@, 3, Len(@))]
    <3>1. /\ down'[k] = SubSeq(down[k], 3, Len(down[k]))
          /\ \A j \in Conns \ {k} : down'[j] = down[j]
      BY <2>2 DEF Inv, NetTypes, Of
    <3>2. \A i \in DOMAIN down'[k] : i + 2 \in DOMAIN down[k]
                                   /\ down'[k][i] = down[k][i + 2]
      BY <1>2, <2>2, <3>1
    <3> QED BY <3>1, <3>2, LeftData
  <2> QED BY <1>1, <2>1, <2>2
<1>4. cpc'[c] = "select" /\ \A d \in Clients \ {c} : cpc'[d] = cpc[d]
  BY GotoOther DEF Drain
<1> QED BY <1>3, <1>4, RunningKeeps DEF Drain, At

LEMMA ClientGoneKeeps ==
  ASSUME Inv, Inv', SessionInv, NEW c \in Clients, ClientSignal(c) \/ ClientCrash(c)
  PROVE  SessionInv'
<1>1. /\ Goto(c, "killed") /\ CloseClient(Of(c))
      /\ UNCHANGED <<serverVars, cstate, next, backlog, sEnd, down>>
  BY DEF ClientSignal, ClientCrash
<1>2. cpc'[c] = "killed" /\ \A d \in Clients \ {c} : cpc'[d] = cpc[d]
  BY <1>1, GotoOther
<1>3. \A d \in Clients \ {c} : cEnd'[Ctrl(d)] = cEnd[Ctrl(d)]
  BY <1>1, CloseOther
<1>4. InTurn(c)'
  BY <1>1, <1>2, TurnKept DEF SessionInv
<1> QED BY <1>1, <1>2, <1>3, <1>4, LeftSame, ClientKeeps

LEMMA ClientStepKeeps ==
  ASSUME Inv, Inv', SessionInv, NEW c \in Clients, ClientStep(c) PROVE SessionInv'
BY ConnectKeeps, SendCookieKeeps, HandleMessageClientKeeps, ConnectStreamKeeps,
   SendStreamCookieKeeps, ClientResultsKeeps, EndTestKeeps, ReceiveDataKeeps,
   ClientFailsKeeps, BeginDrainKeeps, DrainKeeps
DEF ClientStep, SendDataFails

-----------------------------------------------------------------------------
(* The theorems *)

LEMMA InitSession == Init => SessionInv
<1> SUFFICES ASSUME Init PROVE SessionInv
  OBVIOUS
<1>1. \A c \in Clients : Ctrl(c) \in Conns /\ \A i \in 1..NumStreams : <<c, i>> \in Conns
  BY CtrlConn, Numbers DEF Conns
<1>2. Ends
  BY <1>1 DEF Init, Ends, Queue, Fresh, InTurn
<1>3. Roles
  BY DEF Init, Roles
<1>4. Counted
  BY FS_EmptySet DEF Init, Counted
<1>5. Mail
  BY <1>1 DEF Init, Mail, Addressed, Complete, ToldStart, Started
<1> QED BY <1>2, <1>3, <1>4, <1>5 DEF SessionInv

\* Nothing has changed.
LEMMA StutterKeeps ==
  ASSUME Inv, SessionInv, UNCHANGED vars PROVE SessionInv'
BY DEF SessionInv, Ends, Queue, Fresh, InTurn, Unused, Roles, Counted, Mail,
       Addressed, Complete, ToldStart, Served, Ctrl, Data,
       vars, serverVars, clientVars, netVars

LEMMA StepSession == Inv /\ SessionInv /\ [Next]_vars => SessionInv'
<1> SUFFICES ASSUME Inv, SessionInv, [Next]_vars PROVE SessionInv'
  OBVIOUS
<1>1. Inv'
  BY StepInv
<1>2. CASE ServerStep \/ ServerSignal \/ ServerCrash
  BY <1>2, ServerStepKeeps, ServerGoneKeeps
<1>3. CASE \E c \in Clients : ClientStep(c) \/ ClientSignal(c) \/ ClientCrash(c)
  BY <1>1, <1>3, ClientStepKeeps, ClientGoneKeeps
<1>4. CASE UNCHANGED vars
  BY <1>4, StutterKeeps
<1> QED BY <1>2, <1>3, <1>4 DEF Next

LEMMA SessionInvariant == Spec => [](Inv /\ SessionInv)
<1> QED BY InitInv, StepInv, InitSession, StepSession, PTL DEF Spec

\* iperf_accept while there is a client: of any number of clients that knock,
\* with their control or their data connections, only the one behind ctrl_sck
\* is in a test on a connection that is still open.
THEOREM OneClientAtATime == Spec => []OneTest
<1>1. Inv /\ SessionInv => OneTest
  BY DEF SessionInv, Mail, Addressed, OneTest, InTest
<1> QED BY <1>1, SessionInvariant, PTL

\* streams_accepted of iperf_run_server: TEST_START is only sent, and so a test
\* only runs, when each stream of the client has been accepted.
THEOREM StartIsComplete == Spec => []StartedIsComplete
<1>1. Inv /\ SessionInv => StartedIsComplete
  BY DEF SessionInv, Mail, Complete, ToldStart, Started, Counted, Served,
         StartedIsComplete
<1> QED BY <1>1, SessionInvariant, PTL
=============================================================================
