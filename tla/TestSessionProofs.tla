------------------------- MODULE TestSessionProofs -------------------------
(***************************************************************************)
(* The control protocol implements TestSession, for any clients, any       *)
(* number of streams and any faults: every step of the handlers is a step  *)
(* of the session a client is promised, or changes nothing of it.  And a   *)
(* session is ended by nobody but the client it belongs to.                *)
(***************************************************************************)
EXTENDS IperfSessionProofs

-----------------------------------------------------------------------------
(* The inductive invariant *)

\* On its control connection a client finds the phases that follow the one it
\* is in, in their order.
Said(c, i) == PhaseOf(down[Ctrl(c)][i])
Ascending(c) ==
  \A i \in DOMAIN down[Ctrl(c)] :
    Said(c, i) # 0 =>
      /\ Said(c, i) > Phase[cstate[c]]
      /\ \A j \in DOMAIN down[Ctrl(c)] :
           j > i /\ Said(c, j) # 0 => Said(c, i) < Said(c, j)

\* No phase is left out; a client that is served was told of every phase the
\* server has entered, unless it has closed its end.
Gapless(c) == \E m \in 0..6 : Told(c) = 1..m
Level(c) ==
  ctrl = Ctrl(c) => /\ Told(c) \subseteq 1..Phase[sstate]
                    /\ cEnd[Ctrl(c)] = "open" => Told(c) = 1..Phase[sstate]

\* TEST_END is sent once, in a running test, and before the server goes on to
\* the results.
EndIn(c) == \E i \in DOMAIN up[Ctrl(c)] : up[Ctrl(c)][i] = "TEST_END"
OneEnd(c) ==
  \A i, j \in DOMAIN up[Ctrl(c)] :
    up[Ctrl(c)][i] = "TEST_END" /\ up[Ctrl(c)][j] = "TEST_END" => i = j
Ended(c) == cstate[c] = "TEST_END" \/ Phase[cstate[c]] >= 5
EndSent(c) ==
  /\ OneEnd(c)
  /\ EndIn(c) => Ended(c)
  /\ ctrl = Ctrl(c) => /\ EndIn(c) => sstate = "TEST_RUNNING"
                       /\ Phase[sstate] >= 5 => Ended(c)

\* Where a handler is blocked, the server is in the phase it has announced.
Position ==
  /\ sstate # "TEST_END"
  /\ spc = "cookie" => sstate = "IPERF_START"
  /\ spc = "params" => sstate = "PARAM_EXCHANGE"
  /\ spc = "starting" => sstate = "TEST_START"
  /\ spc \in {"results", "display"} => sstate = "EXCHANGE_RESULTS"

FlowInv ==
  /\ Position
  /\ \A c \in Clients : /\ Ascending(c) /\ Gapless(c) /\ Level(c) /\ EndSent(c)
                        /\ cpc[c] = "drain" => reading[c] > 0

-----------------------------------------------------------------------------
(* Phases *)

LEMMA Phases ==
  /\ \A m \in States : Phase[m] \in 0..6
  /\ Phase["IPERF_START"] = 0 /\ Phase["PARAM_EXCHANGE"] = 1
  /\ Phase["CREATE_STREAMS"] = 2 /\ Phase["TEST_START"] = 3
  /\ Phase["TEST_RUNNING"] = 4 /\ Phase["TEST_END"] = 4
  /\ Phase["EXCHANGE_RESULTS"] = 5 /\ Phase["DISPLAY_RESULTS"] = 6
  /\ Phase["IPERF_DONE"] = 6
<1>1. DOMAIN Phase = States
  BY DEF Phase
<1>2. \A m \in States : Phase[m] \in 0..6
  BY DEF Phase
<1>3. /\ "IPERF_START" \in States /\ "PARAM_EXCHANGE" \in States
      /\ "CREATE_STREAMS" \in States /\ "TEST_START" \in States
      /\ "TEST_RUNNING" \in States /\ "TEST_END" \in States
      /\ "EXCHANGE_RESULTS" \in States /\ "DISPLAY_RESULTS" \in States
      /\ "IPERF_DONE" \in States
  BY DEF States
<1> QED BY <1>2, <1>3 DEF Phase

\* The states of phase 4, and those after it.
LEMMA LatePhases ==
  ASSUME NEW m \in States
  PROVE  /\ Phase[m] = 4 => m \in {"TEST_RUNNING", "TEST_END"}
         /\ Phase[m] >= 5 => m # "TEST_RUNNING"
BY DEF Phase, States

LEMMA PhaseOfType == ASSUME NEW m PROVE PhaseOf(m) \in 0..6
BY Phases DEF PhaseOf

\* Words that announce no phase.
LEMMA Silent ==
  \A m \in {"ACCESS_DENIED", "SERVER_ERROR", "SERVER_TERMINATE", "json", "half"} :
    PhaseOf(m) = 0 /\ m \in Messages
<1>1. /\ "json" \notin States /\ "half" \notin States
      /\ "ACCESS_DENIED" \in States /\ "SERVER_ERROR" \in States
      /\ "SERVER_TERMINATE" \in States
  BY DEF States
<1>2. /\ Phase["ACCESS_DENIED"] = 0 /\ Phase["SERVER_ERROR"] = 0
      /\ Phase["SERVER_TERMINATE"] = 0
  BY <1>1 DEF Phase
<1> QED BY <1>1, <1>2 DEF PhaseOf, Messages

LEMMA DownType ==
  ASSUME Inv, NEW c \in Clients
  PROVE  /\ down[Ctrl(c)] \in Seq(Messages) /\ up[Ctrl(c)] \in Seq(Messages)
         /\ cstate[c] \in States /\ Phase[cstate[c]] \in 0..6
         /\ sstate \in States /\ Phase[sstate] \in 0..6
BY CtrlConn, Phases DEF Inv, NetTypes, ClientInv, ClientTypes, ServerInv, ServerTypes

\* What a client is told of is decided by these.
LEMMA ToldNow ==
  ASSUME NEW c
  PROVE  Told(c)' = {n \in 1..6 : \/ n <= Phase[cstate'[c]]
                                 \/ \E i \in DOMAIN down'[Ctrl(c)] :
                                      PhaseOf(down'[Ctrl(c)][i]) = n}
BY DEF Told, Ctrl

\* Nothing has changed for a client.
LEMMA ToldSame ==
  ASSUME NEW c \in Clients, down'[Ctrl(c)] = down[Ctrl(c)], cstate'[c] = cstate[c]
  PROVE  /\ Told(c)' = Told(c)
         /\ Ascending(c) => Ascending(c)'
         /\ Gapless(c) => Gapless(c)'
BY DEF Told, Ascending, Said, Gapless, Ctrl

\* A word that announces no phase.
LEMMA ToldQuiet ==
  ASSUME Inv, NEW c \in Clients, cstate'[c] = cstate[c],
         NEW m \in Messages, PhaseOf(m) = 0, down'[Ctrl(c)] = Append(down[Ctrl(c)], m)
  PROVE  /\ Told(c)' = Told(c)
         /\ Ascending(c) => Ascending(c)'
         /\ Gapless(c) => Gapless(c)'
<1> DEFINE D == down[Ctrl(c)]
<1>1. /\ D \in Seq(Messages)
      /\ \A i \in DOMAIN D : i \in DOMAIN Append(D, m) /\ Append(D, m)[i] = D[i]
      /\ \A i \in DOMAIN Append(D, m) :
           (i \in DOMAIN D /\ Append(D, m)[i] = D[i]) \/ Append(D, m)[i] = m
  BY DownType
<1>2. \A n \in 1..6 : (\E i \in DOMAIN Append(D, m) : PhaseOf(Append(D, m)[i]) = n)
                       <=> (\E i \in DOMAIN D : PhaseOf(D[i]) = n)
  BY <1>1
<1>3. Told(c)' = Told(c)
  <2>1. Told(c) = {n \in 1..6 : n <= Phase[cstate[c]] \/ \E i \in DOMAIN D : PhaseOf(D[i]) = n}
    BY DEF Told
  <2>2. Told(c)' = {n \in 1..6 : \/ n <= Phase[cstate[c]]
                                \/ \E i \in DOMAIN Append(D, m) : PhaseOf(Append(D, m)[i]) = n}
    BY ToldNow
  <2> HIDE DEF D
  <2>3. \A n : n \in Told(c)' <=> n \in Told(c)
    BY <1>2, <2>1, <2>2
  <2> QED BY <2>1, <2>2, <2>3
<1>4. Ascending(c) => Ascending(c)'
  <2> DEFINE A == Append(D, m)
  <2>1. ASSUME Ascending(c), NEW i \in DOMAIN A, PhaseOf(A[i]) # 0
        PROVE  /\ PhaseOf(A[i]) > Phase[cstate[c]]
               /\ \A j \in DOMAIN A : j > i /\ PhaseOf(A[j]) # 0 => PhaseOf(A[i]) < PhaseOf(A[j])
    <3>1. \A j \in DOMAIN A : PhaseOf(A[j]) # 0 => j \in DOMAIN D /\ A[j] = D[j]
      BY <1>1
    <3> QED BY <2>1, <3>1 DEF Ascending, Said
  <2> QED BY <2>1 DEF Ascending, Said, Ctrl
<1>5. Gapless(c) => Gapless(c)'
  BY <1>3 DEF Gapless
<1> QED BY <1>3, <1>4, <1>5

\* A word that announces the phase after all that the client was told of.
LEMMA ToldNext ==
  ASSUME Inv, NEW c \in Clients, cstate'[c] = cstate[c],
         NEW m \in Messages, down'[Ctrl(c)] = Append(down[Ctrl(c)], m),
         PhaseOf(m) # 0, Told(c) = 1..(PhaseOf(m) - 1), Ascending(c)
  PROVE  Told(c)' = 1..PhaseOf(m) /\ Ascending(c)' /\ Gapless(c)'
<1> DEFINE D == down[Ctrl(c)]
<1>1. /\ D \in Seq(Messages) /\ Len(D) + 1 \in DOMAIN Append(D, m)
      /\ Append(D, m)[Len(D) + 1] = m
      /\ \A i \in DOMAIN D : i \in DOMAIN Append(D, m) /\ Append(D, m)[i] = D[i] /\ i <= Len(D)
      /\ \A i \in DOMAIN Append(D, m) : i \in DOMAIN D \/ i = Len(D) + 1
  BY DownType
<1>2. PhaseOf(m) \in 1..6 /\ Phase[cstate[c]] \in 0..6
  BY PhaseOfType, DownType
<1>3. \A n \in 1..6 : (\E i \in DOMAIN Append(D, m) : PhaseOf(Append(D, m)[i]) = n)
                       <=> n = PhaseOf(m) \/ (\E i \in DOMAIN D : PhaseOf(D[i]) = n)
  BY <1>1
<1>4. Told(c)' = Told(c) \cup {PhaseOf(m)}
  <2>1. Told(c) = {n \in 1..6 : n <= Phase[cstate[c]] \/ \E i \in DOMAIN D : PhaseOf(D[i]) = n}
    BY DEF Told
  <2>2. Told(c)' = {n \in 1..6 : \/ n <= Phase[cstate[c]]
                                \/ \E i \in DOMAIN Append(D, m) : PhaseOf(Append(D, m)[i]) = n}
    BY ToldNow
  <2> HIDE DEF D
  <2>3. \A n : n \in Told(c)' <=> n \in Told(c) \cup {PhaseOf(m)}
    BY <1>2, <1>3, <2>1, <2>2
  <2> QED BY <2>3
<1>5. Told(c)' = 1..PhaseOf(m)
  BY <1>2, <1>4
<1>6. \A i \in DOMAIN D : PhaseOf(D[i]) < PhaseOf(m)
  <2> SUFFICES ASSUME NEW i \in DOMAIN D, PhaseOf(D[i]) # 0
               PROVE  PhaseOf(D[i]) < PhaseOf(m)
    BY <1>2
  <2>1. PhaseOf(D[i]) \in 1..6
    BY PhaseOfType
  <2>2. PhaseOf(D[i]) \in Told(c)
    BY <2>1 DEF Told
  <2> QED BY <1>2, <2>1, <2>2
<1>7. Phase[cstate[c]] < PhaseOf(m)
  <2>1. CASE Phase[cstate[c]] = 0
    BY <1>2, <2>1
  <2>2. CASE Phase[cstate[c]] # 0
    <3>1. Phase[cstate[c]] \in Told(c)
      BY <1>2, <2>2 DEF Told
    <3> QED BY <1>2, <3>1
  <2> QED BY <2>1, <2>2
<1>8. Ascending(c)'
  <2> DEFINE A == Append(D, m)
  <2>1. ASSUME NEW i \in DOMAIN A, PhaseOf(A[i]) # 0
        PROVE  /\ PhaseOf(A[i]) > Phase[cstate[c]]
               /\ \A j \in DOMAIN A : j > i /\ PhaseOf(A[j]) # 0 => PhaseOf(A[i]) < PhaseOf(A[j])
    <3>1. CASE i \in DOMAIN D
      BY <1>1, <1>6, <2>1, <3>1 DEF Ascending, Said
    <3>2. CASE i = Len(D) + 1
      <4>1. \A j \in DOMAIN A : ~(j > i)
        BY <1>1, <3>2
      <4> QED BY <1>1, <1>2, <1>7, <3>2, <4>1
    <3> QED BY <1>1, <3>1, <3>2
  <2> QED BY <2>1 DEF Ascending, Said, Ctrl
<1>9. Gapless(c)'
  <2>1. PhaseOf(m) \in 0..6
    BY <1>2
  <2> QED BY <1>5, <2>1 DEF Gapless
<1> QED BY <1>5, <1>8, <1>9

\* A client that takes a word: it announces no phase, or the one after that the
\* client is in.
LEMMA TakeHead ==
  ASSUME Inv, NEW c \in Clients, Ascending(c), Gapless(c), down[Ctrl(c)] # <<>>
  PROVE  LET p == PhaseOf(Head(down[Ctrl(c)])) IN
           p = 0 \/ (p = Phase[cstate[c]] + 1 /\ p \in Told(c))
<1> DEFINE D == down[Ctrl(c)]
<1> DEFINE p == PhaseOf(Head(D))
<1>1. D \in Seq(Messages) /\ 1 \in DOMAIN D /\ Head(D) = D[1]
      /\ \A i \in DOMAIN D : i \in Nat /\ (i = 1 \/ i > 1)
  BY DownType
<1>2. p \in 0..6 /\ Phase[cstate[c]] \in 0..6
  BY PhaseOfType, DownType
<1> SUFFICES ASSUME p # 0 PROVE p = Phase[cstate[c]] + 1 /\ p \in Told(c)
  OBVIOUS
<1>3. p > Phase[cstate[c]] /\ \A i \in DOMAIN D : PhaseOf(D[i]) # 0 => PhaseOf(D[i]) >= p
  <2>1. p > Phase[cstate[c]]
    BY <1>1 DEF Ascending, Said
  <2>2. ASSUME NEW i \in DOMAIN D, PhaseOf(D[i]) # 0 PROVE PhaseOf(D[i]) >= p
    <3>1. PhaseOf(D[i]) \in 0..6
      BY PhaseOfType
    <3>2. CASE i = 1
      BY <1>1, <1>2, <3>2
    <3>3. CASE i > 1
      BY <1>1, <1>2, <2>2, <3>1, <3>3 DEF Ascending, Said
    <3> QED BY <1>1, <3>2, <3>3
  <2> QED BY <2>1, <2>2
<1>4. p \in Told(c)
  BY <1>1, <1>2 DEF Told
<1>5. PICK m \in 0..6 : Told(c) = 1..m
  BY DEF Gapless
<1>6. Phase[cstate[c]] + 1 \in Told(c)
  BY <1>2, <1>3, <1>4, <1>5
<1>7. \E i \in DOMAIN D : PhaseOf(D[i]) = Phase[cstate[c]] + 1
  BY <1>2, <1>6 DEF Told
<1>8. p <= Phase[cstate[c]] + 1
  BY <1>2, <1>3, <1>7
<1> QED BY <1>2, <1>3, <1>4, <1>8

LEMMA ToldTake ==
  ASSUME Inv, NEW c \in Clients, Ascending(c), Gapless(c), down[Ctrl(c)] # <<>>,
         down'[Ctrl(c)] = Tail(down[Ctrl(c)]),
         LET p == PhaseOf(Head(down[Ctrl(c)])) IN
           Phase[cstate'[c]] = IF p = 0 THEN Phase[cstate[c]] ELSE p
  PROVE  Told(c)' = Told(c) /\ Ascending(c)' /\ Gapless(c)'
<1> DEFINE D == down[Ctrl(c)]
<1> DEFINE p == PhaseOf(Head(D))
<1>1. /\ D \in Seq(Messages) /\ 1 \in DOMAIN D /\ Head(D) = D[1]
      /\ \A i \in DOMAIN Tail(D) : i + 1 \in DOMAIN D /\ Tail(D)[i] = D[i + 1] /\ i \in Nat /\ i >= 1
      /\ \A i \in DOMAIN D : i = 1 \/ (i - 1 \in DOMAIN Tail(D) /\ Tail(D)[i - 1] = D[i])
  BY DownType
<1>2. p \in 0..6 /\ Phase[cstate[c]] \in 0..6
  BY PhaseOfType, DownType
<1>3. p = 0 \/ p = Phase[cstate[c]] + 1
  BY TakeHead
<1>4. \A n \in 1..6 :
        (n <= Phase[cstate'[c]] \/ \E i \in DOMAIN Tail(D) : PhaseOf(Tail(D)[i]) = n)
        <=> (n <= Phase[cstate[c]] \/ \E i \in DOMAIN D : PhaseOf(D[i]) = n)
  <2> SUFFICES ASSUME NEW n \in 1..6
               PROVE  (n <= Phase[cstate'[c]] \/ \E i \in DOMAIN Tail(D) : PhaseOf(Tail(D)[i]) = n)
                      <=> (n <= Phase[cstate[c]] \/ \E i \in DOMAIN D : PhaseOf(D[i]) = n)
    OBVIOUS
  <2>1. (\E i \in DOMAIN D : PhaseOf(D[i]) = n)
          <=> p = n \/ \E i \in DOMAIN Tail(D) : PhaseOf(Tail(D)[i]) = n
    BY <1>1
  <2>2. n <= Phase[cstate'[c]] <=> n <= Phase[cstate[c]] \/ p = n
    BY <1>2, <1>3
  <2> QED BY <2>1, <2>2
<1>5. Told(c)' = Told(c)
  <2>1. Told(c) = {n \in 1..6 : n <= Phase[cstate[c]] \/ \E i \in DOMAIN D : PhaseOf(D[i]) = n}
    BY DEF Told
  <2>2. Told(c)' = {n \in 1..6 : \/ n <= Phase[cstate'[c]]
                                \/ \E i \in DOMAIN Tail(D) : PhaseOf(Tail(D)[i]) = n}
    BY ToldNow
  <2> HIDE DEF D
  <2>3. \A n : n \in Told(c)' <=> n \in Told(c)
    BY <1>4, <2>1, <2>2
  <2> QED BY <2>3
<1>6. Ascending(c)'
  <2> DEFINE T == Tail(D)
  <2>1. ASSUME NEW i \in DOMAIN T, PhaseOf(T[i]) # 0
        PROVE  /\ PhaseOf(T[i]) > Phase[cstate'[c]]
               /\ \A j \in DOMAIN T : j > i /\ PhaseOf(T[j]) # 0 => PhaseOf(T[i]) < PhaseOf(T[j])
    <3>1. /\ PhaseOf(D[i + 1]) # 0 /\ i + 1 \in DOMAIN D /\ i + 1 > 1
          /\ PhaseOf(D[i + 1]) = PhaseOf(T[i])
      BY <1>1, <2>1
    <3>2. p # 0 => PhaseOf(T[i]) > p
      BY <1>1, <3>1 DEF Ascending, Said
    <3>3. PhaseOf(T[i]) > Phase[cstate[c]]
      BY <3>1 DEF Ascending, Said
    <3>4. ASSUME NEW j \in DOMAIN T, j > i, PhaseOf(T[j]) # 0
          PROVE  PhaseOf(T[i]) < PhaseOf(T[j])
      <4>1. j + 1 \in DOMAIN D /\ j + 1 > i + 1 /\ PhaseOf(D[j + 1]) = PhaseOf(T[j])
        BY <1>1, <3>4
      <4> QED BY <3>1, <3>4, <4>1 DEF Ascending, Said
    <3> QED BY <3>2, <3>3, <3>4
  <2> QED BY <2>1 DEF Ascending, Said, Ctrl
<1>7. Gapless(c)'
  BY <1>5 DEF Gapless
<1> QED BY <1>5, <1>6, <1>7

-----------------------------------------------------------------------------
(* Steps of the server in general *)

SessionStep == [Session!Next]_Session!svars

\* What a client is promised that does not depend on the server.
ClientFlow(c) == Ascending(c) /\ Gapless(c) /\ (cpc[c] = "drain" => reading[c] > 0)

LEMMA FlowParts ==
  FlowInv <=> Position /\ \A c \in Clients : ClientFlow(c) /\ Level(c) /\ EndSent(c)
BY DEF FlowInv, ClientFlow

\* What the server reads off a connection, or drops.
UpLess(c) ==
  \/ up'[Ctrl(c)] = up[Ctrl(c)]
  \/ up'[Ctrl(c)] = <<>>
  \/ up[Ctrl(c)] # <<>> /\ up'[Ctrl(c)] = Tail(up[Ctrl(c)])

LEMMA UpLessEnds ==
  ASSUME Inv, NEW c \in Clients, UpLess(c), OneEnd(c)
  PROVE  OneEnd(c)' /\ (EndIn(c)' => EndIn(c))
<1>1. up[Ctrl(c)] \in Seq(Messages)
  BY DownType
<1>2. CASE up'[Ctrl(c)] = up[Ctrl(c)]
  BY <1>2 DEF OneEnd, EndIn, Ctrl
<1>3. CASE up'[Ctrl(c)] = <<>>
  BY <1>3 DEF OneEnd, EndIn, Ctrl
<1>4. CASE up[Ctrl(c)] # <<>> /\ up'[Ctrl(c)] = Tail(up[Ctrl(c)])
  <2>1. \A i \in DOMAIN up'[Ctrl(c)] :
          i + 1 \in DOMAIN up[Ctrl(c)] /\ up'[Ctrl(c)][i] = up[Ctrl(c)][i + 1] /\ i \in Nat
    BY <1>1, <1>4
  <2>2. EndIn(c)' => EndIn(c)
    BY <2>1 DEF EndIn, Ctrl
  <2>3. OneEnd(c)'
    <3>1. ASSUME NEW i \in DOMAIN up'[Ctrl(c)], NEW j \in DOMAIN up'[Ctrl(c)],
                 up'[Ctrl(c)][i] = "TEST_END", up'[Ctrl(c)][j] = "TEST_END"
          PROVE  i = j
      <4>1. i + 1 = j + 1
        BY <2>1, <3>1 DEF OneEnd
      <4> QED BY <2>1, <4>1
    <3> QED BY <3>1 DEF OneEnd, Ctrl
  <2> QED BY <2>2, <2>3
<1> QED BY <1>2, <1>3, <1>4 DEF UpLess

\* When TEST_END is read there is no other.
LEMMA EndRead ==
  ASSUME Inv, NEW c \in Clients, OneEnd(c), UpIs(Ctrl(c), "TEST_END"), PopUp(Ctrl(c))
  PROVE  EndIn(c) /\ ~EndIn(c)'
<1>1. /\ up[Ctrl(c)] \in Seq(Messages) /\ up[Ctrl(c)] # <<>>
      /\ up'[Ctrl(c)] = Tail(up[Ctrl(c)]) /\ Head(up[Ctrl(c)]) = "TEST_END"
  BY CtrlConn, DownType DEF UpIs, PopUp, Inv, NetTypes
<1>2. 1 \in DOMAIN up[Ctrl(c)] /\ up[Ctrl(c)][1] = "TEST_END"
  BY <1>1
<1>3. \A i \in DOMAIN up'[Ctrl(c)] :
        /\ i + 1 \in DOMAIN up[Ctrl(c)] /\ up'[Ctrl(c)][i] = up[Ctrl(c)][i + 1]
        /\ i + 1 # 1
  BY <1>1
<1> QED BY <1>2, <1>3 DEF EndIn, OneEnd, Ctrl

\* A word that announces no phase, or none.
Quiet(c) ==
  \/ down'[Ctrl(c)] = down[Ctrl(c)]
  \/ \E m \in Messages : PhaseOf(m) = 0 /\ down'[Ctrl(c)] = Append(down[Ctrl(c)], m)

LEMMA QuietFlow ==
  ASSUME Inv, NEW c \in Clients, Quiet(c), UNCHANGED clientVars, ClientFlow(c)
  PROVE  Told(c)' = Told(c) /\ ClientFlow(c)'
<1>1. cstate'[c] = cstate[c] /\ cpc'[c] = cpc[c] /\ reading'[c] = reading[c]
  BY DEF clientVars
<1>2. Told(c)' = Told(c) /\ Ascending(c)' /\ Gapless(c)'
  <2>1. CASE down'[Ctrl(c)] = down[Ctrl(c)]
    BY <1>1, <2>1, ToldSame DEF ClientFlow
  <2>2. CASE \E m \in Messages : PhaseOf(m) = 0 /\ down'[Ctrl(c)] = Append(down[Ctrl(c)], m)
    BY <1>1, <2>2, ToldQuiet DEF ClientFlow
  <2> QED BY <2>1, <2>2 DEF Quiet
<1> QED BY <1>1, <1>2 DEF ClientFlow

\* What the client sees of a session, and how its run ended, are its own.
LEMMA OwnView ==
  ASSUME UNCHANGED clientVars
  PROVE  \A c \in Clients : Phase[cstate'[c]] = Phase[cstate[c]] /\ Outcome(c)' = Outcome(c)
BY DEF clientVars, Outcome

\* A step of the server that announces nothing, and ends the session or goes
\* on in the same phase.
LEMMA QuietStep ==
  ASSUME Inv, FlowInv, UNCHANGED clientVars, UNCHANGED cEnd, Position',
         \A c \in Clients : Quiet(c) /\ UpLess(c),
         \A c \in Clients : ctrl' = Ctrl(c) => ctrl = Ctrl(c) /\ sstate' = sstate,
         Serving' \in {Serving, NoConn}
  PROVE  FlowInv' /\ SessionStep
<1>1. \A c \in Clients : Told(c)' = Told(c) /\ ClientFlow(c)'
  BY QuietFlow, FlowParts
<1>2. ASSUME NEW c \in Clients PROVE Level(c)'
  <2>1. Level(c) /\ Told(c)' = Told(c)
    BY <1>1 DEF FlowInv
  <2>2. ctrl' = Ctrl(c) => ctrl = Ctrl(c) /\ sstate' = sstate
    OBVIOUS
  <2> QED BY <2>1, <2>2 DEF Level, Ctrl
<1>3. ASSUME NEW c \in Clients PROVE EndSent(c)'
  <2>1. EndSent(c) /\ UpLess(c)
    BY DEF FlowInv
  <2>2. OneEnd(c)' /\ (EndIn(c)' => EndIn(c))
    BY <2>1, UpLessEnds DEF EndSent
  <2>3. Ended(c)' <=> Ended(c)
    BY DEF Ended, clientVars
  <2>4. ctrl' = Ctrl(c) => ctrl = Ctrl(c) /\ sstate' = sstate
    OBVIOUS
  <2> QED BY <2>1, <2>2, <2>3, <2>4 DEF EndSent, Ctrl
<1>4. FlowInv'
  BY <1>1, <1>2, <1>3, FlowParts DEF FlowInv, ClientFlow
<1>5. SessionStep
  <2>1. [c \in Clients |-> Told(c)]' = [c \in Clients |-> Told(c)]
    BY <1>1
  <2>2. /\ [c \in Clients |-> Phase[cstate[c]]]' = [c \in Clients |-> Phase[cstate[c]]]
        /\ [c \in Clients |-> Outcome(c)]' = [c \in Clients |-> Outcome(c)]
    BY OwnView
  <2>3. CASE Serving' = Serving
    BY <2>1, <2>2, <2>3 DEF SessionStep, Session!svars
  <2>4. CASE Serving' = NoConn
    <3>1. Session!Close
      BY <2>1, <2>2, <2>4 DEF Session!Close
    <3> QED BY <3>1 DEF SessionStep, Session!Next
  <2> QED BY <2>3, <2>4
<1> QED BY <1>4, <1>5

\* Who is served.
LEMMA ServingIs ==
  /\ \A c \in Clients : ctrl = Ctrl(c) /\ spc # "dead" => Serving = c
  /\ (spc = "dead" \/ \A c \in Clients : ctrl # Ctrl(c)) => Serving = NoConn
  /\ ctrl = NoConn => Serving = NoConn
BY NoConnOther, CtrlConn DEF Serving, Ctrl

\* A step in which the server enters the next phase and says so.
LEMMA SpeakStep ==
  ASSUME Inv, FlowInv, UNCHANGED clientVars, UNCHANGED cEnd, Position',
         ctrl \in Conns, ctrl' = ctrl, spc # "dead", spc' # "dead",
         NEW m \in States, SendDown(ctrl, m), sstate' = m,
         \A c \in Clients : UpLess(c),
         \A c \in Clients : ctrl = Ctrl(c) =>
           /\ Phase[m] = Phase[sstate] + 1
           /\ ~EndIn(c)'
           /\ Phase[m] >= 5 => Ended(c)
  PROVE  FlowInv' /\ SessionStep
<1>1. m \in Messages /\ PhaseOf(m) = Phase[m] /\ Phase[m] \in 0..6
  BY Phases DEF Messages, PhaseOf
<1>2. ASSUME NEW c \in Clients, ctrl # Ctrl(c)
      PROVE  /\ Told(c)' = Told(c) /\ ClientFlow(c)' /\ Level(c)' /\ EndSent(c)'
  <2>1. down'[Ctrl(c)] = down[Ctrl(c)]
    BY <1>1, <1>2, SendDownTo, CtrlConn
  <2>2. Told(c)' = Told(c) /\ ClientFlow(c)'
    BY <2>1, QuietFlow, FlowParts DEF Quiet
  <2>3. Level(c)'
    BY <1>2 DEF Level, Ctrl
  <2>4. EndSent(c)'
    <3>1. OneEnd(c)' /\ (EndIn(c)' => EndIn(c))
      BY UpLessEnds DEF FlowInv, EndSent
    <3>2. Ended(c)' <=> Ended(c)
      BY DEF Ended, clientVars
    <3> QED BY <1>2, <3>1, <3>2 DEF EndSent, Ctrl, FlowInv
  <2> QED BY <2>2, <2>3, <2>4
<1>3. ASSUME NEW c \in Clients, ctrl = Ctrl(c)
      PROVE  /\ ClientFlow(c)' /\ Level(c)' /\ EndSent(c)'
             /\ \/ Told(c)' = Told(c)
                \/ /\ Told(c) = 1..(Phase[m] - 1) /\ Phase[m] \in 1..6
                   /\ Told(c)' = 1..Phase[m]
  <2>1. /\ ClientFlow(c) /\ Level(c) /\ EndSent(c)
        /\ Phase[m] = Phase[sstate] + 1 /\ Phase[sstate] \in 0..6
    BY <1>3, FlowParts, DownType
  <2>2. cstate'[c] = cstate[c] /\ cpc'[c] = cpc[c] /\ reading'[c] = reading[c]
    BY DEF clientVars
  <2>3. EndSent(c)'
    <3>1. OneEnd(c)'
      BY <2>1, UpLessEnds DEF EndSent
    <3>2. Ended(c)' <=> Ended(c)
      BY DEF Ended, clientVars
    <3>3. ~EndIn(c)' /\ (Phase[m] >= 5 => Ended(c))
      BY <1>3
    <3> QED BY <3>1, <3>2, <3>3 DEF EndSent
  <2>4. CASE cEnd[Ctrl(c)] = "open"
    <3>1. down'[Ctrl(c)] = Append(down[Ctrl(c)], m)
      BY <1>3, <2>4, CtrlConn DEF SendDown, Inv, NetTypes
    <3>2. Told(c) = 1..(Phase[m] - 1) /\ Phase[m] # 0
      BY <1>3, <2>1, <2>4 DEF Level
    <3>3. Told(c)' = 1..Phase[m] /\ Ascending(c)' /\ Gapless(c)'
      BY <1>1, <2>1, <2>2, <3>1, <3>2, ToldNext DEF ClientFlow
    <3>4. ClientFlow(c)'
      BY <2>1, <2>2, <3>3 DEF ClientFlow
    <3>5. Level(c)'
      BY <3>3 DEF Level, Ctrl
    <3> QED BY <1>1, <2>3, <3>2, <3>3, <3>4, <3>5
  <2>5. CASE cEnd[Ctrl(c)] # "open"
    <3>1. down'[Ctrl(c)] = down[Ctrl(c)]
      BY <1>3, <2>5 DEF SendDown
    <3>2. Told(c)' = Told(c) /\ ClientFlow(c)'
      BY <2>1, <3>1, QuietFlow DEF Quiet
    <3>3. 1..Phase[sstate] \subseteq 1..Phase[m]
      BY <2>1
    <3>4. Level(c)'
      BY <1>3, <2>1, <2>5, <3>2, <3>3 DEF Level, Ctrl
    <3> QED BY <2>3, <3>2, <3>4
  <2> QED BY <2>4, <2>5
<1>4. FlowInv'
  BY <1>2, <1>3, FlowParts DEF FlowInv, ClientFlow
<1>5. Serving' = Serving
  BY DEF Serving, Ctrl
<1>6. /\ [c \in Clients |-> Phase[cstate[c]]]' = [c \in Clients |-> Phase[cstate[c]]]
      /\ [c \in Clients |-> Outcome(c)]' = [c \in Clients |-> Outcome(c)]
  BY OwnView
<1>7. SessionStep
  <2>1. CASE \A c \in Clients : Told(c)' = Told(c)
    <3>1. [c \in Clients |-> Told(c)]' = [c \in Clients |-> Told(c)]
      BY <2>1
    <3> QED BY <1>5, <1>6, <3>1 DEF SessionStep, Session!svars
  <2>2. CASE \E c \in Clients : Told(c)' # Told(c)
    <3>1. PICK c \in Clients : Told(c)' # Told(c)
      BY <2>2
    <3>2. ctrl = Ctrl(c)
      BY <1>2, <3>1
    <3>3. /\ Told(c) = 1..(Phase[m] - 1) /\ Phase[m] \in 1..6
          /\ Told(c)' = 1..Phase[m]
      BY <1>3, <3>1, <3>2
    <3>4. \A d \in Clients \ {c} : Told(d)' = Told(d)
      BY <1>2, <3>2 DEF Ctrl
    <3>5. Serving = c
      BY <3>2, ServingIs
    <3>6. [d \in Clients |-> Told(d)]' = [[d \in Clients |-> Told(d)] EXCEPT ![c] = 1..Phase[m]]
      BY <3>3, <3>4
    <3>7. Session!Tell(c, Phase[m])
      BY <1>5, <1>6, <3>3, <3>5, <3>6 DEF Session!Tell
    <3> QED BY <3>3, <3>7 DEF SessionStep, Session!Next
  <2> QED BY <2>1, <2>2
<1> QED BY <1>4, <1>7

-----------------------------------------------------------------------------
(* The steps of the server *)

LEMMA NotServing == ASSUME ctrl' = NoConn \/ spc' = "dead" PROVE Serving' = NoConn
BY NoConnOther, CtrlConn DEF Serving, Ctrl

LEMMA PopUpLess ==
  ASSUME Inv, NEW k \in Conns, up[k] # <<>>, PopUp(k)
  PROVE  \A c \in Clients : UpLess(c)
BY CtrlConn DEF PopUp, UpLess, Inv, NetTypes

LEMMA SameUpLess == ASSUME UNCHANGED up PROVE \A c \in Clients : UpLess(c)
BY DEF UpLess

LEMMA SendQuiet ==
  ASSUME Inv, NEW k \in Conns, NEW m \in Messages, PhaseOf(m) = 0, SendDown(k, m)
  PROVE  \A c \in Clients : Quiet(c)
BY SendDownTo, CtrlConn DEF Quiet

LEMMA SameQuiet == ASSUME UNCHANGED down PROVE \A c \in Clients : Quiet(c)
BY DEF Quiet

LEMMA EndSessionFlow ==
  ASSUME Inv, FlowInv, NEW S, EndSession(S), UNCHANGED clientVars, UNCHANGED cEnd,
         \A c \in Clients : Quiet(c) /\ UpLess(c)
  PROVE  FlowInv' /\ SessionStep
<1>1. Position'
  BY DEF EndSession, Position
<1>2. \A c \in Clients : ctrl' # Ctrl(c)
  BY NoConnOther, CtrlConn DEF EndSession
<1>3. Serving' = NoConn
  BY NotServing DEF EndSession
<1> QED BY <1>1, <1>2, <1>3, QuietStep

LEMMA ServerExitFlow ==
  ASSUME Inv, FlowInv, ServerExit, \A c \in Clients : Quiet(c)
  PROVE  FlowInv' /\ SessionStep
<1>1. Position'
  BY DEF ServerExit, Position, FlowInv
<1>2. ctrl' = ctrl /\ sstate' = sstate /\ \A c \in Clients : UpLess(c)
  BY SameUpLess DEF ServerExit
<1>3. Serving' = NoConn
  BY NotServing DEF ServerExit
<1> QED BY <1>1, <1>2, <1>3, QuietStep DEF ServerExit

LEMMA AbortFlow == ASSUME Inv, FlowInv, Abort PROVE FlowInv' /\ SessionStep
BY EndSessionFlow, SameQuiet, SameUpLess DEF Abort

LEMMA WriteFailsFlow ==
  ASSUME Inv, FlowInv, NEW k, NEW S, WriteFails(k, S) PROVE FlowInv' /\ SessionStep
BY EndSessionFlow, ServerExitFlow, SameQuiet, SameUpLess DEF WriteFails

LEMMA ReadFailsFlow ==
  ASSUME Inv, FlowInv, NEW k, ReadFails(k) PROVE FlowInv' /\ SessionStep
BY AbortFlow DEF ReadFails

LEMMA ListenFlow == ASSUME Inv, FlowInv, ServerListen PROVE FlowInv' /\ SessionStep
<1>1. /\ UNCHANGED <<ctrl, sstate, clientVars, cEnd, up, down>>
      /\ spc = "start" /\ spc' \in {"select", "dead"}
  BY DEF ServerListen, netVars
<1>2. Position'
  BY <1>1 DEF Position, FlowInv
<1>3. Serving' \in {Serving, NoConn}
  BY <1>1 DEF Serving, Ctrl
<1> QED BY <1>1, <1>2, <1>3, SameQuiet, SameUpLess, QuietStep

\* A step in which the server goes on in the same phase.
LEMMA SamePhase ==
  ASSUME Inv, FlowInv, UNCHANGED <<ctrl, sstate, clientVars, cEnd>>,
         spc # "dead", spc' # "dead", Position',
         \A c \in Clients : Quiet(c) /\ UpLess(c)
  PROVE  FlowInv' /\ SessionStep
<1>1. Serving' = Serving
  BY DEF Serving, Ctrl
<1> QED BY <1>1, QuietStep

\* The client that is accepted was told nothing yet: it is admitted.
LEMMA AcceptClientFlow ==
  ASSUME Inv, SessionInv, FlowInv, AcceptClient PROVE FlowInv' /\ SessionStep
<1>1. /\ UNCHANGED <<sstate, clientVars, cEnd, up, down>> /\ ctrl = NoConn
      /\ spc' = "cookie" /\ sstate = "IPERF_START" /\ ctrl' = Head(backlog)
  BY DEF AcceptClient, Inv, ServerInv, NoSession
<1>2. sEnd[Head(backlog)] = "backlog"
  BY HeadWaits DEF SessionInv, Ends, AcceptClient
<1>3. ASSUME NEW c \in Clients, ctrl' = Ctrl(c)
      PROVE  Told(c) = {} /\ ~EndIn(c)
  <2>1. cstate[c] = "IPERF_START" /\ down[Ctrl(c)] = <<>>
    BY <1>1, <1>2, <1>3, NoConnOther, CtrlConn DEF SessionInv, Mail, Addressed
  <2>2. Told(c) = {}
    BY <2>1, Phases DEF Told
  <2>3. ~Ended(c)
    BY <2>1, Phases DEF Ended
  <2> QED BY <2>2, <2>3 DEF FlowInv, EndSent
<1>4. ASSUME NEW c \in Clients
      PROVE  Told(c)' = Told(c) /\ ClientFlow(c)' /\ Level(c)' /\ EndSent(c)'
  <2>1. Told(c)' = Told(c) /\ ClientFlow(c)'
    BY <1>1, SameQuiet, QuietFlow, FlowParts
  <2>2. Phase[sstate'] = 0
    BY <1>1, Phases
  <2>3. Level(c)'
    BY <1>3, <2>1, <2>2 DEF Level, Ctrl
  <2>4. EndSent(c)'
    <3>1. OneEnd(c)' /\ (EndIn(c)' <=> EndIn(c)) /\ (Ended(c)' <=> Ended(c))
      BY <1>1 DEF FlowInv, EndSent, OneEnd, EndIn, Ended, Ctrl, clientVars
    <3>2. EndIn(c) => Ended(c)
      BY DEF FlowInv, EndSent
    <3>3. ctrl' = Ctrl(c) => ~EndIn(c)'
      BY <1>3, <3>1
    <3>4. ~(Phase[sstate'] >= 5)
      BY <2>2
    <3> QED BY <3>1, <3>2, <3>3, <3>4 DEF EndSent, Ctrl
  <2> QED BY <2>1, <2>3, <2>4
<1>5. Position'
  BY <1>1 DEF Position, FlowInv
<1>6. FlowInv'
  BY <1>4, <1>5, FlowParts DEF FlowInv, ClientFlow
<1>7. SessionStep
  <2>1. [c \in Clients |-> Told(c)]' = [c \in Clients |-> Told(c)]
    BY <1>4
  <2>2. /\ [c \in Clients |-> Phase[cstate[c]]]' = [c \in Clients |-> Phase[cstate[c]]]
        /\ [c \in Clients |-> Outcome(c)]' = [c \in Clients |-> Outcome(c)]
    BY <1>1, OwnView
  <2>3. Serving = NoConn
    BY <1>1, ServingIs
  <2>4. CASE \A c \in Clients : ctrl' # Ctrl(c)
    <3>1. Serving' = NoConn
      BY <2>4 DEF Serving, Ctrl
    <3> QED BY <2>1, <2>2, <2>3, <3>1 DEF SessionStep, Session!svars
  <2>5. CASE \E c \in Clients : ctrl' = Ctrl(c)
    <3>1. PICK c \in Clients : ctrl' = Ctrl(c)
      BY <2>5
    <3>2. Serving' = c
      BY <1>1, <3>1 DEF Serving, Ctrl
    <3>3. Session!Admit(c)
      BY <1>3, <2>1, <2>2, <2>3, <3>1, <3>2 DEF Session!Admit
    <3> QED BY <3>3 DEF SessionStep, Session!Next
  <2> QED BY <2>4, <2>5
<1> QED BY <1>6, <1>7

LEMMA AcceptBusyFlow ==
  ASSUME Inv, FlowInv, AcceptBusy PROVE FlowInv' /\ SessionStep
<1>1. CASE WriteFails(Head(backlog), {})
  BY <1>1, WriteFailsFlow
<1>2. CASE /\ SendDown(Head(backlog), "ACCESS_DENIED")
           /\ UNCHANGED <<serverVars, clientVars, cEnd, up>>
  <2>1. Head(backlog) \in Conns
    BY HeadConn DEF Inv, AcceptBusy
  <2>2. \A c \in Clients : Quiet(c) /\ UpLess(c)
    BY <1>2, <2>1, Silent, SendQuiet, SameUpLess
  <2>3. Position'
    BY <1>2 DEF Position, FlowInv, serverVars
  <2> QED BY <1>2, <2>2, <2>3, SamePhase DEF serverVars, AcceptBusy
<1> QED BY <1>1, <1>2 DEF AcceptBusy

\* Before the test runs, and after its end, no TEST_END is under way.
LEMMA NoEnd ==
  ASSUME Inv, FlowInv, NEW c \in Clients, ctrl = Ctrl(c), UpLess(c),
         sstate # "TEST_RUNNING"
  PROVE  ~EndIn(c)'
BY UpLessEnds DEF FlowInv, EndSent

LEMMA ReadCookieFlow ==
  ASSUME Inv, FlowInv, ReadCookie PROVE FlowInv' /\ SessionStep
<1>1. CASE WriteFails(ctrl, {}) \/ ReadFails(ctrl)
  BY <1>1, WriteFailsFlow, ReadFailsFlow
<1>2. CASE /\ up' = [up EXCEPT ![ctrl] = IF @ = <<>> THEN @ ELSE Tail(@)]
           /\ SendDown(ctrl, "PARAM_EXCHANGE")
           /\ sstate' = "PARAM_EXCHANGE" /\ spc' = "params"
           /\ UNCHANGED <<ctrl, acc, accepted, streams, reverse, clientVars,
                          backlog, cEnd, sEnd>>
  <2>1. ctrl \in Conns /\ sstate = "IPERF_START" /\ spc = "cookie"
    BY InSession DEF ReadCookie, FlowInv, Position
  <2>2. \A c \in Clients : UpLess(c)
    BY <1>2, <2>1, CtrlConn DEF UpLess, Inv, NetTypes
  <2>3. /\ Phase["PARAM_EXCHANGE"] = Phase[sstate] + 1 /\ ~(Phase["PARAM_EXCHANGE"] >= 5)
        /\ "PARAM_EXCHANGE" \in States
    BY <2>1, Phases DEF States
  <2>4. \A c \in Clients : ctrl = Ctrl(c) => ~EndIn(c)'
    BY <2>1, <2>2, NoEnd
  <2>5. Position'
    BY <1>2 DEF Position
  <2> QED BY <1>2, <2>1, <2>2, <2>3, <2>4, <2>5, SpeakStep
<1> QED BY <1>1, <1>2 DEF ReadCookie

LEMMA ReadParamsFlow ==
  ASSUME Inv, FlowInv, ReadParams PROVE FlowInv' /\ SessionStep
<1>1. ctrl \in Conns /\ sstate = "PARAM_EXCHANGE" /\ spc = "params"
  BY InSession DEF ReadParams, FlowInv, Position
<1>2. CASE WriteFails(ctrl, {}) \/ Abort
  BY <1>2, WriteFailsFlow, AbortFlow
<1>3. ASSUME UpIs(ctrl, "json"), PopUp(ctrl) PROVE \A c \in Clients : UpLess(c)
  BY <1>1, <1>3, PopUpLess DEF UpIs
<1>4. CASE /\ UpIs(ctrl, "json") /\ PopUp(ctrl)
           /\ SendDown(ctrl, "CREATE_STREAMS")
           /\ sstate' = "CREATE_STREAMS" /\ spc' = "select"
           /\ UNCHANGED <<ctrl, cookie, acc, accepted, streams, clientVars, cEnd>>
  <2>1. /\ Phase["CREATE_STREAMS"] = Phase[sstate] + 1 /\ ~(Phase["CREATE_STREAMS"] >= 5)
        /\ "CREATE_STREAMS" \in States
    BY <1>1, Phases DEF States
  <2>2. \A c \in Clients : ctrl = Ctrl(c) => ~EndIn(c)'
    BY <1>1, <1>3, <1>4, NoEnd
  <2>3. Position'
    BY <1>4 DEF Position
  <2> QED BY <1>1, <1>3, <1>4, <2>1, <2>2, <2>3, SpeakStep
<1>5. CASE /\ UpIs(ctrl, "json") /\ PopUp(ctrl)
           /\ SendDown(ctrl, "SERVER_ERROR")
           /\ EndSession({})
           /\ UNCHANGED <<clientVars, cEnd>>
  BY <1>1, <1>3, <1>5, Silent, SendQuiet, EndSessionFlow
<1> QED BY <1>2, <1>4, <1>5 DEF ReadParams

LEMMA AcceptStreamFlow ==
  ASSUME Inv, FlowInv, AcceptStream PROVE FlowInv' /\ SessionStep
<1>1. Position'
  BY DEF AcceptStream, Position, FlowInv
<1> QED BY <1>1, SameQuiet, SameUpLess, SamePhase DEF AcceptStream

LEMMA NewStreamFlow ==
  ASSUME Inv, FlowInv, spc = "streamCookie", NewStream PROVE FlowInv' /\ SessionStep
<1>1. acc \in Conns /\ acc # NoConn /\ sstate = "CREATE_STREAMS"
  BY NoConnOther DEF Inv, ServerInv, Blocked
<1>2. ctrl \in Conns
  BY <1>1 DEF Inv, ServerInv, ServerTypes, NoSession
<1>3. \A c \in Clients : UpLess(c)
  BY <1>1, PopUpLess DEF NewStream, UpIs
<1>4. CASE accepted + 1 = NumStreams
  <2>1. /\ SendDown(ctrl, "TEST_START") /\ sstate' = "TEST_START" /\ spc' = "starting"
        /\ UNCHANGED <<ctrl, clientVars, cEnd>>
    BY <1>4 DEF NewStream
  <2>2. /\ Phase["TEST_START"] = Phase[sstate] + 1 /\ ~(Phase["TEST_START"] >= 5)
        /\ "TEST_START" \in States
    BY <1>1, Phases DEF States
  <2>3. \A c \in Clients : ctrl = Ctrl(c) => ~EndIn(c)'
    BY <1>1, <1>3, NoEnd
  <2>4. Position'
    BY <2>1 DEF Position
  <2> QED BY <1>2, <1>3, <2>1, <2>2, <2>3, <2>4, SpeakStep
<1>5. CASE accepted + 1 # NumStreams
  <2>1. spc' = "select" /\ UNCHANGED <<ctrl, sstate, clientVars, cEnd, down>>
    BY <1>5 DEF NewStream
  <2>2. Position'
    BY <2>1 DEF Position, FlowInv
  <2> QED BY <1>3, <2>1, <2>2, SameQuiet, SamePhase
<1> QED BY <1>4, <1>5

LEMMA DenyStreamFlow ==
  ASSUME Inv, FlowInv, spc = "streamCookie", DenyStream PROVE FlowInv' /\ SessionStep
<1>1. acc \in Conns
  BY DEF Inv, ServerInv, Blocked
<1>2. \A c \in Clients : UpLess(c)
  BY <1>1, CtrlConn DEF DenyStream, UpLess, Inv, NetTypes
<1>3. \A c \in Clients : Quiet(c)
  BY <1>1, Silent, SendQuiet DEF DenyStream
<1>4. Position'
  BY DEF DenyStream, Position, FlowInv
<1> QED BY <1>2, <1>3, <1>4, SamePhase DEF DenyStream

LEMMA ReadStreamCookieFlow ==
  ASSUME Inv, FlowInv, ReadStreamCookie PROVE FlowInv' /\ SessionStep
BY NewStreamFlow, DenyStreamFlow, WriteFailsFlow, ReadFailsFlow DEF ReadStreamCookie

LEMMA StartTestFlow == ASSUME Inv, FlowInv, StartTest PROVE FlowInv' /\ SessionStep
<1>1. CASE WriteFails(ctrl, {})
  BY <1>1, WriteFailsFlow
<1>2. CASE /\ sstate' = "TEST_RUNNING" /\ spc' = "select"
           /\ SendDown(ctrl, "TEST_RUNNING")
           /\ UNCHANGED <<ctrl, cookie, acc, accepted, streams, reverse,
                          clientVars, backlog, cEnd, sEnd, up>>
  <2>1. ctrl \in Conns /\ sstate = "TEST_START" /\ spc = "starting"
    BY InSession DEF StartTest, FlowInv, Position
  <2>2. \A c \in Clients : UpLess(c)
    BY <1>2, SameUpLess
  <2>3. /\ Phase["TEST_RUNNING"] = Phase[sstate] + 1 /\ ~(Phase["TEST_RUNNING"] >= 5)
        /\ "TEST_RUNNING" \in States
    BY <2>1, Phases DEF States
  <2>4. \A c \in Clients : ctrl = Ctrl(c) => ~EndIn(c)'
    BY <2>1, <2>2, NoEnd
  <2>5. Position'
    BY <1>2 DEF Position
  <2> QED BY <1>2, <2>1, <2>2, <2>3, <2>4, <2>5, SpeakStep
<1> QED BY <1>1, <1>2 DEF StartTest

LEMMA SendDataFlow == ASSUME Inv, FlowInv, SendData PROVE FlowInv' /\ SessionStep
<1>1. PICK k \in streams :
        \/ /\ SendDown(k, "half")
           /\ UNCHANGED <<serverVars, clientVars, backlog, cEnd, sEnd, up>>
        \/ WriteFails(k, {})
  BY DEF SendData
<1>2. k \in Conns
  BY DEF Inv, ServerInv, ServerTypes
<1>3. CASE WriteFails(k, {})
  BY <1>3, WriteFailsFlow
<1>4. CASE /\ SendDown(k, "half")
           /\ UNCHANGED <<serverVars, clientVars, backlog, cEnd, sEnd, up>>
  <2>1. \A c \in Clients : Quiet(c) /\ UpLess(c)
    BY <1>2, <1>4, Silent, SendQuiet, SameUpLess
  <2>2. Position'
    BY <1>4 DEF Position, FlowInv, serverVars
  <2> QED BY <1>4, <2>1, <2>2, SamePhase DEF serverVars, SendData
<1> QED BY <1>1, <1>3, <1>4

LEMMA RecvDataFlow == ASSUME Inv, FlowInv, RecvData PROVE FlowInv' /\ SessionStep
BY ReadFailsFlow DEF RecvData

\* TEST_END from the client that is served comes in a running test.
LEMMA HandleTestEndFlow ==
  ASSUME Inv, FlowInv, spc = "select", ctrl \in Conns, HandleTestEnd
  PROVE  FlowInv' /\ SessionStep
<1>1. CASE WriteFails(ctrl, streams)
  BY <1>1, WriteFailsFlow
<1>2. CASE /\ PopUp(ctrl)
           /\ sstate' = "EXCHANGE_RESULTS" /\ spc' = "results"
           /\ SendDown(ctrl, "EXCHANGE_RESULTS")
           /\ UNCHANGED <<ctrl, cookie, acc, accepted, streams, reverse,
                          clientVars, backlog, cEnd>>
  <2>1. UpIs(ctrl, "TEST_END") /\ up[ctrl] # <<>>
    BY DEF HandleTestEnd, UpIs
  <2>2. \A c \in Clients : UpLess(c)
    BY <1>2, <2>1, PopUpLess
  <2>3. ASSUME NEW c \in Clients, ctrl = Ctrl(c)
        PROVE  Phase["EXCHANGE_RESULTS"] = Phase[sstate] + 1 /\ ~EndIn(c)' /\ Ended(c)
    <3>1. EndIn(c) /\ ~EndIn(c)'
      BY <1>2, <2>1, <2>3, EndRead DEF FlowInv, EndSent
    <3>2. sstate = "TEST_RUNNING" /\ Ended(c)
      BY <2>3, <3>1 DEF FlowInv, EndSent
    <3> QED BY <3>1, <3>2, Phases
  <2>4. Position'
    BY <1>2 DEF Position
  <2>5. "EXCHANGE_RESULTS" \in States
    BY DEF States
  <2> QED BY <1>2, <2>2, <2>3, <2>4, <2>5, SpeakStep
<1> QED BY <1>1, <1>2 DEF HandleTestEnd

LEMMA HandleLastFlow ==
  ASSUME Inv, FlowInv, ctrl \in Conns, HandleLast PROVE FlowInv' /\ SessionStep
<1>1. PICK S : EndSession(S)
  BY DEF HandleLast
<1>2. \A c \in Clients : Quiet(c) /\ UpLess(c)
  BY PopUpLess, SameUpLess, SameQuiet DEF HandleLast, UpIs
<1> QED BY <1>1, <1>2, EndSessionFlow DEF HandleLast

LEMMA HandleMessageServerFlow ==
  ASSUME Inv, FlowInv, HandleMessageServer PROVE FlowInv' /\ SessionStep
<1>1. ctrl \in Conns
  BY DEF Inv, ServerInv, ServerTypes, HandleMessageServer
<1> QED BY <1>1, HandleTestEndFlow, HandleLastFlow DEF HandleMessageServer

LEMMA ReadResultsFlow == ASSUME Inv, FlowInv, ReadResults PROVE FlowInv' /\ SessionStep
<1>1. ctrl \in Conns /\ sstate = "EXCHANGE_RESULTS" /\ spc = "results"
  BY InSession DEF ReadResults, FlowInv, Position
<1>2. CASE WriteFails(ctrl, {}) \/ Abort
  BY <1>2, WriteFailsFlow, AbortFlow
<1>3. CASE /\ UpIs(ctrl, "json") /\ PopUp(ctrl)
           /\ SendDown(ctrl, "json")
           /\ spc' = "display"
           /\ UNCHANGED <<sstate, ctrl, cookie, acc, accepted, streams, reverse,
                          clientVars, backlog, cEnd, sEnd>>
  <2>1. \A c \in Clients : Quiet(c) /\ UpLess(c)
    BY <1>1, <1>3, Silent, SendQuiet, PopUpLess DEF UpIs
  <2>2. Position'
    BY <1>1, <1>3 DEF Position
  <2> QED BY <1>1, <1>3, <2>1, <2>2, SamePhase
<1> QED BY <1>2, <1>3 DEF ReadResults

LEMMA SendDisplayFlow == ASSUME Inv, FlowInv, SendDisplay PROVE FlowInv' /\ SessionStep
<1>1. CASE WriteFails(ctrl, {})
  BY <1>1, WriteFailsFlow
<1>2. CASE /\ sstate' = "DISPLAY_RESULTS" /\ spc' = "select"
           /\ SendDown(ctrl, "DISPLAY_RESULTS")
           /\ UNCHANGED <<ctrl, cookie, acc, accepted, streams, reverse,
                          clientVars, backlog, cEnd, sEnd, up>>
  <2>1. ctrl \in Conns /\ sstate = "EXCHANGE_RESULTS" /\ spc = "display"
    BY InSession DEF SendDisplay, FlowInv, Position
  <2>2. \A c \in Clients : UpLess(c)
    BY <1>2, SameUpLess
  <2>3. Phase["DISPLAY_RESULTS"] = Phase[sstate] + 1 /\ "DISPLAY_RESULTS" \in States
    BY <2>1, Phases DEF States
  <2>4. \A c \in Clients : ctrl = Ctrl(c) => ~EndIn(c)' /\ Ended(c)
    BY <2>1, <2>2, NoEnd, Phases DEF FlowInv, EndSent
  <2>5. Position'
    BY <1>2 DEF Position
  <2> QED BY <1>2, <2>1, <2>2, <2>3, <2>4, <2>5, SpeakStep
<1> QED BY <1>1, <1>2 DEF SendDisplay

LEMMA ServerGoneFlow ==
  ASSUME Inv, FlowInv, ServerSignal \/ ServerCrash PROVE FlowInv' /\ SessionStep
<1>1. ctrl # NoConn => ctrl \in Conns
  BY DEF Inv, ServerInv, ServerTypes
<1>2. \A c \in Clients : Quiet(c)
  BY <1>1, Silent, SendQuiet, SameQuiet DEF ServerSignal, ServerCrash
<1> QED BY <1>2, ServerExitFlow DEF ServerSignal, ServerCrash

LEMMA ServerStepFlow ==
  ASSUME Inv, SessionInv, FlowInv, ServerStep PROVE FlowInv' /\ SessionStep
BY ListenFlow, AcceptClientFlow, AcceptBusyFlow, ReadCookieFlow, ReadParamsFlow,
   AcceptStreamFlow, ReadStreamCookieFlow, StartTestFlow, SendDataFlow,
   RecvDataFlow, HandleMessageServerFlow, ReadResultsFlow, SendDisplayFlow
DEF ServerStep

-----------------------------------------------------------------------------
(* Steps of a client in general *)

\* A step of one client is not seen by the others.
OthersSame(c) ==
  \A d \in Clients \ {c} :
    /\ cpc'[d] = cpc[d] /\ cstate'[d] = cstate[d] /\ reading'[d] = reading[d]
    /\ cEnd'[Ctrl(d)] = cEnd[Ctrl(d)]
    /\ down'[Ctrl(d)] = down[Ctrl(d)] /\ up'[Ctrl(d)] = up[Ctrl(d)]

\* What the client writes, other than TEST_END.
UpMore(c) ==
  \/ up'[Ctrl(c)] = up[Ctrl(c)]
  \/ \E m \in Messages : m # "TEST_END" /\ up'[Ctrl(c)] = Append(up[Ctrl(c)], m)

\* The control connection is not opened while the server is in its session.
NotOpened(c) ==
  cEnd'[Ctrl(c)] = "open" /\ ctrl = Ctrl(c) => cEnd[Ctrl(c)] = "open"

LEMMA UpMoreEnds ==
  ASSUME Inv, NEW c \in Clients, UpMore(c), OneEnd(c)
  PROVE  OneEnd(c)' /\ (EndIn(c)' => EndIn(c))
<1>1. up[Ctrl(c)] \in Seq(Messages)
  BY DownType
<1>2. CASE up'[Ctrl(c)] = up[Ctrl(c)]
  BY <1>2 DEF OneEnd, EndIn, Ctrl
<1>3. CASE up'[Ctrl(c)] # up[Ctrl(c)]
  <2>1. PICK m \in Messages : m # "TEST_END" /\ up'[Ctrl(c)] = Append(up[Ctrl(c)], m)
    BY <1>3 DEF UpMore
  <2>2. \A i \in DOMAIN up'[Ctrl(c)] : up'[Ctrl(c)][i] = "TEST_END" =>
          i \in DOMAIN up[Ctrl(c)] /\ up[Ctrl(c)][i] = "TEST_END"
    BY <1>1, <2>1, Appended
  <2>3. EndIn(c)' => EndIn(c)
    BY <2>2 DEF EndIn, Ctrl
  <2>4. OneEnd(c)'
    BY <2>2 DEF OneEnd, Ctrl
  <2> QED BY <2>3, <2>4
<1> QED BY <1>2, <1>3

\* What holds of the other clients goes on holding.
LEMMA OthersFlow ==
  ASSUME Inv, FlowInv, NEW c \in Clients, UNCHANGED serverVars, OthersSame(c),
         NEW d \in Clients \ {c}
  PROVE  /\ Told(d)' = Told(d) /\ ClientFlow(d)' /\ Level(d)' /\ EndSent(d)'
         /\ Phase[cstate'[d]] = Phase[cstate[d]] /\ Outcome(d)' = Outcome(d)
<1>1. /\ cpc'[d] = cpc[d] /\ cstate'[d] = cstate[d] /\ reading'[d] = reading[d]
      /\ cEnd'[Ctrl(d)] = cEnd[Ctrl(d)]
      /\ down'[Ctrl(d)] = down[Ctrl(d)] /\ up'[Ctrl(d)] = up[Ctrl(d)]
      /\ ctrl' = ctrl /\ sstate' = sstate
  BY DEF OthersSame, serverVars
<1>2. d \in Clients /\ ClientFlow(d) /\ Level(d) /\ EndSent(d)
  BY FlowParts
<1>3. Told(d)' = Told(d) /\ ClientFlow(d)'
  BY <1>1, <1>2, ToldSame DEF ClientFlow
<1>4. Level(d)'
  BY <1>1, <1>2, <1>3 DEF Level, Ctrl
<1>5. EndSent(d)'
  BY <1>1, <1>2 DEF EndSent, OneEnd, EndIn, Ended, Ctrl
<1>6. Outcome(d)' = Outcome(d)
  BY <1>1 DEF Outcome
<1> QED BY <1>1, <1>3, <1>4, <1>5, <1>6

\* A client writes nothing but what it may, and is told of nothing new.
LEMMA OwnFlow ==
  ASSUME Inv, FlowInv, NEW c \in Clients, UNCHANGED serverVars, OthersSame(c),
         Told(c)' = Told(c), ClientFlow(c)', NotOpened(c), EndSent(c)'
  PROVE  /\ FlowInv' /\ Serving' = Serving
         /\ [d \in Clients |-> Told(d)]' = [d \in Clients |-> Told(d)]
<1>1. ctrl' = ctrl /\ sstate' = sstate /\ spc' = spc
  BY DEF serverVars
<1>2. Level(c)'
  <2>1. Level(c)
    BY FlowParts
  <2> QED BY <1>1, <2>1 DEF Level, NotOpened, Ctrl
<1>3. \A d \in Clients \ {c} : Told(d)' = Told(d) /\ ClientFlow(d)' /\ Level(d)' /\ EndSent(d)'
  BY OthersFlow
<1>4. \A d \in Clients : Told(d)' = Told(d)
  BY <1>3
<1>5. \A d \in Clients : ClientFlow(d)' /\ Level(d)' /\ EndSent(d)'
  BY <1>2, <1>3
<1>6. Position'
  BY <1>1 DEF Position, FlowInv
<1>7. FlowInv'
  BY <1>5, <1>6 DEF FlowInv, ClientFlow
<1>8. Serving' = Serving
  BY <1>1 DEF Serving, Ctrl
<1>9. [d \in Clients |-> Told(d)]' = [d \in Clients |-> Told(d)]
  BY <1>4
<1> QED BY <1>7, <1>8, <1>9

LEMMA EndSentKept ==
  ASSUME Inv, FlowInv, NEW c \in Clients, UNCHANGED serverVars, UpMore(c),
         Ended(c) => Ended(c)'
  PROVE  EndSent(c)'
<1>1. ctrl' = ctrl /\ sstate' = sstate
  BY DEF serverVars
<1>2. EndSent(c)
  BY FlowParts
<1>3. OneEnd(c)' /\ (EndIn(c)' => EndIn(c))
  BY <1>2, UpMoreEnds DEF EndSent
<1> QED BY <1>1, <1>2, <1>3 DEF EndSent, Ctrl

\* A step in which the client enters no phase.
LEMMA StayFlow ==
  ASSUME Inv, FlowInv, NEW c \in Clients, UNCHANGED serverVars, OthersSame(c),
         cstate'[c] = cstate[c], down'[Ctrl(c)] = down[Ctrl(c)],
         cpc'[c] = "drain" => reading'[c] > 0, NotOpened(c), UpMore(c)
  PROVE  /\ FlowInv' /\ Serving' = Serving
         /\ [d \in Clients |-> Told(d)]' = [d \in Clients |-> Told(d)]
         /\ [d \in Clients |-> Phase[cstate[d]]]' = [d \in Clients |-> Phase[cstate[d]]]
<1>1. Told(c)' = Told(c) /\ ClientFlow(c)'
  BY ToldSame, FlowParts DEF ClientFlow
<1>2. EndSent(c)'
  BY EndSentKept DEF Ended
<1>3. \A d \in Clients : Phase[cstate'[d]] = Phase[cstate[d]]
  BY DEF OthersSame
<1> QED BY <1>1, <1>2, <1>3, OwnFlow

\* ... and its run goes on.
LEMMA StayStep ==
  ASSUME Inv, FlowInv, NEW c \in Clients, UNCHANGED serverVars, OthersSame(c),
         cstate'[c] = cstate[c], down'[Ctrl(c)] = down[Ctrl(c)],
         cpc'[c] = "drain" => reading'[c] > 0, NotOpened(c), UpMore(c),
         cpc[c] \notin {"done", "failed", "killed"},
         cpc'[c] \notin {"done", "failed", "killed"}
  PROVE  FlowInv' /\ SessionStep
<1>1. \A d \in Clients : Outcome(d)' = Outcome(d)
  BY DEF Outcome, OthersSame
<1>2. [d \in Clients |-> Outcome(d)]' = [d \in Clients |-> Outcome(d)]
  BY <1>1
<1> QED BY <1>2, StayFlow DEF SessionStep, Session!svars

\* The run of the client ends in another way than by success.
LEMMA OutcomeStep ==
  ASSUME Inv, FlowInv, NEW c \in Clients, UNCHANGED serverVars, OthersSame(c),
         cstate'[c] = cstate[c], down'[Ctrl(c)] = down[Ctrl(c)],
         NotOpened(c), UpMore(c),
         \/ cpc[c] \notin {"done", "failed", "killed"} /\ cpc'[c] = "failed"
         \/ cpc'[c] = "killed"
  PROVE  FlowInv' /\ SessionStep
<1>1. /\ FlowInv' /\ Serving' = Serving
      /\ [d \in Clients |-> Told(d)]' = [d \in Clients |-> Told(d)]
      /\ [d \in Clients |-> Phase[cstate[d]]]' = [d \in Clients |-> Phase[cstate[d]]]
  BY StayFlow
<1>2. \A d \in Clients \ {c} : Outcome(d)' = Outcome(d)
  BY OthersFlow
<1>3. CASE cpc[c] \notin {"done", "failed", "killed"} /\ cpc'[c] = "failed"
  <2>1. Outcome(c) = "none" /\ Outcome(c)' = "failure"
    BY <1>3 DEF Outcome
  <2>2. [d \in Clients |-> Outcome(d)]'
          = [[d \in Clients |-> Outcome(d)] EXCEPT ![c] = "failure"]
    BY <1>2, <2>1
  <2>3. Session!Fail(c)
    BY <1>1, <2>1, <2>2 DEF Session!Fail
  <2> QED BY <1>1, <2>3 DEF SessionStep, Session!Next
<1>4. CASE cpc'[c] = "killed"
  <2>1. Outcome(c)' = "killed"
    BY <1>4 DEF Outcome
  <2>2. [d \in Clients |-> Outcome(d)]'
          = [[d \in Clients |-> Outcome(d)] EXCEPT ![c] = "killed"]
    BY <1>2, <2>1
  <2>3. Session!Die(c)
    BY <1>1, <2>2 DEF Session!Die
  <2> QED BY <1>1, <2>3 DEF SessionStep, Session!Next
<1> QED BY <1>3, <1>4

\* The client takes a word off its control connection and enters the phase the
\* word announces; with the last phase, and only then, its run has succeeded.
LEMMA TakeStep ==
  ASSUME Inv, FlowInv, NEW c \in Clients, UNCHANGED serverVars, OthersSame(c),
         down[Ctrl(c)] # <<>>, down'[Ctrl(c)] = Tail(down[Ctrl(c)]),
         NotOpened(c), UpMore(c), cstate[c] = "TEST_END" => Ended(c)',
         cpc[c] \in {"select", "results"},
         cpc'[c] \in {"select", "results", "connect", "done"},
         LET p == PhaseOf(Head(down[Ctrl(c)])) IN
           /\ Phase[cstate'[c]] = IF p = 0 THEN Phase[cstate[c]] ELSE p
           /\ cpc'[c] = "done" <=> p = 6
  PROVE  FlowInv' /\ SessionStep
<1> DEFINE p == PhaseOf(Head(down[Ctrl(c)]))
<1>1. Ascending(c) /\ Gapless(c) /\ Phase[cstate[c]] \in 0..6 /\ p \in 0..6
  BY DownType, PhaseOfType DEF FlowInv
<1>2. p = 0 \/ (p = Phase[cstate[c]] + 1 /\ p \in Told(c))
  BY <1>1, TakeHead
<1>3. Told(c)' = Told(c) /\ Ascending(c)' /\ Gapless(c)'
  BY <1>1, ToldTake
<1>4. Phase[cstate'[c]] >= Phase[cstate[c]]
  BY <1>1, <1>2
<1>5. Phase[cstate'[c]] \in 0..6
  BY <1>1
<1>6. EndSent(c)'
  <2>1. Ended(c) => Ended(c)'
    BY <1>1, <1>4, <1>5 DEF Ended
  <2> QED BY <2>1, EndSentKept
<1>7. ClientFlow(c)'
  BY <1>3 DEF ClientFlow
<1>8. /\ FlowInv' /\ Serving' = Serving
      /\ [d \in Clients |-> Told(d)]' = [d \in Clients |-> Told(d)]
  BY <1>3, <1>6, <1>7, OwnFlow
<1>9. \A d \in Clients \ {c} : Phase[cstate'[d]] = Phase[cstate[d]] /\ Outcome(d)' = Outcome(d)
  BY OthersFlow
<1>10. Outcome(c) = "none" /\ Outcome(c)' = IF p = 6 THEN "success" ELSE "none"
  BY DEF Outcome
<1>11. CASE p = 0
  <2>1. [d \in Clients |-> Phase[cstate[d]]]' = [d \in Clients |-> Phase[cstate[d]]]
    BY <1>9, <1>11
  <2>2. [d \in Clients |-> Outcome(d)]' = [d \in Clients |-> Outcome(d)]
    BY <1>9, <1>10, <1>11
  <2> QED BY <1>8, <2>1, <2>2 DEF SessionStep, Session!svars
<1>12. CASE p # 0
  <2>1. p = Phase[cstate[c]] + 1 /\ p \in Told(c) /\ Phase[cstate'[c]] = p
    BY <1>2, <1>12
  <2>2. [d \in Clients |-> Phase[cstate[d]]]'
          = [[d \in Clients |-> Phase[cstate[d]]] EXCEPT ![c] = @ + 1]
    BY <1>9, <2>1
  <2>3. [d \in Clients |-> Outcome(d)]'
          = IF Phase[cstate[c]] = 5
            THEN [[d \in Clients |-> Outcome(d)] EXCEPT ![c] = "success"]
            ELSE [d \in Clients |-> Outcome(d)]
    <3>1. p = 6 <=> Phase[cstate[c]] = 5
      BY <1>1, <2>1
    <3> HIDE DEF p
    <3>2. CASE p = 6
      BY <1>9, <1>10, <3>1, <3>2
    <3>3. CASE p # 6
      BY <1>9, <1>10, <3>1, <3>3
    <3> QED BY <3>2, <3>3
  <2>4. Session!Enter(c)
    BY <1>8, <1>10, <2>1, <2>2, <2>3 DEF Session!Enter
  <2> QED BY <1>8, <2>4 DEF SessionStep, Session!Next
<1> QED BY <1>11, <1>12

-----------------------------------------------------------------------------
(* The steps of a client *)

LEMMA CloseNotOpened ==
  ASSUME Inv, NEW c \in Clients, NEW S, CloseClient(S) PROVE NotOpened(c)
BY CtrlConn DEF CloseClient, NotOpened

LEMMA SameUpMore == ASSUME NEW c, up' = up PROVE UpMore(c)
BY DEF UpMore

\* What is sent on a connection of the client.
LEMMA SendUpOne ==
  ASSUME Inv, NEW c \in Clients, NEW k \in Of(c), NEW m, SendUp(k, m)
  PROVE  /\ \A d \in Clients \ {c} : up'[Ctrl(d)] = up[Ctrl(d)]
         /\ up'[Ctrl(c)] = up[Ctrl(c)]
              \/ (k = Ctrl(c) /\ up'[Ctrl(c)] = Append(up[Ctrl(c)], m))
<1>1. k \in Conns /\ Ctrl(c) \in Conns /\ up \in [Conns -> Seq(Messages)]
  BY CtrlConn DEF Of, Inv, NetTypes
<1>2. \A d \in Clients \ {c} : Ctrl(d) \in Conns /\ Ctrl(d) # k
  BY Others, CtrlConn DEF Of
<1> QED BY <1>1, <1>2 DEF SendUp

LEMMA SendUpMore ==
  ASSUME Inv, NEW c \in Clients, NEW k \in Of(c), NEW m \in Messages \ {"TEST_END"},
         SendUp(k, m)
  PROVE  UpMore(c) /\ \A d \in Clients \ {c} : up'[Ctrl(d)] = up[Ctrl(d)]
BY SendUpOne DEF UpMore

LEMMA Words ==
  {"cookie", "json", "IPERF_DONE", "CLIENT_TERMINATE"} \subseteq Messages \ {"TEST_END"}
BY DEF Messages, States

LEMMA CtrlOf == ASSUME NEW c \in Clients PROVE Ctrl(c) \in Of(c)
BY CtrlConn DEF Ctrl, Of

LEMMA ClientFailsFlow ==
  ASSUME Inv, FlowInv, NEW c \in Clients, cpc[c] \notin {"done", "failed", "killed"},
         ClientFails(c)
  PROVE  FlowInv' /\ SessionStep
<1>1. cpc'[c] = "failed" /\ \A d \in Clients \ {c} : cpc'[d] = cpc[d]
  BY GotoOther DEF ClientFails
<1>2. PICK S : S \subseteq Of(c) /\ CloseClient(S)
  BY DEF ClientFails
<1>3. \A d \in Clients \ {c} : cEnd'[Ctrl(d)] = cEnd[Ctrl(d)]
  BY <1>2, CloseOther
<1>4. UNCHANGED <<serverVars, cstate, reading, up, down>>
  BY DEF ClientFails
<1>5. OthersSame(c)
  BY <1>1, <1>3, <1>4 DEF OthersSame
<1>6. NotOpened(c) /\ UpMore(c)
  BY <1>2, <1>4, CloseNotOpened, SameUpMore
<1> QED BY <1>1, <1>4, <1>5, <1>6, OutcomeStep

LEMMA ClientGoneFlow ==
  ASSUME Inv, FlowInv, NEW c \in Clients, ClientSignal(c) \/ ClientCrash(c)
  PROVE  FlowInv' /\ SessionStep
<1>1. /\ Goto(c, "killed") /\ CloseClient(Of(c))
      /\ UNCHANGED <<serverVars, cstate, reading, down>>
      /\ UNCHANGED up \/ SendUp(Ctrl(c), "CLIENT_TERMINATE")
  BY DEF ClientSignal, ClientCrash
<1>2. cpc'[c] = "killed" /\ \A d \in Clients \ {c} : cpc'[d] = cpc[d]
  BY <1>1, GotoOther
<1>3. \A d \in Clients \ {c} : cEnd'[Ctrl(d)] = cEnd[Ctrl(d)]
  BY <1>1, CloseOther
<1>4. UpMore(c) /\ \A d \in Clients \ {c} : up'[Ctrl(d)] = up[Ctrl(d)]
  BY <1>1, CtrlOf, Words, SendUpMore, SameUpMore
<1>5. OthersSame(c)
  BY <1>1, <1>2, <1>3, <1>4 DEF OthersSame
<1>6. NotOpened(c)
  BY <1>1, CloseNotOpened
<1> QED BY <1>1, <1>2, <1>4, <1>5, <1>6, OutcomeStep

\* A client that has not connected yet is not the one behind ctrl_sck.
LEMMA ConnectFlow ==
  ASSUME Inv, SessionInv, FlowInv, NEW c \in Clients, Connect(c)
  PROVE  FlowInv' /\ SessionStep
<1>1. cpc[c] = "init"
  BY DEF Connect, At
<1>2. CASE ~Listening
  BY <1>1, <1>2, ClientFailsFlow DEF Connect
<1>3. CASE Listening
  <2>1. /\ Goto(c, "cookie") /\ cEnd' = [cEnd EXCEPT ![Ctrl(c)] = "open"]
        /\ UNCHANGED <<serverVars, cstate, reading, up, down>>
    BY <1>3 DEF Connect
  <2>2. cpc'[c] = "cookie" /\ \A d \in Clients \ {c} : cpc'[d] = cpc[d]
    BY <2>1, GotoOther
  <2>3. \A d \in Clients \ {c} : cEnd'[Ctrl(d)] = cEnd[Ctrl(d)]
    BY <2>1, Others, CtrlConn DEF Inv, NetTypes
  <2>4. NotOpened(c)
    <3>1. sEnd[Ctrl(c)] = "none"
      BY <1>1 DEF SessionInv, Ends, Fresh
    <3>2. ctrl # Ctrl(c)
      BY <3>1, CtrlConn, NoConnOther DEF SessionInv, Roles, Served
    <3> QED BY <3>2 DEF NotOpened
  <2>5. OthersSame(c)
    BY <2>1, <2>2, <2>3 DEF OthersSame
  <2>6. UpMore(c)
    BY <2>1, SameUpMore
  <2> QED BY <1>1, <2>1, <2>2, <2>4, <2>5, <2>6, StayStep
<1> QED BY <1>2, <1>3

LEMMA CtrlNotData ==
  ASSUME NEW c, NEW k \in Data(c), NEW d PROVE Ctrl(d) # k
<1>1. Ctrl(d)[2] = 0
  BY DEF Ctrl
<1>2. k[2] > 0
  BY DEF Data
<1>3. ~(0 > 0)
  OBVIOUS
<1> QED BY <1>1, <1>2, <1>3

LEMMA ConnectStreamFlow ==
  ASSUME Inv, FlowInv, NEW c \in Clients, ConnectStream(c)
  PROVE  FlowInv' /\ SessionStep
<1>1. cpc[c] = "connect"
  BY DEF ConnectStream, At
<1>2. CASE ~Listening
  BY <1>1, <1>2, ClientFailsFlow DEF ConnectStream
<1>3. CASE Listening
  <2>1. /\ Goto(c, "streamCookie") /\ cEnd' = [cEnd EXCEPT ![<<c, next[c]>>] = "open"]
        /\ UNCHANGED <<serverVars, cstate, reading, up, down>>
    BY <1>3 DEF ConnectStream
  <2>2. cpc'[c] = "streamCookie" /\ \A d \in Clients \ {c} : cpc'[d] = cpc[d]
    BY <2>1, GotoOther
  <2>3. next[c] \in 1..NumStreams
    BY NextConn DEF ConnectStream
  <2>4. \A d \in Clients : cEnd'[Ctrl(d)] = cEnd[Ctrl(d)]
    <3>1. \A d \in Clients : Ctrl(d) \in Conns /\ Ctrl(d) # <<c, next[c]>>
      <4>1. <<c, next[c]>> \in Data(c)
        BY <2>3, NextConn DEF ConnectStream, Data
      <4> QED BY <4>1, CtrlConn, CtrlNotData
    <3>2. \A k \in Conns : k # <<c, next[c]>> => cEnd'[k] = cEnd[k]
      BY <2>1 DEF Inv, NetTypes
    <3> QED BY <3>1, <3>2
  <2>5. OthersSame(c)
    BY <2>1, <2>2, <2>4 DEF OthersSame
  <2>6. UpMore(c) /\ NotOpened(c)
    BY <2>1, <2>4, SameUpMore DEF NotOpened
  <2> QED BY <1>1, <2>1, <2>2, <2>5, <2>6, StayStep
<1> QED BY <1>2, <1>3

LEMMA SendCookieFlow ==
  ASSUME Inv, FlowInv, NEW c \in Clients, SendCookie(c) PROVE FlowInv' /\ SessionStep
<1>1. cpc[c] = "cookie"
  BY DEF SendCookie, At
<1>2. CASE ClientFails(c)
  BY <1>1, <1>2, ClientFailsFlow
<1>3. CASE /\ SendUp(Ctrl(c), "cookie") /\ Goto(c, "select")
           /\ UNCHANGED <<serverVars, cstate, next, reading, backlog, cEnd, sEnd, down>>
  <2>1. cpc'[c] = "select" /\ \A d \in Clients \ {c} : cpc'[d] = cpc[d]
    BY <1>3, GotoOther
  <2>2. UpMore(c) /\ \A d \in Clients \ {c} : up'[Ctrl(d)] = up[Ctrl(d)]
    BY <1>3, CtrlOf, Words, SendUpMore
  <2>3. OthersSame(c) /\ NotOpened(c)
    BY <1>3, <2>1, <2>2 DEF OthersSame, NotOpened
  <2> QED BY <1>1, <1>3, <2>1, <2>2, <2>3, StayStep
<1> QED BY <1>2, <1>3 DEF SendCookie

LEMMA SendStreamCookieFlow ==
  ASSUME Inv, FlowInv, NEW c \in Clients, SendStreamCookie(c)
  PROVE  FlowInv' /\ SessionStep
<1>1. cpc[c] = "streamCookie"
  BY DEF SendStreamCookie, At
<1>2. CASE ClientFails(c)
  BY <1>1, <1>2, ClientFailsFlow
<1>3. CASE /\ SendUp(<<c, next[c]>>, "cookie")
           /\ Goto(c, IF next[c] = NumStreams THEN "select" ELSE "connect")
           /\ UNCHANGED <<serverVars, cstate, reading, backlog, cEnd, sEnd, down>>
  <2>1. cpc'[c] \in {"select", "connect"} /\ \A d \in Clients \ {c} : cpc'[d] = cpc[d]
    BY <1>3, GotoOther
  <2>2. <<c, next[c]>> \in Of(c)
    BY <1>1, NextConn DEF Inv, ClientInv, Of
  <2>3. UpMore(c) /\ \A d \in Clients \ {c} : up'[Ctrl(d)] = up[Ctrl(d)]
    BY <1>3, <2>2, Words, SendUpMore
  <2>4. OthersSame(c) /\ NotOpened(c)
    BY <1>3, <2>1, <2>3 DEF OthersSame, NotOpened
  <2> QED BY <1>1, <1>3, <2>1, <2>3, <2>4, StayStep
<1> QED BY <1>2, <1>3 DEF SendStreamCookie

\* Data is read off a data connection.
LEMMA ReadDataFlow ==
  ASSUME Inv, FlowInv, NEW c \in Clients, NEW k \in Data(c),
         \A j \in Conns \ {k} : down'[j] = down[j],
         UNCHANGED <<serverVars, cstate, cEnd, up>>,
         cpc[c] \in {"select", "drain"}, cpc'[c] = "select",
         \A d \in Clients \ {c} : cpc'[d] = cpc[d] /\ reading'[d] = reading[d]
  PROVE  FlowInv' /\ SessionStep
<1>1. \A d \in Clients : Ctrl(d) \in Conns \ {k}
  BY CtrlConn, CtrlNotData
<1>2. \A d \in Clients : down'[Ctrl(d)] = down[Ctrl(d)]
  BY <1>1
<1>3. OthersSame(c) /\ NotOpened(c) /\ UpMore(c)
  BY <1>2, SameUpMore DEF OthersSame, NotOpened
<1>4. /\ UNCHANGED serverVars /\ cstate'[c] = cstate[c] /\ cpc'[c] # "drain"
      /\ cpc[c] \notin {"done", "failed", "killed"}
      /\ cpc'[c] \notin {"done", "failed", "killed"}
  OBVIOUS
<1> QED BY <1>2, <1>3, <1>4, StayStep

LEMMA ReceiveDataFlow ==
  ASSUME Inv, FlowInv, NEW c \in Clients, ReceiveData(c) PROVE FlowInv' /\ SessionStep
<1>1. PICK k \in Data(c) : down' = [down EXCEPT ![k] = <<>>]
  BY DEF ReceiveData
<1>2. \A j \in Conns \ {k} : down'[j] = down[j]
  BY <1>1 DEF Inv, NetTypes
<1> QED BY <1>2, ReadDataFlow DEF ReceiveData, At, clientVars

LEMMA BeginDrainFlow ==
  ASSUME Inv, FlowInv, NEW c \in Clients, BeginDrain(c) PROVE FlowInv' /\ SessionStep
<1>1. cpc[c] = "select" /\ UNCHANGED <<serverVars, cstate, cEnd, up, down>>
  BY DEF BeginDrain, At, netVars
<1>2. cpc'[c] = "drain" /\ \A d \in Clients \ {c} : cpc'[d] = cpc[d]
  BY GotoOther DEF BeginDrain
<1>3. PICK k \in Data(c) : reading' = [reading EXCEPT ![c] = k[2]]
  BY DEF BeginDrain
<1>4. reading'[c] > 0 /\ \A d \in Clients \ {c} : reading'[d] = reading[d]
  BY <1>3 DEF Data, Inv, ClientInv, ClientTypes
<1>5. OthersSame(c) /\ NotOpened(c) /\ UpMore(c)
  BY <1>1, <1>2, <1>4, SameUpMore DEF OthersSame, NotOpened
<1> QED BY <1>1, <1>2, <1>4, <1>5, StayStep

LEMMA DrainFlow ==
  ASSUME Inv, FlowInv, NEW c \in Clients, Drain(c) PROVE FlowInv' /\ SessionStep
<1> DEFINE k == <<c, reading[c]>>
<1>1. cpc[c] = "drain" /\ UNCHANGED <<serverVars, cstate, cEnd, up>>
  BY DEF Drain, At
<1>2. cpc'[c] = "select" /\ \A d \in Clients \ {c} : cpc'[d] = cpc[d]
  BY GotoOther DEF Drain
<1>3. \A d \in Clients \ {c} : reading'[d] = reading[d]
  BY DEF Drain, Inv, ClientInv, ClientTypes
<1>4. reading[c] \in 0..NumStreams /\ reading[c] > 0
  BY <1>1 DEF FlowInv, Inv, ClientInv, ClientTypes
<1>5. k \in Data(c)
  BY <1>4 DEF Data, Conns
<1>6. \A j \in Conns \ {k} : down'[j] = down[j]
  BY DEF Drain, Inv, NetTypes
<1> HIDE DEF k
<1> QED BY <1>1, <1>2, <1>3, <1>5, <1>6, ReadDataFlow

\* A word is taken, and the client closes some of its connections or none.
LEMMA TakeWord ==
  ASSUME Inv, FlowInv, NEW c \in Clients, cpc[c] \in {"select", "results"},
         down[Ctrl(c)] # <<>>, PopDown(Ctrl(c)),
         UNCHANGED <<serverVars, reading>>,
         UNCHANGED cEnd \/ \E S : S \subseteq Of(c) /\ CloseClient(S),
         UpMore(c), \A d \in Clients \ {c} : up'[Ctrl(d)] = up[Ctrl(d)],
         cpc'[c] \in {"select", "results", "connect", "done"},
         \A d \in Clients \ {c} : cpc'[d] = cpc[d] /\ cstate'[d] = cstate[d],
         cstate[c] = "TEST_END" => Ended(c)',
         LET p == PhaseOf(Head(down[Ctrl(c)])) IN
           /\ Phase[cstate'[c]] = IF p = 0 THEN Phase[cstate[c]] ELSE p
           /\ cpc'[c] = "done" <=> p = 6
  PROVE  FlowInv' /\ SessionStep
<1>1. \A d \in Clients \ {c} : down'[Ctrl(d)] = down[Ctrl(d)]
  BY LeftTail
<1>2. down'[Ctrl(c)] = Tail(down[Ctrl(c)])
  BY CtrlConn DEF PopDown, Inv, NetTypes
<1>3. NotOpened(c) /\ \A d \in Clients \ {c} : cEnd'[Ctrl(d)] = cEnd[Ctrl(d)]
  BY CloseOther, CloseNotOpened DEF NotOpened
<1>4. OthersSame(c)
  BY <1>1, <1>3 DEF OthersSame
<1>5. UNCHANGED serverVars
  OBVIOUS
<1> QED BY <1>2, <1>3, <1>4, <1>5, TakeStep

\* What the words that announce a phase lead to.
LEMMA Entered ==
  \A m \in {"PARAM_EXCHANGE", "CREATE_STREAMS", "TEST_START", "TEST_RUNNING",
            "EXCHANGE_RESULTS"} : PhaseOf(m) = Phase[m] /\ PhaseOf(m) \in 1..5
BY Phases DEF PhaseOf, States

LEMMA ReplyFlow ==
  ASSUME Inv, FlowInv, NEW c \in Clients, cpc[c] = "select",
         NEW m \in {"PARAM_EXCHANGE", "EXCHANGE_RESULTS"},
         NEW pc \in {"select", "results"}, Reply(c, m, "json", pc)
  PROVE  FlowInv' /\ SessionStep
<1>1. cpc'[c] = pc /\ \A d \in Clients \ {c} : cpc'[d] = cpc[d]
  BY GotoOther DEF Reply
<1>2. cstate'[c] = m /\ \A d \in Clients \ {c} : cstate'[d] = cstate[d]
  BY EnterOther DEF Reply
<1>3. UpMore(c) /\ \A d \in Clients \ {c} : up'[Ctrl(d)] = up[Ctrl(d)]
  BY CtrlOf, Words, SendUpMore DEF Reply
<1>4. /\ down[Ctrl(c)] # <<>> /\ Head(down[Ctrl(c)]) = m /\ PopDown(Ctrl(c))
      /\ UNCHANGED <<serverVars, reading, cEnd>>
  BY DEF Reply, DownIs
<1>5. PhaseOf(m) = Phase[m] /\ PhaseOf(m) \in 1..5
  BY Entered
<1>6. cstate[c] = "TEST_END" => Ended(c)'
  <2>1. CASE cstate[c] # "TEST_END"
    BY <2>1
  <2>2. CASE cstate[c] = "TEST_END"
    <3>1. Phase[m] = 5
      BY <1>4, <1>5, <2>2, TakeHead, Phases DEF FlowInv
    <3> QED BY <1>2, <3>1 DEF Ended
  <2> QED BY <2>1, <2>2
<1>7. /\ Phase[cstate'[c]] = PhaseOf(m) /\ PhaseOf(m) # 0
      /\ cpc'[c] # "done" /\ PhaseOf(m) # 6
  BY <1>1, <1>2, <1>5
<1> QED BY <1>1, <1>2, <1>3, <1>4, <1>6, <1>7, TakeWord

LEMMA HandleStartFlow ==
  ASSUME Inv, FlowInv, NEW c \in Clients, cpc[c] = "select", HandleStart(c)
  PROVE  FlowInv' /\ SessionStep
<1> DEFINE m == Head(down[Ctrl(c)])
<1>1. /\ down[Ctrl(c)] # <<>> /\ PopDown(Ctrl(c))
      /\ m \in {"CREATE_STREAMS", "TEST_START", "TEST_RUNNING"}
      /\ UNCHANGED <<serverVars, reading, cEnd, up>>
  BY DEF HandleStart, DownIs
<1>2. cpc'[c] \in {"select", "connect"} /\ \A d \in Clients \ {c} : cpc'[d] = cpc[d]
  BY GotoOther DEF HandleStart
<1>3. cstate'[c] = m /\ \A d \in Clients \ {c} : cstate'[d] = cstate[d]
  BY EnterOther DEF HandleStart
<1>4. PhaseOf(m) = Phase[m] /\ PhaseOf(m) \in 1..5 /\ Phase[m] # 5
  BY <1>1, Entered, Phases
<1>5. cstate[c] = "TEST_END" => Ended(c)'
  BY <1>1, <1>4, TakeHead, Phases DEF FlowInv
<1>6. /\ Phase[cstate'[c]] = PhaseOf(m) /\ PhaseOf(m) # 0
      /\ cpc'[c] # "done" /\ PhaseOf(m) # 6
  BY <1>2, <1>3, <1>4
<1>7. UpMore(c) /\ \A d \in Clients \ {c} : up'[Ctrl(d)] = up[Ctrl(d)]
  BY <1>1, SameUpMore
<1> QED BY <1>1, <1>2, <1>3, <1>5, <1>6, <1>7, TakeWord

LEMMA HandleDisplayFlow ==
  ASSUME Inv, FlowInv, NEW c \in Clients, cpc[c] = "select", HandleDisplay(c)
  PROVE  FlowInv' /\ SessionStep
<1>1. /\ down[Ctrl(c)] # <<>> /\ PopDown(Ctrl(c)) /\ Head(down[Ctrl(c)]) = "DISPLAY_RESULTS"
      /\ UNCHANGED <<serverVars, reading>>
  BY DEF HandleDisplay, DownIs
<1>2. cpc'[c] = "done" /\ \A d \in Clients \ {c} : cpc'[d] = cpc[d]
  BY GotoOther DEF HandleDisplay
<1>3. cstate'[c] = "IPERF_DONE" /\ \A d \in Clients \ {c} : cstate'[d] = cstate[d]
  BY EnterOther DEF HandleDisplay
<1>4. PhaseOf("DISPLAY_RESULTS") = 6 /\ Phase["IPERF_DONE"] = 6
  BY Phases DEF PhaseOf, States
<1>5. Ended(c)'
  BY <1>3, <1>4 DEF Ended
<1>6. UpMore(c) /\ \A d \in Clients \ {c} : up'[Ctrl(d)] = up[Ctrl(d)]
  BY CtrlOf, Words, SendUpMore DEF HandleDisplay
<1>7. \E S : S \subseteq Of(c) /\ CloseClient(S)
  <2>1. Data(c) \subseteq Of(c)
    BY DEF Data, Of
  <2> QED BY <2>1 DEF HandleDisplay
<1> QED BY <1>1, <1>2, <1>3, <1>4, <1>5, <1>6, <1>7, TakeWord

LEMMA HandleMessageClientFlow ==
  ASSUME Inv, FlowInv, NEW c \in Clients, HandleMessageClient(c)
  PROVE  FlowInv' /\ SessionStep
<1>1. cpc[c] = "select" /\ cpc[c] \notin {"done", "failed", "killed"}
  BY DEF HandleMessageClient, At
<1>2. CASE HandleExchange(c)
  BY <1>1, <1>2, ReplyFlow, ClientFailsFlow DEF HandleExchange
<1>3. CASE HandleStart(c)
  BY <1>1, <1>3, HandleStartFlow
<1>4. CASE HandleDisplay(c)
  BY <1>1, <1>4, HandleDisplayFlow
<1>5. CASE HandleError(c)
  BY <1>1, <1>5, ClientFailsFlow DEF HandleError
<1> QED BY <1>2, <1>3, <1>4, <1>5 DEF HandleMessageClient

LEMMA ClientResultsFlow ==
  ASSUME Inv, FlowInv, NEW c \in Clients, ClientResults(c)
  PROVE  FlowInv' /\ SessionStep
<1>1. cpc[c] = "results"
  BY DEF ClientResults, At
<1>2. CASE ClientFails(c)
  BY <1>1, <1>2, ClientFailsFlow
<1>3. CASE /\ DownIs(Ctrl(c), "json") /\ PopDown(Ctrl(c)) /\ Goto(c, "select")
           /\ UNCHANGED <<serverVars, cstate, next, reading, backlog, cEnd, sEnd, up>>
  <2>1. cpc'[c] = "select" /\ \A d \in Clients \ {c} : cpc'[d] = cpc[d]
    BY <1>3, GotoOther
  <2>2. down[Ctrl(c)] # <<>> /\ PhaseOf(Head(down[Ctrl(c)])) = 0
    BY <1>3, Silent DEF DownIs
  <2>3. cstate[c] = "TEST_END" => Ended(c)'
    BY <1>3 DEF Ended
  <2>4. UpMore(c)
    BY <1>3, SameUpMore
  <2> QED BY <1>1, <1>3, <2>1, <2>2, <2>3, <2>4, TakeWord
<1> QED BY <1>2, <1>3 DEF ClientResults

\* TEST_END is sent once: the client was in TEST_RUNNING, and if it is served
\* the server still is.
LEMMA EndTestFlow ==
  ASSUME Inv, FlowInv, NEW c \in Clients, EndTest(c) PROVE FlowInv' /\ SessionStep
<1>1. cpc[c] = "select" /\ cstate[c] = "TEST_RUNNING"
  BY DEF EndTest, At
<1>2. CASE ClientFails(c)
  BY <1>1, <1>2, ClientFailsFlow
<1>3. CASE /\ SendUp(Ctrl(c), "TEST_END") /\ Enter(c, "TEST_END")
           /\ UNCHANGED <<serverVars, cpc, next, reading, backlog, cEnd, sEnd, down>>
  <2>1. cstate'[c] = "TEST_END" /\ \A d \in Clients \ {c} : cstate'[d] = cstate[d]
    BY <1>3, EnterOther
  <2>2. Phase[cstate[c]] = 4 /\ Phase[cstate'[c]] = 4
    BY <1>1, <2>1, Phases
  <2>3. /\ \A d \in Clients \ {c} : up'[Ctrl(d)] = up[Ctrl(d)]
        /\ up'[Ctrl(c)] = up[Ctrl(c)] \/ up'[Ctrl(c)] = Append(up[Ctrl(c)], "TEST_END")
    BY <1>3, CtrlOf, SendUpOne
  <2>4. OthersSame(c) /\ NotOpened(c)
    BY <1>3, <2>1, <2>3 DEF OthersSame, NotOpened
  <2>5. Told(c)' = Told(c) /\ ClientFlow(c)'
    <3>1. Told(c)' = Told(c)
      BY <1>3, <2>2 DEF Told, Ctrl
    <3>2. Ascending(c) /\ Gapless(c)
      BY DEF FlowInv
    <3>3. Ascending(c)'
      BY <1>3, <2>2, <3>2 DEF Ascending, Said, Ctrl
    <3>4. Gapless(c)'
      BY <3>1, <3>2 DEF Gapless
    <3> QED BY <1>1, <1>3, <3>1, <3>3, <3>4 DEF ClientFlow
  <2>6. ~Ended(c) /\ ~EndIn(c) /\ Ended(c)'
    BY <1>1, <2>1, <2>2 DEF Ended, FlowInv, EndSent
  <2>7. OneEnd(c)'
    <3>1. up[Ctrl(c)] \in Seq(Messages)
      BY DownType
    <3>2. \A i \in DOMAIN up'[Ctrl(c)] :
            up'[Ctrl(c)][i] = "TEST_END" => i = Len(up[Ctrl(c)]) + 1
      BY <2>3, <2>6, <3>1 DEF EndIn
    <3> QED BY <3>2 DEF OneEnd, Ctrl
  <2>8. ctrl = Ctrl(c) => sstate = "TEST_RUNNING"
    <3> SUFFICES ASSUME ctrl = Ctrl(c) PROVE sstate = "TEST_RUNNING"
      OBVIOUS
    <3>1. Phase[sstate] \in 0..6 /\ sstate \in States
      BY DownType
    <3>2. 4 \in Told(c)
      BY <2>2 DEF Told
    <3>3. Phase[sstate] >= 4
      BY <3>1, <3>2 DEF FlowInv, Level
    <3>4. ~(Phase[sstate] >= 5)
      BY <2>6 DEF FlowInv, EndSent
    <3>5. Phase[sstate] = 4
      BY <3>1, <3>3, <3>4
    <3> QED BY <3>1, <3>5, LatePhases DEF FlowInv, Position
  <2>9. EndSent(c)'
    BY <1>3, <2>6, <2>7, <2>8 DEF EndSent, serverVars, Ctrl
  <2>10. UNCHANGED serverVars
    BY <1>3
  <2>11. /\ FlowInv' /\ Serving' = Serving
         /\ [d \in Clients |-> Told(d)]' = [d \in Clients |-> Told(d)]
    BY <2>4, <2>5, <2>9, <2>10, OwnFlow
  <2>12. [d \in Clients |-> Phase[cstate[d]]]' = [d \in Clients |-> Phase[cstate[d]]]
    BY <2>1, <2>2
  <2>13. [d \in Clients |-> Outcome(d)]' = [d \in Clients |-> Outcome(d)]
    BY <1>3 DEF Outcome
  <2> QED BY <2>11, <2>12, <2>13 DEF SessionStep, Session!svars
<1> QED BY <1>2, <1>3 DEF EndTest

LEMMA SendDataFailsFlow ==
  ASSUME Inv, FlowInv, NEW c \in Clients, SendDataFails(c)
  PROVE  FlowInv' /\ SessionStep
BY ClientFailsFlow DEF SendDataFails, At

LEMMA ClientStepFlow ==
  ASSUME Inv, SessionInv, FlowInv, NEW c \in Clients, ClientStep(c)
  PROVE  FlowInv' /\ SessionStep
BY ConnectFlow, SendCookieFlow, HandleMessageClientFlow, ConnectStreamFlow,
   SendStreamCookieFlow, ClientResultsFlow, EndTestFlow, ReceiveDataFlow,
   SendDataFailsFlow, BeginDrainFlow, DrainFlow
DEF ClientStep

-----------------------------------------------------------------------------
(* The theorems *)

LEMMA InitFlow == Init => FlowInv /\ Session!Init
<1> SUFFICES ASSUME Init PROVE FlowInv /\ Session!Init
  OBVIOUS
<1>1. \A c \in Clients : /\ cstate[c] = "IPERF_START" /\ cpc[c] = "init"
                         /\ down[Ctrl(c)] = <<>> /\ up[Ctrl(c)] = <<>> /\ ctrl # Ctrl(c)
  BY CtrlConn, NoConnOther DEF Init
<1>2. \A c \in Clients : Told(c) = {} /\ Phase[cstate[c]] = 0 /\ Outcome(c) = "none"
  BY <1>1, Phases DEF Told, Outcome
<1>3. Position
  BY DEF Init, Position
<1>4. ASSUME NEW c \in Clients
      PROVE  Ascending(c) /\ Gapless(c) /\ Level(c) /\ EndSent(c) /\ cpc[c] # "drain"
  <2>1. Ascending(c)
    BY <1>1 DEF Ascending
  <2>2. Gapless(c)
    <3>1. Told(c) = 1..0
      BY <1>2
    <3> QED BY <3>1 DEF Gapless
  <2>3. Level(c) /\ EndSent(c)
    BY <1>1 DEF Level, EndSent, OneEnd, EndIn
  <2> QED BY <1>1, <2>1, <2>2, <2>3
<1>5. Serving = NoConn
  BY <1>1 DEF Serving
<1> QED BY <1>2, <1>3, <1>4, <1>5 DEF FlowInv, Session!Init

LEMMA StutterFlow ==
  ASSUME Inv, FlowInv, UNCHANGED vars PROVE FlowInv' /\ SessionStep
<1>1. Position'
  BY DEF Position, FlowInv, vars, serverVars
<1>2. UNCHANGED <<ctrl, sstate, spc, clientVars, cEnd, up, down>>
  BY DEF vars, serverVars, netVars
<1>3. Serving' = Serving
  BY <1>2 DEF Serving, Ctrl
<1> QED BY <1>1, <1>2, <1>3, SameQuiet, SameUpLess, QuietStep

LEMMA StepFlow ==
  Inv /\ SessionInv /\ FlowInv /\ [Next]_vars => FlowInv' /\ SessionStep
<1> SUFFICES ASSUME Inv, SessionInv, FlowInv, [Next]_vars
             PROVE  FlowInv' /\ SessionStep
  OBVIOUS
<1>1. CASE ServerStep \/ ServerSignal \/ ServerCrash
  BY <1>1, ServerStepFlow, ServerGoneFlow
<1>2. CASE \E c \in Clients : ClientStep(c) \/ ClientSignal(c) \/ ClientCrash(c)
  BY <1>2, ClientStepFlow, ClientGoneFlow
<1>3. CASE UNCHANGED vars
  BY <1>3, StutterFlow
<1> QED BY <1>1, <1>2, <1>3 DEF Next

\* What iperf_handle_message_client acts on was sent by the server before: the
\* client is never in a later phase of the test than the server that serves it.
THEOREM ClientInStep == Spec => []ClientFollows
<1>1. Inv /\ FlowInv => ClientFollows
  <2> SUFFICES ASSUME Inv, FlowInv, NEW c \in Clients, ctrl = Ctrl(c)
               PROVE  Phase[cstate[c]] <= Phase[sstate]
    BY DEF ClientFollows
  <2>1. Phase[cstate[c]] \in 0..6 /\ Phase[sstate] \in 0..6
    BY DownType
  <2>2. Phase[cstate[c]] # 0 => Phase[cstate[c]] \in Told(c)
    BY <2>1 DEF Told
  <2>3. Told(c) \subseteq 1..Phase[sstate]
    BY DEF FlowInv, Level
  <2> QED BY <2>1, <2>2, <2>3
<1> QED BY <1>1, SessionInvariant, InitFlow, StepFlow, PTL DEF Spec

\* The handlers of both loops, the messages between them and every way they
\* fail implement TestSession: one client at a time, the phases one after the
\* other, success only with the last.
THEOREM Implements == Spec => ImplementsSession
<1>1. Inv /\ SessionInv /\ FlowInv /\ [Next]_vars => FlowInv' /\ [Session!Next]_Session!svars
  BY StepFlow DEF SessionStep
<1> QED BY <1>1, SessionInvariant, InitFlow, PTL DEF Spec, ImplementsSession, Session!Spec

-----------------------------------------------------------------------------
(* Who ends a session *)

\* What a client has sent on its control connection that is not read yet, and
\* what the server waits for from a client that has not closed: the cookie, the
\* parameters, TEST_END, the results and IPERF_DONE, one at a time.
Answer(c) == up[Ctrl(c)]
There(c) == ctrl = Ctrl(c) /\ cEnd[Ctrl(c)] = "open" /\ spc # "dead"
Awaited(c) ==
  LET phase == Phase[cstate[c]] IN
  \/ /\ spc = "cookie"
     /\ Answer(c) = <<>> \/ (Answer(c) = <<"cookie">> /\ cpc[c] # "cookie")
  \/ /\ cpc[c] # "cookie"
     /\ \/ /\ spc = "params"
           /\ Answer(c) = IF phase = 0 THEN <<>> ELSE <<"json">>
        \/ /\ \/ sstate = "CREATE_STREAMS" /\ spc \in {"select", "streamCookie"}
              \/ spc = "starting"
           /\ phase >= 1 /\ Answer(c) = <<>>
        \/ /\ spc = "select" /\ sstate = "TEST_RUNNING" /\ phase >= 1
           /\ Answer(c) = IF cstate[c] = "TEST_END" THEN <<"TEST_END">> ELSE <<>>
        \/ /\ spc = "results" /\ phase >= 1
           /\ Answer(c) = IF phase < 5 THEN <<>> ELSE <<"json">>
        \/ spc = "display" /\ phase >= 5 /\ Answer(c) = <<>>
        \/ /\ spc = "select" /\ sstate = "DISPLAY_RESULTS" /\ phase >= 5
           /\ Answer(c) = IF phase = 6 THEN <<"IPERF_DONE">> ELSE <<>>

\* A client whose control connection was not accepted yet has sent its cookie
\* at most.
Knocks(c) ==
  cEnd[Ctrl(c)] # "closed" /\ ~Served(Ctrl(c)) =>
    /\ Answer(c) \in {<<>>, <<"cookie">>}
    /\ cpc[c] \in {"init", "cookie"} => Answer(c) = <<>>

\* A data connection carries its cookie to the server and, as far as the
\* handlers look, nothing else.
Cookies(c) ==
  \A k \in Data(c) : /\ up[k] \in {<<>>, <<"cookie">>}
                     /\ k[2] >= next[c] => up[k] = <<>>

\* A client that has not closed its control connection has not closed a data
\* connection either, before it is done.
Shut(c) ==
  /\ cpc[c] = "init" => \A k \in Data(c) : cEnd[k] = "none"
  /\ cEnd[Ctrl(c)] = "open" /\ cstate[c] # "IPERF_DONE" =>
       \A k \in Data(c) : cEnd[k] # "closed"

\* The server's end of the connection behind ctrl_sck is open, and a data
\* connection there does not get beyond the parameters.
Standing ==
  /\ spc = "start" => ctrl = NoConn
  /\ ctrl # NoConn /\ spc # "dead" =>
       /\ sEnd[ctrl] = "open" /\ cEnd[ctrl] # "none"
       /\ ctrl[2] > 0 => spc \in {"cookie", "params"}
  /\ \A k \in Conns : sEnd[k] = "backlog" => cEnd[k] # "none"

ClientAnswers(c) == Knocks(c) /\ (There(c) => Awaited(c)) /\ Cookies(c) /\ Shut(c)
AnswerInv == Standing /\ \A c \in Clients : ClientAnswers(c)

\* What a step of the server does to the connections: it reads what it has
\* accepted, and accepts or closes.
Reads ==
  /\ UNCHANGED <<clientVars, cEnd>>
  /\ \A k \in Conns :
       /\ \/ up'[k] = up[k]
          \/ Served(k) /\ up'[k] = <<>>
          \/ Served(k) /\ up[k] # <<>> /\ up'[k] = Tail(up[k])
       /\ sEnd'[k] \in {sEnd[k], "open", "closed"}

\* What does not depend on where the server is.
OwnPart(c) == Knocks(c) /\ Cookies(c) /\ Shut(c)
Waits == \A k \in Conns : sEnd[k] = "backlog" => cEnd[k] # "none"

LEMMA ReadsOwn ==
  ASSUME Inv, AnswerInv, Reads
  PROVE  Waits' /\ \A c \in Clients : OwnPart(c)'
<1>1. Waits'
  BY DEF Reads, AnswerInv, Standing, Waits
<1>2. ASSUME NEW c \in Clients PROVE OwnPart(c)'
  <2>1. /\ cpc' = cpc /\ cstate' = cstate /\ next' = next /\ cEnd' = cEnd
        /\ Ctrl(c) \in Conns /\ Data(c) \subseteq Conns
    BY CtrlConn DEF Reads, clientVars
  <2>2. Knocks(c) /\ Cookies(c) /\ Shut(c)
    BY DEF AnswerInv, ClientAnswers
  <2>3. Knocks(c)'
    <3>1. ~Served(Ctrl(c))' => ~Served(Ctrl(c)) /\ up'[Ctrl(c)] = up[Ctrl(c)]
      BY <2>1 DEF Reads, Served, Ctrl
    <3> QED BY <2>1, <2>2, <3>1 DEF Knocks, Answer, Ctrl
  <2>4. Cookies(c)'
    <3>1. ASSUME NEW k \in Data(c)
          PROVE  up'[k] \in {<<>>, <<"cookie">>} /\ (k[2] >= next'[c] => up'[k] = <<>>)
      <4>1. up[k] \in {<<>>, <<"cookie">>} /\ (k[2] >= next[c] => up[k] = <<>>)
        BY <2>2 DEF Cookies
      <4>2. Tail(<<"cookie">>) = <<>>
        OBVIOUS
      <4>3. up'[k] = up[k] \/ up'[k] = <<>> \/ (up[k] # <<>> /\ up'[k] = Tail(up[k]))
        BY <2>1 DEF Reads
      <4> QED BY <2>1, <4>1, <4>2, <4>3
    <3>2. Data(c)' = Data(c)
      BY DEF Data
    <3> QED BY <3>1, <3>2 DEF Cookies
  <2>5. Shut(c)'
    BY <2>1, <2>2 DEF Shut, Ctrl, Data
  <2> QED BY <2>3, <2>4, <2>5 DEF OwnPart
<1> QED BY <1>1, <1>2

\* What is left to show of a step of the server.
LEMMA ReadsAnswers ==
  ASSUME Inv, AnswerInv, Reads,
         spc' = "start" => ctrl' = NoConn,
         ctrl' # NoConn /\ spc' # "dead" =>
           /\ sEnd'[ctrl'] = "open" /\ cEnd[ctrl'] # "none"
           /\ ctrl'[2] > 0 => spc' \in {"cookie", "params"},
         \A c \in Clients : There(c)' => Awaited(c)'
  PROVE  AnswerInv'
<1>1. Waits' /\ \A c \in Clients : OwnPart(c)'
  BY ReadsOwn
<1>2. cEnd' = cEnd
  BY DEF Reads
<1>3. Standing'
  BY <1>1, <1>2 DEF Standing, Waits
<1> QED BY <1>1, <1>3 DEF AnswerInv, ClientAnswers, OwnPart

\* How a step may change the server's ends.
LEMMA CloseAhead ==
  ASSUME NEW S, CloseServer(S)
  PROVE  \A k \in Conns : sEnd'[k] \in {sEnd[k], "open", "closed"}
BY DEF CloseServer

LEMMA OpenAhead ==
  ASSUME Inv, NEW j \in Conns, sEnd' = [sEnd EXCEPT ![j] = "open"]
  PROVE  \A k \in Conns : sEnd'[k] \in {sEnd[k], "open", "closed"}
BY DEF Inv, NetTypes

\* How it may change what was sent to the server.
LEMMA PopReads ==
  ASSUME Inv, NEW j \in Conns, Served(j), up[j] # <<>>, PopUp(j)
  PROVE  \A k \in Conns : \/ up'[k] = up[k]
                          \/ Served(k) /\ up[k] # <<>> /\ up'[k] = Tail(up[k])
BY DEF Inv, NetTypes, PopUp

\* A step that ends the session, or the server.
LEMMA EndsAnswers ==
  ASSUME Inv, AnswerInv, Reads, ctrl' = NoConn \/ spc' = "dead"
  PROVE  AnswerInv'
<1>1. ASSUME NEW c \in Clients PROVE ~There(c)'
  <2>1. Ctrl(c) # NoConn
    BY NoConnOther, CtrlConn
  <2> QED BY <2>1 DEF There, Ctrl
<1> QED BY <1>1, ReadsAnswers

LEMMA EndSessionAnswers ==
  ASSUME Inv, AnswerInv, NEW S, EndSession(S), UNCHANGED <<clientVars, cEnd>>,
         \A k \in Conns : \/ up'[k] = up[k]
                          \/ Served(k) /\ up[k] # <<>> /\ up'[k] = Tail(up[k])
  PROVE  AnswerInv'
<1>1. Reads
  BY CloseAhead DEF EndSession, Reads
<1> QED BY <1>1, EndsAnswers DEF EndSession

LEMMA ServerExitAnswers == ASSUME Inv, AnswerInv, ServerExit PROVE AnswerInv'
<1>1. Reads
  BY CloseAhead DEF ServerExit, Reads
<1> QED BY <1>1, EndsAnswers DEF ServerExit

LEMMA AbortAnswers == ASSUME Inv, AnswerInv, Abort PROVE AnswerInv'
BY EndSessionAnswers DEF Abort

LEMMA WriteFailsAnswers ==
  ASSUME Inv, AnswerInv, NEW k, NEW S, WriteFails(k, S) PROVE AnswerInv'
BY EndSessionAnswers, ServerExitAnswers DEF WriteFails

LEMMA ReadFailsAnswers ==
  ASSUME Inv, AnswerInv, NEW k, ReadFails(k) PROVE AnswerInv'
BY AbortAnswers DEF ReadFails

\* The connection behind ctrl_sck of a client that has not closed it.
LEMMA ThereIs ==
  ASSUME Inv, SessionInv, FlowInv, AnswerInv, NEW c \in Clients, There(c)
  PROVE  /\ Awaited(c) /\ Ctrl(c) \in Conns /\ ctrl = Ctrl(c) /\ ctrl # NoConn
         /\ sEnd[Ctrl(c)] = "open" /\ Phase[cstate[c]] \in 0..6 /\ Phase[sstate] \in 0..6
         /\ Phase[cstate[c]] <= Phase[sstate] /\ Told(c) = 1..Phase[sstate]
         /\ cpc[c] # "init"
<1>1. Ctrl(c) \in Conns /\ ctrl = Ctrl(c) /\ ctrl # NoConn
  BY CtrlConn, NoConnOther DEF There
<1>2. Awaited(c) /\ sEnd[Ctrl(c)] = "open"
  BY <1>1 DEF AnswerInv, ClientAnswers, Standing, There
<1>3. Phase[cstate[c]] \in 0..6 /\ Phase[sstate] \in 0..6
  BY DownType
<1>4. Told(c) = 1..Phase[sstate]
  BY <1>1 DEF FlowInv, Level, There
<1>5. Phase[cstate[c]] # 0 => Phase[cstate[c]] \in Told(c)
  BY <1>3 DEF Told
<1>6. Phase[cstate[c]] <= Phase[sstate]
  BY <1>3, <1>4, <1>5
<1>7. cpc[c] # "init"
  BY <1>2 DEF SessionInv, Ends, Fresh
<1> QED BY <1>1, <1>2, <1>3, <1>4, <1>6, <1>7

\* The server's own end is not one that waits at the listener.
LEMMA CtrlOpen ==
  ASSUME Inv, SessionInv, AnswerInv, ctrl # NoConn, spc # "dead"
  PROVE  /\ ctrl \in Conns /\ sEnd[ctrl] = "open" /\ Served(ctrl) /\ cEnd[ctrl] # "none"
         /\ ctrl[2] > 0 => spc \in {"cookie", "params"}
BY DEF Inv, ServerInv, ServerTypes, AnswerInv, Standing, Served

LEMMA ListenAnswers ==
  ASSUME Inv, SessionInv, FlowInv, AnswerInv, ServerListen PROVE AnswerInv'
<1>1. ctrl' = NoConn
  BY DEF ServerListen, AnswerInv, Standing
<1>2. Reads
  BY DEF ServerListen, netVars, Reads
<1> QED BY <1>1, <1>2, EndsAnswers

\* Whoever is accepted as a client has sent its cookie at most.
LEMMA AcceptClientAnswers ==
  ASSUME Inv, SessionInv, FlowInv, AnswerInv, AcceptClient PROVE AnswerInv'
<1> DEFINE k == Head(backlog)
<1>1. k \in Conns /\ sEnd[k] = "backlog" /\ ~Served(k)
  BY HeadWaits DEF SessionInv, Ends, AcceptClient
<1>2. /\ UNCHANGED <<sstate, clientVars, cEnd, up, down>> /\ spc' = "cookie" /\ ctrl' = k
      /\ sEnd' = [sEnd EXCEPT ![k] = "open"]
  BY DEF AcceptClient
<1>3. Reads
  BY <1>1, <1>2, OpenAhead DEF Reads
<1>4. sEnd'[k] = "open" /\ cEnd[k] # "none"
  BY <1>1, <1>2 DEF Inv, NetTypes, AnswerInv, Standing
<1>5. ASSUME NEW c \in Clients, There(c)' PROVE Awaited(c)'
  <2>1. Ctrl(c) = k /\ cEnd[Ctrl(c)] = "open"
    BY <1>2, <1>5 DEF There, Ctrl
  <2>2. /\ Answer(c) \in {<<>>, <<"cookie">>}
        /\ cpc[c] \in {"init", "cookie"} => Answer(c) = <<>>
    BY <1>1, <2>1 DEF AnswerInv, ClientAnswers, Knocks
  <2>3. Answer(c)' = Answer(c) /\ cpc'[c] = cpc[c]
    BY <1>2 DEF Answer, Ctrl, clientVars
  <2> QED BY <1>2, <2>2, <2>3 DEF Awaited
<1> QED BY <1>2, <1>3, <1>4, <1>5, ReadsAnswers

\* A step of the server in a session, which it does not end: what the client
\* has sent is as before, or was read.
LEMMA TalkAnswers ==
  ASSUME Inv, SessionInv, FlowInv, AnswerInv, Reads, ctrl # NoConn, spc # "dead",
         ctrl' = ctrl, spc' # "start", sEnd'[ctrl] = "open",
         ctrl[2] > 0 => spc' \in {"cookie", "params"},
         \A c \in Clients : There(c) => Awaited(c)'
  PROVE  AnswerInv'
<1>1. cEnd' = cEnd
  BY DEF Reads
<1>2. \A c \in Clients : There(c)' => There(c)
  BY <1>1 DEF There, Ctrl
<1> QED BY <1>1, <1>2, CtrlOpen, ReadsAnswers

LEMMA SameAwaited ==
  ASSUME NEW c, Awaited(c), cpc'[c] = cpc[c], cstate'[c] = cstate[c], spc' = spc,
         sstate' = sstate, up'[Ctrl(c)] = up[Ctrl(c)]
  PROVE  Awaited(c)'
<1>1. Answer(c)' = Answer(c)
  BY DEF Answer, Ctrl
<1> QED BY <1>1 DEF Awaited

LEMMA AcceptBusyAnswers ==
  ASSUME Inv, SessionInv, FlowInv, AnswerInv, AcceptBusy PROVE AnswerInv'
<1>1. CASE WriteFails(Head(backlog), {})
  BY <1>1, WriteFailsAnswers
<1>2. CASE /\ CloseServer({Head(backlog)})
           /\ UNCHANGED <<serverVars, clientVars, cEnd, up>>
  <2>1. ctrl # NoConn /\ spc = "select" /\ ctrl' = ctrl /\ spc' = spc /\ sstate' = sstate
    BY <1>2 DEF AcceptBusy, serverVars
  <2>2. ~Served(Head(backlog))
    BY HeadWaits DEF SessionInv, Ends, AcceptBusy
  <2>3. sEnd'[ctrl] = "open"
    BY <1>2, <2>1, <2>2, CtrlOpen DEF CloseServer
  <2>4. Reads
    BY <1>2, CloseAhead DEF Reads
  <2>5. \A c \in Clients : There(c) => Awaited(c)'
    BY <1>2, <2>1, ThereIs, SameAwaited DEF clientVars
  <2> QED BY <2>1, <2>3, <2>4, <2>5, CtrlOpen, TalkAnswers
<1> QED BY <1>1, <1>2 DEF AcceptBusy

\* The server reads an answer.
LEMMA AnswerRead ==
  ASSUME Inv, NEW c \in Clients, ctrl = Ctrl(c), NEW m, UpIs(ctrl, m), PopUp(ctrl)
  PROVE  /\ Answer(c) # <<>> /\ Head(Answer(c)) = m /\ Answer(c)' = Tail(Answer(c))
BY CtrlConn DEF Inv, NetTypes, UpIs, PopUp, Answer, Ctrl

\* There is one of them.
LEMMA OneAnswer ==
  /\ Head(<<"cookie">>) = "cookie" /\ Tail(<<"cookie">>) = <<>>
  /\ Head(<<"json">>) = "json" /\ Tail(<<"json">>) = <<>>
  /\ Head(<<"TEST_END">>) = "TEST_END" /\ Tail(<<"TEST_END">>) = <<>>
  /\ Head(<<"IPERF_DONE">>) = "IPERF_DONE" /\ Tail(<<"IPERF_DONE">>) = <<>>
OBVIOUS

LEMMA ReadCookieAnswers ==
  ASSUME Inv, SessionInv, FlowInv, AnswerInv, ReadCookie PROVE AnswerInv'
<1>1. CASE WriteFails(ctrl, {}) \/ ReadFails(ctrl)
  BY <1>1, WriteFailsAnswers, ReadFailsAnswers
<1>2. CASE /\ UpIs(ctrl, "cookie") \/ BadUp(ctrl, "cookie")
           /\ up' = [up EXCEPT ![ctrl] = IF @ = <<>> THEN @ ELSE Tail(@)]
           /\ sstate' = "PARAM_EXCHANGE" /\ spc' = "params"
           /\ UNCHANGED <<ctrl, acc, accepted, streams, reverse, clientVars,
                          backlog, cEnd, sEnd>>
  <2>1. ctrl \in Conns /\ ctrl # NoConn /\ sstate = "IPERF_START" /\ spc = "cookie"
    BY InSession, NoConnOther DEF ReadCookie, FlowInv, Position
  <2>2. sEnd[ctrl] = "open" /\ Served(ctrl)
    BY <2>1, CtrlOpen
  <2>3. Reads
    BY <1>2, <2>1, <2>2 DEF Reads, Inv, NetTypes
  <2>4. ASSUME NEW c \in Clients, There(c) PROVE Awaited(c)'
    <3>1. ctrl = Ctrl(c) /\ cEnd[ctrl] = "open" /\ Awaited(c)
      BY <2>4, ThereIs DEF There
    <3>2. UpIs(ctrl, "cookie")
      BY <1>2, <3>1 DEF BadUp
    <3>3. PopUp(ctrl)
      BY <1>2, <2>1, <3>2 DEF PopUp, UpIs, Inv, NetTypes
    <3>4. Answer(c) # <<>> /\ Answer(c)' = Tail(Answer(c))
      BY <3>1, <3>2, <3>3, AnswerRead
    <3>5. Answer(c) = <<"cookie">> /\ cpc[c] # "cookie"
      BY <2>1, <3>1, <3>4 DEF Awaited
    <3>6. Answer(c)' = <<>>
      BY <3>4, <3>5, OneAnswer
    <3>7. Phase[cstate[c]] = 0
      <4>1. Phase[cstate[c]] \in 0..6 /\ Phase[cstate[c]] <= Phase[sstate]
        BY <2>4, ThereIs
      <4> QED BY <2>1, <4>1, Phases
    <3>8. cpc'[c] = cpc[c] /\ cstate'[c] = cstate[c]
      BY <1>2 DEF clientVars
    <3> QED BY <1>2, <3>5, <3>6, <3>7, <3>8 DEF Awaited
  <2> QED BY <1>2, <2>1, <2>2, <2>3, <2>4, TalkAnswers
<1> QED BY <1>1, <1>2 DEF ReadCookie

\* A data connection behind ctrl_sck never sends a document.
LEMMA DataSilent ==
  ASSUME Inv, AnswerInv, ctrl \in Conns, UpIs(ctrl, "json")
  PROVE  ctrl = Ctrl(ctrl[1]) /\ ctrl[1] \in Clients /\ ~(ctrl[2] > 0)
<1>1. ctrl[1] \in Clients /\ ctrl[2] \in 0..NumStreams /\ ctrl = <<ctrl[1], ctrl[2]>>
  BY DEF Conns
<1>2. CASE ctrl[2] > 0
  <2>1. ctrl \in Data(ctrl[1])
    BY <1>2 DEF Data
  <2>2. up[ctrl] \in {<<>>, <<"cookie">>}
    BY <1>1, <2>1 DEF AnswerInv, ClientAnswers, Cookies
  <2> QED BY <2>2, OneAnswer DEF UpIs
<1>3. CASE ~(ctrl[2] > 0)
  <2>1. ctrl[2] = 0
    BY <1>1, <1>3, Numbers
  <2> QED BY <1>1, <1>3, <2>1 DEF Ctrl
<1> QED BY <1>2, <1>3

LEMMA ReopenAhead ==
  ASSUME Inv, SessionInv, AnswerInv, ctrl # NoConn, spc # "dead", Reopen
  PROVE  /\ \A k \in Conns : sEnd'[k] \in {sEnd[k], "open", "closed"}
         /\ sEnd'[ctrl] = "open"
<1>1. CASE Relisten
  <2>1. CloseServer(Waiting)
    BY <1>1 DEF Reopen
  <2>2. ctrl \in Conns /\ sEnd[ctrl] = "open" /\ ctrl \notin Waiting
    BY CtrlOpen DEF Waiting
  <2>3. sEnd'[ctrl] = "open"
    BY <2>1, <2>2 DEF CloseServer
  <2> QED BY <2>1, <2>3, CloseAhead
<1>2. CASE ~Relisten
  <2>1. sEnd' = sEnd
    BY <1>2 DEF Reopen
  <2> QED BY <2>1, CtrlOpen
<1> QED BY <1>1, <1>2

LEMMA ReadParamsAnswers ==
  ASSUME Inv, SessionInv, FlowInv, AnswerInv, ReadParams PROVE AnswerInv'
<1>1. ctrl \in Conns /\ ctrl # NoConn /\ sstate = "PARAM_EXCHANGE" /\ spc = "params"
  BY InSession, NoConnOther DEF ReadParams, FlowInv, Position
<1>2. CASE WriteFails(ctrl, {}) \/ Abort
  BY <1>2, WriteFailsAnswers, AbortAnswers
<1>3. ASSUME UpIs(ctrl, "json"), PopUp(ctrl)
      PROVE  \A k \in Conns : \/ up'[k] = up[k]
                              \/ Served(k) /\ up[k] # <<>> /\ up'[k] = Tail(up[k])
  BY <1>1, <1>3, CtrlOpen, PopReads DEF UpIs
<1>4. CASE /\ UpIs(ctrl, "json") /\ PopUp(ctrl)
           /\ sstate' = "CREATE_STREAMS" /\ spc' = "select"
           /\ Reopen
           /\ UNCHANGED <<ctrl, cookie, acc, accepted, streams, clientVars, cEnd>>
  <2>1. /\ \A k \in Conns : sEnd'[k] \in {sEnd[k], "open", "closed"}
        /\ sEnd'[ctrl] = "open"
    BY <1>1, <1>4, ReopenAhead
  <2>2. Reads
    BY <1>3, <1>4, <2>1 DEF Reads
  <2>3. ASSUME NEW c \in Clients, There(c) PROVE Awaited(c)'
    <3>1. /\ ctrl = Ctrl(c) /\ Awaited(c) /\ Phase[cstate[c]] \in 0..6
      BY <2>3, ThereIs
    <3>2. Answer(c) # <<>> /\ Answer(c)' = Tail(Answer(c))
      BY <1>4, <3>1, AnswerRead
    <3>3. Answer(c) = <<"json">> /\ cpc[c] # "cookie" /\ Phase[cstate[c]] >= 1
      BY <1>1, <3>1, <3>2 DEF Awaited
    <3>4. Answer(c)' = <<>>
      BY <3>2, <3>3, OneAnswer
    <3>5. cpc'[c] = cpc[c] /\ cstate'[c] = cstate[c]
      BY <1>4 DEF clientVars
    <3> QED BY <1>4, <3>3, <3>4, <3>5 DEF Awaited
  <2> QED BY <1>1, <1>4, <2>1, <2>2, <2>3, DataSilent, TalkAnswers
<1>5. CASE /\ UpIs(ctrl, "json") /\ PopUp(ctrl)
           /\ EndSession({})
           /\ UNCHANGED <<clientVars, cEnd>>
  BY <1>3, <1>5, EndSessionAnswers
<1> QED BY <1>2, <1>4, <1>5 DEF ReadParams

LEMMA AcceptStreamAnswers ==
  ASSUME Inv, SessionInv, FlowInv, AnswerInv, AcceptStream PROVE AnswerInv'
<1>1. /\ spc = "select" /\ spc' = "streamCookie" /\ sstate = "CREATE_STREAMS"
      /\ UNCHANGED <<sstate, ctrl, clientVars, cEnd, up>>
      /\ sEnd' = [sEnd EXCEPT ![Head(backlog)] = "open"] /\ backlog # <<>>
  BY DEF AcceptStream
<1>2. ctrl # NoConn
  BY <1>1 DEF Inv, ServerInv, NoSession
<1>3. Head(backlog) \in Conns /\ ~Served(Head(backlog))
  BY <1>1, HeadWaits DEF SessionInv, Ends
<1>4. /\ ctrl \in Conns /\ Served(ctrl) /\ sEnd[ctrl] = "open"
      /\ ctrl[2] > 0 => spc \in {"cookie", "params"}
  BY <1>1, <1>2, CtrlOpen
<1>5. sEnd'[ctrl] = "open"
  BY <1>1, <1>3, <1>4 DEF Inv, NetTypes
<1>6. Reads
  BY <1>1, <1>3, OpenAhead DEF Reads
<1>7. ASSUME NEW c \in Clients, There(c) PROVE Awaited(c)'
  <2>1. Awaited(c)
    BY <1>7, ThereIs
  <2>2. cpc[c] # "cookie" /\ Phase[cstate[c]] >= 1 /\ Answer(c) = <<>>
    BY <1>1, <2>1 DEF Awaited
  <2>3. cpc'[c] = cpc[c] /\ cstate'[c] = cstate[c] /\ Answer(c)' = Answer(c)
    BY <1>1 DEF clientVars, Answer, Ctrl
  <2> QED BY <1>1, <2>2, <2>3 DEF Awaited
<1> QED BY <1>1, <1>2, <1>4, <1>5, <1>6, <1>7, TalkAnswers

\* While a stream's cookie is read nothing comes over the control connection.
LEMMA StreamTurn ==
  ASSUME Inv, SessionInv, FlowInv, AnswerInv, spc = "streamCookie"
  PROVE  /\ acc \in Conns /\ Served(acc) /\ acc # ctrl /\ ctrl # NoConn
         /\ sstate = "CREATE_STREAMS" /\ ctrl \in Conns /\ sEnd[ctrl] = "open"
         /\ ~(ctrl[2] > 0)
         /\ \A c \in Clients : There(c) =>
              /\ cpc[c] # "cookie" /\ Phase[cstate[c]] >= 1 /\ Answer(c) = <<>>
<1>1. acc \in Conns /\ sstate = "CREATE_STREAMS"
  BY DEF Inv, ServerInv, Blocked
<1>2. ctrl # NoConn
  BY <1>1 DEF Inv, ServerInv, NoSession
<1>3. Served(acc) /\ acc # ctrl
  BY <1>1, NoConnOther DEF SessionInv, Roles
<1>4. ctrl \in Conns /\ sEnd[ctrl] = "open" /\ ~(ctrl[2] > 0)
  BY <1>2, CtrlOpen
<1>5. ASSUME NEW c \in Clients, There(c)
      PROVE  cpc[c] # "cookie" /\ Phase[cstate[c]] >= 1 /\ Answer(c) = <<>>
  <2>1. Awaited(c)
    BY <1>5, ThereIs
  <2> QED BY <1>1, <2>1 DEF Awaited
<1> QED BY <1>1, <1>2, <1>3, <1>4, <1>5

LEMMA NewStreamAnswers ==
  ASSUME Inv, SessionInv, FlowInv, AnswerInv, spc = "streamCookie", NewStream
  PROVE  AnswerInv'
<1>1. /\ acc \in Conns /\ Served(acc) /\ acc # ctrl /\ ctrl # NoConn
      /\ sstate = "CREATE_STREAMS" /\ ctrl \in Conns /\ sEnd[ctrl] = "open"
      /\ ~(ctrl[2] > 0)
  BY StreamTurn
<1>2. /\ UpIs(acc, "cookie") /\ PopUp(acc) /\ UNCHANGED <<ctrl, clientVars, cEnd>>
      /\ \/ spc' = "starting" /\ sstate' = "TEST_START" /\ Reopen
         \/ spc' = "select" /\ UNCHANGED <<sstate, sEnd>>
  BY DEF NewStream
<1>3. \A k \in Conns : \/ up'[k] = up[k]
                       \/ Served(k) /\ up[k] # <<>> /\ up'[k] = Tail(up[k])
  BY <1>1, <1>2, PopReads DEF UpIs
<1>4. /\ \A k \in Conns : sEnd'[k] \in {sEnd[k], "open", "closed"}
      /\ sEnd'[ctrl] = "open"
  BY <1>1, <1>2, ReopenAhead
<1>5. Reads
  BY <1>2, <1>3, <1>4 DEF Reads
<1>6. ASSUME NEW c \in Clients, There(c) PROVE Awaited(c)'
  <2>1. /\ cpc[c] # "cookie" /\ Phase[cstate[c]] >= 1 /\ Answer(c) = <<>>
    BY <1>6, StreamTurn
  <2>2. cpc'[c] = cpc[c] /\ cstate'[c] = cstate[c]
    BY <1>2 DEF clientVars
  <2>3. Answer(c)' = Answer(c)
    BY <1>1, <1>2, <1>6 DEF Answer, Ctrl, There, PopUp, Inv, NetTypes
  <2> QED BY <1>1, <1>2, <2>1, <2>2, <2>3 DEF Awaited
<1> QED BY <1>1, <1>2, <1>4, <1>5, <1>6, TalkAnswers

LEMMA DenyStreamAnswers ==
  ASSUME Inv, SessionInv, FlowInv, AnswerInv, spc = "streamCookie", DenyStream
  PROVE  AnswerInv'
<1>1. /\ acc \in Conns /\ Served(acc) /\ acc # ctrl /\ ctrl # NoConn
      /\ sstate = "CREATE_STREAMS" /\ ctrl \in Conns /\ sEnd[ctrl] = "open"
      /\ ~(ctrl[2] > 0)
  BY StreamTurn
<1>2. /\ up' = [up EXCEPT ![acc] = <<>>] /\ CloseServer({acc})
      /\ spc' = "select" /\ UNCHANGED <<sstate, ctrl, clientVars, cEnd>>
  BY DEF DenyStream
<1>3. sEnd'[ctrl] = "open"
  BY <1>1, <1>2 DEF CloseServer
<1>4. Reads
  BY <1>1, <1>2, CloseAhead DEF Reads, Inv, NetTypes
<1>5. ASSUME NEW c \in Clients, There(c) PROVE Awaited(c)'
  <2>1. /\ cpc[c] # "cookie" /\ Phase[cstate[c]] >= 1 /\ Answer(c) = <<>>
    BY <1>5, StreamTurn
  <2>2. cpc'[c] = cpc[c] /\ cstate'[c] = cstate[c]
    BY <1>2 DEF clientVars
  <2>3. Answer(c)' = Answer(c)
    BY <1>1, <1>2, <1>5 DEF Answer, Ctrl, There, Inv, NetTypes
  <2> QED BY <1>1, <1>2, <2>1, <2>2, <2>3 DEF Awaited
<1> QED BY <1>1, <1>2, <1>3, <1>4, <1>5, TalkAnswers

LEMMA ReadStreamCookieAnswers ==
  ASSUME Inv, SessionInv, FlowInv, AnswerInv, ReadStreamCookie PROVE AnswerInv'
BY NewStreamAnswers, DenyStreamAnswers, WriteFailsAnswers, ReadFailsAnswers
DEF ReadStreamCookie

\* Steps that read nothing: the client behind ctrl_sck sees the new state only.
LEMMA TellAnswers ==
  ASSUME Inv, SessionInv, FlowInv, AnswerInv, ctrl # NoConn,
         spc \in {"starting", "display"}, spc' = "select",
         UNCHANGED <<ctrl, clientVars, cEnd, sEnd, up>>,
         \A c \in Clients : There(c) => Awaited(c)'
  PROVE  AnswerInv'
<1>1. Reads
  BY DEF Reads
<1> QED BY <1>1, CtrlOpen, TalkAnswers

LEMMA StartTestAnswers ==
  ASSUME Inv, SessionInv, FlowInv, AnswerInv, StartTest PROVE AnswerInv'
<1>1. CASE WriteFails(ctrl, {})
  BY <1>1, WriteFailsAnswers
<1>2. CASE /\ sstate' = "TEST_RUNNING" /\ spc' = "select"
           /\ UNCHANGED <<ctrl, cookie, acc, accepted, streams, reverse,
                          clientVars, backlog, cEnd, sEnd, up>>
  <2>1. ctrl \in Conns /\ ctrl # NoConn /\ sstate = "TEST_START" /\ spc = "starting"
    BY InSession, NoConnOther DEF StartTest, FlowInv, Position
  <2>2. ASSUME NEW c \in Clients, There(c) PROVE Awaited(c)'
    <3>1. /\ Awaited(c) /\ Phase[cstate[c]] \in 0..6
          /\ Phase[cstate[c]] <= Phase[sstate]
      BY <2>2, ThereIs
    <3>2. cpc[c] # "cookie" /\ Phase[cstate[c]] >= 1 /\ Answer(c) = <<>>
      BY <2>1, <3>1 DEF Awaited
    <3>3. cstate[c] # "TEST_END"
      BY <2>1, <3>1, Phases
    <3>4. cpc'[c] = cpc[c] /\ cstate'[c] = cstate[c] /\ Answer(c)' = Answer(c)
      BY <1>2 DEF clientVars, Answer, Ctrl
    <3> QED BY <1>2, <3>2, <3>3, <3>4 DEF Awaited
  <2> QED BY <1>2, <2>1, <2>2, TellAnswers
<1> QED BY <1>1, <1>2 DEF StartTest

LEMMA SendDisplayAnswers ==
  ASSUME Inv, SessionInv, FlowInv, AnswerInv, SendDisplay PROVE AnswerInv'
<1>1. CASE WriteFails(ctrl, {})
  BY <1>1, WriteFailsAnswers
<1>2. CASE /\ sstate' = "DISPLAY_RESULTS" /\ spc' = "select"
           /\ UNCHANGED <<ctrl, cookie, acc, accepted, streams, reverse,
                          clientVars, backlog, cEnd, sEnd, up>>
  <2>1. ctrl \in Conns /\ ctrl # NoConn /\ sstate = "EXCHANGE_RESULTS" /\ spc = "display"
    BY InSession, NoConnOther DEF SendDisplay, FlowInv, Position
  <2>2. ASSUME NEW c \in Clients, There(c) PROVE Awaited(c)'
    <3>1. /\ Awaited(c) /\ Phase[cstate[c]] \in 0..6
          /\ Phase[cstate[c]] <= Phase[sstate]
      BY <2>2, ThereIs
    <3>2. cpc[c] # "cookie" /\ Phase[cstate[c]] >= 5 /\ Answer(c) = <<>>
      BY <2>1, <3>1 DEF Awaited
    <3>3. Phase[cstate[c]] # 6
      BY <2>1, <3>1, Phases
    <3>4. cpc'[c] = cpc[c] /\ cstate'[c] = cstate[c] /\ Answer(c)' = Answer(c)
      BY <1>2 DEF clientVars, Answer, Ctrl
    <3> QED BY <1>2, <3>2, <3>3, <3>4 DEF Awaited
  <2> QED BY <1>2, <2>1, <2>2, TellAnswers
<1> QED BY <1>1, <1>2 DEF SendDisplay

LEMMA SendDataAnswers ==
  ASSUME Inv, SessionInv, FlowInv, AnswerInv, SendData PROVE AnswerInv'
<1>1. CASE \E k \in streams : WriteFails(k, {})
  BY <1>1, WriteFailsAnswers
<1>2. CASE UNCHANGED <<serverVars, clientVars, backlog, cEnd, sEnd, up>>
  <2>1. spc' = spc /\ sstate' = sstate /\ ctrl' = ctrl /\ spc = "select" /\ ctrl # NoConn
    BY <1>2 DEF serverVars, SendData, Inv, ServerInv, NoSession
  <2>2. Reads
    BY <1>2 DEF Reads
  <2>3. \A c \in Clients : There(c) => Awaited(c)'
    BY <1>2, <2>1, ThereIs, SameAwaited DEF clientVars
  <2> QED BY <1>2, <2>1, <2>2, <2>3, CtrlOpen, TalkAnswers
<1> QED BY <1>1, <1>2 DEF SendData

LEMMA RecvDataAnswers ==
  ASSUME Inv, AnswerInv, RecvData PROVE AnswerInv'
BY ReadFailsAnswers DEF RecvData

LEMMA HandleTestEndAnswers ==
  ASSUME Inv, SessionInv, FlowInv, AnswerInv, spc = "select", ctrl # NoConn, HandleTestEnd
  PROVE  AnswerInv'
<1>1. CASE WriteFails(ctrl, streams)
  BY <1>1, WriteFailsAnswers
<1>2. CASE /\ PopUp(ctrl) /\ CloseServer(streams)
           /\ sstate' = "EXCHANGE_RESULTS" /\ spc' = "results"
           /\ UNCHANGED <<ctrl, cookie, acc, accepted, streams, reverse,
                          clientVars, backlog, cEnd>>
  <2>1. /\ ctrl \in Conns /\ Served(ctrl) /\ sEnd[ctrl] = "open" /\ ~(ctrl[2] > 0)
    BY CtrlOpen
  <2>2. UpIs(ctrl, "TEST_END")
    BY DEF HandleTestEnd
  <2>3. \A k \in Conns : \/ up'[k] = up[k]
                         \/ Served(k) /\ up[k] # <<>> /\ up'[k] = Tail(up[k])
    BY <1>2, <2>1, <2>2, PopReads DEF UpIs
  <2>4. Reads
    BY <1>2, <2>3, CloseAhead DEF Reads
  <2>5. sEnd'[ctrl] = "open"
    BY <1>2, <2>1 DEF CloseServer, SessionInv, Roles
  <2>6. ASSUME NEW c \in Clients, There(c) PROVE Awaited(c)'
    <3>1. ctrl = Ctrl(c) /\ Awaited(c) /\ Phase[cstate[c]] \in 0..6
      BY <2>6, ThereIs
    <3>2. /\ Answer(c) # <<>> /\ Head(Answer(c)) = "TEST_END"
          /\ Answer(c)' = Tail(Answer(c))
      BY <1>2, <2>2, <3>1, AnswerRead
    <3>3. /\ cpc[c] # "cookie" /\ Phase[cstate[c]] >= 1
          /\ Answer(c) = <<"TEST_END">> /\ cstate[c] = "TEST_END"
      BY <3>1, <3>2, OneAnswer DEF Awaited
    <3>4. Answer(c)' = <<>> /\ Phase[cstate[c]] = 4
      BY <3>2, <3>3, OneAnswer, Phases
    <3>5. cpc'[c] = cpc[c] /\ cstate'[c] = cstate[c]
      BY <1>2 DEF clientVars
    <3> QED BY <1>2, <3>3, <3>4, <3>5 DEF Awaited
  <2> QED BY <1>2, <2>1, <2>4, <2>5, <2>6, TalkAnswers
<1> QED BY <1>1, <1>2 DEF HandleTestEnd

LEMMA HandleLastAnswers ==
  ASSUME Inv, SessionInv, FlowInv, AnswerInv, spc = "select", ctrl # NoConn, HandleLast
  PROVE  AnswerInv'
<1>1. (\E S : EndSession(S)) /\ UNCHANGED <<clientVars, cEnd>>
  BY DEF HandleLast
<1>2. ctrl \in Conns /\ Served(ctrl)
  BY CtrlOpen
<1>3. up' = up \/ (up[ctrl] # <<>> /\ PopUp(ctrl))
  BY DEF HandleLast, UpIs
<1>4. \A k \in Conns : \/ up'[k] = up[k]
                       \/ Served(k) /\ up[k] # <<>> /\ up'[k] = Tail(up[k])
  BY <1>2, <1>3, PopReads
<1> QED BY <1>1, <1>4, EndSessionAnswers

LEMMA ReadResultsAnswers ==
  ASSUME Inv, SessionInv, FlowInv, AnswerInv, ReadResults PROVE AnswerInv'
<1>1. /\ ctrl \in Conns /\ ctrl # NoConn /\ sstate = "EXCHANGE_RESULTS" /\ spc = "results"
  BY InSession, NoConnOther DEF ReadResults, FlowInv, Position
<1>2. CASE WriteFails(ctrl, {}) \/ Abort
  BY <1>2, WriteFailsAnswers, AbortAnswers
<1>3. CASE /\ UpIs(ctrl, "json") /\ PopUp(ctrl) /\ spc' = "display"
           /\ UNCHANGED <<sstate, ctrl, cookie, acc, accepted, streams, reverse,
                          clientVars, backlog, cEnd, sEnd>>
  <2>1. Served(ctrl) /\ sEnd[ctrl] = "open" /\ ~(ctrl[2] > 0)
    BY <1>1, CtrlOpen
  <2>2. \A k \in Conns : \/ up'[k] = up[k]
                         \/ Served(k) /\ up[k] # <<>> /\ up'[k] = Tail(up[k])
    BY <1>1, <1>3, <2>1, PopReads DEF UpIs
  <2>3. Reads
    BY <1>3, <2>2 DEF Reads
  <2>4. ASSUME NEW c \in Clients, There(c) PROVE Awaited(c)'
    <3>1. ctrl = Ctrl(c) /\ Awaited(c) /\ Phase[cstate[c]] \in 0..6
      BY <2>4, ThereIs
    <3>2. /\ Answer(c) # <<>> /\ Answer(c)' = Tail(Answer(c))
      BY <1>3, <3>1, AnswerRead
    <3>3. cpc[c] # "cookie" /\ Phase[cstate[c]] >= 5 /\ Answer(c) = <<"json">>
      BY <1>1, <3>1, <3>2 DEF Awaited
    <3>4. Answer(c)' = <<>>
      BY <3>2, <3>3, OneAnswer
    <3>5. cpc'[c] = cpc[c] /\ cstate'[c] = cstate[c]
      BY <1>3 DEF clientVars
    <3> QED BY <1>3, <3>3, <3>4, <3>5 DEF Awaited
  <2> QED BY <1>1, <1>3, <2>1, <2>3, <2>4, TalkAnswers
<1> QED BY <1>2, <1>3 DEF ReadResults

LEMMA ServerStepAnswers ==
  ASSUME Inv, SessionInv, FlowInv, AnswerInv, ServerStep \/ ServerSignal \/ ServerCrash
  PROVE  AnswerInv'
<1>1. CASE HandleMessageServer
  BY <1>1, HandleTestEndAnswers, HandleLastAnswers DEF HandleMessageServer
<1>2. CASE ServerSignal \/ ServerCrash
  BY <1>2, ServerExitAnswers DEF ServerSignal, ServerCrash
<1>3. CASE ServerStep /\ ~HandleMessageServer
  BY <1>3, ListenAnswers, AcceptClientAnswers, AcceptBusyAnswers, ReadCookieAnswers,
     ReadParamsAnswers, AcceptStreamAnswers, ReadStreamCookieAnswers, StartTestAnswers,
     SendDataAnswers, RecvDataAnswers, ReadResultsAnswers, SendDisplayAnswers
  DEF ServerStep
<1> QED BY <1>1, <1>2, <1>3

\* What a step of a client may change.
Reaches(c) ==
  /\ UNCHANGED serverVars
  /\ \A d \in Clients \ {c} :
       cpc'[d] = cpc[d] /\ cstate'[d] = cstate[d] /\ next'[d] = next[d]
  /\ \A k \in Conns \ Of(c) :
       up'[k] = up[k] /\ cEnd'[k] = cEnd[k] /\ sEnd'[k] = sEnd[k]
  /\ \A k \in Of(c) :
       /\ cEnd[k] # "none" => cEnd'[k] # "none"
       /\ \/ sEnd'[k] = sEnd[k]
          \/ sEnd[k] = "none" /\ sEnd'[k] = "backlog" /\ cEnd'[k] = "open"

LEMMA OthersAnswer ==
  ASSUME Inv, AnswerInv, NEW c \in Clients, Reaches(c), NEW d \in Clients \ {c}
  PROVE  ClientAnswers(d)'
<1>1. /\ Ctrl(d) \in Conns \ Of(c) /\ Data(d) \subseteq Conns \ Of(c)
  <2>1. Data(d) \cap Of(c) = {}
    BY DEF Data, Of
  <2> QED BY <2>1, CtrlConn, Others
<1>2. /\ cpc'[d] = cpc[d] /\ cstate'[d] = cstate[d] /\ next'[d] = next[d]
      /\ up'[Ctrl(d)] = up[Ctrl(d)] /\ cEnd'[Ctrl(d)] = cEnd[Ctrl(d)]
      /\ sEnd'[Ctrl(d)] = sEnd[Ctrl(d)]
      /\ \A k \in Data(d) : up'[k] = up[k] /\ cEnd'[k] = cEnd[k]
  BY <1>1 DEF Reaches
<1>3. ctrl' = ctrl /\ spc' = spc /\ sstate' = sstate
  BY DEF Reaches, serverVars
<1>4. Knocks(d) /\ (There(d) => Awaited(d)) /\ Cookies(d) /\ Shut(d)
  BY DEF AnswerInv, ClientAnswers
<1>5. Knocks(d)'
  BY <1>2, <1>4 DEF Knocks, Served, Answer, Ctrl
<1>6. There(d)' => Awaited(d)'
  <2>1. There(d)' => There(d)
    BY <1>2, <1>3 DEF There, Ctrl
  <2> QED BY <1>2, <1>3, <1>4, <2>1, SameAwaited
<1>7. Cookies(d)'
  BY <1>2, <1>4 DEF Cookies, Data
<1>8. Shut(d)'
  BY <1>2, <1>4 DEF Shut, Data, Ctrl
<1> QED BY <1>5, <1>6, <1>7, <1>8 DEF ClientAnswers

LEMMA ReachesAnswers ==
  ASSUME Inv, SessionInv, AnswerInv, NEW c \in Clients, Reaches(c), ClientAnswers(c)'
  PROVE  AnswerInv'
<1>1. ctrl' = ctrl /\ spc' = spc
  BY DEF Reaches, serverVars
<1>2. \A k \in Conns : /\ cEnd[k] # "none" => cEnd'[k] # "none"
                       /\ \/ sEnd'[k] = sEnd[k]
                          \/ sEnd[k] = "none" /\ sEnd'[k] = "backlog" /\ cEnd'[k] = "open"
  BY DEF Reaches
<1>3. ctrl # NoConn => ctrl \in Conns
  BY DEF Inv, ServerInv, ServerTypes
<1>4. Standing'
  BY <1>1, <1>2, <1>3 DEF Standing, AnswerInv
<1>5. \A d \in Clients \ {c} : ClientAnswers(d)'
  BY OthersAnswer
<1> QED BY <1>4, <1>5 DEF AnswerInv

\* What a client writes or closes.
LEMMA WritesOwn ==
  ASSUME Inv, NEW c \in Clients, NEW k \in Of(c), NEW m, SendUp(k, m)
  PROVE  /\ \A j \in Conns \ {k} : up'[j] = up[j]
         /\ \A j \in Conns \ Of(c) : up'[j] = up[j]
         /\ up'[k] = IF sEnd[k] \in {"backlog", "open"} THEN Append(up[k], m) ELSE up[k]
<1>1. k \in Conns
  BY DEF Of
<1> QED BY <1>1 DEF SendUp, Inv, NetTypes

LEMMA ClosesOwn ==
  ASSUME Inv, NEW c \in Clients, NEW S, S \subseteq Of(c), CloseClient(S)
  PROVE  /\ \A j \in Conns \ Of(c) : cEnd'[j] = cEnd[j]
         /\ \A j \in Conns : cEnd[j] # "none" => cEnd'[j] # "none"
BY DEF CloseClient

LEMMA DataOwn ==
  ASSUME NEW c \in Clients
  PROVE  /\ Data(c) \subseteq Conns \ {Ctrl(c)} /\ Data(c) \subseteq Of(c)
         /\ Ctrl(c) \in Conns /\ Ctrl(c) \in Of(c)
<1>1. Data(c) \subseteq Conns /\ Data(c) \subseteq Of(c)
  BY DEF Data, Of
<1>2. Ctrl(c) \notin Data(c)
  BY CtrlNotData
<1> QED BY <1>1, <1>2, CtrlConn, CtrlOf

LEMMA SameCookies ==
  ASSUME NEW c, Cookies(c), next'[c] = next[c], \A k \in Data(c) : up'[k] = up[k]
  PROVE  Cookies(c)'
BY DEF Cookies, Data

\* A client that leaves: all its connections are closed, or none (under JNI).
LEMMA LeaveAnswers ==
  ASSUME Inv, SessionInv, AnswerInv, NEW c \in Clients,
         UNCHANGED <<serverVars, cstate, next, sEnd>>,
         NEW pc \in {"failed", "killed"}, Goto(c, pc),
         \/ CloseClient(Of(c))
         \/ CloseClient({}) /\ up' = up,
         \/ up' = up
         \/ cEnd[Ctrl(c)] = "open" /\ \E m : SendUp(Ctrl(c), m)
  PROVE  AnswerInv'
<1>1. cpc'[c] = pc /\ \A d \in Clients \ {c} : cpc'[d] = cpc[d]
  BY GotoOther
<1>2. \A k \in Conns \ {Ctrl(c)} : up'[k] = up[k]
  BY DataOwn, WritesOwn
<1>3. Reaches(c)
  <2>1. \A k \in Conns \ Of(c) : up'[k] = up[k]
    BY <1>2, DataOwn
  <2>2. /\ \A j \in Conns \ Of(c) : cEnd'[j] = cEnd[j]
        /\ \A j \in Conns : cEnd[j] # "none" => cEnd'[j] # "none"
    BY ClosesOwn
  <2>3. Of(c) \subseteq Conns
    BY CtrlConn
  <2> QED BY <1>1, <2>1, <2>2, <2>3 DEF Reaches
<1>4. Knocks(c) /\ (There(c) => Awaited(c)) /\ Cookies(c) /\ Shut(c)
  BY DEF AnswerInv, ClientAnswers
<1>5. Cookies(c)'
  BY <1>2, <1>4, DataOwn, SameCookies
<1>6. CASE CloseClient(Of(c))
  <2>1. /\ cEnd'[Ctrl(c)] # "open"
        /\ cEnd'[Ctrl(c)] # "closed" => cEnd[Ctrl(c)] = "none"
    BY <1>6, DataOwn DEF CloseClient, Inv, NetTypes
  <2>2. ~There(c)' /\ Shut(c)'
    BY <1>1, <2>1 DEF There, Shut, Ctrl
  <2>3. Knocks(c)'
    <3>1. cEnd'[Ctrl(c)] # "closed" => up' = up /\ cEnd[Ctrl(c)] # "closed"
      BY <2>1
    <3> QED BY <1>1, <1>4, <3>1 DEF Knocks, Served, Answer, Ctrl
  <2> QED BY <1>3, <1>5, <2>2, <2>3, ReachesAnswers DEF ClientAnswers
<1>7. CASE CloseClient({}) /\ up' = up
  <2>1. cEnd'[Ctrl(c)] = cEnd[Ctrl(c)] /\ \A k \in Data(c) : cEnd'[k] = cEnd[k]
    BY <1>7, DataOwn DEF CloseClient
  <2>2. Knocks(c)'
    BY <1>1, <1>4, <1>7, <2>1 DEF Knocks, Served, Answer, Ctrl
  <2>3. Shut(c)'
    BY <1>1, <1>4, <2>1 DEF Shut, Ctrl, Data
  <2>4. There(c)' => Awaited(c)'
    <3>1. There(c)' => There(c)
      BY <2>1 DEF There, Ctrl, serverVars
    <3>2. Answer(c)' = Answer(c)
      BY <1>7 DEF Answer, Ctrl
    <3>3. spc' = spc /\ sstate' = sstate /\ cstate' = cstate /\ cpc'[c] # "cookie"
      BY <1>1 DEF serverVars
    <3>4. Awaited(c) => Awaited(c)'
      BY <3>2, <3>3 DEF Awaited
    <3> QED BY <1>4, <3>1, <3>4
  <2> QED BY <1>3, <1>5, <2>2, <2>3, <2>4, ReachesAnswers DEF ClientAnswers
<1> QED BY <1>6, <1>7

LEMMA ClientFailsAnswers ==
  ASSUME Inv, SessionInv, AnswerInv, NEW c \in Clients, ClientFails(c)
  PROVE  AnswerInv'
BY LeaveAnswers DEF ClientFails

LEMMA ClientGoneAnswers ==
  ASSUME Inv, SessionInv, AnswerInv, NEW c \in Clients, ClientSignal(c) \/ ClientCrash(c)
  PROVE  AnswerInv'
BY LeaveAnswers DEF ClientSignal, ClientCrash

\* A client that connects is not the one behind ctrl_sck, and has sent nothing.
LEMMA ConnectAnswers ==
  ASSUME Inv, SessionInv, FlowInv, AnswerInv, NEW c \in Clients, Connect(c)
  PROVE  AnswerInv'
<1>1. CASE ~Listening
  BY <1>1, ClientFailsAnswers DEF Connect
<1>2. CASE Listening
  <2>1. /\ cpc[c] = "init" /\ Goto(c, "cookie") /\ cEnd' = [cEnd EXCEPT ![Ctrl(c)] = "open"]
        /\ sEnd' = [sEnd EXCEPT ![Ctrl(c)] = "backlog"]
        /\ UNCHANGED <<serverVars, cstate, next, up>>
    BY <1>2 DEF Connect, At
  <2>2. cpc'[c] = "cookie" /\ \A d \in Clients \ {c} : cpc'[d] = cpc[d]
    BY <2>1, GotoOther
  <2>3. sEnd[Ctrl(c)] = "none" /\ cEnd[Ctrl(c)] = "none"
    BY <2>1 DEF SessionInv, Ends, Fresh
  <2>4. /\ cEnd'[Ctrl(c)] = "open" /\ sEnd'[Ctrl(c)] = "backlog"
        /\ \A k \in Conns \ {Ctrl(c)} : cEnd'[k] = cEnd[k] /\ sEnd'[k] = sEnd[k]
    BY <2>1, DataOwn DEF Inv, NetTypes
  <2>5. Reaches(c)
    <3>1. Of(c) \subseteq Conns
      BY CtrlConn
    <3> QED BY <2>1, <2>2, <2>3, <2>4, <3>1, DataOwn DEF Reaches
  <2>6. Knocks(c) /\ Cookies(c) /\ Shut(c)
    BY DEF AnswerInv, ClientAnswers
  <2>7. Knocks(c)'
    BY <2>1, <2>3, <2>6 DEF Knocks, Served, Answer, Ctrl
  <2>8. ~There(c)'
    <3>1. ctrl # Ctrl(c)
      BY <2>3, DataOwn, NoConnOther DEF SessionInv, Roles, Served
    <3> QED BY <2>1, <3>1 DEF There, serverVars, Ctrl
  <2>9. Cookies(c)'
    BY <2>1, <2>6, SameCookies
  <2>10. Shut(c)'
    <3>1. \A k \in Data(c) : cEnd'[k] = "none"
      BY <2>1, <2>4, <2>6, DataOwn DEF Shut
    <3> QED BY <3>1 DEF Shut, Data
  <2> QED BY <2>5, <2>7, <2>8, <2>9, <2>10, ReachesAnswers DEF ClientAnswers
<1> QED BY <1>1, <1>2

\* Steps that leave the control connection and the client's state alone.
LEMMA AsideAnswers ==
  ASSUME Inv, SessionInv, AnswerInv, NEW c \in Clients, Reaches(c),
         cstate'[c] = cstate[c], cpc'[c] \notin {"init", "cookie"},
         up'[Ctrl(c)] = up[Ctrl(c)], cEnd'[Ctrl(c)] = cEnd[Ctrl(c)],
         sEnd'[Ctrl(c)] = sEnd[Ctrl(c)], Cookies(c)', Shut(c)'
  PROVE  AnswerInv'
<1>1. Knocks(c) /\ (There(c) => Awaited(c))
  BY DEF AnswerInv, ClientAnswers
<1>2. Knocks(c)'
  BY <1>1 DEF Knocks, Served, Answer, Ctrl
<1>3. There(c)' => Awaited(c)'
  <2>1. There(c)' => There(c)
    BY DEF There, Ctrl, Reaches, serverVars
  <2>2. /\ Answer(c)' = Answer(c) /\ spc' = spc /\ sstate' = sstate
        /\ cpc'[c] # "cookie"
    BY DEF Answer, Ctrl, Reaches, serverVars
  <2>3. Awaited(c) => Awaited(c)'
    BY <2>2 DEF Awaited
  <2> QED BY <1>1, <2>1, <2>3
<1> QED BY <1>2, <1>3, ReachesAnswers DEF ClientAnswers

LEMMA OnlyMoves ==
  ASSUME Inv, SessionInv, AnswerInv, NEW c \in Clients,
         NEW pc, Goto(c, pc), pc \notin {"init", "cookie"},
         UNCHANGED <<serverVars, cstate, next, up, cEnd, sEnd>>
  PROVE  AnswerInv'
<1>1. cpc'[c] = pc /\ \A d \in Clients \ {c} : cpc'[d] = cpc[d]
  BY GotoOther
<1>2. Reaches(c)
  BY <1>1 DEF Reaches
<1>3. Cookies(c) /\ Shut(c)
  BY DEF AnswerInv, ClientAnswers
<1>4. Cookies(c)' /\ Shut(c)'
  BY <1>1, <1>3, SameCookies DEF Shut, Ctrl, Data
<1> QED BY <1>1, <1>2, <1>4, AsideAnswers

LEMMA ConnectStreamAnswers ==
  ASSUME Inv, SessionInv, FlowInv, AnswerInv, NEW c \in Clients, ConnectStream(c)
  PROVE  AnswerInv'
<1>1. CASE ~Listening
  BY <1>1, ClientFailsAnswers DEF ConnectStream
<1>2. CASE Listening
  <2> DEFINE k == <<c, next[c]>>
  <2>1. /\ cpc[c] = "connect" /\ next[c] <= NumStreams /\ Goto(c, "streamCookie")
        /\ cEnd' = [cEnd EXCEPT ![k] = "open"] /\ sEnd' = [sEnd EXCEPT ![k] = "backlog"]
        /\ UNCHANGED <<serverVars, cstate, next, up>>
    BY <1>2 DEF ConnectStream, At
  <2>2. cpc'[c] = "streamCookie" /\ \A d \in Clients \ {c} : cpc'[d] = cpc[d]
    BY <2>1, GotoOther
  <2>3. k \in Conns /\ next[c] \in 1..NumStreams
    BY <2>1, NextConn
  <2>4. k \in Data(c) /\ k \in Of(c) /\ k # Ctrl(c)
    BY <2>3 DEF Data, Of, Ctrl
  <2>5. sEnd[k] = "none"
    <3>1. Unused(c, next[c])
      BY <2>1 DEF Unused
    <3> QED BY <2>3, <3>1 DEF SessionInv, Ends, InTurn
  <2>6. /\ cEnd'[k] = "open" /\ sEnd'[k] = "backlog"
        /\ \A j \in Conns \ {k} : cEnd'[j] = cEnd[j] /\ sEnd'[j] = sEnd[j]
    BY <2>1, <2>3 DEF Inv, NetTypes
  <2> HIDE DEF k
  <2>7. Reaches(c)
    <3>1. Of(c) \subseteq Conns
      BY CtrlConn
    <3>2. \A j \in Conns \ Of(c) : cEnd'[j] = cEnd[j] /\ sEnd'[j] = sEnd[j]
      BY <2>4, <2>6
    <3>3. \A j \in Of(c) :
            /\ cEnd[j] # "none" => cEnd'[j] # "none"
            /\ \/ sEnd'[j] = sEnd[j]
               \/ sEnd[j] = "none" /\ sEnd'[j] = "backlog" /\ cEnd'[j] = "open"
      BY <2>5, <2>6, <3>1
    <3> QED BY <2>1, <2>2, <3>2, <3>3 DEF Reaches
  <2>8. Cookies(c) /\ Shut(c)
    BY DEF AnswerInv, ClientAnswers
  <2>9. cEnd'[Ctrl(c)] = cEnd[Ctrl(c)] /\ sEnd'[Ctrl(c)] = sEnd[Ctrl(c)]
    BY <2>4, <2>6, DataOwn
  <2>10. Shut(c)'
    <3>1. \A j \in Data(c) : cEnd'[j] = cEnd[j] \/ cEnd'[j] = "open"
      BY <2>6, DataOwn
    <3> QED BY <2>1, <2>2, <2>8, <2>9, <3>1 DEF Shut, Ctrl, Data
  <2>11. Cookies(c)'
    BY <2>1, <2>8, SameCookies
  <2> QED BY <2>1, <2>2, <2>7, <2>9, <2>10, <2>11, AsideAnswers
<1> QED BY <1>1, <1>2

\* A data connection gets its cookie when it was connected.
LEMMA SendStreamCookieAnswers ==
  ASSUME Inv, SessionInv, FlowInv, AnswerInv, NEW c \in Clients, SendStreamCookie(c)
  PROVE  AnswerInv'
<1>1. CASE ClientFails(c)
  BY <1>1, ClientFailsAnswers
<1>2. CASE /\ SendUp(<<c, next[c]>>, "cookie")
           /\ Goto(c, IF next[c] = NumStreams THEN "select" ELSE "connect")
           /\ next' = [next EXCEPT ![c] = @ + 1]
           /\ UNCHANGED <<serverVars, cstate, cEnd, sEnd>>
  <2> DEFINE k == <<c, next[c]>>
  <2>1. k \in Conns /\ next[c] \in 1..NumStreams /\ k[2] = next[c]
    BY NextConn DEF Inv, ClientInv, SendStreamCookie, At
  <2>2. k \in Data(c) /\ k \in Of(c) /\ k # Ctrl(c)
    BY <2>1 DEF Data, Of, Ctrl
  <2>3. cpc'[c] \in {"select", "connect"} /\ \A d \in Clients \ {c} : cpc'[d] = cpc[d]
    BY <1>2, GotoOther
  <2>4. next'[c] = next[c] + 1 /\ \A d \in Clients \ {c} : next'[d] = next[d]
    BY <1>2 DEF Inv, ClientInv, ClientTypes
  <2>5. SendUp(k, "cookie")
    BY <1>2
  <2> HIDE DEF k
  <2>6. /\ \A j \in Conns \ {k} : up'[j] = up[j]
        /\ \A j \in Conns \ Of(c) : up'[j] = up[j]
        /\ up'[k] = up[k] \/ up'[k] = Append(up[k], "cookie")
    BY <2>2, <2>5, WritesOwn
  <2>7. Reaches(c)
    BY <1>2, <2>3, <2>4, <2>6 DEF Reaches
  <2>8. Cookies(c) /\ Shut(c)
    BY DEF AnswerInv, ClientAnswers
  <2>9. Cookies(c)'
    <3>1. ASSUME NEW j \in Data(c)
          PROVE  up'[j] \in {<<>>, <<"cookie">>} /\ (j[2] >= next'[c] => up'[j] = <<>>)
      <4>1. j[2] \in Nat /\ j \in Conns /\ next[c] \in Nat
        BY <2>1, Numbers DEF Data, Conns
      <4>2. CASE j # k
        <5>1. up'[j] = up[j]
          BY <2>6, <4>1, <4>2
        <5>2. up[j] \in {<<>>, <<"cookie">>} /\ (j[2] >= next[c] => up[j] = <<>>)
          BY <2>8 DEF Cookies
        <5>3. j[2] >= next'[c] => j[2] >= next[c]
          BY <2>4, <4>1
        <5> QED BY <5>1, <5>2, <5>3
      <4>3. CASE j = k
        <5>1. j[2] = next[c] /\ ~(j[2] >= next'[c]) /\ j[2] >= next[c]
          BY <2>1, <2>4, <4>1, <4>3
        <5>2. up[k] = <<>>
          BY <2>8, <4>3, <5>1 DEF Cookies
        <5>3. Append(<<>>, "cookie") = <<"cookie">>
          OBVIOUS
        <5> QED BY <2>6, <4>3, <5>1, <5>2, <5>3
      <4> QED BY <4>2, <4>3
    <3> QED BY <3>1 DEF Cookies, Data
  <2>10. Shut(c)'
    BY <1>2, <2>3, <2>8 DEF Shut, Ctrl, Data
  <2>11. up'[Ctrl(c)] = up[Ctrl(c)]
    BY <2>2, <2>6, DataOwn
  <2> QED BY <1>2, <2>3, <2>7, <2>9, <2>10, <2>11, AsideAnswers
<1> QED BY <1>1, <1>2 DEF SendStreamCookie

\* The first word on the control connection.
LEMMA SendCookieAnswers ==
  ASSUME Inv, SessionInv, FlowInv, AnswerInv, NEW c \in Clients, SendCookie(c)
  PROVE  AnswerInv'
<1>1. CASE ClientFails(c)
  BY <1>1, ClientFailsAnswers
<1>2. CASE /\ SendUp(Ctrl(c), "cookie") /\ Goto(c, "select")
           /\ UNCHANGED <<serverVars, cstate, next, cEnd, sEnd>>
  <2>1. cpc[c] = "cookie"
    BY DEF SendCookie, At
  <2>2. cpc'[c] = "select" /\ \A d \in Clients \ {c} : cpc'[d] = cpc[d]
    BY <1>2, GotoOther
  <2>3. /\ \A j \in Conns \ {Ctrl(c)} : up'[j] = up[j]
        /\ \A j \in Conns \ Of(c) : up'[j] = up[j]
        /\ Answer(c)' = Answer(c) \/ Answer(c)' = Append(Answer(c), "cookie")
    BY <1>2, DataOwn, WritesOwn DEF Answer, Ctrl
  <2>4. Reaches(c)
    BY <1>2, <2>2, <2>3 DEF Reaches
  <2>5. Knocks(c) /\ (There(c) => Awaited(c)) /\ Cookies(c) /\ Shut(c)
    BY DEF AnswerInv, ClientAnswers
  <2>6. Append(<<>>, "cookie") = <<"cookie">>
    OBVIOUS
  <2>7. Knocks(c)'
    BY <1>2, <2>1, <2>2, <2>3, <2>5, <2>6 DEF Knocks, Served, Ctrl
  <2>8. There(c)' => Awaited(c)'
    <3> SUFFICES ASSUME There(c)' PROVE Awaited(c)'
      OBVIOUS
    <3>1. There(c) /\ spc' = spc
      BY <1>2 DEF There, Ctrl, serverVars
    <3>2. spc = "cookie" /\ Answer(c) = <<>>
      BY <2>1, <2>5, <3>1 DEF Awaited
    <3> QED BY <2>2, <2>3, <2>6, <3>1, <3>2 DEF Awaited
  <2>9. Cookies(c)'
    BY <1>2, <2>3, <2>5, DataOwn, SameCookies
  <2>10. Shut(c)'
    BY <1>2, <2>2, <2>5 DEF Shut, Ctrl, Data
  <2> QED BY <2>4, <2>7, <2>8, <2>9, <2>10, ReachesAnswers DEF ClientAnswers
<1> QED BY <1>1, <1>2 DEF SendCookie

\* A step in which a client whose connection was accepted enters a state.
LEMMA EnterAnswers ==
  ASSUME Inv, SessionInv, AnswerInv, NEW c \in Clients, Served(Ctrl(c)),
         UNCHANGED <<serverVars, next, sEnd>>, cpc'[c] # "init",
         \A d \in Clients \ {c} : cpc'[d] = cpc[d] /\ cstate'[d] = cstate[d],
         cEnd' = cEnd \/ \E S : S \subseteq Of(c) /\ CloseClient(S),
         up' = up \/ \E m : SendUp(Ctrl(c), m),
         cEnd' # cEnd => cEnd'[Ctrl(c)] = "closed" \/ cstate'[c] = "IPERF_DONE",
         cstate[c] # "IPERF_DONE",
         There(c)' => There(c), There(c) /\ Awaited(c) => Awaited(c)' \/ ~There(c)'
  PROVE  AnswerInv'
<1>1. /\ \A j \in Conns \ {Ctrl(c)} : up'[j] = up[j]
      /\ \A j \in Conns \ Of(c) : up'[j] = up[j]
  BY DataOwn, WritesOwn
<1>2. /\ \A j \in Conns \ Of(c) : cEnd'[j] = cEnd[j]
      /\ \A j \in Conns : cEnd[j] # "none" => cEnd'[j] # "none"
  BY ClosesOwn
<1>3. Reaches(c)
  <2>1. Of(c) \subseteq Conns
    BY CtrlConn
  <2> QED BY <1>1, <1>2, <2>1 DEF Reaches
<1>4. (There(c) => Awaited(c)) /\ Cookies(c) /\ Shut(c)
  BY DEF AnswerInv, ClientAnswers
<1>5. Knocks(c)'
  BY DEF Knocks, Served, Ctrl
<1>6. Cookies(c)'
  BY <1>1, <1>4, DataOwn, SameCookies
<1>7. Shut(c)'
  <2>1. CASE cEnd' = cEnd
    BY <1>4, <2>1 DEF Shut, Ctrl, Data
  <2>2. CASE cEnd' # cEnd
    BY <2>2 DEF Shut, Ctrl
  <2> QED BY <2>1, <2>2
<1> QED BY <1>3, <1>4, <1>5, <1>6, <1>7, ReachesAnswers DEF ClientAnswers

\* A client that takes a word enters the next phase, and if the server is in
\* its session it is there already.
LEMMA TakePhase ==
  ASSUME Inv, SessionInv, FlowInv, AnswerInv, NEW c \in Clients, NEW m,
         DownIs(Ctrl(c), m), PhaseOf(m) # 0
  PROVE  /\ PhaseOf(m) = Phase[cstate[c]] + 1 /\ Phase[cstate[c]] \in 0..5
         /\ cstate[c] # "IPERF_DONE" /\ Served(Ctrl(c))
         /\ There(c) => Phase[sstate] \in PhaseOf(m)..6
<1>1. down[Ctrl(c)] # <<>> /\ m = Head(down[Ctrl(c)])
  BY DEF DownIs
<1>2. PhaseOf(m) = Phase[cstate[c]] + 1 /\ PhaseOf(m) \in Told(c)
  BY <1>1, TakeHead DEF FlowInv
<1>3. PhaseOf(m) \in 0..6 /\ Phase[cstate[c]] \in 0..6
  BY PhaseOfType, DownType
<1>4. Phase[cstate[c]] \in 0..5
  BY <1>2, <1>3
<1>5. cstate[c] # "IPERF_DONE"
  BY <1>4, Phases
<1>6. Served(Ctrl(c))
  BY <1>1, Accepted
<1>7. There(c) => Phase[sstate] \in PhaseOf(m)..6
  <2>1. There(c) => Told(c) = 1..Phase[sstate] /\ Phase[sstate] \in 0..6
    BY ThereIs
  <2> QED BY <1>2, <1>3, <2>1
<1> QED BY <1>2, <1>4, <1>5, <1>6, <1>7

\* Where the server is when its client has a word of a phase.
LEMMA Where ==
  ASSUME Inv, FlowInv, NEW c \in Clients, There(c), Awaited(c)
  PROVE  /\ spc = "cookie" => Phase[sstate] = 0
         /\ spc = "params" => Phase[sstate] = 1
         /\ sstate = "CREATE_STREAMS" => Phase[sstate] = 2
         /\ spc = "starting" => Phase[sstate] = 3
         /\ sstate = "TEST_RUNNING" => Phase[sstate] = 4
         /\ spc \in {"results", "display"} => Phase[sstate] = 5
         /\ sstate = "DISPLAY_RESULTS" => Phase[sstate] = 6
BY Phases DEF FlowInv, Position

\* What is sent on the control connection that is there.
LEMMA AnswerSent ==
  ASSUME Inv, SessionInv, FlowInv, AnswerInv, NEW c \in Clients, NEW m,
         SendUp(Ctrl(c), m), There(c)
  PROVE  Answer(c) = <<>> => Answer(c)' = <<m>>
<1>1. sEnd[Ctrl(c)] = "open"
  BY ThereIs
<1>2. Answer(c)' = Append(Answer(c), m)
  BY <1>1, CtrlOf, WritesOwn DEF Answer, Ctrl
<1>3. Append(<<>>, m) = <<m>>
  OBVIOUS
<1> QED BY <1>2, <1>3

LEMMA ReplyAnswers ==
  ASSUME Inv, SessionInv, FlowInv, AnswerInv, NEW c \in Clients,
         NEW m \in {"PARAM_EXCHANGE", "EXCHANGE_RESULTS"},
         NEW pc \in {"select", "results"}, Reply(c, m, "json", pc)
  PROVE  AnswerInv'
<1>1. cpc'[c] = pc /\ \A d \in Clients \ {c} : cpc'[d] = cpc[d]
  BY GotoOther DEF Reply
<1>2. cstate'[c] = m /\ \A d \in Clients \ {c} : cstate'[d] = cstate[d]
  BY EnterOther DEF Reply
<1>3. /\ DownIs(Ctrl(c), m) /\ SendUp(Ctrl(c), "json")
      /\ UNCHANGED <<serverVars, next, cEnd, sEnd>>
  BY DEF Reply
<1>4. PhaseOf(m) = Phase[m] /\ PhaseOf(m) # 0
  BY Entered
<1>5. /\ Phase[m] = Phase[cstate[c]] + 1 /\ Phase[cstate[c]] \in 0..5
      /\ cstate[c] # "IPERF_DONE" /\ Served(Ctrl(c))
      /\ There(c) => Phase[sstate] \in Phase[m]..6
  BY <1>3, <1>4, TakePhase
<1>6. There(c)' => There(c)
  BY <1>3 DEF There, Ctrl, serverVars
<1>7. ASSUME There(c), Awaited(c) PROVE Awaited(c)'
  <2>1. spc' = spc /\ sstate' = sstate /\ Phase[sstate] \in Phase[m]..6
    BY <1>3, <1>5, <1>7 DEF serverVars
  <2>2. Answer(c) = <<>> => Answer(c)' = <<"json">>
    BY <1>3, <1>7, AnswerSent
  <2>3. CASE m = "PARAM_EXCHANGE"
    <3>1. Phase[m] = 1 /\ Phase[cstate[c]] = 0 /\ Phase[sstate] \in 1..6
      BY <1>5, <2>1, <2>3, Phases
    <3>2. spc # "cookie"
      BY <1>7, <3>1, Where
    <3>3. spc = "params" /\ Answer(c) = <<>>
      BY <1>7, <3>1, <3>2 DEF Awaited
    <3> QED BY <1>1, <1>2, <2>1, <2>2, <3>1, <3>3 DEF Awaited
  <2>4. CASE m = "EXCHANGE_RESULTS"
    <3>1. Phase[m] = 5 /\ Phase[cstate[c]] = 4 /\ Phase[sstate] \in 5..6
      BY <1>5, <2>1, <2>4, Phases
    <3>2. /\ spc \notin {"cookie", "params", "starting"}
          /\ sstate \notin {"CREATE_STREAMS", "TEST_RUNNING"}
      BY <1>7, <3>1, Where
    <3>3. spc = "results" /\ Answer(c) = <<>>
      BY <1>7, <3>1, <3>2 DEF Awaited
    <3> QED BY <1>1, <1>2, <2>1, <2>2, <3>1, <3>3 DEF Awaited
  <2> QED BY <2>3, <2>4
<1> QED BY <1>1, <1>2, <1>3, <1>5, <1>6, <1>7, EnterAnswers

LEMMA HandleStartAnswers ==
  ASSUME Inv, SessionInv, FlowInv, AnswerInv, NEW c \in Clients,
         cpc[c] = "select", HandleStart(c)
  PROVE  AnswerInv'
<1> DEFINE m == Head(down[Ctrl(c)])
<1>1. /\ DownIs(Ctrl(c), m) /\ m \in {"CREATE_STREAMS", "TEST_START", "TEST_RUNNING"}
      /\ UNCHANGED <<serverVars, next, cEnd, sEnd, up>>
  BY DEF HandleStart, DownIs
<1>2. cpc'[c] \in {"select", "connect"} /\ \A d \in Clients \ {c} : cpc'[d] = cpc[d]
  BY GotoOther DEF HandleStart
<1>3. cstate'[c] = m /\ \A d \in Clients \ {c} : cstate'[d] = cstate[d]
  BY EnterOther DEF HandleStart
<1> HIDE DEF m
<1>4. PhaseOf(m) = Phase[m] /\ PhaseOf(m) # 0 /\ Phase[m] \in 2..4 /\ m # "TEST_END"
  BY <1>1, Entered, Phases
<1>5. /\ Phase[m] = Phase[cstate[c]] + 1 /\ Phase[cstate[c]] \in 0..5
      /\ cstate[c] # "IPERF_DONE" /\ Served(Ctrl(c))
      /\ There(c) => Phase[sstate] \in Phase[m]..6
  BY <1>1, <1>4, TakePhase
<1>6. There(c)' => There(c)
  BY <1>1 DEF There, Ctrl, serverVars
<1>7. ASSUME There(c), Awaited(c) PROVE Awaited(c)'
  <2>1. /\ spc' = spc /\ sstate' = sstate /\ Answer(c)' = Answer(c)
        /\ Phase[sstate] \in 2..6
    BY <1>1, <1>4, <1>5, <1>7 DEF serverVars, Answer, Ctrl
  <2>2. spc \notin {"cookie", "params"}
    BY <1>7, <2>1, Where
  <2>3. Phase[cstate[c]] \in 1..3 /\ cstate[c] # "TEST_END"
    BY <1>4, <1>5, Phases
  <2>4. cpc'[c] # "cookie" /\ Phase[cstate'[c]] \in 2..4 /\ cstate'[c] # "TEST_END"
    BY <1>2, <1>3, <1>4
  <2> QED BY <1>7, <2>1, <2>2, <2>3, <2>4 DEF Awaited
<1> QED BY <1>1, <1>2, <1>3, <1>5, <1>6, <1>7, EnterAnswers

\* The last answer: the client closes its streams, and under JNI only those.
LEMMA HandleDisplayAnswers ==
  ASSUME Inv, SessionInv, FlowInv, AnswerInv, NEW c \in Clients, HandleDisplay(c)
  PROVE  AnswerInv'
<1>1. /\ DownIs(Ctrl(c), "DISPLAY_RESULTS") /\ SendUp(Ctrl(c), "IPERF_DONE")
      /\ UNCHANGED <<serverVars, next, sEnd>>
  BY DEF HandleDisplay
<1>2. cpc'[c] = "done" /\ \A d \in Clients \ {c} : cpc'[d] = cpc[d]
  BY GotoOther DEF HandleDisplay
<1>3. cstate'[c] = "IPERF_DONE" /\ \A d \in Clients \ {c} : cstate'[d] = cstate[d]
  BY EnterOther DEF HandleDisplay
<1>4. PhaseOf("DISPLAY_RESULTS") = 6 /\ Phase["IPERF_DONE"] = 6
  BY Phases DEF PhaseOf, States
<1>5. /\ Phase[cstate[c]] = 5 /\ cstate[c] # "IPERF_DONE" /\ Served(Ctrl(c))
      /\ There(c) => Phase[sstate] = 6
  BY <1>1, <1>4, TakePhase
<1>6. \E S : S \subseteq Of(c) /\ CloseClient(S)
  <2>1. Data(c) \subseteq Of(c)
    BY DEF Data, Of
  <2> QED BY <2>1 DEF HandleDisplay
<1>7. There(c)' => There(c)
  <2>1. cEnd'[Ctrl(c)] = "open" => cEnd[Ctrl(c)] = "open"
    BY <1>6, DataOwn DEF CloseClient
  <2> QED BY <1>1, <2>1 DEF There, Ctrl, serverVars
<1>8. ASSUME There(c), Awaited(c) PROVE Awaited(c)'
  <2>1. spc' = spc /\ sstate' = sstate /\ Phase[sstate] = 6
    BY <1>1, <1>5, <1>8 DEF serverVars
  <2>2. /\ spc \notin {"cookie", "params", "starting", "results", "display"}
        /\ sstate \notin {"CREATE_STREAMS", "TEST_RUNNING"}
    BY <1>8, <2>1, Where
  <2>3. spc = "select" /\ sstate = "DISPLAY_RESULTS" /\ Answer(c) = <<>>
    BY <1>5, <1>8, <2>2 DEF Awaited
  <2>4. Answer(c)' = <<"IPERF_DONE">>
    BY <1>1, <1>8, <2>3, AnswerSent
  <2> QED BY <1>2, <1>3, <1>4, <2>1, <2>3, <2>4 DEF Awaited
<1> QED BY <1>1, <1>2, <1>3, <1>5, <1>6, <1>7, <1>8, EnterAnswers

LEMMA HandleMessageClientAnswers ==
  ASSUME Inv, SessionInv, FlowInv, AnswerInv, NEW c \in Clients, HandleMessageClient(c)
  PROVE  AnswerInv'
<1>1. CASE HandleExchange(c)
  BY <1>1, ReplyAnswers, ClientFailsAnswers DEF HandleExchange
<1>2. CASE HandleStart(c)
  BY <1>2, HandleStartAnswers DEF HandleMessageClient, At
<1>3. CASE HandleDisplay(c)
  BY <1>3, HandleDisplayAnswers
<1>4. CASE HandleError(c)
  BY <1>4, ClientFailsAnswers DEF HandleError
<1> QED BY <1>1, <1>2, <1>3, <1>4 DEF HandleMessageClient

\* TEST_END goes to a server that runs the test.
LEMMA EndTestAnswers ==
  ASSUME Inv, SessionInv, FlowInv, AnswerInv, NEW c \in Clients, EndTest(c)
  PROVE  AnswerInv'
<1>1. CASE ClientFails(c)
  BY <1>1, ClientFailsAnswers
<1>2. CASE /\ SendUp(Ctrl(c), "TEST_END") /\ Enter(c, "TEST_END")
           /\ UNCHANGED <<serverVars, cpc, next, cEnd, sEnd>>
  <2>1. cpc[c] = "select" /\ cstate[c] = "TEST_RUNNING"
    BY DEF EndTest, At
  <2>2. cstate'[c] = "TEST_END" /\ \A d \in Clients \ {c} : cstate'[d] = cstate[d]
    BY <1>2, EnterOther
  <2>3. Phase[cstate[c]] = 4 /\ Phase[cstate'[c]] = 4 /\ ~Ended(c)
    BY <2>1, <2>2, Phases DEF Ended
  <2>4. Served(Ctrl(c))
    <3>1. sEnd[Ctrl(c)] = "closed" \/ ctrl = Ctrl(c)
      BY <2>1 DEF SessionInv, Mail, Addressed
    <3> QED BY <3>1, DataOwn, NoConnOther DEF SessionInv, Roles, Served
  <2>5. There(c)' => There(c)
    BY <1>2 DEF There, Ctrl, serverVars
  <2>6. ASSUME There(c), Awaited(c) PROVE Awaited(c)'
    <3>1. spc' = spc /\ sstate' = sstate /\ cpc'[c] # "cookie"
      BY <1>2, <2>1 DEF serverVars
    <3>2. Phase[sstate] \in 4..6 /\ ctrl = Ctrl(c)
      BY <2>3, <2>6, ThereIs
    <3>3. ~(Phase[sstate] >= 5)
      BY <2>3, <3>2 DEF FlowInv, EndSent
    <3>4. Phase[sstate] = 4
      BY <3>2, <3>3
    <3>5. /\ spc \notin {"cookie", "params", "starting", "results", "display"}
          /\ sstate \notin {"CREATE_STREAMS", "DISPLAY_RESULTS"}
      BY <2>6, <3>4, Where
    <3>6. spc = "select" /\ sstate = "TEST_RUNNING" /\ Answer(c) = <<>>
      BY <2>1, <2>6, <3>5 DEF Awaited
    <3>7. Answer(c)' = <<"TEST_END">>
      BY <1>2, <2>6, <3>6, AnswerSent
    <3> QED BY <2>2, <2>3, <3>1, <3>6, <3>7 DEF Awaited
  <2> QED BY <1>2, <2>1, <2>2, <2>4, <2>5, <2>6, EnterAnswers
<1> QED BY <1>1, <1>2 DEF EndTest

LEMMA ClientStepAnswers ==
  ASSUME Inv, SessionInv, FlowInv, AnswerInv, NEW c \in Clients, ClientStep(c)
  PROVE  AnswerInv'
<1>1. CASE ClientResults(c)
  BY <1>1, ClientFailsAnswers, OnlyMoves DEF ClientResults
<1>2. CASE BeginDrain(c) \/ Drain(c)
  BY <1>2, OnlyMoves DEF BeginDrain, Drain, netVars
<1>3. CASE ReceiveData(c)
  <2>1. cpc[c] = "select" /\ UNCHANGED <<serverVars, cpc, cstate, next, up, cEnd, sEnd>>
    BY <1>3 DEF ReceiveData, At, clientVars
  <2>2. Goto(c, "select")
    BY <2>1 DEF Goto, Inv, ClientInv, ClientTypes
  <2> QED BY <2>1, <2>2, OnlyMoves
<1>4. CASE SendDataFails(c)
  BY <1>4, ClientFailsAnswers DEF SendDataFails
<1> QED BY <1>1, <1>2, <1>3, <1>4, ConnectAnswers, SendCookieAnswers,
           HandleMessageClientAnswers, ConnectStreamAnswers, SendStreamCookieAnswers,
           EndTestAnswers
        DEF ClientStep

LEMMA InitAnswers == Init => AnswerInv
<1> SUFFICES ASSUME Init PROVE AnswerInv
  OBVIOUS
<1>1. Standing
  BY DEF Init, Standing
<1>2. ASSUME NEW c \in Clients PROVE ClientAnswers(c)
  <2>1. /\ cpc[c] = "init" /\ up[Ctrl(c)] = <<>> /\ cEnd[Ctrl(c)] = "none" /\ ctrl # Ctrl(c)
        /\ \A k \in Data(c) : up[k] = <<>> /\ cEnd[k] = "none"
    BY DataOwn, NoConnOther DEF Init
  <2> QED BY <2>1 DEF ClientAnswers, Knocks, There, Cookies, Shut, Answer
<1> QED BY <1>1, <1>2 DEF AnswerInv

LEMMA StutterAnswers == ASSUME Inv, AnswerInv, UNCHANGED vars PROVE AnswerInv'
<1>1. UNCHANGED <<spc, sstate, ctrl, cpc, cstate, next, cEnd, sEnd, up>>
  BY DEF vars, serverVars, clientVars, netVars
<1>2. Standing'
  BY <1>1 DEF AnswerInv, Standing
<1>3. ASSUME NEW c \in Clients PROVE ClientAnswers(c)'
  <2>1. Knocks(c) /\ (There(c) => Awaited(c)) /\ Cookies(c) /\ Shut(c)
    BY DEF AnswerInv, ClientAnswers
  <2>2. Knocks(c)' /\ Cookies(c)' /\ Shut(c)'
    BY <1>1, <2>1 DEF Knocks, Cookies, Shut, Served, Answer, Ctrl, Data
  <2>3. There(c)' => Awaited(c)'
    <3>1. There(c)' => There(c)
      BY <1>1 DEF There, Ctrl
    <3> QED BY <1>1, <2>1, <3>1, SameAwaited
  <2> QED BY <2>2, <2>3 DEF ClientAnswers
<1> QED BY <1>2, <1>3 DEF AnswerInv

LEMMA StepAnswers ==
  Inv /\ SessionInv /\ FlowInv /\ AnswerInv /\ [Next]_vars => AnswerInv'
<1> SUFFICES ASSUME Inv, SessionInv, FlowInv, AnswerInv, [Next]_vars
             PROVE  AnswerInv'
  OBVIOUS
<1>1. CASE ServerStep \/ ServerSignal \/ ServerCrash
  BY <1>1, ServerStepAnswers
<1>2. CASE \E c \in Clients : ClientStep(c) \/ ClientSignal(c) \/ ClientCrash(c)
  BY <1>2, ClientStepAnswers, ClientGoneAnswers
<1>3. CASE UNCHANGED vars
  BY <1>3, StutterAnswers
<1> QED BY <1>1, <1>2, <1>3 DEF Next

\* The control connection goes only with the end of a session.
Leaves == ctrl # NoConn /\ ctrl' = NoConn
OwnEnd == cEnd[ctrl] = "closed" \/ UpIs(ctrl, "IPERF_DONE")

\* A failed write or read on the control connection is the client's doing.
LEMMA CtrlFails ==
  ASSUME NEW S, NEW m, WriteFails(ctrl, S) \/ ReadFails(ctrl) \/ BadUp(ctrl, m)
  PROVE  OwnEnd
BY DEF WriteFails, ReadFails, BadUp, OwnEnd

\* Another connection ends a session only where it was reset: denying it is a
\* first write, and end of file in its cookie ends just the read.
LEMMA BusyKeeps == ASSUME "reset" \notin Faults, Leaves PROVE ~AcceptBusy /\ ~RecvData
BY DEF AcceptBusy, RecvData, ReadFails, Leaves, serverVars

LEMMA CookieEnds ==
  ASSUME "reset" \notin Faults, Leaves, ReadStreamCookie PROVE OwnEnd
<1>1. ~NewStream /\ ~DenyStream
  BY DEF NewStream, DenyStream, Leaves
<1>2. WriteFails(ctrl, {})
  BY <1>1 DEF ReadStreamCookie, ReadFails
<1> QED BY <1>2 DEF WriteFails, OwnEnd

\* A stream that fails while its client sends data is the client's doing too.
LEMMA SendEnds ==
  ASSUME Inv, SessionInv, FlowInv, AnswerInv, SendData, Leaves
  PROVE  OwnEnd
<1>1. ctrl \in Conns /\ cEnd[ctrl] # "none" /\ ~(ctrl[2] > 0) /\ spc = "select"
  BY CtrlOpen DEF SendData, Leaves
<1> DEFINE c == ctrl[1]
<1>2. c \in Clients /\ ctrl = Ctrl(c)
  BY <1>1, Numbers DEF Conns, Ctrl
<1>3. PICK k \in streams : cEnd[k] = "closed"
  BY DEF SendData, Leaves, WriteFails, serverVars
<1>4. k \in Data(c)
  BY <1>3 DEF Inv, ServerInv, ServerTypes, OwnStreams, SessionInv, Roles, Data
<1> SUFFICES ASSUME cEnd[ctrl] # "closed" PROVE FALSE
  BY DEF OwnEnd
<1>5. cEnd[Ctrl(c)] = "open"
  BY <1>1, <1>2 DEF Inv, NetTypes
<1>6. There(c)
  BY <1>1, <1>2, <1>5 DEF There
<1>7. Phase[cstate[c]] <= 4
  BY <1>2, <1>6, ThereIs, Phases DEF SendData
<1>8. cstate[c] # "IPERF_DONE"
  BY <1>7, Phases
<1> QED BY <1>2, <1>3, <1>4, <1>5, <1>8 DEF AnswerInv, ClientAnswers, Shut

\* The last message of a client that has not closed is IPERF_DONE.
LEMMA LastEnds ==
  ASSUME Inv, SessionInv, FlowInv, AnswerInv, spc = "select", HandleLast, Leaves
  PROVE  OwnEnd
<1>1. ctrl \in Conns /\ cEnd[ctrl] # "none" /\ ~(ctrl[2] > 0)
  BY CtrlOpen DEF Leaves
<1> DEFINE c == ctrl[1]
<1>2. c \in Clients /\ ctrl = Ctrl(c)
  BY <1>1, Numbers DEF Conns, Ctrl
<1> SUFFICES ASSUME cEnd[ctrl] # "closed" PROVE UpIs(ctrl, "IPERF_DONE")
  BY DEF OwnEnd
<1>3. There(c)
  BY <1>1, <1>2 DEF There, Inv, NetTypes
<1>4. Awaited(c)
  BY <1>2, <1>3, ThereIs
<1>5. up[ctrl] \in {<<>>, <<"TEST_END">>, <<"IPERF_DONE">>}
  BY <1>2, <1>4 DEF Awaited, Answer
<1>6. up[ctrl] # <<>> /\ Head(up[ctrl]) # "TEST_END"
  BY <1>5, OneAnswer DEF HandleLast, UpIs, UpEOF
<1> QED BY <1>5, <1>6, OneAnswer DEF UpIs

LEMMA SessionEnds ==
  ASSUME "reset" \notin Faults, ~(Relisten /\ "listen" \in Faults),
         Inv, SessionInv, FlowInv, AnswerInv, ServerStep, Leaves
  PROVE  OwnEnd
<1>1. ~ServerListen /\ ~AcceptClient /\ ~AcceptStream
  BY HeadWaits, NoConnOther
     DEF ServerListen, AcceptClient, AcceptStream, Leaves
<1>2. CASE AcceptBusy \/ ReadStreamCookie \/ RecvData
  BY <1>2, BusyKeeps, CookieEnds
<1>3. CASE ReadCookie
  BY <1>3, CtrlFails DEF ReadCookie, Leaves
<1>4. CASE ReadParams
  BY <1>4, CtrlFails DEF ReadParams, Leaves
<1>5. CASE StartTest
  BY <1>5, CtrlFails DEF StartTest, Leaves
<1>6. CASE HandleMessageServer
  BY <1>6, CtrlFails, LastEnds DEF HandleMessageServer, HandleTestEnd, Leaves
<1>7. CASE ReadResults
  BY <1>7, CtrlFails DEF ReadResults, Leaves
<1>8. CASE SendDisplay
  BY <1>8, CtrlFails DEF SendDisplay, Leaves
<1>9. CASE SendData
  BY <1>9, SendEnds
<1> QED BY <1>1, <1>2, <1>3, <1>4, <1>5, <1>6, <1>7, <1>8, <1>9 DEF ServerStep

\* A client's step, a signal and a crash leave ctrl_sck as it is.
LEMMA OthersStay ==
  ASSUME NEW c \in Clients,
         ClientStep(c) \/ ClientSignal(c) \/ ClientCrash(c)
         \/ ServerSignal \/ ServerCrash \/ UNCHANGED vars
  PROVE  UNCHANGED ctrl
<1>1. CASE ServerSignal \/ ServerCrash
  BY <1>1 DEF ServerSignal, ServerCrash, ServerExit
<1>2. CASE ClientSignal(c) \/ ClientCrash(c) \/ UNCHANGED vars
  BY <1>2 DEF ClientSignal, ClientCrash, vars, serverVars
<1>3. CASE Connect(c) \/ SendCookie(c) \/ ConnectStream(c) \/ SendStreamCookie(c)
  BY <1>3 DEF Connect, SendCookie, ConnectStream, SendStreamCookie, ClientFails, serverVars
<1>4. CASE HandleMessageClient(c)
  BY <1>4 DEF HandleMessageClient, HandleExchange, Reply, HandleStart, HandleDisplay,
              HandleError, ClientFails, serverVars
<1>5. CASE \/ ClientResults(c) \/ EndTest(c) \/ ReceiveData(c) \/ SendDataFails(c)
           \/ BeginDrain(c) \/ Drain(c)
  BY <1>5 DEF ClientResults, EndTest, ReceiveData, SendDataFails, BeginDrain, Drain,
              ClientFails, serverVars
<1> QED BY <1>1, <1>2, <1>3, <1>4, <1>5 DEF ClientStep

\* What another client does never ends a session: iperf_accept denies its
\* connection, and that is no error to iperf_run_server.  A reset connection may
\* fail a first write or a read, and with -N, -M or -w the server gives up when
\* it cannot listen again: those two are left out.
THEOREM OwnClientEnds ==
  ASSUME "reset" \notin Faults, ~(Relisten /\ "listen" \in Faults)
  PROVE  Spec => OnlyOwnClientEndsSession
<1>1. ASSUME Inv, SessionInv, FlowInv, AnswerInv, [Next]_vars, Leaves
      PROVE  OwnEnd
  <2>1. ctrl' # ctrl
    BY <1>1 DEF Leaves
  <2>2. Clients # {}
    BY <1>1 DEF Leaves, Inv, ServerInv, ServerTypes, Conns
  <2>3. ServerStep
    BY <1>1, <2>1, <2>2, OthersStay DEF Next
  <2> QED BY <1>1, <2>3, SessionEnds
<1>2. Inv /\ SessionInv /\ FlowInv /\ AnswerInv /\ [Next]_vars
        => [ctrl # NoConn /\ ctrl' = NoConn =>
              cEnd[ctrl] = "closed" \/ UpIs(ctrl, "IPERF_DONE")]_vars
  BY <1>1 DEF Leaves, OwnEnd
<1> QED BY <1>2, SessionInvariant, InitFlow, StepFlow, InitAnswers, StepAnswers, PTL
        DEF Spec, OnlyOwnClientEndsSession
=============================================================================
