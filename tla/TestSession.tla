----------------------------- MODULE TestSession -----------------------------
(***************************************************************************)
(* What the control protocol of iperf promises, without messages, sockets  *)
(* or cookies: a server serves one client at a time, tells it of the       *)
(* phases of a test one after the other, and a client does only what it    *)
(* was told; it succeeds exactly when it was told of them all.             *)
(*                                                                         *)
(* Phases: 1 parameters, 2 streams, 3 start, 4 running, 5 results,         *)
(* 6 display.                                                              *)
(***************************************************************************)
EXTENDS Integers

CONSTANTS Clients, NoClient

VARIABLES
  serving,  \* the client whose session it is, or NoClient
  told,     \* the phases each client was told of
  seen,     \* the last phase each client has entered
  outcome   \* of each client: "none", "success", "failure", "killed"

svars == <<serving, told, seen, outcome>>

Init ==
  /\ serving = NoClient
  /\ told = [c \in Clients |-> {}]
  /\ seen = [c \in Clients |-> 0]
  /\ outcome = [c \in Clients |-> "none"]

\* A free server takes a client it has told nothing yet.
Admit(c) ==
  /\ serving = NoClient /\ told[c] = {}
  /\ serving' = c
  /\ UNCHANGED <<told, seen, outcome>>

\* The next phase, to the client that is served.
Tell(c, n) ==
  /\ serving = c /\ told[c] = 1..(n - 1)
  /\ told' = [told EXCEPT ![c] = 1..n]
  /\ UNCHANGED <<serving, seen, outcome>>

\* The session ends, for whatever reason.
Close ==
  /\ serving' = NoClient
  /\ UNCHANGED <<told, seen, outcome>>

\* The client enters the next phase it was told of; with the last one it has
\* succeeded.
Enter(c) ==
  /\ outcome[c] = "none" /\ seen[c] + 1 \in told[c]
  /\ seen' = [seen EXCEPT ![c] = @ + 1]
  /\ outcome' = IF seen[c] = 5 THEN [outcome EXCEPT ![c] = "success"] ELSE outcome
  /\ UNCHANGED <<serving, told>>

Fail(c) ==
  /\ outcome[c] = "none"
  /\ outcome' = [outcome EXCEPT ![c] = "failure"]
  /\ UNCHANGED <<serving, told, seen>>

\* The process dies, also one that is done but whose app still runs.
Die(c) ==
  /\ outcome' = [outcome EXCEPT ![c] = "killed"]
  /\ UNCHANGED <<serving, told, seen>>

Next ==
  \/ Close
  \/ \E c \in Clients :
       \/ Admit(c) \/ Enter(c) \/ Fail(c) \/ Die(c)
       \/ \E n \in 1..6 : Tell(c, n)

Spec == Init /\ [][Next]_svars
=============================================================================
