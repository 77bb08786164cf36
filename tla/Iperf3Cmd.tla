------------------------------ MODULE Iperf3Cmd ------------------------------
(***************************************************************************)
(* The two ways the app runs a test and hears of it.  Iperf3Cmd.kt starts  *)
(* the executable, reads its standard output to the end and then its       *)
(* standard error, and tells from each line which callback to make; one    *)
(* object serves every test, and nothing keeps the app from starting a     *)
(* second one while the first runs.  iperf3_jni_api.c runs the same client *)
(* in the process and the library makes the callbacks.  Here each test is  *)
(* run both ways: cmd has the callbacks of the wrapper, jni those of the   *)
(* library.                                                                *)
(***************************************************************************)
EXTENDS IperfReport, FiniteSets

CONSTANTS
  Execs,        \* the calls of exec on one Iperf3Cmd object
  Tests,        \* the tests that each may run: see TestTypes
  MaxIntervals, \* bound on the intervals before the last one
  PipeCap,      \* bound on the lines a pipe holds
  UsageLines    \* the lines usage_long prints to standard error

\* givesP: the arguments have -P; mbits: they have -f m, without which the
\* unit of a bandwidth is another one or is chosen for each number.
TestTypes == [udp : BOOLEAN, reverse : BOOLEAN, n : Nat \ {0}, retrans : BOOLEAN,
              long : BOOLEAN, givesP : BOOLEAN, mbits : BOOLEAN]

ASSUME CmdAssumption ==
  /\ IsFiniteSet(Execs)
  /\ DOMAIN Tests = Execs
  /\ \A e \in Execs : \A t \in Tests[e] :
       t \in TestTypes /\ (t.udp => ~t.retrans) /\ (~t.givesP => t.n = 1)
  /\ MaxIntervals \in Nat
  /\ PipeCap \in Nat \ {0}
  /\ UsageLines \in 0..PipeCap

VARIABLES
  parallels, isDown, titleCnt,  \* the fields of the Iperf3Cmd object
  pc,       \* where each exec is: see ExecPC
  test,     \* the test of each exec
  proc,     \* its process: "none", "connected", "running", "exiting", "exited"
  end,      \* how it ended: "none", "success", "terminated", "failed", "badargs"
  gathered, \* the intervals it has gathered
  toOut,    \* the lines it has not written to standard output yet
  toErr,    \* the same for standard error
  out,      \* the pipe of its standard output
  err,      \* the pipe of its standard error
  cmd,      \* the callbacks made for each exec (only onError if it was not alone)
  jni,      \* the callbacks the library makes in the same test
  mixed     \* the execs that were not alone (for the properties)

fieldVars == <<parallels, isDown, titleCnt>>
procVars  == <<test, proc, end, gathered, toOut, toErr, jni>>
vars == <<fieldVars, pc, procVars, out, err, cmd, mixed>>

ExecPC == {"idle", "out", "err", "wait", "done"}
NoTest == [udp |-> FALSE, reverse |-> FALSE, n |-> 1, retrans |-> FALSE,
           long |-> FALSE, givesP |-> FALSE, mbits |-> TRUE]
Error == Call("onError", FALSE, "none")

TypeOK ==
  /\ parallels \in Nat /\ isDown \in BOOLEAN /\ titleCnt \in Nat
  /\ pc \in [Execs -> ExecPC]
  /\ test \in [Execs -> TestTypes]
  /\ proc \in [Execs -> {"none", "connected", "running", "exiting", "exited"}]
  /\ end \in [Execs -> {"none", "success", "terminated", "failed", "badargs"}]
  /\ gathered \in [Execs -> 0..(MaxIntervals + 1)]
  /\ \A e \in Execs : Len(out[e]) <= PipeCap /\ Len(err[e]) <= PipeCap
  /\ mixed \subseteq Execs

Init ==
  /\ parallels = 0 /\ isDown = FALSE /\ titleCnt = 0
  /\ pc = [e \in Execs |-> "idle"]
  /\ test = [e \in Execs |-> NoTest]
  /\ proc = [e \in Execs |-> "none"] /\ end = [e \in Execs |-> "none"]
  /\ gathered = [e \in Execs |-> 0]
  /\ toOut = [e \in Execs |-> <<>>] /\ toErr = [e \in Execs |-> <<>>]
  /\ out = [e \in Execs |-> <<>>] /\ err = [e \in Execs |-> <<>>]
  /\ cmd = [e \in Execs |-> <<>>] /\ jni = [e \in Execs |-> <<>>]
  /\ mixed = {}

Active(e) == pc[e] \notin {"idle", "done"}
Least(a, b) == IF a < b THEN a ELSE b
At(e, where) == pc[e] = where
Goto(e, where) == pc' = [pc EXCEPT ![e] = where]

-----------------------------------------------------------------------------
(* The process *)

Idle(e) == toOut[e] = <<>> /\ toErr[e] = <<>>

\* The program prints lines (and makes calls through JNI) before it goes on.
Say(e, lines, calls) ==
  /\ toOut' = [toOut EXCEPT ![e] = @ \o lines]
  /\ jni' = [jni EXCEPT ![e] = @ \o calls]
Exit(e, how) ==
  /\ proc' = [proc EXCEPT ![e] = "exiting"] /\ end' = [end EXCEPT ![e] = how]

\* CREATE_STREAMS to TEST_RUNNING: the streams are there.
StartRunning(e) ==
  /\ proc[e] = "connected" /\ Idle(e)
  /\ proc' = [proc EXCEPT ![e] = "running"]
  /\ UNCHANGED <<fieldVars, pc, test, end, gathered, toOut, toErr, jni,
                 out, err, cmd, mixed>>

\* The statistics and the reporter timer.
PrintInterval(e) ==
  /\ proc[e] = "running" /\ Idle(e) /\ gathered[e] < MaxIntervals
  /\ gathered' = [gathered EXCEPT ![e] = @ + 1]
  /\ Say(e, RunningReport(test[e], gathered[e] + 1), IntervalCalls(test[e]))
  /\ UNCHANGED <<fieldVars, pc, test, proc, end, toErr, out, err, cmd, mixed>>

\* Mistake: the reporter goes on after the last interval.
SucceedGoesOn(e) ==
  /\ proc[e] = "running" /\ Idle(e)
  /\ gathered' = [gathered EXCEPT ![e] = @ + 1]
  /\ Say(e, FinalReport(test[e], gathered[e] + 1), FinalCalls(test[e], gathered[e] + 1))
  /\ end' = [end EXCEPT ![e] = "success"]
  /\ UNCHANGED <<fieldVars, pc, test, proc, toErr, out, err, cmd, mixed>>

\* The test ends: the last interval is gathered and the results are printed.
Succeed(e) ==
  /\ proc[e] = "running" /\ Idle(e)
  /\ gathered' = [gathered EXCEPT ![e] = @ + 1]
  /\ Say(e, FinalReport(test[e], gathered[e] + 1), FinalCalls(test[e], gathered[e] + 1))
  /\ Exit(e, "success")
  /\ UNCHANGED <<fieldVars, pc, test, toErr, out, err, cmd, mixed>>

\* SERVER_TERMINATE: the report without a new interval, then the error.
Terminated(e) ==
  /\ proc[e] \in {"connected", "running"} /\ Idle(e)
  /\ IF proc[e] = "connected"
       THEN Say(e, Append(NoStreamReport(test[e]), ErrorLine),
                   Append(NoStreamCalls(test[e]), Error))
       ELSE Say(e, Append(FinalReport(test[e], gathered[e]), ErrorLine),
                   Append(FinalCalls(test[e], gathered[e]), Error))
  /\ Exit(e, "terminated")
  /\ UNCHANGED <<fieldVars, pc, test, gathered, toErr, out, err, cmd, mixed>>

\* Any other error of iperf_run_client.
Fail(e) ==
  /\ proc[e] \in {"connected", "running"} /\ Idle(e)
  /\ Say(e, <<ErrorLine>>, <<Error>>)
  /\ Exit(e, "failed")
  /\ UNCHANGED <<fieldVars, pc, test, gathered, toErr, out, err, cmd, mixed>>

\* main, when the arguments are refused: a line that does not say "error",
\* and the usage on standard error.
BadArguments(e) ==
  /\ proc[e] = "connected" /\ Idle(e)
  /\ Say(e, <<Other>>, <<>>)
  /\ toErr' = [toErr EXCEPT ![e] = [i \in 1..UsageLines |-> Other]]
  /\ Exit(e, "badargs")
  /\ UNCHANGED <<fieldVars, pc, test, gathered, out, err, cmd, mixed>>

\* A write blocks while the pipe is full.
WriteOut(e) ==
  /\ toOut[e] # <<>> /\ Len(out[e]) < PipeCap
  /\ LET fits == Least(PipeCap - Len(out[e]), Len(toOut[e])) IN
       /\ out' = [out EXCEPT ![e] = @ \o SubSeq(toOut[e], 1, fits)]
       /\ toOut' = [toOut EXCEPT ![e] = SubSeq(@, fits + 1, Len(@))]
  /\ UNCHANGED <<fieldVars, pc, test, proc, end, gathered, toErr, jni, err, cmd, mixed>>

\* main prints its error message before the usage.
WriteErr(e) ==
  /\ toOut[e] = <<>> /\ toErr[e] # <<>> /\ Len(err[e]) < PipeCap
  /\ LET fits == Least(PipeCap - Len(err[e]), Len(toErr[e])) IN
       /\ err' = [err EXCEPT ![e] = @ \o SubSeq(toErr[e], 1, fits)]
       /\ toErr' = [toErr EXCEPT ![e] = SubSeq(@, fits + 1, Len(@))]
  /\ UNCHANGED <<fieldVars, pc, test, proc, end, gathered, toOut, jni, out, cmd, mixed>>
ProcessExits(e) ==
  /\ proc[e] = "exiting" /\ Idle(e)
  /\ proc' = [proc EXCEPT ![e] = "exited"]
  /\ UNCHANGED <<fieldVars, pc, test, end, gathered, toOut, toErr, jni,
                 out, err, cmd, mixed>>

ProcessStep(e) ==
  \/ StartRunning(e) \/ PrintInterval(e) \/ Succeed(e) \/ Terminated(e)
  \/ Fail(e) \/ BadArguments(e) \/ WriteOut(e) \/ WriteErr(e) \/ ProcessExits(e)

-----------------------------------------------------------------------------
(* The wrapper *)

\* An exec that is not alone, and those it joins, lose the order of their calls.
Count(calls, what) == Cardinality({i \in DOMAIN calls : calls[i].call = what})
OnlyErrors(calls) == [i \in 1..Count(calls, "onError") |-> Error]
Share(e) ==
  LET others == {f \in Execs : Active(f)}
      shared == IF others = {} THEN {} ELSE {e} \cup others
  IN /\ mixed' = mixed \cup shared
     /\ cmd' = [f \in Execs |-> IF f \in shared THEN OnlyErrors(cmd[f]) ELSE cmd[f]]

\* Mistake: the count of titles goes on from the test before.
StartKeepsTitles(e, t) ==
  /\ At(e, "idle")
  /\ isDown' = t.reverse
  /\ parallels' = IF t.givesP THEN t.n ELSE parallels
  /\ test' = [test EXCEPT ![e] = t]
  /\ proc' = [proc EXCEPT ![e] = "connected"]
  /\ Goto(e, "out")
  /\ Share(e)
  /\ UNCHANGED <<titleCnt, end, gathered, toOut, toErr, jni, out, err>>

\* exec: parseArgs and the new process.  parallels stays as it is without -P.
Start(e, t) ==
  /\ At(e, "idle")
  /\ isDown' = t.reverse /\ titleCnt' = 0
  /\ parallels' = IF t.givesP THEN t.n ELSE parallels
  /\ test' = [test EXCEPT ![e] = t]
  /\ proc' = [proc EXCEPT ![e] = "connected"]
  /\ Goto(e, "out")
  /\ Share(e)
  /\ UNCHANGED <<end, gathered, toOut, toErr, jni, out, err>>

\* isInterval and isResult, of a line after the given number of titles.
OfParallels(l) == parallels = 1 \/ (parallels > 1 /\ l.sum)
IsInterval(l, titles) == titles = 1 /\ OfParallels(l)

\* Mistake: the wrong end's line is taken.
IsTcpResultOfSender(l, titles) == titles > 1 /\ l.tail = "sender" /\ OfParallels(l)

IsTcpResult(l, titles) ==
  titles > 1 /\ l.tail = (IF isDown THEN "receiver" ELSE "sender") /\ OfParallels(l)
IsUdpResult(l, titles) == titles > 1 /\ l.tail = "loss" /\ OfParallels(l)
IsResult(l, titles) == IsTcpResult(l, titles) \/ IsUdpResult(l, titles)

\* unit_snprintf: whether the bandwidth of a line is in Mbits/sec.
InMbits(t) == IF t.mbits THEN {TRUE} ELSE BOOLEAN

\* REPORT_PATTERN has two digits for the seconds, and the unit Mbits/sec.
Matches(l, mbits) == l.kind = "report" /\ ~l.late /\ mbits

\* Mistake: a line is an error only while the title has not been printed twice.
ErrorUntilSummary(l, titles) == l.kind = "error" /\ titles <= 1
\* ERR_PATTERN.
IsError(l, titles) == l.kind = "error"

\* parseToCallback on the main thread, with the line just read.
ParseToCallback(e, l) == \E mbits \in InMbits(test[e]) :
  LET titles == IF l.kind = "title" THEN titleCnt + 1 ELSE titleCnt
      interval == Matches(l, mbits) /\ IsInterval(l, titles)
      result == Matches(l, mbits) /\ ~IsInterval(l, titles) /\ IsResult(l, titles)
  IN /\ titleCnt' = titles
     /\ cmd' = [cmd EXCEPT ![e] =
                  @ \o If(interval /\ e \notin mixed, <<Call("onInterval", l.sum, l.of)>>)
                    \o If(result /\ e \notin mixed, <<Call("onResult", l.sum, l.of)>>)
                    \o If(IsError(l, titles), <<Error>>)]
     /\ UNCHANGED <<parallels, isDown>>

\* readLine on standard output and then on standard error: a line, or null at
\* the end of the stream.  The main thread parses one line at a time, and the
\* thread that reads waits for it.
ReadOut(e) ==
  /\ At(e, "out") /\ out[e] # <<>>
  /\ out' = [out EXCEPT ![e] = Tail(@)]
  /\ ParseToCallback(e, Head(out[e]))
  /\ UNCHANGED <<pc, procVars, err, mixed>>

\* Mistake: standard error is read to its end first.
EndOfOutNever(e) ==
  /\ At(e, "out") /\ out[e] = <<>> /\ proc[e] = "exited" /\ err[e] = <<>>
  /\ Goto(e, "wait")
  /\ UNCHANGED <<fieldVars, procVars, out, err, cmd, mixed>>

EndOfOut(e) ==
  /\ At(e, "out") /\ out[e] = <<>> /\ proc[e] = "exited"
  /\ Goto(e, "err")
  /\ UNCHANGED <<fieldVars, procVars, out, err, cmd, mixed>>
ReadErr(e) ==
  /\ At(e, "err") /\ err[e] # <<>>
  /\ err' = [err EXCEPT ![e] = Tail(@)]
  /\ ParseToCallback(e, Head(err[e]))
  /\ UNCHANGED <<pc, procVars, out, mixed>>
EndOfErr(e) ==
  /\ At(e, "err") /\ err[e] = <<>> /\ proc[e] = "exited"
  /\ Goto(e, "wait")
  /\ UNCHANGED <<fieldVars, procVars, out, err, cmd, mixed>>

\* process.waitFor, and the readers are closed.
Finish(e) ==
  /\ At(e, "wait") /\ proc[e] = "exited"
  /\ Goto(e, "done")
  /\ UNCHANGED <<fieldVars, procVars, out, err, cmd, mixed>>

WrapperStep(e) ==
  ReadOut(e) \/ EndOfOut(e) \/ ReadErr(e) \/ EndOfErr(e) \/ Finish(e)

-----------------------------------------------------------------------------
Next ==
  \/ \E e \in Execs : ProcessStep(e) \/ WrapperStep(e) \/ \E t \in Tests[e] : Start(e, t)
  \/ (\A e \in Execs : At(e, "done")) /\ UNCHANGED vars

Spec == Init /\ [][Next]_vars

\* The process and the threads of the app go on; whether and when a test is
\* started is up to the user.
FairSpec ==
  Spec /\ \A e \in Execs : WF_vars(ProcessStep(e)) /\ WF_vars(WrapperStep(e))

-----------------------------------------------------------------------------
(* Properties *)

Done(e, how) == At(e, "done") /\ end[e] = how

\* A test the wrapper can read, with the object to itself: -P is given, no time
\* has three digits before the point, and every bandwidth is in Mbits/sec.
Plain(e) == e \notin mixed /\ test[e].givesP /\ ~test[e].long /\ test[e].mbits

\* A callback says what its line is: an interval is reported by onInterval and
\* the client's own bandwidth by onResult.  The cases in which it is not are
\* those of the code: a UDP reverse test reports what the sender has sent, and
\* a server that terminates the test in its first interval or before has the
\* header printed too often or too seldom for the count of titles.
ClassifiedRight ==
  \A e \in Execs : \A i \in DOMAIN cmd[e] :
    LET c == cmd[e][i] IN
      e \notin mixed /\ ~(end[e] = "terminated" /\ gathered[e] <= 1) =>
        /\ c.call = "onInterval" => c.of = "interval"
        /\ c.call = "onResult" =>
             c.of = Local(test[e]) \/ (test[e].udp /\ test[e].reverse /\ c.of = "sent")

\* A test that succeeds is reported by its intervals and then one result, if
\* it is Plain: of a long one, or with bandwidths in other units, the wrapper
\* misses lines and may never make the call of the result.
OneResult ==
  \A e \in Execs : Plain(e) /\ Done(e, "success") =>
    /\ Len(cmd[e]) = gathered[e] + 1
    /\ \A i \in 1..gathered[e] : cmd[e][i].call = "onInterval"
    /\ cmd[e][gathered[e] + 1].call = "onResult"

\* The app hears the same of a TCP test either way, but for one result more
\* through JNI, of what the other end has sent, in a reverse test with one
\* stream whose sender counts retransmits.  A test that is not Plain is another
\* matter: the library makes its calls in every unit.
Extra(e) == test[e].reverse /\ test[e].retrans /\ test[e].n = 1
SameEitherWay ==
  \A e \in Execs : Plain(e) /\ Done(e, "success") /\ ~test[e].udp =>
    LET last == Len(cmd[e]) IN
      IF Extra(e)
        THEN jni[e] = SubSeq(cmd[e], 1, last - 1)
                        \o <<Call("onResult", FALSE, "sent"), cmd[e][last]>>
        ELSE jni[e] = cmd[e]

\* Every failure of a running client is reported last, also while another exec
\* shares the object.
FailureReported ==
  \A e \in Execs : Done(e, "failed") \/ Done(e, "terminated") =>
    cmd[e] # <<>> /\ cmd[e][Len(cmd[e])] = Error /\ Count(cmd[e], "onError") = 1

\* exec returns, however little the pipes hold: standard error is only read
\* after the end of standard output.
ExecEnds == \A e \in Execs : Active(e) ~> At(e, "done")
=============================================================================
