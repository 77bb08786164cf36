# A TLA+ verification project for iPerfDemo-runtime

The repository is an Android demo that runs iperf 3.1.3 in two ways: as an
executable started by a Kotlin wrapper, and as a library called through JNI.
The program's own logic is the iperf code under
`src/app/src/main/jni/iperf-3.1.3/src/` (called `I/` below); the app and the
JNI glue around it start a test and pass on what it reports.

Every module here is a translation of that code. `PROJECT.json` says, for each
definition that models code, which lines it stands for ("map"), lists the
hazards of the code at their lines, the runs, and the theorems.

## 1. Inventory

### Components, their state and operations

| Component | Where | State | Operations |
|---|---|---|---|
| Control protocol, server | `I/iperf_server_api.c`, `I/main.c` | `test->state`, `ctrl_sck`, `cookie`, `listener`, `prot_listener`, `streams`, `streams_accepted` | `iperf_run_server`, `iperf_accept`, `iperf_handle_message_server`, `cleanup_server`, `iperf_reset_test` |
| Control protocol, client | `I/iperf_client_api.c` | `test->state`, `ctrl_sck`, `streams`, `done` | `iperf_run_client`, `iperf_connect`, `iperf_create_streams`, `iperf_handle_message_client`, `iperf_client_end` |
| Transport | `I/iperf_tcp.c`, `I/iperf_udp.c`, `I/net.c` | sockets | accept, listen, connect, `Nread`, `Nwrite` |
| Timer list | `I/timer.c` | active list, free list, cells | `tmr_create`, `tmr_cancel`, `tmr_reset`, `tmr_timeout`, `tmr_run` |
| Test timers and statistics | `I/iperf_api.c` and both loops | five kinds of timers, `done`, `omitting`, the interval list | the timer procedures, `iperf_stats_callback`, `iperf_reporter_callback`, `iperf_reset_stats` |
| UDP accounting | `I/iperf_udp.c`, `I/iperf_api.c` | `packet_count`, `cnt_error`, `outoforder_packets`, their `omitted_` copies, byte counters | `iperf_udp_send`, `iperf_udp_recv`, `send_results`, `get_results` |
| UDP connect handshake | `I/iperf_udp.c` | `prot_listener`, the socket of the next stream | `iperf_udp_accept`, `iperf_udp_connect` |
| Options | `I/iperf_api.c` | the parameters in `struct iperf_test` | `iperf_parse_arguments`, `send_parameters`, `get_parameters`, `iperf_reset_test` |
| Pacing | `I/iperf_api.c` | `green_light`, `multisend`, `bytes_sent`, `blocks_sent` | `iperf_send`, `iperf_check_throttle` |
| Reports | `I/iperf_api.c`, `I/units.c` | none of their own | `iperf_print_intermediate`, `iperf_print_results`, `unit_snprintf` |
| JNI glue | `jni/iperf3_jni_api.c`, `jni/iperf3_java_callback.c` | jump buffer, `invoke_flag`, callback object | `exec`, `simpleTest`, `on_interval`, `on_result`, `on_error` |
| Command wrapper | `java/com/iperf3/cmd/Iperf3Cmd.kt` | `parallels`, `isDown`, `titleCnt` | `prepare`, `exec`, `parseToCallback` |
| App screens | `java/com/shenyong/iperf/runtime/` | view models | start a test, show what is posted |

### How they interact

- Client and server exchange one-byte states over a TCP control connection,
  and JSON documents in the middle of two of them (parameters, results).  Each
  data stream is a connection of its own to the same port, told from other
  connections by a cookie.
- Both ends are single-threaded loops around `select`.  What blocks them is a
  blocking read inside a handler, and there the program counter is a state of
  the model.
- The loops call `tmr_run`; the procedures of the timers change the statistics
  and other timers.
- The data path (TCP or UDP) moves counters that the statistics and the final
  exchange read.

### What is hard

Two clients that connect at any moment; connections of a session that is over;
end of file, resets, signals and crashes in every phase; blocking reads on both
sides at the same time; sessions one after the other on one struct; timers that
cancel and move timers while the list is walked; cells that are used again;
two timers due at once; omit periods that end at different times on the two
ends; lost, duplicated and reordered datagrams; counters that wrap.  The list
"hazards" in `PROJECT.json` has each at its line.

## 2. Modules

| Module | What it is |
|---|---|
| `IperfControl` | The control protocol of a TCP test: one server, a set of clients, the connections between them |
| `TestSession` | What that protocol promises, without messages or sockets; `IperfControl` implements it |
| `IperfUdpConnect` | The handshake that opens the streams of a UDP test: one server, a set of clients, datagrams |
| `IperfOptions` | The options of a test as operators: arguments, Java fields, parameters sent, reset; no variables |
| `IperfTransfer` | A server process and clients one after the other, and the data they move; extends `IperfOptions` |
| `IperfReport` | Which lines are printed and which callbacks made, as operators; no variables |
| `Iperf3Cmd` | The wrapper around the executable, beside the same tests run through JNI; extends `IperfReport` |
| `IperfTimer` | `timer.c` as operators on a heap of cells; no variables |
| `IperfTestTimers` | The timers of a test, `tmr_run` turn by turn, the interval list, start and end of tests; extends `IperfTimer` |
| `IperfUdp` | The counters of a UDP stream on both ends and the network between them |
| `MC...` | What the runs check |
| `IperfControlProofs` | Proofs about `IperfControl`: types, streams of the own client |
| `IperfSessionProofs` | More of them: one client at a time, no start before every stream; extends `IperfControlProofs` |
| `TestSessionProofs` | The proof that `IperfControl` implements `TestSession`, and who ends a session; extends `IperfSessionProofs` |
| `IperfUdpProofs` | Proofs about `IperfUdp` |
| `IperfUdpConnectProofs` | Proofs about `IperfUdpConnect` |
| `IperfTransferProofs` | Proofs about `IperfTransfer` and the operators of `IperfOptions` |
| `IperfTestTimersProofs` | Proofs about `IperfTestTimers` and the list operations of `IperfTimer` |
| `Iperf3CmdProofs` | Proofs about `Iperf3Cmd` and the operators of `IperfReport` |

A definition whose comment begins with "Mistake" is not part of a
specification.  It is the definition below it with a plausible bug, and shows
for one property that such a bug would violate it ("mutants" in
`PROJECT.json`).

### IperfControl

State: `spc`, where the server is blocked, and the fields of its struct
(`sstate`, `ctrl`, `cookie`, `accepted`, `streams`, `reverse`); `acc`, the
socket a handler is reading a cookie from; `cpc`, `cstate`, `next`, `reading`
for each client; for each connection what each end has done to it (`cEnd`,
`sEnd`) and a FIFO in each direction (`up`, `down`); and `backlog`, what the
listener holds.  A connection is `<<c, i>>`, with i = 0 for the control
connection.

Actions: one for each part of a handler between two points where the process
may block.  `iperf_accept` is `AcceptClient` (the call of `accept`),
`ReadCookie` and `ReadParams`, since it blocks in a read before each of the
last two; it is `AcceptBusy` when there is a client.  `iperf_tcp_accept` is
`AcceptStream` and `ReadStreamCookie`.  `HandleTestEnd`, `ReadResults` and
`SendDisplay` are the case TEST_END of `iperf_handle_message_server`.  An error
path is a disjunct of the action it belongs to: `WriteFails` and `ReadFails` end
the session as `cleanup_server` and `iperf_reset_test` do.

`Faults` says what may go wrong: "listen" (no listener), "sigpipe" (nothing in
the code ignores SIGPIPE, so a failing write may kill the server), "reset" (a
peer that resets instead of closing), "signal" and "crash" of a client,
"serverSignal" and "serverCrash".  After an orderly close the first write to a
connection succeeds and its bytes are lost; a later one may fail.

Abstractions: a JSON document is the message "json", well formed unless the
connection ends within it; a data block is two messages "half", so that a
blocking read can be stuck in the middle of a block; the number of streams and
the options that reopen the listener (`Relisten`) are the same for every
client; a client runs one test.  Data a non-reverse client sends is not kept,
because the server's non-blocking reads never depend on it.

### TestSession and the refinement

`TestSession` has one client served at a time, the phases each client was told
of, the last it has entered, and its outcome; a phase is told only to the
client that is served and only after the one before, a client enters only what
it was told, and it succeeds with the last phase.  `IperfControl` implements it
(`ImplementsSession`): the client that is served is the one behind `ctrl_sck`
(nobody, if what sits there is a data connection that came after its session
had ended), a client was told what it has entered and what waits in the FIFO of
its control connection, the phase it is in is that of its `cstate`, its outcome
that of its program counter.  The mapping is checked by a run and proved
(`TestSessionProofs`).  So a message to the wrong connection, a phase left
out, or a session that goes on after another was begun would break it.

### IperfUdpConnect

State: where the server is between the calls of `iperf_udp_accept` (`spc`),
`prot_listener`, the streams on its list, what each socket is connected to and
holds; for each client the stream it opens and what its `recv` finds; the
datagrams under way.  The control connection is only what the two ends know of
each other through it (`IperfControl` has the rest).

`AcceptHello`, `NewListener` and `ReplyAndAdd` are the parts of
`iperf_udp_accept` and of the server loop behind it, between which the network may
deliver something; a datagram goes to the socket that is connected to its sender,
else to the one bound last (several are bound to the port, with SO_REUSEADDR),
else it comes back as an error.  `RecvFails` is the timeout of 30 seconds: it comes
when the answer is lost, and when it is late only as a fault ("slow").

Every call may fail.  `Admit` and `NewListener` have `netannounce` ("listen");
the others are the fault "stream": `AcceptFails` is `recvfrom` or `connect`;
`ReplyFails` the write of the reply or `iperf_new_stream` after it, when the new
listener is there already; `StartFails` what comes after the last stream, with the
listener closed (TEST_START, the timers, TEST_RUNNING); `StreamFails` is `netdial`,
the write of the hello or `iperf_new_stream` on the client, which also sees the
server give up (`LoseControl`).  An abort forgets the sockets and leaves them open,
and no hello says whose it is, so sockets and datagrams of earlier sessions are
there for later ones to meet: `midway` counts the aborts that left a listener
beside the socket it replaced.

A client has ports of its own or those of an earlier client (`base`), as `-B` with
`--cport` or chance may give them.  What is assumed: ports come again only when
the clients that had them are gone and none of their datagrams is under way.  A
socket left connected to such a port takes the client's hello, and the client
fails without a fault of its own; `FailsForAReason` names that.

### IperfOptions and IperfTransfer

A test is a record with its role, protocol and direction and a function `set`
from the names of the options in the JSON document to their values.
`iperf_parse_arguments` folds `ParseOption` over the arguments, in their order,
and then does the checks and the defaults that come after `getopt_long`;
`send_parameters` leaves out what is 0 and `get_parameters` changes only what
it is given, as in the code.  Options about output are left out.

`IperfTransfer` has the struct of the server process, and clients that come after
each other (`StartClient`, `ExchangeParameters`, `CleanUp`).  `Turn` is a turn of
the loop of either end: data is moved (`iperf_send` or `iperf_recv`), timers that
are due are run, and the client looks whether the test is done. `iperf_send` is
the set of all outcomes of a call, stream by stream and pass by pass: a TCP stream
may have room for less than a block, a UDP stream may find no buffer, and whether
a stream is below its rate is a choice where `iperf_check_throttle` compares.
`Ready` is what `select` finds: for the end that sends, the streams in
`write_set`, which follow `green_light`; a turn needs one of them, a timer, or
another client that knocks at the listener.  The client then calls `iperf_send` in
any turn, the server only if `select` found a socket.  Affinity that the client of
another build asks for, at which this server ends the session, is not among the
requests.

### IperfReport and Iperf3Cmd

A line is what tells it from others: a title, a report (of a stream or of the
sum, and how it ends), an error or another; `IperfReport` gives the lines and
the callbacks of an interval and of the summary.  `Iperf3Cmd` runs each test
both ways at once: `cmd` has the callbacks the wrapper makes of the lines, `jni`
those the library makes itself.  The process writes through two pipes that hold
`PipeCap` lines; the wrapper's actions are `exec` between two reads.  The fields
`parallels`, `isDown` and `titleCnt` belong to the object, and a second `exec`
may start at any moment; of calls that overlap only `onError` is kept in `cmd`,
because nothing is promised of the others and the run would keep every order.
`REPORT_PATTERN` asks for Mbits/sec; with `-f m` every line has it (`mbits`), and
without, in the default format, the unit follows the number, so a line may match or
not (`InMbits`).  The library calls back whatever the unit.

### IperfTimer and IperfTestTimers

A timeval is a number of ticks.  A heap is the sequence of active cells, the
sequence of free cells and the contents of the cells; the `next` links are those
of the sequences (`Link`), which is what `tmr_run` saves before it calls a
procedure.  `tmr_create` takes a cell from the free list first, and `malloc`
may fail at any creation.

`StartTest` creates the timers in the order the code does, with two readings
of the clock that may differ.  `Tick` lets time pass while the loop sleeps; the
loop is at most `MaxLate` ticks late for a timer.  `Fire` is one turn of the
loop of `tmr_run` with the procedure it calls; the procedures are operators of
their own.  `EndClient`, `DisplayClient`, `EndServer`, `FinishServer` and
`Terminate` are the ways a test ends.  An interval is its bounds (`from`, `to`)
and since when its bytes are counted (`counted`); `shown` lists the intervals
printed.

### IperfUdp

The sender's and the receiver's stream with their counters, the datagrams under
way, and the last interval.  One datagram stands for its bytes.  `ToInt` is what
an `int` keeps and `ToU64` the conversion to `uint64_t`, for a word of any width
(`IntMax`); `packet_count + 1` at the limit of an `int` is undefined in C, so
`After` is both values a build can produce.  `OmitTimer` may happen at any moment
on each side.  The server prints at TEST_END from its own counters, before the
exchange and never after it (`ServerEnds`); `Exchange` is `send_results` and
`get_results` on both sides; then the client prints (`ClientPrints`). `printed`
has both reports.  So a server that receives prints 0 bytes sent, and a server
that sends the losses it knows of, which are none.  `sent`, `got` and `reads` are
history variables for the properties.

## 3. Runs

| Run | Question | Instance |
|---|---|---|
| `control_safety` | Can sessions mix, or the phases of the two ends contradict each other? | 2 clients, 2 streams, one client reverse and through JNI, listener reopened, every fault |
| `control_live` | Does every run end, does the admitted client succeed, does the server become free? | the same with signals and crashes of clients, orderly closes, no SIGPIPE |
| `control_leak` | Are the stream sockets closed between sessions? No. | 2 clients, crashes |
| `control_deny` | Can a connection that is denied end a session? Yes. | 2 clients, crashes and resets |
| `timers` | Is a timer ever used after it was freed, is every interval printed once, do tests end? | 5 cells, interval 4, duration 0 or 4, omit 0 or 4, one send timer, 2 tests |
| `timers_omit` | Does an interval count its own time? No. | the same |
| `udp` | Do the counters account for what was read and lost? | 4 datagrams, ints from -4 to 3, all faults |
| `udp_report` | Are the sender's printed losses in range? No. | 4 datagrams, loss |
| `udp_overflow` | Do 64-bit counters make a long test countable? No. | ints from -4 to 3, 6 datagrams, no fault |
| `udp_connect` | Are UDP streams matched, does anything a session leaves harm the next, does the server become free? | 2 clients, 2 streams, 4 faults of 6 kinds, ports that come again |
| `cmd` | Does the app hear of every test what it should, and the same both ways; does `exec` return? | 2 calls, 8 kinds of tests (one without -f m) and one without -P, pipes of one line |
| `transfer` | Does the server run its client's test, does one end send, are limits kept, do tests end? | 21 requests, 2 clients after each other, 3 passes |

What the properties say is written above each in the modules.  In short:
`OwnStreams`, `OneTest`, `StartedIsComplete` and `ClientFollows` keep sessions
apart and in step; `OnlyOwnClientEndsSession` says who may end one; `TestsEnd`,
`AdmittedSucceeds` and `ServerComesBack` exclude mutual waiting; `PointersLive`,
`ListsWellFormed` and `LoopOnActive` are the memory safety of the timers;
`EachIntervalShownOnce` and `NoEmptyInterval` rest on the order of equal timers;
`Balanced`, `AccountedFor`, `IntervalAccountedFor`, `LossInRange` and `LossCovers`
relate the counters to what the network did, and `ReportsAgree` the report the
server prints before the exchange to the one the client prints after it.
`RunningMatched` and `FailsForAReason` say that only the reply on each socket
makes a handshake without cookies right, and `LeakPerAbort` what it leaves open:
the sockets of the streams, or with the new listener one more.
`ServerRunsClientsTest` is what the exchange of parameters is for, on a struct
that earlier clients have used; `OneEndSends`, `LimitKept` and `TestEnds` are
about the direction and the end of a test under every order of options.
`ClassifiedRight`, `OneResult`, `SameEitherWay` and `FailureReported` compare what
the app hears with what happened, and `ExecEnds` is about the pipes. Where the
code has exceptions the properties name them (section 4).

### Bounds

- Control: two clients are needed for everything about a second client, two
  streams for a session that is between two streams.  `DataCap` = 2 half blocks
  lets a blocking read find less than a block, a block and a full socket.  A
  client runs once; the second client meets a server that has served the first,
  so resets between sessions are covered.
- Timers: an interval of 4 ticks, a drift of 1 and lateness of 1 let timers be
  due together, late together, and in both orders; twice the lateness and the
  drift stay below an interval (a loop later than that is a hazard of its own).
  Two tests make cells be used again, `Horizon` bounds the clock within a test
  beyond every duration and omit period, and is why this run does not check
  deadlock: the system stops when the tests are used up.
- UDP: with ints from -4 to 3 and four datagrams the counters wrap within the
  run; `MaxLate` bounds datagrams counted as late.  The theorems hold for any
  width and number of datagrams.  The runs stop when the test is over, so they do
  not check deadlock.

- UDP connect: two clients and two streams let a hello of a session that is over
  meet each point of the next handshake, and the second client have the ports of
  the first; `MaxFaults` = 4 lets both clients fail in the handshake with two
  faults to spare.  A datagram is duplicated once.
- Transfer: `Multisend` = 3 (10 in the code) has a first, a middle and a last
  pass; blocks of 2 units and connections with `Room` for 3 give writes of a
  whole block, of part of one and of nothing; limits of 2 to 9 lie on and
  between blocks, and `MaxCount` = 8 blocks is beyond what a call sends past
  any of them, so the cap of the counters hides nothing.  `MaxSessions` = 2, since
  what a client finds depends on the reset after the one before it.
- Commands: `MaxIntervals` = 1 before the last has the first interval, a later one
  and none; pipes of one line block as early as can be.  The usage fits into the
  pipe of stderr (`CmdAssumption`): a few kilobytes against 64.  Two calls, one of
  them without -P, in every order.

### Fairness

- `IperfControl!FairSpec`: weak fairness of the server's and of each client's
  reactions.  The loops return to `select`, which wakes them for a readable
  socket, and they look at the listener and the control socket in every turn;
  a blocking read returns when there is something to read or the end of file.
  Data that goes on flowing (`SendData`, `ReceiveData`) and signals, crashes
  and resets are not fair.  `control_live` has no "sigpipe": nothing ignores
  SIGPIPE, so a write to a connection that is gone may kill the server for good,
  and its liveness properties hold only without that.
- `IperfUdpConnect!FairSpec`: the server's loop, each client, and the delivery of
  each datagram; losses, duplicates, timeouts that come too early and crashes are
  not fair.  A client's timeout is: it is what the code relies on.
- `IperfTransfer!FairSpec`: a turn of either loop that moves data, whenever
  `select` could return for a socket or a timer (`Moves`), and one in which every
  timer is due (`TimersRun`); a buffer that is full does not stay full for ever.
  That a client leaves early (`CleanUp`), that clients start and that one knocks
  are not fair.
- `Iperf3Cmd!FairSpec`: the process and the reader thread go on while they are
  not blocked on a pipe; when tests are started is up to the user.
- `IperfTestTimers!FairSpec`: the clock, the loop and `tmr_run` go on, the client
  ends a timed test that is due, and the server's answer lets it display.  The
  end of a test by amount (-n, -k) and termination are not fair.

## 4. Disagreements between code and words

1. `control_leak`: `cleanup_server` says it closes open test sockets and closes
   only the control socket and the listener.
2. `control_deny`: denying a connection is said not to be an error; if the peer
   has reset it, it ends the session that was running.
3. `timers_omit`: the end of the omit period clears the bytes of the running
   interval and not its start.
4. `udp_report`: the sender's losses after the exchange are the receiver's
   totals less the sender's own omit counters, which can be negative or more
   than 100%; the release notes say this was fixed.
5. `udp_overflow`: `--udp-counters-64bit` widens the number on the wire; both
   ends still count in an `int`.

6. `cmd` (`SameEitherWay`): through JNI a reverse TCP test with retransmits and
   one stream calls `onResult` twice, first with the server's bandwidth, against
   the comment above the call.
7. `cmd` (`OneResult`): the pattern for report lines has two digits for seconds,
   so tests of 100 seconds or more have no result; and it has the unit Mbits/sec,
   while the default format picks the unit by the number, so a test in Kbits or
   Gbits has none either, which the library reports.  The app passes `-f m`.
8. `transfer` (`TestEnds`): `green_light` is said to be checked by the sender and,
   in a build without SO_MAX_PACING_RATE, is not.  And a rate of 0, said to disable
   the limit, stops a test with a burst: the sockets leave `write_set` after the
   first call and no send timer puts them back, so a server (`-R -b 0/2 -n`) never
   sends again, and neither does a client without interval reports (`-i 0`).
9. `transfer` (`OneEndSends`): `-R` given twice makes both ends senders.
10. `transfer` (`TestEnds`): `-P` below 1 is accepted; below 0 both ends wait for
    ever, with 0 and a limit the test never ends.
11. `transfer` (`ServerRunsClientsTest`): limits, TOS, flow label, title,
    congestion control and pacing of one client are left for the next.
12. `udp_connect` (`FailsForAReason`, `LeakPerAbort`): an aborted UDP session leaves
    its stream sockets, and the new listener if that was made; one of them takes
    the hello of a later client that has the same ports.

Items 6 to 12 are exceptions that a passing property names (`Extra`, `Plain`,
`Stalls`, `Reversals`, `WillEnd`, `Sticky`, `trouble`, `midway`): without the
exception TLC finds the behaviour described.  The wrapper also reports the
sender's bandwidth of a UDP reverse test where JNI reports none, miscounts titles
when the server terminates a test before its second interval, and hears nothing of
arguments that are refused, whose line does not say "iperf3: error".

## 5. Proofs

All theorems are proved from the named assumptions on the constants
(`ControlAssumption`, `UdpAssumption`, `UdpConnectAssumption`,
`OptionsAssumption`, `TransferAssumption`, `TimerAssumption`, `TestAssumption`,
`CmdAssumption`) only, for every value of the constants: any number of clients,
streams, datagrams, requests, passes, timers, tests, executions and intervals,
any width, any size of a pipe, any set of faults.

`IperfControlProofs`: `TypeCorrect` (`TypeOK`) and `StreamsAreOwn`
(`OwnStreams`).  `OwnStreams` is not inductive: a stream is accepted when its
cookie equals `test->cookie`, and nothing in that handler looks at `ctrl_sck`.
The invariant `Inv` adds that the cookie, if there is one, is that of the
client behind `ctrl` (`OwnCookie`); that without a control connection the
server is between two sessions (`NoSession`), so that no stream survives one;
and what the server knows where it is blocked (`Blocked`): no cookie and no
stream before the cookie is read, a state CREATE_STREAMS while a stream's cookie
is read, fewer streams than wanted while streams are created.  The last part is
also what bounds `accepted` in `TypeOK`.  There is one lemma per action; the ways
a session ends have lemmas of their own (`EndSessionInv`, `ServerExitInv`,
`WriteFailsInv`) that the actions cite.

`IperfSessionProofs`: `OneClientAtATime` (`OneTest`) and `StartIsComplete`
(`StartedIsComplete`).  Both say what a client may conclude from where it is,
and what it knows it knows from messages; so `SessionInv` follows a connection
from the listener to its close and a message from its sending to its reading.
`Ends`: what waits at the listener waits once, a client connects in turn, and
its data connections only after its control connection was accepted.  `Roles`:
the control connection, the connection whose cookie is being read and the
streams are different connections, all of them accepted.  `Counted`:
`streams_accepted` is the number of streams, and all of them once the test
starts; a counter that also counted what `iperf_tcp_accept` denies would break
it.  `Mail`: who was sent something is behind `ctrl` or was closed, and who was
sent a start, whether or not it was read, has all its streams accepted.  That
`NumStreams` streams of one client are all of its streams is a fact about
cardinalities (`AllStreams`).

`TestSessionProofs`: `Implements` (`ImplementsSession`), `ClientInStep`
(`ClientFollows`) and `OwnClientEnds` (`OnlyOwnClientEndsSession`).  `FlowInv` is
what the mapping of `TestSession` needs: on a control connection the phases wait
in their order (`Ascending`) and none is left out (`Gapless`), so the next word a
client takes announces the next phase (`TakeHead`); a client that is served and
has not closed was told of exactly the phases the server has entered (`Level`);
TEST_END is sent once and is read while the server's state is TEST_RUNNING
(`EndSent`), so the answer to it is the next phase; and a blocked handler is in
the phase it has announced (`Position`). Two lemmas describe the steps of the
server, one that announces a phase (`SpeakStep`: Tell, or a stutter if the client
is gone) and one that announces nothing (`QuietStep`: Close or a stutter), and
three those of a client (`StayStep`, `TakeStep`, `OutcomeStep`); each action has a
lemma that cites one of them, and `AcceptClient` alone is Admit.

`OwnClientEnds` assumes that `Faults` has no "reset", after which a first write
to any connection may fail, and that it has not "listen" together with
`Relisten`, when the server gives up on its client.  That a session then ends
only with a client that has closed or is done is not a fact about the step that
ends it: `AnswerInv` says that a client that has not closed sends one answer at
a time and the server does not go on without it (`Awaited`), so the last word of
such a client is IPERF_DONE; that a client keeps its data connections as long as
its control connection, until it is done (`Shut`), so a stream that fails is the
client's doing; and that a data connection that is taken for a control
connection carries nothing but a cookie (`Cookies`), so it gets no further than
`get_parameters` (`Standing`).

`IperfUdpProofs`: `TypeCorrect`, `CountersBalance`, `BytesAccountedFor`,
`IntervalsAccountedFor`, `ReceiverLossInRange`, `LossesCovered`, `EndsAgree`. Type
correctness needs that numbers under way are those the sender gave (`NetSound`)
and what the phases exclude (`ClosedAfter`).  `Balanced` is a congruence, so it
holds through overflow; the lemma about `ToInt` says it keeps a number modulo the
word.  The properties that hold up to `NoOverflow` use `ReportInv`: the counters
only grow and the omit and interval copies lie between zero and them.
`LossCovers` needs a relation between the set of datagrams read and the highest
number (`LossInv`).  `EndsAgree` is about two reports printed at different times:
`ExchangeInv` says what each end knows before and after the results were
exchanged, and `PrintedInv` that the server's report still is what its counters
say, but for what the exchange overwrote, and the client's what they say after it.

`IperfUdpConnectProofs`: `ConnectTypeCorrect` (`TypeOK`), `ConnectRunningMatched`
(`RunningMatched`), `ConnectFailsForAReason` (`FailsForAReason`) and
`ConnectLeakPerAbort` (`LeakPerAbort`).  None is inductive, because a hello does
not say whose it is.  The invariant is in parts: the sockets are made once and the
listener is always the one made last (`ServerShape`); a client is admitted once,
which bounds the sockets and the aborts (`Counted`); the clients that are not gone
have addresses that no other such client has (`Alone`); what the network, the
queue of the listener and the session hold of a client's addresses it has sent
(`KnownWasSent`), also when sockets of an earlier client with these addresses are
there; a client is at most one stream ahead of the server, and when a stray or
doubled hello has taken a place it stays behind for good (`InReach`), so it is
never told to run; and a client nothing has happened to is the one that is served,
no other socket is connected to an address of it (`SessionCalm`), and its hello or
the reply to it is under way (`NoTrouble`), so a failure has a cause.
`OpenCounted` follows the sockets that are open: those left by aborted sessions,
`midway` of which left one more, and those of the session, its listener and the
socket taken from it.

`IperfTransferProofs`: `TransferTypeCorrect` (`TypeOK`),
`TransferServerRunsClientsTest` (`ServerRunsClientsTest`),
`TransferOneEndSends` (`OneEndSends`) and `TransferLimitKept` (`LimitKept`).
An idle server is a receiver with the defaults and whatever options are left of
the client before (`Between`); a client's options are what parsing gives, by
induction over the arguments (`ClientParsed`); the lemma `Told` says what a
struct is after `get_parameters` reads what `send_parameters` wrote, and with it
the two ends agree (`ServerTurned`, `ServerRunsClientsTest`).  `LimitKept` needs
that a client goes on only below its limit, unless it omits (`NotYet`), and
what one call of `iperf_send` adds: a pass adds one block, and the last pass at
most one for each stream.

`IperfTestTimersProofs`: `TimersTypeCorrect` (`TypeOK`), `TimersPointersLive`
(`PointersLive`), `TimersListsWellFormed` (`ListsWellFormed`),
`TimersLoopOnActive` (`LoopOnActive`), `TimersEachIntervalShownOnce`
(`EachIntervalShownOnce`) and `TimersNoEmptyInterval` (`NoEmptyInterval`).  The
invariant says that the pointers of the tests and the active timers are in
bijection, each of its kind (`HeapInv`); that the pointer `tmr_run` has saved is
one that the next turn finds active (`LoopOnActive`); that the statistics timer
and the reporter are due together and stand one behind the other, except between
their two turns (`Together`); and that the intervals gathered are those printed,
and one more between those turns (`Counts`).  It rests on the order of equal
timers, so on what `list_remove` and `list_add` keep of it, for every list.  There
is a lemma for each kind of timer a turn of `tmr_run` may fire and one for each
other action; the creation of the timers and the loops of cancellation are
followed timer by timer.

`TimersNoEmptyInterval` has a hypothesis of its own, `Drift + 2 * MaxLate <
Interval`: the loop is late by less than half of what the interval is longer than
the drift between the clock readings of the start.  With the default interval of a
second that is almost half a second.  The bound is exact: for a test of two
intervals with `Drift` 1 and `MaxLate` 2 TLC finds an empty interval when
`Interval` is 5, and none when it is 6.  The invariant `PaceInv` adds the times to
the order: no timer waits for longer than `MaxLate` (`InTime`); the timer of the
test is before the statistics timer when it is not due later, and no turn of the
loop has gone past it (`EndFirst`); after the omit period the intervals end where
whole intervals from its end do, and that end is at most `Drift + MaxLate` late
(`OnGrid`), so a statistics timer that is due before the end of the test is due
almost an interval before it; and the last interval ends before the next one and
before the test do (`Ahead`).

`Iperf3CmdProofs`: `CmdTypeCorrect` (`TypeOK`), `CmdFailureReported`
(`FailureReported`), `CmdClassifiedRight` (`ClassifiedRight`), `CmdOneResult`
(`OneResult`) and `CmdSameEitherWay` (`SameEitherWay`).  The wrapper looks at one
line at a time and at what it remembers of those before, a count of titles; the
properties are about calls that were made when most of the report had not been
read.  So the invariant `CmdInv` relates the two halves of a report: the calls
made and the lines that wait in the process and in its pipe (`ToCome`).  An error
is the last line to come or the last call made (`ErrorLast`); the titles seen and
those to come are one for each report, and the line behind them is of the report
their number says (`Titled`), except when a test is terminated before its second
interval; the intervals and results found so far and those to come are those
gathered (`Counted`); the calls through JNI are those of the intervals gathered
(`Told`).  The fields of the object are those of the exec that has it for itself
(`Owns`), which is why the properties leave out execs that overlapped (`mixed`).
What a report of any number of streams consists of is in lemmas about the
operators of `IperfReport`: how many titles, lines of intervals and lines of
results `Reading` will find in it (`Shape`), not which lines.  Each action is
brought down to what it does to one exec while the others stay (`Frame`) or lose
the order of their calls (`Shared`).

Inductions over numbers and finite sets in these proofs use sets in place of
predicates (`NatSetInduction`), once for each function that is defined by
recursion.

Every invariant that a run checks is stated by a theorem.  Only model-checked: the
liveness properties (`TestsEnd`, `AdmittedSucceeds`, both `ServerComesBack`, both
`TestEnds`, and `ExecEnds`), which are out of the prover's reach.

## 6. Not modelled

The text that is printed, JSON's syntax, jitter, CPU and TCP_INFO readings,
options about output and files, `-F`, `--get-server-output`, SCTP (not compiled
in), the drawing of the app, third-party code, build files and examples.
Clients that stay connected and silent are not among the faults: the server
then waits in a read without timeout, by design of the code.  Two calls into
the library at the same time share timers, `i_errno` and the jump buffer; what
happens then is a data race on pointers, of which no set of outcomes can be
given.  Of `unit_snprintf` only that it chooses a unit is modelled, not which unit
it chooses for which number.

## 7. Plan

1. A run of the timers whose loop is later than half an interval, for the empty
   interval at `I/iperf_api.c:2164`.
2. `unit_snprintf`'s choice of unit as a pure function.
