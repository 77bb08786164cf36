--------------------------- MODULE IperfTestTimers ---------------------------
(***************************************************************************)
(* The timers of a test and what they drive: the procedures of             *)
(* iperf_client_api.c and iperf_server_api.c, the loop of tmr_run turn by  *)
(* turn, the interval list that iperf_stats_callback fills and             *)
(* iperf_reporter_callback prints, and the cleanup at the end.  A process  *)
(* runs one test after the other on the same heap.                         *)
(***************************************************************************)
EXTENDS IperfTimer, FiniteSets

CONSTANTS
  Roles,       \* the roles a process may have, "c" or "s"
  Interval,    \* stats_interval and reporter_interval, in ticks
  Durations,   \* what test->duration may be, in ticks; 0 for -n and -k
  Omits,       \* what test->omit may be, in ticks
  SendTimers,  \* the send timers of the streams, in their order
  SendTick,    \* their period
  Drift,       \* how far apart two gettimeofday calls of the start may be
  MaxLate,     \* how late the loop may look at a timer that is due
  MaxTests,    \* bound: tests in the life of the process
  Horizon      \* bound: the clock within one test

TestProcs == {"timer", "stats_timer", "reporter_timer", "omit_timer"}

ASSUME TestAssumption ==
  /\ Roles \subseteq {"c", "s"}
  /\ Interval \in Nat \ {0} /\ Durations \subseteq Nat /\ Omits \subseteq Nat
  /\ SendTick \in Nat \ {0} /\ Drift \in Nat /\ MaxLate \in Nat
  /\ MaxTests \in Nat /\ Horizon \in Nat
  /\ SendTimers \in Seq(Procs \ TestProcs) /\ NoneTwice(SendTimers)
  /\ Procs = TestProcs \cup ToSet(SendTimers)
  /\ IsFiniteSet(Cells)

VARIABLES
  role,      \* test->role, the same for every test of a process
  duration,  \* test->duration
  omit,      \* test->omit
  heap,      \* the timer lists of the process
  ptr,       \* test->timer, ->stats_timer, ..., sp->send_timer
  now,       \* the clock
  phase,     \* "idle", "running" or "ended" (TEST_END handled)
  done,      \* test->done
  omitting,  \* test->omitting
  cur,       \* the timer tmr_run is at, or NoTimer outside its loop
  runNow,    \* the time tmr_run works with
  ivals,     \* the interval list: when each interval starts and ends
  counting,  \* since when the bytes of the next interval are counted
  shown,     \* which intervals were printed, in order
  cut,       \* the test was ended by CLIENT_TERMINATE or SERVER_TERMINATE
  tests      \* how many tests were started

runVars  == <<cur, runNow>>
testVars == <<phase, done, omitting, cut, tests>>
statVars == <<ivals, counting, shown>>
optVars  == <<role, duration, omit>>
vars == <<optVars, heap, ptr, now, runVars, testVars, statVars>>

Phases == {"idle", "running", "ended"}

TypeOK ==
  /\ role \in Roles /\ duration \in Nat /\ omit \in Nat
  /\ heap \in Heap
  /\ ptr \in [Procs -> Cells \cup {NoTimer}]
  /\ now \in Nat /\ runNow \in Nat
  /\ phase \in Phases
  /\ done \in BOOLEAN /\ omitting \in BOOLEAN /\ cut \in BOOLEAN
  /\ cur \in Cells \cup {NoTimer}
  /\ ivals \in Seq([from : Nat, to : Nat, counted : Nat])
  /\ counting \in Nat
  /\ shown \in Seq(1..Len(ivals))
  /\ tests \in Nat

NoPtr == [p \in Procs |-> NoTimer]

Init ==
  /\ role \in Roles /\ duration = 0 /\ omit = 0
  /\ heap \in {[active |-> <<>>, free |-> <<>>, cell |-> c] :
                 c \in [Cells -> {[proc |-> "timer", time |-> 0, usecs |-> 0,
                                   periodic |-> FALSE]}]}
  /\ ptr = NoPtr
  /\ now = 0 /\ cur = NoTimer /\ runNow = 0
  /\ phase = "idle" /\ done = FALSE /\ omitting = FALSE /\ cut = FALSE
  /\ ivals = <<>> /\ counting = 0 /\ shown = <<>>
  /\ tests = 0

-----------------------------------------------------------------------------
(* Starting a test *)

\* The timers create_client_timers or create_server_timers, the omit timer
\* and iperf_create_send_timers make, in that order, with the clock readings
\* of the first and of the others.
Plan(d, o, t0, t1) ==
  (IF role = "c" /\ d # 0
     THEN <<[proc |-> "timer", at |-> t0, usecs |-> d + o, periodic |-> FALSE]>>
     ELSE <<>>)
  \o <<[proc |-> "stats_timer", at |-> t0, usecs |-> Interval, periodic |-> TRUE],
       [proc |-> "reporter_timer", at |-> t0, usecs |-> Interval, periodic |-> TRUE]>>
  \o (IF o # 0
        THEN <<[proc |-> "omit_timer", at |-> t1, usecs |-> o, periodic |-> FALSE]>>
        ELSE <<>>)
  \o [i \in 1..Len(SendTimers) |->
        [proc |-> SendTimers[i], at |-> t1, usecs |-> SendTick, periodic |-> TRUE]]

\* One tmr_create of the start, while malloc returns a cell another left
\* times; once it has failed nothing more is created.
Create(s, p) ==
  IF s.failed \/ (s.heap.free = <<>> /\ s.left = 0)
    THEN [s EXCEPT !.failed = TRUE]
    ELSE [heap   |-> tmr_create(s.heap, p.at, p.proc, p.usecs, p.periodic),
          ptr    |-> [s.ptr EXCEPT ![p.proc] = Fresh(s.heap)],
          left   |-> IF s.heap.free = <<>> THEN s.left - 1 ELSE s.left,
          failed |-> FALSE]

\* How many cells malloc has not returned yet.
Unused(h) == Cardinality(Cells) - Len(h.active) - Len(h.free)

\* The end of a test: cleanup_server and iperf_reset_test, or
\* iperf_free_test, cancel what the pointers hold.
CancelAll(h, p) ==
  FoldLeft(LAMBDA g, q : IF p[q] = NoTimer THEN g ELSE tmr_cancel(g, p[q]), h,
           IF role = "c"
             THEN SendTimers \o <<"omit_timer", "timer", "stats_timer", "reporter_timer">>
             ELSE <<"stats_timer", "reporter_timer", "omit_timer">> \o SendTimers)

\* Mistake: cleanup_server leaves the pointers it has cancelled through, and
\* iperf_reset_test cancels them again.
ReleaseTwice(h, p) ==
  /\ heap' = CancelAll(CancelAll(h, p), p) /\ ptr' = NoPtr
  /\ phase' = "idle" /\ done' = FALSE /\ omitting' = FALSE

Release(h, p) ==
  /\ heap' = CancelAll(h, p) /\ ptr' = NoPtr
  /\ phase' = "idle" /\ done' = FALSE /\ omitting' = FALSE

\* TEST_START, with the options of this test: its clock starts over, the heap
\* does not.
StartTest ==
  /\ phase = "idle" /\ tests < MaxTests
  /\ tests' = tests + 1
  /\ ivals' = <<>> /\ shown' = <<>> /\ counting' = 0 /\ cut' = FALSE
  /\ duration' \in Durations /\ omit' \in Omits
  /\ \E t1 \in 0..Drift, left \in 0..Unused(heap) :
       LET s == FoldLeft(Create, [heap |-> heap, ptr |-> NoPtr, left |-> left,
                                  failed |-> FALSE],
                         Plan(duration', omit', 0, t1))
       IN /\ now' = t1
          /\ IF s.failed THEN Release(s.heap, s.ptr)
             ELSE /\ heap' = s.heap /\ ptr' = s.ptr
                  /\ phase' = "running" /\ done' = FALSE
                  /\ omitting' = (omit' # 0)
  /\ UNCHANGED <<role, runVars>>

-----------------------------------------------------------------------------
(* The loop *)

\* The loop of iperf_run_client has to end the test before it does more.
MustEnd == role = "c" /\ phase = "running" /\ ~omitting /\ duration # 0 /\ done

\* iperf_stats_callback: the interval starts where the last one ended, or at
\* the start time of the stream, which the end of the omit period moves.
Gather ==
  /\ ivals' = Append(ivals, [from |-> IF ivals = <<>> THEN counting
                                      ELSE ivals[Len(ivals)].to,
                             to |-> now, counted |-> counting])
  /\ counting' = now

\* Time passes while the loop sleeps or moves data: select comes back when
\* the first timer is due, and the loop is then at most MaxLate ticks late.
Tick ==
  /\ phase # "idle" /\ cur = NoTimer /\ ~MustEnd
  /\ now < Horizon
  /\ heap.active = <<>> \/ phase = "ended"
       \/ tmr_timeout(heap, now) > 0
       \/ now < heap.cell[Head(heap.active)].time + MaxLate
  /\ now' = now + 1
  /\ UNCHANGED <<optVars, heap, ptr, runVars, testVars, statVars>>

\* The loop calls tmr_run: the client while the test runs, the server in any
\* phase once the timeout is 0.
RunTimers ==
  /\ phase = "running" \/ (phase = "ended" /\ role = "s")
  /\ cur = NoTimer /\ ~MustEnd
  /\ heap.active # <<>> /\ tmr_timeout(heap, now) = 0
  /\ cur' = Head(heap.active) /\ runNow' = now
  /\ UNCHANGED <<optVars, heap, ptr, now, testVars, statVars>>

\* The procedures: what each does besides the reschedule, and to the heap.
TestProc ==
  /\ ptr' = [ptr EXCEPT !["timer"] = NoTimer] /\ done' = TRUE
  /\ UNCHANGED <<omitting, statVars>>
StatsProc ==
  /\ IF done THEN UNCHANGED statVars ELSE Gather /\ UNCHANGED shown
  /\ UNCHANGED <<ptr, done, omitting>>
ReporterProc ==
  /\ shown' = IF done THEN shown ELSE Append(shown, Len(ivals))
  /\ UNCHANGED <<ptr, done, omitting, ivals, counting>>
\* Mistakes: the pointer to the timer that is about to be freed stays; the
\* test goes on omitting.
OmitKeepsPointer ==
  /\ omitting' = FALSE /\ counting' = now
  /\ UNCHANGED <<ptr, done, ivals, shown>>
OmitKeepsOmitting ==
  /\ ptr' = [ptr EXCEPT !["omit_timer"] = NoTimer] /\ counting' = now
  /\ UNCHANGED <<omitting, done, ivals, shown>>
OmitProc ==
  /\ ptr' = [ptr EXCEPT !["omit_timer"] = NoTimer] /\ omitting' = FALSE
  /\ counting' = now
  /\ UNCHANGED <<done, ivals, shown>>
SendProc == UNCHANGED <<ptr, done, omitting, statVars>>

\* Mistake: the reporter is started again before the statistics.
ResetReporterFirst(h) ==
  LET reset(g, p) == IF ptr[p] = NoTimer THEN g ELSE tmr_reset(g, runNow, ptr[p])
  IN reset(reset(h, "reporter_timer"), "stats_timer")

\* The end of the omit period starts the two periods again.
ResetBoth(h) ==
  LET reset(g, p) == IF ptr[p] = NoTimer THEN g ELSE tmr_reset(g, runNow, ptr[p])
  IN reset(reset(h, "stats_timer"), "reporter_timer")

\* What the procedure of a timer does.
Proc(p) ==
  \/ p = "timer" /\ TestProc
  \/ p = "stats_timer" /\ StatsProc
  \/ p = "reporter_timer" /\ ReporterProc
  \/ p = "omit_timer" /\ OmitProc
  \/ p \in ToSet(SendTimers) /\ SendProc

\* Mistake: the next timer is read after the procedure, when this one may be
\* on the free list.
FireThenNext ==
  /\ cur # NoTimer
  /\ IF heap.cell[cur].time > runNow
       THEN cur' = NoTimer /\ UNCHANGED <<heap, ptr, done, omitting, statVars>>
       ELSE LET p == heap.cell[cur].proc IN
            /\ heap' = AfterProc(IF p = "omit_timer" THEN ResetBoth(heap) ELSE heap, cur)
            /\ cur' = Link(heap', cur)
            /\ Proc(p)
  /\ UNCHANGED <<optVars, now, runNow, phase, cut, tests>>

\* One turn of tmr_run.  The next timer is read before the procedure runs.
Fire ==
  /\ cur # NoTimer
  /\ IF heap.cell[cur].time > runNow
       THEN cur' = NoTimer /\ UNCHANGED <<heap, ptr, done, omitting, statVars>>
       ELSE LET p == heap.cell[cur].proc IN
            /\ cur' = Link(heap, cur)
            /\ heap' = AfterProc(IF p = "omit_timer" THEN ResetBoth(heap) ELSE heap, cur)
            /\ Proc(p)
  /\ UNCHANGED <<optVars, now, runNow, phase, cut, tests>>

-----------------------------------------------------------------------------
(* Ending a test *)

\* iperf_run_client: the time or, with -n and -k, the amount is used up.
EndClient ==
  /\ role = "c" /\ phase = "running" /\ cur = NoTimer
  /\ ~omitting /\ (duration = 0 \/ done)
  /\ phase' = "ended" /\ done' = TRUE
  /\ Gather
  /\ UNCHANGED <<optVars, heap, ptr, now, runVars, omitting, cut, tests, shown>>

\* DISPLAY_RESULTS on the client: the last interval is printed, then the
\* test is freed.
DisplayClient ==
  /\ role = "c" /\ phase = "ended"
  /\ shown' = Append(shown, Len(ivals))
  /\ Release(heap, ptr)
  /\ UNCHANGED <<optVars, now, runVars, cut, tests, ivals, counting>>

\* TEST_END on the server, whenever it comes: the last interval is gathered
\* and printed at once.
EndServer ==
  /\ role = "s" /\ phase = "running" /\ cur = NoTimer
  /\ phase' = "ended" /\ done' = TRUE
  /\ Gather
  /\ shown' = Append(shown, Len(ivals) + 1)
  /\ UNCHANGED <<optVars, heap, ptr, now, runVars, omitting, cut, tests>>
FinishServer ==
  /\ role = "s" /\ phase = "ended" /\ cur = NoTimer
  /\ Release(heap, ptr)
  /\ UNCHANGED <<optVars, now, runVars, cut, tests, statVars>>

\* SERVER_TERMINATE on the client, CLIENT_TERMINATE on the server: the last
\* interval there is is printed again, without gathering.  After an error or
\* the end of the connection nothing is printed.
Terminate ==
  /\ phase # "idle" /\ cur = NoTimer /\ ~MustEnd
  /\ shown' \in {shown} \cup
       (IF ivals = <<>> THEN {} ELSE {Append(shown, Len(ivals))})
  /\ cut' = TRUE
  /\ Release(heap, ptr)
  /\ UNCHANGED <<optVars, now, runVars, tests, ivals, counting>>

Next ==
  \/ StartTest \/ Tick \/ RunTimers \/ Fire
  \/ EndClient \/ DisplayClient \/ EndServer \/ FinishServer \/ Terminate

Spec == Init /\ [][Next]_vars

\* The clock runs, the loop comes round, and the answer of the server, which
\* lets DisplayClient happen, arrives.
FairSpec ==
  Spec /\ WF_vars(Tick) /\ WF_vars(RunTimers) /\ WF_vars(Fire)
       /\ WF_vars(EndClient /\ duration # 0) /\ WF_vars(DisplayClient)

-----------------------------------------------------------------------------
(* Safety *)

\* The pointers of the test and the active list agree, in every step of the
\* loop: a pointer that is not NULL is to an active timer of that kind, and
\* an active timer nobody points to is the one whose procedure just ran.
\* Cancelling through a pointer is then never a second cancel.
PointersLive ==
  /\ \A p \in Procs : ptr[p] # NoTimer =>
       ptr[p] \in Elems(heap.active) /\ heap.cell[ptr[p]].proc = p
  /\ \A t \in Elems(heap.active) : ptr[heap.cell[t].proc] = t

\* The timer lists stay well formed.
ListsWellFormed == WellFormed(heap)

\* The saved next pointer of tmr_run is to an active timer: no procedure
\* frees the timer that the loop goes on with.
LoopOnActive == cur # NoTimer => cur \in Elems(heap.active)

\* The reporter prints every interval once, in order, however late the loop
\* is and whatever the omit period does to the timers.
EachIntervalShownOnce ==
  /\ Len(ivals) - Len(shown) \in {0, 1} \/ cut
  /\ ~cut => \A i \in 1..Len(shown) : shown[i] = i

\* A timed test of whole intervals reports no empty interval on the client:
\* its timer was created first, so it fires before the stats timer that is due
\* at the same time, also when the omit period has started that timer again.
NoEmptyInterval ==
  role = "c" /\ duration # 0 /\ duration % Interval = 0 =>
    \A i \in 1..Len(ivals) : ivals[i].from < ivals[i].to

\* The bytes of an interval are those of the time it says it covers
\* (bytes_transferred: "bytes transfered in this interval").
IntervalCountsItsTime ==
  \A i \in 1..Len(ivals) : ivals[i].from = ivals[i].counted

\* A timed test of the client ends, whatever omitting and lateness do.
TestEnds ==
  (phase = "running" /\ role = "c" /\ duration # 0) ~> (phase = "idle")
=============================================================================
