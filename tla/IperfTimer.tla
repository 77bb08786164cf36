----------------------------- MODULE IperfTimer -----------------------------
(***************************************************************************)
(* The timer list of timer.c, as operators on a heap.  A struct timeval is *)
(* a number of ticks; the doubly linked list of active timers is the       *)
(* sequence of its cells, and the free list is another.  A Timer struct is *)
(* a cell: tmr_create takes it from the free list before it asks malloc,   *)
(* so one cell stands for several timers in the life of the process.       *)
(***************************************************************************)
EXTENDS Integers, SequencesExt

CONSTANTS
  Cells,   \* the Timer structs that malloc can return
  Procs,   \* the timer procedures
  NoTimer  \* the null pointer

ASSUME TimerAssumption == NoTimer \notin Cells

Timer == [proc : Procs, time : Int, usecs : Int, periodic : BOOLEAN]
Heap == [active : Seq(Cells),         \* timers
         free   : Seq(Cells),         \* free_timers
         cell   : [Cells -> Timer]]   \* what the structs hold

Elems(s) == {s[i] : i \in 1..Len(s)}

-----------------------------------------------------------------------------
(* The active list *)

\* Mistake: a timer goes before those that are due at the same time.
PlaceFirst(list, cell, time) ==
  CHOOSE i \in 1..(Len(list) + 1) :
    /\ i = Len(list) + 1 \/ time <= cell[list[i]].time
    /\ \A j \in 1..(i - 1) : cell[list[j]].time < time

\* Where list_add puts a timer that is due at time: before the first timer
\* that is due later, and so after every timer due at the same time.
Place(list, cell, time) ==
  CHOOSE i \in 1..(Len(list) + 1) :
    /\ i = Len(list) + 1 \/ time < cell[list[i]].time
    /\ \A j \in 1..(i - 1) : cell[list[j]].time <= time

Insert(list, i, t) ==
  [j \in 1..(Len(list) + 1) |->
     IF j < i THEN list[j] ELSE IF j = i THEN t ELSE list[j - 1]]

list_add(list, cell, t) == Insert(list, Place(list, cell, cell[t].time), t)

list_remove(list, t) == RemoveFirst(list, t)

list_resort(list, cell, t) == list_add(list_remove(list, t), cell, t)

\* The link t->next, which the active list and the free list share.
Link(h, t) ==
  LET in(s)   == \E i \in 1..Len(s) : s[i] = t
      after(s) == LET i == CHOOSE j \in 1..Len(s) : s[j] = t
                  IN IF i < Len(s) THEN s[i + 1] ELSE NoTimer
  IN IF in(h.active) THEN after(h.active)
     ELSE IF in(h.free) THEN after(h.free) ELSE NoTimer

-----------------------------------------------------------------------------
(* The operations *)

\* The cell tmr_create uses, or NoTimer when malloc fails.
Fresh(h) ==
  IF h.free # <<>> THEN Head(h.free)
  ELSE LET unused == Cells \ Elems(h.active)
       IN IF unused = {} THEN NoTimer ELSE CHOOSE t \in unused : TRUE

tmr_create(h, now, proc, usecs, periodic) ==
  LET t == Fresh(h)
      c == [h.cell EXCEPT ![t] = [proc |-> proc, time |-> now + usecs,
                                  usecs |-> usecs, periodic |-> periodic]]
  IN [active |-> list_add(h.active, c, t),
      free   |-> IF h.free = <<>> THEN <<>> ELSE Tail(h.free),
      cell   |-> c]

tmr_cancel(h, t) ==
  [h EXCEPT !.active = list_remove(@, t), !.free = <<t>> \o @]

\* Due at time from now on; the body of tmr_reset and of the reschedule in
\* tmr_run.
Reschedule(h, t, time) ==
  LET c == [h.cell EXCEPT ![t].time = time]
  IN [h EXCEPT !.cell = c, !.active = list_resort(@, c, t)]

tmr_reset(h, now, t) == Reschedule(h, t, now + h.cell[t].usecs)

\* How long select may sleep; only asked when a timer is active.
tmr_timeout(h, now) ==
  LET wait == h.cell[Head(h.active)].time - now
  IN IF wait <= 0 THEN 0 ELSE wait

\* One turn of the loop of tmr_run after the procedure of t has run: a
\* periodic timer goes on from the time it was due, another is cancelled.
AfterProc(h, t) ==
  IF h.cell[t].periodic
    THEN Reschedule(h, t, h.cell[t].time + h.cell[t].usecs)
    ELSE tmr_cancel(h, t)

\* The list is sorted, holds no timer twice and none that is free.
Sorted(h) ==
  \A i, j \in 1..Len(h.active) :
    i < j => h.cell[h.active[i]].time <= h.cell[h.active[j]].time
NoneTwice(s) == \A i, j \in 1..Len(s) : s[i] = s[j] => i = j
WellFormed(h) ==
  /\ Sorted(h)
  /\ NoneTwice(h.active) /\ NoneTwice(h.free)
  /\ Elems(h.active) \cap Elems(h.free) = {}
=============================================================================
