----------------------- MODULE IperfTestTimersProofs -----------------------
(***************************************************************************)
(* Proofs about IperfTestTimers, and about the list operations of          *)
(* IperfTimer it is built from: that no timer is used after it is freed,   *)
(* that the lists of timer.c stay well formed in every turn of tmr_run,    *)
(* that every interval is gathered and printed once, and that none is      *)
(* empty while the loop is not too late.                                   *)
(***************************************************************************)
EXTENDS IperfTestTimers, WellFoundedInduction, FiniteSetTheorems, SequenceTheorems, TLAPS

-----------------------------------------------------------------------------
(* Induction, with a set in the place of a predicate *)

LEMMA LessThanWellFounded ==
  IsWellFoundedOn({ss \in Nat \X Nat : ss[1] < ss[2]}, Nat)
BY NatLessThanWellFounded, Zenon DEF OpToRel

LEMMA NatSetInduction ==
  ASSUME NEW S, 0 \in S, \A n \in Nat : n \in S => n + 1 \in S
  PROVE  Nat \subseteq S
<1>1. SUFFICES ASSUME Nat \ S # {} PROVE FALSE
  OBVIOUS
<1> DEFINE R == {ss \in Nat \X Nat : ss[1] < ss[2]}
<1>2. IsWellFoundedOn(R, Nat)
  BY LessThanWellFounded
<1> HIDE DEF R
<1>3. PICK x \in Nat \ S : \A y \in Nat \ S : ~(<<y, x>> \in R)
  BY <1>1, <1>2, WFMin
<1>4. x # 0 /\ x - 1 \in Nat /\ x - 1 < x
  BY <1>3
<1>5. x - 1 \in S
  BY <1>3, <1>4 DEF R
<1> QED BY <1>4, <1>5

\* The maximum by which FoldLeft goes through a sequence.
LEMMA MaxOfRange ==
  \A n \in Nat : \A s \in SUBSET (1..n) :
    s # {} => Max(s) \in s /\ \A y \in s : y <= Max(s)
<1> DEFINE S == {k \in Nat : \A t \in SUBSET (1..k) :
                    t # {} => \E x \in t : \A y \in t : x >= y}
<1>1. 0 \in S
  <2>1. 1..0 = {}
    OBVIOUS
  <2> QED BY <2>1
<1>2. \A k \in Nat : k \in S => k + 1 \in S
  <2> SUFFICES ASSUME NEW k \in Nat, k \in S, NEW t \in SUBSET (1..(k + 1)), t # {}
               PROVE  \E x \in t : \A y \in t : x >= y
    OBVIOUS
  <2>1. CASE k + 1 \in t
    BY <2>1
  <2>2. CASE k + 1 \notin t
    <3>1. t \in SUBSET (1..k)
      BY <2>2
    <3> QED BY <3>1
  <2> QED BY <2>1, <2>2
<1>3. Nat \subseteq S
  <2> HIDE DEF S
  <2> QED BY <1>1, <1>2, NatSetInduction
<1> SUFFICES ASSUME NEW n \in Nat, NEW s \in SUBSET (1..n), s # {}
             PROVE  Max(s) \in s /\ \A y \in s : y <= Max(s)
  OBVIOUS
<1>4. n \in S
  BY <1>3
<1>5. \E x \in s : \A y \in s : x >= y
  BY <1>4
<1>6. Max(s) \in s /\ \A y \in s : Max(s) >= y
  BY <1>5 DEF Max
<1> DEFINE m == Max(s)
<1>7. m \in s /\ \A y \in s : m >= y
  BY <1>6
<1> HIDE DEF m, S
<1>8. \A y \in s : y <= m
  BY <1>7
<1> QED BY <1>7, <1>8 DEF m

\* The step of a fold from the first i elements to the first i - 1.
LEMMA LastOfRange ==
  ASSUME NEW n \in Nat, NEW i \in 1..n
  PROVE  /\ 1..i \in SUBSET (1..n) /\ 1..i # {}
         /\ Max(1..i) = i /\ (1..i) \ {i} = 1..(i - 1)
<1>1. 1..i \in SUBSET (1..n) /\ 1..i # {}
  OBVIOUS
<1>2. Max(1..i) \in 1..i /\ \A y \in 1..i : y <= Max(1..i)
  BY <1>1, MaxOfRange
<1>3. Max(1..i) = i
  BY <1>2
<1> QED BY <1>1, <1>3

LEMMA WithoutLast ==
  ASSUME NEW k \in Nat, NEW s \in SUBSET (1..(k + 1)), s # {}
  PROVE  s \ {Max(s)} \in SUBSET (1..k)
<1>1. k + 1 \in Nat
  OBVIOUS
<1>2. Max(s) \in s /\ \A y \in s : y <= Max(s)
  BY <1>1, MaxOfRange
<1> DEFINE m == Max(s)
<1>3. m \in s /\ \A y \in s : y <= m
  BY <1>2
<1> HIDE DEF m
<1>4. \A y \in s : y # m => y \in 1..k
  BY <1>3
<1>5. s \ {m} \in SUBSET (1..k)
  BY <1>4
<1> QED BY <1>5 DEF m

-----------------------------------------------------------------------------
(* The active list *)

\* r is list without its element i, or with t before it.
Taken(list, i, r) ==
  /\ r \in Seq(Cells) /\ Len(r) = Len(list) - 1
  /\ \A j \in 1..Len(r) : r[j] = IF j < i THEN list[j] ELSE list[j + 1]
Put(list, i, t, r) ==
  /\ r \in Seq(Cells) /\ Len(r) = Len(list) + 1
  /\ \A j \in 1..Len(r) : r[j] = IF j < i THEN list[j] ELSE IF j = i THEN t ELSE list[j - 1]

InOrder(list, cell) ==
  \A i, j \in 1..Len(list) : i < j => cell[list[i]].time <= cell[list[j]].time

\* s comes right before r.
Adjacent(list, s, r) == \E i \in 1..(Len(list) - 1) : list[i] = s /\ list[i + 1] = r
\* s is the last of the timers that are due when it is.
LastDue(list, cell, s) ==
  \E i \in 1..Len(list) :
    /\ list[i] = s
    /\ \A j \in 1..Len(list) : i < j => cell[s].time < cell[list[j]].time

LEMMA RemoveIs ==
  ASSUME NEW list \in Seq(Cells), NoneTwice(list), NEW i \in 1..Len(list)
  PROVE  Taken(list, i, list_remove(list, list[i]))
<1> DEFINE t == list[i]
           I == {j \in 1..Len(list) : list[j] = t}
<1>1. Len(list) \in Nat /\ i \in Nat
  BY LenProperties
<1>2. I = {i}
  BY DEF NoneTwice
<1>3. Min(I) = i
  BY <1>1, <1>2 DEF Min
<1>4. SelectInSeq(list, LAMBDA v : v = t) = i
  BY <1>2, <1>3 DEF SelectInSeq
<1>5. list_remove(list, t) = SubSeq(list, 1, i - 1) \o SubSeq(list, i + 1, Len(list))
  BY <1>4 DEF list_remove, RemoveFirst, RemoveAt
<1> DEFINE a == SubSeq(list, 1, i - 1)
           b == SubSeq(list, i + 1, Len(list))
           n == Len(list)
<1>6. a \in Seq(Cells) /\ Len(a) = i - 1 /\ \A j \in 1..(i - 1) : a[j] = list[j]
  <2>1. \A j \in 1..(i - 1) : list[j] \in Cells
    BY <1>1, ElementOfSeq
  <2>2. 1 \in Int /\ i - 1 \in Int
    BY <1>1
  <2>3. /\ a \in Seq(Cells) /\ Len(a) = IF 1 <= i - 1 THEN i - 1 - 1 + 1 ELSE 0
        /\ \A j \in 1..(i - 1 - 1 + 1) : a[j] = list[1 + j - 1]
    BY <2>1, <2>2, SubSeqProperties
  <2> HIDE DEF a
  <2> QED BY <1>1, <2>3
<1>7. b \in Seq(Cells) /\ Len(b) = n - i /\ \A j \in 1..(n - i) : b[j] = list[i + j]
  <2>1. \A j \in (i + 1)..n : list[j] \in Cells
    BY <1>1, ElementOfSeq
  <2>2. i + 1 \in Int /\ n \in Int
    BY <1>1
  <2>3. /\ b \in Seq(Cells) /\ Len(b) = IF i + 1 <= n THEN n - (i + 1) + 1 ELSE 0
        /\ \A j \in 1..(n - (i + 1) + 1) : b[j] = list[(i + 1) + j - 1]
    BY <2>1, <2>2, SubSeqProperties
  <2> HIDE DEF b
  <2>4. n \in Nat /\ i <= n
    BY <1>1
  <2> HIDE DEF n
  <2>5. Len(b) = n - i
    BY <1>1, <2>3, <2>4
  <2>6. ASSUME NEW j \in 1..(n - i) PROVE b[j] = list[i + j]
    <3>1. j \in 1..(n - (i + 1) + 1) /\ (i + 1) + j - 1 = i + j
      BY <1>1, <2>4
    <3> QED BY <2>3, <3>1
  <2> QED BY <2>3, <2>5, <2>6
<1> DEFINE r == list_remove(list, t)
<1> HIDE DEF a, b, I
<1>8. r = a \o b
  BY <1>5 DEF a, b
<1> HIDE DEF r, t
<1>9. /\ r \in Seq(Cells) /\ Len(r) = Len(a) + Len(b)
      /\ \A j \in 1..(Len(a) + Len(b)) : r[j] = IF j <= Len(a) THEN a[j] ELSE b[j - Len(a)]
  BY <1>6, <1>7, <1>8, ConcatProperties
<1>10. Len(r) = n - 1
  BY <1>1, <1>6, <1>7, <1>9
<1>11. ASSUME NEW j \in 1..Len(r) PROVE r[j] = IF j < i THEN list[j] ELSE list[j + 1]
  <2>1. r[j] = IF j <= i - 1 THEN a[j] ELSE b[j - (i - 1)]
    BY <1>6, <1>7, <1>9
  <2>2. CASE j < i
    BY <1>1, <1>6, <2>1, <2>2
  <2>3. CASE ~(j < i)
    <3>1. j - (i - 1) \in 1..(n - i) /\ i + (j - (i - 1)) = j + 1
      BY <1>1, <1>10, <2>3
    <3>2. b[j - (i - 1)] = list[i + (j - (i - 1))]
      BY <1>7, <3>1
    <3> QED BY <1>1, <2>1, <2>3, <3>1, <3>2
  <2> QED BY <2>2, <2>3
<1> QED BY <1>9, <1>10, <1>11 DEF Taken, r, t

LEMMA InsertIs ==
  ASSUME NEW list \in Seq(Cells), NEW i \in 1..(Len(list) + 1), NEW t \in Cells
  PROVE  Put(list, i, t, Insert(list, i, t))
<1> DEFINE n == Len(list) + 1
           r == Insert(list, i, t)
<1>1. Len(list) \in Nat /\ n \in Nat /\ \A j \in 1..Len(list) : list[j] \in Cells
  BY LenProperties, ElementOfSeq
<1>2. r = [j \in 1..n |-> IF j < i THEN list[j] ELSE IF j = i THEN t ELSE list[j - 1]]
  BY DEF Insert
<1>3. \A j \in 1..n : r[j] = IF j < i THEN list[j] ELSE IF j = i THEN t ELSE list[j - 1]
  BY <1>2
<1>4. \A j \in 1..n : r[j] \in Cells
  BY <1>1, <1>3
<1> HIDE DEF n
<1>5. r \in [1..n -> Cells]
  BY <1>2, <1>4
<1>6. r \in Seq(Cells) /\ Len(r) = n
  BY <1>1, <1>5
<1> QED BY <1>3, <1>6 DEF Put, n

\* Before the first timer that is due later.
LEMMA PlaceIs ==
  ASSUME NEW list \in Seq(Cells), NEW cell \in [Cells -> Timer], NEW time \in Int
  PROVE  LET i == Place(list, cell, time) IN
           /\ i \in 1..(Len(list) + 1)
           /\ i = Len(list) + 1 \/ time < cell[list[i]].time
           /\ \A j \in 1..(i - 1) : cell[list[j]].time <= time
<1> DEFINE n == Len(list)
           Later(i) == i = n + 1 \/ time < cell[list[i]].time
           Good(i) == Later(i) /\ \A j \in 1..(i - 1) : cell[list[j]].time <= time
           W == {k \in Nat : (\A i \in 1..k : i <= n + 1 => ~Later(i))
                              \/ (\E i \in 1..(n + 1) : Good(i))}
<1>1. n \in Nat /\ \A j \in 1..n : cell[list[j]].time \in Int
  <2>1. n \in Nat /\ \A j \in 1..n : list[j] \in Cells
    BY LenProperties, ElementOfSeq
  <2> QED BY <2>1 DEF Timer
<1>2. 0 \in W
  OBVIOUS
<1>3. ASSUME NEW k \in Nat, k \in W PROVE k + 1 \in W
  <2> SUFFICES ASSUME ~\E i \in 1..(n + 1) : Good(i), NEW i \in 1..(k + 1), i <= n + 1
               PROVE  ~Later(i)
    OBVIOUS
  <2>1. \A j \in 1..k : j <= n + 1 => ~Later(j)
    BY <1>3
  <2>2. CASE i <= k
    BY <2>1, <2>2
  <2>3. CASE i = k + 1
    <3>1. ASSUME NEW j \in 1..(i - 1) PROVE cell[list[j]].time <= time
      <4>1. j \in 1..k /\ j \in 1..n
        BY <1>1, <2>3
      <4>2. ~(time < cell[list[j]].time)
        BY <2>1, <4>1
      <4> QED BY <1>1, <4>1, <4>2
    <3>2. i \in 1..(n + 1)
      BY <1>1
    <3> QED BY <3>1, <3>2
  <2> QED BY <2>2, <2>3
<1>4. n + 1 \in W
  <2> HIDE DEF W
  <2>1. n + 1 \in Nat
    BY <1>1
  <2> QED BY <1>2, <1>3, <2>1, NatSetInduction
<1>5. \E i \in 1..(n + 1) : Good(i)
  <2>1. n + 1 \in 1..(n + 1) /\ Later(n + 1)
    BY <1>1
  <2> QED BY <1>4, <2>1
<1>6. Place(list, cell, time) = CHOOSE i \in 1..(n + 1) : Good(i)
  BY DEF Place
<1> DEFINE i == Place(list, cell, time)
<1>7. i \in 1..(n + 1) /\ Good(i)
  BY <1>5, <1>6
<1> QED BY <1>7

\* What taking a timer out of the list leaves as it is.
LEMMA TakenFacts ==
  ASSUME NEW list \in Seq(Cells), NoneTwice(list), NEW i \in 1..Len(list), NEW t, list[i] = t,
         NEW r, Taken(list, i, r), NEW cell
  PROVE  /\ Elems(r) = Elems(list) \ {t} /\ NoneTwice(r)
         /\ InOrder(list, cell) => InOrder(r, cell)
         /\ \A a, b \in Elems(list) :
              Adjacent(list, a, b) /\ a # t /\ b # t => Adjacent(r, a, b)
         /\ \A a \in Elems(list) :
              LastDue(list, cell, a) /\ a # t => LastDue(r, cell, a)
<1> DEFINE n == Len(list)
<1>1. /\ n \in Nat /\ i \in 1..n /\ r \in Seq(Cells) /\ Len(r) = n - 1
      /\ \A j \in 1..(n - 1) : r[j] = IF j < i THEN list[j] ELSE list[j + 1]
      /\ \A j, k \in 1..n : list[j] = list[k] => j = k
  BY LenProperties DEF Taken, NoneTwice
<1> HIDE DEF n
<1>2. Elems(list) = {list[j] : j \in 1..n} /\ Elems(r) = {r[j] : j \in 1..(n - 1)}
  BY <1>1 DEF Elems, n
<1>3. ASSUME NEW j \in 1..n, j # i
      PROVE  \E k \in 1..(n - 1) : r[k] = list[j] /\ (k = IF j < i THEN j ELSE j - 1)
  <2>1. CASE j < i
    <3>1. j \in 1..(n - 1) /\ r[j] = list[j]
      BY <1>1, <2>1
    <3> QED BY <2>1, <3>1
  <2>2. CASE ~(j < i)
    <3>1. j - 1 \in 1..(n - 1) /\ ~(j - 1 < i) /\ j - 1 + 1 = j
      BY <1>1, <1>3, <2>2
    <3>2. r[j - 1] = list[j]
      BY <1>1, <3>1
    <3> QED BY <2>2, <3>1, <3>2
  <2> QED BY <2>1, <2>2
<1>4. ASSUME NEW k \in 1..(n - 1)
      PROVE  \E j \in 1..n : j # i /\ r[k] = list[j] /\ (j = IF k < i THEN k ELSE k + 1)
  <2>1. CASE k < i
    BY <1>1, <2>1
  <2>2. CASE ~(k < i)
    <3>1. k + 1 \in 1..n /\ k + 1 # i
      BY <1>1, <2>2
    <3> QED BY <1>1, <2>2, <3>1
  <2> QED BY <2>1, <2>2
<1>5. Elems(r) = Elems(list) \ {t}
  <2>1. ASSUME NEW x \in Elems(r) PROVE x \in Elems(list) /\ x # t
    <3>1. PICK k \in 1..(n - 1) : x = r[k]
      BY <1>2
    <3>2. PICK j \in 1..n : j # i /\ r[k] = list[j]
      BY <1>4
    <3> QED BY <1>1, <1>2, <3>1, <3>2
  <2>2. ASSUME NEW x \in Elems(list), x # t PROVE x \in Elems(r)
    <3>1. PICK j \in 1..n : x = list[j]
      BY <1>2
    <3>2. j # i
      BY <2>2, <3>1
    <3>3. PICK k \in 1..(n - 1) : r[k] = list[j]
      BY <1>3, <3>2
    <3> QED BY <1>2, <3>1, <3>3
  <2> QED BY <2>1, <2>2
<1>6. NoneTwice(r)
  <2> SUFFICES ASSUME NEW k \in 1..(n - 1), NEW m \in 1..(n - 1), r[k] = r[m] PROVE k = m
    BY <1>1 DEF NoneTwice
  <2>1. PICK j \in 1..n : r[k] = list[j] /\ (j = IF k < i THEN k ELSE k + 1)
    BY <1>4
  <2>2. PICK l \in 1..n : r[m] = list[l] /\ (l = IF m < i THEN m ELSE m + 1)
    BY <1>4
  <2>3. j = l
    BY <1>1, <2>1, <2>2
  <2> QED BY <1>1, <2>1, <2>2, <2>3
<1>7. ASSUME InOrder(list, cell) PROVE InOrder(r, cell)
  <2> SUFFICES ASSUME NEW k \in 1..(n - 1), NEW m \in 1..(n - 1), k < m
               PROVE  cell[r[k]].time <= cell[r[m]].time
    BY <1>1 DEF InOrder
  <2>1. PICK j \in 1..n : r[k] = list[j] /\ (j = IF k < i THEN k ELSE k + 1)
    BY <1>4
  <2>2. PICK l \in 1..n : r[m] = list[l] /\ (l = IF m < i THEN m ELSE m + 1)
    BY <1>4
  <2>3. j < l
    BY <1>1, <2>1, <2>2
  <2>4. cell[list[j]].time <= cell[list[l]].time
    BY <1>7, <2>3 DEF InOrder, n
  <2> QED BY <2>1, <2>2, <2>4
<1>8. ASSUME NEW a \in Elems(list), NEW b \in Elems(list), Adjacent(list, a, b), a # t, b # t
      PROVE  Adjacent(r, a, b)
  <2>1. PICK j \in 1..(n - 1) : list[j] = a /\ list[j + 1] = b
    BY <1>8 DEF Adjacent, n
  <2>2. j # i /\ j + 1 # i /\ j \in 1..n /\ j + 1 \in 1..n
    BY <1>1, <1>8, <2>1
  <2>3. CASE j < i
    <3>1. j + 1 < i /\ j \in 1..(n - 1) /\ j + 1 \in 1..(n - 1) /\ j \in 1..(n - 1 - 1)
      BY <1>1, <2>2, <2>3
    <3>2. r[j] = a /\ r[j + 1] = b
      BY <1>1, <2>1, <2>3, <3>1
    <3> QED BY <1>1, <3>1, <3>2 DEF Adjacent
  <2>4. CASE ~(j < i)
    <3> DEFINE k == j - 1
    <3>1. k \in 1..(n - 1) /\ k + 1 \in 1..(n - 1) /\ k \in 1..(n - 1 - 1)
          /\ ~(k < i) /\ ~(k + 1 < i) /\ k + 1 = j /\ (k + 1) + 1 = j + 1
      BY <1>1, <2>2, <2>4
    <3> HIDE DEF k
    <3>2. r[k] = list[k + 1] /\ r[k + 1] = list[(k + 1) + 1]
      BY <1>1, <3>1
    <3> QED BY <1>1, <2>1, <3>1, <3>2 DEF Adjacent
  <2> QED BY <2>3, <2>4
<1>9. ASSUME NEW a \in Elems(list), LastDue(list, cell, a), a # t
      PROVE  LastDue(r, cell, a)
  <2>1. PICK j \in 1..n : /\ list[j] = a
                          /\ \A l \in 1..n : j < l => cell[a].time < cell[list[l]].time
    BY <1>9 DEF LastDue, n
  <2>2. j # i
    BY <1>9, <2>1
  <2>3. PICK k \in 1..(n - 1) : r[k] = a /\ (k = IF j < i THEN j ELSE j - 1)
    BY <1>3, <2>1, <2>2
  <2>4. ASSUME NEW m \in 1..(n - 1), k < m PROVE cell[a].time < cell[r[m]].time
    <3>1. PICK l \in 1..n : r[m] = list[l] /\ (l = IF m < i THEN m ELSE m + 1)
      BY <1>4
    <3>2. j < l
      BY <1>1, <2>2, <2>3, <2>4, <3>1
    <3> QED BY <2>1, <3>1, <3>2
  <2> QED BY <1>1, <2>3, <2>4 DEF LastDue
<1> QED BY <1>5, <1>6, <1>7, <1>8, <1>9

\* What putting a timer in its place gives, and what it leaves as it is.
InPlace(list, cell, i, time) ==
  /\ i = Len(list) + 1 \/ time < cell[list[i]].time
  /\ \A j \in 1..(i - 1) : cell[list[j]].time <= time

LEMMA PutFacts ==
  ASSUME NEW list \in Seq(Cells), NoneTwice(list), NEW cell \in [Cells -> Timer],
         InOrder(list, cell), NEW t \in Cells, t \notin Elems(list),
         NEW i \in 1..(Len(list) + 1), InPlace(list, cell, i, cell[t].time),
         NEW r, Put(list, i, t, r)
  PROVE  /\ Elems(r) = Elems(list) \cup {t} /\ NoneTwice(r) /\ InOrder(r, cell)
         /\ LastDue(r, cell, t)
         /\ \A a, b \in Elems(list) :
              Adjacent(list, a, b) /\ cell[a].time = cell[b].time => Adjacent(r, a, b)
         /\ \A a \in Elems(list) :
              LastDue(list, cell, a) /\ cell[a].time = cell[t].time => Adjacent(r, a, t)
<1> DEFINE n == Len(list)
           T(j) == cell[list[j]].time
           time == cell[t].time
<1>1. /\ n \in Nat /\ i \in 1..(n + 1) /\ r \in Seq(Cells) /\ Len(r) = n + 1
      /\ \A j \in 1..(n + 1) : r[j] = IF j < i THEN list[j] ELSE IF j = i THEN t ELSE list[j - 1]
      /\ \A j, k \in 1..n : list[j] = list[k] => j = k
      /\ \A j \in 1..n : list[j] # t
  BY LenProperties DEF Put, NoneTwice, Elems
<1>2. /\ \A j \in 1..n : T(j) \in Int
      /\ time \in Int
      /\ i = n + 1 \/ time < T(i)
      /\ \A j \in 1..(i - 1) : T(j) <= time
      /\ \A j, k \in 1..n : j < k => T(j) <= T(k)
  <2>1. \A j \in 1..n : list[j] \in Cells
    BY ElementOfSeq
  <2>2. \A j \in 1..n : T(j) \in Int
    BY <2>1 DEF Timer
  <2>3. time \in Int
    BY DEF Timer
  <2> QED BY <2>2, <2>3 DEF InPlace, InOrder
<1> HIDE DEF n
<1>3. Elems(list) = {list[j] : j \in 1..n} /\ Elems(r) = {r[j] : j \in 1..(n + 1)}
  BY <1>1 DEF Elems, n
<1>4. ASSUME NEW j \in 1..n
      PROVE  \E k \in 1..(n + 1) : r[k] = list[j] /\ (k = IF j < i THEN j ELSE j + 1)
  <2>1. CASE j < i
    <3>1. j \in 1..(n + 1)
      BY <1>1
    <3> QED BY <1>1, <2>1, <3>1
  <2>2. CASE ~(j < i)
    <3>1. j + 1 \in 1..(n + 1) /\ ~(j + 1 < i) /\ j + 1 # i /\ j + 1 - 1 = j
      BY <1>1, <2>2
    <3>2. r[j + 1] = list[j]
      BY <1>1, <3>1
    <3> QED BY <2>2, <3>1, <3>2
  <2> QED BY <2>1, <2>2
<1>5. ASSUME NEW k \in 1..(n + 1), k # i
      PROVE  \E j \in 1..n : r[k] = list[j] /\ (j = IF k < i THEN k ELSE k - 1)
  <2>1. CASE k < i
    <3>1. k \in 1..n
      BY <1>1, <2>1
    <3> QED BY <1>1, <2>1, <3>1
  <2>2. CASE ~(k < i)
    <3>1. k - 1 \in 1..n
      BY <1>1, <1>5, <2>2
    <3> QED BY <1>1, <1>5, <2>2, <3>1
  <2> QED BY <2>1, <2>2
<1>6. i \in 1..(n + 1) /\ r[i] = t
  BY <1>1
<1>7. Elems(r) = Elems(list) \cup {t}
  <2>1. ASSUME NEW x \in Elems(r), x # t PROVE x \in Elems(list)
    <3>1. PICK k \in 1..(n + 1) : x = r[k]
      BY <1>3
    <3>2. k # i
      BY <1>6, <2>1, <3>1
    <3>3. PICK j \in 1..n : r[k] = list[j]
      BY <1>5, <3>2
    <3> QED BY <1>3, <3>1, <3>3
  <2>2. ASSUME NEW x \in Elems(list) PROVE x \in Elems(r)
    <3>1. PICK j \in 1..n : x = list[j]
      BY <1>3
    <3>2. PICK k \in 1..(n + 1) : r[k] = list[j]
      BY <1>4
    <3> QED BY <1>3, <3>1, <3>2
  <2>3. t \in Elems(r)
    BY <1>3, <1>6
  <2> QED BY <2>1, <2>2, <2>3
<1>8. NoneTwice(r)
  <2> SUFFICES ASSUME NEW k \in 1..(n + 1), NEW m \in 1..(n + 1), r[k] = r[m] PROVE k = m
    BY <1>1 DEF NoneTwice
  <2>1. ASSUME NEW x \in 1..(n + 1), x # i PROVE r[x] # t
    <3>1. PICK j \in 1..n : r[x] = list[j]
      BY <1>5, <2>1
    <3> QED BY <1>1, <3>1
  <2>2. CASE k = i \/ m = i
    BY <1>6, <2>1, <2>2
  <2>3. CASE k # i /\ m # i
    <3>1. PICK j \in 1..n : r[k] = list[j] /\ (j = IF k < i THEN k ELSE k - 1)
      BY <1>5, <2>3
    <3>2. PICK l \in 1..n : r[m] = list[l] /\ (l = IF m < i THEN m ELSE m - 1)
      BY <1>5, <2>3
    <3>3. j = l
      BY <1>1, <3>1, <3>2
    <3> QED BY <1>1, <2>3, <3>1, <3>2, <3>3
  <2> QED BY <2>2, <2>3
<1>9. ASSUME NEW j \in 1..n, ~(j < i) PROVE time < T(j)
  <2>1. i \in 1..n /\ time < T(i)
    BY <1>1, <1>2, <1>9
  <2>2. T(i) <= T(j)
    <3>1. CASE i = j
      BY <1>2, <3>1
    <3>2. CASE i # j
      BY <1>1, <1>2, <1>9, <2>1, <3>2
    <3> QED BY <3>1, <3>2
  <2>3. T(i) \in Int /\ T(j) \in Int /\ time \in Int
    BY <1>2, <2>1
  <2> HIDE DEF T, time
  <2> QED BY <2>1, <2>2, <2>3
<1>10. InOrder(r, cell)
  <2> SUFFICES ASSUME NEW k \in 1..(n + 1), NEW m \in 1..(n + 1), k < m
               PROVE  cell[r[k]].time <= cell[r[m]].time
    BY <1>1 DEF InOrder
  <2>1. CASE k = i
    <3>1. m # i
      BY <2>1
    <3>2. PICK l \in 1..n : r[m] = list[l] /\ (l = IF m < i THEN m ELSE m - 1)
      BY <1>5, <3>1
    <3>3. ~(l < i)
      BY <1>1, <2>1, <3>2
    <3>4. time < T(l) /\ time \in Int /\ T(l) \in Int
      BY <1>2, <1>9, <3>3
    <3>5. cell[r[k]].time = time /\ cell[r[m]].time = T(l)
      BY <1>6, <2>1, <3>2
    <3> HIDE DEF T, time
    <3> QED BY <3>4, <3>5
  <2>2. CASE m = i
    <3>1. k # i
      BY <2>2
    <3>2. PICK j \in 1..n : r[k] = list[j] /\ (j = IF k < i THEN k ELSE k - 1)
      BY <1>5, <3>1
    <3>3. j \in 1..(i - 1)
      BY <1>1, <2>2, <3>2
    <3>4. T(j) <= time
      BY <1>2, <3>3
    <3> QED BY <1>6, <2>2, <3>2, <3>4
  <2>3. CASE k # i /\ m # i
    <3>1. PICK j \in 1..n : r[k] = list[j] /\ (j = IF k < i THEN k ELSE k - 1)
      BY <1>5, <2>3
    <3>2. PICK l \in 1..n : r[m] = list[l] /\ (l = IF m < i THEN m ELSE m - 1)
      BY <1>5, <2>3
    <3>3. j < l
      BY <1>1, <2>3, <3>1, <3>2
    <3>4. T(j) <= T(l)
      BY <1>2, <3>3
    <3> QED BY <3>1, <3>2, <3>4
  <2> QED BY <2>1, <2>2, <2>3
<1>11. LastDue(r, cell, t)
  <2>1. ASSUME NEW m \in 1..(n + 1), i < m PROVE time < cell[r[m]].time
    <3>1. PICK l \in 1..n : r[m] = list[l] /\ (l = IF m < i THEN m ELSE m - 1)
      BY <1>1, <1>5, <2>1
    <3>2. ~(l < i)
      BY <1>1, <2>1, <3>1
    <3> QED BY <1>9, <3>1, <3>2
  <2> QED BY <1>1, <1>6, <2>1 DEF LastDue
<1>12. ASSUME NEW a \in Elems(list), NEW b \in Elems(list), Adjacent(list, a, b),
              cell[a].time = cell[b].time
       PROVE  Adjacent(r, a, b)
  <2>1. PICK j \in 1..(n - 1) : list[j] = a /\ list[j + 1] = b
    BY <1>12 DEF Adjacent, n
  <2>2. j \in 1..n /\ j + 1 \in 1..n
    BY <1>1
  <2>3. i # j + 1
    <3> SUFFICES ASSUME i = j + 1 PROVE FALSE
      OBVIOUS
    <3>1. time < T(j + 1)
      BY <1>9, <2>2
    <3>2. j \in 1..(i - 1)
      BY <1>1
    <3>3. T(j) <= time
      BY <1>2, <3>2
    <3>4. T(j) = T(j + 1) /\ T(j) \in Int /\ time \in Int
      BY <1>2, <1>12, <2>1, <2>2
    <3> HIDE DEF T, time
    <3> QED BY <3>1, <3>3, <3>4
  <2>4. CASE j + 1 < i
    <3>1. j \in 1..(n + 1) /\ j + 1 \in 1..(n + 1) /\ j < i /\ j \in 1..(n + 1 - 1)
      BY <1>1, <2>4
    <3>2. r[j] = a /\ r[j + 1] = b
      BY <1>1, <2>1, <2>4, <3>1
    <3> QED BY <1>1, <3>1, <3>2 DEF Adjacent
  <2>5. CASE ~(j + 1 < i)
    <3> DEFINE k == j + 1
    <3>1. /\ k \in 1..(n + 1) /\ k + 1 \in 1..(n + 1) /\ k \in 1..(n + 1 - 1)
          /\ ~(k < i) /\ k # i /\ ~(k + 1 < i) /\ k + 1 # i /\ k - 1 = j /\ (k + 1) - 1 = j + 1
      BY <1>1, <2>2, <2>3, <2>5
    <3> HIDE DEF k
    <3>2. r[k] = list[k - 1] /\ r[k + 1] = list[(k + 1) - 1]
      BY <1>1, <3>1
    <3> QED BY <1>1, <2>1, <3>1, <3>2 DEF Adjacent
  <2> QED BY <2>4, <2>5
<1>13. ASSUME NEW a \in Elems(list), LastDue(list, cell, a), cell[a].time = time
       PROVE  Adjacent(r, a, t)
  <2>1. PICK j \in 1..n : /\ list[j] = a
                          /\ \A l \in 1..n : j < l => cell[a].time < cell[list[l]].time
    BY <1>13 DEF LastDue, n
  <2>2. T(j) = time /\ time \in Int
    BY <1>2, <1>13, <2>1
  <2>3. j < i
    <3> SUFFICES ASSUME ~(j < i) PROVE FALSE
      OBVIOUS
    <3>1. time < T(j)
      BY <1>9
    <3> HIDE DEF T, time
    <3> QED BY <2>2, <3>1
  <2>4. i = j + 1
    <3> SUFFICES ASSUME j + 1 < i PROVE FALSE
      BY <1>1, <2>3
    <3>1. j + 1 \in 1..n /\ j + 1 \in 1..(i - 1)
      BY <1>1
    <3>2. time < T(j + 1) /\ T(j + 1) <= time
      BY <1>2, <1>13, <2>1, <3>1
    <3>3. T(j + 1) \in Int
      BY <1>2, <3>1
    <3> HIDE DEF T, time
    <3> QED BY <2>2, <3>2, <3>3
  <2>5. r[j] = a /\ r[j + 1] = t /\ j \in 1..(n + 1 - 1)
    BY <1>1, <2>1, <2>3, <2>4
  <2> QED BY <1>1, <2>5 DEF Adjacent
<1> QED BY <1>7, <1>8, <1>10, <1>11, <1>12, <1>13

Removed(list, cell, t, r) ==
  /\ r \in Seq(Cells) /\ Len(r) = Len(list) - 1
  /\ Elems(r) = Elems(list) \ {t} /\ NoneTwice(r)
  /\ InOrder(list, cell) => InOrder(r, cell)
  /\ \A a, b \in Elems(list) : Adjacent(list, a, b) /\ a # t /\ b # t => Adjacent(r, a, b)
  /\ \A a \in Elems(list) : LastDue(list, cell, a) /\ a # t => LastDue(r, cell, a)
Added(list, cell, t, r) ==
  /\ r \in Seq(Cells) /\ Len(r) = Len(list) + 1
  /\ Elems(r) = Elems(list) \cup {t} /\ NoneTwice(r) /\ InOrder(r, cell)
  /\ LastDue(r, cell, t)
  /\ \A a, b \in Elems(list) :
       Adjacent(list, a, b) /\ cell[a].time = cell[b].time => Adjacent(r, a, b)
  /\ \A a \in Elems(list) :
       LastDue(list, cell, a) /\ cell[a].time = cell[t].time => Adjacent(r, a, t)

LEMMA RemoveGood ==
  ASSUME NEW list \in Seq(Cells), NoneTwice(list), NEW cell, NEW t \in Elems(list)
  PROVE  Removed(list, cell, t, list_remove(list, t))
<1>1. PICK i \in 1..Len(list) : list[i] = t
  BY DEF Elems
<1> DEFINE r == list_remove(list, t)
<1>2. Taken(list, i, r)
  BY <1>1, RemoveIs
<1> HIDE DEF r
<1>3. /\ Elems(r) = Elems(list) \ {t} /\ NoneTwice(r)
      /\ InOrder(list, cell) => InOrder(r, cell)
      /\ \A a, b \in Elems(list) :
           Adjacent(list, a, b) /\ a # t /\ b # t => Adjacent(r, a, b)
      /\ \A a \in Elems(list) :
           LastDue(list, cell, a) /\ a # t => LastDue(r, cell, a)
  BY <1>1, <1>2, TakenFacts
<1>4. r \in Seq(Cells) /\ Len(r) = Len(list) - 1
  BY <1>2 DEF Taken
<1>5. Removed(list, cell, t, r)
  BY <1>3, <1>4 DEF Removed
<1> QED BY <1>5 DEF r

LEMMA AddGood ==
  ASSUME NEW list \in Seq(Cells), NoneTwice(list), NEW cell \in [Cells -> Timer],
         InOrder(list, cell), NEW t \in Cells, t \notin Elems(list)
  PROVE  Added(list, cell, t, list_add(list, cell, t))
<1> DEFINE time == cell[t].time
           i == Place(list, cell, time)
           r == Insert(list, i, t)
<1>1. time \in Int
  BY DEF Timer
<1>2. i \in 1..(Len(list) + 1) /\ InPlace(list, cell, i, time)
  <2> HIDE DEF time
  <2> QED BY <1>1, PlaceIs DEF InPlace
<1> HIDE DEF i
<1>3. Put(list, i, t, r)
  BY <1>2, InsertIs
<1>4. list_add(list, cell, t) = r
  BY DEF list_add, i
<1> HIDE DEF r
<1>5. Added(list, cell, t, r)
  BY <1>2, <1>3, PutFacts DEF Added, Put
<1> QED BY <1>4, <1>5

\* The order is by the due times only.
LEMMA SameOrder ==
  ASSUME NEW list \in Seq(Cells), NEW cell, NEW c,
         \A x \in Elems(list) : cell[x].time = c[x].time
  PROVE  /\ InOrder(list, cell) => InOrder(list, c)
         /\ \A a \in Elems(list) : LastDue(list, cell, a) => LastDue(list, c, a)
<1>1. \A i \in 1..Len(list) : cell[list[i]].time = c[list[i]].time
  BY DEF Elems
<1>2. InOrder(list, cell) => InOrder(list, c)
  BY <1>1 DEF InOrder
<1>3. ASSUME NEW a \in Elems(list), LastDue(list, cell, a) PROVE LastDue(list, c, a)
  BY <1>1, <1>3 DEF LastDue
<1> QED BY <1>2, <1>3

-----------------------------------------------------------------------------
(* What the operations make of a heap *)

Good(h) == h \in Heap /\ WellFormed(h)

LEMMA GoodIs ==
  ASSUME NEW h
  PROVE  Good(h) <=>
           /\ h \in Heap /\ h.active \in Seq(Cells) /\ h.free \in Seq(Cells)
           /\ h.cell \in [Cells -> Timer]
           /\ InOrder(h.active, h.cell) /\ NoneTwice(h.active) /\ NoneTwice(h.free)
           /\ Elems(h.active) \cap Elems(h.free) = {}
BY DEF Good, WellFormed, Sorted, InOrder, Heap

Rescheduled(h, t, time, g) ==
  /\ Good(g) /\ Elems(g.active) = Elems(h.active) /\ Len(g.active) = Len(h.active)
  /\ g.free = h.free
  /\ \A x \in Cells :
       /\ g.cell[x].proc = h.cell[x].proc /\ g.cell[x].usecs = h.cell[x].usecs
       /\ g.cell[x].periodic = h.cell[x].periodic
       /\ g.cell[x].time = IF x = t THEN time ELSE h.cell[x].time
  /\ LastDue(g.active, g.cell, t)
  /\ \A a, b \in Elems(h.active) :
       a # t /\ b # t /\ Adjacent(h.active, a, b) /\ h.cell[a].time = h.cell[b].time
         => Adjacent(g.active, a, b)
  /\ \A a \in Elems(h.active) :
       a # t /\ LastDue(h.active, h.cell, a) /\ h.cell[a].time = time => Adjacent(g.active, a, t)

LEMMA RescheduleGood ==
  ASSUME NEW h, Good(h), NEW t \in Elems(h.active), NEW time \in Int
  PROVE  Rescheduled(h, t, time, Reschedule(h, t, time))
<1> DEFINE c == [h.cell EXCEPT ![t].time = time]
           l == list_remove(h.active, t)
           r == list_add(l, c, t)
           g == Reschedule(h, t, time)
<1>1. /\ h \in Heap /\ h.active \in Seq(Cells) /\ h.free \in Seq(Cells)
      /\ h.cell \in [Cells -> Timer]
      /\ InOrder(h.active, h.cell) /\ NoneTwice(h.active) /\ NoneTwice(h.free)
      /\ Elems(h.active) \cap Elems(h.free) = {}
  BY GoodIs
<1>2. t \in Cells
  BY <1>1, ElementOfSeq DEF Elems
<1>3. /\ c \in [Cells -> Timer]
      /\ \A x \in Cells :
           /\ c[x].proc = h.cell[x].proc /\ c[x].usecs = h.cell[x].usecs
           /\ c[x].periodic = h.cell[x].periodic
           /\ c[x].time = IF x = t THEN time ELSE h.cell[x].time
  BY <1>1, <1>2 DEF Timer
<1>4. Removed(h.active, h.cell, t, l)
  BY <1>1, RemoveGood
<1>5. g = [h EXCEPT !.cell = c, !.active = r]
  BY DEF Reschedule, list_resort
<1> HIDE DEF c, l
<1>6. l \in Seq(Cells) /\ NoneTwice(l) /\ t \notin Elems(l) /\ InOrder(l, h.cell)
      /\ Elems(l) = Elems(h.active) \ {t} /\ Len(l) = Len(h.active) - 1
  BY <1>1, <1>4 DEF Removed
<1>7. \A x \in Elems(l) : x \in Cells /\ x # t
  BY <1>6, ElementOfSeq DEF Elems
<1>8. \A x \in Elems(l) : h.cell[x].time = c[x].time
  BY <1>3, <1>7
<1>9. InOrder(l, c) /\ \A a \in Elems(l) : LastDue(l, h.cell, a) => LastDue(l, c, a)
  BY <1>6, <1>8, SameOrder
<1>10. Added(l, c, t, r)
  BY <1>2, <1>3, <1>6, <1>9, AddGood
<1> HIDE DEF r, g
<1>11. g \in Heap /\ g.active = r /\ g.cell = c /\ g.free = h.free
  BY <1>1, <1>3, <1>5, <1>10 DEF Heap, Added
<1>12. Elems(r) = Elems(h.active) /\ Len(r) = Len(h.active) /\ LastDue(r, c, t)
       /\ NoneTwice(r) /\ InOrder(r, c)
  <2>1. Elems(r) = Elems(l) \cup {t} /\ Len(r) = Len(l) + 1
    BY <1>10 DEF Added
  <2>2. Len(h.active) \in Nat
    BY <1>1
  <2> QED BY <1>6, <1>10, <2>1, <2>2 DEF Added
<1>13. Good(g)
  BY <1>1, <1>11, <1>12, GoodIs DEF Heap
<1>14. ASSUME NEW a \in Elems(h.active), NEW b \in Elems(h.active), a # t, b # t,
              Adjacent(h.active, a, b), h.cell[a].time = h.cell[b].time
       PROVE  Adjacent(r, a, b)
  <2>1. Adjacent(l, a, b)
    BY <1>4, <1>14 DEF Removed
  <2>2. a \in Elems(l) /\ b \in Elems(l) /\ c[a].time = c[b].time
    BY <1>6, <1>8, <1>14
  <2> QED BY <1>10, <2>1, <2>2 DEF Added
<1>15. ASSUME NEW a \in Elems(h.active), a # t, LastDue(h.active, h.cell, a),
              h.cell[a].time = time
       PROVE  Adjacent(r, a, t)
  <2>1. a \in Elems(l) /\ c[a].time = c[t].time
    BY <1>2, <1>3, <1>6, <1>8, <1>15
  <2>2. LastDue(l, c, a)
    BY <1>4, <1>9, <1>15, <2>1 DEF Removed
  <2> QED BY <1>10, <2>1, <2>2 DEF Added
<1>16. Rescheduled(h, t, time, g)
  BY <1>3, <1>11, <1>12, <1>13, <1>14, <1>15 DEF Rescheduled
<1> QED BY <1>16 DEF g

Cancelled(h, t, g) ==
  /\ Good(g) /\ Elems(g.active) = Elems(h.active) \ {t} /\ g.cell = h.cell
  /\ Len(g.active) = Len(h.active) - 1 /\ Len(g.free) = Len(h.free) + 1
  /\ \A a, b \in Elems(h.active) :
       a # t /\ b # t /\ Adjacent(h.active, a, b) => Adjacent(g.active, a, b)

LEMMA CancelGood ==
  ASSUME NEW h, Good(h), NEW t \in Elems(h.active)
  PROVE  Cancelled(h, t, tmr_cancel(h, t))
<1> DEFINE l == list_remove(h.active, t)
           f == <<t>> \o h.free
           g == tmr_cancel(h, t)
<1>1. /\ h \in Heap /\ h.active \in Seq(Cells) /\ h.free \in Seq(Cells)
      /\ h.cell \in [Cells -> Timer]
      /\ InOrder(h.active, h.cell) /\ NoneTwice(h.active) /\ NoneTwice(h.free)
      /\ Elems(h.active) \cap Elems(h.free) = {}
  BY GoodIs
<1>2. t \in Cells /\ t \notin Elems(h.free)
  <2>1. t \in Cells
    BY <1>1, ElementOfSeq DEF Elems
  <2> QED BY <1>1, <2>1
<1>3. Removed(h.active, h.cell, t, l)
  BY <1>1, RemoveGood
<1>4. /\ f \in Seq(Cells) /\ Len(f) = Len(h.free) + 1 /\ Len(h.free) \in Nat
      /\ f[1] = t /\ \A i \in 2..(Len(h.free) + 1) : f[i] = h.free[i - 1]
  <2>1. <<t>> \in Seq(Cells) /\ Len(<<t>>) = 1 /\ <<t>>[1] = t
    BY <1>2
  <2>2. Len(h.free) \in Nat
    BY <1>1
  <2> DEFINE a == <<t>>
             b == h.free
  <2> HIDE DEF a, b
  <2>3. a \in Seq(Cells) /\ b \in Seq(Cells) /\ Len(a) = 1 /\ Len(b) \in Nat /\ a[1] = t
    BY <1>1, <2>1, <2>2 DEF a, b
  <2>4. /\ a \o b \in Seq(Cells) /\ Len(a \o b) = Len(a) + Len(b)
        /\ \A i \in 1..(Len(a) + Len(b)) :
             (a \o b)[i] = IF i <= Len(a) THEN a[i] ELSE b[i - Len(a)]
    BY <2>3, ConcatProperties
  <2>5. /\ (a \o b)[1] = t
        /\ \A i \in 2..(Len(b) + 1) : (a \o b)[i] = b[i - 1]
    BY <2>3, <2>4
  <2>6. Len(a \o b) = Len(b) + 1
    BY <2>3, <2>4
  <2> QED BY <2>3, <2>4, <2>5, <2>6 DEF a, b
<1>5. g = [h EXCEPT !.active = l, !.free = f]
  BY DEF tmr_cancel
<1> HIDE DEF l, f, g
<1>6. Elems(f) = Elems(h.free) \cup {t}
  <2>1. ASSUME NEW x \in Elems(f), x # t PROVE x \in Elems(h.free)
    <3>1. PICK i \in 1..(Len(h.free) + 1) : x = f[i]
      BY <1>4 DEF Elems
    <3>2. i \in 2..(Len(h.free) + 1) /\ i - 1 \in 1..Len(h.free)
      BY <1>4, <2>1, <3>1
    <3> QED BY <1>4, <3>1, <3>2 DEF Elems
  <2>2. ASSUME NEW x \in Elems(h.free) PROVE x \in Elems(f)
    <3>1. PICK i \in 1..Len(h.free) : x = h.free[i]
      BY DEF Elems
    <3>2. i + 1 \in 2..(Len(h.free) + 1) /\ i + 1 \in 1..Len(f) /\ i + 1 - 1 = i
      BY <1>4
    <3>3. f[i + 1] = x
      BY <1>4, <3>1, <3>2
    <3> QED BY <3>2, <3>3 DEF Elems
  <2>3. t \in Elems(f)
    <3>1. 1 \in 1..Len(f)
      BY <1>4
    <3> QED BY <1>4, <3>1 DEF Elems
  <2> QED BY <2>1, <2>2, <2>3
<1>7. NoneTwice(f)
  <2> SUFFICES ASSUME NEW i \in 1..(Len(h.free) + 1), NEW j \in 1..(Len(h.free) + 1), f[i] = f[j]
               PROVE  i = j
    BY <1>4 DEF NoneTwice
  <2>1. \A k \in 2..(Len(h.free) + 1) :
          f[k] = h.free[k - 1] /\ k - 1 \in 1..Len(h.free) /\ f[k] # t
    BY <1>2, <1>4 DEF Elems
  <2>2. CASE i = 1 \/ j = 1
    BY <1>4, <2>1, <2>2
  <2>3. CASE i # 1 /\ j # 1
    <3>1. i \in 2..(Len(h.free) + 1) /\ j \in 2..(Len(h.free) + 1)
      BY <1>4, <2>3
    <3>2. i - 1 = j - 1
      BY <1>1, <2>1, <3>1 DEF NoneTwice
    <3> QED BY <1>4, <3>1, <3>2
  <2> QED BY <2>2, <2>3
<1>8. g \in Heap /\ g.active = l /\ g.cell = h.cell /\ g.free = f
  BY <1>1, <1>3, <1>4, <1>5 DEF Heap, Removed
<1>9. Good(g)
  <2>1. Elems(l) \cap Elems(f) = {}
    BY <1>1, <1>3, <1>6 DEF Removed
  <2> QED BY <1>1, <1>3, <1>4, <1>7, <1>8, <2>1, GoodIs DEF Removed
<1>10. Cancelled(h, t, g)
  BY <1>3, <1>4, <1>8, <1>9 DEF Cancelled, Removed
<1> QED BY <1>10 DEF g

Created(h, time, proc, usecs, periodic, t, g) ==
  /\ t \in Cells /\ t \notin Elems(h.active)
  /\ Good(g) /\ Elems(g.active) = Elems(h.active) \cup {t}
  /\ Len(g.active) = Len(h.active) + 1
  /\ Len(g.free) = IF h.free = <<>> THEN 0 ELSE Len(h.free) - 1
  /\ g.cell[t].proc = proc /\ g.cell[t].usecs = usecs /\ g.cell[t].periodic = periodic
  /\ g.cell[t].time = time
  /\ \A x \in Cells \ {t} : g.cell[x] = h.cell[x]
  /\ LastDue(g.active, g.cell, t)
  /\ \A a, b \in Elems(h.active) :
       Adjacent(h.active, a, b) /\ h.cell[a].time = h.cell[b].time => Adjacent(g.active, a, b)
  /\ \A a \in Elems(h.active) :
       LastDue(h.active, h.cell, a) /\ h.cell[a].time = time => Adjacent(g.active, a, t)

\* A list that is not empty, without its head.
LEMMA TailFacts ==
  ASSUME NEW s \in Seq(Cells), s # <<>>, NoneTwice(s)
  PROVE  /\ Head(s) \in Cells /\ Head(s) \in Elems(s)
         /\ Tail(s) \in Seq(Cells) /\ Len(Tail(s)) = Len(s) - 1 /\ NoneTwice(Tail(s))
         /\ Elems(Tail(s)) \subseteq Elems(s) /\ Head(s) \notin Elems(Tail(s))
<1> DEFINE n == Len(s)
           r == Tail(s)
<1>1. n \in Nat \ {0}
  BY EmptySeq
<1>2. Head(s) = s[1]
  OBVIOUS
<1>3. Head(s) \in Cells /\ r \in Seq(Cells) /\ Len(r) = n - 1
      /\ \A i \in 1..Len(r) : r[i] = s[i + 1]
  BY HeadTailProperties
<1> HIDE DEF n, r
<1>4. \A i, j \in 1..n : s[i] = s[j] => i = j
  BY DEF NoneTwice, n
<1>5. \A i \in 1..(n - 1) : i + 1 \in 1..n /\ r[i] = s[i + 1]
  BY <1>1, <1>3
<1>6. Elems(s) = {s[i] : i \in 1..n} /\ Elems(r) = {r[i] : i \in 1..(n - 1)}
  BY <1>3 DEF Elems, n
<1>7. Head(s) \in Elems(s)
  BY <1>1, <1>2, <1>6
<1>8. NoneTwice(r)
  <2> SUFFICES ASSUME NEW i \in 1..(n - 1), NEW j \in 1..(n - 1), r[i] = r[j] PROVE i = j
    BY <1>3 DEF NoneTwice
  <2>1. i + 1 = j + 1
    BY <1>4, <1>5
  <2> QED BY <2>1
<1>9. Elems(r) \subseteq Elems(s)
  BY <1>5, <1>6
<1>10. Head(s) \notin Elems(r)
  <2> SUFFICES ASSUME NEW i \in 1..(n - 1), r[i] = s[1] PROVE FALSE
    BY <1>2, <1>6
  <2>1. i + 1 = 1
    BY <1>1, <1>4, <1>5
  <2> QED BY <2>1
<1> QED BY <1>3, <1>7, <1>8, <1>9, <1>10 DEF n, r

LEMMA CreateGood ==
  ASSUME NEW h, Good(h), h.free # <<>> \/ Cells \ Elems(h.active) # {},
         NEW now0 \in Int, NEW proc \in Procs, NEW usecs \in Int, NEW periodic \in BOOLEAN
  PROVE  Created(h, now0 + usecs, proc, usecs, periodic, Fresh(h),
                 tmr_create(h, now0, proc, usecs, periodic))
<1> DEFINE t == Fresh(h)
           time == now0 + usecs
           new == [proc |-> proc, time |-> time, usecs |-> usecs, periodic |-> periodic]
           c == [h.cell EXCEPT ![t] = new]
           r == list_add(h.active, c, t)
           f == IF h.free = <<>> THEN <<>> ELSE Tail(h.free)
           g == tmr_create(h, now0, proc, usecs, periodic)
<1>1. /\ h \in Heap /\ h.active \in Seq(Cells) /\ h.free \in Seq(Cells)
      /\ h.cell \in [Cells -> Timer]
      /\ InOrder(h.active, h.cell) /\ NoneTwice(h.active) /\ NoneTwice(h.free)
      /\ Elems(h.active) \cap Elems(h.free) = {}
  BY GoodIs
<1>2. t \in Cells /\ t \notin Elems(h.active)
  <2>1. CASE h.free # <<>>
    <3>1. Head(h.free) \in Cells /\ Head(h.free) \in Elems(h.free)
      BY <1>1, <2>1, TailFacts
    <3>2. t = Head(h.free)
      BY <2>1 DEF Fresh
    <3> QED BY <1>1, <3>1, <3>2
  <2>2. CASE h.free = <<>>
    BY <2>2 DEF Fresh
  <2> QED BY <2>1, <2>2
<1>3. /\ f \in Seq(Cells) /\ NoneTwice(f)
      /\ Len(f) = IF h.free = <<>> THEN 0 ELSE Len(h.free) - 1
      /\ Elems(f) \subseteq Elems(h.free) /\ t \notin Elems(f)
  <2>1. CASE h.free # <<>>
    <3>1. t = Head(h.free) /\ f = Tail(h.free)
      BY <2>1 DEF Fresh
    <3> HIDE DEF t, f
    <3> QED BY <1>1, <2>1, <3>1, TailFacts
  <2>2. CASE h.free = <<>>
    <3>1. f = <<>>
      BY <2>2
    <3> HIDE DEF t, f
    <3> QED BY <2>2, <3>1 DEF Elems, NoneTwice
  <2> QED BY <2>1, <2>2
<1>4. g = [active |-> r, free |-> f, cell |-> c]
  BY DEF tmr_create
<1>5. new \in Timer /\ new.proc = proc /\ new.time = time /\ new.usecs = usecs
      /\ new.periodic = periodic
  BY DEF Timer
<1> HIDE DEF t, f, g, new
<1>6. c \in [Cells -> Timer] /\ c[t] = new /\ \A x \in Cells \ {t} : c[x] = h.cell[x]
  BY <1>1, <1>2, <1>5
<1> HIDE DEF c
<1>7. \A x \in Elems(h.active) : x \in Cells /\ x # t
  BY <1>1, <1>2, ElementOfSeq DEF Elems
<1>8. \A x \in Elems(h.active) : h.cell[x].time = c[x].time
  BY <1>6, <1>7
<1>9. /\ InOrder(h.active, c)
      /\ \A a \in Elems(h.active) : LastDue(h.active, h.cell, a) => LastDue(h.active, c, a)
  BY <1>1, <1>8, SameOrder
<1>10. Added(h.active, c, t, r)
  BY <1>1, <1>2, <1>6, <1>9, AddGood
<1> HIDE DEF r
<1>11. g \in Heap /\ g.active = r /\ g.cell = c /\ g.free = f
  BY <1>3, <1>4, <1>6, <1>10 DEF Heap, Added
<1>12. Good(g)
  <2>1. Elems(r) \cap Elems(f) = {}
    BY <1>1, <1>3, <1>10 DEF Added
  <2> QED BY <1>3, <1>6, <1>10, <1>11, <2>1, GoodIs DEF Added
<1>13. ASSUME NEW a \in Elems(h.active), NEW b \in Elems(h.active),
              Adjacent(h.active, a, b), h.cell[a].time = h.cell[b].time
       PROVE  Adjacent(r, a, b)
  BY <1>8, <1>10, <1>13 DEF Added
<1>14. ASSUME NEW a \in Elems(h.active), LastDue(h.active, h.cell, a), h.cell[a].time = time
       PROVE  Adjacent(r, a, t)
  <2>1. c[a].time = c[t].time /\ LastDue(h.active, c, a)
    BY <1>5, <1>6, <1>8, <1>9, <1>14
  <2> QED BY <1>10, <2>1 DEF Added
<1>15. Elems(r) = Elems(h.active) \cup {t} /\ Len(r) = Len(h.active) + 1 /\ LastDue(r, c, t)
  BY <1>10 DEF Added
<1> HIDE DEF time
<1>16. Created(h, time, proc, usecs, periodic, t, g)
  BY <1>2, <1>3, <1>5, <1>6, <1>11, <1>12, <1>13, <1>14, <1>15 DEF Created
<1> QED BY <1>16 DEF g, t, time

-----------------------------------------------------------------------------
(* Which of two timers comes first *)

LEMMA CellsOf ==
  ASSUME NEW s \in Seq(Cells)
  PROVE  /\ Elems(s) \subseteq Cells /\ Len(s) \in Nat
         /\ IsFiniteSet(Elems(s)) /\ Cardinality(Elems(s)) <= Len(s)
<1> DEFINE n == Len(s)
           f == [i \in 1..n |-> s[i]]
<1>1. n \in Nat /\ \A i \in 1..n : s[i] \in Cells
  BY ElementOfSeq, LenProperties
<1>2. Elems(s) = {s[i] : i \in 1..n}
  BY DEF Elems
<1>3. f \in Surjection(1..n, Elems(s))
  BY <1>2 DEF Surjection
<1>4. IsFiniteSet(1..n) /\ Cardinality(1..n) = n
  BY <1>1, FS_Interval
<1>5. IsFiniteSet(Elems(s)) /\ Cardinality(Elems(s)) <= Cardinality(1..n)
  BY <1>3, <1>4, FS_Surjection
<1> QED BY <1>1, <1>2, <1>4, <1>5

Before(list, a, b) == \E i, j \in 1..Len(list) : i < j /\ list[i] = a /\ list[j] = b

LEMMA TakenKeeps ==
  ASSUME NEW list \in Seq(Cells), NoneTwice(list), NEW i \in 1..Len(list), NEW t, list[i] = t,
         NEW r, Taken(list, i, r), NEW a, NEW b, Before(list, a, b), a # t, b # t
  PROVE  Before(r, a, b)
<1> DEFINE n == Len(list)
<1>1. /\ n \in Nat /\ i \in 1..n /\ Len(r) = n - 1
      /\ \A j \in 1..(n - 1) : r[j] = IF j < i THEN list[j] ELSE list[j + 1]
  BY LenProperties DEF Taken
<1>2. PICK x \in 1..n, y \in 1..n : x < y /\ list[x] = a /\ list[y] = b
  BY DEF Before
<1> HIDE DEF n
<1>3. x # i /\ y # i
  BY <1>2
<1>4. ASSUME NEW j \in 1..n, j # i
      PROVE  \E k \in 1..(n - 1) : r[k] = list[j] /\ (k = IF j < i THEN j ELSE j - 1)
  <2>1. CASE j < i
    <3>1. j \in 1..(n - 1) /\ r[j] = list[j]
      BY <1>1, <2>1
    <3> QED BY <2>1, <3>1
  <2>2. CASE ~(j < i)
    <3>1. j - 1 \in 1..(n - 1) /\ ~(j - 1 < i) /\ j - 1 + 1 = j
      BY <1>1, <1>4, <2>2
    <3>2. r[j - 1] = list[j]
      BY <1>1, <3>1
    <3> QED BY <2>2, <3>1, <3>2
  <2> QED BY <2>1, <2>2
<1>5. PICK k \in 1..(n - 1) : r[k] = list[x] /\ (k = IF x < i THEN x ELSE x - 1)
  BY <1>3, <1>4
<1>6. PICK m \in 1..(n - 1) : r[m] = list[y] /\ (m = IF y < i THEN y ELSE y - 1)
  BY <1>3, <1>4
<1>7. k < m
  BY <1>1, <1>2, <1>3, <1>5, <1>6
<1> QED BY <1>1, <1>2, <1>5, <1>6, <1>7 DEF Before

LEMMA PutKeeps ==
  ASSUME NEW list \in Seq(Cells), NEW i \in 1..(Len(list) + 1), NEW t, NEW r,
         Put(list, i, t, r), NEW a, NEW b, Before(list, a, b)
  PROVE  Before(r, a, b)
<1> DEFINE n == Len(list)
<1>1. /\ n \in Nat /\ i \in 1..(n + 1) /\ Len(r) = n + 1
      /\ \A j \in 1..(n + 1) : r[j] = IF j < i THEN list[j] ELSE IF j = i THEN t ELSE list[j - 1]
  BY LenProperties DEF Put
<1>2. PICK x \in 1..n, y \in 1..n : x < y /\ list[x] = a /\ list[y] = b
  BY DEF Before
<1> HIDE DEF n
<1>3. ASSUME NEW j \in 1..n
      PROVE  \E k \in 1..(n + 1) : r[k] = list[j] /\ (k = IF j < i THEN j ELSE j + 1)
  <2>1. CASE j < i
    <3>1. j \in 1..(n + 1)
      BY <1>1
    <3> QED BY <1>1, <2>1, <3>1
  <2>2. CASE ~(j < i)
    <3>1. j + 1 \in 1..(n + 1) /\ ~(j + 1 < i) /\ j + 1 # i /\ j + 1 - 1 = j
      BY <1>1, <2>2
    <3>2. r[j + 1] = list[j]
      BY <1>1, <3>1
    <3> QED BY <2>2, <3>1, <3>2
  <2> QED BY <2>1, <2>2
<1>4. PICK k \in 1..(n + 1) : r[k] = list[x] /\ (k = IF x < i THEN x ELSE x + 1)
  BY <1>3
<1>5. PICK m \in 1..(n + 1) : r[m] = list[y] /\ (m = IF y < i THEN y ELSE y + 1)
  BY <1>3
<1>6. k < m
  BY <1>1, <1>2, <1>4, <1>5
<1> QED BY <1>1, <1>2, <1>4, <1>5, <1>6 DEF Before

LEMMA RemoveKeeps ==
  ASSUME NEW list \in Seq(Cells), NoneTwice(list), NEW t \in Elems(list),
         NEW a, NEW b, Before(list, a, b), a # t, b # t
  PROVE  Before(list_remove(list, t), a, b)
<1>1. PICK i \in 1..Len(list) : list[i] = t
  BY DEF Elems
<1> DEFINE r == list_remove(list, t)
<1>2. Taken(list, i, r)
  BY <1>1, RemoveIs
<1> HIDE DEF r
<1>3. Before(r, a, b)
  BY <1>1, <1>2, TakenKeeps
<1> QED BY <1>3 DEF r

LEMMA AddKeeps ==
  ASSUME NEW list \in Seq(Cells), NEW cell \in [Cells -> Timer], NEW t \in Cells,
         NEW a, NEW b, Before(list, a, b)
  PROVE  Before(list_add(list, cell, t), a, b)
<1> DEFINE time == cell[t].time
           i == Place(list, cell, time)
           r == Insert(list, i, t)
<1>1. time \in Int
  BY DEF Timer
<1>2. i \in 1..(Len(list) + 1)
  <2> HIDE DEF time
  <2> QED BY <1>1, PlaceIs
<1> HIDE DEF i
<1>3. Put(list, i, t, r)
  BY <1>2, InsertIs
<1>4. list_add(list, cell, t) = r
  BY DEF list_add, i
<1> HIDE DEF r
<1>5. Before(r, a, b)
  BY <1>2, <1>3, PutKeeps
<1> QED BY <1>4, <1>5

\* The last of the timers that are due when it is comes after those due earlier.
LEMMA LastIsAfter ==
  ASSUME NEW list, NEW cell \in [Cells -> Timer], list \in Seq(Cells), NEW t,
         LastDue(list, cell, t), NEW a \in Elems(list), a # t, cell[a].time <= cell[t].time
  PROVE  Before(list, a, t)
<1>1. PICK i \in 1..Len(list) :
        /\ list[i] = t
        /\ \A j \in 1..Len(list) : i < j => cell[t].time < cell[list[j]].time
  BY DEF LastDue
<1>2. PICK k \in 1..Len(list) : list[k] = a
  BY DEF Elems
<1>3. Len(list) \in Nat /\ a \in Cells /\ t \in Cells
  BY <1>1, <1>2, LenProperties, ElementOfSeq
<1>4. cell[a].time \in Int /\ cell[t].time \in Int
  BY <1>3 DEF Timer
<1>5. ~(i < k) /\ i # k
  BY <1>1, <1>2, <1>4
<1>6. k < i
  BY <1>5
<1> QED BY <1>1, <1>2, <1>6 DEF Before

\* The order of the timers that a turn moves neither in the list nor in time.
Keeps(h, g, moved) ==
  /\ \A a, b \in Elems(h.active) \ moved : Before(h.active, a, b) => Before(g.active, a, b)
  /\ \A x \in Cells \ moved : g.cell[x].time = h.cell[x].time

LEMMA RescheduleKeeps ==
  ASSUME NEW h, Good(h), NEW t \in Elems(h.active), NEW time \in Int
  PROVE  Keeps(h, Reschedule(h, t, time), {t})
<1> DEFINE c == [h.cell EXCEPT ![t].time = time]
           l == list_remove(h.active, t)
           r == list_add(l, c, t)
           g == Reschedule(h, t, time)
<1>1. /\ h \in Heap /\ h.active \in Seq(Cells) /\ h.cell \in [Cells -> Timer]
      /\ NoneTwice(h.active)
  BY GoodIs
<1>2. t \in Cells
  BY <1>1, CellsOf
<1>3. c \in [Cells -> Timer] /\ \A x \in Cells \ {t} : c[x] = h.cell[x]
  BY <1>1, <1>2 DEF Timer
<1>4. l \in Seq(Cells)
  <2>1. Removed(h.active, h.cell, t, l)
    BY <1>1, RemoveGood
  <2> QED BY <2>1 DEF Removed
<1>5. g = [h EXCEPT !.cell = c, !.active = r]
  BY DEF Reschedule, list_resort
<1> HIDE DEF c, r, g
<1>6. g.active = r /\ g.cell = c
  BY <1>1, <1>5 DEF Heap
<1>7. ASSUME NEW a \in Elems(h.active) \ {t}, NEW b \in Elems(h.active) \ {t},
             Before(h.active, a, b)
      PROVE  Before(r, a, b)
  <2>1. Before(l, a, b)
    BY <1>1, <1>7, RemoveKeeps
  <2> HIDE DEF l
  <2> QED BY <1>2, <1>3, <1>4, <2>1, AddKeeps DEF r
<1>8. Keeps(h, g, {t})
  BY <1>3, <1>6, <1>7 DEF Keeps
<1> QED BY <1>8 DEF g

LEMMA CancelKeeps ==
  ASSUME NEW h, Good(h), NEW t \in Elems(h.active)
  PROVE  Keeps(h, tmr_cancel(h, t), {t})
<1> DEFINE l == list_remove(h.active, t)
           f == <<t>> \o h.free
           g == tmr_cancel(h, t)
<1>1. h \in Heap /\ h.active \in Seq(Cells) /\ NoneTwice(h.active)
  BY GoodIs
<1>2. g = [h EXCEPT !.active = l, !.free = f]
  BY DEF tmr_cancel
<1> HIDE DEF f, g
<1>3. g.active = l /\ g.cell = h.cell
  BY <1>1, <1>2 DEF Heap
<1>4. ASSUME NEW a \in Elems(h.active) \ {t}, NEW b \in Elems(h.active) \ {t},
             Before(h.active, a, b)
      PROVE  Before(l, a, b)
  BY <1>1, <1>4, RemoveKeeps
<1>5. Keeps(h, g, {t})
  BY <1>3, <1>4 DEF Keeps
<1> QED BY <1>5 DEF g

\* A new timer moves no other.
LEMMA CreateKeeps ==
  ASSUME NEW h, Good(h), NEW now0 \in Int, NEW proc \in Procs, NEW usecs \in Int,
         NEW periodic \in BOOLEAN, Fresh(h) \in Cells,
         NEW a, NEW b, Before(h.active, a, b)
  PROVE  Before(tmr_create(h, now0, proc, usecs, periodic).active, a, b)
<1> DEFINE t == Fresh(h)
           new == [proc |-> proc, time |-> now0 + usecs, usecs |-> usecs, periodic |-> periodic]
           c == [h.cell EXCEPT ![t] = new]
<1>1. h.active \in Seq(Cells) /\ h.cell \in [Cells -> Timer]
  BY GoodIs
<1>2. tmr_create(h, now0, proc, usecs, periodic).active = list_add(h.active, c, t)
  BY DEF tmr_create
<1>3. new \in Timer
  BY DEF Timer
<1> HIDE DEF t, new
<1>4. c \in [Cells -> Timer] /\ t \in Cells
  BY <1>1, <1>3 DEF t
<1> HIDE DEF c
<1> QED BY <1>1, <1>2, <1>4, AddKeeps

LEMMA NotBoth ==
  ASSUME NEW h, Good(h), NEW a, NEW b, Before(h.active, a, b)
  PROVE  a # b /\ ~Before(h.active, b, a)
<1>1. NoneTwice(h.active)
  BY GoodIs
<1>2. PICK i \in 1..Len(h.active), j \in 1..Len(h.active) :
        i < j /\ h.active[i] = a /\ h.active[j] = b
  BY DEF Before
<1>3. a # b
  <2>1. i # j
    BY <1>2
  <2> QED BY <1>1, <1>2, <2>1 DEF NoneTwice
<1>4. ASSUME Before(h.active, b, a) PROVE FALSE
  <2>1. PICK k \in 1..Len(h.active), m \in 1..Len(h.active) :
          k < m /\ h.active[k] = b /\ h.active[m] = a
    BY <1>4 DEF Before
  <2>2. k = j /\ m = i
    BY <1>1, <1>2, <2>1 DEF NoneTwice
  <2> QED BY <1>2, <2>1, <2>2
<1> QED BY <1>3, <1>4

-----------------------------------------------------------------------------
(* Which timers a test starts with *)

Once == {"timer", "omit_timer"}
PlanStep == [proc : Procs, at : Int, usecs : Int, periodic : BOOLEAN]

\* n timers, the statistics timer in place k and the reporter timer after it.
Planned(plan, n, k, t0) ==
  /\ n \in Nat /\ k \in 1..n /\ k + 1 \in 1..n /\ DOMAIN plan = 1..n
  /\ plan[k].proc = "stats_timer" /\ plan[k + 1].proc = "reporter_timer"
  /\ \A i \in 1..n :
       /\ plan[i] \in PlanStep /\ plan[i].periodic = (plan[i].proc \notin Once)
       /\ plan[i].proc \in {"stats_timer", "reporter_timer"} =>
            plan[i].at = t0 /\ plan[i].usecs = Interval
       /\ plan[i].proc \notin TestProcs => plan[i].usecs = SendTick
       /\ plan[i].proc = "timer" => role = "c"
  /\ \A i, j \in 1..n : plan[i].proc = plan[j].proc => i = j

\* When they are due, and that the timer of a timed client comes first.
Timing(plan, n, k, d, o, t0, t1) ==
  /\ role = "c" /\ d # 0 => k = 2 /\ plan[1].proc = "timer"
  /\ o # 0 <=> \E i \in 1..n : plan[i].proc = "omit_timer"
  /\ \A i \in 1..n :
       /\ plan[i].proc = "timer" => plan[i].at = t0 /\ plan[i].usecs = d + o
       /\ plan[i].proc = "omit_timer" => plan[i].at = t1 /\ plan[i].usecs = o
       /\ plan[i].proc \notin TestProcs => plan[i].at = t1

LEMMA Senders ==
  /\ SendTimers \in Seq(Procs) /\ NoneTwice(SendTimers) /\ Len(SendTimers) \in Nat
  /\ \A i \in 1..Len(SendTimers) : SendTimers[i] \in Procs /\ SendTimers[i] \notin TestProcs
  /\ TestProcs \subseteq Procs /\ Procs = TestProcs \cup Elems(SendTimers)
<1>1. SendTimers \in Seq(Procs \ TestProcs) /\ NoneTwice(SendTimers)
      /\ Procs = TestProcs \cup ToSet(SendTimers)
  BY TestAssumption
<1>2. DOMAIN SendTimers = 1..Len(SendTimers) /\ Len(SendTimers) \in Nat
  BY <1>1
<1>3. ToSet(SendTimers) = Elems(SendTimers)
  BY <1>2 DEF ToSet, Elems
<1>4. \A i \in 1..Len(SendTimers) : SendTimers[i] \in Procs \ TestProcs
  BY <1>1, ElementOfSeq
<1>5. SendTimers \in Seq(Procs)
  BY <1>1
<1> QED BY <1>1, <1>2, <1>3, <1>4, <1>5

\* A sequence put together from four.
FromFour(p, S, a, b, c, e) ==
  LET x == Len(a)
      y == x + Len(b)
      z == y + Len(c)
  IN /\ p \in Seq(S) /\ Len(p) = z + Len(e)
     /\ \A i \in 1..x : p[i] = a[i]
     /\ \A i \in 1..Len(b) : p[x + i] = b[i]
     /\ \A i \in 1..Len(c) : p[y + i] = c[i]
     /\ \A i \in 1..Len(e) : p[z + i] = e[i]

FromTwo(p, S, a, b) ==
  /\ p \in Seq(S) /\ Len(p) = Len(a) + Len(b) /\ Len(a) \in Nat /\ Len(b) \in Nat
  /\ \A i \in 1..Len(a) : p[i] = a[i]
  /\ \A i \in 1..Len(b) : p[Len(a) + i] = b[i]

LEMMA TwoParts ==
  ASSUME NEW S, NEW a \in Seq(S), NEW b \in Seq(S)
  PROVE  FromTwo(a \o b, S, a, b)
<1> DEFINE x == Len(a)
           y == Len(b)
           p == a \o b
<1>1. x \in Nat /\ y \in Nat
  BY LenProperties
<1>2. /\ p \in Seq(S) /\ Len(p) = x + y
      /\ \A i \in 1..(x + y) : p[i] = IF i <= x THEN a[i] ELSE b[i - x]
  BY ConcatProperties
<1> HIDE DEF x, y, p
<1>3. \A i \in 1..x : p[i] = a[i]
  BY <1>1, <1>2
<1>4. ASSUME NEW i \in 1..y PROVE p[x + i] = b[i]
  <2> DEFINE k == x + i
  <2>1. k \in 1..(x + y) /\ ~(k <= x) /\ k - x = i
    BY <1>1
  <2> HIDE DEF k
  <2>2. p[k] = b[i]
    BY <1>2, <2>1
  <2> QED BY <2>2 DEF k
<1> QED BY <1>1, <1>2, <1>3, <1>4 DEF x, y, p, FromTwo

LEMMA FourParts ==
  ASSUME NEW S, NEW a \in Seq(S), NEW b \in Seq(S), NEW c \in Seq(S), NEW e \in Seq(S)
  PROVE  FromFour(a \o b \o c \o e, S, a, b, c, e)
<1> DEFINE ab == a \o b
           abc == ab \o c
           p == abc \o e
           x == Len(a)
           y == Len(b)
           z == Len(c)
           w == Len(e)
<1>1. /\ ab \in Seq(S) /\ Len(ab) = x + y /\ x \in Nat /\ y \in Nat
      /\ \A i \in 1..x : ab[i] = a[i]
      /\ \A i \in 1..y : ab[x + i] = b[i]
  <2>1. FromTwo(ab, S, a, b)
    BY TwoParts
  <2> HIDE DEF ab
  <2> QED BY <2>1 DEF FromTwo
<1> HIDE DEF ab, p, x, y, z, w
<1>2. /\ abc \in Seq(S) /\ Len(abc) = Len(ab) + z /\ z \in Nat
      /\ \A i \in 1..Len(ab) : abc[i] = ab[i]
      /\ \A i \in 1..z : abc[Len(ab) + i] = c[i]
  <2>1. ab \in Seq(S) /\ c \in Seq(S)
    BY <1>1
  <2>2. FromTwo(abc, S, ab, c)
    BY <2>1, TwoParts
  <2> HIDE DEF abc
  <2> QED BY <2>2 DEF z, FromTwo
<1> HIDE DEF abc
<1>3. /\ p \in Seq(S) /\ Len(p) = Len(abc) + w /\ w \in Nat
      /\ \A i \in 1..Len(abc) : p[i] = abc[i]
      /\ \A i \in 1..w : p[Len(abc) + i] = e[i]
  <2>1. abc \in Seq(S) /\ e \in Seq(S)
    BY <1>2
  <2>2. FromTwo(p, S, abc, e)
    BY <2>1, TwoParts DEF p
  <2> QED BY <2>2 DEF w, FromTwo
<1>4. \A i \in 1..x : i \in 1..(x + y) /\ i \in 1..(x + y + z)
  BY <1>1, <1>2
<1>5. \A i \in 1..y : x + i \in 1..(x + y) /\ x + i \in 1..(x + y + z)
  BY <1>1, <1>2
<1>6. \A i \in 1..z : x + y + i \in 1..(x + y + z)
  BY <1>1, <1>2
<1>7. FromFour(p, S, a, b, c, e)
  <2>1. \A i \in 1..x : p[i] = a[i]
    BY <1>1, <1>2, <1>3, <1>4
  <2>2. \A i \in 1..y : p[x + i] = b[i]
    BY <1>1, <1>2, <1>3, <1>5
  <2>3. \A i \in 1..z : p[x + y + i] = c[i]
    BY <1>1, <1>2, <1>3, <1>6
  <2>4. \A i \in 1..w : p[x + y + z + i] = e[i]
    BY <1>1, <1>2, <1>3
  <2> QED BY <1>1, <1>2, <1>3, <2>1, <2>2, <2>3, <2>4 DEF FromFour, x, y, z, w
<1> QED BY <1>7 DEF p, abc, ab

LEMMA PlanIs ==
  ASSUME NEW d \in Int, NEW o \in Int, NEW t0 \in Int, NEW t1 \in Int
  PROVE  \E n, k : /\ Planned(Plan(d, o, t0, t1), n, k, t0)
                   /\ Timing(Plan(d, o, t0, t1), n, k, d, o, t0, t1)
<1> DEFINE first == [proc |-> "timer", at |-> t0, usecs |-> d + o, periodic |-> FALSE]
           stats == [proc |-> "stats_timer", at |-> t0, usecs |-> Interval, periodic |-> TRUE]
           reporter == [proc |-> "reporter_timer", at |-> t0, usecs |-> Interval, periodic |-> TRUE]
           omits == [proc |-> "omit_timer", at |-> t1, usecs |-> o, periodic |-> FALSE]
           send(i) == [proc |-> SendTimers[i], at |-> t1, usecs |-> SendTick, periodic |-> TRUE]
           m == Len(SendTimers)
           a == IF role = "c" /\ d # 0 THEN <<first>> ELSE <<>>
           b == <<stats, reporter>>
           c == IF o # 0 THEN <<omits>> ELSE <<>>
           e == [i \in 1..m |-> send(i)]
           plan == Plan(d, o, t0, t1)
<1>1. plan = a \o b \o c \o e
  BY DEF Plan
<1>2. Interval \in Int /\ SendTick \in Int
  BY TestAssumption
<1>3. "timer" \in Procs /\ "stats_timer" \in Procs /\ "reporter_timer" \in Procs
      /\ "omit_timer" \in Procs
  BY Senders DEF TestProcs
<1>4. /\ first \in PlanStep /\ stats \in PlanStep /\ reporter \in PlanStep /\ omits \in PlanStep
      /\ \A i \in 1..m : send(i) \in PlanStep
  BY <1>2, <1>3, Senders DEF PlanStep
<1>5. m \in Nat
  BY Senders
<1>6. e \in Seq(PlanStep) /\ Len(e) = m /\ \A i \in 1..m : e[i] = send(i)
  <2>1. \A i \in 1..m : e[i] = send(i) /\ e[i] \in PlanStep
    BY <1>4
  <2>2. e = [i \in 1..m |-> e[i]]
    OBVIOUS
  <2> HIDE DEF e, send, m
  <2>3. e \in [1..m -> PlanStep]
    BY <2>1, <2>2
  <2> QED BY <1>5, <2>1, <2>3
<1> HIDE DEF first, stats, reporter, omits, send, plan
<1>7. /\ a \in Seq(PlanStep) /\ Len(a) = IF role = "c" /\ d # 0 THEN 1 ELSE 0
      /\ \A i \in 1..Len(a) : a[i] = first /\ role = "c"
  BY <1>4
<1>8. b \in Seq(PlanStep) /\ Len(b) = 2 /\ b[1] = stats /\ b[2] = reporter
  BY <1>4
<1>9. /\ c \in Seq(PlanStep) /\ Len(c) = IF o # 0 THEN 1 ELSE 0
      /\ \A i \in 1..Len(c) : c[i] = omits
  <2>1. <<omits>> \in Seq(PlanStep) /\ Len(<<omits>>) = 1 /\ <<omits>>[1] = omits
    BY <1>4
  <2>2. <<>> \in Seq(PlanStep) /\ Len(<<>>) = 0
    OBVIOUS
  <2>3. CASE o # 0
    <3>1. c = <<omits>>
      BY <2>3
    <3> HIDE DEF c
    <3>2. \A i \in 1..Len(c) : i = 1
      BY <2>1, <3>1
    <3> QED BY <2>1, <2>3, <3>1, <3>2
  <2>4. CASE o = 0
    <3>1. c = <<>>
      BY <2>4
    <3> HIDE DEF c
    <3> QED BY <2>2, <2>4, <3>1
  <2> QED BY <2>3, <2>4
<1> DEFINE x == Len(a)
           y == Len(c)
           n == x + 2 + y + m
<1>10. x \in {0, 1} /\ y \in {0, 1}
  BY <1>7, <1>9
<1> HIDE DEF a, b, c, e, m, x, y
<1>11. FromFour(plan, PlanStep, a, b, c, e)
  BY <1>1, <1>6, <1>7, <1>8, <1>9, FourParts
<1>12. /\ plan \in Seq(PlanStep) /\ Len(plan) = n
       /\ \A i \in 1..x : plan[i] = a[i]
       /\ \A i \in 1..2 : plan[x + i] = b[i]
       /\ \A i \in 1..y : plan[x + 2 + i] = c[i]
       /\ \A i \in 1..m : plan[x + 2 + y + i] = e[i]
  BY <1>6, <1>8, <1>11 DEF FromFour, x, y
<1>15. /\ \A i \in 1..n : i <= x => plan[i] = first
       /\ plan[x + 1] = stats /\ plan[x + 2] = reporter
       /\ \A i \in 1..n : x + 2 < i /\ i <= x + 2 + y => plan[i] = omits
       /\ \A i \in 1..n : x + 2 + y < i => plan[i] = send(i - (x + 2 + y))
                                            /\ i - (x + 2 + y) \in 1..m
  <2>1. ASSUME NEW i \in 1..n, i <= x PROVE plan[i] = first
    <3>1. i \in 1..x
      BY <1>5, <1>10, <2>1
    <3> QED BY <1>7, <1>12, <3>1 DEF x
  <2>3. plan[x + 1] = stats /\ plan[x + 2] = reporter
    <3>1. 1 \in 1..2 /\ 2 \in 1..2
      OBVIOUS
    <3> QED BY <1>8, <1>12, <3>1
  <2>4. ASSUME NEW i \in 1..n, x + 2 < i, i <= x + 2 + y PROVE plan[i] = omits
    <3> DEFINE j == i - (x + 2)
    <3>1. j \in 1..y /\ x + 2 + j = i
      BY <1>5, <1>10, <2>4
    <3> HIDE DEF j, n
    <3>2. plan[i] = c[j]
      BY <1>12, <3>1
    <3> QED BY <1>9, <3>1, <3>2 DEF y
  <2>5. ASSUME NEW i \in 1..n, x + 2 + y < i
        PROVE  plan[i] = send(i - (x + 2 + y)) /\ i - (x + 2 + y) \in 1..m
    <3> DEFINE j == i - (x + 2 + y)
    <3>1. j \in 1..m /\ x + 2 + y + j = i
      BY <1>5, <1>10, <2>5
    <3> HIDE DEF j, n
    <3>2. plan[i] = e[j]
      BY <1>12, <3>1
    <3> QED BY <1>6, <3>1, <3>2 DEF j
  <2> QED BY <2>1, <2>3, <2>4, <2>5
<1>16. n \in Nat /\ DOMAIN plan = 1..n /\ \A i \in 1..n : plan[i] \in PlanStep
  <2>1. n \in Nat
    BY <1>5, <1>10
  <2>2. plan \in Seq(PlanStep) /\ Len(plan) = n
    BY <1>12
  <2> HIDE DEF n
  <2> QED BY <2>1, <2>2, ElementOfSeq, LenProperties
<1> DEFINE k == x + 1
<1>17. k \in 1..n /\ k + 1 \in 1..n /\ k + 1 = x + 2
  BY <1>5, <1>10
<1>18. \A i \in 1..n : \/ i <= x
                       \/ i = k
                       \/ i = k + 1
                       \/ x + 2 < i /\ i <= x + 2 + y
                       \/ x + 2 + y < i
  BY <1>10
<1>19. /\ first.proc = "timer" /\ ~first.periodic
       /\ stats.proc = "stats_timer" /\ stats.periodic /\ stats.at = t0 /\ stats.usecs = Interval
       /\ reporter.proc = "reporter_timer" /\ reporter.periodic
       /\ reporter.at = t0 /\ reporter.usecs = Interval
       /\ omits.proc = "omit_timer" /\ ~omits.periodic
       /\ \A i \in 1..m : /\ send(i).proc = SendTimers[i] /\ send(i).periodic
                          /\ send(i).usecs = SendTick
  BY DEF first, stats, reporter, omits, send
<1>20. \A i \in 1..m : SendTimers[i] \notin TestProcs
  BY Senders DEF m
<1>21. ASSUME NEW i \in 1..n
       PROVE  /\ plan[i].periodic = (plan[i].proc \notin Once)
              /\ plan[i].proc \in {"stats_timer", "reporter_timer"} =>
                   plan[i].at = t0 /\ plan[i].usecs = Interval
              /\ plan[i].proc \notin TestProcs => plan[i].usecs = SendTick
              /\ plan[i].proc = "timer" => role = "c"
              /\ plan[i].proc = "timer" => i <= x
              /\ plan[i].proc = "stats_timer" => i = k
              /\ plan[i].proc = "reporter_timer" => i = k + 1
              /\ plan[i].proc = "omit_timer" => x + 2 < i /\ i <= x + 2 + y
              /\ plan[i].proc \notin TestProcs =>
                   x + 2 + y < i /\ plan[i].proc = SendTimers[i - (x + 2 + y)]
  <2>1. plan[i].periodic \in BOOLEAN
    BY <1>16 DEF PlanStep
  <2>2. CASE i <= x
    <3>1. plan[i] = first
      BY <1>15, <2>2
    <3>2. role = "c"
      <4>1. x \in {0, 1} /\ 1 \in 1..Len(a)
        BY <1>10, <2>2 DEF x
      <4> QED BY <1>7, <4>1 DEF x
    <3> QED BY <1>19, <2>1, <2>2, <3>1, <3>2 DEF Once, TestProcs
  <2>3. CASE i = k
    <3>1. plan[i] = stats
      BY <1>15, <2>3
    <3> QED BY <1>19, <2>1, <2>3, <3>1 DEF Once, TestProcs
  <2>4. CASE i = k + 1
    <3>1. plan[i] = reporter
      BY <1>15, <1>17, <2>4
    <3> QED BY <1>19, <2>1, <2>4, <3>1 DEF Once, TestProcs
  <2>5. CASE x + 2 < i /\ i <= x + 2 + y
    <3>1. plan[i] = omits
      BY <1>15, <2>5
    <3> QED BY <1>19, <2>1, <2>5, <3>1 DEF Once, TestProcs
  <2>6. CASE x + 2 + y < i
    <3> DEFINE j == i - (x + 2 + y)
    <3>1. plan[i] = send(j) /\ j \in 1..m
      BY <1>15, <2>6
    <3> HIDE DEF j
    <3>2. /\ plan[i].proc = SendTimers[j] /\ plan[i].periodic /\ plan[i].proc \notin TestProcs
          /\ plan[i].usecs = SendTick
      BY <1>19, <1>20, <3>1
    <3> HIDE DEF k, n
    <3> QED BY <2>1, <2>6, <3>2 DEF j, Once, TestProcs
  <2> HIDE DEF k, n
  <2> QED BY <1>18, <2>2, <2>3, <2>4, <2>5, <2>6
<1>22. ASSUME NEW i \in 1..n, NEW j \in 1..n, plan[i].proc = plan[j].proc PROVE i = j
  <2>1. CASE plan[i].proc = "timer"
    <3>1. i <= x /\ j <= x
      BY <1>21, <1>22, <2>1
    <3> QED BY <1>10, <3>1
  <2>2. CASE plan[i].proc = "stats_timer"
    BY <1>21, <1>22, <2>2
  <2>3. CASE plan[i].proc = "reporter_timer"
    BY <1>21, <1>22, <2>3
  <2>4. CASE plan[i].proc = "omit_timer"
    <3>1. x + 2 < i /\ i <= x + 2 + y /\ x + 2 < j /\ j <= x + 2 + y
      BY <1>21, <1>22, <2>4
    <3> QED BY <1>10, <3>1
  <2>5. CASE plan[i].proc \notin TestProcs
    <3> DEFINE u == i - (x + 2 + y)
               v == j - (x + 2 + y)
    <3>1. /\ x + 2 + y < i /\ plan[i].proc = SendTimers[u]
          /\ x + 2 + y < j /\ plan[j].proc = SendTimers[v]
      BY <1>21, <1>22, <2>5
    <3>2. u \in 1..m /\ v \in 1..m
      BY <1>15, <3>1
    <3>3. SendTimers[u] = SendTimers[v]
      BY <1>22, <3>1
    <3> HIDE DEF u, v
    <3>4. u = v
      BY <3>2, <3>3, Senders DEF NoneTwice, m
    <3> QED BY <1>5, <1>10, <3>4 DEF u, v
  <2> QED BY <2>1, <2>2, <2>3, <2>4, <2>5 DEF TestProcs
<1>23. Planned(plan, n, k, t0)
  <2>1. plan[k].proc = "stats_timer" /\ plan[k + 1].proc = "reporter_timer"
    BY <1>15, <1>17, <1>19
  <2> HIDE DEF n, k
  <2> QED BY <1>16, <1>17, <1>21, <1>22, <2>1 DEF Planned
<1>24. Timing(plan, n, k, d, o, t0, t1)
  <2>1. ASSUME role = "c", d # 0 PROVE k = 2 /\ plan[1].proc = "timer"
    <3>1. x = 1 /\ 1 \in 1..n
      BY <1>5, <1>7, <1>10, <2>1 DEF x
    <3>2. plan[1] = first
      BY <1>15, <3>1
    <3> QED BY <1>19, <3>1, <3>2
  <2>2. o # 0 <=> \E i \in 1..n : plan[i].proc = "omit_timer"
    <3>1. ASSUME o # 0 PROVE \E i \in 1..n : plan[i].proc = "omit_timer"
      <4> DEFINE i == x + 3
      <4>1. y = 1
        BY <1>9, <3>1 DEF y
      <4>2. i \in 1..n /\ x + 2 < i /\ i <= x + 2 + y
        BY <1>5, <1>10, <4>1
      <4> HIDE DEF i, n
      <4>3. plan[i].proc = "omit_timer"
        BY <1>15, <1>19, <4>2
      <4> QED BY <4>2, <4>3
    <3>2. ASSUME NEW i \in 1..n, plan[i].proc = "omit_timer" PROVE o # 0
      <4>1. x + 2 < i /\ i <= x + 2 + y
        BY <1>21, <3>2
      <4>2. y # 0
        BY <1>10, <4>1
      <4> QED BY <1>9, <4>2 DEF y
    <3> QED BY <3>1, <3>2
  <2>3. ASSUME NEW i \in 1..n
        PROVE  /\ plan[i].proc = "timer" => plan[i].at = t0 /\ plan[i].usecs = d + o
               /\ plan[i].proc = "omit_timer" => plan[i].at = t1 /\ plan[i].usecs = o
               /\ plan[i].proc \notin TestProcs => plan[i].at = t1
    <3>1. CASE plan[i].proc = "timer"
      <4>1. plan[i] = first
        BY <1>15, <1>21, <3>1
      <4> QED BY <3>1, <4>1 DEF first, TestProcs
    <3>2. CASE plan[i].proc = "omit_timer"
      <4>1. plan[i] = omits
        BY <1>15, <1>21, <3>2
      <4> QED BY <3>2, <4>1 DEF omits, TestProcs
    <3>3. CASE plan[i].proc \notin TestProcs
      <4> DEFINE j == i - (x + 2 + y)
      <4>1. x + 2 + y < i
        BY <1>21, <3>3
      <4>2. plan[i] = send(j)
        BY <1>15, <4>1
      <4> HIDE DEF j
      <4> QED BY <3>3, <4>2 DEF send, TestProcs
    <3> QED BY <3>1, <3>2, <3>3 DEF TestProcs
  <2> HIDE DEF n, k
  <2> QED BY <2>1, <2>2, <2>3 DEF Timing
<1> QED BY <1>23, <1>24 DEF plan

-----------------------------------------------------------------------------
(* Creating the timers of a test *)

Null == Cells \cup {NoTimer}
PtrType == [Procs -> Null]

\* What PointersLive says, and what is known of the timers of each kind.
Live(h, p) ==
  /\ \A q \in Procs : p[q] # NoTimer => p[q] \in Elems(h.active) /\ h.cell[p[q]].proc = q
  /\ \A t \in Elems(h.active) : p[h.cell[t].proc] = t
Kinds(h) ==
  \A t \in Elems(h.active) :
    /\ h.cell[t].periodic = (h.cell[t].proc \notin Once)
    /\ h.cell[t].proc \in {"stats_timer", "reporter_timer"} => h.cell[t].usecs = Interval
    /\ h.cell[t].proc \notin TestProcs => h.cell[t].usecs = SendTick
    /\ h.cell[t].proc = "timer" => role = "c"

\* The statistics timer and the reporter timer are due together, the reporter
\* right after.
InPair(h, s, r) ==
  h.cell[s].time = h.cell[r].time /\ Adjacent(h.active, s, r)
Ready(h, p) ==
  /\ p["stats_timer"] # NoTimer /\ p["reporter_timer"] # NoTimer
  /\ InPair(h, p["stats_timer"], p["reporter_timer"])

StartState == [heap : Heap, ptr : PtrType, left : Nat, failed : BOOLEAN]
Started(h, left, plan) ==
  FoldLeft(Create, [heap |-> h, ptr |-> NoPtr, left |-> left, failed |-> FALSE], plan)
Start0(h, left) == [heap |-> h, ptr |-> NoPtr, left |-> left, failed |-> FALSE]

\* After the first i timers of a plan with the statistics timer in place k.
Building(s, plan, i, k, t0) ==
  /\ s \in StartState /\ Good(s.heap) /\ Live(s.heap, s.ptr) /\ Kinds(s.heap)
  /\ ~s.failed =>
       /\ s.left <= Unused(s.heap)
       /\ \A q \in Procs : s.ptr[q] # NoTimer => \E j \in 1..i : plan[j].proc = q
       /\ i = k => /\ s.ptr["stats_timer"] # NoTimer
                   /\ s.heap.cell[s.ptr["stats_timer"]].time = t0 + Interval
                   /\ LastDue(s.heap.active, s.heap.cell, s.ptr["stats_timer"])
       /\ k < i => Ready(s.heap, s.ptr)

\* While malloc has a cell left there is one that is not active.
LEMMA CellLeft ==
  ASSUME NEW h, Good(h), h.free = <<>>, Unused(h) > 0
  PROVE  Cells \ Elems(h.active) # {}
<1>1. h.active \in Seq(Cells)
  BY GoodIs
<1>2. IsFiniteSet(Cells) /\ Cardinality(Cells) \in Nat
  BY TestAssumption, FS_CardinalityType
<1>3. Len(h.free) = 0
  OBVIOUS
<1>4. Cardinality(Cells) > Len(h.active) /\ Len(h.active) \in Nat
  BY <1>1, <1>2, <1>3, CellsOf DEF Unused
<1>5. Cardinality(Elems(h.active)) <= Len(h.active) /\ Cardinality(Elems(h.active)) \in Nat
  BY <1>1, CellsOf, FS_CardinalityType
<1>6. Elems(h.active) # Cells
  BY <1>2, <1>4, <1>5
<1> QED BY <1>1, <1>6, CellsOf

LiveWith(h, z, t, g) ==
  /\ z \in PtrType /\ Live(g, z)
  /\ \A x \in Elems(h.active) : x # t /\ x \in Cells /\ g.cell[x] = h.cell[x]

LEMMA CreateLive ==
  ASSUME NEW h, Good(h), NEW p \in PtrType, Live(h, p), NEW q \in Procs, p[q] = NoTimer,
         NEW time, NEW usecs, NEW periodic, NEW t, NEW g,
         Created(h, time, q, usecs, periodic, t, g), NEW z, z = [p EXCEPT ![q] = t]
  PROVE  LiveWith(h, z, t, g)
<1>1. /\ t \in Cells /\ t \notin Elems(h.active) /\ t # NoTimer
      /\ Elems(g.active) = Elems(h.active) \cup {t}
      /\ g.cell[t].proc = q /\ \A x \in Cells \ {t} : g.cell[x] = h.cell[x]
  BY TimerAssumption DEF Created
<1>2. z \in PtrType /\ z[q] = t /\ \A u \in Procs \ {q} : z[u] = p[u]
  BY <1>1 DEF PtrType, Null
<1>3. h.active \in Seq(Cells) /\ h.cell \in [Cells -> Timer]
  BY GoodIs
<1>4. \A x \in Elems(h.active) : x # t /\ x \in Cells /\ g.cell[x] = h.cell[x]
  BY <1>1, <1>3, CellsOf
<1>5. \A x \in Elems(h.active) : h.cell[x].proc \in Procs /\ h.cell[x].proc # q
  <2> SUFFICES ASSUME NEW x \in Elems(h.active)
               PROVE  h.cell[x].proc \in Procs /\ h.cell[x].proc # q
    OBVIOUS
  <2>1. h.cell[x].proc \in Procs
    BY <1>3, <1>4 DEF Timer
  <2>2. p[h.cell[x].proc] = x /\ x # NoTimer
    BY <1>4, TimerAssumption DEF Live
  <2> QED BY <2>1, <2>2
<1>6. Live(g, z)
  <2>1. ASSUME NEW u \in Procs, z[u] # NoTimer
        PROVE  z[u] \in Elems(g.active) /\ g.cell[z[u]].proc = u
    <3>1. CASE u = q
      BY <1>1, <1>2, <3>1
    <3>2. CASE u # q
      <4>1. z[u] = p[u] /\ p[u] \in Elems(h.active) /\ h.cell[p[u]].proc = u
        BY <1>2, <2>1, <3>2 DEF Live
      <4> QED BY <1>1, <1>4, <4>1
    <3> QED BY <3>1, <3>2
  <2>2. ASSUME NEW x \in Elems(g.active) PROVE z[g.cell[x].proc] = x
    <3>1. CASE x = t
      BY <1>1, <1>2, <3>1
    <3>2. CASE x # t
      <4>1. x \in Elems(h.active)
        BY <1>1, <3>2
      <4>2. g.cell[x] = h.cell[x] /\ h.cell[x].proc \in Procs \ {q}
        BY <1>4, <1>5, <4>1
      <4>3. p[h.cell[x].proc] = x
        BY <4>1 DEF Live
      <4> QED BY <1>2, <4>2, <4>3
    <3> QED BY <3>1, <3>2
  <2> QED BY <2>1, <2>2 DEF Live
<1> QED BY <1>2, <1>4, <1>6 DEF LiveWith

LEMMA CreateStep ==
  ASSUME NEW plan, NEW n, NEW k, NEW t0 \in Int, Planned(plan, n, k, t0), NEW i \in 1..n,
         NEW s, Building(s, plan, i - 1, k, t0)
  PROVE  Building(Create(s, plan[i]), plan, i, k, t0)
<1> DEFINE u == Create(s, plan[i])
<1>1. /\ s \in StartState /\ Good(s.heap) /\ Live(s.heap, s.ptr) /\ Kinds(s.heap)
      /\ s.heap \in Heap /\ s.ptr \in PtrType /\ s.left \in Nat /\ s.failed \in BOOLEAN
  BY DEF Building, StartState
<1>2. n \in Nat /\ k \in 1..n /\ k + 1 \in 1..n
  BY DEF Planned
<1>3. CASE s.failed \/ (s.heap.free = <<>> /\ s.left = 0)
  <2>1. u = [s EXCEPT !.failed = TRUE]
    BY <1>3 DEF Create
  <2> HIDE DEF u
  <2>2. u \in StartState /\ u.heap = s.heap /\ u.ptr = s.ptr /\ u.failed
    BY <1>1, <2>1 DEF StartState
  <2>3. Building(u, plan, i, k, t0)
    BY <1>1, <2>2 DEF Building
  <2> QED BY <2>3 DEF u
<1>4. CASE ~s.failed /\ (s.heap.free # <<>> \/ s.left # 0)
  <2> DEFINE h == s.heap
             p == plan[i]
             t == Fresh(h)
             g == tmr_create(h, p.at, p.proc, p.usecs, p.periodic)
             z == [s.ptr EXCEPT ![p.proc] = t]
             left == IF h.free = <<>> THEN s.left - 1 ELSE s.left
  <2>1. u = [heap |-> g, ptr |-> z, left |-> left, failed |-> FALSE]
    BY <1>4 DEF Create
  <2>2. /\ p \in PlanStep /\ p.periodic = (p.proc \notin Once)
        /\ p.proc \in {"stats_timer", "reporter_timer"} => p.at = t0 /\ p.usecs = Interval
        /\ p.proc \notin TestProcs => p.usecs = SendTick
        /\ p.proc = "timer" => role = "c"
    BY DEF Planned
  <2>3. p.proc \in Procs /\ p.at \in Int /\ p.usecs \in Int /\ p.periodic \in BOOLEAN
    BY <2>2 DEF PlanStep
  <2> HIDE DEF p, t, g, z, u
  <2>4. /\ s.left <= Unused(h)
        /\ \A q \in Procs : s.ptr[q] # NoTimer => \E j \in 1..(i - 1) : plan[j].proc = q
    BY <1>4 DEF Building
  <2>5. s.ptr[p.proc] = NoTimer
    <3> SUFFICES ASSUME s.ptr[p.proc] # NoTimer PROVE FALSE
      OBVIOUS
    <3>1. PICK j \in 1..(i - 1) : plan[j].proc = p.proc
      BY <2>3, <2>4
    <3>2. j \in 1..n /\ j # i
      BY <1>2
    <3>3. \A a, b \in 1..n : plan[a].proc = plan[b].proc => a = b
      BY DEF Planned
    <3> QED BY <3>1, <3>2, <3>3 DEF p
  <2>6. IsFiniteSet(Cells) /\ Cardinality(Cells) \in Nat
    BY TestAssumption, FS_CardinalityType
  <2>7. Len(h.active) \in Nat /\ Len(h.free) \in Nat
        /\ Elems(h.active) \subseteq Cells /\ h.cell \in [Cells -> Timer]
    BY <1>1, GoodIs, CellsOf
  <2>8. Unused(h) \in Int
    BY <2>6, <2>7 DEF Unused
  <2>9. h.free # <<>> \/ Cells \ Elems(h.active) # {}
    <3>1. CASE h.free = <<>>
      <4>1. Unused(h) > 0
        BY <1>1, <1>4, <2>4, <2>8, <3>1
      <4> QED BY <1>1, <3>1, <4>1, CellLeft
    <3> QED BY <3>1
  <2>10. Created(h, p.at + p.usecs, p.proc, p.usecs, p.periodic, t, g)
    <3> DEFINE a == p.at
               q == p.proc
               v == p.usecs
               w == p.periodic
    <3>1. a \in Int /\ q \in Procs /\ v \in Int /\ w \in BOOLEAN
      BY <2>3
    <3> HIDE DEF a, q, v, w
    <3>2. Created(h, a + v, q, v, w, Fresh(h), tmr_create(h, a, q, v, w))
      BY <1>1, <2>9, <3>1, CreateGood
    <3> QED BY <3>2 DEF a, q, v, w, t, g
  <2> HIDE DEF h
  <2>11. /\ z \in PtrType /\ Live(g, z)
         /\ \A x \in Elems(h.active) : x # t /\ x \in Cells /\ g.cell[x] = h.cell[x]
    <3> DEFINE pt == s.ptr
               pr == p.proc
               tm == p.at + p.usecs
               us == p.usecs
               pe == p.periodic
    <3>1. /\ Good(h) /\ pt \in PtrType /\ Live(h, pt) /\ pr \in Procs /\ pt[pr] = NoTimer
          /\ Created(h, tm, pr, us, pe, t, g)
      BY <1>1, <2>3, <2>5, <2>10 DEF h
    <3> HIDE DEF pt, pr, tm, us, pe, z, left
    <3>2. z = [pt EXCEPT ![pr] = t]
      BY DEF z, pt, pr
    <3>3. LiveWith(h, z, t, g)
      BY <3>1, <3>2, CreateLive
    <3> QED BY <3>3 DEF LiveWith
  <2>12. z[p.proc] = t /\ \A q \in Procs \ {p.proc} : z[q] = s.ptr[q]
    BY <1>1, <2>3 DEF z, PtrType
  <2>13. /\ t \in Cells /\ t # NoTimer /\ Good(g) /\ Elems(g.active) = Elems(h.active) \cup {t}
         /\ Len(g.active) = Len(h.active) + 1
         /\ Len(g.free) = IF h.free = <<>> THEN 0 ELSE Len(h.free) - 1
         /\ g.cell[t].proc = p.proc /\ g.cell[t].usecs = p.usecs
         /\ g.cell[t].periodic = p.periodic /\ g.cell[t].time = p.at + p.usecs
         /\ LastDue(g.active, g.cell, t)
    BY <2>10, TimerAssumption DEF Created
  <2>14. left \in Nat /\ left <= Unused(g)
    <3>1. CASE h.free = <<>>
      <4>1. Len(h.free) = 0 /\ Len(g.free) = 0 /\ s.left # 0
        BY <1>4, <2>13, <3>1 DEF h
      <4>2. Unused(g) = Unused(h) - 1
        BY <2>6, <2>7, <2>13, <4>1 DEF Unused
      <4> QED BY <1>1, <2>4, <2>8, <3>1, <4>1, <4>2
    <3>2. CASE h.free # <<>>
      <4>1. Unused(g) = Unused(h)
        BY <2>6, <2>7, <2>13, <3>2 DEF Unused
      <4> QED BY <1>1, <2>4, <2>8, <3>2, <4>1
    <3> QED BY <3>1, <3>2
  <2> HIDE DEF left
  <2>15. u \in StartState /\ u.heap = g /\ u.ptr = z /\ u.left = left /\ ~u.failed
    BY <2>1, <2>11, <2>13, <2>14 DEF StartState, Good
  <2>16. Kinds(g)
    <3> SUFFICES ASSUME NEW x \in Elems(g.active)
                 PROVE  /\ g.cell[x].periodic = (g.cell[x].proc \notin Once)
                        /\ g.cell[x].proc \in {"stats_timer", "reporter_timer"}
                             => g.cell[x].usecs = Interval
                        /\ g.cell[x].proc \notin TestProcs => g.cell[x].usecs = SendTick
                        /\ g.cell[x].proc = "timer" => role = "c"
      BY DEF Kinds
    <3>1. CASE x = t
      BY <2>2, <2>13, <3>1
    <3>2. CASE x # t
      <4>1. x \in Elems(h.active)
        BY <2>13, <3>2
      <4>2. g.cell[x] = h.cell[x]
        BY <2>11, <4>1
      <4> QED BY <1>1, <4>1, <4>2 DEF Kinds, h
    <3> QED BY <3>1, <3>2
  <2>17. ASSUME NEW q \in Procs, z[q] # NoTimer PROVE \E j \in 1..i : plan[j].proc = q
    <3>1. CASE q = p.proc
      <4>1. i \in 1..i
        BY <1>2
      <4> QED BY <3>1, <4>1 DEF p
    <3>2. CASE q # p.proc
      <4>1. PICK j \in 1..(i - 1) : plan[j].proc = q
        BY <2>4, <2>12, <2>17, <3>2
      <4>2. j \in 1..i
        BY <1>2
      <4> QED BY <4>1, <4>2
    <3> QED BY <3>1, <3>2
  <2>18. "stats_timer" \in Procs /\ "reporter_timer" \in Procs /\ Interval \in Int
    BY Senders, TestAssumption DEF TestProcs
  <2> DEFINE S == s.ptr["stats_timer"]
             R == s.ptr["reporter_timer"]
  <2>19. ASSUME i = k
         PROVE  /\ z["stats_timer"] # NoTimer
                /\ g.cell[z["stats_timer"]].time = t0 + Interval
                /\ LastDue(g.active, g.cell, z["stats_timer"])
    <3>1. p.proc = "stats_timer"
      BY <2>19 DEF Planned, p
    <3>2. z["stats_timer"] = t
      BY <2>12, <3>1
    <3> QED BY <2>2, <2>13, <3>1, <3>2
  <2>20. ASSUME i = k + 1 PROVE Ready(g, z)
    <3>1. p.proc = "reporter_timer"
      BY <2>20 DEF Planned, p
    <3>2. z["reporter_timer"] = t /\ z["stats_timer"] = S
      BY <2>12, <2>18, <3>1
    <3>3. i - 1 = k
      BY <1>2, <2>20
    <3>4. S # NoTimer /\ h.cell[S].time = t0 + Interval /\ LastDue(h.active, h.cell, S)
      BY <1>4, <3>3 DEF Building, h
    <3>5. S \in Elems(h.active)
      BY <1>1, <2>18, <3>4 DEF Live, h
    <3>6. g.cell[S] = h.cell[S] /\ g.cell[S].time = g.cell[t].time
      BY <2>2, <2>11, <2>13, <3>1, <3>4, <3>5
    <3>7. p.at + p.usecs = t0 + Interval
      BY <2>2, <3>1
    <3>8. Adjacent(g.active, S, t)
      BY <2>10, <3>4, <3>5, <3>7 DEF Created
    <3> QED BY <2>13, <3>2, <3>4, <3>6, <3>8 DEF Ready, InPair
  <2>21. ASSUME k + 1 < i PROVE Ready(g, z)
    <3>1. p.proc # "stats_timer" /\ p.proc # "reporter_timer"
      <4>1. i # k /\ i # k + 1
        BY <1>2, <2>21
      <4>2. \A a, b \in 1..n : plan[a].proc = plan[b].proc => a = b
        BY DEF Planned
      <4>3. plan[k].proc = "stats_timer" /\ plan[k + 1].proc = "reporter_timer"
        BY DEF Planned
      <4> QED BY <1>2, <4>1, <4>2, <4>3 DEF p
    <3>2. z["stats_timer"] = S /\ z["reporter_timer"] = R
      BY <2>12, <2>18, <3>1
    <3>3. k < i - 1
      BY <1>2, <2>21
    <3>4. S # NoTimer /\ R # NoTimer /\ h.cell[S].time = h.cell[R].time
          /\ Adjacent(h.active, S, R)
      BY <1>4, <3>3 DEF Building, Ready, InPair, h
    <3>5. S \in Elems(h.active) /\ R \in Elems(h.active)
      BY <1>1, <2>18, <3>4 DEF Live, h
    <3>6. g.cell[S] = h.cell[S] /\ g.cell[R] = h.cell[R]
      BY <2>11, <3>5
    <3>7. Adjacent(g.active, S, R)
      BY <2>10, <3>4, <3>5 DEF Created
    <3> QED BY <3>2, <3>4, <3>6, <3>7 DEF Ready, InPair
  <2>22. k < i => i = k + 1 \/ k + 1 < i
    BY <1>2
  <2>23. Building(u, plan, i, k, t0)
    BY <2>11, <2>13, <2>14, <2>15, <2>16, <2>17, <2>19, <2>20, <2>21, <2>22 DEF Building
  <2> QED BY <2>23 DEF u
<1> QED BY <1>1, <1>3, <1>4
\* The fold over a plan goes through its timers in their order.
LEMMA CreateSteps ==
  ASSUME NEW n \in Nat, NEW plan, DOMAIN plan = 1..n, NEW h, NEW left
  PROVE  \E g : /\ g[0] = Start0(h, left)
                /\ \A i \in 1..n : g[i] = Create(g[i - 1], plan[i])
                /\ Started(h, left, plan) = g[n]
<1> DEFINE Body(it, s) == IF s = {} THEN Start0(h, left)
                          ELSE Create(it[s \ {Max(s)}], plan[Max(s)])
           Is(it, D) == it = [s \in SUBSET D |-> Body(it, s)]
           S == {k \in Nat : \E it : Is(it, 1..k)}
<1>1. 0 \in S
  <2> DEFINE it == [s \in SUBSET (1..0) |-> Start0(h, left)]
  <2>1. \A s \in SUBSET (1..0) : Body(it, s) = Start0(h, left)
    OBVIOUS
  <2>2. Is(it, 1..0)
    BY <2>1
  <2> QED BY <2>2
<1>2. ASSUME NEW k \in Nat, k \in S PROVE k + 1 \in S
  <2>1. PICK it : Is(it, 1..k)
    BY <1>2
  <2> DEFINE jt == [s \in SUBSET (1..(k + 1)) |-> Body(it, s)]
  <2>2. ASSUME NEW s \in SUBSET (1..(k + 1)) PROVE Body(jt, s) = Body(it, s)
    <3>1. CASE s = {}
      BY <3>1
    <3>2. CASE s # {}
      <4> DEFINE r == s \ {Max(s)}
      <4>1. r \in SUBSET (1..k)
        BY <3>2, WithoutLast
      <4>2. r \in SUBSET (1..(k + 1))
        OBVIOUS
      <4> HIDE DEF r
      <4>3. it[r] = Body(it, r)
        BY <4>1, <2>1
      <4>4. jt[r] = Body(it, r)
        BY <4>2
      <4> QED BY <4>3, <4>4 DEF r
    <3> QED BY <3>1, <3>2
  <2>3. Is(jt, 1..(k + 1))
    BY <2>2
  <2>4. k + 1 \in Nat
    OBVIOUS
  <2>5. \E lt : Is(lt, 1..(k + 1))
    BY <2>3
  <2> QED BY <2>4, <2>5
<1>3. n \in S
  <2> HIDE DEF S
  <2> QED BY <1>1, <1>2, NatSetInduction
<1>4. PICK jt : Is(jt, 1..n)
  BY <1>3
<1> DEFINE it == CHOOSE it : Is(it, DOMAIN plan)
<1>5. Is(it, DOMAIN plan)
  BY <1>4
<1>6. Started(h, left, plan) = it[DOMAIN plan]
  BY DEF Started, Start0, FoldLeft, MapThenFoldSet
<1> DEFINE g == [i \in 0..n |-> it[1..i]]
<1>7. ASSUME NEW i \in 1..n PROVE g[i] = Create(g[i - 1], plan[i])
  <2>a. 1..i \in SUBSET DOMAIN plan
    BY LastOfRange
  <2>1. it[1..i] = Body(it, 1..i)
    BY <1>5, <2>a
  <2>2. it[1..i] = Create(it[1..(i - 1)], plan[i])
    BY <2>1, LastOfRange
  <2> QED BY <2>2
<1>8. g[0] = Start0(h, left)
  <2>1. {} \in SUBSET DOMAIN plan /\ 1..0 = {}
    OBVIOUS
  <2>2. it[{}] = Body(it, {})
    BY <1>5, <2>1
  <2> QED BY <2>1, <2>2
<1>9. Started(h, left, plan) = g[n]
  BY <1>6
<1> HIDE DEF g
<1> QED BY <1>7, <1>8, <1>9

-----------------------------------------------------------------------------
(* When the timers of a new test are due *)

\* When the timer a step of the plan has made is due.
DueOf(s, step) == s.heap.cell[s.ptr[step.proc]].time

\* The first i timers of a plan are active, due when the plan says, and one
\* that is made before another and is not due later comes first.
Made(s, plan, i) ==
  ~s.failed =>
    /\ \A j \in 1..i : /\ s.ptr[plan[j].proc] \in Elems(s.heap.active)
                       /\ DueOf(s, plan[j]) = plan[j].at + plan[j].usecs
    /\ \A j, l \in 1..i :
         j < l /\ DueOf(s, plan[j]) <= DueOf(s, plan[l]) =>
           Before(s.heap.active, s.ptr[plan[j].proc], s.ptr[plan[l].proc])

\* What one more timer adds.
MadeOne(s, u, p) ==
  LET t == u.ptr[p.proc]
  IN /\ Created(s.heap, p.at + p.usecs, p.proc, p.usecs, p.periodic, t, u.heap)
     /\ \A q \in Procs \ {p.proc} : u.ptr[q] = s.ptr[q]
     /\ \A a, b : Before(s.heap.active, a, b) => Before(u.heap.active, a, b)

LEMMA StartsEmpty ==
  ASSUME NEW h, Good(h), h.active = <<>>, NEW left \in 0..Unused(h),
         NEW plan, NEW k \in Nat, k # 0, NEW t0
  PROVE  Building(Start0(h, left), plan, 0, k, t0)
<1> DEFINE s == Start0(h, left)
           zero == 0
<1>1. /\ s.heap = h /\ s.ptr = NoPtr /\ s.left = left /\ ~s.failed
      /\ s = [heap |-> h, ptr |-> NoPtr, left |-> left, failed |-> FALSE]
  BY DEF Start0
<1>2. NoPtr \in PtrType /\ \A q \in Procs : NoPtr[q] = NoTimer
  BY DEF NoPtr, PtrType, Null
<1>3. Elems(h.active) = {}
  BY DEF Elems
<1>4. IsFiniteSet(Cells) /\ Cardinality(Cells) \in Nat
  BY TestAssumption, FS_CardinalityType
<1>5. h \in Heap /\ Len(h.active) \in Nat /\ Len(h.free) \in Nat
  BY GoodIs, CellsOf
<1>6. left \in Nat /\ left <= Unused(h)
  BY <1>4, <1>5 DEF Unused
<1>7. Live(h, NoPtr) /\ Kinds(h)
  BY <1>2, <1>3 DEF Live, Kinds
<1>8. k # zero /\ ~(k < zero)
  OBVIOUS
<1> HIDE DEF s, zero
<1>9. s \in StartState
  BY <1>1, <1>2, <1>5, <1>6 DEF StartState
<1>10. Building(s, plan, zero, k, t0)
  BY <1>1, <1>2, <1>6, <1>7, <1>8, <1>9 DEF Building
<1> QED BY <1>10 DEF s, zero

LEMMA CreateMakes ==
  ASSUME NEW plan, NEW n, NEW k, NEW t0 \in Int, Planned(plan, n, k, t0), NEW i \in 1..n,
         NEW s, Building(s, plan, i - 1, k, t0), ~Create(s, plan[i]).failed
  PROVE  ~s.failed /\ MadeOne(s, Create(s, plan[i]), plan[i])
<1> DEFINE u == Create(s, plan[i])
           h == s.heap
           p == plan[i]
           t == Fresh(h)
           g == tmr_create(h, p.at, p.proc, p.usecs, p.periodic)
           z == [s.ptr EXCEPT ![p.proc] = t]
           left == IF h.free = <<>> THEN s.left - 1 ELSE s.left
<1>1. /\ s \in StartState /\ Good(s.heap) /\ s.heap \in Heap /\ s.ptr \in PtrType
      /\ s.left \in Nat /\ s.failed \in BOOLEAN
  BY DEF Building, StartState
<1>2. ~s.failed /\ (h.free # <<>> \/ s.left # 0)
  <2> SUFFICES ASSUME s.failed \/ (h.free = <<>> /\ s.left = 0) PROVE u.failed
    OBVIOUS
  <2>1. u = [s EXCEPT !.failed = TRUE]
    BY DEF Create
  <2> QED BY <1>1, <2>1 DEF StartState
<1>3. u = [heap |-> g, ptr |-> z, left |-> left, failed |-> FALSE]
  BY <1>2 DEF Create
<1>4. p.proc \in Procs /\ p.at \in Int /\ p.usecs \in Int /\ p.periodic \in BOOLEAN
  <2>1. p \in PlanStep
    BY DEF Planned
  <2> QED BY <2>1 DEF PlanStep
<1>5. h.free # <<>> \/ Cells \ Elems(h.active) # {}
  <2>1. CASE h.free = <<>>
    <3>1. s.left <= Unused(h)
      BY <1>2 DEF Building
    <3>2. IsFiniteSet(Cells) /\ Cardinality(Cells) \in Nat
      BY TestAssumption, FS_CardinalityType
    <3>3. Len(h.active) \in Nat /\ Len(h.free) \in Nat
      BY <1>1, GoodIs, CellsOf
    <3>4. Unused(h) > 0
      BY <1>1, <1>2, <2>1, <3>1, <3>2, <3>3 DEF Unused
    <3> QED BY <1>1, <2>1, <3>4, CellLeft
  <2> QED BY <2>1
<1> DEFINE at == p.at
           pr == p.proc
           us == p.usecs
           pe == p.periodic
<1>6. /\ Good(h) /\ (h.free # <<>> \/ Cells \ Elems(h.active) # {})
      /\ at \in Int /\ pr \in Procs /\ us \in Int /\ pe \in BOOLEAN
      /\ g = tmr_create(h, at, pr, us, pe)
  BY <1>1, <1>4, <1>5
<1>7. u.heap = g /\ u.ptr = z
  BY <1>3
<1>8. z[pr] = t /\ \A q \in Procs \ {pr} : z[q] = s.ptr[q]
  BY <1>1, <1>4 DEF PtrType
<1> HIDE DEF u, h, g, z, t, at, pr, us, pe
<1>9. Created(h, at + us, pr, us, pe, t, g)
  <2>1. Created(h, at + us, pr, us, pe, Fresh(h), tmr_create(h, at, pr, us, pe))
    BY <1>6, CreateGood
  <2> QED BY <1>6, <2>1 DEF t
<1>10. ASSUME NEW a, NEW b, Before(h.active, a, b) PROVE Before(g.active, a, b)
  <2>1. Fresh(h) \in Cells
    BY <1>9 DEF Created, t
  <2> QED BY <1>6, <1>10, <2>1, CreateKeeps
<1>11. MadeOne(s, u, p)
  BY <1>7, <1>8, <1>9, <1>10 DEF MadeOne, h, at, pr, us, pe
<1> QED BY <1>2, <1>11 DEF u

LEMMA CreateMade ==
  ASSUME NEW plan, NEW n, NEW k, NEW t0 \in Int, Planned(plan, n, k, t0), NEW i \in 1..n,
         NEW s, Building(s, plan, i - 1, k, t0), Made(s, plan, i - 1)
  PROVE  Made(Create(s, plan[i]), plan, i)
<1> DEFINE u == Create(s, plan[i])
           h == s.heap
           g == u.heap
           z == u.ptr
           t == z[plan[i].proc]
<1> SUFFICES ASSUME ~u.failed PROVE Made(u, plan, i)
  BY DEF Made
<1>1. ~s.failed /\ MadeOne(s, u, plan[i])
  BY CreateMakes
<1> HIDE DEF u
<1>2. n \in Nat /\ i \in 1..n /\ \A j \in 1..n : plan[j].proc \in Procs
  BY DEF Planned, PlanStep
<1>3. \A j, l \in 1..n : plan[j].proc = plan[l].proc => j = l
  BY DEF Planned
<1>4. /\ \A j \in 1..(i - 1) : /\ s.ptr[plan[j].proc] \in Elems(h.active)
                               /\ DueOf(s, plan[j]) = plan[j].at + plan[j].usecs
      /\ \A j, l \in 1..(i - 1) :
           j < l /\ DueOf(s, plan[j]) <= DueOf(s, plan[l]) =>
             Before(h.active, s.ptr[plan[j].proc], s.ptr[plan[l].proc])
  BY <1>1 DEF Made
<1>5. /\ t \in Cells /\ t \notin Elems(h.active) /\ Good(g)
      /\ Elems(g.active) = Elems(h.active) \cup {t}
      /\ g.cell[t].time = plan[i].at + plan[i].usecs
      /\ \A x \in Cells \ {t} : g.cell[x] = h.cell[x]
      /\ LastDue(g.active, g.cell, t)
      /\ \A q \in Procs \ {plan[i].proc} : z[q] = s.ptr[q]
      /\ \A a, b : Before(h.active, a, b) => Before(g.active, a, b)
  BY <1>1 DEF MadeOne, Created
<1>6. Elems(h.active) \subseteq Cells
  BY GoodIs, CellsOf DEF Building
<1>7. ASSUME NEW j \in 1..(i - 1)
      PROVE  /\ z[plan[j].proc] = s.ptr[plan[j].proc]
             /\ z[plan[j].proc] \in Elems(h.active) /\ z[plan[j].proc] # t
             /\ DueOf(u, plan[j]) = DueOf(s, plan[j])
  <2>1. j \in 1..n /\ j # i
    BY <1>2
  <2>2. plan[j].proc \in Procs \ {plan[i].proc}
    BY <1>2, <1>3, <2>1
  <2>3. z[plan[j].proc] = s.ptr[plan[j].proc]
    BY <1>5, <2>2
  <2> QED BY <1>4, <1>5, <1>6, <2>3 DEF DueOf
<1>8. DueOf(u, plan[i]) = plan[i].at + plan[i].usecs
  BY <1>5 DEF DueOf
<1>9. \A j \in 1..i : j = i \/ j \in 1..(i - 1)
  BY <1>2
<1>10. ASSUME NEW j \in 1..i
       PROVE  z[plan[j].proc] \in Elems(g.active)
              /\ DueOf(u, plan[j]) = plan[j].at + plan[j].usecs
  BY <1>4, <1>5, <1>7, <1>8, <1>9
<1>11. ASSUME NEW j \in 1..i, NEW l \in 1..i, j < l, DueOf(u, plan[j]) <= DueOf(u, plan[l])
       PROVE  Before(g.active, z[plan[j].proc], z[plan[l].proc])
  <2>1. j \in 1..(i - 1)
    BY <1>2, <1>11
  <2>2. CASE l = i
    <3>1. g.active \in Seq(Cells) /\ g.cell \in [Cells -> Timer]
      BY <1>5, GoodIs
    <3>2. z[plan[j].proc] \in Elems(g.active) /\ z[plan[j].proc] # t
      BY <1>5, <1>7, <2>1
    <3>3. g.cell[z[plan[j].proc]].time <= g.cell[t].time
      BY <1>11, <2>2 DEF DueOf
    <3> HIDE DEF t, g, z
    <3>4. Before(g.active, z[plan[j].proc], t)
      BY <1>5, <3>1, <3>2, <3>3, LastIsAfter
    <3> QED BY <2>2, <3>4 DEF t
  <2>3. CASE l \in 1..(i - 1)
    BY <1>4, <1>5, <1>7, <1>11, <2>1, <2>3
  <2> QED BY <1>9, <2>2, <2>3
<1> QED BY <1>10, <1>11 DEF Made

\* A started test: what its plan is and what has become of it.
Built(s, d, o, t0, t1) ==
  LET plan == Plan(d, o, t0, t1)
  IN \E n, k : /\ Planned(plan, n, k, t0) /\ Timing(plan, n, k, d, o, t0, t1)
               /\ Building(s, plan, n, k, t0) /\ Made(s, plan, n)

LEMMA StartedBuilt ==
  ASSUME NEW h, Good(h), h.active = <<>>, NEW left \in 0..Unused(h),
         NEW d \in Int, NEW o \in Int, NEW t0 \in Int, NEW t1 \in Int
  PROVE  Built(Started(h, left, Plan(d, o, t0, t1)), d, o, t0, t1)
<1> DEFINE plan == Plan(d, o, t0, t1)
<1>1. PICK n, k : Planned(plan, n, k, t0) /\ Timing(plan, n, k, d, o, t0, t1)
  BY PlanIs
<1> HIDE DEF plan
<1>2. n \in Nat /\ k \in 1..n /\ k + 1 \in 1..n /\ DOMAIN plan = 1..n
  BY <1>1 DEF Planned
<1>3. PICK g : /\ g[0] = Start0(h, left)
               /\ \A i \in 1..n : g[i] = Create(g[i - 1], plan[i])
               /\ Started(h, left, plan) = g[n]
  <2>1. n \in Nat /\ DOMAIN plan = 1..n
    BY <1>2
  <2> QED BY <2>1, CreateSteps
<1> DEFINE S == {i \in Nat : i <= n => Building(g[i], plan, i, k, t0) /\ Made(g[i], plan, i)}
<1>4. 0 \in S
  <2> DEFINE s == g[0]
  <2>1. s = Start0(h, left)
    BY <1>3
  <2> HIDE DEF s
  <2>2. Building(s, plan, 0, k, t0)
    BY <1>2, <2>1, StartsEmpty
  <2>3. Made(s, plan, 0)
    BY DEF Made
  <2> QED BY <2>2, <2>3 DEF s
<1>5. ASSUME NEW i \in Nat, i \in S PROVE i + 1 \in S
  <2> SUFFICES ASSUME i + 1 <= n
               PROVE  Building(g[i + 1], plan, i + 1, k, t0) /\ Made(g[i + 1], plan, i + 1)
    OBVIOUS
  <2> DEFINE j == i + 1
  <2>1. j \in 1..n /\ j - 1 = i
    BY <1>2
  <2>2. Building(g[j - 1], plan, j - 1, k, t0) /\ Made(g[j - 1], plan, j - 1)
    BY <1>2, <1>5, <2>1
  <2> HIDE DEF j, S
  <2>3. Building(Create(g[j - 1], plan[j]), plan, j, k, t0)
    BY <1>1, <2>1, <2>2, CreateStep
  <2>4. Made(Create(g[j - 1], plan[j]), plan, j)
    BY <1>1, <2>1, <2>2, CreateMade
  <2>5. Building(g[j], plan, j, k, t0) /\ Made(g[j], plan, j)
    BY <1>3, <2>1, <2>3, <2>4
  <2> QED BY <2>5 DEF j
<1>6. n \in S
  <2> HIDE DEF S
  <2> QED BY <1>2, <1>4, <1>5, NatSetInduction
<1>7. Building(g[n], plan, n, k, t0) /\ Made(g[n], plan, n)
  BY <1>2, <1>6
<1> DEFINE s == Started(h, left, plan)
<1>8. Building(s, plan, n, k, t0) /\ Made(s, plan, n)
  BY <1>3, <1>7
<1> HIDE DEF s
<1>9. Built(s, d, o, t0, t1)
  BY <1>1, <1>8 DEF Built, plan
<1> QED BY <1>9 DEF s, plan

StartResult(s) ==
  /\ s \in StartState /\ Good(s.heap) /\ Live(s.heap, s.ptr) /\ Kinds(s.heap)
  /\ ~s.failed => Ready(s.heap, s.ptr)

LEMMA StartedGood ==
  ASSUME NEW h, Good(h), h.active = <<>>, NEW left \in 0..Unused(h),
         NEW d \in Int, NEW o \in Int, NEW t0 \in Int, NEW t1 \in Int
  PROVE  StartResult(Started(h, left, Plan(d, o, t0, t1)))
<1> DEFINE plan == Plan(d, o, t0, t1)
           s == Started(h, left, plan)
<1>1. Built(s, d, o, t0, t1)
  BY StartedBuilt
<1>2. PICK n, k : Planned(plan, n, k, t0) /\ Building(s, plan, n, k, t0)
  BY <1>1 DEF Built
<1> HIDE DEF plan, s
<1>3. k < n
  BY <1>2 DEF Planned
<1>4. StartResult(s)
  BY <1>2, <1>3 DEF Building, StartResult
<1> QED BY <1>4 DEF s, plan

-----------------------------------------------------------------------------
(* Cancelling the timers of a test *)

CancelOne(g, p, q) == IF p[q] = NoTimer THEN g ELSE tmr_cancel(g, p[q])
Cancels(h, p, order) ==
  FoldLeft(LAMBDA g, q : IF p[q] = NoTimer THEN g ELSE tmr_cancel(g, p[q]), h, order)
Order ==
  IF role = "c" THEN SendTimers \o <<"omit_timer", "timer", "stats_timer", "reporter_timer">>
  ELSE <<"stats_timer", "reporter_timer", "omit_timer">> \o SendTimers

LEMMA CancelSteps ==
  ASSUME NEW n \in Nat, NEW order, DOMAIN order = 1..n, NEW h, NEW p
  PROVE  \E g : /\ g[0] = h
                /\ \A i \in 1..n : g[i] = CancelOne(g[i - 1], p, order[i])
                /\ Cancels(h, p, order) = g[n]
<1> DEFINE Body(it, s) == IF s = {} THEN h
                          ELSE CancelOne(it[s \ {Max(s)}], p, order[Max(s)])
           Is(it, D) == it = [s \in SUBSET D |-> Body(it, s)]
           S == {k \in Nat : \E it : Is(it, 1..k)}
<1>1. 0 \in S
  <2> DEFINE it == [s \in SUBSET (1..0) |-> h]
  <2>1. \A s \in SUBSET (1..0) : Body(it, s) = h
    OBVIOUS
  <2>2. Is(it, 1..0)
    BY <2>1
  <2> QED BY <2>2
<1>2. ASSUME NEW k \in Nat, k \in S PROVE k + 1 \in S
  <2>1. PICK it : Is(it, 1..k)
    BY <1>2
  <2> DEFINE jt == [s \in SUBSET (1..(k + 1)) |-> Body(it, s)]
  <2>2. ASSUME NEW s \in SUBSET (1..(k + 1)) PROVE Body(jt, s) = Body(it, s)
    <3>1. CASE s = {}
      BY <3>1
    <3>2. CASE s # {}
      <4> DEFINE r == s \ {Max(s)}
      <4>1. r \in SUBSET (1..k)
        BY <3>2, WithoutLast
      <4>2. r \in SUBSET (1..(k + 1))
        OBVIOUS
      <4> HIDE DEF r
      <4>3. it[r] = Body(it, r)
        BY <4>1, <2>1
      <4>4. jt[r] = Body(it, r)
        BY <4>2
      <4> QED BY <4>3, <4>4 DEF r
    <3> QED BY <3>1, <3>2
  <2>3. Is(jt, 1..(k + 1))
    BY <2>2
  <2>4. k + 1 \in Nat
    OBVIOUS
  <2>5. \E lt : Is(lt, 1..(k + 1))
    BY <2>3
  <2> QED BY <2>4, <2>5
<1>3. n \in S
  <2> HIDE DEF S
  <2> QED BY <1>1, <1>2, NatSetInduction
<1>4. PICK jt : Is(jt, 1..n)
  BY <1>3
<1> DEFINE it == CHOOSE it : Is(it, DOMAIN order)
<1>5. Is(it, DOMAIN order)
  BY <1>4
<1>6. Cancels(h, p, order) = it[DOMAIN order]
  BY DEF Cancels, CancelOne, FoldLeft, MapThenFoldSet
<1> DEFINE g == [i \in 0..n |-> it[1..i]]
<1>7. ASSUME NEW i \in 1..n PROVE g[i] = CancelOne(g[i - 1], p, order[i])
  <2>a. 1..i \in SUBSET DOMAIN order
    BY LastOfRange
  <2>1. it[1..i] = Body(it, 1..i)
    BY <1>5, <2>a
  <2>2. it[1..i] = CancelOne(it[1..(i - 1)], p, order[i])
    BY <2>1, LastOfRange
  <2> QED BY <2>2
<1>8. g[0] = h
  <2>1. {} \in SUBSET DOMAIN order /\ 1..0 = {}
    OBVIOUS
  <2>2. it[{}] = Body(it, {})
    BY <1>5, <2>1
  <2> QED BY <2>1, <2>2
<1>9. Cancels(h, p, order) = g[n]
  BY <1>6
<1> HIDE DEF g
<1> QED BY <1>7, <1>8, <1>9

------------------------------------------------------------------------\* Every kind once, but for the duration timer, which a server does not have.
Ordered(order, n) ==
  /\ n \in Nat /\ DOMAIN order = 1..n /\ \A i \in 1..n : order[i] \in Procs
  /\ \A i, j \in 1..n : order[i] = order[j] => i = j
  /\ \A q \in Procs : (q = "timer" => role = "c") => \E i \in 1..n : order[i] = q

LEMMA OrderIs == \E n : Ordered(Order, n)
<1> DEFINE a == <<"omit_timer", "timer", "stats_timer", "reporter_timer">>
           b == <<"stats_timer", "reporter_timer", "omit_timer">>
           m == Len(SendTimers)
<1>1. /\ m \in Nat /\ SendTimers \in Seq(Procs)
      /\ \A i \in 1..m : SendTimers[i] \in Procs /\ SendTimers[i] \notin TestProcs
      /\ \A i, j \in 1..m : SendTimers[i] = SendTimers[j] => i = j
      /\ \A q \in Procs : q \notin TestProcs => \E i \in 1..m : SendTimers[i] = q
      /\ TestProcs \subseteq Procs
  BY Senders DEF NoneTwice, Elems
<1>2. /\ a \in Seq(Procs) /\ Len(a) = 4
      /\ a[1] = "omit_timer" /\ a[2] = "timer" /\ a[3] = "stats_timer" /\ a[4] = "reporter_timer"
  BY <1>1 DEF TestProcs
<1>3. /\ b \in Seq(Procs) /\ Len(b) = 3
      /\ b[1] = "stats_timer" /\ b[2] = "reporter_timer" /\ b[3] = "omit_timer"
  BY <1>1 DEF TestProcs
<1>4. /\ \A i \in 1..4 : a[i] \in TestProcs
      /\ \A i, j \in 1..4 : a[i] = a[j] => i = j
      /\ \A q \in TestProcs : \E i \in 1..4 : a[i] = q
  BY <1>2 DEF TestProcs
<1>5. /\ \A i \in 1..3 : b[i] \in TestProcs
      /\ \A i, j \in 1..3 : b[i] = b[j] => i = j
      /\ \A q \in TestProcs \ {"timer"} : \E i \in 1..3 : b[i] = q
  BY <1>3 DEF TestProcs
<1>6. role = "c" => Order = SendTimers \o a
  BY DEF Order
<1>7. role # "c" => Order = b \o SendTimers
  BY DEF Order
<1> HIDE DEF a, b, m
<1> DEFINE o == Order
<1>8. CASE role = "c"
  <2> DEFINE n == m + 4
  <2>1. /\ o \in Seq(Procs) /\ Len(o) = n
        /\ \A i \in 1..m : o[i] = SendTimers[i]
        /\ \A i \in 1..4 : o[m + i] = a[i]
    <3>1. o = SendTimers \o a
      BY <1>6, <1>8
    <3>2. FromTwo(SendTimers \o a, Procs, SendTimers, a)
      BY <1>1, <1>2, TwoParts
    <3> HIDE DEF o
    <3> QED BY <1>2, <3>1, <3>2 DEF m, FromTwo
  <2> HIDE DEF o
  <2>2. \A i \in 1..n : i \in 1..m \/ i - m \in 1..4
    BY <1>1
  <2>3. \A i \in 1..n : i - m \in 1..4 => o[i] = a[i - m]
    <3> SUFFICES ASSUME NEW i \in 1..n, i - m \in 1..4 PROVE o[i] = a[i - m]
      OBVIOUS
    <3> DEFINE j == i - m
    <3>1. j \in 1..4 /\ m + j = i
      BY <1>1
    <3> HIDE DEF j, n
    <3>2. o[i] = a[j]
      BY <2>1, <3>1
    <3> QED BY <3>2 DEF j
  <2>4. ASSUME NEW i \in 1..n, NEW j \in 1..n, o[i] = o[j] PROVE i = j
    <3>1. CASE i \in 1..m /\ j \in 1..m
      BY <1>1, <2>1, <2>4, <3>1
    <3>2. CASE i \notin 1..m /\ j \notin 1..m
      <4>1. o[i] = a[i - m] /\ o[j] = a[j - m] /\ i - m \in 1..4 /\ j - m \in 1..4
        BY <2>2, <2>3, <3>2
      <4>2. i - m = j - m
        BY <1>4, <2>4, <4>1
      <4> QED BY <1>1, <4>2
    <3>3. \A u \in 1..n : u \in 1..m => o[u] \notin TestProcs
      BY <1>1, <2>1
    <3>4. \A u \in 1..n : u \notin 1..m => o[u] \in TestProcs
      BY <1>4, <2>2, <2>3
    <3> QED BY <2>4, <3>1, <3>2, <3>3, <3>4
  <2>5. ASSUME NEW q \in Procs PROVE \E i \in 1..n : o[i] = q
    <3>1. CASE q \in TestProcs
      <4>1. PICK i \in 1..4 : a[i] = q
        BY <1>4, <3>1
      <4>2. m + i \in 1..n /\ o[m + i] = q
        BY <1>1, <2>1, <4>1
      <4> QED BY <4>2
    <3>2. CASE q \notin TestProcs
      <4>1. PICK i \in 1..m : SendTimers[i] = q
        BY <1>1, <3>2
      <4>2. i \in 1..n /\ o[i] = q
        BY <1>1, <2>1, <4>1
      <4> QED BY <4>2
    <3> QED BY <3>1, <3>2
  <2>6. n \in Nat /\ DOMAIN o = 1..n
    BY <1>1, <2>1
  <2>7. \A i \in 1..n : o[i] \in Procs
    BY <2>1, <2>6, ElementOfSeq
  <2> HIDE DEF n
  <2>8. Ordered(o, n)
    BY <2>4, <2>5, <2>6, <2>7 DEF Ordered
  <2> QED BY <2>8 DEF o
<1>9. CASE role # "c"
  <2> DEFINE n == 3 + m
  <2>1. /\ o \in Seq(Procs) /\ Len(o) = n
        /\ \A i \in 1..3 : o[i] = b[i]
        /\ \A i \in 1..m : o[3 + i] = SendTimers[i]
    <3>1. o = b \o SendTimers
      BY <1>7, <1>9
    <3>2. FromTwo(b \o SendTimers, Procs, b, SendTimers)
      BY <1>1, <1>3, TwoParts
    <3> HIDE DEF o
    <3> QED BY <1>3, <3>1, <3>2 DEF m, FromTwo
  <2> HIDE DEF o
  <2>2. \A i \in 1..n : i \in 1..3 \/ i - 3 \in 1..m
    BY <1>1
  <2>3. \A i \in 1..n : i - 3 \in 1..m => o[i] = SendTimers[i - 3]
    <3> SUFFICES ASSUME NEW i \in 1..n, i - 3 \in 1..m PROVE o[i] = SendTimers[i - 3]
      OBVIOUS
    <3> DEFINE j == i - 3
    <3>1. j \in 1..m /\ 3 + j = i
      BY <1>1
    <3> HIDE DEF j, n
    <3>2. o[i] = SendTimers[j]
      BY <2>1, <3>1
    <3> QED BY <3>2 DEF j
  <2>4. ASSUME NEW i \in 1..n, NEW j \in 1..n, o[i] = o[j] PROVE i = j
    <3>1. CASE i \in 1..3 /\ j \in 1..3
      BY <1>5, <2>1, <2>4, <3>1
    <3>2. CASE i \notin 1..3 /\ j \notin 1..3
      <4>1. o[i] = SendTimers[i - 3] /\ o[j] = SendTimers[j - 3]
            /\ i - 3 \in 1..m /\ j - 3 \in 1..m
        BY <2>2, <2>3, <3>2
      <4>2. i - 3 = j - 3
        BY <1>1, <2>4, <4>1
      <4> QED BY <1>1, <4>2
    <3>3. \A u \in 1..n : u \in 1..3 => o[u] \in TestProcs
      BY <1>5, <2>1
    <3>4. \A u \in 1..n : u \notin 1..3 => o[u] \notin TestProcs
      BY <1>1, <2>2, <2>3
    <3> QED BY <2>4, <3>1, <3>2, <3>3, <3>4
  <2>5. ASSUME NEW q \in Procs, q # "timer" PROVE \E i \in 1..n : o[i] = q
    <3>1. CASE q \in TestProcs
      <4>1. PICK i \in 1..3 : b[i] = q
        BY <1>5, <2>5, <3>1
      <4>2. i \in 1..n /\ o[i] = q
        BY <1>1, <2>1, <4>1
      <4> QED BY <4>2
    <3>2. CASE q \notin TestProcs
      <4>1. PICK i \in 1..m : SendTimers[i] = q
        BY <1>1, <3>2
      <4>2. 3 + i \in 1..n /\ o[3 + i] = q
        BY <1>1, <2>1, <4>1
      <4> QED BY <4>2
    <3> QED BY <3>1, <3>2
  <2>6. n \in Nat /\ DOMAIN o = 1..n
    BY <1>1, <2>1
  <2>7. \A i \in 1..n : o[i] \in Procs
    BY <2>1, <2>6, ElementOfSeq
  <2> HIDE DEF n
  <2>8. Ordered(o, n)
    BY <1>9, <2>4, <2>5, <2>6, <2>7 DEF Ordered
  <2> QED BY <2>8 DEF o
<1> QED BY <1>8, <1>9

\* When all are cancelled no timer of the test is active: no timer that is not
\* active is cancelled, and no timer twice.
Emptied(g) == Good(g) /\ g.active = <<>>

LEMMA CancelAllGood ==
  ASSUME NEW h, Good(h), NEW p \in PtrType, Live(h, p), Kinds(h)
  PROVE  Emptied(CancelAll(h, p))
<1> DEFINE order == Order
           E == Elems(h.active)
           Left(i) == {t \in E : \A j \in 1..i : order[j] # h.cell[t].proc}
<1>1. PICK n : Ordered(order, n)
  BY OrderIs
<1>2. CancelAll(h, p) = Cancels(h, p, order)
  BY DEF CancelAll, Cancels, Order
<1> HIDE DEF order
<1>3. n \in Nat /\ DOMAIN order = 1..n
  BY <1>1 DEF Ordered
<1>4. PICK g : /\ g[0] = h
               /\ \A i \in 1..n : g[i] = CancelOne(g[i - 1], p, order[i])
               /\ Cancels(h, p, order) = g[n]
  BY <1>3, CancelSteps
<1> DEFINE Done(i) == Good(g[i]) /\ g[i].cell = h.cell /\ Elems(g[i].active) = Left(i)
           S == {i \in Nat : i <= n => Done(i)}
<1>5. 0 \in S
  BY <1>4
<1>6. E \subseteq Cells /\ \A t \in E : h.cell[t].proc \in Procs /\ t # NoTimer
  <2>1. E \subseteq Cells /\ h.cell \in [Cells -> Timer]
    BY GoodIs, CellsOf
  <2> QED BY <2>1, TimerAssumption DEF Timer
<1>7. ASSUME NEW i \in Nat, i \in S PROVE i + 1 \in S
  <2> SUFFICES ASSUME i + 1 <= n PROVE Done(i + 1)
    OBVIOUS
  <2> DEFINE j == i + 1
             q == order[j]
  <2>1. j \in 1..n /\ j - 1 = i /\ 1..j = (1..i) \cup {j} /\ i <= n
    BY <1>3
  <2>2. Done(i)
    BY <1>7, <2>1
  <2>3. g[j] = CancelOne(g[i], p, q)
    BY <1>4, <2>1
  <2>4. q \in Procs /\ \A u \in 1..i : order[u] # q
    <3>1. q \in Procs /\ \A u, v \in 1..n : order[u] = order[v] => u = v
      BY <1>1, <2>1 DEF Ordered
    <3> HIDE DEF S, Done, Left, q
    <3>2. \A u \in 1..i : u \in 1..n /\ u # j
      BY <1>3, <2>1
    <3> QED BY <2>1, <3>1, <3>2 DEF q
  <2>5. Left(j) = {t \in Left(i) : h.cell[t].proc # q}
    BY <2>1
  <2> HIDE DEF j, q, S
  <2>6. CASE p[q] = NoTimer
    <3>1. g[j] = g[i]
      BY <2>3, <2>6 DEF CancelOne
    <3>2. \A t \in E : h.cell[t].proc # q
      BY <1>6, <2>6 DEF Live
    <3>3. Left(j) = Left(i)
      BY <2>5, <3>2
    <3> QED BY <2>2, <3>1, <3>3 DEF j
  <2>7. CASE p[q] # NoTimer
    <3> DEFINE t == p[q]
    <3>1. g[j] = tmr_cancel(g[i], t)
      BY <2>3, <2>7 DEF CancelOne
    <3>2. t \in E /\ h.cell[t].proc = q
      BY <2>4, <2>7 DEF Live
    <3>3. t \in Elems(g[i].active)
      BY <2>2, <2>4, <3>2
    <3>4. \A x \in E : h.cell[x].proc = q => x = t
      BY DEF Live
    <3>5. Left(j) = Left(i) \ {t}
      BY <2>5, <3>2, <3>4
    <3> DEFINE a == g[i]
               b == g[j]
    <3>6. Good(a) /\ a.cell = h.cell /\ Elems(a.active) = Left(i) /\ t \in Elems(a.active)
          /\ b = tmr_cancel(a, t)
      BY <2>2, <3>1, <3>3
    <3> HIDE DEF a, b, t
    <3>7. Cancelled(a, t, b)
      BY <3>6, CancelGood
    <3>8. Good(b) /\ b.cell = h.cell /\ Elems(b.active) = Left(j)
      BY <3>5, <3>6, <3>7 DEF Cancelled
    <3> QED BY <3>8 DEF b, j
  <2> QED BY <2>6, <2>7
<1>8. n \in S
  <2> HIDE DEF S
  <2> QED BY <1>3, <1>5, <1>7, NatSetInduction
<1>9. Done(n)
  BY <1>3, <1>8
<1>10. Left(n) = {}
  <2> SUFFICES ASSUME NEW t \in E PROVE \E i \in 1..n : order[i] = h.cell[t].proc
    OBVIOUS
  <2>1. h.cell[t].proc = "timer" => role = "c"
    BY DEF Kinds
  <2> QED BY <1>1, <1>6, <2>1 DEF Ordered
<1>11. g[n].active = <<>>
  <2>1. g[n].active \in Seq(Cells) /\ Elems(g[n].active) = {}
    BY <1>9, <1>10, GoodIs
  <2> DEFINE s == g[n].active
  <2> HIDE DEF s
  <2>2. s \in Seq(Cells) /\ Elems(s) = {}
    BY <2>1 DEF s
  <2>3. Len(s) \in Nat /\ ~(1 \in 1..Len(s))
    BY <2>2, LenProperties DEF Elems
  <2>4. Len(s) = 0
    BY <2>3
  <2>5. s = <<>>
    BY <2>2, <2>4, EmptySeq
  <2> QED BY <2>5 DEF s
<1> QED BY <1>2, <1>4, <1>9, <1>11 DEF Emptied
-----------------------------------------------------------------------------
(* The place of a timer in the active list *)

LEMMA AdjacentFacts ==
  ASSUME NEW list \in Seq(Cells), NoneTwice(list)
  PROVE  /\ \A a, b : Adjacent(list, a, b) =>
              a \in Elems(list) /\ b \in Elems(list) /\ a # b /\ Head(list) # b
         /\ \A a, b, c : Adjacent(list, a, c) /\ Adjacent(list, b, c) => a = b
         /\ \A a, b, c : Adjacent(list, a, b) /\ Adjacent(list, a, c) => b = c
<1> DEFINE n == Len(list)
<1>1. n \in Nat /\ \A i, j \in 1..n : list[i] = list[j] => i = j
  BY LenProperties DEF NoneTwice
<1>2. \A i \in 1..n : list[i] \in Elems(list)
  BY DEF Elems
<1>3. \A i \in 1..(n - 1) : i \in 1..n /\ i + 1 \in 1..n /\ i # i + 1 /\ i + 1 # 1 /\ 1 \in 1..n
  BY <1>1
<1>4. Head(list) = list[1]
  OBVIOUS
<1> HIDE DEF n
<1>5. ASSUME NEW a, NEW b, Adjacent(list, a, b)
      PROVE  a \in Elems(list) /\ b \in Elems(list) /\ a # b /\ Head(list) # b
  <2>1. PICK i \in 1..(n - 1) : list[i] = a /\ list[i + 1] = b
    BY <1>5 DEF Adjacent, n
  <2> QED BY <1>1, <1>2, <1>3, <1>4, <2>1
<1>6. ASSUME NEW a, NEW b, NEW c, Adjacent(list, a, c), Adjacent(list, b, c) PROVE a = b
  <2>1. PICK i \in 1..(n - 1) : list[i] = a /\ list[i + 1] = c
    BY <1>6 DEF Adjacent, n
  <2>2. PICK j \in 1..(n - 1) : list[j] = b /\ list[j + 1] = c
    BY <1>6 DEF Adjacent, n
  <2>3. i + 1 = j + 1
    BY <1>1, <1>3, <2>1, <2>2
  <2>4. i = j
    BY <2>3
  <2> QED BY <2>1, <2>2, <2>4
<1>7. ASSUME NEW a, NEW b, NEW c, Adjacent(list, a, b), Adjacent(list, a, c) PROVE b = c
  <2>1. PICK i \in 1..(n - 1) : list[i] = a /\ list[i + 1] = b
    BY <1>7 DEF Adjacent, n
  <2>2. PICK j \in 1..(n - 1) : list[j] = a /\ list[j + 1] = c
    BY <1>7 DEF Adjacent, n
  <2>3. i = j
    BY <1>1, <1>3, <2>1, <2>2
  <2> QED BY <2>1, <2>2, <2>3
<1> QED BY <1>5, <1>6, <1>7

\* What the link of an active timer is.
LEMMA LinkIs ==
  ASSUME NEW h, Good(h), NEW t \in Elems(h.active)
  PROVE  /\ Link(h, t) = NoTimer \/ Adjacent(h.active, t, Link(h, t))
         /\ \A r : Adjacent(h.active, t, r) => Link(h, t) = r
<1> DEFINE list == h.active
           n == Len(list)
           k == CHOOSE j \in 1..n : list[j] = t
           next == IF k < n THEN list[k + 1] ELSE NoTimer
<1>1. list \in Seq(Cells) /\ NoneTwice(list) /\ n \in Nat
  BY GoodIs, CellsOf
<1>2. \E i \in 1..n : list[i] = t
  BY DEF Elems
<1>3. Link(h, t) = next
  BY <1>2 DEF Link
<1>4. k \in 1..n /\ list[k] = t
  BY <1>2
<1> HIDE DEF k
<1>5. next = NoTimer \/ Adjacent(list, t, next)
  <2>1. CASE k < n
    <3>1. k \in 1..(n - 1) /\ next = list[k + 1]
      BY <1>1, <1>4, <2>1
    <3> QED BY <1>4, <3>1 DEF Adjacent
  <2>2. CASE ~(k < n)
    BY <2>2
  <2> QED BY <2>1, <2>2
<1>6. ASSUME NEW r, Adjacent(list, t, r) PROVE next = r
  <2>1. PICK i \in 1..(n - 1) : list[i] = t /\ list[i + 1] = r
    BY <1>6 DEF Adjacent
  <2>2. i \in 1..n /\ i < n
    BY <1>1, <2>1
  <2>3. i = k
    BY <1>1, <1>4, <2>1, <2>2 DEF NoneTwice
  <2> QED BY <2>1, <2>2, <2>3
<1> QED BY <1>3, <1>5, <1>6

\* The loop goes on with another active timer, and not with the later of two
\* adjacent ones unless it is at the earlier.
GoesOn(h, t, n) ==
  /\ n = NoTimer \/ n \in Elems(h.active) \ {t}
  /\ \A a, b : Adjacent(h.active, a, b) => ((n = b /\ n # NoTimer) <=> a = t)

LEMMA LinkGoesOn ==
  ASSUME NEW h, Good(h), NEW t \in Elems(h.active)
  PROVE  GoesOn(h, t, Link(h, t))
<1> DEFINE n == Link(h, t)
<1>1. /\ n = NoTimer \/ Adjacent(h.active, t, n)
      /\ \A r : Adjacent(h.active, t, r) => n = r
  BY LinkIs
<1>2. h.active \in Seq(Cells) /\ NoneTwice(h.active) /\ NoTimer \notin Elems(h.active)
  BY GoodIs, CellsOf, TimerAssumption
<1>3. /\ \A a, b : Adjacent(h.active, a, b) =>
            a \in Elems(h.active) /\ b \in Elems(h.active) /\ a # b /\ Head(h.active) # b
      /\ \A a, b, c : Adjacent(h.active, a, c) /\ Adjacent(h.active, b, c) => a = b
  BY <1>2, AdjacentFacts
<1> HIDE DEF n
<1>4. n = NoTimer \/ n \in Elems(h.active) \ {t}
  BY <1>1, <1>3
<1>5. ASSUME NEW a, NEW b, Adjacent(h.active, a, b)
      PROVE  (n = b /\ n # NoTimer) <=> a = t
  BY <1>1, <1>2, <1>3, <1>5
<1>6. GoesOn(h, t, n)
  BY <1>4, <1>5 DEF GoesOn
<1> QED BY <1>6 DEF n

LEMMA LinkBefore ==
  ASSUME NEW h, Good(h), NEW t \in Elems(h.active), NEW b, Before(h.active, t, b)
  PROVE  Link(h, t) # NoTimer /\ (Link(h, t) = b \/ Before(h.active, Link(h, t), b))
<1> DEFINE list == h.active
           n == Len(list)
<1>1. list \in Seq(Cells) /\ n \in Nat /\ \A i \in 1..n : list[i] \in Cells
  BY GoodIs, LenProperties, ElementOfSeq
<1>2. PICK i \in 1..n, j \in 1..n : i < j /\ list[i] = t /\ list[j] = b
  BY DEF Before
<1> DEFINE k == i + 1
<1>3. i \in 1..(n - 1) /\ k \in 1..n /\ (k = j \/ k < j)
  BY <1>1, <1>2
<1>4. Adjacent(list, t, list[k])
  BY <1>2, <1>3 DEF Adjacent
<1> HIDE DEF k
<1>5. Link(h, t) = list[k]
  BY <1>4, LinkIs
<1>6. list[k] # NoTimer
  BY <1>1, <1>3, TimerAssumption
<1>7. CASE k = j
  BY <1>2, <1>5, <1>6, <1>7
<1>8. CASE k < j
  <2>1. Before(list, list[k], b)
    BY <1>2, <1>3, <1>8 DEF Before
  <2> QED BY <1>5, <1>6, <2>1
<1> QED BY <1>3, <1>7, <1>8

-----------------------------------------------------------------------------
(* What a turn of the loop makes of the heap *)

\* The timers that are active are some of those before, and of their kind.
Turned(h, g) ==
  /\ Good(g) /\ Elems(g.active) \subseteq Elems(h.active)
  /\ \A x \in Cells : /\ g.cell[x].proc = h.cell[x].proc /\ g.cell[x].usecs = h.cell[x].usecs
                      /\ g.cell[x].periodic = h.cell[x].periodic

LEMMA TurnedKinds ==
  ASSUME NEW h, Good(h), Kinds(h), NEW g, Turned(h, g)
  PROVE  Kinds(g)
<1>1. Elems(h.active) \subseteq Cells
  BY GoodIs, CellsOf
<1> QED BY <1>1 DEF Turned, Kinds

LEMMA TurnedLive ==
  ASSUME NEW h, Good(h), NEW p \in PtrType, Live(h, p), NEW g, Turned(h, g),
         Elems(g.active) = Elems(h.active)
  PROVE  Live(g, p)
<1>1. Elems(h.active) \subseteq Cells
  BY GoodIs, CellsOf
<1> QED BY <1>1 DEF Turned, Live

LEMMA CancelledLive ==
  ASSUME NEW h, Good(h), NEW p \in PtrType, Live(h, p), NEW g, Turned(h, g),
         NEW q \in Procs, p[q] # NoTimer, Elems(g.active) = Elems(h.active) \ {p[q]},
         NEW z, z = [p EXCEPT ![q] = NoTimer]
  PROVE  z \in PtrType /\ Live(g, z)
<1>1. Elems(h.active) \subseteq Cells /\ h.cell \in [Cells -> Timer]
  BY GoodIs, CellsOf
<1>2. z \in PtrType /\ z[q] = NoTimer /\ \A u \in Procs \ {q} : z[u] = p[u]
  BY DEF PtrType, Null
<1>3. \A x \in Elems(h.active) : h.cell[x].proc \in Procs /\ p[h.cell[x].proc] = x
  BY <1>1 DEF Live, Timer
<1>4. ASSUME NEW u \in Procs, z[u] # NoTimer
      PROVE  z[u] \in Elems(g.active) /\ g.cell[z[u]].proc = u
  <2>1. u # q /\ z[u] = p[u]
    BY <1>2, <1>4
  <2>2. p[u] \in Elems(h.active) /\ h.cell[p[u]].proc = u /\ h.cell[p[q]].proc = q
    BY <1>4, <2>1 DEF Live
  <2>3. p[u] # p[q]
    BY <2>1, <2>2
  <2> QED BY <1>1, <2>1, <2>2, <2>3 DEF Turned
<1>5. ASSUME NEW x \in Elems(g.active) PROVE z[g.cell[x].proc] = x
  <2>1. x \in Elems(h.active) /\ x # p[q]
    OBVIOUS
  <2>2. h.cell[x].proc # q
    BY <1>3, <2>1
  <2>3. g.cell[x].proc = h.cell[x].proc
    BY <1>1, <2>1 DEF Turned
  <2> QED BY <1>2, <1>3, <2>1, <2>2, <2>3
<1> QED BY <1>2, <1>4, <1>5 DEF Live

LEMMA RescheduledTurned ==
  ASSUME NEW h, NEW t, NEW time, NEW g, Rescheduled(h, t, time, g)
  PROVE  Turned(h, g)
BY DEF Rescheduled, Turned

LEMMA CancelledTurned ==
  ASSUME NEW h, NEW t, NEW g, Cancelled(h, t, g)
  PROVE  Turned(h, g)
BY DEF Cancelled, Turned

\* A timer that is not periodic is cancelled after its procedure.
LEMMA AfterOnce ==
  ASSUME NEW h, Good(h), NEW t \in Elems(h.active), ~h.cell[t].periodic
  PROVE  Cancelled(h, t, AfterProc(h, t))
<1>1. AfterProc(h, t) = tmr_cancel(h, t)
  BY DEF AfterProc
<1> QED BY <1>1, CancelGood

\* One that is goes on from the time it was due.
LEMMA AfterPeriodic ==
  ASSUME NEW h, Good(h), NEW t \in Elems(h.active), h.cell[t].periodic
  PROVE  Rescheduled(h, t, h.cell[t].time + h.cell[t].usecs, AfterProc(h, t))
<1> DEFINE time == h.cell[t].time + h.cell[t].usecs
<1>1. AfterProc(h, t) = Reschedule(h, t, time)
  BY DEF AfterProc
<1>2. t \in Cells /\ h.cell \in [Cells -> Timer]
  BY GoodIs, CellsOf
<1>3. time \in Int
  BY <1>2 DEF Timer
<1> HIDE DEF time
<1>4. Rescheduled(h, t, time, Reschedule(h, t, time))
  BY <1>3, RescheduleGood
<1> QED BY <1>1, <1>4 DEF time

\* The end of the omit period puts the two timers together, wherever they were.
LEMMA ResetTogether ==
  ASSUME NEW h, Good(h), Kinds(h), NEW s \in Elems(h.active), NEW r \in Elems(h.active),
         h.cell[s].proc = "stats_timer", h.cell[r].proc = "reporter_timer",
         NEW time \in Int, NEW a, NEW b, a = tmr_reset(h, time, s), b = tmr_reset(a, time, r)
  PROVE  Turned(h, b) /\ Elems(b.active) = Elems(h.active) /\ InPair(b, s, r)
<1> DEFINE due == time + Interval
<1>1. due \in Int
  BY TestAssumption
<1>2. s # r /\ s \in Cells /\ r \in Cells /\ h.cell[s].usecs = Interval /\ h.cell[r].usecs = Interval
  BY GoodIs, CellsOf DEF Kinds
<1>3. a = Reschedule(h, s, due)
  BY <1>2 DEF tmr_reset
<1> HIDE DEF due
<1>4. Rescheduled(h, s, due, a)
  BY <1>1, <1>3, RescheduleGood
<1>5. /\ Good(a) /\ Elems(a.active) = Elems(h.active) /\ LastDue(a.active, a.cell, s)
      /\ a.cell[s].time = due /\ a.cell[r].usecs = Interval
  BY <1>2, <1>4 DEF Rescheduled
<1>6. b = Reschedule(a, r, due)
  BY <1>5 DEF tmr_reset, due
<1>7. Rescheduled(a, r, due, b)
  BY <1>1, <1>5, <1>6, RescheduleGood
<1>8. Adjacent(b.active, s, r) /\ b.cell[s].time = due /\ b.cell[r].time = due
  BY <1>2, <1>5, <1>7 DEF Rescheduled
<1>9. Turned(h, b) /\ Elems(b.active) = Elems(h.active)
  BY <1>4, <1>7 DEF Rescheduled, Turned
<1> QED BY <1>8, <1>9 DEF InPair
-----------------------------------------------------------------------------
(* Whole intervals *)

Multiple(x) == \E k \in Nat : x = k * Interval

LEMMA MultipleOf ==
  ASSUME NEW d \in Nat, d % Interval = 0 PROVE Multiple(d)
<1>1. Interval \in Nat /\ Interval > 0
  BY TestAssumption
<1> DEFINE k == d \div Interval
<1>2. k \in Int /\ d = Interval * k + (d % Interval)
  BY <1>1
<1>3. d = k * Interval
  BY <1>1, <1>2
<1>4. k \in Nat
  <2> HIDE DEF k
  <2>1. CASE k < 0
    <3>1. Interval * k < 0
      BY <1>1, <1>2, <2>1
    <3> QED BY <1>1, <1>2, <3>1
  <2> QED BY <1>2, <2>1
<1> QED BY <1>3, <1>4 DEF Multiple

LEMMA MultipleFacts ==
  /\ \A x : Multiple(x) => x \in Nat /\ Multiple(x + Interval)
  /\ Multiple(Interval)
  /\ \A x, y : Multiple(x) /\ Multiple(y) /\ x < y => x + Interval <= y
<1> DEFINE I == Interval
<1>1. I \in Nat /\ I > 0
  BY TestAssumption
<1> HIDE DEF I
<1>2. ASSUME NEW x, Multiple(x) PROVE x \in Nat /\ Multiple(x + I)
  <2>1. PICK k \in Nat : x = k * I
    BY <1>2 DEF Multiple, I
  <2>2. x + I = (k + 1) * I /\ k + 1 \in Nat /\ x \in Nat
    BY <1>1, <2>1
  <2> QED BY <2>2 DEF Multiple, I
<1>3. Multiple(I)
  <2>1. I = 1 * I
    BY <1>1
  <2> QED BY <2>1 DEF Multiple, I
<1>4. ASSUME NEW x, NEW y, Multiple(x), Multiple(y), x < y PROVE x + I <= y
  <2>1. PICK j \in Nat : x = j * I
    BY <1>4 DEF Multiple, I
  <2>2. PICK k \in Nat : y = k * I
    BY <1>4 DEF Multiple, I
  <2>3. j < k
    <3> SUFFICES ASSUME k <= j PROVE FALSE
      OBVIOUS
    <3>1. k * I <= j * I
      BY <1>1
    <3>2. j * I \in Int /\ k * I \in Int
      BY <1>1
    <3> QED BY <1>4, <2>1, <2>2, <3>1, <3>2
  <2>4. j + 1 <= k
    BY <2>3
  <2>5. (j + 1) * I <= k * I
    BY <1>1, <2>4
  <2>6. (j + 1) * I = j * I + I
    BY <1>1
  <2> QED BY <2>1, <2>2, <2>5, <2>6
<1> QED BY <1>2, <1>3, <1>4 DEF I

-----------------------------------------------------------------------------
(* The invariant *)

Stats == ptr["stats_timer"]
Reporter == ptr["reporter_timer"]

\* The statistics timer has run and the reporter is next.
Pending == cur # NoTimer /\ cur = Reporter
Apart ==
  /\ heap.cell[Stats].time = heap.cell[Reporter].time + Interval
  /\ heap.cell[Reporter].time <= runNow
  /\ LastDue(heap.active, heap.cell, Stats)
Together ==
  phase # "idle" =>
    /\ Stats # NoTimer /\ Reporter # NoTimer
    /\ Pending => Apart
    /\ ~Pending => InPair(heap, Stats, Reporter)

\* An interval was gathered that was not printed yet.
Gathered == (Pending /\ ~done) \/ (phase = "ended" /\ role = "c")
Printed(sh, n) == Len(sh) = n /\ \A i \in 1..n : sh[i] = i
Counts == ~cut => Printed(shown, IF Gathered THEN Len(ivals) - 1 ELSE Len(ivals))

Calm ==
  /\ phase = "idle" => ptr = NoPtr /\ heap.active = <<>> /\ cur = NoTimer
  /\ phase = "ended" /\ role = "c" => cur = NoTimer
  /\ cut => phase = "idle"
HeapInv == Good(heap) /\ Live(heap, ptr) /\ Kinds(heap)

IInv == TypeOK /\ HeapInv /\ LoopOnActive /\ Calm /\ Together /\ Counts

Ival == [from : Nat, to : Nat, counted : Nat]
StatTypes == ivals \in Seq(Ival) /\ counting \in Nat /\ shown \in Seq(1..Len(ivals))
RestTypes ==
  /\ role \in Roles /\ duration \in Nat /\ omit \in Nat /\ now \in Nat /\ runNow \in Nat
  /\ phase \in Phases /\ done \in BOOLEAN /\ omitting \in BOOLEAN /\ cut \in BOOLEAN
  /\ tests \in Nat
HeapTypes == heap \in Heap /\ ptr \in PtrType /\ cur \in Null

LEMMA TypeParts == TypeOK <=> StatTypes /\ RestTypes /\ HeapTypes
BY DEF TypeOK, StatTypes, RestTypes, HeapTypes, Ival, PtrType, Null

LEMMA TypePartsNext == TypeOK' <=> StatTypes' /\ RestTypes' /\ HeapTypes'
BY DEF TypeOK, StatTypes, RestTypes, HeapTypes, Ival, PtrType, Null

LEMMA KindsNext ==
  ASSUME Kinds(heap'), role' = role PROVE Kinds(heap)'
BY DEF Kinds

LEMMA HeapInvNext ==
  ASSUME Good(heap'), Live(heap', ptr'), Kinds(heap'), role' = role PROVE HeapInv'
<1>1. Kinds(heap)'
  BY KindsNext
<1> QED BY <1>1 DEF HeapInv

LEMMA ProcNames ==
  /\ "timer" \in Procs /\ "stats_timer" \in Procs /\ "reporter_timer" \in Procs
  /\ "omit_timer" \in Procs /\ Interval \in Nat /\ Interval > 0
BY Senders, TestAssumption DEF TestProcs

\* Of the statistics and the reporter timer, outside idle.
LEMMA BothActive ==
  ASSUME TypeOK, HeapInv, Together, phase # "idle"
  PROVE  /\ Stats \in Elems(heap.active) /\ Reporter \in Elems(heap.active)
         /\ heap.cell[Stats].proc = "stats_timer" /\ heap.cell[Reporter].proc = "reporter_timer"
         /\ heap.cell[Stats].usecs = Interval /\ heap.cell[Reporter].usecs = Interval
         /\ Stats # Reporter /\ heap.active \in Seq(Cells) /\ NoneTwice(heap.active)
         /\ Elems(heap.active) \subseteq Cells /\ heap.cell \in [Cells -> Timer]
<1>1. Good(heap) /\ Live(heap, ptr) /\ Kinds(heap)
  BY DEF HeapInv
<1>2. Stats # NoTimer /\ Reporter # NoTimer
  BY DEF Together
<1>3. /\ Stats \in Elems(heap.active) /\ heap.cell[Stats].proc = "stats_timer"
      /\ Reporter \in Elems(heap.active) /\ heap.cell[Reporter].proc = "reporter_timer"
  BY <1>1, <1>2, ProcNames DEF Live, Stats, Reporter
<1>4. heap.cell[Stats].usecs = Interval /\ heap.cell[Reporter].usecs = Interval
  BY <1>1, <1>3 DEF Kinds
<1>5. heap.active \in Seq(Cells) /\ NoneTwice(heap.active)
      /\ Elems(heap.active) \subseteq Cells /\ heap.cell \in [Cells -> Timer]
  BY <1>1, GoodIs, CellsOf
<1> QED BY <1>3, <1>4, <1>5

\* One more interval, and it is printed or not.
LEMMA GatherTypes ==
  ASSUME TypeOK, Gather, Len(ivals') = Len(ivals) + 1 => shown' \in Seq(1..Len(ivals'))
  PROVE  StatTypes' /\ Len(ivals') = Len(ivals) + 1 /\ Len(ivals) \in Nat
<1> DEFINE new == [from |-> IF ivals = <<>> THEN counting ELSE ivals[Len(ivals)].to,
                   to |-> now, counted |-> counting]
<1>1. ivals \in Seq(Ival) /\ counting \in Nat /\ now \in Nat /\ Len(ivals) \in Nat
  BY TypeParts, LenProperties DEF StatTypes, RestTypes
<1>2. ivals' = Append(ivals, new) /\ counting' = now
  BY DEF Gather
<1>3. ivals # <<>> => ivals[Len(ivals)].to \in Nat
  <2> SUFFICES ASSUME ivals # <<>> PROVE ivals[Len(ivals)].to \in Nat
    OBVIOUS
  <2>1. Len(ivals) \in 1..Len(ivals)
    BY <1>1, EmptySeq
  <2>2. ivals[Len(ivals)] \in Ival
    BY <1>1, <2>1, ElementOfSeq
  <2> QED BY <2>2 DEF Ival
<1>4. new \in Ival
  BY <1>1, <1>3 DEF Ival
<1> HIDE DEF new
<1>5. ivals' \in Seq(Ival) /\ Len(ivals') = Len(ivals) + 1
  BY <1>1, <1>2, <1>4, AppendProperties
<1> QED BY <1>1, <1>2, <1>5 DEF StatTypes

LEMMA ShownGrows ==
  ASSUME NEW n \in Nat, NEW s \in Seq(1..n)
  PROVE  s \in Seq(1..(n + 1))
<1>1. \A i \in 1..Len(s) : s[i] \in 1..n
  BY ElementOfSeq
<1>2. Len(s) \in Nat /\ s = [i \in 1..Len(s) |-> s[i]]
  BY LenProperties
<1> DEFINE m == Len(s)
<1> HIDE DEF m
<1>3. \A i \in 1..m : s[i] \in 1..(n + 1)
  BY <1>1 DEF m
<1>4. s \in [1..m -> 1..(n + 1)]
  BY <1>2, <1>3 DEF m
<1> QED BY <1>2, <1>4 DEF m

\* What is printed is the next interval.
LEMMA ShowNext ==
  ASSUME NEW n \in Nat, NEW s \in Seq(1..n), Printed(s, n - 1), n > 0
  PROVE  Append(s, n) \in Seq(1..n) /\ Printed(Append(s, n), n)
<1> DEFINE z == Append(s, n)
<1>1. n \in 1..n /\ Len(s) = n - 1 /\ \A i \in 1..(n - 1) : s[i] = i
  BY DEF Printed
<1>2. /\ z \in Seq(1..n) /\ Len(z) = Len(s) + 1
      /\ \A i \in 1..Len(s) : z[i] = s[i]
      /\ z[Len(s) + 1] = n
  BY <1>1, AppendProperties
<1> HIDE DEF z
<1>3. Len(s) = n - 1 /\ Len(s) + 1 = n
  BY <1>1
<1>4. Len(z) = n /\ z[n] = n
  BY <1>2, <1>3
<1>5. ASSUME NEW i \in 1..n PROVE z[i] = i
  <2>1. CASE i = n
    BY <1>4, <2>1
  <2>2. CASE i # n
    <3>1. i \in 1..(n - 1)
      BY <2>2
    <3>2. z[i] = s[i] /\ s[i] = i
      BY <1>1, <1>2, <1>3, <3>1
    <3> QED BY <3>2
  <2> QED BY <2>1, <2>2
<1>6. Printed(z, n)
  BY <1>4, <1>5 DEF Printed
<1> QED BY <1>2, <1>6 DEF z
-----------------------------------------------------------------------------
(* A turn of the loop of tmr_run *)

\* What a turn leaves alone.
Frame == UNCHANGED <<optVars, now, runNow, phase, cut, tests>>

LEMMA FrameIs ==
  ASSUME Frame
  PROVE  role' = role /\ duration' = duration /\ omit' = omit /\ now' = now /\ runNow' = runNow
         /\ phase' = phase /\ cut' = cut /\ tests' = tests
BY DEF Frame, optVars

\* The loop is at a timer: the test goes on, and that timer is one of its own.
LEMMA AtTimer ==
  ASSUME IInv, cur # NoTimer
  PROVE  /\ phase # "idle" /\ ~cut /\ ~(phase = "ended" /\ role = "c")
         /\ Good(heap) /\ Live(heap, ptr) /\ Kinds(heap) /\ cur \in Elems(heap.active)
         /\ heap.cell[cur].proc \in Procs /\ ptr[heap.cell[cur].proc] = cur
         /\ heap.cell[cur].time \in Int /\ runNow \in Nat /\ ptr \in PtrType
         /\ GoesOn(heap, cur, Link(heap, cur))
<1>1. phase # "idle" /\ ~cut /\ ~(phase = "ended" /\ role = "c")
  BY DEF IInv, Calm
<1>2. Good(heap) /\ Live(heap, ptr) /\ Kinds(heap) /\ cur \in Elems(heap.active)
  BY DEF IInv, HeapInv, LoopOnActive
<1>3. cur \in Cells /\ heap.cell \in [Cells -> Timer]
  BY <1>2, GoodIs, CellsOf
<1>4. heap.cell[cur].proc \in Procs /\ heap.cell[cur].time \in Int
  BY <1>3 DEF Timer
<1>5. ptr[heap.cell[cur].proc] = cur
  BY <1>2 DEF Live
<1>6. runNow \in Nat /\ ptr \in PtrType
  BY TypeParts DEF IInv, RestTypes, HeapTypes
<1> QED BY <1>1, <1>2, <1>4, <1>5, <1>6, LinkGoesOn

\* A turn for a timer that has nothing to do with the statistics.
LEMMA TurnKeeps ==
  ASSUME IInv, Frame, cur # NoTimer, ~Pending, cur # Stats,
         heap.cell[cur].proc # "stats_timer",
         cur' = Link(heap, cur), Turned(heap, heap'),
         Elems(heap.active) \ {cur} \subseteq Elems(heap'.active),
         ptr' \in PtrType, Live(heap', ptr'), Stats' = Stats, Reporter' = Reporter,
         InPair(heap', Stats, Reporter),
         ivals' = ivals, shown' = shown, counting' \in Nat,
         done' \in BOOLEAN, omitting' \in BOOLEAN
  PROVE  IInv'
<1>1. /\ phase # "idle" /\ ~cut /\ ~(phase = "ended" /\ role = "c")
      /\ Good(heap) /\ Kinds(heap) /\ GoesOn(heap, cur, Link(heap, cur))
  BY AtTimer
<1>2. role' = role /\ duration' = duration /\ omit' = omit /\ now' = now /\ runNow' = runNow
      /\ phase' = phase /\ cut' = cut /\ tests' = tests
  BY FrameIs
<1>3. InPair(heap, Stats, Reporter) /\ Stats # NoTimer /\ Reporter # NoTimer
  BY <1>1 DEF IInv, Together
<1>4. /\ cur' = NoTimer \/ cur' \in Elems(heap.active) \ {cur}
      /\ ~(cur' = Reporter /\ cur' # NoTimer)
  BY <1>1, <1>3 DEF GoesOn, InPair
<1>5. Good(heap') /\ Kinds(heap')
  BY <1>1, TurnedKinds DEF Turned
<1>6. HeapInv'
  BY <1>2, <1>5, HeapInvNext
<1>7. TypeOK'
  <2>1. StatTypes /\ RestTypes
    BY TypeParts DEF IInv
  <2>2. StatTypes'
    BY <2>1 DEF StatTypes
  <2>3. RestTypes'
    BY <1>2, <2>1 DEF RestTypes
  <2>4. heap' \in Heap
    BY <1>5 DEF Good
  <2>5. Elems(heap.active) \subseteq Cells
    BY <1>1, GoodIs, CellsOf
  <2>6. cur' \in Null
    BY <1>4, <2>5 DEF Null
  <2>7. HeapTypes'
    BY <2>4, <2>6 DEF HeapTypes
  <2> QED BY <2>2, <2>3, <2>7, TypePartsNext
<1>8. LoopOnActive'
  BY <1>4 DEF LoopOnActive
<1>9. Calm'
  BY <1>1, <1>2 DEF Calm
<1>10. ~Pending'
  BY <1>4 DEF Pending
<1>11. Together'
  BY <1>3, <1>10 DEF Together
<1>12. ~Gathered /\ ~Gathered'
  BY <1>1, <1>2, <1>10 DEF Gathered
<1>13. Counts'
  BY <1>1, <1>2, <1>12 DEF IInv, Counts
<1> QED BY <1>6, <1>7, <1>8, <1>9, <1>11, <1>13 DEF IInv

\* The two timers, and a timer that is neither of them.
LEMMA OtherTimer ==
  ASSUME IInv, cur # NoTimer,
         heap.cell[cur].proc \notin {"stats_timer", "reporter_timer"}
  PROVE  /\ ~Pending /\ cur # Stats /\ cur # Reporter
         /\ Stats \in Elems(heap.active) /\ Reporter \in Elems(heap.active)
         /\ heap.cell[Stats].proc = "stats_timer" /\ heap.cell[Reporter].proc = "reporter_timer"
         /\ Stats # Reporter /\ Elems(heap.active) \subseteq Cells
         /\ InPair(heap, Stats, Reporter)
<1>1. phase # "idle"
  BY AtTimer
<1>2. TypeOK /\ HeapInv /\ Together
  BY DEF IInv
<1>3. /\ Stats \in Elems(heap.active) /\ Reporter \in Elems(heap.active)
      /\ heap.cell[Stats].proc = "stats_timer" /\ heap.cell[Reporter].proc = "reporter_timer"
      /\ Stats # Reporter /\ Elems(heap.active) \subseteq Cells
  BY <1>1, <1>2, BothActive
<1>4. ~Pending
  BY <1>3 DEF Pending
<1>5. InPair(heap, Stats, Reporter)
  BY <1>1, <1>2, <1>4 DEF Together
<1> QED BY <1>3, <1>4, <1>5

LEMMA TimerTurn ==
  ASSUME IInv, Frame, cur # NoTimer, heap.cell[cur].proc = "timer",
         cur' = Link(heap, cur), heap' = AfterProc(heap, cur), TestProc
  PROVE  IInv'
<1>1. /\ Good(heap) /\ Live(heap, ptr) /\ Kinds(heap) /\ cur \in Elems(heap.active)
      /\ ptr["timer"] = cur /\ ptr \in PtrType
  BY AtTimer
<1>2. /\ ~Pending /\ cur # Stats /\ cur # Reporter
      /\ Stats \in Elems(heap.active) /\ Reporter \in Elems(heap.active)
      /\ Elems(heap.active) \subseteq Cells /\ InPair(heap, Stats, Reporter)
  BY OtherTimer
<1>3. ~heap.cell[cur].periodic
  BY <1>1 DEF Kinds, Once
<1>4. Cancelled(heap, cur, heap')
  BY <1>1, <1>3, AfterOnce
<1>5. Turned(heap, heap') /\ Elems(heap'.active) = Elems(heap.active) \ {cur}
  BY <1>4, CancelledTurned DEF Cancelled
<1>6. /\ ptr' = [ptr EXCEPT !["timer"] = NoTimer] /\ done' = TRUE /\ omitting' = omitting
      /\ ivals' = ivals /\ shown' = shown /\ counting' = counting
  BY DEF TestProc, statVars
<1>7. ptr' \in PtrType /\ Live(heap', ptr')
  BY <1>1, <1>5, <1>6, ProcNames, CancelledLive
<1>8. Stats' = Stats /\ Reporter' = Reporter
  BY <1>1, <1>6, ProcNames DEF Stats, Reporter, PtrType
<1>9. InPair(heap', Stats, Reporter)
  BY <1>2, <1>4 DEF Cancelled, InPair
<1>10. counting \in Nat /\ omitting \in BOOLEAN
  BY TypeParts DEF IInv, StatTypes, RestTypes
<1>11. done' \in BOOLEAN /\ omitting' \in BOOLEAN /\ counting' \in Nat
       /\ Elems(heap.active) \ {cur} \subseteq Elems(heap'.active)
       /\ heap.cell[cur].proc # "stats_timer"
  BY <1>5, <1>6, <1>10
<1> QED BY <1>2, <1>5, <1>6, <1>7, <1>8, <1>9, <1>11, TurnKeeps

LEMMA SendTurn ==
  ASSUME IInv, Frame, cur # NoTimer, heap.cell[cur].proc \in ToSet(SendTimers),
         cur' = Link(heap, cur), heap' = AfterProc(heap, cur), SendProc
  PROVE  IInv'
<1>1. /\ Good(heap) /\ Live(heap, ptr) /\ Kinds(heap) /\ cur \in Elems(heap.active)
      /\ ptr \in PtrType
  BY AtTimer
<1>2. heap.cell[cur].proc \notin TestProcs
  <2>1. ToSet(SendTimers) = {SendTimers[i] : i \in 1..Len(SendTimers)}
    BY Senders DEF ToSet
  <2> QED BY <2>1, Senders
<1>3. /\ ~Pending /\ cur # Stats /\ cur # Reporter
      /\ Stats \in Elems(heap.active) /\ Reporter \in Elems(heap.active)
      /\ Elems(heap.active) \subseteq Cells /\ InPair(heap, Stats, Reporter)
      /\ heap.cell[cur].proc # "stats_timer"
  BY <1>2, OtherTimer DEF TestProcs
<1>4. heap.cell[cur].periodic
  <2>1. heap.cell[cur].proc \notin Once
    BY <1>2 DEF Once, TestProcs
  <2> QED BY <1>1, <2>1 DEF Kinds
<1> DEFINE time == heap.cell[cur].time + heap.cell[cur].usecs
<1>5. Rescheduled(heap, cur, time, heap')
  BY <1>1, <1>4, AfterPeriodic
<1> HIDE DEF time
<1>6. Turned(heap, heap') /\ Elems(heap'.active) = Elems(heap.active)
  <2>1. Turned(heap, heap')
    BY <1>5, RescheduledTurned
  <2> QED BY <1>5, <2>1 DEF Rescheduled
<1>7. /\ ptr' = ptr /\ done' = done /\ omitting' = omitting
      /\ ivals' = ivals /\ shown' = shown /\ counting' = counting
  BY DEF SendProc, statVars
<1>8. ptr' \in PtrType /\ Live(heap', ptr') /\ Stats' = Stats /\ Reporter' = Reporter
  BY <1>1, <1>6, <1>7, TurnedLive DEF Stats, Reporter
<1>9. InPair(heap', Stats, Reporter)
  <2>1. heap'.cell[Stats].time = heap.cell[Stats].time
        /\ heap'.cell[Reporter].time = heap.cell[Reporter].time
    BY <1>3, <1>5 DEF Rescheduled
  <2> QED BY <1>3, <1>5, <2>1 DEF Rescheduled, InPair
<1>10. counting \in Nat /\ omitting \in BOOLEAN /\ done \in BOOLEAN
  BY TypeParts DEF IInv, StatTypes, RestTypes
<1>11. done' \in BOOLEAN /\ omitting' \in BOOLEAN /\ counting' \in Nat
       /\ Elems(heap.active) \ {cur} \subseteq Elems(heap'.active)
  BY <1>6, <1>7, <1>10
<1> QED BY <1>3, <1>6, <1>7, <1>8, <1>9, <1>11, TurnKeeps

LEMMA OmitTurn ==
  ASSUME IInv, Frame, cur # NoTimer, heap.cell[cur].proc = "omit_timer",
         cur' = Link(heap, cur), heap' = AfterProc(ResetBoth(heap), cur), OmitProc
  PROVE  IInv'
<1>1. /\ Good(heap) /\ Live(heap, ptr) /\ Kinds(heap) /\ cur \in Elems(heap.active)
      /\ ptr["omit_timer"] = cur /\ ptr \in PtrType /\ runNow \in Nat
  BY AtTimer
<1>2. /\ ~Pending /\ cur # Stats /\ cur # Reporter
      /\ Stats \in Elems(heap.active) /\ Reporter \in Elems(heap.active)
      /\ heap.cell[Stats].proc = "stats_timer" /\ heap.cell[Reporter].proc = "reporter_timer"
      /\ Elems(heap.active) \subseteq Cells
  BY OtherTimer
<1>3. Stats # NoTimer /\ Reporter # NoTimer
  BY <1>2, TimerAssumption
<1> DEFINE a == tmr_reset(heap, runNow, Stats)
           b == tmr_reset(a, runNow, Reporter)
<1>4. ResetBoth(heap) = b
  BY <1>3 DEF ResetBoth, Stats, Reporter
<1>5. Turned(heap, b) /\ Elems(b.active) = Elems(heap.active) /\ InPair(b, Stats, Reporter)
  <2>1. runNow \in Int
    BY <1>1
  <2> QED BY <1>1, <1>2, <2>1, ResetTogether
<1> HIDE DEF a, b
<1>6. ~b.cell[cur].periodic
  <2>1. ~heap.cell[cur].periodic
    BY <1>1 DEF Kinds, Once
  <2> QED BY <1>1, <1>2, <1>5, <2>1 DEF Turned
<1>7. Cancelled(b, cur, heap')
  <2>1. Good(b) /\ cur \in Elems(b.active)
    BY <1>1, <1>5 DEF Turned
  <2> QED BY <1>4, <1>6, <2>1, AfterOnce
<1>8. Turned(heap, heap') /\ Elems(heap'.active) = Elems(heap.active) \ {cur}
  BY <1>5, <1>7 DEF Cancelled, Turned
<1>9. /\ ptr' = [ptr EXCEPT !["omit_timer"] = NoTimer] /\ done' = done /\ omitting' = FALSE
      /\ ivals' = ivals /\ shown' = shown /\ counting' = now
  BY DEF OmitProc
<1>10. ptr' \in PtrType /\ Live(heap', ptr')
  BY <1>1, <1>8, <1>9, ProcNames, CancelledLive
<1>11. Stats' = Stats /\ Reporter' = Reporter
  BY <1>1, <1>9, ProcNames DEF Stats, Reporter, PtrType
<1>12. InPair(heap', Stats, Reporter)
  BY <1>2, <1>5, <1>7 DEF Cancelled, InPair
<1>13. now \in Nat /\ done \in BOOLEAN
  BY TypeParts DEF IInv, RestTypes
<1>14. done' \in BOOLEAN /\ omitting' \in BOOLEAN /\ counting' \in Nat
       /\ Elems(heap.active) \ {cur} \subseteq Elems(heap'.active)
       /\ heap.cell[cur].proc # "stats_timer"
  BY <1>8, <1>9, <1>13
<1> QED BY <1>2, <1>8, <1>9, <1>10, <1>11, <1>12, <1>14, TurnKeeps

\* The statistics timer runs: the reporter is next and due.
LEMMA StatsTurn ==
  ASSUME IInv, Frame, cur # NoTimer, heap.cell[cur].proc = "stats_timer",
         heap.cell[cur].time <= runNow,
         cur' = Link(heap, cur), heap' = AfterProc(heap, cur), StatsProc
  PROVE  IInv'
<1>1. /\ phase # "idle" /\ ~cut /\ ~(phase = "ended" /\ role = "c")
      /\ Good(heap) /\ Live(heap, ptr) /\ Kinds(heap) /\ cur \in Elems(heap.active)
      /\ cur = Stats /\ ptr \in PtrType /\ GoesOn(heap, cur, Link(heap, cur))
  BY AtTimer DEF Stats
<1>2. TypeOK /\ HeapInv /\ Together
  BY DEF IInv
<1>3. /\ Reporter \in Elems(heap.active) /\ heap.cell[Stats].usecs = Interval
      /\ Stats # Reporter /\ Elems(heap.active) \subseteq Cells
      /\ heap.cell \in [Cells -> Timer]
  BY <1>1, <1>2, BothActive
<1>4. ~Pending /\ InPair(heap, Stats, Reporter) /\ Stats # NoTimer /\ Reporter # NoTimer
  BY <1>1, <1>2, <1>3 DEF Pending, Together
<1>5. cur' = Reporter
  BY <1>1, <1>4 DEF GoesOn, InPair
<1>6. heap.cell[cur].periodic
  BY <1>1 DEF Kinds, Once
<1> DEFINE time == heap.cell[cur].time + Interval
<1>7. Rescheduled(heap, cur, time, heap')
  <2>1. heap.cell[cur].usecs = Interval
    BY <1>1, <1>3
  <2> QED BY <1>1, <1>6, <2>1, AfterPeriodic
<1>8. heap'.cell[Stats].time = time /\ heap'.cell[Reporter].time = heap.cell[Stats].time
  BY <1>1, <1>3, <1>4, <1>7 DEF Rescheduled, InPair
<1> HIDE DEF time
<1>9. Turned(heap, heap') /\ Elems(heap'.active) = Elems(heap.active)
      /\ LastDue(heap'.active, heap'.cell, Stats)
  <2>1. Turned(heap, heap')
    BY <1>7, RescheduledTurned
  <2> QED BY <1>1, <1>7, <2>1 DEF Rescheduled
<1>10. ptr' = ptr /\ done' = done /\ omitting' = omitting /\ shown' = shown
  BY DEF StatsProc, statVars
<1>11. Stats' = Stats /\ Reporter' = Reporter
  BY <1>10 DEF Stats, Reporter
<1>12. role' = role /\ duration' = duration /\ omit' = omit /\ now' = now /\ runNow' = runNow
       /\ phase' = phase /\ cut' = cut /\ tests' = tests
  BY FrameIs
<1>13. HeapInv'
  <2>1. Good(heap') /\ Kinds(heap') /\ Live(heap', ptr')
    BY <1>1, <1>9, <1>10, TurnedKinds, TurnedLive DEF Turned
  <2> QED BY <1>12, <2>1, HeapInvNext
<1>14. StatTypes /\ RestTypes
  BY <1>2, TypeParts
<1>15. /\ StatTypes'
       /\ IF done THEN ivals' = ivals
          ELSE Len(ivals') = Len(ivals) + 1 /\ Len(ivals) \in Nat
  <2>1. CASE done
    <3>1. ivals' = ivals /\ counting' = counting
      BY <2>1 DEF StatsProc, statVars
    <3> QED BY <1>10, <1>14, <2>1, <3>1 DEF StatTypes
  <2>2. CASE ~done
    <3>1. Gather
      BY <2>2 DEF StatsProc
    <3> DEFINE n == Len(ivals)
    <3>2. n \in Nat /\ shown \in Seq(1..n)
      BY <1>14, LenProperties DEF StatTypes
    <3>3. shown \in Seq(1..(n + 1))
      <4> HIDE DEF n
      <4> QED BY <3>2, ShownGrows
    <3>4. Len(ivals') = Len(ivals) + 1 => shown' \in Seq(1..Len(ivals'))
      BY <1>10, <3>3
    <3> QED BY <1>2, <2>2, <3>1, <3>4, GatherTypes
  <2> QED BY <2>1, <2>2
<1>16. TypeOK'
  <2>1. RestTypes'
    BY <1>10, <1>12, <1>14 DEF RestTypes
  <2>2. HeapTypes'
    BY <1>1, <1>3, <1>5, <1>9, <1>10 DEF HeapTypes, Null, Turned, Good
  <2> QED BY <1>15, <2>1, <2>2, TypePartsNext
<1>17. LoopOnActive'
  BY <1>3, <1>5, <1>9 DEF LoopOnActive
<1>18. Calm'
  BY <1>1, <1>12 DEF Calm
<1>19. Pending'
  BY <1>4, <1>5, <1>11 DEF Pending
<1>20. Together'
  <2>1. heap'.cell[Stats].time = heap'.cell[Reporter].time + Interval
        /\ heap'.cell[Reporter].time <= runNow
    BY <1>1, <1>8 DEF time
  <2>2. Apart'
    BY <1>9, <1>11, <1>12, <2>1 DEF Apart
  <2> QED BY <1>4, <1>11, <1>19, <2>2 DEF Together
<1>21. Counts'
  <2>1. Printed(shown, Len(ivals))
    BY <1>1, <1>4 DEF IInv, Counts, Gathered
  <2>2. Gathered' <=> ~done
    BY <1>1, <1>10, <1>12, <1>19 DEF Gathered
  <2>3. CASE done
    BY <1>10, <1>15, <2>1, <2>2, <2>3 DEF Counts
  <2>4. CASE ~done
    <3>1. Len(ivals') - 1 = Len(ivals)
      BY <1>15, <2>4
    <3> QED BY <1>10, <2>1, <2>2, <2>4, <3>1 DEF Counts
  <2> QED BY <2>3, <2>4
<1> QED BY <1>13, <1>16, <1>17, <1>18, <1>20, <1>21 DEF IInv

\* The reporter runs, right after the statistics timer: it prints the interval
\* that was gathered, and goes behind the statistics timer again.
LEMMA ReporterTurn ==
  ASSUME IInv, Frame, cur # NoTimer, heap.cell[cur].proc = "reporter_timer",
         cur' = Link(heap, cur), heap' = AfterProc(heap, cur), ReporterProc
  PROVE  IInv'
<1>1. /\ phase # "idle" /\ ~cut /\ ~(phase = "ended" /\ role = "c")
      /\ Good(heap) /\ Live(heap, ptr) /\ Kinds(heap) /\ cur \in Elems(heap.active)
      /\ cur = Reporter /\ ptr \in PtrType /\ GoesOn(heap, cur, Link(heap, cur))
  BY AtTimer DEF Reporter
<1>2. TypeOK /\ HeapInv /\ Together
  BY DEF IInv
<1>3. /\ Stats \in Elems(heap.active) /\ heap.cell[Reporter].usecs = Interval
      /\ Stats # Reporter /\ Elems(heap.active) \subseteq Cells
      /\ heap.cell \in [Cells -> Timer]
  BY <1>1, <1>2, BothActive
<1>4. Pending /\ Stats # NoTimer /\ Reporter # NoTimer
      /\ heap.cell[Stats].time = heap.cell[Reporter].time + Interval
      /\ LastDue(heap.active, heap.cell, Stats)
  BY <1>1, <1>2 DEF Pending, Together, Apart
<1>5. cur' = NoTimer \/ cur' \in Elems(heap.active) \ {cur}
  BY <1>1 DEF GoesOn
<1>6. heap.cell[cur].periodic
  BY <1>1 DEF Kinds, Once
<1> DEFINE time == heap.cell[cur].time + Interval
<1>7. Rescheduled(heap, cur, time, heap')
  <2>1. heap.cell[cur].usecs = Interval
    BY <1>1, <1>3
  <2> QED BY <1>1, <1>6, <2>1, AfterPeriodic
<1>8. heap.cell[Stats].time = time
  BY <1>1, <1>4
<1> HIDE DEF time
<1>9. InPair(heap', Stats, Reporter)
  <2>1. Adjacent(heap'.active, Stats, Reporter)
    BY <1>1, <1>3, <1>4, <1>7, <1>8 DEF Rescheduled
  <2>2. heap'.cell[Stats].time = time /\ heap'.cell[Reporter].time = time
    BY <1>1, <1>3, <1>7, <1>8 DEF Rescheduled
  <2> QED BY <2>1, <2>2 DEF InPair
<1>10. Turned(heap, heap') /\ Elems(heap'.active) = Elems(heap.active)
  <2>1. Turned(heap, heap')
    BY <1>7, RescheduledTurned
  <2> QED BY <1>7, <2>1 DEF Rescheduled
<1>11. ptr' = ptr /\ done' = done /\ omitting' = omitting /\ ivals' = ivals
       /\ counting' = counting /\ shown' = IF done THEN shown ELSE Append(shown, Len(ivals))
  BY DEF ReporterProc
<1>12. Stats' = Stats /\ Reporter' = Reporter
  BY <1>11 DEF Stats, Reporter
<1>13. role' = role /\ duration' = duration /\ omit' = omit /\ now' = now /\ runNow' = runNow
       /\ phase' = phase /\ cut' = cut /\ tests' = tests
  BY FrameIs
<1>14. HeapInv'
  <2>1. Good(heap') /\ Kinds(heap') /\ Live(heap', ptr')
    BY <1>1, <1>10, <1>11, TurnedKinds, TurnedLive DEF Turned
  <2> QED BY <1>13, <2>1, HeapInvNext
<1>15. StatTypes /\ RestTypes
  BY <1>2, TypeParts
<1>16. shown' \in Seq(1..Len(ivals)) /\ Printed(shown', Len(ivals))
  <2> DEFINE n == Len(ivals)
  <2>1. n \in Nat /\ shown \in Seq(1..n)
    BY <1>15, LenProperties DEF StatTypes
  <2>2. CASE done
    <3>1. ~Gathered
      BY <1>1, <2>2 DEF Gathered
    <3> QED BY <1>1, <1>11, <2>1, <2>2, <3>1 DEF IInv, Counts
  <2>3. CASE ~done
    <3>1. Gathered
      BY <1>4, <2>3 DEF Gathered
    <3>2. Printed(shown, n - 1)
      BY <1>1, <3>1 DEF IInv, Counts
    <3> HIDE DEF n
    <3>3. n > 0
      <4>1. Len(shown) = n - 1 /\ Len(shown) \in Nat
        BY <2>1, <3>2, LenProperties DEF Printed
      <4> QED BY <2>1, <4>1
    <3>4. Append(shown, n) \in Seq(1..n) /\ Printed(Append(shown, n), n)
      BY <2>1, <3>2, <3>3, ShowNext
    <3> QED BY <1>11, <2>3, <3>4 DEF n
  <2> QED BY <2>2, <2>3
<1>17. TypeOK'
  <2>1. RestTypes'
    BY <1>11, <1>13, <1>15 DEF RestTypes
  <2>2. HeapTypes'
    BY <1>1, <1>3, <1>5, <1>10, <1>11 DEF HeapTypes, Null, Turned, Good
  <2>3. StatTypes'
    BY <1>11, <1>15, <1>16 DEF StatTypes
  <2> QED BY <2>1, <2>2, <2>3, TypePartsNext
<1>18. LoopOnActive'
  BY <1>5, <1>10 DEF LoopOnActive
<1>19. Calm'
  BY <1>1, <1>13 DEF Calm
<1>20. ~Pending'
  BY <1>1, <1>5, <1>12 DEF Pending
<1>21. Together'
  BY <1>4, <1>9, <1>12, <1>20 DEF Together
<1>22. ~Gathered'
  BY <1>1, <1>13, <1>20 DEF Gathered
<1>23. Counts'
  BY <1>11, <1>16, <1>22 DEF Counts
<1> QED BY <1>14, <1>17, <1>18, <1>19, <1>21, <1>23 DEF IInv
-----------------------------------------------------------------------------
(* The steps *)

\* The type parts when the lists and the options stay.
LEMMA SameTypes ==
  ASSUME IInv, UNCHANGED <<optVars, heap, ptr>>,
         StatTypes', now' \in Nat, runNow' \in Nat, cur' \in Null, phase' \in Phases,
         done' \in BOOLEAN, omitting' \in BOOLEAN, cut' \in BOOLEAN, tests' \in Nat
  PROVE  TypeOK' /\ HeapInv' /\ role' = role /\ Stats' = Stats /\ Reporter' = Reporter
<1>1. role' = role /\ duration' = duration /\ omit' = omit /\ heap' = heap /\ ptr' = ptr
  BY DEF optVars
<1>2. RestTypes /\ HeapTypes
  BY TypeParts DEF IInv
<1>3. RestTypes'
  BY <1>1, <1>2 DEF RestTypes
<1>4. HeapTypes'
  BY <1>1, <1>2 DEF HeapTypes
<1>5. HeapInv'
  <2>1. Good(heap') /\ Live(heap', ptr') /\ Kinds(heap')
    BY <1>1 DEF IInv, HeapInv
  <2> QED BY <1>1, <2>1, HeapInvNext
<1> QED BY <1>1, <1>3, <1>4, <1>5, TypePartsNext DEF Stats, Reporter

\* A step that moves the clock or the place of the loop, outside the pair.
LEMMA LoopStep ==
  ASSUME IInv, UNCHANGED <<optVars, heap, ptr, testVars, statVars>>,
         now' \in Nat, runNow' \in Nat, ~Pending,
         cur' # NoTimer => /\ cur' \in Elems(heap.active) /\ cur' # Reporter
                           /\ phase # "idle" /\ ~(phase = "ended" /\ role = "c")
  PROVE  IInv'
<1>1. /\ heap' = heap /\ ptr' = ptr /\ phase' = phase /\ done' = done
      /\ omitting' = omitting /\ cut' = cut /\ tests' = tests
      /\ ivals' = ivals /\ counting' = counting /\ shown' = shown
  BY DEF testVars, statVars
<1>2. StatTypes /\ RestTypes /\ Good(heap)
  BY TypeParts DEF IInv, HeapInv
<1>3. StatTypes'
  BY <1>1, <1>2 DEF StatTypes
<1>4. cur' \in Null
  <2>1. Elems(heap.active) \subseteq Cells
    BY <1>2, GoodIs, CellsOf
  <2> QED BY <2>1 DEF Null
<1>5. TypeOK' /\ HeapInv' /\ role' = role /\ Stats' = Stats /\ Reporter' = Reporter
  <2>1. /\ phase' \in Phases /\ done' \in BOOLEAN /\ omitting' \in BOOLEAN
        /\ cut' \in BOOLEAN /\ tests' \in Nat
    BY <1>1, <1>2 DEF RestTypes
  <2> QED BY <1>3, <1>4, <2>1, SameTypes
<1>6. ~Pending'
  BY <1>5 DEF Pending
<1>7. LoopOnActive'
  BY <1>1 DEF LoopOnActive
<1>8. Calm'
  BY <1>1, <1>5 DEF IInv, Calm
<1>9. Together'
  BY <1>1, <1>5, <1>6 DEF IInv, Together
<1>10. Gathered' <=> Gathered
  BY <1>1, <1>5, <1>6 DEF Gathered
<1>11. Counts'
  BY <1>1, <1>10 DEF IInv, Counts
<1> QED BY <1>5, <1>7, <1>8, <1>9, <1>11 DEF IInv

LEMMA FireStep ==
  ASSUME IInv, Fire PROVE IInv'
<1>1. Frame /\ cur # NoTimer
  BY DEF Fire, Frame
<1>2. heap.cell[cur].time \in Int /\ runNow \in Nat /\ now \in Nat
  BY <1>1, AtTimer, TypeParts DEF IInv, RestTypes
<1>3. CASE heap.cell[cur].time > runNow
  <2>1. cur' = NoTimer /\ UNCHANGED <<optVars, heap, ptr, testVars, statVars>>
        /\ now' = now /\ runNow' = runNow
    BY <1>3 DEF Fire, testVars
  <2>2. ~Pending
    <3>1. Together /\ phase # "idle"
      BY <1>1, AtTimer DEF IInv
    <3> QED BY <1>2, <1>3, <3>1 DEF Pending, Together, Apart
  <2> QED BY <1>2, <2>1, <2>2, LoopStep
<1>4. CASE ~(heap.cell[cur].time > runNow)
  <2> DEFINE p == heap.cell[cur].proc
  <2>1. /\ cur' = Link(heap, cur)
        /\ heap' = AfterProc(IF p = "omit_timer" THEN ResetBoth(heap) ELSE heap, cur)
        /\ Proc(p)
    BY <1>4 DEF Fire
  <2>2. CASE p = "timer" /\ TestProc
    <3>1. heap' = AfterProc(heap, cur)
      BY <2>1, <2>2
    <3> QED BY <1>1, <2>1, <2>2, <3>1, TimerTurn
  <2>3. CASE p = "stats_timer" /\ StatsProc
    <3>1. heap' = AfterProc(heap, cur) /\ heap.cell[cur].time <= runNow
      BY <1>2, <1>4, <2>1, <2>3
    <3> QED BY <1>1, <2>1, <2>3, <3>1, StatsTurn
  <2>4. CASE p = "reporter_timer" /\ ReporterProc
    <3>1. heap' = AfterProc(heap, cur)
      BY <2>1, <2>4
    <3> QED BY <1>1, <2>1, <2>4, <3>1, ReporterTurn
  <2>5. CASE p = "omit_timer" /\ OmitProc
    <3>1. heap' = AfterProc(ResetBoth(heap), cur)
      BY <2>1, <2>5
    <3> QED BY <1>1, <2>1, <2>5, <3>1, OmitTurn
  <2>6. CASE p \in ToSet(SendTimers) /\ SendProc
    <3>1. p # "omit_timer"
      <4>1. ToSet(SendTimers) = {SendTimers[i] : i \in 1..Len(SendTimers)}
        BY Senders DEF ToSet
      <4> QED BY <2>6, <4>1, Senders DEF TestProcs
    <3>2. heap' = AfterProc(heap, cur)
      BY <2>1, <3>1
    <3> QED BY <1>1, <2>1, <2>6, <3>2, SendTurn
  <2> QED BY <2>1, <2>2, <2>3, <2>4, <2>5, <2>6 DEF Proc
<1> QED BY <1>3, <1>4

LEMMA TickStep ==
  ASSUME IInv, Tick PROVE IInv'
<1>1. UNCHANGED <<optVars, heap, ptr, testVars, statVars>> /\ now' = now + 1
      /\ runNow' = runNow /\ cur' = NoTimer /\ cur = NoTimer
  BY DEF Tick, runVars
<1>2. now \in Nat /\ runNow \in Nat
  BY TypeParts DEF IInv, RestTypes
<1>3. now' \in Nat /\ runNow' \in Nat /\ ~Pending
  BY <1>1, <1>2 DEF Pending
<1> QED BY <1>1, <1>3, LoopStep

\* The loop starts at the head of the list, which the reporter is not.
LEMMA RunTimersStep ==
  ASSUME IInv, RunTimers PROVE IInv'
<1>1. UNCHANGED <<optVars, heap, ptr, testVars, statVars>> /\ now' = now /\ runNow' = now
      /\ cur' = Head(heap.active) /\ cur = NoTimer /\ heap.active # <<>>
      /\ phase # "idle" /\ ~(phase = "ended" /\ role = "c")
  BY DEF RunTimers
<1>2. now \in Nat
  BY TypeParts DEF IInv, RestTypes
<1>3. heap.active \in Seq(Cells) /\ NoneTwice(heap.active)
  BY GoodIs DEF IInv, HeapInv
<1>4. cur' \in Elems(heap.active)
  <2>1. 1 \in 1..Len(heap.active) /\ Head(heap.active) = heap.active[1]
    BY <1>1, <1>3, EmptySeq
  <2> QED BY <1>1, <2>1 DEF Elems
<1>5. ~Pending
  BY <1>1 DEF Pending
<1>6. Adjacent(heap.active, Stats, Reporter)
  BY <1>1, <1>5 DEF IInv, Together, InPair
<1>7. cur' # Reporter
  BY <1>1, <1>3, <1>6, AdjacentFacts
<1> QED BY <1>1, <1>2, <1>4, <1>5, <1>7, LoopStep
-----------------------------------------------------------------------------
(* The end and the start of a test *)

\* Gathering the last interval leaves the timers alone.
LEMMA EndStep ==
  ASSUME IInv, phase = "running", cur = NoTimer, phase' = "ended", done' = TRUE, Gather,
         UNCHANGED <<optVars, heap, ptr, now, runVars, omitting, cut, tests>>,
         \/ role = "c" /\ shown' = shown
         \/ role = "s" /\ shown' = Append(shown, Len(ivals) + 1)
  PROVE  IInv'
<1> DEFINE n == Len(ivals)
           m == n + 1
<1>1. now' = now /\ cur' = NoTimer /\ runNow' = runNow /\ omitting' = omitting
      /\ cut' = cut /\ tests' = tests /\ heap' = heap /\ ptr' = ptr /\ role' = role
  BY DEF runVars, optVars
<1>2. StatTypes /\ RestTypes /\ TypeOK
  BY TypeParts DEF IInv
<1>3. n \in Nat /\ shown \in Seq(1..n)
  BY <1>2, LenProperties DEF StatTypes
<1>4. ~Gathered /\ ~cut
  BY DEF IInv, Gathered, Pending, Calm
<1>5. Printed(shown, n)
  BY <1>4 DEF IInv, Counts
<1> HIDE DEF n
<1>6. shown \in Seq(1..m)
  BY <1>3, ShownGrows
<1>7. /\ role = "c" => shown' \in Seq(1..m) /\ Printed(shown', m - 1)
      /\ role = "s" => shown' \in Seq(1..m) /\ Printed(shown', m)
  <2>1. m \in Nat /\ m > 0 /\ m - 1 = n
    BY <1>3
  <2>2. Printed(shown, m - 1)
    BY <1>5, <2>1
  <2> HIDE DEF m
  <2>3. Append(shown, m) \in Seq(1..m) /\ Printed(Append(shown, m), m)
    BY <1>6, <2>1, <2>2, ShowNext
  <2>4. role = "c" => shown' = shown
    OBVIOUS
  <2>5. role = "s" => shown' = Append(shown, m)
    BY DEF m, n
  <2> QED BY <1>6, <2>2, <2>3, <2>4, <2>5
<1>8. shown' \in Seq(1..m) /\ (role = "c" \/ role = "s")
  BY <1>7
<1>9. StatTypes' /\ Len(ivals') = m
  <2>1. Len(ivals') = Len(ivals) + 1 => shown' \in Seq(1..Len(ivals'))
    BY <1>8 DEF n
  <2> QED BY <1>2, <2>1, GatherTypes DEF n
<1>10. TypeOK' /\ HeapInv' /\ Stats' = Stats /\ Reporter' = Reporter
  <2>1. /\ now' \in Nat /\ runNow' \in Nat /\ cur' \in Null /\ phase' \in Phases
        /\ done' \in BOOLEAN /\ omitting' \in BOOLEAN /\ cut' \in BOOLEAN /\ tests' \in Nat
    BY <1>1, <1>2 DEF RestTypes, Null, Phases
  <2> QED BY <1>9, <2>1, SameTypes
<1>11. LoopOnActive'
  BY <1>1 DEF LoopOnActive
<1>12. Calm'
  BY <1>1, <1>4 DEF Calm
<1>13. ~Pending /\ ~Pending'
  BY <1>1 DEF Pending
<1>14. Together'
  BY <1>1, <1>10, <1>13 DEF IInv, Together
<1>15. Gathered' <=> role = "c"
  BY <1>1, <1>13 DEF Gathered
<1>16. Counts'
  BY <1>7, <1>8, <1>9, <1>15 DEF Counts
<1> QED BY <1>10, <1>11, <1>12, <1>14, <1>16 DEF IInv

\* What is left once every timer is cancelled.
LEMMA IdleInv ==
  ASSUME role' = role, Emptied(heap'), ptr' = NoPtr, phase' = "idle", cur' = NoTimer,
         StatTypes', RestTypes', Counts'
  PROVE  IInv'
<1>1. Good(heap') /\ heap'.active = <<>> /\ heap' \in Heap
  BY DEF Emptied, Good
<1>2. Elems(heap'.active) = {}
  BY <1>1 DEF Elems
<1>3. ptr' \in PtrType /\ \A q \in Procs : ptr'[q] = NoTimer
  BY DEF NoPtr, PtrType, Null
<1>4. Live(heap', ptr') /\ Kinds(heap')
  BY <1>2, <1>3 DEF Live, Kinds
<1>5. HeapInv'
  BY <1>1, <1>4, HeapInvNext
<1>6. TypeOK'
  BY <1>1, <1>3, TypePartsNext DEF HeapTypes, Null
<1>7. LoopOnActive' /\ Calm' /\ Together'
  <2>1. (phase = "idle" => ptr = NoPtr /\ heap.active = <<>> /\ cur = NoTimer)'
    BY <1>1 DEF NoPtr
  <2>2. Calm'
    BY <2>1 DEF Calm
  <2> QED BY <2>2 DEF LoopOnActive, Together
<1> QED BY <1>5, <1>6, <1>7 DEF IInv

\* The end of a test: every timer is cancelled through its pointer.
LEMMA ReleaseStep ==
  ASSUME IInv, Release(heap, ptr), cur = NoTimer, UNCHANGED <<optVars, now, runVars, tests>>,
         cut' \in BOOLEAN, StatTypes', Counts'
  PROVE  IInv'
<1>1. Good(heap) /\ Live(heap, ptr) /\ Kinds(heap)
  BY DEF IInv, HeapInv
<1>2. RestTypes /\ ptr \in PtrType
  BY TypeParts DEF IInv, HeapTypes
<1>3. /\ heap' = CancelAll(heap, ptr) /\ ptr' = NoPtr /\ phase' = "idle"
      /\ done' = FALSE /\ omitting' = FALSE
  BY DEF Release
<1>4. Emptied(heap')
  BY <1>1, <1>2, <1>3, CancelAllGood
<1>5. role' = role /\ duration' = duration /\ omit' = omit /\ now' = now
      /\ runNow' = runNow /\ cur' = NoTimer /\ tests' = tests
  BY DEF optVars, runVars
<1>6. RestTypes'
  BY <1>2, <1>3, <1>5 DEF RestTypes, Phases
<1> QED BY <1>3, <1>4, <1>5, <1>6, IdleInv

LEMMA DisplayClientStep ==
  ASSUME IInv, DisplayClient PROVE IInv'
<1>1. /\ role = "c" /\ phase = "ended" /\ shown' = Append(shown, Len(ivals))
      /\ Release(heap, ptr) /\ UNCHANGED <<optVars, now, runVars, tests>>
      /\ cut' = cut /\ ivals' = ivals /\ counting' = counting
  BY DEF DisplayClient
<1>2. cur = NoTimer /\ ~cut
  BY <1>1 DEF IInv, Calm
<1>3. Gathered
  BY <1>1 DEF Gathered
<1>4. StatTypes /\ cut \in BOOLEAN
  BY TypeParts DEF IInv, RestTypes
<1> DEFINE n == Len(ivals)
<1>5. n \in Nat /\ shown \in Seq(1..n) /\ Printed(shown, n - 1)
  BY <1>2, <1>3, <1>4, LenProperties DEF IInv, Counts, StatTypes
<1>6. shown' = Append(shown, n)
  BY <1>1
<1> HIDE DEF n
<1>7. n > 0
  <2>1. Len(shown) = n - 1 /\ Len(shown) \in Nat
    BY <1>5, LenProperties DEF Printed
  <2> QED BY <1>5, <2>1
<1>8. shown' \in Seq(1..n) /\ Printed(shown', n)
  BY <1>5, <1>6, <1>7, ShowNext
<1>9. StatTypes'
  BY <1>1, <1>4, <1>8 DEF StatTypes, n
<1>10. phase' = "idle" /\ cur' = NoTimer
  BY <1>1, <1>2 DEF Release, runVars
<1>11. ~Gathered'
  BY <1>10 DEF Gathered, Pending
<1>12. Counts'
  BY <1>1, <1>8, <1>11 DEF Counts, n
<1> QED BY <1>1, <1>2, <1>4, <1>9, <1>12, ReleaseStep

LEMMA FinishServerStep ==
  ASSUME IInv, FinishServer PROVE IInv'
<1>1. /\ role = "s" /\ phase = "ended" /\ cur = NoTimer
      /\ Release(heap, ptr) /\ UNCHANGED <<optVars, now, runVars, tests>>
      /\ cut' = cut /\ ivals' = ivals /\ counting' = counting /\ shown' = shown
  BY DEF FinishServer, statVars
<1>2. StatTypes /\ cut \in BOOLEAN
  BY TypeParts DEF IInv, RestTypes
<1>3. StatTypes'
  BY <1>1, <1>2 DEF StatTypes
<1>4. phase' = "idle" /\ cur' = NoTimer
  BY <1>1 DEF Release, runVars
<1>5. ~Gathered /\ ~Gathered'
  BY <1>1, <1>4 DEF Gathered, Pending
<1>6. Counts'
  BY <1>1, <1>5 DEF IInv, Counts
<1> QED BY <1>1, <1>2, <1>3, <1>6, ReleaseStep

LEMMA TerminateStep ==
  ASSUME IInv, Terminate PROVE IInv'
<1>1. /\ cur = NoTimer /\ cut' = TRUE
      /\ Release(heap, ptr) /\ UNCHANGED <<optVars, now, runVars, tests>>
      /\ ivals' = ivals /\ counting' = counting
      /\ shown' = shown \/ (ivals # <<>> /\ shown' = Append(shown, Len(ivals)))
  BY DEF Terminate
<1>2. StatTypes
  BY TypeParts DEF IInv
<1>3. shown' \in Seq(1..Len(ivals))
  <2>1. CASE shown' = shown
    BY <1>2, <2>1 DEF StatTypes
  <2>2. CASE ivals # <<>> /\ shown' = Append(shown, Len(ivals))
    <3> DEFINE n == Len(ivals)
    <3>1. n \in 1..n
      BY <1>2, <2>2, EmptySeq, LenProperties DEF StatTypes
    <3>2. shown \in Seq(1..n) /\ shown' = Append(shown, n)
      BY <1>2, <2>2 DEF StatTypes
    <3> HIDE DEF n
    <3>3. shown' \in Seq(1..n)
      BY <3>1, <3>2, AppendProperties
    <3> QED BY <3>3 DEF n
  <2> QED BY <1>1, <2>1, <2>2
<1>4. StatTypes'
  BY <1>1, <1>2, <1>3 DEF StatTypes
<1>5. Counts'
  BY <1>1 DEF Counts
<1> QED BY <1>1, <1>4, <1>5, ReleaseStep

\* TEST_START: all the timers are made, or those that were made are cancelled.
LEMMA StartTestStep ==
  ASSUME IInv, StartTest PROVE IInv'
<1>1. /\ phase = "idle" /\ tests' = tests + 1
      /\ ivals' = <<>> /\ shown' = <<>> /\ counting' = 0 /\ cut' = FALSE
      /\ duration' \in Durations /\ omit' \in Omits /\ role' = role
      /\ cur' = cur /\ runNow' = runNow
  BY DEF StartTest, runVars
<1>2. RestTypes /\ Good(heap) /\ heap.active = <<>> /\ cur = NoTimer
  BY <1>1, TypeParts DEF IInv, HeapInv, Calm
<1>3. duration' \in Nat /\ omit' \in Nat
  BY <1>1, TestAssumption
<1> DEFINE plan(t1) == Plan(duration', omit', 0, t1)
           s(t1, left) == Started(heap, left, plan(t1))
<1>4. PICK t1 \in 0..Drift, left \in 0..Unused(heap) :
        /\ now' = t1
        /\ IF s(t1, left).failed THEN Release(s(t1, left).heap, s(t1, left).ptr)
           ELSE /\ heap' = s(t1, left).heap /\ ptr' = s(t1, left).ptr
                /\ phase' = "running" /\ done' = FALSE /\ omitting' = (omit' # 0)
  BY DEF StartTest, Started
<1> DEFINE z == s(t1, left)
<1>5. StartResult(z)
  <2>1. t1 \in Int /\ duration' \in Int /\ omit' \in Int /\ 0 \in Int
    BY <1>3, TestAssumption
  <2> QED BY <1>2, <2>1, StartedGood
<1>6. /\ now' = t1
      /\ IF z.failed THEN Release(z.heap, z.ptr)
         ELSE /\ heap' = z.heap /\ ptr' = z.ptr
              /\ phase' = "running" /\ done' = FALSE /\ omitting' = (omit' # 0)
  BY <1>4
<1>7. now' \in Nat
  BY <1>6, TestAssumption
<1> HIDE DEF z
<1>8. z.ptr \in PtrType /\ Good(z.heap) /\ Live(z.heap, z.ptr) /\ Kinds(z.heap)
      /\ (~z.failed => Ready(z.heap, z.ptr))
  BY <1>5 DEF StartResult, StartState
<1>9. StatTypes' /\ cur' = NoTimer
  BY <1>1, <1>2 DEF StatTypes
<1>10. ~Pending' /\ (phase' # "ended" => Counts')
  <2>1. ~Pending'
    BY <1>9 DEF Pending
  <2>2. phase' # "ended" => ~Gathered'
    BY <2>1 DEF Gathered
  <2>3. Printed(shown', 0) /\ Len(ivals') = 0
    BY <1>1 DEF Printed
  <2> QED BY <2>1, <2>2, <2>3 DEF Counts
<1>11. role' \in Roles /\ runNow' \in Nat /\ cut' \in BOOLEAN /\ tests' \in Nat
  <2>1. role \in Roles /\ runNow \in Nat /\ tests \in Nat
    BY <1>2 DEF RestTypes
  <2>2. role' = role /\ runNow' = runNow /\ cut' = FALSE
    BY <1>1
  <2>3. tests' = tests + 1
    BY <1>1
  <2>4. tests' \in Nat
    BY <2>1, <2>3
  <2> QED BY <2>1, <2>2, <2>4
<1>12. CASE z.failed
  <2>1. /\ heap' = CancelAll(z.heap, z.ptr) /\ ptr' = NoPtr /\ phase' = "idle"
        /\ done' = FALSE /\ omitting' = FALSE
    BY <1>6, <1>12 DEF Release
  <2>2. Emptied(heap')
    BY <1>8, <2>1, CancelAllGood
  <2>3. RestTypes'
    <3>1. phase' \in Phases /\ done' \in BOOLEAN /\ omitting' \in BOOLEAN
      BY <2>1 DEF Phases
    <3> QED BY <1>3, <1>7, <1>11, <3>1 DEF RestTypes
  <2> QED BY <1>1, <1>9, <1>10, <2>1, <2>2, <2>3, IdleInv
<1>13. CASE ~z.failed
  <2>1. /\ heap' = z.heap /\ ptr' = z.ptr
        /\ phase' = "running" /\ done' = FALSE /\ omitting' = (omit' # 0)
    BY <1>6, <1>13
  <2>2. HeapInv'
    BY <1>1, <1>8, <2>1, HeapInvNext
  <2>3. RestTypes'
    <3>1. phase' \in Phases /\ done' \in BOOLEAN /\ omitting' \in BOOLEAN
      BY <2>1 DEF Phases
    <3> QED BY <1>3, <1>7, <1>11, <3>1 DEF RestTypes
  <2>4. HeapTypes'
    BY <1>8, <1>9, <2>1 DEF HeapTypes, Null, Good
  <2>5. Together'
    <3>1. Ready(heap', ptr')
      BY <1>8, <1>13, <2>1
    <3> QED BY <1>10, <3>1 DEF Together, Ready, Stats, Reporter
  <2>6. LoopOnActive' /\ Calm'
    BY <1>1, <1>9, <2>1 DEF LoopOnActive, Calm
  <2> QED BY <1>9, <1>10, <2>1, <2>2, <2>3, <2>4, <2>5, <2>6, TypePartsNext DEF IInv
<1> QED BY <1>12, <1>13
-----------------------------------------------------------------------------
(* The theorems *)

LEMMA TimersInit ==
  ASSUME Init PROVE IInv
<1>1. /\ role \in Roles /\ duration = 0 /\ omit = 0 /\ ptr = NoPtr /\ now = 0
      /\ cur = NoTimer /\ runNow = 0 /\ phase = "idle" /\ done = FALSE
      /\ omitting = FALSE /\ cut = FALSE /\ ivals = <<>> /\ counting = 0
      /\ shown = <<>> /\ tests = 0
  BY DEF Init
<1>2. heap.active = <<>> /\ heap.free = <<>> /\ heap \in Heap
  <2> DEFINE blank == [proc |-> "timer", time |-> 0, usecs |-> 0, periodic |-> FALSE]
  <2>1. blank \in Timer
    BY ProcNames DEF Timer
  <2>2. PICK c \in [Cells -> {blank}] : heap = [active |-> <<>>, free |-> <<>>, cell |-> c]
    BY DEF Init
  <2> HIDE DEF blank
  <2>3. c \in [Cells -> Timer]
    BY <2>1, <2>2
  <2> QED BY <2>2, <2>3 DEF Heap
<1>3. Elems(heap.active) = {} /\ Elems(heap.free) = {}
  BY <1>2 DEF Elems
<1>4. Good(heap)
  <2>1. InOrder(heap.active, heap.cell) /\ NoneTwice(heap.active) /\ NoneTwice(heap.free)
    BY <1>2 DEF InOrder, NoneTwice
  <2>2. /\ heap.active \in Seq(Cells) /\ heap.free \in Seq(Cells)
        /\ heap.cell \in [Cells -> Timer]
    BY <1>2 DEF Heap
  <2> QED BY <1>2, <1>3, <2>1, <2>2, GoodIs
<1>5. ptr \in PtrType /\ \A q \in Procs : ptr[q] = NoTimer
  BY <1>1 DEF NoPtr, PtrType, Null
<1>6. HeapInv
  BY <1>3, <1>4, <1>5 DEF HeapInv, Live, Kinds
<1>7. TypeOK
  <2>1. StatTypes
    BY <1>1 DEF StatTypes
  <2>2. RestTypes
    BY <1>1 DEF RestTypes, Phases
  <2> QED BY <1>1, <1>2, <1>5, <2>1, <2>2, TypeParts DEF HeapTypes, Null
<1>8. LoopOnActive /\ Calm /\ Together
  BY <1>1, <1>2 DEF LoopOnActive, Calm, Together
<1>9. Counts
  BY <1>1 DEF Counts, Gathered, Pending, Printed
<1> QED BY <1>6, <1>7, <1>8, <1>9 DEF IInv

LEMMA TimersNext ==
  ASSUME IInv, [Next]_vars PROVE IInv'
<1>1. CASE EndClient
  <2>1. role = "c" /\ shown' = shown
    BY <1>1 DEF EndClient
  <2> QED BY <1>1, <2>1, EndStep DEF EndClient
<1>2. CASE EndServer
  BY <1>2, EndStep DEF EndServer
<1>3. CASE UNCHANGED vars
  <2>1. UNCHANGED <<optVars, heap, ptr, now, cur, runNow, phase, done, omitting, cut, tests,
                    ivals, counting, shown>>
    BY <1>3 DEF vars, runVars, testVars, statVars
  <2>2. StatTypes /\ RestTypes /\ HeapTypes
    BY TypeParts DEF IInv
  <2>3. StatTypes'
    BY <2>1, <2>2 DEF StatTypes
  <2>4. /\ now' \in Nat /\ runNow' \in Nat /\ cur' \in Null /\ phase' \in Phases
        /\ done' \in BOOLEAN /\ omitting' \in BOOLEAN /\ cut' \in BOOLEAN /\ tests' \in Nat
    BY <2>1, <2>2 DEF RestTypes, HeapTypes
  <2>5. TypeOK' /\ HeapInv' /\ role' = role /\ Stats' = Stats /\ Reporter' = Reporter
    BY <2>1, <2>3, <2>4, SameTypes
  <2>6. LoopOnActive' /\ Calm'
    BY <2>1, <2>5 DEF IInv, LoopOnActive, Calm
  <2>7. Pending' <=> Pending
    BY <2>1, <2>5 DEF Pending
  <2>8. Together'
    BY <2>1, <2>5, <2>7 DEF IInv, Together, Apart
  <2>9. Counts'
    BY <2>1, <2>5, <2>7 DEF IInv, Counts, Gathered
  <2> QED BY <2>5, <2>6, <2>8, <2>9 DEF IInv
<1> QED BY <1>1, <1>2, <1>3, StartTestStep, TickStep, RunTimersStep, FireStep,
           DisplayClientStep, FinishServerStep, TerminateStep DEF Next

LEMMA TimersInvariant == Spec => []IInv
<1>1. Init => IInv
  BY TimersInit
<1>2. IInv /\ [Next]_vars => IInv'
  BY TimersNext
<1> QED BY <1>1, <1>2, PTL DEF Spec

\* The variables keep their types: every timer on a list is a cell of the
\* process, every pointer of the test is to a cell or NULL, and the reporter
\* prints only intervals of the list.
THEOREM TimersTypeCorrect == Spec => []TypeOK
<1>1. IInv => TypeOK
  BY DEF IInv
<1> QED BY <1>1, TimersInvariant, PTL

\* A pointer of the test (test->timer, ->stats_timer, ->reporter_timer,
\* ->omit_timer, sp->send_timer) that is not NULL is to an active timer of its
\* kind, and every active timer is pointed to: no cancel at the end of a test
\* is a second cancel, and no timer of a test outlives it.
THEOREM TimersPointersLive == Spec => []PointersLive
<1>1. IInv => PointersLive
  BY DEF IInv, HeapInv, Live, PointersLive
<1> QED BY <1>1, TimersInvariant, PTL

\* The active list is sorted by time, no timer is on it or on the free list
\* twice, and none is on both, after any sequence of tmr_create, tmr_cancel,
\* tmr_reset and tmr_run.
THEOREM TimersListsWellFormed == Spec => []ListsWellFormed
<1>1. IInv => ListsWellFormed
  BY DEF IInv, HeapInv, Good, ListsWellFormed
<1> QED BY <1>1, TimersInvariant, PTL

\* The next pointer that tmr_run saved before it ran a procedure is to an
\* active timer still, whatever the procedure cancelled or reset.
THEOREM TimersLoopOnActive == Spec => []LoopOnActive
<1>1. IInv => LoopOnActive
  BY DEF IInv
<1> QED BY <1>1, TimersInvariant, PTL

\* Every interval that iperf_stats_callback gathers is printed once and in
\* order by iperf_reporter_callback or by the end of the test, for any
\* interval, duration, omit period and lateness of the loop.
THEOREM TimersEachIntervalShownOnce == Spec => []EachIntervalShownOnce
<1>1. IInv => EachIntervalShownOnce
  <2> SUFFICES ASSUME IInv, ~cut PROVE EachIntervalShownOnce
    BY DEF EachIntervalShownOnce
  <2>1. Len(ivals) \in Nat
    BY TypeParts, LenProperties DEF IInv, StatTypes
  <2>2. Printed(shown, Len(ivals)) \/ Printed(shown, Len(ivals) - 1)
    BY DEF IInv, Counts
  <2> QED BY <2>1, <2>2 DEF Printed, EachIntervalShownOnce
<1> QED BY <1>1, TimersInvariant, PTL
-----------------------------------------------------------------------------
(* No interval is empty *)

\* A loop that is late by less than half of what an interval is longer than
\* the drift of the start.
Prompt == Drift + 2 * MaxLate < Interval

\* The tests the property is about, and the time their last interval ends.
Whole == role = "c" /\ duration # 0 /\ duration % Interval = 0
Ending == duration + omit

EndTimer == ptr["timer"]
OmitTimer == ptr["omit_timer"]
DueAt(t) == heap.cell[t].time

NotEmpty == \A i \in 1..Len(ivals) : ivals[i].from < ivals[i].to
\* How far the intervals reach, or the first will start from.
LastEnd == IF ivals = <<>> THEN counting ELSE ivals[Len(ivals)].to

\* No timer waits for longer than the loop may be late.
InTime == \A t \in Elems(heap.active) : now <= heap.cell[t].time + MaxLate
AtNow == cur # NoTimer => runNow = now
\* When the omit period and the test end.
OmitDue ==
  /\ omitting <=> OmitTimer # NoTimer
  /\ omitting => omit <= DueAt(OmitTimer) /\ DueAt(OmitTimer) <= omit + Drift
EndDue ==
  /\ done <=> EndTimer = NoTimer
  /\ ~done => DueAt(EndTimer) = Ending
  /\ done => Ending <= now
\* The timer of the test fires before the statistics timer that is due with it,
\* and no turn of the loop has gone past it.
EndFirst ==
  ~done =>
    /\ DueAt(EndTimer) <= DueAt(Stats) => Before(heap.active, EndTimer, Stats)
    /\ cur # NoTimer /\ DueAt(cur) <= runNow =>
         cur = EndTimer \/ Before(heap.active, cur, EndTimer)
\* The next interval ends after the last one, and so does the test.
Ahead == LastEnd < DueAt(Stats) /\ LastEnd < Ending /\ LastEnd <= now
\* After the omit period intervals end where whole intervals from its end do.
OnGrid ==
  ~omitting => \E r \in Int, x \in Nat :
                   /\ omit <= r /\ r <= omit + Drift + MaxLate
                   /\ Multiple(x) /\ DueAt(Stats) = r + x
Paced == InTime /\ AtNow /\ OmitDue /\ EndDue /\ EndFirst /\ Ahead /\ OnGrid

PaceInv == Whole => NotEmpty /\ (phase = "running" => Paced)

\* A plan of such a test, once its timers are made.
StartPaced(s, d, o, t1) ==
  LET z == s.ptr
      due(q) == s.heap.cell[z[q]].time
  IN /\ z["timer"] # NoTimer /\ due("timer") = d + o /\ due("stats_timer") = Interval
     /\ d + o <= Interval => Before(s.heap.active, z["timer"], z["stats_timer"])
     /\ o # 0 <=> z["omit_timer"] # NoTimer
     /\ o # 0 => due("omit_timer") = t1 + o
     /\ \A x \in Elems(s.heap.active) : t1 <= s.heap.cell[x].time + MaxLate

LEMMA PacedStart ==
  ASSUME Prompt, NEW s, NEW d \in Nat, NEW o \in Nat, NEW t1 \in 0..Drift,
         Built(s, d, o, 0, t1), ~s.failed, role = "c", d # 0, Multiple(d)
  PROVE  StartPaced(s, d, o, t1)
<1> DEFINE plan == Plan(d, o, 0, t1)
           z == s.ptr
           h == s.heap
           due(q) == h.cell[z[q]].time
<1>1. PICK n, k : /\ Planned(plan, n, k, 0) /\ Timing(plan, n, k, d, o, 0, t1)
                  /\ Building(s, plan, n, k, 0) /\ Made(s, plan, n)
  BY DEF Built
<1> HIDE DEF plan
<1>2. /\ n \in Nat /\ k = 2 /\ k \in 1..n /\ 1 \in 1..n
      /\ plan[1].proc = "timer" /\ plan[2].proc = "stats_timer"
      /\ \A i \in 1..n : plan[i].proc \in Procs
      /\ \A i \in 1..n : plan[i].proc \in {"stats_timer", "reporter_timer"} =>
                           plan[i].at = 0 /\ plan[i].usecs = Interval
  <2>1. n \in Nat /\ k = 2 /\ k \in 1..n /\ plan[1].proc = "timer"
    BY <1>1 DEF Planned, Timing
  <2> QED BY <1>1, <2>1 DEF Planned, PlanStep
<1>3. /\ \A i \in 1..n : /\ z[plan[i].proc] \in Elems(h.active)
                         /\ due(plan[i].proc) = plan[i].at + plan[i].usecs
      /\ \A i, j \in 1..n : i < j /\ due(plan[i].proc) <= due(plan[j].proc)
           => Before(h.active, z[plan[i].proc], z[plan[j].proc])
  BY <1>1 DEF Made, DueOf
<1>4. /\ Good(h) /\ Live(h, z)
      /\ \A q \in Procs : z[q] # NoTimer => \E i \in 1..n : plan[i].proc = q
  BY <1>1 DEF Building
<1>5. NoTimer \notin Elems(h.active) /\ Elems(h.active) \subseteq Cells
      /\ h.cell \in [Cells -> Timer]
  BY <1>4, GoodIs, CellsOf, TimerAssumption
<1>6. Interval \in Nat /\ Drift \in Nat /\ MaxLate \in Nat /\ SendTick \in Nat
      /\ Drift < Interval /\ d >= Interval /\ t1 \in Nat /\ t1 <= Drift
  <2>1. Interval \in Nat /\ Interval > 0 /\ Drift \in Nat /\ MaxLate \in Nat /\ SendTick \in Nat
    BY TestAssumption
  <2>2. Multiple(0)
    <3>1. 0 = 0 * Interval
      BY <2>1
    <3> QED BY <3>1 DEF Multiple
  <2>3. 0 + Interval <= d
    BY <2>2, MultipleFacts
  <2> QED BY <2>1, <2>3 DEF Prompt
<1>7. /\ \A i \in 1..n : plan[i].proc = "timer" => plan[i].at = 0 /\ plan[i].usecs = d + o
      /\ \A i \in 1..n : plan[i].proc = "omit_timer" => plan[i].at = t1 /\ plan[i].usecs = o
      /\ \A i \in 1..n :
           plan[i].proc \notin TestProcs => plan[i].at = t1 /\ plan[i].usecs = SendTick
      /\ o # 0 <=> \E i \in 1..n : plan[i].proc = "omit_timer"
  BY <1>1 DEF Timing, Planned
<1>8. z["timer"] \in Elems(h.active) /\ due("timer") = d + o /\ due("stats_timer") = Interval
  <2>1. z["timer"] \in Elems(h.active) /\ due("timer") = 0 + (d + o)
    BY <1>2, <1>3, <1>7
  <2>2. due("stats_timer") = 0 + Interval
    BY <1>2, <1>3
  <2> QED BY <1>6, <2>1, <2>2
<1>9. d + o <= Interval => Before(h.active, z["timer"], z["stats_timer"])
  BY <1>2, <1>3, <1>8
<1>10. o # 0 <=> z["omit_timer"] # NoTimer
  BY <1>3, <1>4, <1>5, <1>7, ProcNames
<1>11. o # 0 => due("omit_timer") = t1 + o
  BY <1>3, <1>7
<1>12. ASSUME NEW x \in Elems(h.active) PROVE t1 <= h.cell[x].time + MaxLate
  <2>1. h.cell[x].proc \in Procs /\ z[h.cell[x].proc] = x
    BY <1>4, <1>5 DEF Live, Timer
  <2>2. PICK i \in 1..n : plan[i].proc = h.cell[x].proc
    BY <1>4, <1>5, <2>1
  <2>3. h.cell[x].time = plan[i].at + plan[i].usecs
    BY <1>3, <2>1, <2>2
  <2>4. \/ plan[i].at = 0 /\ plan[i].usecs = d + o
        \/ plan[i].at = t1 /\ plan[i].usecs = o
        \/ plan[i].at = 0 /\ plan[i].usecs = Interval
        \/ plan[i].at = t1 /\ plan[i].usecs = SendTick
    BY <1>2, <1>7 DEF TestProcs
  <2> QED BY <1>6, <2>3, <2>4
<1> QED BY <1>5, <1>8, <1>9, <1>10, <1>11, <1>12 DEF StartPaced

LEMMA PaceStart ==
  ASSUME Prompt, IInv, StartTest PROVE PaceInv'
<1>1. /\ ivals' = <<>> /\ counting' = 0 /\ role' = role /\ cur' = NoTimer
      /\ duration' \in Nat /\ omit' \in Nat /\ Good(heap) /\ heap.active = <<>>
  BY TestAssumption DEF StartTest, runVars, IInv, Calm, HeapInv
<1> DEFINE s(t1, left) == Started(heap, left, Plan(duration', omit', 0, t1))
<1>2. PICK t1 \in 0..Drift, left \in 0..Unused(heap) :
        /\ now' = t1
        /\ IF s(t1, left).failed THEN Release(s(t1, left).heap, s(t1, left).ptr)
           ELSE /\ heap' = s(t1, left).heap /\ ptr' = s(t1, left).ptr
                /\ phase' = "running" /\ done' = FALSE /\ omitting' = (omit' # 0)
  BY DEF StartTest, Started
<1> DEFINE z == s(t1, left)
<1>3. Built(z, duration', omit', 0, t1)
  <2>1. t1 \in Int /\ duration' \in Int /\ omit' \in Int /\ 0 \in Int
    BY <1>1, TestAssumption
  <2> QED BY <1>1, <2>1, StartedBuilt
<1>4. /\ now' = t1
      /\ IF z.failed THEN Release(z.heap, z.ptr)
         ELSE /\ heap' = z.heap /\ ptr' = z.ptr
              /\ phase' = "running" /\ done' = FALSE /\ omitting' = (omit' # 0)
  BY <1>2
<1> HIDE DEF z
<1>5. NotEmpty'
  <2>1. Len(ivals') = 0
    BY <1>1
  <2> QED BY <2>1 DEF NotEmpty
<1>6. CASE z.failed
  <2>1. phase' = "idle"
    BY <1>4, <1>6 DEF Release
  <2> QED BY <1>5, <2>1 DEF PaceInv
<1>7. CASE ~z.failed
  <2> SUFFICES ASSUME Whole' PROVE Paced'
    BY <1>5 DEF PaceInv
  <2> DEFINE d == duration'
             o == omit'
  <2>1. /\ heap' = z.heap /\ ptr' = z.ptr /\ now' = t1
        /\ done' = FALSE /\ omitting' = (o # 0)
    BY <1>4, <1>7
  <2>2. role = "c" /\ d # 0 /\ Multiple(d) /\ d \in Nat /\ o \in Nat
    <3>1. role' = "c" /\ d # 0 /\ d % Interval = 0
      BY DEF Whole
    <3> QED BY <1>1, <3>1, MultipleOf
  <2> HIDE DEF d, o
  <2>3. StartPaced(z, d, o, t1)
    <3>1. Built(z, d, o, 0, t1)
      BY <1>3 DEF d, o
    <3> QED BY <1>7, <2>2, <3>1, PacedStart
  <2>4. /\ EndTimer' # NoTimer /\ DueAt(EndTimer)' = d + o /\ DueAt(Stats)' = Interval
        /\ d + o <= Interval => Before(heap'.active, EndTimer', Stats')
        /\ o # 0 <=> OmitTimer' # NoTimer
        /\ o # 0 => DueAt(OmitTimer)' = t1 + o
        /\ \A x \in Elems(heap'.active) : t1 <= heap'.cell[x].time + MaxLate
    BY <2>1, <2>3 DEF StartPaced, EndTimer, OmitTimer, Stats, DueAt
  <2>5. Interval \in Nat /\ Interval > 0 /\ t1 \in Nat /\ t1 <= Drift /\ Drift \in Nat
        /\ MaxLate \in Nat
    BY TestAssumption
  <2>6. InTime'
    BY <2>1, <2>4 DEF InTime
  <2>7. AtNow'
    BY <1>1 DEF AtNow
  <2>8. OmitDue'
    <3>1. o # 0 => o <= DueAt(OmitTimer)' /\ DueAt(OmitTimer)' <= o + Drift
      BY <2>2, <2>4, <2>5
    <3> QED BY <2>1, <2>4, <3>1 DEF OmitDue, o
  <2>9. EndDue'
    BY <2>1, <2>4 DEF EndDue, Ending, d, o
  <2>10. EndFirst'
    BY <1>1, <2>4 DEF EndFirst
  <2>11. Ahead'
    <3>1. LastEnd' = 0
      BY <1>1 DEF LastEnd
    <3>2. Ending' = d + o
      BY DEF Ending, d, o
    <3>3. 0 < d + o
      BY <2>2
    <3> QED BY <2>1, <2>4, <2>5, <3>1, <3>2, <3>3 DEF Ahead
  <2>12. OnGrid'
    <3> SUFFICES ASSUME o = 0
                 PROVE  \E r \in Int, x \in Nat :
                            /\ o <= r /\ r <= o + Drift + MaxLate
                            /\ Multiple(x) /\ DueAt(Stats)' = r + x
      BY <2>1 DEF OnGrid, o
    <3>1. o <= 0 /\ 0 <= o + Drift + MaxLate /\ DueAt(Stats)' = 0 + Interval /\ 0 \in Int
          /\ Interval \in Nat
      BY <2>4, <2>5
    <3> QED BY <3>1, MultipleFacts
  <2> QED BY <2>6, <2>7, <2>8, <2>9, <2>10, <2>11, <2>12 DEF Paced
<1>8. z.failed \in BOOLEAN
  BY <1>3 DEF Built, Building, StartState
<1> QED BY <1>6, <1>7, <1>8

LEMMA PacedFacts ==
  ASSUME IInv, Whole, phase = "running"
  PROVE  /\ Good(heap) /\ Live(heap, ptr) /\ Kinds(heap) /\ ptr \in PtrType
         /\ Elems(heap.active) \subseteq Cells /\ NoTimer \notin Elems(heap.active)
         /\ heap.active \in Seq(Cells) /\ heap.cell \in [Cells -> Timer]
         /\ \A x \in Cells : DueAt(x) \in Int
         /\ Stats \in Elems(heap.active) /\ Reporter \in Elems(heap.active)
         /\ heap.cell[Stats].proc = "stats_timer" /\ heap.cell[Reporter].proc = "reporter_timer"
         /\ heap.cell[Stats].usecs = Interval /\ heap.cell[Reporter].usecs = Interval
         /\ EndTimer # NoTimer =>
              EndTimer \in Elems(heap.active) /\ heap.cell[EndTimer].proc = "timer"
         /\ OmitTimer # NoTimer =>
              OmitTimer \in Elems(heap.active) /\ heap.cell[OmitTimer].proc = "omit_timer"
         /\ now \in Nat /\ runNow \in Nat /\ duration \in Nat /\ omit \in Nat
         /\ Ending \in Nat /\ LastEnd \in Nat /\ ivals \in Seq(Ival) /\ Len(ivals) \in Nat
         /\ done \in BOOLEAN /\ omitting \in BOOLEAN /\ counting \in Nat
         /\ Interval \in Nat /\ Interval > 0 /\ Drift \in Nat /\ MaxLate \in Nat
         /\ Multiple(duration) /\ Interval <= duration
<1>1. TypeOK /\ HeapInv /\ Together /\ phase # "idle"
  BY DEF IInv
<1>2. Good(heap) /\ Live(heap, ptr) /\ Kinds(heap)
  BY <1>1 DEF HeapInv
<1>3. StatTypes /\ RestTypes /\ ptr \in PtrType
  BY <1>1, TypeParts DEF HeapTypes
<1>4. /\ Stats \in Elems(heap.active) /\ Reporter \in Elems(heap.active)
      /\ heap.cell[Stats].proc = "stats_timer" /\ heap.cell[Reporter].proc = "reporter_timer"
      /\ heap.cell[Stats].usecs = Interval /\ heap.cell[Reporter].usecs = Interval
      /\ Elems(heap.active) \subseteq Cells /\ heap.cell \in [Cells -> Timer]
      /\ heap.active \in Seq(Cells)
  BY <1>1, BothActive
<1>5. NoTimer \notin Elems(heap.active) /\ \A x \in Cells : DueAt(x) \in Int
  BY <1>4, TimerAssumption DEF DueAt, Timer
<1>6. /\ EndTimer # NoTimer =>
           EndTimer \in Elems(heap.active) /\ heap.cell[EndTimer].proc = "timer"
      /\ OmitTimer # NoTimer =>
           OmitTimer \in Elems(heap.active) /\ heap.cell[OmitTimer].proc = "omit_timer"
  BY <1>2, ProcNames DEF Live, EndTimer, OmitTimer
<1>7. ivals \in Seq(Ival) /\ counting \in Nat /\ Len(ivals) \in Nat
  BY <1>3, LenProperties DEF StatTypes
<1>8. LastEnd \in Nat
  <2>1. CASE ivals = <<>>
    BY <1>7, <2>1 DEF LastEnd
  <2>2. CASE ivals # <<>>
    <3>1. Len(ivals) \in 1..Len(ivals)
      BY <1>7, <2>2, EmptySeq
    <3>2. ivals[Len(ivals)] \in Ival
      BY <1>7, <3>1, ElementOfSeq
    <3> QED BY <2>2, <3>2 DEF LastEnd, Ival
  <2> QED BY <2>1, <2>2
<1>9. /\ now \in Nat /\ runNow \in Nat /\ duration \in Nat /\ omit \in Nat
      /\ done \in BOOLEAN /\ omitting \in BOOLEAN
  BY <1>3 DEF RestTypes
<1>10. Interval \in Nat /\ Interval > 0 /\ Drift \in Nat /\ MaxLate \in Nat
  BY TestAssumption
<1>11. Multiple(duration) /\ Interval <= duration
  <2>1. Multiple(duration) /\ duration # 0
    BY <1>9, MultipleOf DEF Whole
  <2>2. Multiple(0)
    <3>1. 0 = 0 * Interval /\ 0 \in Nat
      BY <1>10
    <3> QED BY <3>1 DEF Multiple
  <2>3. 0 < duration
    BY <1>9, <2>1
  <2>4. 0 + Interval <= duration
    BY <2>1, <2>2, <2>3, MultipleFacts
  <2> QED BY <1>10, <2>1, <2>4
<1>12. Ending \in Nat
  BY <1>9 DEF Ending
<1> QED BY <1>2, <1>3, <1>4, <1>5, <1>6, <1>7, <1>8, <1>9, <1>10, <1>11, <1>12

\* What a turn keeps, whatever it moves.
LEMMA PacedTurn ==
  ASSUME IInv, Frame, Whole, phase = "running", Paced, cur # NoTimer, DueAt(cur) <= runNow,
         cur' = Link(heap, cur), NEW moved, cur \in moved, Keeps(heap, heap', moved),
         Turned(heap, heap'),
         \A x \in moved \cap Elems(heap'.active) : runNow <= DueAt(x)' \/ DueAt(x) <= DueAt(x)',
         \A x \in moved \ {cur} : runNow < DueAt(x)',
         Stats' = Stats,
         ~done' => /\ ~done /\ EndTimer' = EndTimer /\ EndTimer \notin moved
                   /\ DueAt(EndTimer) <= DueAt(Stats)' => Before(heap'.active, EndTimer, Stats)
  PROVE  InTime' /\ AtNow' /\ EndFirst'
<1>1. /\ Good(heap) /\ Elems(heap.active) \subseteq Cells /\ NoTimer \notin Elems(heap.active)
      /\ \A x \in Cells : DueAt(x) \in Int
      /\ EndTimer # NoTimer => EndTimer \in Elems(heap.active)
      /\ now \in Nat /\ runNow \in Nat /\ MaxLate \in Nat
  BY PacedFacts
<1>2. InTime /\ AtNow /\ EndDue /\ EndFirst
  BY DEF Paced
<1>3. now' = now /\ runNow' = runNow /\ runNow = now
  BY <1>2, FrameIs DEF AtNow
<1>4. cur \in Elems(heap.active) /\ GoesOn(heap, cur, cur')
  BY AtTimer
<1>5. Elems(heap'.active) \subseteq Elems(heap.active) /\ heap'.cell \in [Cells -> Timer]
  BY GoodIs DEF Turned
<1>6. \A x \in Cells : DueAt(x)' \in Int
  BY <1>5 DEF DueAt, Timer
<1>7. \A x \in Cells \ moved : DueAt(x)' = DueAt(x)
  BY DEF Keeps, DueAt
<1>8. InTime'
  <2> SUFFICES ASSUME NEW x \in Elems(heap'.active) PROVE now <= DueAt(x)' + MaxLate
    BY <1>3 DEF InTime, DueAt
  <2>1. x \in Cells /\ now <= DueAt(x) + MaxLate
    BY <1>1, <1>2, <1>5 DEF InTime, DueAt
  <2>2. CASE x \notin moved
    BY <1>7, <2>1, <2>2
  <2>3. CASE x \in moved
    BY <1>1, <1>3, <1>6, <2>1, <2>3
  <2> QED BY <2>2, <2>3
<1>9. AtNow'
  BY <1>3 DEF AtNow
<1>10. EndFirst'
  <2> SUFFICES ASSUME ~done'
               PROVE  /\ DueAt(EndTimer)' <= DueAt(Stats)'
                           => Before(heap'.active, EndTimer', Stats')
                      /\ cur' # NoTimer /\ DueAt(cur)' <= runNow'
                           => cur' = EndTimer' \/ Before(heap'.active, cur', EndTimer')
    BY DEF EndFirst
  <2>1. /\ ~done /\ EndTimer' = EndTimer /\ EndTimer \notin moved /\ EndTimer # NoTimer
        /\ EndTimer \in Elems(heap.active) /\ EndTimer # cur
    BY <1>1, <1>2 DEF EndDue
  <2>2. DueAt(EndTimer)' = DueAt(EndTimer)
    BY <1>1, <1>7, <2>1 DEF DueAt
  <2>3. Before(heap.active, cur, EndTimer)
    BY <1>2, <2>1 DEF EndFirst
  <2>4. cur' # NoTimer /\ (cur' = EndTimer \/ Before(heap.active, cur', EndTimer))
    BY <1>1, <1>4, <2>3, LinkBefore
  <2>5. cur' \in Elems(heap.active) \ {cur}
    BY <1>4, <2>4 DEF GoesOn
  <2>6. CASE cur' \in moved
    <3>1. runNow < DueAt(cur)'
      BY <2>5, <2>6 DEF DueAt
    <3>2. DueAt(cur)' \in Int
      BY <1>1, <1>5, <2>5 DEF DueAt, Timer
    <3> QED BY <1>1, <1>3, <2>1, <2>2, <3>1, <3>2
  <2>7. CASE cur' \notin moved
    <3>1. cur' = EndTimer \/ Before(heap'.active, cur', EndTimer)
      BY <2>1, <2>4, <2>5, <2>7 DEF Keeps
    <3> QED BY <2>1, <2>2, <3>1
  <2> QED BY <2>6, <2>7
<1> QED BY <1>8, <1>9, <1>10

\* The loop is at a timer of a whole test that runs.
AtWhole == IInv /\ Whole /\ phase = "running" /\ Paced /\ NotEmpty /\ cur # NoTimer
             /\ DueAt(cur) <= runNow /\ Frame /\ cur' = Link(heap, cur)

LEMMA AtWholeFacts ==
  ASSUME AtWhole
  PROVE  /\ runNow = now /\ now' = now /\ runNow' = runNow /\ Ending' = Ending /\ omit' = omit
         /\ cur \in Elems(heap.active) /\ cur \in Cells /\ ptr[heap.cell[cur].proc] = cur
         /\ heap.cell[cur].periodic = (heap.cell[cur].proc \notin Once)
<1>1. IInv /\ cur # NoTimer /\ AtNow /\ Frame
  BY DEF AtWhole, Paced
<1>2. /\ cur \in Elems(heap.active) /\ ptr[heap.cell[cur].proc] = cur /\ Kinds(heap)
      /\ Good(heap)
  BY <1>1, AtTimer
<1>3. cur \in Cells
  BY <1>2, GoodIs, CellsOf
<1> QED BY <1>1, <1>2, <1>3, FrameIs DEF AtNow, Ending, Kinds

LEMMA PaceTimer ==
  ASSUME Prompt, AtWhole, heap.cell[cur].proc = "timer",
         heap' = AfterProc(heap, cur), TestProc
  PROVE  Paced' /\ NotEmpty'
<1>1. /\ runNow = now /\ now' = now /\ runNow' = runNow /\ Ending' = Ending /\ omit' = omit
      /\ cur \in Elems(heap.active) /\ cur \in Cells /\ cur = EndTimer
      /\ ~heap.cell[cur].periodic
  BY AtWholeFacts DEF EndTimer, Once
<1>2. IInv /\ Whole /\ phase = "running" /\ Paced /\ NotEmpty /\ cur # NoTimer
      /\ DueAt(cur) <= runNow /\ Frame /\ cur' = Link(heap, cur)
  BY DEF AtWhole
<1>3. InTime /\ AtNow /\ OmitDue /\ EndDue /\ EndFirst /\ Ahead /\ OnGrid
  BY <1>2 DEF Paced
<1>4. /\ Good(heap) /\ Elems(heap.active) \subseteq Cells /\ NoTimer \notin Elems(heap.active)
      /\ ptr \in PtrType
      /\ \A x \in Cells : DueAt(x) \in Int
      /\ Stats \in Elems(heap.active) /\ heap.cell[Stats].proc = "stats_timer"
      /\ OmitTimer # NoTimer =>
           OmitTimer \in Elems(heap.active) /\ heap.cell[OmitTimer].proc = "omit_timer"
      /\ now \in Nat /\ Ending \in Nat
  BY <1>2, PacedFacts
<1>5. Cancelled(heap, cur, heap') /\ heap' = tmr_cancel(heap, cur)
  BY <1>1, <1>4, AfterOnce DEF AfterProc
<1>6. /\ ptr' = [ptr EXCEPT !["timer"] = NoTimer] /\ done' = TRUE /\ omitting' = omitting
      /\ ivals' = ivals /\ counting' = counting
  BY DEF TestProc, statVars
<1>7. Stats' = Stats /\ EndTimer' = NoTimer /\ OmitTimer' = OmitTimer
  BY <1>4, <1>6, ProcNames DEF Stats, EndTimer, OmitTimer, PtrType
<1>8. /\ Keeps(heap, heap', {cur}) /\ Turned(heap, heap') /\ heap'.cell = heap.cell
      /\ Elems(heap'.active) = Elems(heap.active) \ {cur}
  <2>1. Keeps(heap, heap', {cur})
    BY <1>1, <1>4, <1>5, CancelKeeps
  <2>2. Turned(heap, heap')
    BY <1>5, CancelledTurned
  <2> QED BY <1>5, <2>1, <2>2 DEF Cancelled
<1>9. InTime' /\ AtNow' /\ EndFirst'
  <2> DEFINE moved == {cur}
  <2>1. cur \in moved /\ \A x \in moved \cap Elems(heap'.active) : DueAt(x) <= DueAt(x)'
    BY <1>8
  <2>2. Keeps(heap, heap', moved) /\ \A x \in moved \ {cur} : runNow < DueAt(x)'
    BY <1>8
  <2> HIDE DEF moved
  <2> QED BY <1>2, <1>6, <1>7, <1>8, <2>1, <2>2, PacedTurn
<1>10. \A x \in Cells : DueAt(x)' = DueAt(x)
  BY <1>8 DEF DueAt
<1>11. OmitDue'
  <2>1. OmitTimer # NoTimer => DueAt(OmitTimer)' = DueAt(OmitTimer)
    BY <1>4, <1>7, <1>8 DEF DueAt
  <2> QED BY <1>1, <1>3, <1>6, <1>7, <2>1 DEF OmitDue
<1>12. EndDue'
  <2>1. Ending <= now
    BY <1>1, <1>2, <1>3 DEF EndDue
  <2> QED BY <1>1, <1>6, <1>7, <2>1 DEF EndDue
<1>13. DueAt(Stats)' = DueAt(Stats) /\ LastEnd' = LastEnd
  BY <1>4, <1>6, <1>7, <1>8 DEF DueAt, LastEnd
<1>14. Ahead' /\ OnGrid' /\ NotEmpty'
  BY <1>1, <1>2, <1>3, <1>6, <1>13 DEF Ahead, OnGrid, NotEmpty
<1> QED BY <1>9, <1>11, <1>12, <1>14 DEF Paced

\* A turn of a periodic timer that gathers nothing: a send timer or the reporter.
LEMMA PaceOther ==
  ASSUME Prompt, AtWhole, heap.cell[cur].proc \notin {"timer", "stats_timer", "omit_timer"},
         heap' = AfterProc(heap, cur),
         ptr' = ptr, done' = done, omitting' = omitting, ivals' = ivals, counting' = counting,
         heap.cell[cur].usecs \in Nat
  PROVE  Paced' /\ NotEmpty'
<1>1. /\ runNow = now /\ now' = now /\ runNow' = runNow /\ Ending' = Ending /\ omit' = omit
      /\ cur \in Elems(heap.active) /\ cur \in Cells
      /\ heap.cell[cur].periodic
  BY AtWholeFacts DEF Once
<1>2. IInv /\ Whole /\ phase = "running" /\ Paced /\ NotEmpty /\ cur # NoTimer
      /\ DueAt(cur) <= runNow /\ Frame /\ cur' = Link(heap, cur)
  BY DEF AtWhole
<1>3. InTime /\ AtNow /\ OmitDue /\ EndDue /\ EndFirst /\ Ahead /\ OnGrid
  BY <1>2 DEF Paced
<1>4. /\ Good(heap) /\ Elems(heap.active) \subseteq Cells /\ NoTimer \notin Elems(heap.active)
      /\ \A x \in Cells : DueAt(x) \in Int
      /\ Stats \in Elems(heap.active) /\ heap.cell[Stats].proc = "stats_timer"
      /\ EndTimer # NoTimer =>
           EndTimer \in Elems(heap.active) /\ heap.cell[EndTimer].proc = "timer"
      /\ OmitTimer # NoTimer =>
           OmitTimer \in Elems(heap.active) /\ heap.cell[OmitTimer].proc = "omit_timer"
      /\ heap.cell \in [Cells -> Timer]
  BY <1>2, PacedFacts
<1> DEFINE time == heap.cell[cur].time + heap.cell[cur].usecs
<1>5. time \in Int /\ DueAt(cur) <= time
  BY <1>1, <1>4 DEF DueAt
<1>6. Rescheduled(heap, cur, time, heap') /\ heap' = Reschedule(heap, cur, time)
  BY <1>1, <1>4, AfterPeriodic DEF AfterProc
<1> HIDE DEF time
<1>7. Stats' = Stats /\ EndTimer' = EndTimer /\ OmitTimer' = OmitTimer
  BY DEF Stats, EndTimer, OmitTimer
<1>8. /\ Keeps(heap, heap', {cur}) /\ Turned(heap, heap')
      /\ Elems(heap'.active) = Elems(heap.active)
      /\ \A x \in Cells : DueAt(x)' = IF x = cur THEN time ELSE DueAt(x)
  <2>1. Keeps(heap, heap', {cur})
    BY <1>1, <1>4, <1>5, <1>6, RescheduleKeeps
  <2>2. Turned(heap, heap')
    BY <1>6, RescheduledTurned
  <2>3. /\ Elems(heap'.active) = Elems(heap.active)
        /\ \A x \in Cells : heap'.cell[x].time = IF x = cur THEN time ELSE heap.cell[x].time
    BY <1>6 DEF Rescheduled
  <2> QED BY <2>1, <2>2, <2>3 DEF DueAt
<1>9. cur # Stats /\ cur # EndTimer /\ cur # OmitTimer
  BY <1>2, <1>4
<1>10. /\ DueAt(Stats)' = DueAt(Stats) /\ LastEnd' = LastEnd
       /\ EndTimer # NoTimer => DueAt(EndTimer)' = DueAt(EndTimer)
       /\ OmitTimer # NoTimer => DueAt(OmitTimer)' = DueAt(OmitTimer)
  <2>1. \A x \in Cells \ {cur} : heap'.cell[x].time = heap.cell[x].time
    BY <1>8 DEF DueAt
  <2> QED BY <1>4, <1>7, <1>9, <2>1 DEF DueAt, LastEnd
<1>11. InTime' /\ AtNow' /\ EndFirst'
  <2> DEFINE moved == {cur}
  <2>1. cur \in moved /\ \A x \in moved \cap Elems(heap'.active) : DueAt(x) <= DueAt(x)'
    BY <1>1, <1>5, <1>8
  <2>2. Keeps(heap, heap', moved) /\ \A x \in moved \ {cur} : runNow < DueAt(x)'
    BY <1>8
  <2>3. ~done' => /\ ~done /\ EndTimer' = EndTimer /\ EndTimer \notin moved
                  /\ DueAt(EndTimer) <= DueAt(Stats)' => Before(heap'.active, EndTimer, Stats)
    <3> SUFFICES ASSUME ~done, DueAt(EndTimer) <= DueAt(Stats)
                 PROVE  Before(heap'.active, EndTimer, Stats)
      BY <1>7, <1>9, <1>10
    <3>1. EndTimer # NoTimer /\ Before(heap.active, EndTimer, Stats)
      BY <1>3 DEF EndDue, EndFirst
    <3> QED BY <1>4, <1>8, <1>9, <3>1 DEF Keeps
  <2> HIDE DEF moved
  <2> QED BY <1>2, <1>7, <1>8, <2>1, <2>2, <2>3, PacedTurn
<1>12. OmitDue' /\ EndDue'
  BY <1>1, <1>3, <1>7, <1>10 DEF OmitDue, EndDue
<1>13. Ahead' /\ OnGrid' /\ NotEmpty'
  BY <1>1, <1>2, <1>3, <1>10 DEF Ahead, OnGrid, NotEmpty
<1> QED BY <1>11, <1>12, <1>13 DEF Paced

\* The statistics timer does not fire at or after the end of the test while the
\* timer of the test is active: it is behind that timer, or a whole interval
\* before it, and the loop is not as late as that.
LEMMA BeforeTheEnd ==
  ASSUME Prompt, AtWhole, cur = Stats, ~done PROVE now < Ending
<1>1. IInv /\ Whole /\ phase = "running" /\ Paced /\ cur # NoTimer /\ DueAt(cur) <= runNow
  BY DEF AtWhole
<1>2. InTime /\ OmitDue /\ EndDue /\ EndFirst /\ OnGrid
  BY <1>1 DEF Paced
<1>3. /\ Good(heap) /\ Stats \in Elems(heap.active) /\ Elems(heap.active) \subseteq Cells
      /\ \A x \in Cells : DueAt(x) \in Int
      /\ OmitTimer # NoTimer => OmitTimer \in Elems(heap.active)
      /\ now \in Nat /\ omit \in Nat /\ duration \in Nat /\ omitting \in BOOLEAN
      /\ Interval \in Nat /\ Drift \in Nat /\ MaxLate \in Nat
      /\ Multiple(duration) /\ Interval <= duration
  BY <1>1, PacedFacts
<1>4. EndTimer # NoTimer /\ DueAt(EndTimer) = Ending /\ Ending = duration + omit
  BY <1>2 DEF EndDue, Ending
<1>5. DueAt(Stats) \in Int /\ now <= DueAt(Stats) + MaxLate
  BY <1>2, <1>3 DEF InTime, DueAt
<1>6. CASE omitting
  <2>1. OmitTimer \in Elems(heap.active) /\ DueAt(OmitTimer) <= omit + Drift
    BY <1>2, <1>3, <1>6 DEF OmitDue
  <2>2. DueAt(OmitTimer) \in Int /\ now <= DueAt(OmitTimer) + MaxLate
    BY <1>2, <1>3, <2>1 DEF InTime, DueAt
  <2> QED BY <1>3, <1>4, <2>1, <2>2 DEF Prompt
<1>7. CASE ~omitting
  <2>1. PICK r \in Int, x \in Nat :
            /\ omit <= r /\ r <= omit + Drift + MaxLate
            /\ Multiple(x) /\ DueAt(Stats) = r + x
    BY <1>2, <1>7 DEF OnGrid
  <2>2. x \in Nat
    BY <2>1, MultipleFacts
  <2>3. DueAt(Stats) < Ending
    <3> SUFFICES ASSUME Ending <= DueAt(Stats) PROVE FALSE
      BY <1>3, <1>4, <1>5
    <3>1. Before(heap.active, EndTimer, Stats)
      BY <1>2, <1>4 DEF EndFirst
    <3>2. Stats = EndTimer \/ Before(heap.active, Stats, EndTimer)
      BY <1>1, <1>2 DEF EndFirst
    <3> QED BY <1>3, <3>1, <3>2, NotBoth
  <2>4. x < duration
    BY <1>3, <1>4, <2>1, <2>2, <2>3
  <2>5. x + Interval <= duration
    BY <1>3, <2>1, <2>4, MultipleFacts
  <2> QED BY <1>3, <1>4, <1>5, <2>1, <2>2, <2>5 DEF Prompt
<1> QED BY <1>3, <1>6, <1>7

\* The interval that is gathered now.
LEMMA GatherGrows ==
  ASSUME ivals \in Seq(Ival), counting \in Nat, now \in Nat, Gather, LastEnd < now, NotEmpty
  PROVE  NotEmpty' /\ LastEnd' = now
<1> DEFINE n == Len(ivals)
           e == [from |-> IF ivals = <<>> THEN counting ELSE ivals[n].to,
                 to |-> now, counted |-> counting]
<1>1. ivals' = Append(ivals, e)
  BY DEF Gather
<1>2. e.from = LastEnd /\ e.to = now
  BY DEF LastEnd
<1> HIDE DEF e
<1>3. n \in Nat /\ Len(ivals') = n + 1 /\ ivals'[n + 1] = e
      /\ \A i \in 1..n : ivals'[i] = ivals[i]
  BY <1>1, LenProperties, AppendProperties
<1>4. LastEnd' = now
  <2>1. ivals' # <<>>
    BY <1>3
  <2> QED BY <1>2, <1>3, <2>1 DEF LastEnd
<1>5. NotEmpty'
  <2> SUFFICES ASSUME NEW i \in 1..(n + 1) PROVE ivals'[i].from < ivals'[i].to
    BY <1>3 DEF NotEmpty
  <2>1. CASE i = n + 1
    BY <1>2, <1>3, <2>1
  <2>2. CASE i \in 1..n
    BY <1>3, <2>2 DEF NotEmpty
  <2> HIDE DEF n
  <2> QED BY <1>3, <2>1, <2>2
<1> QED BY <1>4, <1>5

LEMMA PaceStats ==
  ASSUME Prompt, AtWhole, heap.cell[cur].proc = "stats_timer",
         heap' = AfterProc(heap, cur), StatsProc
  PROVE  Paced' /\ NotEmpty'
<1>1. /\ runNow = now /\ now' = now /\ runNow' = runNow /\ Ending' = Ending /\ omit' = omit
      /\ cur \in Elems(heap.active) /\ cur \in Cells /\ cur = Stats
      /\ heap.cell[cur].periodic
  BY AtWholeFacts DEF Stats, Once
<1>2. IInv /\ Whole /\ phase = "running" /\ Paced /\ NotEmpty /\ cur # NoTimer
      /\ DueAt(cur) <= runNow /\ Frame /\ cur' = Link(heap, cur)
  BY DEF AtWhole
<1>3. InTime /\ AtNow /\ OmitDue /\ EndDue /\ EndFirst /\ Ahead /\ OnGrid
  BY <1>2 DEF Paced
<1>4. /\ Good(heap) /\ Elems(heap.active) \subseteq Cells /\ NoTimer \notin Elems(heap.active)
      /\ \A x \in Cells : DueAt(x) \in Int
      /\ heap.cell[Stats].proc = "stats_timer" /\ heap.cell[Stats].usecs = Interval
      /\ EndTimer # NoTimer =>
           EndTimer \in Elems(heap.active) /\ heap.cell[EndTimer].proc = "timer"
      /\ OmitTimer # NoTimer =>
           OmitTimer \in Elems(heap.active) /\ heap.cell[OmitTimer].proc = "omit_timer"
      /\ heap.cell \in [Cells -> Timer]
      /\ now \in Nat /\ Ending \in Nat /\ LastEnd \in Nat
      /\ ivals \in Seq(Ival) /\ counting \in Nat /\ done \in BOOLEAN
      /\ Interval \in Nat /\ Interval > 0 /\ Drift \in Nat /\ MaxLate \in Nat
  BY <1>2, PacedFacts
<1> DEFINE time == heap.cell[cur].time + Interval
<1>5. time \in Int /\ DueAt(cur) <= time /\ time = DueAt(Stats) + Interval
  BY <1>1, <1>4 DEF DueAt
<1>6. Rescheduled(heap, cur, time, heap') /\ heap' = Reschedule(heap, cur, time)
  <2>1. heap.cell[cur].usecs = Interval
    BY <1>1, <1>4
  <2> QED BY <1>1, <1>4, <2>1, AfterPeriodic DEF AfterProc
<1> HIDE DEF time
<1>7. ptr' = ptr /\ done' = done /\ omitting' = omitting
  BY DEF StatsProc
<1>8. Stats' = Stats /\ EndTimer' = EndTimer /\ OmitTimer' = OmitTimer
  BY <1>7 DEF Stats, EndTimer, OmitTimer
<1>9. /\ Keeps(heap, heap', {cur}) /\ Turned(heap, heap')
      /\ Elems(heap'.active) = Elems(heap.active)
      /\ \A x \in Cells : heap'.cell[x].time = IF x = cur THEN time ELSE heap.cell[x].time
      /\ LastDue(heap'.active, heap'.cell, Stats) /\ Good(heap')
  <2>1. Keeps(heap, heap', {cur})
    BY <1>1, <1>4, <1>5, <1>6, RescheduleKeeps
  <2>2. Turned(heap, heap')
    BY <1>6, RescheduledTurned
  <2> QED BY <1>1, <1>6, <2>1, <2>2 DEF Rescheduled
<1>10. EndTimer # cur /\ OmitTimer # cur
  BY <1>1, <1>2, <1>4
<1>11. /\ DueAt(Stats)' = time
       /\ EndTimer # NoTimer => DueAt(EndTimer)' = DueAt(EndTimer)
       /\ OmitTimer # NoTimer => DueAt(OmitTimer)' = DueAt(OmitTimer)
  BY <1>1, <1>4, <1>8, <1>9, <1>10 DEF DueAt
<1>12. InTime' /\ AtNow' /\ EndFirst'
  <2> DEFINE moved == {cur}
  <2>1. cur \in moved /\ \A x \in moved \cap Elems(heap'.active) : DueAt(x) <= DueAt(x)'
    BY <1>1, <1>5, <1>9 DEF DueAt
  <2>2. Keeps(heap, heap', moved) /\ \A x \in moved \ {cur} : runNow < DueAt(x)'
    BY <1>9
  <2>3. ~done' => /\ ~done /\ EndTimer' = EndTimer /\ EndTimer \notin moved
                  /\ DueAt(EndTimer) <= DueAt(Stats)' => Before(heap'.active, EndTimer, Stats)
    <3> SUFFICES ASSUME ~done, DueAt(EndTimer) <= DueAt(Stats)'
                 PROVE  Before(heap'.active, EndTimer, Stats)
      BY <1>7, <1>8, <1>10
    <3>1. EndTimer \in Elems(heap'.active) /\ EndTimer # Stats
      BY <1>1, <1>3, <1>4, <1>9, <1>10 DEF EndDue
    <3>2. heap'.cell[EndTimer].time <= heap'.cell[Stats].time
      BY <1>4, <1>8, <1>9, <1>11, <3>1 DEF DueAt
    <3>3. heap'.active \in Seq(Cells) /\ heap'.cell \in [Cells -> Timer]
      BY <1>9, GoodIs
    <3> QED BY <1>9, <3>1, <3>2, <3>3, LastIsAfter
  <2> HIDE DEF moved
  <2> QED BY <1>2, <1>8, <1>9, <2>1, <2>2, <2>3, PacedTurn
<1>13. OmitDue' /\ EndDue'
  BY <1>1, <1>3, <1>7, <1>8, <1>11 DEF OmitDue, EndDue
<1>14. OnGrid'
  <2> SUFFICES ASSUME ~omitting
               PROVE  \E r \in Int, x \in Nat :
                          /\ omit <= r /\ r <= omit + Drift + MaxLate
                          /\ Multiple(x) /\ DueAt(Stats)' = r + x
    BY <1>1, <1>7 DEF OnGrid
  <2>1. PICK r \in Int, x \in Nat :
            /\ omit <= r /\ r <= omit + Drift + MaxLate
            /\ Multiple(x) /\ DueAt(Stats) = r + x
    BY <1>3 DEF OnGrid
  <2>2. x + Interval \in Nat /\ Multiple(x + Interval)
    BY <1>4, <2>1, MultipleFacts
  <2>3. DueAt(Stats)' = r + (x + Interval)
    BY <1>4, <1>5, <1>11, <2>1, <2>2
  <2> QED BY <2>1, <2>2, <2>3
<1>15. Ahead' /\ NotEmpty'
  <2>1. CASE done
    <3>1. ivals' = ivals /\ counting' = counting
      BY <2>1 DEF StatsProc, statVars
    <3>2. LastEnd' = LastEnd
      BY <3>1 DEF LastEnd
    <3>3. Ahead'
      BY <1>1, <1>3, <1>4, <1>5, <1>11, <3>2 DEF Ahead
    <3> QED BY <1>2, <3>1, <3>3 DEF NotEmpty
  <2>2. CASE ~done
    <3>1. Gather
      BY <2>2 DEF StatsProc
    <3>2. LastEnd < now
      BY <1>1, <1>2, <1>3, <1>4 DEF Ahead
    <3>3. NotEmpty' /\ LastEnd' = now
      BY <1>2, <1>4, <3>1, <3>2, GatherGrows
    <3>4. now < Ending
      BY <1>1, <2>2, BeforeTheEnd
    <3>5. now < time
      <4>1. now <= DueAt(Stats) + MaxLate
        BY <1>1, <1>3 DEF InTime, DueAt
      <4> QED BY <1>1, <1>4, <1>5, <4>1 DEF Prompt
    <3> QED BY <1>1, <1>4, <1>11, <3>3, <3>4, <3>5 DEF Ahead
  <2> QED BY <1>4, <2>1, <2>2
<1> QED BY <1>12, <1>13, <1>14, <1>15 DEF Paced

\* The end of the omit period starts the two periods again from now.
LEMMA PaceOmit ==
  ASSUME Prompt, AtWhole, heap.cell[cur].proc = "omit_timer",
         heap' = AfterProc(ResetBoth(heap), cur), OmitProc
  PROVE  Paced' /\ NotEmpty'
<1>1. /\ runNow = now /\ now' = now /\ runNow' = runNow /\ Ending' = Ending /\ omit' = omit
      /\ cur \in Elems(heap.active) /\ cur \in Cells /\ cur = OmitTimer
      /\ ~heap.cell[cur].periodic
  BY AtWholeFacts DEF OmitTimer, Once
<1>2. IInv /\ Whole /\ phase = "running" /\ Paced /\ NotEmpty /\ cur # NoTimer
      /\ DueAt(cur) <= runNow /\ Frame /\ cur' = Link(heap, cur)
  BY DEF AtWhole
<1>3. InTime /\ AtNow /\ OmitDue /\ EndDue /\ EndFirst /\ Ahead /\ OnGrid
  BY <1>2 DEF Paced
<1>4. /\ Good(heap) /\ Kinds(heap) /\ Elems(heap.active) \subseteq Cells
      /\ NoTimer \notin Elems(heap.active) /\ ptr \in PtrType
      /\ \A x \in Cells : DueAt(x) \in Int
      /\ Stats \in Elems(heap.active) /\ heap.cell[Stats].proc = "stats_timer"
      /\ Reporter \in Elems(heap.active) /\ heap.cell[Reporter].proc = "reporter_timer"
      /\ heap.cell[Stats].usecs = Interval /\ heap.cell[Reporter].usecs = Interval
      /\ EndTimer # NoTimer =>
           EndTimer \in Elems(heap.active) /\ heap.cell[EndTimer].proc = "timer"
      /\ now \in Nat /\ omit \in Nat /\ duration \in Nat /\ Ending \in Nat /\ LastEnd \in Nat
      /\ Interval \in Nat /\ Interval > 0 /\ Drift \in Nat /\ MaxLate \in Nat
      /\ Interval <= duration
  BY <1>2, PacedFacts
<1>5. /\ Stats # Reporter /\ Stats # cur /\ Reporter # cur /\ Stats # NoTimer /\ Reporter # NoTimer
      /\ EndTimer # cur /\ EndTimer # Stats /\ EndTimer # Reporter
      /\ Stats \in Cells /\ Reporter \in Cells
  BY <1>2, <1>4
<1> DEFINE due == now + Interval
           a == Reschedule(heap, Stats, due)
           b == Reschedule(a, Reporter, due)
<1>6. due \in Int /\ now < due
  BY <1>4
<1> HIDE DEF due
<1>7. Rescheduled(heap, Stats, due, a) /\ Keeps(heap, a, {Stats})
  BY <1>4, <1>6, RescheduleGood, RescheduleKeeps
<1> HIDE DEF a
<1>8. /\ Good(a) /\ Elems(a.active) = Elems(heap.active) /\ a.cell[Reporter].usecs = Interval
      /\ LastDue(a.active, a.cell, Stats) /\ a.cell[Stats].time = due
      /\ \A x \in Cells \ {Stats} : a.cell[x].time = heap.cell[x].time
      /\ Turned(heap, a)
  <2>1. Turned(heap, a)
    BY <1>7, RescheduledTurned
  <2> QED BY <1>4, <1>5, <1>7, <2>1 DEF Rescheduled
<1>9. Rescheduled(a, Reporter, due, b) /\ Keeps(a, b, {Reporter})
  BY <1>4, <1>6, <1>8, RescheduleGood, RescheduleKeeps
<1>10. ResetBoth(heap) = b
  <2>1. ResetBoth(heap) = tmr_reset(tmr_reset(heap, runNow, Stats), runNow, Reporter)
    BY <1>5 DEF ResetBoth, Stats, Reporter
  <2>2. tmr_reset(heap, runNow, Stats) = a
    BY <1>1, <1>4 DEF tmr_reset, a, due
  <2>3. tmr_reset(a, runNow, Reporter) = b
    BY <1>1, <1>8 DEF tmr_reset, due
  <2> QED BY <2>1, <2>2, <2>3
<1> HIDE DEF b
<1>11. /\ Good(b) /\ Elems(b.active) = Elems(heap.active) /\ ~b.cell[cur].periodic
       /\ b.cell[Stats].time = due /\ b.cell[Reporter].time = due
       /\ \A x \in Cells \ {Stats, Reporter} : b.cell[x].time = heap.cell[x].time
       /\ Turned(heap, b)
  <2>1. /\ Good(b) /\ Elems(b.active) = Elems(heap.active)
        /\ b.cell[Reporter].time = due
        /\ \A x \in Cells \ {Reporter} : b.cell[x].time = a.cell[x].time
    BY <1>5, <1>8, <1>9 DEF Rescheduled
  <2>2. Turned(heap, b)
    BY <1>8, <1>9 DEF Rescheduled, Turned
  <2> QED BY <1>1, <1>5, <1>8, <2>1, <2>2 DEF Turned
<1>12. /\ Cancelled(b, cur, heap') /\ heap' = tmr_cancel(b, cur)
       /\ Keeps(b, heap', {cur})
  <2>1. heap' = AfterProc(b, cur) /\ cur \in Elems(b.active)
    BY <1>1, <1>10, <1>11
  <2>2. heap' = tmr_cancel(b, cur)
    BY <1>11, <2>1 DEF AfterProc
  <2>3. Cancelled(b, cur, heap')
    BY <1>11, <2>1, <2>2, CancelGood
  <2> QED BY <1>11, <2>1, <2>2, <2>3, CancelKeeps
<1> DEFINE moved == {cur, Stats, Reporter}
<1>13. /\ Turned(heap, heap') /\ heap'.cell = b.cell
       /\ Elems(heap'.active) = Elems(heap.active) \ {cur}
  BY <1>11, <1>12 DEF Cancelled, Turned
<1>14. Keeps(heap, heap', moved)
  <2>1. ASSUME NEW x \in Elems(heap.active) \ moved, NEW y \in Elems(heap.active) \ moved,
               Before(heap.active, x, y)
        PROVE  Before(heap'.active, x, y)
    <3>1. Before(a.active, x, y)
      BY <1>7, <2>1 DEF Keeps
    <3>2. Before(b.active, x, y)
      BY <1>8, <1>9, <2>1, <3>1 DEF Keeps
    <3> QED BY <1>11, <1>12, <2>1, <3>2 DEF Keeps
  <2>2. \A x \in Cells \ moved : heap'.cell[x].time = heap.cell[x].time
    BY <1>11, <1>13
  <2> QED BY <2>1, <2>2 DEF Keeps
<1>15. /\ ptr' = [ptr EXCEPT !["omit_timer"] = NoTimer] /\ done' = done /\ omitting' = FALSE
       /\ ivals' = ivals /\ counting' = now
  BY DEF OmitProc
<1>16. Stats' = Stats /\ EndTimer' = EndTimer /\ OmitTimer' = NoTimer
  BY <1>4, <1>15, ProcNames DEF Stats, EndTimer, OmitTimer, PtrType
<1>17. /\ DueAt(Stats)' = due
       /\ EndTimer # NoTimer => DueAt(EndTimer)' = DueAt(EndTimer)
  BY <1>4, <1>5, <1>11, <1>13, <1>16 DEF DueAt
<1>18. ASSUME ~done, DueAt(EndTimer) <= DueAt(Stats)' PROVE Before(heap'.active, EndTimer, Stats)
  <2>1. EndTimer # NoTimer /\ EndTimer \in Elems(a.active)
    BY <1>3, <1>4, <1>8, <1>18 DEF EndDue
  <2>2. a.cell[EndTimer].time <= a.cell[Stats].time
    BY <1>4, <1>5, <1>8, <1>17, <1>18, <2>1 DEF DueAt
  <2>3. a.active \in Seq(Cells) /\ a.cell \in [Cells -> Timer]
    BY <1>8, GoodIs
  <2>4. Before(a.active, EndTimer, Stats)
    BY <1>5, <1>8, <2>1, <2>2, <2>3, LastIsAfter
  <2>5. Stats \in Elems(a.active) \ {Reporter} /\ EndTimer \in Elems(a.active) \ {Reporter}
    BY <1>4, <1>5, <1>8, <2>1
  <2>6. Before(b.active, EndTimer, Stats)
    BY <1>9, <2>4, <2>5 DEF Keeps
  <2>7. Stats \in Elems(b.active) \ {cur} /\ EndTimer \in Elems(b.active) \ {cur}
    BY <1>5, <1>8, <1>11, <2>5
  <2> QED BY <1>12, <2>6, <2>7 DEF Keeps
<1>19. InTime' /\ AtNow' /\ EndFirst'
  <2>1. \A x \in moved \cap Elems(heap'.active) : runNow <= DueAt(x)'
    BY <1>1, <1>4, <1>6, <1>11, <1>13 DEF DueAt
  <2>2. \A x \in moved \ {cur} : runNow < DueAt(x)'
    BY <1>1, <1>4, <1>6, <1>11, <1>13 DEF DueAt
  <2>3. ~done' => /\ ~done /\ EndTimer' = EndTimer /\ EndTimer \notin moved
                  /\ DueAt(EndTimer) <= DueAt(Stats)' => Before(heap'.active, EndTimer, Stats)
    BY <1>5, <1>15, <1>16, <1>18
  <2>4. cur \in moved
    OBVIOUS
  <2> HIDE DEF moved
  <2> QED BY <1>2, <1>13, <1>14, <1>16, <2>1, <2>2, <2>3, <2>4, PacedTurn
<1>20. OmitDue' /\ EndDue'
  BY <1>1, <1>3, <1>15, <1>16, <1>17 DEF OmitDue, EndDue
<1>21. omit <= now /\ now <= omit + Drift + MaxLate
  <2>1. omit <= DueAt(cur) /\ DueAt(cur) <= omit + Drift
    BY <1>1, <1>2, <1>3 DEF OmitDue
  <2>2. DueAt(cur) <= now /\ now <= DueAt(cur) + MaxLate /\ DueAt(cur) \in Int
    BY <1>1, <1>2, <1>3, <1>4 DEF InTime, DueAt
  <2> QED BY <1>4, <2>1, <2>2
<1>22. OnGrid'
  <2>1. Multiple(Interval) /\ DueAt(Stats)' = now + Interval /\ now \in Int /\ Interval \in Nat
    BY <1>4, <1>17, MultipleFacts DEF due
  <2> QED BY <1>1, <1>21, <2>1 DEF OnGrid
<1>23. Ahead'
  <2>1. LastEnd' = LastEnd \/ LastEnd' = now
    BY <1>15 DEF LastEnd
  <2>2. LastEnd <= now /\ LastEnd < Ending
    BY <1>3 DEF Ahead
  <2>3. now < Ending
    BY <1>4, <1>21 DEF Prompt, Ending
  <2>4. LastEnd' <= now /\ LastEnd' < Ending /\ LastEnd' < due
    BY <1>4, <1>6, <2>1, <2>2, <2>3
  <2> QED BY <1>1, <1>17, <2>4 DEF Ahead
<1>24. NotEmpty'
  BY <1>2, <1>15 DEF NotEmpty
<1> QED BY <1>19, <1>20, <1>22, <1>23, <1>24 DEF Paced

\* The head of the list is due first and comes first.
LEMMA HeadFirst ==
  ASSUME NEW h, Good(h), NEW x \in Elems(h.active)
  PROVE  /\ h.active # <<>> /\ Head(h.active) \in Elems(h.active)
         /\ h.cell[Head(h.active)].time <= h.cell[x].time
         /\ x = Head(h.active) \/ Before(h.active, Head(h.active), x)
<1> DEFINE list == h.active
           n == Len(list)
<1>1. list \in Seq(Cells) /\ InOrder(list, h.cell) /\ h.cell \in [Cells -> Timer] /\ n \in Nat
  BY GoodIs, LenProperties
<1>2. PICK j \in 1..n : list[j] = x
  BY DEF Elems
<1>3. list # <<>> /\ Head(list) = list[1] /\ 1 \in 1..n
  BY <1>1, <1>2
<1>4. Head(list) \in Elems(list) /\ Head(list) \in Cells
  BY <1>1, <1>3, CellsOf DEF Elems
<1>5. CASE j = 1
  <2>1. h.cell[x].time \in Int
    BY <1>1, <1>2, <1>3, <1>4, <1>5 DEF Timer
  <2> QED BY <1>2, <1>3, <1>4, <1>5, <2>1
<1>6. CASE 1 < j
  <2>1. h.cell[list[1]].time <= h.cell[list[j]].time
    BY <1>1, <1>2, <1>3, <1>6 DEF InOrder
  <2>2. Before(list, list[1], list[j])
    BY <1>2, <1>3, <1>6 DEF Before
  <2> QED BY <1>2, <1>3, <1>4, <2>1, <2>2
<1> QED BY <1>1, <1>2, <1>5, <1>6

\* A step that moves the clock or the place of the loop only.
LEMMA PaceLoop ==
  ASSUME IInv, Whole, phase = "running", Paced,
         UNCHANGED <<optVars, heap, ptr, testVars, statVars>>,
         now' \in Nat, now <= now', InTime', AtNow',
         ~done /\ cur' # NoTimer /\ heap.cell[cur'].time <= runNow' =>
           cur' = EndTimer \/ Before(heap.active, cur', EndTimer)
  PROVE  Paced'
<1>1. OmitDue /\ EndDue /\ EndFirst /\ Ahead /\ OnGrid
  BY DEF Paced
<1>2. /\ heap' = heap /\ ptr' = ptr /\ done' = done /\ omitting' = omitting
      /\ duration' = duration /\ omit' = omit /\ ivals' = ivals /\ counting' = counting
  BY DEF optVars, testVars, statVars
<1>3. EndTimer' = EndTimer /\ OmitTimer' = OmitTimer /\ Stats' = Stats /\ Ending' = Ending
      /\ LastEnd' = LastEnd
  BY <1>2 DEF EndTimer, OmitTimer, Stats, Ending, LastEnd
<1>4. now \in Nat /\ Ending \in Nat /\ LastEnd \in Nat
  BY PacedFacts
<1>5. OmitDue'
  BY <1>1, <1>2, <1>3 DEF OmitDue, DueAt
<1>6. EndDue'
  BY <1>1, <1>2, <1>3, <1>4 DEF EndDue, DueAt
<1>7. EndFirst'
  BY <1>1, <1>2, <1>3 DEF EndFirst, DueAt
<1>8. Ahead'
  BY <1>1, <1>2, <1>3, <1>4 DEF Ahead, DueAt
<1>9. OnGrid'
  BY <1>1, <1>2, <1>3 DEF OnGrid, DueAt
<1> QED BY <1>5, <1>6, <1>7, <1>8, <1>9 DEF Paced

LEMMA PaceTick ==
  ASSUME IInv, Whole, phase = "running", Paced, Tick PROVE Paced'
<1>1. UNCHANGED <<optVars, heap, ptr, testVars, statVars>> /\ now' = now + 1
      /\ cur = NoTimer /\ cur' = NoTimer /\ heap' = heap
  BY DEF Tick, runVars
<1>2. /\ Good(heap) /\ Stats \in Elems(heap.active) /\ Elems(heap.active) \subseteq Cells
      /\ \A x \in Cells : DueAt(x) \in Int
      /\ now \in Nat /\ MaxLate \in Nat
  BY PacedFacts
<1> DEFINE head == Head(heap.active)
<1>3. heap.active # <<>> /\ head \in Elems(heap.active)
  BY <1>2, HeadFirst
<1>4. now + 1 <= DueAt(head) + MaxLate
  <2>1. tmr_timeout(heap, now) > 0 \/ now < DueAt(head) + MaxLate
    BY <1>3 DEF Tick, DueAt
  <2>2. DueAt(head) \in Int
    BY <1>2, <1>3
  <2>3. tmr_timeout(heap, now) > 0 => now < DueAt(head)
    BY <1>2, <1>3, <2>2 DEF tmr_timeout, DueAt
  <2> HIDE DEF head
  <2> QED BY <1>2, <2>1, <2>2, <2>3
<1>5. InTime'
  <2> SUFFICES ASSUME NEW x \in Elems(heap.active) PROVE now + 1 <= DueAt(x) + MaxLate
    BY <1>1 DEF InTime, DueAt
  <2>1. DueAt(head) <= DueAt(x)
    BY <1>2, HeadFirst DEF DueAt
  <2>2. DueAt(head) \in Int /\ DueAt(x) \in Int
    BY <1>2, <1>3
  <2> HIDE DEF head
  <2> QED BY <1>2, <1>4, <2>1, <2>2
<1>6. AtNow'
  BY <1>1 DEF AtNow
<1>7. now' \in Nat /\ now <= now'
  BY <1>1, <1>2
<1> QED BY <1>1, <1>5, <1>6, <1>7, PaceLoop

LEMMA PaceRun ==
  ASSUME IInv, Whole, phase = "running", Paced, RunTimers PROVE Paced'
<1>1. UNCHANGED <<optVars, heap, ptr, testVars, statVars>> /\ now' = now /\ runNow' = now
      /\ cur' = Head(heap.active) /\ heap' = heap
  BY DEF RunTimers
<1>2. InTime /\ EndDue
  BY DEF Paced
<1>3. Good(heap) /\ now \in Nat /\ (EndTimer # NoTimer => EndTimer \in Elems(heap.active))
  BY PacedFacts
<1>4. InTime' /\ AtNow'
  BY <1>1, <1>2 DEF InTime, AtNow
<1>5. ASSUME ~done PROVE cur' = EndTimer \/ Before(heap.active, cur', EndTimer)
  <2>1. EndTimer \in Elems(heap.active)
    BY <1>2, <1>3, <1>5 DEF EndDue
  <2> QED BY <1>1, <1>3, <2>1, HeadFirst
<1> QED BY <1>1, <1>3, <1>4, <1>5, PaceLoop

LEMMA PaceFire ==
  ASSUME Prompt, IInv, PaceInv, Fire PROVE PaceInv'
<1>1. Frame /\ cur # NoTimer
  BY DEF Fire, Frame
<1>2. role' = role /\ duration' = duration /\ phase' = phase
  BY <1>1, FrameIs
<1> SUFFICES ASSUME Whole PROVE Paced' /\ NotEmpty'
  BY <1>2 DEF PaceInv, Whole
<1>3. phase = "running"
  <2>1. phase # "idle" /\ ~(phase = "ended" /\ role = "c")
    BY <1>1, AtTimer
  <2>2. phase \in Phases
    BY TypeParts DEF IInv, RestTypes
  <2> QED BY <2>1, <2>2 DEF Phases, Whole
<1>4. Paced /\ NotEmpty
  BY <1>3 DEF PaceInv
<1>5. /\ heap.cell[cur].time \in Int /\ runNow \in Nat /\ cur \in Elems(heap.active)
      /\ heap.cell[cur].proc \in Procs /\ Kinds(heap)
  BY <1>1, AtTimer
<1>6. CASE heap.cell[cur].time > runNow
  <2>1. cur' = NoTimer /\ UNCHANGED <<optVars, heap, ptr, testVars, statVars>>
        /\ now' = now /\ runNow' = runNow /\ heap' = heap /\ ivals' = ivals
    BY <1>6 DEF Fire, testVars, statVars
  <2>2. InTime' /\ AtNow'
    BY <1>4, <2>1 DEF Paced, InTime, AtNow
  <2>3. now' \in Nat /\ now <= now'
    BY <1>3, <2>1, PacedFacts
  <2>4. Paced'
    BY <1>3, <1>4, <2>1, <2>2, <2>3, PaceLoop
  <2> QED BY <1>4, <2>1, <2>4 DEF NotEmpty
<1>7. CASE ~(heap.cell[cur].time > runNow)
  <2> DEFINE p == heap.cell[cur].proc
  <2>1. /\ cur' = Link(heap, cur)
        /\ heap' = AfterProc(IF p = "omit_timer" THEN ResetBoth(heap) ELSE heap, cur)
        /\ Proc(p)
    BY <1>7 DEF Fire
  <2>2. AtWhole
    <3>1. DueAt(cur) <= runNow
      BY <1>5, <1>7 DEF DueAt
    <3> QED BY <1>1, <1>3, <1>4, <2>1, <3>1 DEF AtWhole
  <2>3. CASE p = "timer" /\ TestProc
    <3>1. heap' = AfterProc(heap, cur)
      BY <2>1, <2>3
    <3> QED BY <2>2, <2>3, <3>1, PaceTimer
  <2>4. CASE p = "stats_timer" /\ StatsProc
    <3>1. heap' = AfterProc(heap, cur)
      BY <2>1, <2>4
    <3> QED BY <2>2, <2>4, <3>1, PaceStats
  <2>5. CASE p = "reporter_timer" /\ ReporterProc
    <3>1. heap' = AfterProc(heap, cur)
      BY <2>1, <2>5
    <3>2. ptr' = ptr /\ done' = done /\ omitting' = omitting /\ ivals' = ivals
          /\ counting' = counting
      BY <2>5 DEF ReporterProc
    <3>3. heap.cell[cur].usecs \in Nat
      <4>1. Interval \in Nat
        BY TestAssumption
      <4> QED BY <1>5, <2>5, <4>1 DEF Kinds
    <3> QED BY <2>2, <2>5, <3>1, <3>2, <3>3, PaceOther
  <2>6. CASE p = "omit_timer" /\ OmitProc
    <3>1. heap' = AfterProc(ResetBoth(heap), cur)
      BY <2>1, <2>6
    <3> QED BY <2>2, <2>6, <3>1, PaceOmit
  <2>7. CASE p \in ToSet(SendTimers) /\ SendProc
    <3>1. p \notin TestProcs
      <4>1. ToSet(SendTimers) = {SendTimers[i] : i \in 1..Len(SendTimers)}
        BY Senders DEF ToSet
      <4> QED BY <2>7, <4>1, Senders
    <3>2. heap' = AfterProc(heap, cur)
      BY <2>1, <3>1 DEF TestProcs
    <3>3. ptr' = ptr /\ done' = done /\ omitting' = omitting /\ ivals' = ivals
          /\ counting' = counting
      BY <2>7 DEF SendProc, statVars
    <3>4. heap.cell[cur].usecs \in Nat
      <4>1. SendTick \in Nat
        BY TestAssumption
      <4> QED BY <1>5, <3>1, <4>1 DEF Kinds
    <3>5. p \notin {"timer", "stats_timer", "omit_timer"}
      BY <3>1 DEF TestProcs
    <3> QED BY <2>2, <3>2, <3>3, <3>4, <3>5, PaceOther
  <2> QED BY <2>1, <2>3, <2>4, <2>5, <2>6, <2>7 DEF Proc
<1> QED BY <1>6, <1>7

\* The last interval is gathered once the timer of the test has fired.
LEMMA PaceEnd ==
  ASSUME IInv, PaceInv, EndClient PROVE PaceInv'
<1>1. /\ phase = "running" /\ phase' = "ended" /\ (duration = 0 \/ done) /\ Gather
      /\ role' = role /\ duration' = duration
  BY DEF EndClient, optVars
<1> SUFFICES ASSUME Whole PROVE NotEmpty'
  BY <1>1 DEF PaceInv, Whole
<1>2. NotEmpty /\ Paced
  BY <1>1 DEF PaceInv
<1>3. /\ now \in Nat /\ Ending \in Nat /\ LastEnd \in Nat /\ ivals \in Seq(Ival)
      /\ counting \in Nat
  BY <1>1, <1>2, PacedFacts
<1>4. done
  BY <1>1 DEF Whole
<1>5. LastEnd < now
  <2>1. LastEnd < Ending /\ Ending <= now
    BY <1>2, <1>4 DEF Paced, Ahead, EndDue
  <2> QED BY <1>3, <2>1
<1> QED BY <1>1, <1>2, <1>3, <1>5, GatherGrows

LEMMA PaceNext ==
  ASSUME Prompt, IInv, PaceInv, [Next]_vars PROVE PaceInv'
<1>1. CASE Tick \/ RunTimers
  <2>1. /\ role' = role /\ duration' = duration /\ phase' = phase /\ ivals' = ivals
    BY <1>1 DEF Tick, RunTimers, optVars, testVars, statVars
  <2>2. Whole /\ phase = "running" => Paced'
    BY <1>1, PaceTick, PaceRun DEF PaceInv
  <2> QED BY <2>1, <2>2 DEF PaceInv, Whole, NotEmpty
<1>2. CASE DisplayClient \/ FinishServer \/ Terminate
  <2>1. /\ role' = role /\ duration' = duration /\ phase' = "idle" /\ ivals' = ivals
    BY <1>2 DEF DisplayClient, FinishServer, Terminate, Release, optVars, statVars
  <2> QED BY <2>1 DEF PaceInv, Whole, NotEmpty
<1>3. CASE EndServer
  <2>1. role' = role /\ role = "s"
    BY <1>3 DEF EndServer, optVars
  <2> QED BY <2>1 DEF PaceInv, Whole
<1>4. CASE UNCHANGED vars
  <2>1. UNCHANGED <<role, duration, omit, heap, ptr, now, cur, runNow, phase, done, omitting,
                    ivals, counting>>
    BY <1>4 DEF vars, optVars, runVars, testVars, statVars
  <2> QED BY <2>1 DEF PaceInv, Whole, NotEmpty, Paced, InTime, AtNow, OmitDue, EndDue,
                      EndFirst, Ahead, OnGrid, Ending, EndTimer, OmitTimer, Stats, DueAt, LastEnd
<1> QED BY <1>1, <1>2, <1>3, <1>4, PaceStart, PaceFire, PaceEnd DEF Next

\* On the client a test of whole intervals reports no empty interval, whatever
\* the duration, the omit period, the send timers and the interval, as long as
\* the loop is late by less than half of what the interval is longer than the
\* drift of the start: the timer of the test, which create_client_timers makes
\* before the statistics timer, fires before it when both are due.
THEOREM TimersNoEmptyInterval ==
  ASSUME Drift + 2 * MaxLate < Interval PROVE Spec => []NoEmptyInterval
<1>1. Prompt
  BY DEF Prompt
<1>2. Init => PaceInv
  BY DEF Init, PaceInv, Whole
<1>3. IInv /\ PaceInv /\ [Next]_vars => PaceInv'
  BY <1>1, PaceNext
<1>4. PaceInv => NoEmptyInterval
  BY DEF PaceInv, Whole, NotEmpty, NoEmptyInterval
<1> QED BY <1>2, <1>3, <1>4, TimersInvariant, PTL DEF Spec
=============================================================================
