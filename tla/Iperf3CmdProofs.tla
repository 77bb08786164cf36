-------------------------- MODULE Iperf3CmdProofs --------------------------
(***************************************************************************)
(* Proofs about Iperf3Cmd and the operators of IperfReport.  What a report *)
(* holds is said by counts: of its titles, of the lines of intervals and   *)
(* of those of results that the wrapper has to find (Shape).  The          *)
(* invariant (CmdInv) relates what was printed and not yet read to the     *)
(* callbacks made so far.                                                  *)
(***************************************************************************)
EXTENDS Iperf3Cmd, WellFoundedInduction, FiniteSetTheorems, SequenceTheorems, TLAPS

-----------------------------------------------------------------------------
(* Induction, with a set in the place of a predicate *)

LEMMA LessThanWellFounded ==
  IsWellFoundedOn({ss \in Nat \X Nat : ss[1] < ss[2]}, Nat)
BY NatLessThanWellFounded, Zenon DEF OpToRel

LEMMA NatSetInduction ==
  ASSUME NEW S, 0 \in S, \A n \in Nat : n \in S => n + 1 \in S
  PROVE  Nat \subseteq S
<1>1. SUFFICES ASSUME Nat \ S # {} PROVE FALSE
  OBVIOUS
<1> DEFINE R == {ss \in Nat \X Nat : ss[1] < ss[2]}
<1>2. IsWellFoundedOn(R, Nat)
  BY LessThanWellFounded
<1> HIDE DEF R
<1>3. PICK x \in Nat \ S : \A y \in Nat \ S : ~(<<y, x>> \in R)
  BY <1>1, <1>2, WFMin
<1>4. x # 0 /\ x - 1 \in Nat /\ x - 1 < x
  BY <1>3
<1>5. x - 1 \in S
  BY <1>3, <1>4 DEF R
<1> QED BY <1>4, <1>5

-----------------------------------------------------------------------------
(* How many of the first i elements of a sequence are in a set *)

Num(s, K, i) == Cardinality({j \in 1..i : s[j] \in K})

LEMMA NumType ==
  ASSUME NEW s, NEW K, NEW i \in Nat
  PROVE  IsFiniteSet({j \in 1..i : s[j] \in K}) /\ Num(s, K, i) \in Nat
<1>1. IsFiniteSet(1..i)
  BY FS_Interval
<1>2. IsFiniteSet({j \in 1..i : s[j] \in K})
  BY <1>1, FS_Subset
<1> QED BY <1>2, FS_CardinalityType DEF Num

LEMMA NumNone == ASSUME NEW s, NEW K PROVE Num(s, K, 0) = 0
<1>1. {j \in 1..0 : s[j] \in K} = {}
  OBVIOUS
<1> QED BY <1>1, FS_EmptySet DEF Num

LEMMA NumNext ==
  ASSUME NEW s, NEW K, NEW i \in Nat
  PROVE  Num(s, K, i + 1) = Num(s, K, i) + (IF s[i + 1] \in K THEN 1 ELSE 0)
<1> DEFINE A == {j \in 1..i : s[j] \in K}
           B == {j \in 1..(i + 1) : s[j] \in K}
<1> i + 1 \notin A
  OBVIOUS
<1>1. IsFiniteSet(A)
  BY NumType
<1>2. Cardinality(A \cup {i + 1}) = Cardinality(A) + 1
  BY <1>1, FS_AddElement
<1>3. CASE s[i + 1] \in K
  <2>1. B = A \cup {i + 1}
    BY <1>3
  <2> QED BY <1>2, <1>3, <2>1 DEF Num
<1>4. CASE s[i + 1] \notin K
  <2>1. B = A
    BY <1>4
  <2>2. Num(s, K, i) \in Nat
    BY NumType
  <2> QED BY <1>4, <2>1, <2>2 DEF Num
<1> QED BY <1>3, <1>4

\* Only membership counts.
LEMMA NumAlike ==
  ASSUME NEW s, NEW r, NEW K, NEW i \in Nat, \A j \in 1..i : s[j] \in K <=> r[j] \in K
  PROVE  Num(s, K, i) = Num(r, K, i)
<1>1. {j \in 1..i : s[j] \in K} = {j \in 1..i : r[j] \in K}
  OBVIOUS
<1> QED BY <1>1 DEF Num

LEMMA NumZero ==
  ASSUME NEW s, NEW K, NEW i \in Nat, \A j \in 1..i : s[j] \notin K
  PROVE  Num(s, K, i) = 0
<1>1. {j \in 1..i : s[j] \in K} = {}
  OBVIOUS
<1> QED BY <1>1, FS_EmptySet DEF Num

LEMMA NumMonotone ==
  ASSUME NEW s, NEW K, NEW i \in Nat, NEW k \in 0..i
  PROVE  Num(s, K, k) <= Num(s, K, i)
<1> DEFINE A == {j \in 1..k : s[j] \in K}
           B == {j \in 1..i : s[j] \in K}
<1>1. A \in SUBSET B
  OBVIOUS
<1>2. IsFiniteSet(B)
  BY NumType
<1> HIDE DEF A, B
<1>3. Cardinality(A) <= Cardinality(B)
  BY <1>1, <1>2, FS_Subset
<1> QED BY <1>3 DEF Num, A, B

\* An element that is there was counted.
LEMMA NumSome ==
  ASSUME NEW s, NEW K, NEW i \in Nat, NEW k \in 1..i, s[k] \in K
  PROVE  Num(s, K, i) >= 1
<1> DEFINE A == {j \in 1..i : s[j] \in K}
<1>1. A # {}
  OBVIOUS
<1>2. IsFiniteSet(A)
  BY NumType
<1> HIDE DEF A
<1>3. Cardinality(A) \in Nat /\ Cardinality(A) # 0
  BY <1>1, <1>2, FS_EmptySet, FS_CardinalityType
<1> QED BY <1>3 DEF Num, A

LEMMA NumCat ==
  ASSUME NEW S, NEW s \in Seq(S), NEW r \in Seq(S), NEW K
  PROVE  /\ \A i \in 0..Len(s) : Num(s \o r, K, i) = Num(s, K, i)
         /\ \A i \in 0..Len(r) : Num(s \o r, K, Len(s) + i) = Num(s, K, Len(s)) + Num(r, K, i)
<1> DEFINE n == Len(s)
           q == s \o r
           P == {i \in Nat : i <= Len(r) => Num(q, K, n + i) = Num(s, K, n) + Num(r, K, i)}
<1>1. n \in Nat /\ Len(r) \in Nat
  BY LenProperties
<1>2. \A j \in 1..(n + Len(r)) : q[j] = IF j <= n THEN s[j] ELSE r[j - n]
  BY ConcatProperties
<1>3. \A i \in 0..n : Num(q, K, i) = Num(s, K, i)
  <2> SUFFICES ASSUME NEW i \in 0..n PROVE Num(q, K, i) = Num(s, K, i)
    OBVIOUS
  <2>1. \A j \in 1..i : q[j] \in K <=> s[j] \in K
    BY <1>1, <1>2
  <2> HIDE DEF q
  <2> QED BY <1>1, <2>1, NumAlike
<1>4. 0 \in P
  <2>1. Num(s, K, n) \in Nat
    BY <1>1, NumType
  <2>2. Num(q, K, n) = Num(s, K, n)
    BY <1>1, <1>3
  <2>3. Num(r, K, 0) = 0
    BY NumNone
  <2> HIDE DEF n, q
  <2> QED BY <1>1, <2>1, <2>2, <2>3
<1>5. ASSUME NEW i \in Nat, i \in P PROVE i + 1 \in P
  <2> SUFFICES ASSUME i + 1 <= Len(r)
               PROVE  Num(q, K, n + (i + 1)) = Num(s, K, n) + Num(r, K, i + 1)
    OBVIOUS
  <2>1. Num(q, K, (n + i) + 1) = Num(q, K, n + i) + (IF q[(n + i) + 1] \in K THEN 1 ELSE 0)
    <3>1. n + i \in Nat
      BY <1>1
    <3> HIDE DEF q, n
    <3> QED BY <3>1, NumNext
  <2>2. Num(r, K, i + 1) = Num(r, K, i) + (IF r[i + 1] \in K THEN 1 ELSE 0)
    BY NumNext
  <2>3. q[(n + i) + 1] = r[i + 1]
    BY <1>1, <1>2
  <2>4. Num(q, K, n + i) = Num(s, K, n) + Num(r, K, i)
    BY <1>1, <1>5
  <2>5. Num(s, K, n) \in Nat /\ Num(r, K, i) \in Nat
    BY <1>1, NumType
  <2>6. (n + i) + 1 = n + (i + 1)
    BY <1>1
  <2> HIDE DEF n, q, P
  <2> QED BY <2>1, <2>2, <2>3, <2>4, <2>5, <2>6
<1>6. Nat \subseteq P
  <2> HIDE DEF P
  <2> QED BY <1>4, <1>5, NatSetInduction
<1> QED BY <1>1, <1>3, <1>6

LEMMA NumTail ==
  ASSUME NEW S, NEW s \in Seq(S), s # <<>>, NEW K
  PROVE  \A i \in 0..Len(Tail(s)) :
           Num(s, K, i + 1) = (IF Head(s) \in K THEN 1 ELSE 0) + Num(Tail(s), K, i)
<1> DEFINE t == Tail(s)
           P == {i \in Nat : i <= Len(t) =>
                   Num(s, K, i + 1) = (IF Head(s) \in K THEN 1 ELSE 0) + Num(t, K, i)}
<1>1. /\ Len(s) \in Nat /\ Len(t) = Len(s) - 1 /\ Head(s) = s[1] /\ Len(s) >= 1
      /\ \A j \in 1..Len(t) : t[j] = s[j + 1]
  BY HeadTailProperties, EmptySeq, LenProperties
<1>2. 0 \in P
  <2>1. Num(s, K, 0 + 1) = Num(s, K, 0) + (IF s[0 + 1] \in K THEN 1 ELSE 0)
    BY NumNext
  <2>2. Num(s, K, 0) = 0 /\ Num(t, K, 0) = 0
    BY NumNone
  <2> QED BY <1>1, <2>1, <2>2
<1>3. ASSUME NEW i \in Nat, i \in P PROVE i + 1 \in P
  <2> SUFFICES ASSUME i + 1 <= Len(t)
               PROVE  Num(s, K, (i + 1) + 1)
                        = (IF Head(s) \in K THEN 1 ELSE 0) + Num(t, K, i + 1)
    OBVIOUS
  <2>1. Num(s, K, (i + 1) + 1) = Num(s, K, i + 1) + (IF s[(i + 1) + 1] \in K THEN 1 ELSE 0)
    BY NumNext
  <2>2. Num(t, K, i + 1) = Num(t, K, i) + (IF t[i + 1] \in K THEN 1 ELSE 0)
    BY NumNext
  <2>3. t[i + 1] = s[(i + 1) + 1] /\ i <= Len(t)
    BY <1>1
  <2>4. Num(t, K, i) \in Nat
    BY NumType
  <2> HIDE DEF t
  <2> QED BY <1>3, <2>1, <2>2, <2>3, <2>4
<1>4. Nat \subseteq P
  <2> HIDE DEF P
  <2> QED BY <1>2, <1>3, NatSetInduction
<1> QED BY <1>1, <1>4

-----------------------------------------------------------------------------
(* What the client prints *)

Lines == [kind : {"title", "report", "error", "other"}, sum : BOOLEAN,
          tail : {"none", "sender", "receiver", "loss", "count"}, late : BOOLEAN,
          of : {"none", "interval", "sent", "received"}]
Titles == {l \in Lines : l.kind = "title"}

\* The bandwidth a test is judged by, and the lines the wrapper has to find.
Own(t) == IF t.udp THEN "sent" ELSE Local(t)
IntervalKeys(t) == {l \in Lines : l.of = "interval" /\ (t.n = 1 \/ l.sum)}
ResultKeys(t) == {l \in Lines : l.of = Own(t) /\ (t.n = 1 \/ l.sum)}

\* A line of a test that is not its error.
LineOf(t, l) ==
  /\ l \in Lines /\ l.kind # "error"
  /\ l.kind = "report" <=> l.of # "none"
  /\ l.of = "sent" => l.tail = IF t.udp THEN "loss" ELSE "sender"
  /\ l.of = "received" => ~t.udp /\ l.tail = "receiver"
  /\ l.sum => t.n > 1
  /\ l.late => t.long
Said(s, t) == s \in Seq(Lines) /\ \A i \in 1..Len(s) : LineOf(t, s[i])

\* After k titles, the lines of an interval follow the first title and those of
\* the summary the second.
Numbered(s, k) ==
  \A i \in 1..Len(s) :
    /\ s[i].of = "interval" => k + Num(s, Titles, i) = 1
    /\ s[i].of \in {"sent", "received"} => k + Num(s, Titles, i) = 2

\* ... with so many titles, intervals and results.
Shape(s, t, k, titles, ivals, results) ==
  /\ s \in Seq(Lines) /\ Numbered(s, k)
  /\ Num(s, Titles, Len(s)) = titles
  /\ Num(s, IntervalKeys(t), Len(s)) = ivals
  /\ Num(s, ResultKeys(t), Len(s)) = results

LEMMA SaidCat ==
  ASSUME NEW t, NEW s, NEW r, Said(s, t), Said(r, t) PROVE Said(s \o r, t)
<1>1. /\ s \o r \in Seq(Lines) /\ Len(s \o r) = Len(s) + Len(r)
      /\ Len(s) \in Nat /\ Len(r) \in Nat
      /\ \A i \in 1..(Len(s) + Len(r)) : (s \o r)[i] = IF i <= Len(s) THEN s[i] ELSE r[i - Len(s)]
  BY ConcatProperties, LenProperties DEF Said
<1> DEFINE q == s \o r
<1> HIDE DEF q
<1>2. ASSUME NEW i \in 1..Len(q) PROVE LineOf(t, q[i])
  <2>1. CASE i <= Len(s)
    BY <1>1, <2>1 DEF Said, q
  <2>2. CASE i > Len(s)
    <3>1. i - Len(s) \in 1..Len(r) /\ q[i] = r[i - Len(s)]
      BY <1>1, <2>2 DEF q
    <3> QED BY <3>1 DEF Said
  <2> QED BY <1>1, <2>1, <2>2 DEF q
<1> QED BY <1>1, <1>2 DEF Said, q

LEMMA ShapeCat ==
  ASSUME NEW t, NEW s, NEW r, NEW k \in Nat,
         NEW a \in Nat, NEW b \in Nat, NEW c \in Nat,
         NEW d \in Nat, NEW e \in Nat, NEW f \in Nat,
         Shape(s, t, k, a, b, c), Shape(r, t, k + a, d, e, f)
  PROVE  Shape(s \o r, t, k, a + d, b + e, c + f)
<1> DEFINE q == s \o r
<1>1. /\ q \in Seq(Lines) /\ Len(q) = Len(s) + Len(r) /\ Len(s) \in Nat /\ Len(r) \in Nat
      /\ \A i \in 1..(Len(s) + Len(r)) : q[i] = IF i <= Len(s) THEN s[i] ELSE r[i - Len(s)]
  BY ConcatProperties, LenProperties DEF Shape
<1>2. ASSUME NEW K
      PROVE  /\ \A i \in 0..Len(s) : Num(q, K, i) = Num(s, K, i)
             /\ \A i \in 0..Len(r) : Num(q, K, Len(s) + i) = Num(s, K, Len(s)) + Num(r, K, i)
  BY NumCat DEF Shape
<1>3. ASSUME NEW K PROVE Num(q, K, Len(q)) = Num(s, K, Len(s)) + Num(r, K, Len(r))
  BY <1>1, <1>2
<1> HIDE DEF q
<1>4. ASSUME NEW i \in 1..Len(q)
      PROVE  /\ q[i].of = "interval" => k + Num(q, Titles, i) = 1
             /\ q[i].of \in {"sent", "received"} => k + Num(q, Titles, i) = 2
  <2>1. CASE i <= Len(s)
    <3>1. q[i] = s[i] /\ i \in 1..Len(s) /\ Num(q, Titles, i) = Num(s, Titles, i)
      <4>1. q[i] = s[i] /\ i \in 1..Len(s) /\ i \in 0..Len(s)
        BY <1>1, <2>1
      <4>2. Num(q, Titles, i) = Num(s, Titles, i)
        BY <1>2, <4>1
      <4> QED BY <4>1, <4>2
    <3> QED BY <3>1 DEF Shape, Numbered
  <2>2. CASE i > Len(s)
    <3> DEFINE j == i - Len(s)
    <3>1. j \in 1..Len(r) /\ q[i] = r[j] /\ i = Len(s) + j
      BY <1>1, <2>2
    <3>2. Num(q, Titles, i) = a + Num(r, Titles, j)
      BY <1>1, <1>2, <3>1 DEF Shape
    <3>3. Num(r, Titles, j) \in Nat
      <4>1. j \in Nat
        BY <1>1, <3>1
      <4> QED BY <4>1, NumType
    <3>4. /\ r[j].of = "interval" => (k + a) + Num(r, Titles, j) = 1
          /\ r[j].of \in {"sent", "received"} => (k + a) + Num(r, Titles, j) = 2
      BY <3>1 DEF Shape, Numbered
    <3> HIDE DEF j
    <3> QED BY <3>1, <3>2, <3>3, <3>4
  <2> QED BY <1>1, <2>1, <2>2
<1> QED BY <1>1, <1>3, <1>4 DEF Shape, Numbered, q

LEMMA ShapeEmpty == ASSUME NEW t, NEW k PROVE Shape(<<>>, t, k, 0, 0, 0) /\ Said(<<>>, t)
BY NumNone, EmptySeq DEF Shape, Numbered, Said

\* One line.
One(p) == IF p THEN 1 ELSE 0
LEMMA ShapeOne ==
  ASSUME NEW t, NEW l \in Lines, NEW k \in Nat,
         l.of = "interval" => k + One(l \in Titles) = 1,
         l.of \in {"sent", "received"} => k + One(l \in Titles) = 2
  PROVE  /\ Shape(<<l>>, t, k, One(l \in Titles), One(l \in IntervalKeys(t)),
                  One(l \in ResultKeys(t)))
         /\ LineOf(t, l) => Said(<<l>>, t)
<1> DEFINE s == <<l>>
<1>1. s \in Seq(Lines) /\ Len(s) = 1 /\ s[1] = l
  OBVIOUS
<1> HIDE DEF s
<1>2. ASSUME NEW K PROVE Num(s, K, 1) = One(l \in K)
  <2>1. Num(s, K, 0 + 1) = Num(s, K, 0) + (IF s[0 + 1] \in K THEN 1 ELSE 0)
    BY NumNext
  <2> QED BY <1>1, <2>1, NumNone DEF One
<1>3. Numbered(s, k)
  BY <1>1, <1>2 DEF Numbered
<1> QED BY <1>1, <1>2, <1>3 DEF Shape, Said, s

\* Lines that are counted nowhere.
LEMMA ShapePlain ==
  ASSUME NEW t, NEW s \in Seq(Lines), NEW k \in Nat,
         \A i \in 1..Len(s) :
           /\ s[i] \notin Titles /\ s[i] \notin IntervalKeys(t) /\ s[i] \notin ResultKeys(t)
           /\ s[i].of = "interval" => k = 1
           /\ s[i].of \in {"sent", "received"} => k = 2
  PROVE  Shape(s, t, k, 0, 0, 0)
<1>1. Len(s) \in Nat
  BY LenProperties
<1>2. \A i \in 0..Len(s) : Num(s, Titles, i) = 0
  BY <1>1, NumZero
<1>3. Num(s, IntervalKeys(t), Len(s)) = 0 /\ Num(s, ResultKeys(t), Len(s)) = 0
  BY <1>1, NumZero
<1>4. Numbered(s, k)
  BY <1>1, <1>2 DEF Numbered
<1> QED BY <1>1, <1>2, <1>3, <1>4 DEF Shape

\* The mark of a long test changes no count.
LEMMA ShapeLate ==
  ASSUME NEW t, t.long \in BOOLEAN, NEW s, Said(s, t), NEW k, NEW a, NEW b, NEW c
  PROVE  LET r == [i \in DOMAIN s |-> [s[i] EXCEPT !.late = t.long]] IN
           Said(r, t) /\ (Shape(s, t, k, a, b, c) => Shape(r, t, k, a, b, c))
<1> DEFINE r == [i \in DOMAIN s |-> [s[i] EXCEPT !.late = t.long]]
<1>1. /\ s \in Seq(Lines) /\ Len(s) \in Nat /\ DOMAIN s = 1..Len(s)
      /\ \A i \in 1..Len(s) : LineOf(t, s[i])
  BY LenProperties DEF Said
<1>2. \A i \in 1..Len(s) :
        /\ r[i] \in Lines /\ r[i].kind = s[i].kind /\ r[i].sum = s[i].sum
        /\ r[i].tail = s[i].tail /\ r[i].of = s[i].of /\ r[i].late = t.long
  <2> SUFFICES ASSUME NEW i \in 1..Len(s)
               PROVE  /\ r[i] \in Lines /\ r[i].kind = s[i].kind /\ r[i].sum = s[i].sum
                      /\ r[i].tail = s[i].tail /\ r[i].of = s[i].of /\ r[i].late = t.long
    OBVIOUS
  <2>1. r[i] = [s[i] EXCEPT !.late = t.long] /\ s[i] \in Lines
    BY <1>1 DEF LineOf
  <2>2. /\ r[i].kind = s[i].kind /\ r[i].sum = s[i].sum
        /\ r[i].tail = s[i].tail /\ r[i].of = s[i].of /\ r[i].late = t.long
    <3> HIDE DEF r
    <3> QED BY <2>1 DEF Lines
  <2>3. r[i] \in Lines
    <3> HIDE DEF r
    <3> QED BY <2>1, Zenon DEF Lines
  <2> HIDE DEF r
  <2> QED BY <2>2, <2>3
<1>3. r \in Seq(Lines) /\ Len(r) = Len(s)
  BY <1>1, <1>2
<1> HIDE DEF r
<1>4. \A i \in 1..Len(s) :
        /\ r[i] \in Titles <=> s[i] \in Titles
        /\ r[i] \in IntervalKeys(t) <=> s[i] \in IntervalKeys(t)
        /\ r[i] \in ResultKeys(t) <=> s[i] \in ResultKeys(t)
  BY <1>1, <1>2 DEF LineOf, Titles, IntervalKeys, ResultKeys
<1>5. \A i \in 0..Len(s) : Num(r, Titles, i) = Num(s, Titles, i)
  BY <1>1, <1>4, NumAlike
<1>6. /\ Num(r, IntervalKeys(t), Len(s)) = Num(s, IntervalKeys(t), Len(s))
      /\ Num(r, ResultKeys(t), Len(s)) = Num(s, ResultKeys(t), Len(s))
  BY <1>1, <1>4, NumAlike
<1>7. Said(r, t)
  BY <1>1, <1>2, <1>3 DEF Said, LineOf
<1>8. ASSUME Shape(s, t, k, a, b, c) PROVE Shape(r, t, k, a, b, c)
  <2>1. Numbered(r, k)
    BY <1>1, <1>2, <1>3, <1>5, <1>8 DEF Shape, Numbered
  <2> QED BY <1>1, <1>3, <1>5, <1>6, <1>8, <2>1 DEF Shape
<1> QED BY <1>7, <1>8 DEF r

-----------------------------------------------------------------------------
(* The reports *)

Prints(s, t, k, titles, ivals, results) ==
  Said(s, t) /\ Shape(s, t, k, titles, ivals, results)

LEMMA ReportCat ==
  ASSUME NEW t, NEW s, NEW r, NEW k \in Nat,
         NEW a \in Nat, NEW b \in Nat, NEW c \in Nat,
         NEW d \in Nat, NEW e \in Nat, NEW f \in Nat,
         Prints(s, t, k, a, b, c), Prints(r, t, k + a, d, e, f)
  PROVE  Prints(s \o r, t, k, a + d, b + e, c + f)
BY SaidCat, ShapeCat DEF Prints

LEMMA EmptyReport == ASSUME NEW t, NEW k PROVE Prints(<<>>, t, k, 0, 0, 0)
BY ShapeEmpty DEF Prints

\* Sequences of one line and of two.
LEMMA OtherReport == ASSUME NEW t, NEW k \in Nat PROVE Prints(<<Other>>, t, k, 0, 0, 0)
<1>1. Other \in Lines /\ Other \notin Titles /\ LineOf(t, Other) /\ Other.of = "none"
  BY DEF Other, Line, Lines, Titles, LineOf
<1>2. Other \notin IntervalKeys(t) /\ Other \notin ResultKeys(t)
  BY <1>1 DEF IntervalKeys, ResultKeys, Own, Local
<1> QED BY <1>1, <1>2, ShapeOne DEF One, Prints

LEMMA TitleReport == ASSUME NEW t, NEW k \in Nat PROVE Prints(<<Title>>, t, k, 1, 0, 0)
<1>1. Title \in Lines /\ Title \in Titles /\ LineOf(t, Title) /\ Title.of = "none"
  BY DEF Title, Line, Lines, Titles, LineOf
<1>2. Title \notin IntervalKeys(t) /\ Title \notin ResultKeys(t)
  BY <1>1 DEF IntervalKeys, ResultKeys, Own, Local
<1> QED BY <1>1, <1>2, ShapeOne DEF One, Prints

LEMMA IntervalLine ==
  ASSUME NEW t \in TestTypes, NEW sum \in BOOLEAN, sum => t.n > 1
  PROVE  Prints(<<Report(sum, IntervalTail(t), "interval")>>, t, 1,
                 0, One(t.n = 1 \/ sum), 0)
<1> DEFINE l == Report(sum, IntervalTail(t), "interval")
<1>1. /\ l \in Lines /\ l \notin Titles /\ LineOf(t, l) /\ l.of = "interval" /\ (l.sum <=> sum)
  BY DEF Report, Line, Lines, Titles, LineOf, IntervalTail
<1>2. (l \in IntervalKeys(t) <=> t.n = 1 \/ sum) /\ l \notin ResultKeys(t)
  BY <1>1 DEF IntervalKeys, ResultKeys, Own, Local
<1> HIDE DEF l
<1> QED BY <1>1, <1>2, ShapeOne DEF One, Prints, l

LEMMA SummaryLine ==
  ASSUME NEW t \in TestTypes, NEW sum \in BOOLEAN, sum => t.n > 1,
         NEW tail, NEW of,
         \/ of = "sent" /\ tail = IF t.udp THEN "loss" ELSE "sender"
         \/ of = "received" /\ tail = "receiver" /\ ~t.udp
  PROVE  Prints(<<Report(sum, tail, of)>>, t, 2,
                 0, 0, One(of = Own(t) /\ (t.n = 1 \/ sum)))
<1> DEFINE l == Report(sum, tail, of)
<1>1. tail \in {"sender", "receiver", "loss"} /\ of \in {"sent", "received"}
  OBVIOUS
<1>2. /\ l \in Lines /\ l \notin Titles /\ LineOf(t, l) /\ l.of = of /\ (l.sum <=> sum)
  BY <1>1 DEF Report, Line, Lines, Titles, LineOf
<1>3. /\ l \in ResultKeys(t) <=> of = Own(t) /\ (t.n = 1 \/ sum)
      /\ l \notin IntervalKeys(t)
  BY <1>1, <1>2 DEF IntervalKeys, ResultKeys
<1> HIDE DEF l
<1> QED BY <1>1, <1>2, <1>3, ShapeOne DEF One, Prints, l

\* A report of one line after the other.
LEMMA TwoLines == ASSUME NEW x, NEW y PROVE <<x, y>> = <<x>> \o <<y>>
<1> DEFINE S == {x, y}
           p == <<x, y>>
           q == <<x>> \o <<y>>
<1>1. <<x>> \in Seq(S) /\ <<y>> \in Seq(S) /\ p \in Seq(S)
  OBVIOUS
<1>2. Len(p) = 2 /\ p[1] = x /\ p[2] = y
  OBVIOUS
<1>3. q \in Seq(S) /\ Len(q) = 2 /\ q[1] = x /\ q[2] = y
  BY <1>1
<1> HIDE DEF S, p, q
<1>4. \A i \in 1..Len(p) : p[i] = q[i]
  BY <1>2, <1>3
<1>5. p = q
  BY <1>1, <1>2, <1>3, <1>4, SeqEqual
<1> QED BY <1>5 DEF p, q

\* The same lines for each stream: with one stream they are there once, with
\* several the wrapper has to find none of them.
LEMMA EachOnce ==
  ASSUME NEW t, t.n = 1, NEW r \in Seq(Lines) PROVE Each(t, r) = r
<1>1. Len(r) \in Nat /\ t.n * Len(r) = Len(r)
  BY LenProperties
<1>2. \A i \in 1..Len(r) : ((i - 1) % Len(r)) + 1 = i
  BY <1>1
<1>3. Each(t, r) = [i \in 1..Len(r) |-> r[i]]
  BY <1>1, <1>2 DEF Each
<1> QED BY <1>3, LenProperties

LEMMA EachPlain ==
  ASSUME NEW t, t.n \in Nat, NEW r, Said(r, t), NEW k \in Nat,
         \A i \in 1..Len(r) :
           /\ r[i] \notin Titles /\ r[i] \notin IntervalKeys(t) /\ r[i] \notin ResultKeys(t)
           /\ r[i].of = "interval" => k = 1
           /\ r[i].of \in {"sent", "received"} => k = 2
  PROVE  Prints(Each(t, r), t, k, 0, 0, 0)
<1> DEFINE q == Each(t, r)
           n == t.n * Len(r)
<1>1. Len(r) \in Nat /\ r \in Seq(Lines) /\ n \in Nat
  BY LenProperties DEF Said
<1>2. ASSUME NEW i \in 1..n PROVE \E j \in 1..Len(r) : q[i] = r[j]
  <2>1. Len(r) # 0
    BY <1>1, <1>2
  <2>2. ((i - 1) % Len(r)) + 1 \in 1..Len(r)
    BY <1>1, <2>1
  <2>3. q[i] = r[((i - 1) % Len(r)) + 1]
    BY <1>2 DEF Each
  <2> QED BY <2>2, <2>3
<1>3. q = [i \in 1..n |-> q[i]]
  BY DEF Each
<1> HIDE DEF q, n
<1>4. \A i \in 1..n : q[i] \in Lines
  BY <1>2 DEF Said, LineOf
<1>5. q \in Seq(Lines) /\ Len(q) = n
  BY <1>1, <1>3, <1>4
<1>6. Said(q, t)
  BY <1>2, <1>5 DEF Said
<1>7. Shape(q, t, k, 0, 0, 0)
  <2>1. \A i \in 1..Len(q) :
          /\ q[i] \notin Titles /\ q[i] \notin IntervalKeys(t) /\ q[i] \notin ResultKeys(t)
          /\ q[i].of = "interval" => k = 1
          /\ q[i].of \in {"sent", "received"} => k = 2
    <3> SUFFICES ASSUME NEW i \in 1..Len(q)
                 PROVE  /\ q[i] \notin Titles /\ q[i] \notin IntervalKeys(t)
                        /\ q[i] \notin ResultKeys(t)
                        /\ q[i].of = "interval" => k = 1
                        /\ q[i].of \in {"sent", "received"} => k = 2
      OBVIOUS
    <3>1. PICK j \in 1..Len(r) : q[i] = r[j]
      BY <1>2, <1>5
    <3> QED BY <3>1
  <2> QED BY <1>5, <2>1, ShapePlain
<1> QED BY <1>6, <1>7 DEF Prints, q

\* An interval is reported after one title, the first with it.
LEMMA IntervalReport ==
  ASSUME NEW t \in TestTypes, NEW first \in BOOLEAN
  PROVE  Prints(IntervalLines(t, first), t, One(~first), One(first), 1, 0)
<1> DEFINE tail == IntervalTail(t)
           line == <<Report(FALSE, tail, "interval")>>
           streams == Each(t, line)
           sum == If(t.n > 1, <<Report(TRUE, tail, "interval")>>)
           head == IntervalHead(t, first)
<1>1. t.n \in Nat /\ t.n >= 1
  BY DEF TestTypes
<1>2. Prints(head, t, One(~first), One(first), 0, 0)
  <2>1. CASE first
    BY <2>1, TitleReport DEF IntervalHead, One
  <2>2. CASE ~first
    BY <2>2, OtherReport, EmptyReport DEF IntervalHead, One, If
  <2> QED BY <2>1, <2>2
<1>3. Prints(line, t, 1, 0, One(t.n = 1), 0)
  <2>1. Prints(line, t, 1, 0, One(t.n = 1 \/ FALSE), 0)
    BY IntervalLine
  <2> QED BY <2>1
<1>4. Prints(streams, t, 1, 0, One(t.n = 1), 0)
  <2>1. CASE t.n = 1
    <3>1. line \in Seq(Lines)
      BY <1>3 DEF Prints, Said
    <3>2. streams = line
      BY <2>1, <3>1, EachOnce
    <3> QED BY <1>3, <3>2
  <2>2. CASE t.n # 1
    <3> DEFINE l == Report(FALSE, tail, "interval")
    <3>1. l \in Lines /\ l \notin Titles /\ l.of = "interval" /\ ~l.sum
      BY DEF Report, Line, Lines, Titles, IntervalTail
    <3>2. l \notin IntervalKeys(t) /\ l \notin ResultKeys(t)
      BY <2>2, <3>1 DEF IntervalKeys, ResultKeys, Own, Local
    <3> HIDE DEF l
    <3>3. Len(<<l>>) = 1 /\ <<l>>[1] = l
      OBVIOUS
    <3>4. Said(<<l>>, t)
      BY <1>3 DEF Prints, l
    <3>5. Prints(Each(t, <<l>>), t, 1, 0, 0, 0)
      BY <1>1, <3>1, <3>2, <3>3, <3>4, EachPlain
    <3> QED BY <2>2, <3>5 DEF One, l
  <2> QED BY <2>1, <2>2
<1>5. Prints(sum, t, 1, 0, One(t.n > 1), 0)
  <2>1. CASE t.n > 1
    <3>1. Prints(<<Report(TRUE, tail, "interval")>>, t, 1, 0, One(t.n = 1 \/ TRUE), 0)
      BY <2>1, IntervalLine
    <3> QED BY <2>1, <3>1 DEF If, One
  <2>2. CASE ~(t.n > 1)
    BY <2>2, EmptyReport DEF If, One
  <2> QED BY <2>1, <2>2
<1> HIDE DEF head, streams, sum
<1>6. Prints(head \o streams, t, One(~first), One(first), One(t.n = 1), 0)
  <2>1. One(~first) + One(first) = 1 /\ One(~first) \in Nat /\ One(first) \in Nat
        /\ One(t.n = 1) \in Nat
    BY DEF One
  <2> QED BY <1>2, <1>4, <2>1, ReportCat
<1>7. Prints((head \o streams) \o sum, t, One(~first), One(first), 1, 0)
  <2>1. /\ One(~first) + One(first) = 1 /\ One(~first) \in Nat /\ One(first) \in Nat
        /\ One(t.n = 1) \in Nat /\ One(t.n > 1) \in Nat /\ One(t.n = 1) + One(t.n > 1) = 1
    BY <1>1 DEF One
  <2> QED BY <1>5, <1>6, <2>1, ReportCat
<1> QED BY <1>7 DEF IntervalLines, head, streams, sum

\* What is reported of a stream, or of the sum, at the end: the wrapper finds
\* one result in it.
LEMMA ResultReport ==
  ASSUME NEW t \in TestTypes, t.udp, NEW sum \in BOOLEAN, sum => t.n > 1
  PROVE  Prints(<<Report(sum, "loss", "sent")>>, t, 2, 0, 0, One(t.n = 1 \/ sum))
<1>1. Prints(<<Report(sum, "loss", "sent")>>, t, 2, 0, 0,
             One("sent" = Own(t) /\ (t.n = 1 \/ sum)))
  BY SummaryLine
<1> QED BY <1>1 DEF Own

LEMMA ResultsReport ==
  ASSUME NEW t \in TestTypes, ~t.udp, NEW sum \in BOOLEAN, sum => t.n > 1
  PROVE  Prints(<<Report(sum, "sender", "sent")>> \o <<Report(sum, "receiver", "received")>>,
                t, 2, 0, 0, One(t.n = 1 \/ sum))
<1> DEFINE s == <<Report(sum, "sender", "sent")>>
           r == <<Report(sum, "receiver", "received")>>
           a == One("sent" = Own(t) /\ (t.n = 1 \/ sum))
           b == One("received" = Own(t) /\ (t.n = 1 \/ sum))
<1>1. Prints(s, t, 2, 0, 0, a)
  BY SummaryLine
<1>2. Prints(r, t, 2, 0, 0, b)
  BY SummaryLine
<1>3. a \in Nat /\ b \in Nat /\ a + b = One(t.n = 1 \/ sum)
  BY DEF One, Own, Local
<1> HIDE DEF s, r, a, b
<1>4. Prints(s \o r, t, 2, 0, 0, a + b)
  <2>1. Prints(r, t, 2 + 0, 0, 0, b) /\ 0 \in Nat /\ 2 \in Nat
    BY <1>2
  <2>2. Prints(s \o r, t, 2, 0 + 0, 0 + 0, a + b)
    BY <1>1, <1>3, <2>1, ReportCat
  <2> QED BY <2>2
<1> QED BY <1>3, <1>4 DEF s, r

LEMMA HeadReport == ASSUME NEW t PROVE Prints(<<Other, Title>>, t, 1, 1, 0, 0)
<1>1. Prints(<<Other>>, t, 1, 0, 0, 0) /\ Prints(<<Title>>, t, 1, 1, 0, 0)
  BY OtherReport, TitleReport
<1>2. Prints(<<Other>> \o <<Title>>, t, 1, 1, 0, 0)
  BY <1>1, ReportCat
<1> QED BY <1>2, TwoLines

LEMMA SumReport ==
  ASSUME NEW t \in TestTypes
  PROVE  Prints(If(t.n > 1, SumLines(t)), t, 2, 0, 0, One(t.n > 1))
<1> DEFINE sum == If(t.n > 1, SumLines(t))
<1>1. t.n \in Nat /\ t.n >= 1 /\ t.udp \in BOOLEAN
  BY DEF TestTypes
<1>2. CASE ~(t.n > 1)
  BY <1>2, EmptyReport DEF If, One
<1>3. CASE t.n > 1 /\ t.udp
  <2>1. Prints(<<Report(TRUE, "loss", "sent")>>, t, 2, 0, 0, One(t.n = 1 \/ TRUE))
    BY <1>3, ResultReport
  <2> QED BY <1>3, <2>1 DEF If, SumLines, One
<1>4. CASE t.n > 1 /\ ~t.udp
  <2>1. Prints(<<Report(TRUE, "sender", "sent")>> \o <<Report(TRUE, "receiver", "received")>>,
               t, 2, 0, 0, One(t.n = 1 \/ TRUE))
    BY <1>4, ResultsReport
  <2>2. sum = <<Report(TRUE, "sender", "sent")>> \o <<Report(TRUE, "receiver", "received")>>
    BY <1>4, TwoLines DEF If, SumLines
  <2> QED BY <1>4, <2>1, <2>2 DEF One
<1> QED BY <1>1, <1>2, <1>3, <1>4

LEMMA SummaryReport ==
  ASSUME NEW t \in TestTypes PROVE Prints(SummaryLines(t), t, 1, 1, 0, 1)
<1> DEFINE lines == SentLines(t) \o ReceivedLines(t)
           streams == Each(t, lines)
           sum == If(t.n > 1, SumLines(t))
           head == <<Other, Title>>
<1>1. t.n \in Nat /\ t.n >= 1 /\ t.udp \in BOOLEAN
  BY DEF TestTypes
<1>2. Prints(head, t, 1, 1, 0, 0)
  BY HeadReport
<1>3. Prints(lines, t, 2, 0, 0, One(t.n = 1))
  <2>1. CASE t.udp
    <3> DEFINE l == <<Report(FALSE, "loss", "sent")>>
    <3>1. Prints(l, t, 2, 0, 0, One(t.n = 1 \/ FALSE))
      BY <2>1, ResultReport
    <3>2. Prints(<<Other>>, t, 2, 0, 0, 0) /\ One(t.n = 1) \in Nat
      BY OtherReport DEF One
    <3> HIDE DEF l
    <3>3. Prints(l \o <<Other>>, t, 2, 0, 0, One(t.n = 1))
      BY <3>1, <3>2, ReportCat
    <3>4. SentLines(t) = l \o <<Other>>
      BY <2>1, TwoLines DEF SentLines, l
    <3>5. ReceivedLines(t) = <<>>
      BY <2>1 DEF ReceivedLines, If
    <3>6. (l \o <<Other>>) \o <<>> = l \o <<Other>>
      BY <3>3, ConcatEmptySeq DEF Prints, Said
    <3> QED BY <3>3, <3>4, <3>5, <3>6
  <2>2. CASE ~t.udp
    <3>1. /\ SentLines(t) = <<Report(FALSE, "sender", "sent")>>
          /\ ReceivedLines(t) = <<Report(FALSE, "receiver", "received")>>
      BY <2>2 DEF SentLines, ReceivedLines, If
    <3>2. Prints(<<Report(FALSE, "sender", "sent")>> \o <<Report(FALSE, "receiver", "received")>>,
                 t, 2, 0, 0, One(t.n = 1 \/ FALSE))
      BY <2>2, ResultsReport
    <3> QED BY <3>1, <3>2
  <2> QED BY <2>1, <2>2
<1>4. \A i \in 1..Len(lines) : lines[i] \in Lines /\ ~lines[i].sum
                              /\ lines[i] \notin Titles /\ lines[i].of # "interval"
  <2>1. CASE t.udp
    <3> DEFINE x == Report(FALSE, "loss", "sent")
    <3>1. SentLines(t) = <<x, Other>> /\ ReceivedLines(t) = <<>>
      BY <2>1 DEF SentLines, ReceivedLines, If
    <3>2. /\ x \in Lines /\ Other \in Lines /\ ~x.sum /\ ~Other.sum
          /\ x.of = "sent" /\ Other.of = "none" /\ x \notin Titles /\ Other \notin Titles
      BY DEF Report, Other, Line, Lines, Titles
    <3> HIDE DEF x
    <3>3. <<x, Other>> \in Seq(Lines)
      BY <3>2
    <3>4. lines = <<x, Other>>
      BY <3>1, <3>3, ConcatEmptySeq
    <3> HIDE DEF lines
    <3> QED BY <3>2, <3>4
  <2>2. CASE ~t.udp
    <3> DEFINE x == Report(FALSE, "sender", "sent")
               y == Report(FALSE, "receiver", "received")
    <3>1. SentLines(t) = <<x>> /\ ReceivedLines(t) = <<y>>
      BY <2>2 DEF SentLines, ReceivedLines, If
    <3>2. /\ x \in Lines /\ y \in Lines /\ ~x.sum /\ ~y.sum
          /\ x.of = "sent" /\ y.of = "received" /\ x \notin Titles /\ y \notin Titles
      BY DEF Report, Line, Lines, Titles
    <3> HIDE DEF x, y
    <3>3. lines = <<x, y>>
      BY <3>1, TwoLines
    <3> HIDE DEF lines
    <3> QED BY <3>2, <3>3
  <2> QED BY <2>1, <2>2
<1> HIDE DEF lines
<1>5. Prints(streams, t, 2, 0, 0, One(t.n = 1))
  <2>1. CASE t.n = 1
    <3>1. streams = lines
      BY <1>3, <2>1, EachOnce DEF Prints, Said
    <3> QED BY <1>3, <3>1
  <2>2. CASE t.n # 1
    <3>1. \A i \in 1..Len(lines) :
            /\ lines[i] \notin IntervalKeys(t) /\ lines[i] \notin ResultKeys(t)
            /\ lines[i] \notin Titles /\ lines[i].of # "interval"
      BY <1>4, <2>2 DEF IntervalKeys, ResultKeys
    <3>2. Said(lines, t)
      BY <1>3 DEF Prints
    <3>3. Prints(streams, t, 2, 0, 0, 0)
      BY <1>1, <3>1, <3>2, EachPlain
    <3> QED BY <2>2, <3>3 DEF One
  <2> QED BY <2>1, <2>2
<1>6. Prints(sum, t, 2, 0, 0, One(t.n > 1))
  BY SumReport
<1> HIDE DEF head, streams, sum
<1>7. Prints(head \o streams, t, 1, 1, 0, One(t.n = 1))
  <2>1. One(t.n = 1) \in Nat
    BY DEF One
  <2> QED BY <1>2, <1>5, <2>1, ReportCat
<1>8. Prints((head \o streams) \o sum, t, 1, 1, 0, 1)
  <2>1. One(t.n = 1) \in Nat /\ One(t.n > 1) \in Nat /\ One(t.n = 1) + One(t.n > 1) = 1
    BY <1>1 DEF One
  <2> QED BY <1>6, <1>7, <2>1, ReportCat
<1> QED BY <1>8 DEF SummaryLines, head, streams, sum, lines

\* The reports of iperf_reporter_callback, with g intervals gathered.
LEMMA RunningLines ==
  ASSUME NEW t \in TestTypes, NEW g \in Nat
  PROVE  /\ Said(RunningReport(t, g), t)
         /\ g >= 1 => Prints(RunningReport(t, g), t, One(g > 1), One(g = 1), 1, 0)
<1>1. CASE g = 0
  <2>1. RunningReport(t, g) = <<Other>> \o <<Other>>
    BY <1>1, TwoLines DEF RunningReport, NoIntervalLines
  <2>2. Said(<<Other>>, t)
    BY OtherReport DEF Prints
  <2>3. Said(<<Other>> \o <<Other>>, t)
    BY <2>2, SaidCat
  <2>4. Said(RunningReport(t, g), t)
    BY <2>1, <2>3, Zenon
  <2>5. ~(g >= 1)
    BY <1>1
  <2> QED BY <2>4, <2>5
<1>2. CASE g >= 1
  <2>1. Prints(IntervalLines(t, g = 1), t, One(~(g = 1)), One(g = 1), 1, 0)
    BY IntervalReport
  <2>2. One(~(g = 1)) = One(g > 1)
    BY <1>2 DEF One
  <2>3. RunningReport(t, g) = IntervalLines(t, g = 1)
    BY <1>2 DEF RunningReport
  <2> QED BY <2>1, <2>2, <2>3 DEF Prints
<1> QED BY <1>1, <1>2

LEMMA FinalLines ==
  ASSUME NEW t \in TestTypes, NEW g \in Nat
  PROVE  /\ Said(FinalReport(t, g), t)
         /\ g >= 1 => Prints(FinalReport(t, g), t, One(g > 1), One(g = 1) + 1, 1, 1)
<1> DEFINE lines == RunningReport(t, g) \o SummaryLines(t)
           k == One(g > 1)
           a == One(g = 1) + 1
<1>1. Prints(SummaryLines(t), t, 1, 1, 0, 1)
  BY SummaryReport
<1>2. Said(lines, t)
  BY <1>1, RunningLines, SaidCat DEF Prints
<1>3. ASSUME g >= 1 PROVE Prints(lines, t, k, a, 1, 1)
  <2>1. k \in Nat /\ One(g = 1) \in Nat /\ k + One(g = 1) = 1
    BY <1>3 DEF One
  <2>2. Prints(RunningReport(t, g), t, k, One(g = 1), 1, 0)
    BY <1>3, RunningLines
  <2>3. Prints(lines, t, k, One(g = 1) + 1, 1 + 0, 0 + 1)
    <3> HIDE DEF k
    <3> QED BY <1>1, <2>1, <2>2, ReportCat
  <2> QED BY <2>3
<1>4. t.long \in BOOLEAN
  BY DEF TestTypes
<1>5. FinalReport(t, g) = [i \in DOMAIN lines |-> [lines[i] EXCEPT !.late = t.long]]
  BY DEF FinalReport
<1> HIDE DEF lines, k, a
<1>6. /\ Said(FinalReport(t, g), t)
      /\ Shape(lines, t, k, a, 1, 1) => Shape(FinalReport(t, g), t, k, a, 1, 1)
  BY <1>2, <1>4, <1>5, ShapeLate
<1> QED BY <1>3, <1>6 DEF Prints, k, a

LEMMA NoStreamLines ==
  ASSUME NEW t \in TestTypes PROVE Said(NoStreamReport(t), t)
BY HeadReport, SumReport, SaidCat DEF Prints, NoStreamReport

-----------------------------------------------------------------------------
(* The calls *)

\* onError carries nothing.
Calls == {c \in [call : {"onInterval", "onResult", "onError"}, sum : BOOLEAN,
                 of : {"none", "interval", "sent", "received"}] :
            c.call = "onError" => c = Error}
IntervalCall(t) == Call("onInterval", t.n > 1, "interval")
ResultCall(t) == Call("onResult", t.n > 1, Own(t))
Intervals(t, g) == [i \in 1..g |-> IntervalCall(t)]

LEMMA CallsType ==
  ASSUME NEW t \in TestTypes
  PROVE  /\ Error \in Calls /\ Error.call = "onError"
         /\ IntervalCall(t) \in Calls /\ IntervalCall(t).call = "onInterval"
         /\ ResultCall(t) \in Calls /\ ResultCall(t).call = "onResult"
         /\ \A s \in BOOLEAN : /\ Call("onResult", s, "sent") \in Calls
                               /\ Call("onResult", s, "received") \in Calls
                               /\ Call("onResult", s, "sent").call = "onResult"
                               /\ Call("onResult", s, "received").call = "onResult"
<1>1. t.n \in Nat
  BY DEF TestTypes
<1>2. Error \in Calls /\ Error.call = "onError"
  BY DEF Error, Call, Calls
<1>3. \A s \in BOOLEAN : /\ Call("onResult", s, "sent") \in Calls
                         /\ Call("onResult", s, "received") \in Calls
                         /\ Call("onInterval", s, "interval") \in Calls
                         /\ Call("onResult", s, "sent").call = "onResult"
                         /\ Call("onResult", s, "received").call = "onResult"
                         /\ Call("onInterval", s, "interval").call = "onInterval"
  BY DEF Call, Calls
<1>4. Own(t) \in {"sent", "received"} /\ (t.n > 1) \in BOOLEAN
  BY DEF Own, Local
<1> QED BY <1>2, <1>3, <1>4 DEF IntervalCall, ResultCall

LEMMA IntervalsNext ==
  ASSUME NEW t \in TestTypes, NEW g \in Nat
  PROVE  /\ Intervals(t, g) \in Seq(Calls) /\ Len(Intervals(t, g)) = g
         /\ Intervals(t, g + 1) = Intervals(t, g) \o <<IntervalCall(t)>>
         /\ Intervals(t, 0) = <<>>
<1> DEFINE c == IntervalCall(t)
           p == Intervals(t, g)
           q == Intervals(t, g + 1)
<1>1. c \in Calls
  BY CallsType
<1>2. p = [i \in 1..g |-> c] /\ q = [i \in 1..(g + 1) |-> c] /\ Intervals(t, 0) = [i \in 1..0 |-> c]
  BY DEF Intervals
<1> HIDE DEF c, p, q
<1>3. p \in Seq(Calls) /\ Len(p) = g /\ q \in Seq(Calls) /\ Len(q) = g + 1 /\ <<c>> \in Seq(Calls)
  BY <1>1, <1>2
<1>4. /\ p \o <<c>> \in Seq(Calls) /\ Len(p \o <<c>>) = g + 1
      /\ \A i \in 1..(g + 1) : (p \o <<c>>)[i] = IF i <= g THEN p[i] ELSE <<c>>[i - g]
  BY <1>3, ConcatProperties
<1>5. \A i \in 1..Len(q) : q[i] = (p \o <<c>>)[i]
  <2> SUFFICES ASSUME NEW i \in 1..(g + 1) PROVE q[i] = (p \o <<c>>)[i]
    BY <1>3
  <2>1. q[i] = c
    BY <1>2
  <2>2. CASE i <= g
    BY <1>2, <1>4, <2>1, <2>2
  <2>3. CASE i = g + 1
    <3>1. i - g = 1
      BY <2>3
    <3> QED BY <1>4, <2>1, <2>3, <3>1
  <2>4. i <= g \/ i = g + 1
    OBVIOUS
  <2> QED BY <2>2, <2>3, <2>4
<1>6. q = p \o <<c>>
  <2> DEFINE r == p \o <<c>>
  <2>1. r \in Seq(Calls) /\ Len(q) = Len(r) /\ \A i \in 1..Len(q) : q[i] = r[i]
    BY <1>3, <1>4, <1>5
  <2> HIDE DEF r
  <2>2. q = r
    BY <1>3, <2>1, SeqEqual
  <2> QED BY <2>2 DEF r
<1>7. Intervals(t, 0) = <<>>
  BY <1>2
<1> QED BY <1>3, <1>6, <1>7 DEF c, p, q


-----------------------------------------------------------------------------
(* The inductive invariant *)

\* What is still to be read of standard output.
ToCome(e) == out[e] \o toOut[e]
Left(e, K) == Num(ToCome(e), K, Len(ToCome(e)))

\* Reports of results, and ends that say "error".
Reported == {"success", "terminated"}
Failing == {"failed", "terminated"}
Alone(e) == Active(e) /\ e \notin mixed

DataTypes ==
  /\ toOut \in [Execs -> Seq(Lines)] /\ out \in [Execs -> Seq(Lines)]
  /\ toErr \in [Execs -> Seq(Lines)] /\ err \in [Execs -> Seq(Lines)]
  /\ cmd \in [Execs -> Seq(Calls)] /\ jni \in [Execs -> Seq(Calls)]

\* The process and the exec that reads it go through their states in step.
InStep(e) ==
  /\ proc[e] = "none" <=> pc[e] = "idle"
  /\ end[e] = "none" <=> proc[e] \in {"none", "connected", "running"}
  /\ proc[e] \in {"none", "connected"} =>
       /\ gathered[e] = 0 /\ jni[e] = <<>> /\ cmd[e] = <<>>
       /\ out[e] = <<>> /\ toOut[e] = <<>>
  /\ proc[e] = "running" => gathered[e] <= MaxIntervals
  /\ proc[e] = "exited" => toOut[e] = <<>>
  /\ pc[e] \in {"err", "wait", "done"} => proc[e] = "exited" /\ out[e] = <<>>
  /\ \A i \in 1..Len(toErr[e]) : toErr[e][i] = Other
  /\ \A i \in 1..Len(err[e]) : err[e][i] = Other

\* The last line of a failure is its error, and the last call.
EndsInError(s) ==
  /\ s # <<>> /\ s[Len(s)] = Error
  /\ \A i \in 1..(Len(s) - 1) : s[i].call # "onError"
NoError(s) == \A i \in 1..Len(s) : s[i].call # "onError"
ErrorAtEnd(s, fails) ==
  /\ \A i \in 1..Len(s) : s[i].kind = "error" => fails /\ i = Len(s)
  /\ fails /\ s # <<>> => s[Len(s)] = ErrorLine
ErrorLast(e) ==
  /\ ErrorAtEnd(ToCome(e), end[e] \in Failing)
  /\ IF end[e] \in Failing /\ ToCome(e) = <<>> THEN EndsInError(cmd[e]) ELSE NoError(cmd[e])

\* What is still to be read was printed of this test.
SaidOf(t, s) == \A i \in 1..Len(s) : LineOf(t, s[i]) \/ s[i] = ErrorLine

\* The fields of the object are those of the exec that has it for itself.
Owns(e) ==
  Alone(e) =>
    /\ \A f \in Execs \ {e} : ~Active(f)
    /\ isDown = test[e].reverse
    /\ test[e].givesP => parallels = test[e].n

\* The count of titles says what a line is of.
Odd(e) == end[e] = "terminated" /\ gathered[e] <= 1
Titled(e) ==
  Alone(e) /\ ~Odd(e) =>
    /\ Numbered(ToCome(e), titleCnt)
    /\ titleCnt + Left(e, Titles) = One(gathered[e] > 0) + One(end[e] \in Reported)

Right(t, c) == /\ c.call = "onInterval" => c.of = "interval"
               /\ c.call = "onResult" => c.of = Own(t)
AllRight(e) ==
  e \notin mixed /\ ~Odd(e) => \A i \in 1..Len(cmd[e]) : Right(test[e], cmd[e][i])

\* The calls made are those of the lines that were read.
Found(e) == gathered[e] - Left(e, IntervalKeys(test[e]))
FoundResults(e) == One(end[e] = "success") - Left(e, ResultKeys(test[e]))
Counted(e) ==
  Plain(e) /\ end[e] \in {"none", "success"} =>
    /\ Found(e) \in Nat /\ FoundResults(e) \in {0, 1}
    /\ FoundResults(e) = 1 /\ Active(e) => titleCnt >= 2
    /\ cmd[e] = Intervals(test[e], Found(e))
                  \o If(FoundResults(e) = 1, <<ResultCall(test[e])>>)
Told(e) ==
  end[e] \in {"none", "success"} =>
    jni[e] = Intervals(test[e], gathered[e])
               \o If(end[e] = "success", SummaryCalls(test[e]))

ExecInv(e) ==
  /\ InStep(e) /\ ErrorLast(e) /\ SaidOf(test[e], ToCome(e)) /\ Owns(e)
  /\ Titled(e) /\ AllRight(e) /\ Counted(e) /\ Told(e)
CmdInv == TypeOK /\ DataTypes /\ \A e \in Execs : ExecInv(e)

-----------------------------------------------------------------------------
(* Lemmas about one exec *)

LEMMA ToComeType ==
  ASSUME DataTypes, NEW e \in Execs
  PROVE  /\ ToCome(e) \in Seq(Lines) /\ Len(ToCome(e)) = Len(out[e]) + Len(toOut[e])
         /\ Len(ToCome(e)) \in Nat
         /\ \A K : Left(e, K) \in Nat
<1>1. out[e] \in Seq(Lines) /\ toOut[e] \in Seq(Lines)
  BY DEF DataTypes
<1>2. /\ ToCome(e) \in Seq(Lines) /\ Len(ToCome(e)) = Len(out[e]) + Len(toOut[e])
      /\ Len(ToCome(e)) \in Nat
  BY <1>1, ConcatProperties, LenProperties DEF ToCome
<1> QED BY <1>2, NumType DEF Left

\* An exec that nothing happened to, and whose fields were left alone.
LEMMA Frame ==
  ASSUME NEW f \in Execs, ExecInv(f),
         pc'[f] = pc[f], test'[f] = test[f], proc'[f] = proc[f], end'[f] = end[f],
         gathered'[f] = gathered[f], toOut'[f] = toOut[f], toErr'[f] = toErr[f],
         out'[f] = out[f], err'[f] = err[f], cmd'[f] = cmd[f], jni'[f] = jni[f],
         f \in mixed <=> f \in mixed',
         Alone(f) => /\ UNCHANGED fieldVars
                     /\ \A g \in Execs \ {f} : ~Active(g)'
  PROVE  ExecInv(f)'
<1>1. /\ ToCome(f)' = ToCome(f)
      /\ Active(f)' <=> Active(f)
      /\ Alone(f)' <=> Alone(f)
      /\ Odd(f)' <=> Odd(f)
      /\ Plain(f)' <=> Plain(f)
  BY DEF ToCome, Active, Alone, Odd, Plain
<1>2. Left(f, Titles)' = Left(f, Titles)
  BY <1>1 DEF Left
<1>3. Found(f)' = Found(f) /\ FoundResults(f)' = FoundResults(f)
  BY <1>1 DEF Left, Found, FoundResults
<1>4. InStep(f)'
  BY DEF ExecInv, InStep
<1>5. ErrorLast(f)' /\ SaidOf(test[f], ToCome(f))'
  BY <1>1 DEF ExecInv, ErrorLast, SaidOf
<1>6. Owns(f)'
  BY <1>1 DEF ExecInv, Owns, fieldVars
<1>7. Titled(f)'
  BY <1>1, <1>2 DEF ExecInv, Titled, fieldVars
<1>8. AllRight(f)'
  BY <1>1 DEF ExecInv, AllRight
<1>9. Counted(f)'
  BY <1>1, <1>3 DEF ExecInv, Counted, Alone, fieldVars, Plain
<1>10. Told(f)'
  BY <1>1 DEF ExecInv, Told
<1> QED BY <1>4, <1>5, <1>6, <1>7, <1>8, <1>9, <1>10 DEF ExecInv

\* An exec whose calls lose their order.
LEMMA OnlyErrorsAre ==
  ASSUME NEW s \in Seq(Calls)
  PROVE  /\ NoError(s) => Count(s, "onError") = 0 /\ OnlyErrors(s) = <<>>
         /\ EndsInError(s) => /\ Count(s, "onError") = 1 /\ OnlyErrors(s) = <<Error>>
                              /\ s[Len(s)] = Error
<1>1. DOMAIN s = 1..Len(s) /\ Len(s) \in Nat /\ \A i \in 1..Len(s) : s[i] \in Calls
  BY LenProperties, ElementOfSeq
<1>2. ASSUME NoError(s) PROVE Count(s, "onError") = 0 /\ OnlyErrors(s) = <<>>
  <2>1. {i \in DOMAIN s : s[i].call = "onError"} = {}
    BY <1>1, <1>2 DEF NoError
  <2>2. Count(s, "onError") = 0
    BY <2>1, FS_EmptySet DEF Count
  <2> QED BY <2>2 DEF OnlyErrors
<1>3. ASSUME EndsInError(s)
      PROVE  Count(s, "onError") = 1 /\ OnlyErrors(s) = <<Error>> /\ s[Len(s)] = Error
  <2>1. Len(s) >= 1
    BY <1>1, <1>3, EmptySeq DEF EndsInError
  <2>2. s[Len(s)].call = "onError" /\ \A i \in 1..(Len(s) - 1) : s[i].call # "onError"
    BY <1>3 DEF EndsInError, Error, Call
  <2>3. {i \in DOMAIN s : s[i].call = "onError"} = {Len(s)}
    BY <1>1, <2>1, <2>2
  <2>4. Count(s, "onError") = 1
    BY <2>3, FS_Singleton DEF Count
  <2>5. OnlyErrors(s) = <<Error>>
    BY <2>4 DEF OnlyErrors
  <2> QED BY <1>3, <2>4, <2>5 DEF EndsInError
<1> QED BY <1>2, <1>3

LEMMA Shared ==
  ASSUME DataTypes, NEW f \in Execs, ExecInv(f),
         pc'[f] = pc[f], test'[f] = test[f], proc'[f] = proc[f], end'[f] = end[f],
         gathered'[f] = gathered[f], toOut'[f] = toOut[f], toErr'[f] = toErr[f],
         out'[f] = out[f], err'[f] = err[f], cmd'[f] = OnlyErrors(cmd[f]), jni'[f] = jni[f],
         f \in mixed'
  PROVE  ExecInv(f)' /\ cmd'[f] \in Seq(Calls)
<1> DEFINE s == cmd[f]
           r == OnlyErrors(s)
<1>1. /\ ToCome(f)' = ToCome(f)
      /\ ~Alone(f)'
      /\ ~Plain(f)'
  BY DEF ToCome, Alone, Plain
<1>2. s \in Seq(Calls) /\ (NoError(s) \/ EndsInError(s))
  BY DEF DataTypes, ExecInv, ErrorLast
<1>3. /\ NoError(s) => r = <<>>
      /\ EndsInError(s) => r = <<Error>>
  BY <1>2, OnlyErrorsAre
<1>4. Error \in Calls /\ Error.call = "onError"
  BY DEF Error, Call, Calls
<1> HIDE DEF s, r
<1>5. /\ NoError(s) => NoError(r) /\ r = <<>>
      /\ EndsInError(s) => EndsInError(r)
      /\ r \in Seq(Calls) /\ ~(NoError(s) /\ EndsInError(s))
  <2>1. NoError(<<>>) /\ <<>> \in Seq(Calls)
    BY DEF NoError
  <2>2. EndsInError(<<Error>>) /\ <<Error>> \in Seq(Calls)
    <3>1. Len(<<Error>>) = 1 /\ <<Error>>[1] = Error /\ <<Error>> # <<>>
      OBVIOUS
    <3>2. <<Error>> \in Seq(Calls)
      BY <1>4
    <3> QED BY <3>1, <3>2 DEF EndsInError
  <2>3. ASSUME NoError(s), EndsInError(s) PROVE FALSE
    <3>1. s[Len(s)] = Error /\ Len(s) >= 1 /\ Len(s) \in Nat
      BY <1>2, <2>3, EmptySeq DEF EndsInError
    <3>2. s[Len(s)].call # "onError"
      BY <2>3, <3>1 DEF NoError
    <3> QED BY <1>4, <3>1, <3>2
  <2> QED BY <1>2, <1>3, <2>1, <2>2, <2>3
<1>6. cmd'[f] = r /\ cmd[f] = s
  BY DEF r, s
<1>7. InStep(f)'
  <2>1. s = <<>> => NoError(s)
    BY DEF NoError
  <2> QED BY <1>5, <1>6, <2>1 DEF ExecInv, InStep
<1>8. ErrorLast(f)' /\ SaidOf(test[f], ToCome(f))'
  BY <1>1, <1>5, <1>6 DEF ExecInv, ErrorLast, SaidOf
<1>9. Owns(f)' /\ Titled(f)' /\ AllRight(f)' /\ Counted(f)'
  BY <1>1 DEF Owns, Titled, AllRight, Counted
<1>10. Told(f)'
  BY <1>1 DEF ExecInv, Told
<1> QED BY <1>5, <1>6, <1>7, <1>8, <1>9, <1>10 DEF ExecInv

-----------------------------------------------------------------------------
(* The process prints *)

LEMMA FinalCallsAre ==
  ASSUME NEW t \in TestTypes
  PROVE  /\ SummaryCalls(t) \in Seq(Calls) /\ NoStreamCalls(t) \in Seq(Calls)
         /\ IntervalCalls(t) = <<IntervalCall(t)>> /\ <<IntervalCall(t)>> \in Seq(Calls)
         /\ ~t.udp => SummaryCalls(t) = IF t.reverse /\ t.retrans /\ t.n = 1
                        THEN <<Call("onResult", FALSE, "sent")>> \o <<ResultCall(t)>>
                        ELSE <<ResultCall(t)>>
<1>1. t.n \in Nat /\ t.n >= 1 /\ t.udp \in BOOLEAN /\ t.reverse \in BOOLEAN
  BY DEF TestTypes
<1> DEFINE s == Call("onResult", FALSE, "sent")
           r == Call("onResult", FALSE, "received")
           S == Call("onResult", TRUE, "sent")
           R == Call("onResult", TRUE, "received")
<1>2. s \in Calls /\ r \in Calls /\ S \in Calls /\ R \in Calls /\ IntervalCall(t) \in Calls
  BY CallsType
<1>3. IntervalCalls(t) = <<IntervalCall(t)>>
  BY DEF IntervalCalls, IntervalCall
<1>4. /\ SentCalls(t) = IF t.n = 1 /\ (~t.reverse \/ (~t.udp /\ t.retrans)) THEN <<s>> ELSE <<>>
      /\ ReceivedCalls(t) = IF t.n = 1 /\ ~t.udp /\ t.reverse THEN <<r>> ELSE <<>>
      /\ If(t.n > 1, SumCalls(t)) = IF t.n > 1 /\ t.reverse /\ ~t.udp THEN <<R>>
                                    ELSE IF t.n > 1 /\ ~t.reverse THEN <<S>> ELSE <<>>
  BY DEF SentCalls, ReceivedCalls, SumCalls, If
<1>5. ResultCall(t) = IF t.n > 1 THEN (IF t.udp \/ ~t.reverse THEN S ELSE R)
                      ELSE (IF t.udp \/ ~t.reverse THEN s ELSE r)
  <2>1. Own(t) = IF t.udp \/ ~t.reverse THEN "sent" ELSE "received"
    BY DEF Own, Local
  <2>2. (t.n > 1) = TRUE \/ (t.n > 1) = FALSE
    OBVIOUS
  <2>3. CASE (t.n > 1) = TRUE
    <3>1. ResultCall(t) = Call("onResult", TRUE, Own(t))
      BY <2>3, Zenon DEF ResultCall
    <3> QED BY <2>1, <2>3, <3>1
  <2>4. CASE (t.n > 1) = FALSE
    <3>1. ResultCall(t) = Call("onResult", FALSE, Own(t))
      BY <2>4, Zenon DEF ResultCall
    <3> QED BY <2>1, <2>4, <3>1
  <2> QED BY <2>2, <2>3, <2>4
<1> HIDE DEF s, r, S, R
<1>6. <<s>> \in Seq(Calls) /\ <<r>> \in Seq(Calls) /\ <<S>> \in Seq(Calls) /\ <<R>> \in Seq(Calls)
      /\ <<>> \in Seq(Calls) /\ <<IntervalCall(t)>> \in Seq(Calls)
  BY <1>2
<1> DEFINE a == SentCalls(t)
           b == ReceivedCalls(t)
           c == If(t.n > 1, SumCalls(t))
<1>7. a \in Seq(Calls) /\ b \in Seq(Calls) /\ c \in Seq(Calls)
  BY <1>4, <1>6
<1>8. SummaryCalls(t) = (a \o b) \o c /\ NoStreamCalls(t) = c
  BY DEF SummaryCalls, NoStreamCalls
<1> HIDE DEF a, b, c
<1>9. a \o b \in Seq(Calls) /\ (a \o b) \o c \in Seq(Calls)
  BY <1>7, ConcatProperties
<1>10. ASSUME ~t.udp
       PROVE  SummaryCalls(t) = IF t.reverse /\ t.retrans /\ t.n = 1
                                  THEN <<s>> \o <<ResultCall(t)>> ELSE <<ResultCall(t)>>
  <2>1. /\ \A q \in Seq(Calls) : q \o <<>> = q /\ <<>> \o q = q
        /\ <<s>> \o <<r>> \in Seq(Calls)
    BY <1>6, ConcatEmptySeq, ConcatProperties
  <2>2. CASE t.n > 1
    <3>1. a = <<>> /\ b = <<>> /\ c = <<ResultCall(t)>>
      BY <1>1, <1>4, <1>5, <1>10, <2>2 DEF a, b, c
    <3> QED BY <1>6, <1>7, <1>8, <2>1, <2>2, <3>1
  <2>3. CASE t.n = 1 /\ ~t.reverse
    <3>1. a = <<ResultCall(t)>> /\ b = <<>> /\ c = <<>>
      BY <1>1, <1>4, <1>5, <1>10, <2>3 DEF a, b, c
    <3> QED BY <1>7, <1>8, <2>1, <2>3, <3>1
  <2>4. CASE t.n = 1 /\ t.reverse /\ t.retrans
    <3>1. a = <<s>> /\ b = <<r>> /\ c = <<>> /\ ResultCall(t) = r
      BY <1>1, <1>4, <1>5, <1>10, <2>4 DEF a, b, c
    <3> QED BY <1>7, <1>8, <2>1, <2>4, <3>1
  <2>5. CASE t.n = 1 /\ t.reverse /\ ~t.retrans
    <3>1. a = <<>> /\ b = <<ResultCall(t)>> /\ c = <<>>
      BY <1>1, <1>4, <1>5, <1>10, <2>5 DEF a, b, c
    <3> QED BY <1>7, <1>8, <2>1, <2>5, <3>1
  <2> QED BY <1>1, <2>2, <2>3, <2>4, <2>5
<1> QED BY <1>3, <1>6, <1>7, <1>8, <1>9, <1>10 DEF s

\* A process that is not over prints L, makes the calls c, has gathered g
\* intervals and is in state p, with end w.
LEMMA PrintStep ==
  ASSUME DataTypes, NEW e \in Execs, ExecInv(e), gathered[e] \in Nat, titleCnt \in Nat,
         test[e] \in TestTypes, proc[e] \in {"connected", "running"}, toOut[e] = <<>>,
         NEW L \in Seq(Lines), NEW c \in Seq(Calls), NEW p, NEW w, NEW g \in Nat,
         \/ p = "running" /\ w = "none" /\ g <= MaxIntervals
         \/ p = "exiting" /\ w \in {"success", "terminated", "failed", "badargs"},
         ErrorAtEnd(L, w \in Failing), w \in Failing => L # <<>>,
         SaidOf(test[e], L),
         ~(w = "terminated" /\ g <= 1) =>
           /\ Numbered(L, One(gathered[e] > 0))
           /\ One(gathered[e] > 0) + Num(L, Titles, Len(L)) = One(g > 0) + One(w \in Reported),
         w \in {"none", "success"} =>
           /\ Num(L, IntervalKeys(test[e]), Len(L)) = g - gathered[e]
           /\ Num(L, ResultKeys(test[e]), Len(L)) = One(w = "success")
           /\ Intervals(test[e], gathered[e]) \o c
                = Intervals(test[e], g) \o If(w = "success", SummaryCalls(test[e])),
         proc'[e] = p, end'[e] = w, gathered'[e] = g,
         toOut'[e] = toOut[e] \o L, jni'[e] = jni[e] \o c,
         test' = test, out'[e] = out[e], cmd'[e] = cmd[e], err'[e] = err[e],
         \A i \in 1..Len(toErr'[e]) : toErr'[e][i] = Other,
         UNCHANGED <<pc, mixed, fieldVars>>
  PROVE  ExecInv(e)'
<1> DEFINE t == test[e]
           s == out[e]
           q == s \o L
<1>1. /\ end[e] = "none" /\ ToCome(e) = s /\ s \in Seq(Lines)
      /\ pc[e] \notin {"err", "wait", "done", "idle"}
  <2>1. end[e] = "none" /\ pc[e] \notin {"err", "wait", "done", "idle"}
    BY DEF ExecInv, InStep
  <2> QED BY <2>1, ConcatEmptySeq DEF DataTypes, ToCome
<1>2. toOut'[e] = L /\ ToCome(e)' = q
  <2>1. toOut'[e] = L
    BY ConcatEmptySeq
  <2> QED BY <2>1 DEF ToCome
<1>3. /\ q \in Seq(Lines) /\ Len(q) = Len(s) + Len(L) /\ Len(s) \in Nat /\ Len(L) \in Nat
      /\ \A i \in 1..(Len(s) + Len(L)) : q[i] = IF i <= Len(s) THEN s[i] ELSE L[i - Len(s)]
  BY <1>1, ConcatProperties, LenProperties
<1>4. ASSUME NEW K
      PROVE  /\ Left(e, K)' = Num(q, K, Len(q)) /\ Left(e, K) = Num(s, K, Len(s))
             /\ Num(q, K, Len(q)) = Num(s, K, Len(s)) + Num(L, K, Len(L))
             /\ Num(s, K, Len(s)) \in Nat /\ Num(L, K, Len(L)) \in Nat
  <2>1. Left(e, K)' = Num(q, K, Len(q)) /\ Left(e, K) = Num(s, K, Len(s))
    BY <1>1, <1>2 DEF Left
  <2>2. Num(q, K, Len(s) + Len(L)) = Num(s, K, Len(s)) + Num(L, K, Len(L))
    <3>1. \A i \in 0..Len(L) : Num(q, K, Len(s) + i) = Num(s, K, Len(s)) + Num(L, K, i)
      BY <1>1, NumCat
    <3>2. Len(L) \in 0..Len(L)
      BY <1>3
    <3> HIDE DEF q
    <3> QED BY <3>1, <3>2
  <2> QED BY <1>3, <2>1, <2>2, NumType
<1> HIDE DEF q
<1>5. ASSUME NEW i \in 1..Len(q) PROVE
        \/ i \in 1..Len(s) /\ q[i] = s[i]
        \/ i - Len(s) \in 1..Len(L) /\ q[i] = L[i - Len(s)]
  BY <1>3
<1>6. InStep(e)'
  BY <1>1, <1>2 DEF ExecInv, InStep
<1>7. ErrorLast(e)'
  <2>1. ErrorAtEnd(s, FALSE) /\ NoError(cmd[e])
    <3>1. end[e] \notin Failing
      BY <1>1 DEF Failing
    <3>2. ErrorAtEnd(s, end[e] \in Failing) /\ NoError(cmd[e])
      BY <1>1, <3>1 DEF ExecInv, ErrorLast
    <3> QED BY <3>1, <3>2 DEF ErrorAtEnd
  <2>2. ASSUME NEW i \in 1..Len(q), q[i].kind = "error" PROVE w \in Failing /\ i = Len(q)
    <3>1. ASSUME i - Len(s) \in 1..Len(L), q[i] = L[i - Len(s)] PROVE w \in Failing /\ i = Len(q)
      BY <1>3, <2>2, <3>1 DEF ErrorAtEnd
    <3>2. ASSUME i \in 1..Len(s), q[i] = s[i] PROVE FALSE
      BY <2>1, <2>2, <3>2 DEF ErrorAtEnd
    <3> QED BY <1>5, <3>1, <3>2
  <2>3. ASSUME w \in Failing PROVE q # <<>> /\ q[Len(q)] = ErrorLine
    <3>1. L # <<>> /\ Len(L) >= 1 /\ L[Len(L)] = ErrorLine
      BY <2>3, EmptySeq DEF ErrorAtEnd
    <3>2. Len(q) \in 1..Len(q) /\ Len(q) > Len(s) /\ Len(q) - Len(s) = Len(L)
      BY <1>3, <3>1
    <3>3. Len(q) \notin 1..Len(s)
      BY <1>3, <3>2
    <3>4. q[Len(q)] = L[Len(q) - Len(s)]
      BY <1>5, <3>2, <3>3
    <3> QED BY <3>1, <3>2, <3>4
  <2>4. ErrorAtEnd(q, w \in Failing) /\ ~(w \in Failing /\ q = <<>>)
    BY <2>2, <2>3 DEF ErrorAtEnd
  <2> QED BY <1>2, <2>1, <2>4 DEF ErrorLast
<1>8. SaidOf(test[e], ToCome(e))'
  <2>1. SaidOf(t, s)
    BY <1>1 DEF ExecInv
  <2>2. SaidOf(t, q)
    BY <1>5, <2>1 DEF SaidOf
  <2> QED BY <1>2, <2>2
<1>9. Owns(e)'
  BY DEF ExecInv, Owns, Alone, Active, fieldVars
<1>10. AllRight(e)'
  <2>1. ~Odd(e)
    BY <1>1 DEF Odd
  <2> QED BY <2>1 DEF ExecInv, AllRight
<1>11. Titled(e)'
  <2> SUFFICES ASSUME Alone(e)', ~Odd(e)'
               PROVE  /\ Numbered(q, titleCnt)
                      /\ titleCnt + Num(q, Titles, Len(q)) = One(g > 0) + One(w \in Reported)
    BY <1>2, <1>4 DEF Titled, fieldVars
  <2>1. Alone(e) /\ ~Odd(e)
    BY <1>1 DEF Alone, Active, Odd
  <2>2. /\ Numbered(s, titleCnt)
        /\ titleCnt + Num(s, Titles, Len(s)) = One(gathered[e] > 0) + 0
    <3>1. One(end[e] \in Reported) = 0
      BY <1>1 DEF One, Reported
    <3> QED BY <1>1, <1>4, <2>1, <3>1 DEF ExecInv, Titled
  <2>3. /\ Numbered(L, One(gathered[e] > 0))
        /\ One(gathered[e] > 0) + Num(L, Titles, Len(L)) = One(g > 0) + One(w \in Reported)
    BY DEF Odd
  <2>5. titleCnt + Num(s, Titles, Len(s)) = One(gathered[e] > 0)
    BY <2>2 DEF One
  <2>6. \A K : Num(s, K, Len(s)) \in Nat /\ Num(L, K, Len(L)) \in Nat
    BY <1>4
  <2>7. Shape(q, t, titleCnt, Num(s, Titles, Len(s)) + Num(L, Titles, Len(L)),
              Num(s, IntervalKeys(t), Len(s)) + Num(L, IntervalKeys(t), Len(L)),
              Num(s, ResultKeys(t), Len(s)) + Num(L, ResultKeys(t), Len(L)))
    <3>1. /\ Shape(s, t, titleCnt, Num(s, Titles, Len(s)), Num(s, IntervalKeys(t), Len(s)),
                   Num(s, ResultKeys(t), Len(s)))
          /\ Shape(L, t, titleCnt + Num(s, Titles, Len(s)), Num(L, Titles, Len(L)),
                   Num(L, IntervalKeys(t), Len(L)), Num(L, ResultKeys(t), Len(L)))
      BY <1>1, <2>2, <2>3, <2>5 DEF Shape
    <3> QED BY <2>6, <3>1, ShapeCat DEF q
  <2> QED BY <1>4, <2>3, <2>5, <2>6, <2>7 DEF Shape
<1>12. Counted(e)'
  <2> DEFINE IK == IntervalKeys(t)
             RK == ResultKeys(t)
  <2> SUFFICES ASSUME Plain(e)', w \in {"none", "success"}
               PROVE  /\ Found(e)' \in Nat /\ FoundResults(e)' = 0
                      /\ cmd[e] = Intervals(t, Found(e)') \o <<>>
    <3>1. \A x, y, z :
            x = 0 /\ y = z \o <<>>
              => x \in {0, 1} /\ x # 1 /\ y = z \o If(x = 1, <<ResultCall(t)>>)
      BY DEF If
    <3> QED BY <3>1 DEF Counted
  <2>1. Plain(e)
    BY DEF Plain
  <2>2. /\ Found(e) \in Nat /\ FoundResults(e) \in {0, 1}
        /\ cmd[e] = Intervals(t, Found(e)) \o If(FoundResults(e) = 1, <<ResultCall(t)>>)
    BY <1>1, <2>1 DEF ExecInv, Counted
  <2> HIDE DEF IK, RK
  <2>3. /\ Num(L, IK, Len(L)) = g - gathered[e]
        /\ Num(L, RK, Len(L)) = One(w = "success")
    BY DEF IK, RK
  <2>4. /\ Found(e) = gathered[e] - Num(s, IK, Len(s))
        /\ FoundResults(e) = 0 - Num(s, RK, Len(s))
    BY <1>1, <1>4 DEF Found, FoundResults, One, IK, RK
  <2>5. /\ Found(e)' = g - Num(q, IK, Len(q))
        /\ FoundResults(e)' = One(w = "success") - Num(q, RK, Len(q))
    <3>1. /\ Found(e)' = g - Left(e, IntervalKeys(t))'
          /\ FoundResults(e)' = One(w = "success") - Left(e, ResultKeys(t))'
      BY DEF Found, FoundResults, Left
    <3> QED BY <1>4, <3>1 DEF IK, RK
  <2>6. /\ Num(q, IK, Len(q)) = Num(s, IK, Len(s)) + Num(L, IK, Len(L))
        /\ Num(q, RK, Len(q)) = Num(s, RK, Len(s)) + Num(L, RK, Len(L))
        /\ Num(s, IK, Len(s)) \in Nat /\ Num(s, RK, Len(s)) \in Nat
    BY <1>4
  <2>7. One(w = "success") \in Nat
    BY DEF One
  <2>8. FoundResults(e) = 0
    BY <2>2, <2>4, <2>6
  <2>9. cmd[e] = Intervals(t, Found(e)) \o <<>>
    <3>1. If(FoundResults(e) = 1, <<ResultCall(t)>>) = <<>>
      BY <2>8 DEF If
    <3> QED BY <2>2, <3>1, Zenon
  <2>10. Found(e)' = Found(e) /\ FoundResults(e)' = FoundResults(e)
    BY <2>3, <2>4, <2>5, <2>6, <2>7
  <2> QED BY <2>2, <2>8, <2>9, <2>10
<1>13. Told(e)'
  <2> SUFFICES ASSUME w \in {"none", "success"}
               PROVE  jni[e] \o c = Intervals(t, g) \o If(w = "success", SummaryCalls(t))
    BY DEF Told
  <2>1. jni[e] = Intervals(t, gathered[e]) \o If(FALSE, SummaryCalls(t))
    BY <1>1 DEF ExecInv, Told
  <2>2. jni[e] = Intervals(t, gathered[e])
    BY <2>1, IntervalsNext, ConcatEmptySeq DEF If
  <2> QED BY <2>2
<1> QED BY <1>6, <1>7, <1>8, <1>9, <1>10, <1>11, <1>12, <1>13 DEF ExecInv

\* What happens to one exec leaves the others alone.
Others(e) ==
  /\ mixed' = mixed
  /\ \A f \in Execs \ {e} :
       /\ pc'[f] = pc[f] /\ test'[f] = test[f] /\ proc'[f] = proc[f] /\ end'[f] = end[f]
       /\ gathered'[f] = gathered[f] /\ toOut'[f] = toOut[f] /\ toErr'[f] = toErr[f]
       /\ out'[f] = out[f] /\ err'[f] = err[f] /\ cmd'[f] = cmd[f] /\ jni'[f] = jni[f]

LEMMA OthersKeep ==
  ASSUME NEW e \in Execs, \A f \in Execs : ExecInv(f), Others(e),
         Active(e) \/ UNCHANGED fieldVars, Active(e)' => Active(e)
  PROVE  \A f \in Execs \ {e} : ExecInv(f)'
<1> SUFFICES ASSUME NEW f \in Execs \ {e} PROVE ExecInv(f)'
  OBVIOUS
<1>1. ASSUME Alone(f) PROVE UNCHANGED fieldVars /\ \A h \in Execs \ {f} : ~Active(h)'
  <2>1. \A h \in Execs \ {f} : ~Active(h)
    BY <1>1 DEF ExecInv, Owns
  <2>2. ~Active(e) /\ ~Active(e)'
    BY <2>1
  <2>3. ASSUME NEW h \in Execs \ {f}, h # e PROVE ~Active(h)'
    BY <2>1, <2>3 DEF Others, Active
  <2> QED BY <2>2, <2>3
<1>2. ExecInv(f)
  OBVIOUS
<1>3. /\ pc'[f] = pc[f] /\ test'[f] = test[f] /\ proc'[f] = proc[f] /\ end'[f] = end[f]
      /\ gathered'[f] = gathered[f] /\ toOut'[f] = toOut[f] /\ toErr'[f] = toErr[f]
      /\ out'[f] = out[f] /\ err'[f] = err[f] /\ cmd'[f] = cmd[f] /\ jni'[f] = jni[f]
      /\ mixed' = mixed
  BY DEF Others
<1> QED BY <1>1, <1>2, <1>3, Frame

\* The lines L and calls c that may come with the end w of a test t, when it had
\* gathered h intervals before and has g now.
Fits(t, h, g, w, L, c) ==
  /\ L \in Seq(Lines) /\ c \in Seq(Calls) /\ g \in 0..(MaxIntervals + 1)
  /\ ErrorAtEnd(L, w \in Failing) /\ (w \in Failing => L # <<>>)
  /\ SaidOf(t, L)
  /\ ~(w = "terminated" /\ g <= 1) =>
       /\ Numbered(L, One(h > 0))
       /\ One(h > 0) + Num(L, Titles, Len(L)) = One(g > 0) + One(w \in Reported)
  /\ w \in {"none", "success"} =>
       /\ Num(L, IntervalKeys(t), Len(L)) = g - h
       /\ Num(L, ResultKeys(t), Len(L)) = One(w = "success")
       /\ Intervals(t, h) \o c = Intervals(t, g) \o If(w = "success", SummaryCalls(t))

LEMMA PrintAction ==
  ASSUME CmdInv, NEW e \in Execs, proc[e] \in {"connected", "running"}, Idle(e),
         NEW L, NEW c, NEW p, NEW w, NEW g, NEW u \in Seq(Lines),
         \/ p = "running" /\ w = "none" /\ g <= MaxIntervals
         \/ p = "exiting" /\ w \in {"success", "terminated", "failed", "badargs"},
         Fits(test[e], gathered[e], g, w, L, c),
         \A i \in 1..Len(u) : u[i] = Other,
         proc' = [proc EXCEPT ![e] = p], end' = [end EXCEPT ![e] = w],
         gathered' = [gathered EXCEPT ![e] = g], Say(e, L, c),
         toErr' = [toErr EXCEPT ![e] = u],
         UNCHANGED <<fieldVars, pc, test, out, err, cmd, mixed>>
  PROVE  CmdInv'
<1>1. /\ test[e] \in TestTypes /\ gathered[e] \in Nat /\ titleCnt \in Nat
      /\ toOut[e] = <<>> /\ DataTypes /\ ExecInv(e)
  BY CmdAssumption DEF CmdInv, TypeOK, Idle
<1>2. TypeOK'
  BY <1>1 DEF CmdInv, TypeOK, fieldVars, Fits
<1>3. toOut[e] \o L \in Seq(Lines) /\ jni[e] \o c \in Seq(Calls)
  <2>1. toOut[e] \in Seq(Lines) /\ jni[e] \in Seq(Calls)
    BY <1>1 DEF DataTypes
  <2> QED BY <2>1, ConcatProperties DEF Fits
<1>4. DataTypes'
  BY <1>1, <1>3 DEF DataTypes, Say
<1>5. /\ proc'[e] = p /\ end'[e] = w /\ gathered'[e] = g /\ toErr'[e] = u
      /\ toOut'[e] = toOut[e] \o L /\ jni'[e] = jni[e] \o c
  BY <1>1 DEF CmdInv, TypeOK, DataTypes, Say
<1>6. Others(e)
  BY <1>1 DEF CmdInv, TypeOK, DataTypes, Say, Others
<1>7. \A f \in Execs \ {e} : ExecInv(f)'
  BY <1>6, OthersKeep DEF CmdInv, Active
<1>8. ExecInv(e)'
  <2>1. L \in Seq(Lines) /\ c \in Seq(Calls) /\ g \in Nat
    BY CmdAssumption DEF Fits
  <2>2. /\ test' = test /\ out'[e] = out[e] /\ cmd'[e] = cmd[e] /\ err'[e] = err[e]
        /\ \A i \in 1..Len(toErr'[e]) : toErr'[e][i] = Other
        /\ UNCHANGED <<pc, mixed, fieldVars>>
    BY <1>5
  <2> QED BY <1>1, <1>5, <2>1, <2>2, PrintStep DEF Fits
<1> QED BY <1>2, <1>4, <1>7, <1>8 DEF CmdInv

\* The reports, with or without the error after them.
LEMMA SaidNoError ==
  ASSUME NEW t, NEW s, Said(s, t)
  PROVE  s \in Seq(Lines) /\ ErrorAtEnd(s, FALSE) /\ SaidOf(t, s)
BY DEF Said, LineOf, ErrorAtEnd, SaidOf

LEMMA SaidError ==
  ASSUME NEW t, NEW s, Said(s, t)
  PROVE  LET q == Append(s, ErrorLine) IN
           /\ q \in Seq(Lines) /\ q # <<>> /\ ErrorAtEnd(q, TRUE) /\ SaidOf(t, q)
           /\ \A k \in Nat, a, b, c \in Nat : Shape(s, t, k, a, b, c) => Shape(q, t, k, a, b, c)
<1> DEFINE q == Append(s, ErrorLine)
<1>1. /\ s \in Seq(Lines) /\ Len(s) \in Nat
      /\ \A i \in 1..Len(s) : LineOf(t, s[i]) /\ s[i].kind # "error"
  BY LenProperties DEF Said, LineOf
<1>2. /\ ErrorLine \in Lines /\ ErrorLine.kind = "error" /\ ErrorLine.of = "none"
      /\ ErrorLine \notin Titles
  BY DEF ErrorLine, Line, Lines, Titles
<1>3. ErrorLine \notin IntervalKeys(t) /\ ErrorLine \notin ResultKeys(t)
  BY <1>2 DEF IntervalKeys, ResultKeys, Own, Local
<1>4. /\ q \in Seq(Lines) /\ Len(q) = Len(s) + 1 /\ q[Len(q)] = ErrorLine
      /\ \A i \in 1..Len(s) : q[i] = s[i]
  BY <1>1, <1>2, AppendProperties
<1>5. q = s \o <<ErrorLine>>
  BY <1>1, <1>2, AppendIsConcat
<1> HIDE DEF q
<1>6. q # <<>> /\ ErrorAtEnd(q, TRUE)
  BY <1>1, <1>4 DEF ErrorAtEnd
<1>7. SaidOf(t, q)
  BY <1>1, <1>4 DEF SaidOf
<1>8. ASSUME NEW k \in Nat, NEW a \in Nat, NEW b \in Nat, NEW c \in Nat, Shape(s, t, k, a, b, c)
      PROVE  Shape(q, t, k, a, b, c)
  <2>1. Shape(<<ErrorLine>>, t, k + a, 0, 0, 0)
    BY <1>2, <1>3, ShapeOne DEF One
  <2>2. Shape(q, t, k, a + 0, b + 0, c + 0)
    BY <1>5, <1>8, <2>1, ShapeCat
  <2> QED BY <2>2
<1> QED BY <1>4, <1>6, <1>7, <1>8 DEF q

LEMMA IntervalFits ==
  ASSUME NEW t \in TestTypes, NEW h \in Nat, h < MaxIntervals, MaxIntervals \in Nat
  PROVE  Fits(t, h, h + 1, "none", RunningReport(t, h + 1), IntervalCalls(t))
<1> DEFINE g == h + 1
           L == RunningReport(t, g)
           c == IntervalCalls(t)
<1>1. g \in 0..(MaxIntervals + 1) /\ g >= 1 /\ g \in Nat
  OBVIOUS
<1>2. Said(L, t) /\ Shape(L, t, One(g > 1), One(g = 1), 1, 0)
  BY <1>1, RunningLines DEF Prints
<1>3. One(g > 1) = One(h > 0) /\ One(h > 0) + One(g = 1) = One(g > 0) + 0
  BY DEF One
<1>4. /\ "none" \notin Failing /\ One("none" \in Reported) = 0
      /\ One("none" = "success") = 0
  BY DEF Failing, Reported, One
<1>5. L \in Seq(Lines) /\ ErrorAtEnd(L, FALSE) /\ SaidOf(t, L)
  BY <1>2, SaidNoError
<1>6. Intervals(t, h) \o c = Intervals(t, g) \o If("none" = "success", SummaryCalls(t))
  <2>1. /\ Intervals(t, h) \o c = Intervals(t, g) /\ Intervals(t, g) \in Seq(Calls)
    BY <1>1, IntervalsNext, FinalCallsAre
  <2>2. If("none" = "success", SummaryCalls(t)) = <<>>
    BY DEF If
  <2> QED BY <2>1, <2>2, ConcatEmptySeq
<1>7. c \in Seq(Calls)
  BY FinalCallsAre
<1>8. ErrorAtEnd(L, "none" \in Failing)
  BY <1>4, <1>5 DEF ErrorAtEnd
<1> HIDE DEF g, L, c
<1>9. g - h = 1
  BY DEF g
<1>10. Fits(t, h, g, "none", L, c)
  BY <1>1, <1>2, <1>3, <1>4, <1>5, <1>6, <1>7, <1>8, <1>9 DEF Fits, Shape
<1> QED BY <1>10 DEF g, L, c

LEMMA SuccessFits ==
  ASSUME NEW t \in TestTypes, NEW h \in Nat, h <= MaxIntervals, MaxIntervals \in Nat
  PROVE  Fits(t, h, h + 1, "success", FinalReport(t, h + 1), FinalCalls(t, h + 1))
<1> DEFINE g == h + 1
           L == FinalReport(t, g)
           c == FinalCalls(t, g)
<1>1. g \in 0..(MaxIntervals + 1) /\ g >= 1 /\ g \in Nat
  OBVIOUS
<1>2. Said(L, t) /\ Shape(L, t, One(g > 1), One(g = 1) + 1, 1, 1)
  BY <1>1, FinalLines DEF Prints
<1>3. One(g > 1) = One(h > 0) /\ One(h > 0) + (One(g = 1) + 1) = One(g > 0) + 1
  BY DEF One
<1>4. /\ "success" \notin Failing /\ One("success" \in Reported) = 1
      /\ One("success" = "success") = 1
  BY DEF Failing, Reported, One
<1>5. L \in Seq(Lines) /\ ErrorAtEnd(L, FALSE) /\ SaidOf(t, L)
  BY <1>2, SaidNoError
<1>6. /\ Intervals(t, h) \o c = Intervals(t, g) \o If("success" = "success", SummaryCalls(t))
      /\ c \in Seq(Calls)
  <2> DEFINE i == <<IntervalCall(t)>>
             r == SummaryCalls(t)
             p == Intervals(t, h)
  <2>1. /\ p \o i = Intervals(t, g) /\ p \in Seq(Calls)
        /\ i \in Seq(Calls) /\ r \in Seq(Calls) /\ IntervalCalls(t) = i
    BY <1>1, IntervalsNext, FinalCallsAre
  <2>2. If("success" = "success", SummaryCalls(t)) = r
    BY DEF If
  <2>3. If(g > 0, IntervalCalls(t)) = i
    BY <1>1, <2>1 DEF If
  <2>4. c = i \o r
    BY <2>3, Zenon DEF FinalCalls
  <2> HIDE DEF i, r, p, c
  <2>5. p \o (i \o r) = (p \o i) \o r /\ i \o r \in Seq(Calls)
    <3>1. p \in Seq(Calls) /\ i \in Seq(Calls) /\ r \in Seq(Calls)
      BY <2>1
    <3>2. (p \o i) \o r = p \o (i \o r)
      BY <3>1, ConcatAssociative
    <3>3. i \o r \in Seq(Calls)
      BY <3>1, ConcatProperties
    <3> QED BY <3>2, <3>3
  <2> QED BY <2>1, <2>2, <2>4, <2>5, Zenon DEF p
<1>8. ErrorAtEnd(L, "success" \in Failing)
  BY <1>4, <1>5 DEF ErrorAtEnd
<1> HIDE DEF g, L, c
<1>9. g - h = 1
  BY DEF g
<1>10. Fits(t, h, g, "success", L, c)
  BY <1>1, <1>2, <1>3, <1>4, <1>5, <1>6, <1>8, <1>9 DEF Fits, Shape
<1> QED BY <1>10 DEF g, L, c

LEMMA TerminatedFits ==
  ASSUME NEW t \in TestTypes, NEW g \in 0..(MaxIntervals + 1), MaxIntervals \in Nat
  PROVE  /\ Fits(t, g, g, "terminated", Append(FinalReport(t, g), ErrorLine),
                 Append(FinalCalls(t, g), Error))
         /\ g = 0 => Fits(t, g, g, "terminated", Append(NoStreamReport(t), ErrorLine),
                          Append(NoStreamCalls(t), Error))
<1>1. /\ "terminated" \in Failing /\ "terminated" \notin {"none", "success"}
      /\ One("terminated" \in Reported) = 1 /\ g \in Nat
  BY DEF Failing, Reported, One
<1>2. Error \in Calls
  BY CallsType
<1>3. ASSUME NEW c \in Seq(Calls) PROVE Append(c, Error) \in Seq(Calls)
  BY <1>2
<1>4. FinalCalls(t, g) \in Seq(Calls) /\ NoStreamCalls(t) \in Seq(Calls)
  <2>1. SummaryCalls(t) \in Seq(Calls) /\ If(g > 0, IntervalCalls(t)) \in Seq(Calls)
        /\ NoStreamCalls(t) \in Seq(Calls)
    <3>1. /\ SummaryCalls(t) \in Seq(Calls) /\ NoStreamCalls(t) \in Seq(Calls)
          /\ IntervalCalls(t) = <<IntervalCall(t)>> /\ <<IntervalCall(t)>> \in Seq(Calls)
      BY FinalCallsAre
    <3> DEFINE c == IntervalCalls(t)
    <3>3. c \in Seq(Calls) /\ <<>> \in Seq(Calls)
      BY <3>1
    <3> HIDE DEF c
    <3>2. If(g > 0, c) = c \/ If(g > 0, c) = <<>>
      BY DEF If
    <3> QED BY <3>1, <3>2, <3>3 DEF c
  <2> QED BY <2>1, ConcatProperties DEF FinalCalls
<1>5. Fits(t, g, g, "terminated", Append(FinalReport(t, g), ErrorLine),
           Append(FinalCalls(t, g), Error))
  <2> DEFINE s == FinalReport(t, g)
             L == Append(s, ErrorLine)
             c == Append(FinalCalls(t, g), Error)
  <2>1. Said(s, t)
    BY <1>1, FinalLines
  <2>2. /\ L \in Seq(Lines) /\ L # <<>> /\ ErrorAtEnd(L, TRUE) /\ SaidOf(t, L)
        /\ \A k \in Nat, a, b, d \in Nat : Shape(s, t, k, a, b, d) => Shape(L, t, k, a, b, d)
    BY <2>1, SaidError
  <2>3. c \in Seq(Calls)
    BY <1>3, <1>4
  <2>4. ASSUME g > 1
        PROVE  /\ Numbered(L, One(g > 0))
               /\ One(g > 0) + Num(L, Titles, Len(L)) = One(g > 0) + 1
    <3>1. Shape(s, t, One(g > 1), One(g = 1) + 1, 1, 1)
      BY <1>1, <2>4, FinalLines DEF Prints
    <3>2. One(g > 1) = 1 /\ One(g = 1) + 1 = 1 /\ One(g > 0) = 1
      BY <1>1, <2>4 DEF One
    <3> HIDE DEF s, L
    <3>3. Shape(L, t, 1, 1, 1, 1)
      BY <2>2, <3>1, <3>2
    <3> QED BY <3>2, <3>3 DEF Shape
  <2>5. ErrorAtEnd(L, "terminated" \in Failing)
    BY <1>1, <2>2 DEF ErrorAtEnd
  <2> HIDE DEF s, L, c
  <2>6. Fits(t, g, g, "terminated", L, c)
    BY <1>1, <2>2, <2>3, <2>4, <2>5 DEF Fits
  <2> QED BY <2>6 DEF s, L, c
<1>6. ASSUME g = 0
      PROVE  Fits(t, g, g, "terminated", Append(NoStreamReport(t), ErrorLine),
                  Append(NoStreamCalls(t), Error))
  <2> DEFINE L == Append(NoStreamReport(t), ErrorLine)
             c == Append(NoStreamCalls(t), Error)
  <2>1. L \in Seq(Lines) /\ L # <<>> /\ ErrorAtEnd(L, TRUE) /\ SaidOf(t, L)
    BY NoStreamLines, SaidError
  <2>2. c \in Seq(Calls)
    BY <1>3, <1>4
  <2>3. ErrorAtEnd(L, "terminated" \in Failing)
    BY <1>1, <2>1 DEF ErrorAtEnd
  <2> HIDE DEF L, c
  <2>4. Fits(t, g, g, "terminated", L, c)
    BY <1>1, <1>6, <2>1, <2>2, <2>3 DEF Fits
  <2> QED BY <2>4 DEF L, c
<1> QED BY <1>5, <1>6

\* One line: the error, or that the arguments are refused.
LEMMA LineFits ==
  ASSUME NEW t \in TestTypes, NEW g \in 0..(MaxIntervals + 1), MaxIntervals \in Nat
  PROVE  /\ Fits(t, g, g, "failed", <<ErrorLine>>, <<Error>>)
         /\ Fits(t, g, g, "badargs", <<Other>>, <<>>)
<1>1. /\ "failed" \in Failing /\ "failed" \notin {"none", "success"}
      /\ One("failed" \in Reported) = 0
      /\ "badargs" \notin Failing /\ "badargs" \notin {"none", "success"}
      /\ One("badargs" \in Reported) = 0 /\ One(g > 0) \in Nat
  BY DEF Failing, Reported, One
<1>2. <<Error>> \in Seq(Calls) /\ <<>> \in Seq(Calls)
  BY CallsType
<1>3. Fits(t, g, g, "failed", <<ErrorLine>>, <<Error>>)
  <2> DEFINE L == <<ErrorLine>>
  <2>1. ErrorLine \in Lines /\ ErrorLine.of = "none" /\ ErrorLine \notin Titles
    BY DEF ErrorLine, Line, Lines, Titles
  <2>2. L \in Seq(Lines) /\ Len(L) = 1 /\ L[1] = ErrorLine /\ L # <<>>
    BY <2>1
  <2>3. Shape(L, t, One(g > 0), 0,
              One(ErrorLine \in IntervalKeys(t)), One(ErrorLine \in ResultKeys(t)))
    BY <1>1, <2>1, ShapeOne DEF One
  <2> HIDE DEF L
  <2>4. ErrorAtEnd(L, "failed" \in Failing) /\ SaidOf(t, L)
    BY <1>1, <2>2 DEF ErrorAtEnd, SaidOf
  <2>5. /\ Numbered(L, One(g > 0))
        /\ One(g > 0) + Num(L, Titles, Len(L)) = One(g > 0) + 0
    BY <1>1, <2>3 DEF Shape
  <2>6. Fits(t, g, g, "failed", L, <<Error>>)
    BY <1>1, <1>2, <2>2, <2>4, <2>5 DEF Fits
  <2> QED BY <2>6 DEF L
<1>4. Fits(t, g, g, "badargs", <<Other>>, <<>>)
  <2> DEFINE L == <<Other>>
  <2>1. Prints(L, t, One(g > 0), 0, 0, 0)
    BY <1>1, OtherReport
  <2> HIDE DEF L
  <2>2. L \in Seq(Lines) /\ ErrorAtEnd(L, FALSE) /\ SaidOf(t, L)
    BY <2>1, SaidNoError DEF Prints
  <2>3. /\ Numbered(L, One(g > 0))
        /\ One(g > 0) + Num(L, Titles, Len(L)) = One(g > 0) + 0
    BY <1>1, <2>1 DEF Shape, Prints
  <2>4. ErrorAtEnd(L, "badargs" \in Failing)
    BY <1>1, <2>2 DEF ErrorAtEnd
  <2>5. Fits(t, g, g, "badargs", L, <<>>)
    BY <1>1, <1>2, <2>2, <2>3, <2>4 DEF Fits
  <2> QED BY <2>5 DEF L
<1> QED BY <1>3, <1>4

\* A step of one exec that changes neither what is to be read of its standard
\* output nor its calls.
LEMMA Move ==
  ASSUME NEW e \in Execs, \A f \in Execs : ExecInv(f), Others(e),
         ToCome(e)' = ToCome(e), test'[e] = test[e], end'[e] = end[e],
         gathered'[e] = gathered[e], cmd'[e] = cmd[e], jni'[e] = jni[e],
         UNCHANGED fieldVars, InStep(e)', Active(e)' => Active(e)
  PROVE  \A f \in Execs : ExecInv(f)'
<1>1. \A f \in Execs \ {e} : ExecInv(f)'
  BY OthersKeep
<1>2. ExecInv(e) /\ mixed' = mixed
  BY DEF Others
<1>3. /\ \A K : Left(e, K)' = Left(e, K)
      /\ Alone(e)' => Alone(e)
      /\ Odd(e)' <=> Odd(e)
      /\ Plain(e)' <=> Plain(e)
  BY <1>2 DEF Left, Alone, Odd, Plain
<1>4. ErrorLast(e)' /\ SaidOf(test[e], ToCome(e))'
  BY <1>2 DEF ExecInv, ErrorLast, SaidOf
<1>5. Owns(e)'
  <2> SUFFICES ASSUME Alone(e)'
               PROVE  /\ \A f \in Execs \ {e} : ~Active(f)'
                      /\ isDown' = test'[e].reverse
                      /\ test'[e].givesP => parallels' = test'[e].n
    BY DEF Owns
  <2>1. Owns(e) /\ Alone(e)
    BY <1>2, <1>3 DEF ExecInv
  <2>2. \A f \in Execs \ {e} : ~Active(f)'
    BY <2>1 DEF Owns, Active, Others
  <2> QED BY <2>1, <2>2 DEF Owns, fieldVars
<1>6. Titled(e)'
  <2>1. Left(e, Titles)' = Left(e, Titles)
    BY <1>3
  <2> QED BY <1>2, <1>3, <2>1 DEF ExecInv, Titled, fieldVars
<1>7. AllRight(e)'
  BY <1>2, <1>3 DEF ExecInv, AllRight
<1>8. Counted(e)'
  <2>1. Found(e)' = Found(e) /\ FoundResults(e)' = FoundResults(e)
    <3>1. Left(e, IntervalKeys(test[e]))' = Left(e, IntervalKeys(test[e]))
      BY DEF Left
    <3>2. Left(e, ResultKeys(test[e]))' = Left(e, ResultKeys(test[e]))
      BY DEF Left
    <3> QED BY <3>1, <3>2 DEF Found, FoundResults
  <2> QED BY <1>2, <1>3, <2>1 DEF ExecInv, Counted, fieldVars
<1>9. Told(e)'
  BY <1>2 DEF ExecInv, Told
<1>10. ExecInv(e)'
  BY <1>4, <1>5, <1>6, <1>7, <1>8, <1>9 DEF ExecInv
<1> QED BY <1>1, <1>10

\* What CmdInv says of the values of one exec.
LEMMA Values ==
  ASSUME CmdInv, NEW e \in Execs
  PROVE  /\ TypeOK /\ DataTypes /\ ExecInv(e) /\ InStep(e)
         /\ test[e] \in TestTypes /\ gathered[e] \in Nat /\ titleCnt \in Nat
         /\ gathered[e] \in 0..(MaxIntervals + 1) /\ MaxIntervals \in Nat
         /\ toOut[e] \in Seq(Lines) /\ out[e] \in Seq(Lines)
         /\ toErr[e] \in Seq(Lines) /\ err[e] \in Seq(Lines)
         /\ cmd[e] \in Seq(Calls) /\ jni[e] \in Seq(Calls)
<1>1. /\ TypeOK /\ DataTypes /\ ExecInv(e) /\ MaxIntervals \in Nat
  BY CmdAssumption DEF CmdInv
<1> QED BY <1>1 DEF TypeOK, DataTypes, ExecInv

LEMMA StartRunningKeeps ==
  ASSUME CmdInv, NEW e \in Execs, StartRunning(e) PROVE CmdInv'
<1>1. /\ proc[e] = "connected" /\ proc' = [proc EXCEPT ![e] = "running"]
      /\ UNCHANGED <<fieldVars, pc, test, end, gathered, toOut, toErr, jni, out, err, cmd, mixed>>
  BY DEF StartRunning
<1>2. TypeOK /\ DataTypes /\ InStep(e) /\ MaxIntervals \in Nat
  BY Values
<1>3. TypeOK' /\ DataTypes'
  BY <1>1, <1>2 DEF TypeOK, DataTypes, fieldVars
<1>4. Others(e) /\ proc'[e] = "running"
  BY <1>1, <1>2 DEF Others, TypeOK
<1>5. InStep(e)'
  BY <1>1, <1>2, <1>4 DEF InStep
<1>6. ToCome(e)' = ToCome(e) /\ (Active(e)' => Active(e))
  BY <1>1 DEF ToCome, Active
<1>7. \A f \in Execs : ExecInv(f)'
  BY <1>1, <1>4, <1>5, <1>6, Move DEF CmdInv
<1> QED BY <1>3, <1>7 DEF CmdInv

LEMMA ProcessExitsKeeps ==
  ASSUME CmdInv, NEW e \in Execs, ProcessExits(e) PROVE CmdInv'
<1>1. /\ proc[e] = "exiting" /\ Idle(e) /\ proc' = [proc EXCEPT ![e] = "exited"]
      /\ UNCHANGED <<fieldVars, pc, test, end, gathered, toOut, toErr, jni, out, err, cmd, mixed>>
  BY DEF ProcessExits
<1>2. TypeOK /\ DataTypes /\ InStep(e)
  BY Values
<1>3. TypeOK' /\ DataTypes'
  BY <1>1, <1>2 DEF TypeOK, DataTypes, fieldVars
<1>4. Others(e) /\ proc'[e] = "exited"
  BY <1>1, <1>2 DEF Others, TypeOK
<1>5. InStep(e)'
  BY <1>1, <1>2, <1>4 DEF InStep, Idle
<1>6. ToCome(e)' = ToCome(e) /\ (Active(e)' => Active(e))
  BY <1>1 DEF ToCome, Active
<1>7. \A f \in Execs : ExecInv(f)'
  BY <1>1, <1>4, <1>5, <1>6, Move DEF CmdInv
<1> QED BY <1>3, <1>7 DEF CmdInv

\* What does not fit into the pipe stays to be written.
LEMMA Cut ==
  ASSUME NEW S, NEW s \in Seq(S), NEW k \in Nat, k <= Len(s)
  PROVE  /\ SubSeq(s, 1, k) \in Seq(S) /\ SubSeq(s, k + 1, Len(s)) \in Seq(S)
         /\ Len(SubSeq(s, 1, k)) = k
         /\ \A i \in 1..k : SubSeq(s, 1, k)[i] = s[i]
         /\ Len(SubSeq(s, k + 1, Len(s))) = Len(s) - k
         /\ \A i \in 1..(Len(s) - k) : SubSeq(s, k + 1, Len(s))[i] = s[k + i]
         /\ SubSeq(s, 1, k) \o SubSeq(s, k + 1, Len(s)) = s
<1>1. Len(s) \in Nat /\ \A i \in 1..Len(s) : s[i] \in S
  BY LenProperties, ElementOfSeq
<1>2. /\ SubSeq(s, 1, k) \in Seq(S) /\ Len(SubSeq(s, 1, k)) = k
      /\ \A i \in 1..k : SubSeq(s, 1, k)[i] = s[i]
  <2>1. 1 \in Int /\ k \in Int /\ \A i \in 1..k : s[i] \in S
    BY <1>1
  <2>2. /\ SubSeq(s, 1, k) \in Seq(S)
        /\ Len(SubSeq(s, 1, k)) = IF 1 <= k THEN k - 1 + 1 ELSE 0
        /\ \A i \in 1..(k - 1 + 1) : SubSeq(s, 1, k)[i] = s[1 + i - 1]
    BY <2>1, SubSeqProperties
  <2> QED BY <2>2
<1>3. /\ SubSeq(s, k + 1, Len(s)) \in Seq(S) /\ Len(SubSeq(s, k + 1, Len(s))) = Len(s) - k
      /\ \A i \in 1..(Len(s) - k) : SubSeq(s, k + 1, Len(s))[i] = s[k + i]
  <2>1. k + 1 \in Int /\ Len(s) \in Int /\ \A i \in (k + 1)..Len(s) : s[i] \in S
    BY <1>1
  <2>2. /\ SubSeq(s, k + 1, Len(s)) \in Seq(S)
        /\ Len(SubSeq(s, k + 1, Len(s))) = IF k + 1 <= Len(s) THEN Len(s) - (k + 1) + 1 ELSE 0
        /\ \A i \in 1..(Len(s) - (k + 1) + 1) : SubSeq(s, k + 1, Len(s))[i] = s[(k + 1) + i - 1]
    BY <2>1, SubSeqProperties
  <2>3. \A i \in 1..(Len(s) - k) : i \in 1..(Len(s) - (k + 1) + 1) /\ (k + 1) + i - 1 = k + i
    BY <1>1
  <2> QED BY <1>1, <2>2, <2>3
<1>4. SubSeq(s, 1, k) \o SubSeq(s, k + 1, Len(s)) = s
  <2>1. SubSeq(s, 1, k) \o SubSeq(s, k + 1, Len(s)) = SubSeq(s, 1, Len(s))
    <3>1. 1 \in 1..(Len(s) + 1) /\ k \in (1 - 1)..Len(s) /\ Len(s) \in k..Len(s)
      BY <1>1
    <3> QED BY <3>1, ConcatAdjacentSubSeq
  <2> QED BY <2>1, SubSeqFull
<1> QED BY <1>2, <1>3, <1>4

LEMMA FitsIn ==
  ASSUME NEW S, NEW p \in Seq(S), NEW s \in Seq(S), Len(p) <= PipeCap
  PROVE  LET fits == Least(PipeCap - Len(p), Len(s)) IN
           /\ fits \in Nat /\ fits <= Len(s) /\ Len(p) + fits <= PipeCap
<1>1. Len(p) \in Nat /\ Len(s) \in Nat /\ PipeCap \in Nat
  BY LenProperties, CmdAssumption
<1> QED BY <1>1 DEF Least

LEMMA WriteOutKeeps ==
  ASSUME CmdInv, NEW e \in Execs, WriteOut(e) PROVE CmdInv'
<1> DEFINE fits == Least(PipeCap - Len(out[e]), Len(toOut[e]))
           p == out[e]
           s == toOut[e]
           a == SubSeq(s, 1, fits)
           b == SubSeq(s, fits + 1, Len(s))
<1>1. /\ s # <<>> /\ out' = [out EXCEPT ![e] = p \o a] /\ toOut' = [toOut EXCEPT ![e] = b]
      /\ UNCHANGED <<fieldVars, pc, test, proc, end, gathered, toErr, jni, err, cmd, mixed>>
  BY DEF WriteOut
<1>2. /\ TypeOK /\ DataTypes /\ InStep(e)
      /\ p \in Seq(Lines) /\ s \in Seq(Lines) /\ Len(p) <= PipeCap
  BY Values DEF TypeOK
<1>3. fits \in Nat /\ fits <= Len(s) /\ Len(p) + fits <= PipeCap
  BY <1>2, FitsIn
<1> HIDE DEF fits
<1>4. a \in Seq(Lines) /\ b \in Seq(Lines) /\ Len(a) = fits /\ a \o b = s
  BY <1>2, <1>3, Cut
<1> HIDE DEF a, b, p, s
<1>5. p \o a \in Seq(Lines) /\ Len(p \o a) <= PipeCap
  BY <1>2, <1>3, <1>4, ConcatProperties
<1>6. (p \o a) \o b = p \o s
  <2>1. p \in Seq(Lines) /\ a \in Seq(Lines) /\ b \in Seq(Lines)
    BY <1>2, <1>4
  <2>2. (p \o a) \o b = p \o (a \o b)
    BY <2>1, ConcatAssociative
  <2> QED BY <1>4, <2>2
<1>7. DataTypes' /\ out'[e] = p \o a /\ toOut'[e] = b
  BY <1>1, <1>2, <1>4, <1>5 DEF DataTypes
<1>8. \A f \in Execs \ {e} : out'[f] = out[f] /\ toOut'[f] = toOut[f]
  BY <1>1, <1>2 DEF DataTypes
<1>9. TypeOK'
  <2>1. \A f \in Execs : Len(out'[f]) <= PipeCap
    BY <1>2, <1>5, <1>7, <1>8 DEF TypeOK
  <2> QED BY <1>1, <1>2, <2>1 DEF TypeOK, fieldVars
<1>10. Others(e)
  BY <1>1, <1>8 DEF Others
<1>11. InStep(e)'
  <2>1. proc[e] \notin {"none", "connected", "exited"}
    BY <1>1, <1>2 DEF InStep, s
  <2> QED BY <1>1, <1>2, <2>1 DEF InStep
<1>12. ToCome(e)' = ToCome(e) /\ (Active(e)' => Active(e))
  <2>1. ToCome(e)' = (p \o a) \o b
    BY <1>7, Zenon DEF ToCome
  <2>2. ToCome(e)' = ToCome(e)
    BY <1>6, <2>1, Zenon DEF ToCome, p, s
  <2> QED BY <1>1, <2>2 DEF Active
<1>13. \A f \in Execs : ExecInv(f)'
  BY <1>1, <1>10, <1>11, <1>12, Move DEF CmdInv
<1> QED BY <1>7, <1>9, <1>13 DEF CmdInv

LEMMA WriteErrKeeps ==
  ASSUME CmdInv, NEW e \in Execs, WriteErr(e) PROVE CmdInv'
<1> DEFINE fits == Least(PipeCap - Len(err[e]), Len(toErr[e]))
           p == err[e]
           s == toErr[e]
           a == SubSeq(s, 1, fits)
           b == SubSeq(s, fits + 1, Len(s))
<1>1. /\ err' = [err EXCEPT ![e] = p \o a] /\ toErr' = [toErr EXCEPT ![e] = b]
      /\ UNCHANGED <<fieldVars, pc, test, proc, end, gathered, toOut, jni, out, cmd, mixed>>
  BY DEF WriteErr
<1>2. /\ TypeOK /\ DataTypes /\ InStep(e)
      /\ p \in Seq(Lines) /\ s \in Seq(Lines) /\ Len(p) <= PipeCap
  BY Values DEF TypeOK
<1>3. fits \in Nat /\ fits <= Len(s) /\ Len(p) + fits <= PipeCap
  BY <1>2, FitsIn
<1> HIDE DEF fits
<1>4. /\ a \in Seq(Lines) /\ b \in Seq(Lines) /\ Len(a) = fits /\ Len(b) = Len(s) - fits
      /\ \A i \in 1..fits : a[i] = s[i]
      /\ \A i \in 1..(Len(s) - fits) : b[i] = s[fits + i]
  BY <1>2, <1>3, Cut
<1> HIDE DEF a, b, p, s
<1>5. /\ p \o a \in Seq(Lines) /\ Len(p \o a) = Len(p) + Len(a) /\ Len(p \o a) <= PipeCap
      /\ \A i \in 1..(Len(p) + Len(a)) : (p \o a)[i] = IF i <= Len(p) THEN p[i] ELSE a[i - Len(p)]
  BY <1>2, <1>3, <1>4, ConcatProperties
<1>6. /\ \A i \in 1..Len(p) : p[i] = Other
      /\ \A i \in 1..Len(s) : s[i] = Other
  BY <1>2 DEF InStep, p, s
<1>7. /\ \A i \in 1..Len(b) : b[i] = Other
      /\ \A i \in 1..Len(p \o a) : (p \o a)[i] = Other
  <2>1. Len(p) \in Nat /\ Len(s) \in Nat
    BY <1>2, LenProperties
  <2>2. \A i \in 1..Len(b) : b[i] = Other
    BY <1>3, <1>4, <1>6, <2>1
  <2>3. \A i \in 1..Len(a) : a[i] = Other
    BY <1>3, <1>4, <1>6, <2>1
  <2>4. ASSUME NEW i \in 1..(Len(p) + Len(a)) PROVE (p \o a)[i] = Other
    <3>1. CASE i <= Len(p)
      BY <1>5, <1>6, <2>1, <3>1
    <3>2. CASE i > Len(p)
      <4>1. i - Len(p) \in 1..Len(a) /\ (p \o a)[i] = a[i - Len(p)]
        BY <1>3, <1>4, <1>5, <2>1, <3>2
      <4> QED BY <2>3, <4>1
    <3> QED BY <2>1, <3>1, <3>2
  <2> QED BY <1>5, <2>2, <2>4
<1>8. DataTypes' /\ err'[e] = p \o a /\ toErr'[e] = b
  BY <1>1, <1>2, <1>4, <1>5 DEF DataTypes
<1>9. \A f \in Execs \ {e} : err'[f] = err[f] /\ toErr'[f] = toErr[f]
  BY <1>1, <1>2 DEF DataTypes
<1>10. TypeOK'
  <2>1. \A f \in Execs : Len(err'[f]) <= PipeCap
    BY <1>2, <1>5, <1>8, <1>9 DEF TypeOK
  <2> QED BY <1>1, <1>2, <2>1 DEF TypeOK, fieldVars
<1>11. Others(e)
  BY <1>1, <1>9 DEF Others
<1>12. InStep(e)'
  BY <1>1, <1>2, <1>7, <1>8 DEF InStep
<1>13. ToCome(e)' = ToCome(e) /\ (Active(e)' => Active(e))
  BY <1>1 DEF ToCome, Active
<1>14. \A f \in Execs : ExecInv(f)'
  BY <1>1, <1>11, <1>12, <1>13, Move DEF CmdInv
<1> QED BY <1>8, <1>10, <1>14 DEF CmdInv

LEMMA PrintIntervalKeeps ==
  ASSUME CmdInv, NEW e \in Execs, PrintInterval(e) PROVE CmdInv'
<1> DEFINE t == test[e]
           h == gathered[e]
<1>1. /\ t \in TestTypes /\ h \in Nat /\ MaxIntervals \in Nat /\ TypeOK /\ DataTypes
      /\ end[e] = "none" /\ toErr[e] = <<>> /\ proc[e] = "running" /\ Idle(e) /\ h < MaxIntervals
  BY Values DEF PrintInterval, InStep, Idle
<1>2. Fits(t, h, h + 1, "none", RunningReport(t, h + 1), IntervalCalls(t))
  BY <1>1, IntervalFits
<1>3. /\ proc' = [proc EXCEPT ![e] = "running"] /\ end' = [end EXCEPT ![e] = "none"]
      /\ gathered' = [gathered EXCEPT ![e] = h + 1] /\ toErr' = [toErr EXCEPT ![e] = <<>>]
      /\ Say(e, RunningReport(t, h + 1), IntervalCalls(t))
      /\ UNCHANGED <<fieldVars, pc, test, out, err, cmd, mixed>>
  BY <1>1 DEF PrintInterval, TypeOK, DataTypes
<1>4. <<>> \in Seq(Lines) /\ h + 1 <= MaxIntervals /\ \A i \in 1..Len(<<>>) : <<>>[i] = Other
  BY <1>1
<1> HIDE DEF t, h
<1> QED BY <1>1, <1>2, <1>3, <1>4, PrintAction DEF t, h

LEMMA SucceedKeeps ==
  ASSUME CmdInv, NEW e \in Execs, Succeed(e) PROVE CmdInv'
<1> DEFINE t == test[e]
           h == gathered[e]
<1>1. /\ t \in TestTypes /\ h \in Nat /\ MaxIntervals \in Nat /\ TypeOK /\ DataTypes
      /\ toErr[e] = <<>> /\ proc[e] = "running" /\ Idle(e) /\ h <= MaxIntervals
  BY Values DEF Succeed, InStep, Idle
<1>2. Fits(t, h, h + 1, "success", FinalReport(t, h + 1), FinalCalls(t, h + 1))
  BY <1>1, SuccessFits
<1>3. /\ proc' = [proc EXCEPT ![e] = "exiting"] /\ end' = [end EXCEPT ![e] = "success"]
      /\ gathered' = [gathered EXCEPT ![e] = h + 1] /\ toErr' = [toErr EXCEPT ![e] = <<>>]
      /\ Say(e, FinalReport(t, h + 1), FinalCalls(t, h + 1))
      /\ UNCHANGED <<fieldVars, pc, test, out, err, cmd, mixed>>
  BY <1>1 DEF Succeed, Exit, DataTypes
<1>4. <<>> \in Seq(Lines) /\ \A i \in 1..Len(<<>>) : <<>>[i] = Other
  OBVIOUS
<1> HIDE DEF t, h
<1> QED BY <1>1, <1>2, <1>3, <1>4, PrintAction DEF t, h

\* The three ends that gather nothing more.
LEMMA EndKeeps ==
  ASSUME CmdInv, NEW e \in Execs, proc[e] \in {"connected", "running"}, Idle(e),
         NEW L, NEW c, NEW w \in {"terminated", "failed", "badargs"}, NEW u \in Seq(Lines),
         Fits(test[e], gathered[e], gathered[e], w, L, c),
         \A i \in 1..Len(u) : u[i] = Other,
         Say(e, L, c), Exit(e, w), toErr' = [toErr EXCEPT ![e] = u],
         UNCHANGED <<fieldVars, pc, test, gathered, out, err, cmd, mixed>>
  PROVE  CmdInv'
<1>1. TypeOK
  BY Values
<1>2. gathered' = [gathered EXCEPT ![e] = gathered[e]]
  BY <1>1 DEF TypeOK
<1>3. proc' = [proc EXCEPT ![e] = "exiting"] /\ end' = [end EXCEPT ![e] = w]
  BY DEF Exit
<1> QED BY <1>2, <1>3, PrintAction

LEMMA TerminatedKeeps ==
  ASSUME CmdInv, NEW e \in Execs, Terminated(e) PROVE CmdInv'
<1> DEFINE t == test[e]
           g == gathered[e]
<1>1. /\ t \in TestTypes /\ g \in 0..(MaxIntervals + 1) /\ MaxIntervals \in Nat
      /\ TypeOK /\ DataTypes /\ toErr[e] = <<>> /\ InStep(e)
      /\ proc[e] \in {"connected", "running"} /\ Idle(e)
  BY Values DEF Terminated, Idle
<1>2. /\ Exit(e, "terminated") /\ toErr' = [toErr EXCEPT ![e] = <<>>]
      /\ UNCHANGED <<fieldVars, pc, test, gathered, out, err, cmd, mixed>>
  BY <1>1 DEF Terminated, DataTypes
<1>3. <<>> \in Seq(Lines) /\ \A i \in 1..Len(<<>>) : <<>>[i] = Other
  OBVIOUS
<1>4. /\ Fits(t, g, g, "terminated", Append(FinalReport(t, g), ErrorLine),
              Append(FinalCalls(t, g), Error))
      /\ g = 0 => Fits(t, g, g, "terminated", Append(NoStreamReport(t), ErrorLine),
                       Append(NoStreamCalls(t), Error))
  BY <1>1, TerminatedFits
<1>5. CASE proc[e] = "connected"
  <2>1. /\ Say(e, Append(NoStreamReport(t), ErrorLine), Append(NoStreamCalls(t), Error))
        /\ g = 0
    BY <1>1, <1>5 DEF Terminated, InStep
  <2> HIDE DEF t, g
  <2> QED BY <1>1, <1>2, <1>3, <1>4, <2>1, EndKeeps DEF t, g
<1>6. CASE proc[e] # "connected"
  <2>1. Say(e, Append(FinalReport(t, g), ErrorLine), Append(FinalCalls(t, g), Error))
    BY <1>6 DEF Terminated
  <2> HIDE DEF t, g
  <2> QED BY <1>1, <1>2, <1>3, <1>4, <2>1, EndKeeps DEF t, g
<1> QED BY <1>5, <1>6

LEMMA FailKeeps ==
  ASSUME CmdInv, NEW e \in Execs, Fail(e) PROVE CmdInv'
<1>1. /\ test[e] \in TestTypes /\ gathered[e] \in 0..(MaxIntervals + 1) /\ MaxIntervals \in Nat
      /\ TypeOK /\ DataTypes /\ toErr[e] = <<>>
  BY Values DEF Fail, Idle
<1>2. /\ proc[e] \in {"connected", "running"} /\ Idle(e)
      /\ Say(e, <<ErrorLine>>, <<Error>>)
      /\ Exit(e, "failed") /\ toErr' = [toErr EXCEPT ![e] = <<>>]
      /\ UNCHANGED <<fieldVars, pc, test, gathered, out, err, cmd, mixed>>
  BY <1>1 DEF Fail, DataTypes
<1>3. <<>> \in Seq(Lines) /\ \A i \in 1..Len(<<>>) : <<>>[i] = Other
  OBVIOUS
<1>4. Fits(test[e], gathered[e], gathered[e], "failed", <<ErrorLine>>, <<Error>>)
  BY <1>1, LineFits
<1> QED BY <1>2, <1>3, <1>4, EndKeeps

LEMMA BadArgumentsKeeps ==
  ASSUME CmdInv, NEW e \in Execs, BadArguments(e) PROVE CmdInv'
<1> DEFINE u == [i \in 1..UsageLines |-> Other]
<1>1. /\ test[e] \in TestTypes /\ gathered[e] \in 0..(MaxIntervals + 1) /\ MaxIntervals \in Nat
  BY Values
<1>2. /\ proc[e] \in {"connected", "running"} /\ Idle(e)
      /\ Say(e, <<Other>>, <<>>) /\ Exit(e, "badargs") /\ toErr' = [toErr EXCEPT ![e] = u]
      /\ UNCHANGED <<fieldVars, pc, test, gathered, out, err, cmd, mixed>>
  BY DEF BadArguments
<1>3. u \in Seq(Lines) /\ \A i \in 1..Len(u) : u[i] = Other
  <2>1. UsageLines \in Nat /\ Other \in Lines
    BY CmdAssumption DEF Other, Line, Lines
  <2> QED BY <2>1
<1>4. Fits(test[e], gathered[e], gathered[e], "badargs", <<Other>>, <<>>)
  BY <1>1, LineFits
<1> HIDE DEF u
<1> QED BY <1>2, <1>3, <1>4, EndKeeps

\* exec goes on to the next thing it waits for.
LEMMA GotoKeeps ==
  ASSUME CmdInv, NEW e \in Execs, NEW where \in {"err", "wait", "done"},
         Active(e), out[e] = <<>>, proc[e] = "exited", Goto(e, where),
         UNCHANGED <<fieldVars, procVars, out, err, cmd, mixed>>
  PROVE  CmdInv'
<1>1. TypeOK /\ DataTypes /\ InStep(e)
  BY Values
<1>2. TypeOK' /\ DataTypes'
  BY <1>1 DEF TypeOK, DataTypes, fieldVars, procVars, Goto, ExecPC
<1>3. Others(e) /\ pc'[e] = where
  BY <1>1 DEF Others, TypeOK, procVars, Goto
<1>4. InStep(e)'
  BY <1>1, <1>3 DEF InStep, procVars
<1>5. ToCome(e)' = ToCome(e)
  BY DEF ToCome, procVars
<1>6. \A f \in Execs : ExecInv(f)'
  BY <1>3, <1>4, <1>5, Move DEF CmdInv, procVars
<1> QED BY <1>2, <1>6 DEF CmdInv

LEMMA EndsKeep ==
  ASSUME CmdInv, NEW e \in Execs, EndOfOut(e) \/ EndOfErr(e) \/ Finish(e) PROVE CmdInv'
<1>1. InStep(e)
  BY Values
<1>2. Active(e) /\ out[e] = <<>> /\ proc[e] = "exited"
  BY <1>1 DEF EndOfOut, EndOfErr, Finish, Active, At, InStep
<1> QED BY <1>2, GotoKeeps DEF EndOfOut, EndOfErr, Finish

-----------------------------------------------------------------------------
(* The wrapper reads *)

LEMMA TailOfCat ==
  ASSUME NEW s \in Seq(Lines), NEW r \in Seq(Lines), s # <<>>
  PROVE  /\ s \o r # <<>> /\ Head(s \o r) = Head(s) /\ Tail(s \o r) = Tail(s) \o r
         /\ Head(s) \in Lines /\ Tail(s) \in Seq(Lines) /\ Len(Tail(s)) = Len(s) - 1
<1> DEFINE q == s \o r
           p == Tail(s)
<1>1. /\ Len(s) \in Nat /\ Len(r) \in Nat /\ Len(s) >= 1
      /\ p \in Seq(Lines) /\ Len(p) = Len(s) - 1 /\ Head(s) \in Lines
      /\ \A i \in 1..Len(p) : p[i] = s[i + 1]
  BY LenProperties, EmptySeq, HeadTailProperties
<1>2. /\ q \in Seq(Lines) /\ Len(q) = Len(s) + Len(r)
      /\ \A i \in 1..(Len(s) + Len(r)) : q[i] = IF i <= Len(s) THEN s[i] ELSE r[i - Len(s)]
  BY ConcatProperties
<1>3. /\ p \o r \in Seq(Lines) /\ Len(p \o r) = Len(p) + Len(r)
      /\ \A i \in 1..(Len(p) + Len(r)) : (p \o r)[i] = IF i <= Len(p) THEN p[i] ELSE r[i - Len(p)]
  BY <1>1, ConcatProperties
<1>4. Head(s) = s[1]
  OBVIOUS
<1> HIDE DEF q, p
<1>5. q # <<>> /\ Head(q) = q[1] /\ q[1] = s[1]
  BY <1>1, <1>2
<1>6. /\ Tail(q) \in Seq(Lines) /\ Len(Tail(q)) = Len(q) - 1
      /\ \A i \in 1..Len(Tail(q)) : Tail(q)[i] = q[i + 1]
  BY <1>2, <1>5, HeadTailProperties
<1>7. Tail(q) = p \o r
  <2> DEFINE a == Tail(q)
             b == p \o r
  <2>1. a \in Seq(Lines) /\ b \in Seq(Lines) /\ Len(a) = Len(b)
    BY <1>1, <1>2, <1>3, <1>6
  <2>2. ASSUME NEW i \in 1..Len(a) PROVE a[i] = b[i]
    <3>1. a[i] = q[i + 1] /\ i + 1 \in 1..(Len(s) + Len(r)) /\ i \in 1..(Len(p) + Len(r))
      BY <1>1, <1>2, <1>6, <2>2
    <3> HIDE DEF a
    <3>2. CASE i <= Len(p)
      <4>1. i + 1 <= Len(s) /\ i \in 1..Len(p)
        BY <1>1, <3>1, <3>2
      <4>2. q[i + 1] = s[i + 1] /\ b[i] = p[i]
        BY <1>2, <1>3, <3>1, <4>1
      <4> QED BY <1>1, <3>1, <4>1, <4>2
    <3>3. CASE i > Len(p)
      <4>1. ~(i + 1 <= Len(s)) /\ (i + 1) - Len(s) = i - Len(p)
        BY <1>1, <3>1, <3>3
      <4>2. q[i + 1] = r[(i + 1) - Len(s)] /\ b[i] = r[i - Len(p)]
        BY <1>2, <1>3, <3>1, <3>3, <4>1
      <4> QED BY <3>1, <4>1, <4>2
    <3> QED BY <1>1, <3>1, <3>2, <3>3
  <2> HIDE DEF a, b
  <2>3. a = b
    BY <2>1, <2>2, SeqEqual
  <2> QED BY <2>3 DEF a, b
<1> QED BY <1>1, <1>4, <1>5, <1>7 DEF q, p

\* What the wrapper makes of a line that is where it should be.
LEMMA Heard ==
  ASSUME NEW t \in TestTypes, NEW l \in Lines, LineOf(t, l), NEW titles \in Nat,
         NEW m \in BOOLEAN,
         isDown = t.reverse,
         l.of = "interval" => titles = 1,
         l.of \in {"sent", "received"} => titles = 2
  PROVE  LET interval == Matches(l, m) /\ IsInterval(l, titles)
             result == Matches(l, m) /\ ~IsInterval(l, titles) /\ IsResult(l, titles)
         IN /\ interval => l.of = "interval"
            /\ result => l.of = Own(t)
            /\ t.givesP /\ parallels = t.n /\ ~t.long /\ m =>
                 /\ interval <=> l \in IntervalKeys(t)
                 /\ result <=> l \in ResultKeys(t)
                 /\ interval => Call("onInterval", l.sum, l.of) = IntervalCall(t)
                 /\ result => Call("onResult", l.sum, l.of) = ResultCall(t)
<1> DEFINE interval == Matches(l, m) /\ IsInterval(l, titles)
           result == Matches(l, m) /\ ~IsInterval(l, titles) /\ IsResult(l, titles)
<1>1. /\ l.kind \in {"title", "report", "error", "other"} /\ l.sum \in BOOLEAN
      /\ l.tail \in {"none", "sender", "receiver", "loss", "count"}
      /\ l.of \in {"none", "interval", "sent", "received"} /\ l.late \in BOOLEAN
  BY DEF Lines
<1>2. t.udp \in BOOLEAN /\ t.reverse \in BOOLEAN /\ t.n \in Nat /\ t.n >= 1
  BY DEF TestTypes
<1>3. /\ l.kind = "report" => l.of # "none"
      /\ l.of # "none" => l.kind = "report"
      /\ l.of = "sent" => (t.udp => l.tail = "loss") /\ (~t.udp => l.tail = "sender")
      /\ l.of = "received" => ~t.udp /\ l.tail = "receiver"
      /\ l.sum => t.n > 1
      /\ l.late => t.long
  BY DEF LineOf
<1>4. interval => l.of = "interval"
  BY <1>1, <1>3 DEF Matches, IsInterval
<1>5. result => l.of \in {"sent", "received"}
  BY <1>1, <1>3 DEF Matches, IsResult, IsTcpResult, IsUdpResult
<1>6. /\ Own(t) = IF t.udp \/ ~t.reverse THEN "sent" ELSE "received"
      /\ l.of \in {"sent", "received"} =>
           (l.tail = "loss" \/ l.tail = IF isDown THEN "receiver" ELSE "sender") <=> l.of = Own(t)
  BY <1>1, <1>2, <1>3 DEF Own, Local
<1>7. result => l.of = Own(t)
  <2> SUFFICES ASSUME result PROVE l.of = Own(t)
    OBVIOUS
  <2>1. l.tail = "loss" \/ l.tail = IF isDown THEN "receiver" ELSE "sender"
    BY DEF IsResult, IsTcpResult, IsUdpResult
  <2> QED BY <1>5, <1>6, <2>1
<1>8. ASSUME t.givesP, parallels = t.n, ~t.long, m
      PROVE  /\ interval <=> l \in IntervalKeys(t)
             /\ result <=> l \in ResultKeys(t)
             /\ interval => Call("onInterval", l.sum, l.of) = IntervalCall(t)
             /\ result => Call("onResult", l.sum, l.of) = ResultCall(t)
  <2>1. OfParallels(l) <=> t.n = 1 \/ l.sum
    BY <1>1, <1>2, <1>3, <1>8 DEF OfParallels
  <2>2. l.kind = "report" => Matches(l, m)
    BY <1>3, <1>8 DEF Matches
  <2>3. interval <=> l \in IntervalKeys(t)
    BY <1>1, <1>3, <1>4, <2>1, <2>2 DEF IntervalKeys, IsInterval
  <2>4. l \in ResultKeys(t) => result
    <3> SUFFICES ASSUME l \in ResultKeys(t) PROVE result
      OBVIOUS
    <3>1. l.of = Own(t) /\ l.of \in {"sent", "received"} /\ OfParallels(l) /\ titles = 2
      BY <1>6, <2>1 DEF ResultKeys
    <3>2. Matches(l, m)
      BY <1>3, <2>2, <3>1
    <3>3. l.tail = "loss" \/ l.tail = IF isDown THEN "receiver" ELSE "sender"
      BY <1>6, <3>1
    <3> QED BY <3>1, <3>2, <3>3 DEF IsInterval, IsResult, IsTcpResult, IsUdpResult
  <2>5. result => l \in ResultKeys(t)
    BY <1>7, <2>1 DEF ResultKeys, IsResult, IsTcpResult, IsUdpResult
  <2>6. interval \/ result => l.sum = (t.n > 1)
    BY <1>1, <1>2, <1>3, <2>1 DEF IsInterval, IsResult, IsTcpResult, IsUdpResult
  <2> HIDE DEF interval, result
  <2>7. interval => Call("onInterval", l.sum, l.of) = IntervalCall(t)
    BY <1>4, <2>6, Zenon DEF IntervalCall
  <2>8. result => Call("onResult", l.sum, l.of) = ResultCall(t)
    BY <1>7, <2>6, Zenon DEF ResultCall
  <2> QED BY <2>3, <2>4, <2>5, <2>7, <2>8
<1> QED BY <1>4, <1>7, <1>8

\* One line makes at most one call.
Heeds(e, l, titles, m) == e \notin mixed /\ Matches(l, m) /\ IsInterval(l, titles)
Judges(e, l, titles, m) ==
  e \notin mixed /\ Matches(l, m) /\ ~IsInterval(l, titles) /\ IsResult(l, titles)

LEMMA Parsed ==
  ASSUME CmdInv, NEW e \in Execs, NEW l \in Lines, ParseToCallback(e, l)
  PROVE  LET titles == titleCnt + One(l \in Titles)
             s == cmd[e]
         IN \E m \in InMbits(test[e]) :
            /\ titleCnt' = titles /\ titles \in Nat /\ UNCHANGED <<parallels, isDown>>
            /\ cmd' = [cmd EXCEPT ![e] = cmd'[e]]
            /\ \/ /\ Heeds(e, l, titles, m) /\ l.kind # "error"
                  /\ cmd'[e] = s \o <<Call("onInterval", l.sum, l.of)>>
               \/ /\ Judges(e, l, titles, m) /\ l.kind # "error"
                  /\ cmd'[e] = s \o <<Call("onResult", l.sum, l.of)>>
               \/ /\ ~Heeds(e, l, titles, m) /\ ~Judges(e, l, titles, m) /\ l.kind = "error"
                  /\ cmd'[e] = s \o <<Error>>
               \/ /\ ~Heeds(e, l, titles, m) /\ ~Judges(e, l, titles, m) /\ l.kind # "error"
                  /\ cmd'[e] = s
<1> DEFINE titles == titleCnt + One(l \in Titles)
           s == cmd[e]
           E == l.kind = "error"
           x == <<Call("onInterval", l.sum, l.of)>>
           y == <<Call("onResult", l.sum, l.of)>>
           z == <<Error>>
<1>1. /\ titleCnt \in Nat /\ s \in Seq(Calls) /\ cmd \in [Execs -> Seq(Calls)]
  BY Values DEF DataTypes
<1>2. titles = (IF l.kind = "title" THEN titleCnt + 1 ELSE titleCnt) /\ titles \in Nat
  BY <1>1 DEF Titles, One
<1>2a. PICK m \in InMbits(test[e]) :
         /\ titleCnt' = titles /\ UNCHANGED <<parallels, isDown>>
         /\ cmd' = [cmd EXCEPT ![e] =
                     s \o If((Matches(l, m) /\ IsInterval(l, titles)) /\ e \notin mixed, x)
                       \o If((Matches(l, m) /\ ~IsInterval(l, titles) /\ IsResult(l, titles))
                               /\ e \notin mixed, y)
                       \o If(E, z)]
  <2>1. titles = (IF l.kind = "title" THEN titleCnt + 1 ELSE titleCnt)
    BY <1>2
  <2> HIDE DEF titles
  <2> QED BY <2>1, Zenon DEF ParseToCallback, IsError
<1> DEFINE H == Heeds(e, l, titles, m)
           J == Judges(e, l, titles, m)
           r == s \o If(H, x) \o If(J, y) \o If(E, z)
<1> SUFFICES /\ titleCnt' = titles /\ titles \in Nat /\ UNCHANGED <<parallels, isDown>>
             /\ cmd' = [cmd EXCEPT ![e] = cmd'[e]]
             /\ \/ H /\ ~E /\ cmd'[e] = s \o x
                \/ J /\ ~E /\ cmd'[e] = s \o y
                \/ ~H /\ ~J /\ E /\ cmd'[e] = s \o z
                \/ ~H /\ ~J /\ ~E /\ cmd'[e] = s
  BY <1>2a, Zenon
<1>3. /\ titleCnt' = titles /\ UNCHANGED <<parallels, isDown>>
      /\ cmd' = [cmd EXCEPT ![e] = r]
  <2>1. /\ ((Matches(l, m) /\ IsInterval(l, titles)) /\ e \notin mixed) = H
        /\ ((Matches(l, m) /\ ~IsInterval(l, titles) /\ IsResult(l, titles))
              /\ e \notin mixed) = J
    <3> HIDE DEF titles
    <3> QED BY Zenon DEF Heeds, Judges
  <2> HIDE DEF titles, H, J
  <2> QED BY <1>2a, <2>1, Zenon
<1>4. ~(H /\ J) /\ (E => ~H /\ ~J)
  BY DEF Heeds, Judges, Matches
<1>4a. x \in Seq(Calls) /\ y \in Seq(Calls) /\ z \in Seq(Calls)
  <2>1. /\ Call("onInterval", l.sum, l.of) \in Calls
        /\ Call("onResult", l.sum, l.of) \in Calls /\ Error \in Calls
    BY DEF Lines, Calls, Call, Error
  <2> QED BY <2>1
<1>4b. r = s \o If(H, x) \o If(J, y) \o If(E, z)
  OBVIOUS
<1> HIDE DEF titles, s, H, J, E, x, y, z, r
<1>5. cmd'[e] = r /\ cmd' = [cmd EXCEPT ![e] = cmd'[e]]
  BY <1>1, <1>3
<1>6. /\ (H => If(H, x) = x) /\ (~H => If(H, x) = <<>>)
      /\ (J => If(J, y) = y) /\ (~J => If(J, y) = <<>>)
      /\ (E => If(E, z) = z) /\ (~E => If(E, z) = <<>>)
  BY DEF If
<1>7. /\ \A q \in Seq(Calls) : q \o <<>> = q
      /\ s \o x \in Seq(Calls) /\ s \o y \in Seq(Calls) /\ s \o z \in Seq(Calls)
  BY <1>1, <1>4a, ConcatEmptySeq, ConcatProperties
<1>8. CASE H
  <2>1. ~J /\ ~E /\ r = s \o x \o <<>> \o <<>>
    BY <1>4, <1>6, <1>4b, <1>8, Zenon
  <2>2. r = s \o x
    BY <1>7, <2>1
  <2> QED BY <1>2, <1>3, <1>5, <1>8, <2>1, <2>2, Zenon
<1>9. CASE J
  <2>1. ~H /\ ~E /\ r = s \o <<>> \o y \o <<>>
    BY <1>4, <1>6, <1>4b, <1>9, Zenon
  <2>2. r = s \o y
    BY <1>1, <1>7, <2>1
  <2> QED BY <1>2, <1>3, <1>5, <1>9, <2>1, <2>2, Zenon
<1>10. CASE E
  <2>1. ~H /\ ~J /\ r = s \o <<>> \o <<>> \o z
    BY <1>4, <1>6, <1>4b, <1>10, Zenon
  <2>2. r = s \o z
    BY <1>1, <1>7, <2>1
  <2> QED BY <1>2, <1>3, <1>5, <1>10, <2>1, <2>2, Zenon
<1>11. CASE ~H /\ ~J /\ ~E
  <2>1. r = s \o <<>> \o <<>> \o <<>>
    BY <1>6, <1>4b, <1>11, Zenon
  <2>2. r = s
    BY <1>1, <1>7, <2>1
  <2> QED BY <1>2, <1>3, <1>5, <1>11, <2>2, Zenon
<1> QED BY <1>8, <1>9, <1>10, <1>11

\* The calls after one more.
LEMMA CallAppended ==
  ASSUME NEW s \in Seq(Calls), NEW c \in Calls
  PROVE  /\ s \o <<c>> \in Seq(Calls) /\ Len(s \o <<c>>) = Len(s) + 1 /\ Len(s) \in Nat
         /\ \A i \in 1..Len(s) : (s \o <<c>>)[i] = s[i]
         /\ (s \o <<c>>)[Len(s) + 1] = c
         /\ NoError(s) /\ c.call # "onError" => NoError(s \o <<c>>)
         /\ NoError(s) /\ c = Error => EndsInError(s \o <<c>>)
<1> DEFINE q == s \o <<c>>
<1>1. /\ <<c>> \in Seq(Calls) /\ Len(<<c>>) = 1 /\ <<c>>[1] = c /\ Len(s) \in Nat
  BY LenProperties
<1>2. /\ q \in Seq(Calls) /\ Len(q) = Len(s) + 1
      /\ \A i \in 1..(Len(s) + 1) : q[i] = IF i <= Len(s) THEN s[i] ELSE <<c>>[i - Len(s)]
  BY <1>1, ConcatProperties
<1> HIDE DEF q
<1>3. (\A i \in 1..Len(s) : q[i] = s[i]) /\ q[Len(s) + 1] = c
  <2>1. Len(s) + 1 \in 1..(Len(s) + 1) /\ (Len(s) + 1) - Len(s) = 1 /\ ~(Len(s) + 1 <= Len(s))
    BY <1>1
  <2> QED BY <1>1, <1>2, <2>1
<1>4. ASSUME NoError(s), c.call # "onError" PROVE NoError(q)
  <2>1. ASSUME NEW i \in 1..Len(q) PROVE q[i].call # "onError"
    <3>1. i \in 1..Len(s) \/ i = Len(s) + 1
      BY <1>1, <1>2
    <3> QED BY <1>3, <1>4, <3>1 DEF NoError
  <2> QED BY <2>1 DEF NoError
<1>5. ASSUME NoError(s), c = Error PROVE EndsInError(q)
  <2>1. q # <<>> /\ q[Len(q)] = Error
    BY <1>1, <1>2, <1>3, <1>5
  <2>2. \A i \in 1..(Len(q) - 1) : q[i].call # "onError"
    BY <1>1, <1>2, <1>3, <1>5 DEF NoError
  <2> QED BY <2>1, <2>2 DEF EndsInError
<1> QED BY <1>1, <1>2, <1>3, <1>4, <1>5 DEF q

\* Reading the next line of standard output.
LEMMA ReadOutStep ==
  ASSUME CmdInv, NEW e \in Execs, ReadOut(e)
  PROVE  LET l == Head(out[e])
             q == ToCome(e)
             r == ToCome(e)'
         IN /\ At(e, "out") /\ out[e] # <<>>
            /\ l \in Lines /\ q \in Seq(Lines) /\ r \in Seq(Lines)
            /\ Len(q) \in Nat /\ Len(r) = Len(q) - 1 /\ Len(q) >= 1
            /\ q[1] = l /\ (\A i \in 1..Len(r) : r[i] = q[i + 1])
            /\ ParseToCallback(e, l)
            /\ out' = [out EXCEPT ![e] = Tail(out[e])] /\ Tail(out[e]) \in Seq(Lines)
            /\ Len(Tail(out[e])) = Len(out[e]) - 1
            /\ UNCHANGED <<pc, procVars, err, mixed>>
            /\ \A K : /\ Left(e, K) = One(l \in K) + Left(e, K)'
                      /\ Left(e, K) \in Nat /\ Left(e, K)' \in Nat
                      /\ \A i \in 1..Len(r) : Num(q, K, i + 1) = One(l \in K) + Num(r, K, i)
                      /\ Num(q, K, 1) = One(l \in K)
<1> DEFINE l == Head(out[e])
           s == out[e]
           q == ToCome(e)
           p == Tail(out[e])
           r == Tail(q)
<1>1. /\ At(e, "out") /\ s # <<>> /\ ParseToCallback(e, l) /\ out' = [out EXCEPT ![e] = p]
      /\ UNCHANGED <<pc, procVars, err, mixed>>
  BY DEF ReadOut
<1>2. DataTypes /\ s \in Seq(Lines) /\ toOut[e] \in Seq(Lines)
  BY Values
<1>3. /\ q # <<>> /\ Head(q) = l /\ r = p \o toOut[e] /\ l \in Lines /\ p \in Seq(Lines)
      /\ Len(p) = Len(s) - 1
  BY <1>1, <1>2, TailOfCat DEF ToCome
<1>4. ToCome(e)' = r
  <2>1. out'[e] = p /\ toOut' = toOut
    BY <1>1, <1>2 DEF DataTypes, procVars
  <2> QED BY <1>3, <2>1, Zenon DEF ToCome
<1>5. q \in Seq(Lines) /\ Len(q) \in Nat
  BY <1>2, ToComeType, Zenon
<1> HIDE DEF q
<1>6. /\ r \in Seq(Lines) /\ Len(r) = Len(q) - 1 /\ Len(q) >= 1
      /\ q[1] = l /\ (\A i \in 1..Len(r) : r[i] = q[i + 1])
  <2>1. /\ Tail(q) \in Seq(Lines) /\ Len(Tail(q)) = Len(q) - 1
        /\ \A i \in 1..Len(Tail(q)) : Tail(q)[i] = q[i + 1]
    BY <1>3, <1>5, HeadTailProperties
  <2>2. Len(q) >= 1
    BY <1>3, <1>5, EmptySeq
  <2>3. q[1] = Head(q)
    OBVIOUS
  <2> QED BY <1>3, <2>1, <2>2, <2>3
<1>7. ASSUME NEW K
      PROVE  /\ Left(e, K) = One(l \in K) + Left(e, K)'
             /\ Left(e, K) \in Nat /\ Left(e, K)' \in Nat
             /\ \A i \in 1..Len(r) : Num(q, K, i + 1) = One(l \in K) + Num(r, K, i)
             /\ Num(q, K, 1) = One(l \in K)
  <2>1. \A i \in 0..Len(r) : Num(q, K, i + 1) = One(l \in K) + Num(r, K, i)
    BY <1>3, <1>5, NumTail DEF One
  <2>2. Num(r, K, 0) = 0
    BY NumNone
  <2>3. Left(e, K) = Num(q, K, Len(q)) /\ Left(e, K)' = Num(r, K, Len(r))
    BY <1>4 DEF Left, q
  <2>4. One(l \in K) \in Nat /\ Len(r) \in Nat
    BY <1>5, <1>6 DEF One
  <2>5. Num(q, K, Len(q)) = One(l \in K) + Num(r, K, Len(r))
    <3>1. Len(r) \in 0..Len(r) /\ Len(r) + 1 = Len(q)
      BY <1>5, <1>6, <2>4
    <3> HIDE DEF r
    <3> QED BY <2>1, <3>1
  <2>6. Num(q, K, 1) = One(l \in K)
    <3>1. 0 \in 0..Len(r)
      BY <2>4
    <3>2. Num(q, K, 0 + 1) = One(l \in K) + Num(r, K, 0)
      BY <2>1, <3>1
    <3> QED BY <2>2, <2>4, <3>2
  <2>7. Num(q, K, Len(q)) \in Nat /\ Num(r, K, Len(r)) \in Nat
    BY <1>5, <2>4, NumType
  <2> HIDE DEF r, l
  <2>8. \A i \in 1..Len(r) : Num(q, K, i + 1) = One(l \in K) + Num(r, K, i)
    BY <2>1
  <2> QED BY <2>3, <2>5, <2>6, <2>7, <2>8
<1> HIDE DEF l, s, p, r
<1> QED BY <1>1, <1>2, <1>3, <1>4, <1>5, <1>6, <1>7 DEF l, s, p, q

LEMMA ReadOutKeeps ==
  ASSUME CmdInv, NEW e \in Execs, ReadOut(e) PROVE CmdInv'
<1> DEFINE t == test[e]
           l == Head(out[e])
           p == Tail(out[e])
           q == ToCome(e)
           r == ToCome(e)'
           s == cmd[e]
           k == cmd'[e]
           titles == titleCnt + One(l \in Titles)
           c == Call("onInterval", l.sum, l.of)
           d == Call("onResult", l.sum, l.of)
<1>1. /\ At(e, "out") /\ out[e] # <<>> /\ l \in Lines /\ q \in Seq(Lines) /\ r \in Seq(Lines)
      /\ Len(q) \in Nat /\ Len(r) = Len(q) - 1 /\ Len(q) >= 1
      /\ q[1] = l /\ (\A i \in 1..Len(r) : r[i] = q[i + 1])
      /\ ParseToCallback(e, l)
      /\ out' = [out EXCEPT ![e] = p] /\ p \in Seq(Lines) /\ Len(p) = Len(out[e]) - 1
      /\ UNCHANGED <<pc, procVars, err, mixed>>
  BY ReadOutStep
<1>2. ASSUME NEW K
      PROVE  /\ Left(e, K) = One(l \in K) + Left(e, K)'
             /\ Left(e, K) \in Nat /\ Left(e, K)' \in Nat
             /\ \A i \in 1..Len(r) : Num(q, K, i + 1) = One(l \in K) + Num(r, K, i)
             /\ Num(q, K, 1) = One(l \in K)
  BY ReadOutStep
<1>2a. ASSUME NEW K
       PROVE  /\ Num(q, K, Len(q)) = One(l \in K) + Num(r, K, Len(r))
              /\ Num(r, K, Len(r)) \in Nat
  BY <1>2 DEF Left
<1>3. /\ TypeOK /\ DataTypes /\ ExecInv(e) /\ InStep(e)
      /\ t \in TestTypes /\ titleCnt \in Nat /\ s \in Seq(Calls)
  BY Values
<1>3a. PICK m \in InMbits(t) :
         /\ titleCnt' = titles /\ titles \in Nat /\ UNCHANGED <<parallels, isDown>>
         /\ cmd' = [cmd EXCEPT ![e] = k]
         /\ \/ Heeds(e, l, titles, m) /\ l.kind # "error" /\ k = s \o <<c>>
            \/ Judges(e, l, titles, m) /\ l.kind # "error" /\ k = s \o <<d>>
            \/ /\ ~Heeds(e, l, titles, m) /\ ~Judges(e, l, titles, m) /\ l.kind = "error"
               /\ k = s \o <<Error>>
            \/ /\ ~Heeds(e, l, titles, m) /\ ~Judges(e, l, titles, m) /\ l.kind # "error"
               /\ k = s
  BY <1>1, Parsed
<1>3b. m \in BOOLEAN /\ (t.mbits => m)
  BY DEF InMbits
<1> DEFINE H == Heeds(e, l, titles, m)
           J == Judges(e, l, titles, m)
<1>4. /\ titleCnt' = titles /\ titles \in Nat /\ UNCHANGED <<parallels, isDown>>
      /\ cmd' = [cmd EXCEPT ![e] = k]
      /\ \/ H /\ l.kind # "error" /\ k = s \o <<c>>
         \/ J /\ l.kind # "error" /\ k = s \o <<d>>
         \/ ~H /\ ~J /\ l.kind = "error" /\ k = s \o <<Error>>
         \/ ~H /\ ~J /\ l.kind # "error" /\ k = s
  BY <1>3a
<1> HIDE DEF H, J
<1>5. /\ c \in Calls /\ d \in Calls /\ Error \in Calls
      /\ c.call = "onInterval" /\ d.call = "onResult" /\ Error.call = "onError"
      /\ c.of = l.of /\ d.of = l.of
  BY <1>1 DEF Lines, Calls, Call, Error
<1> HIDE DEF t, l, p, q, r, s, k, titles, c, d
<1>6. k \in Seq(Calls)
  BY <1>3, <1>4, <1>5, CallAppended
<1>7. DataTypes' /\ out'[e] = p /\ \A f \in Execs \ {e} : out'[f] = out[f] /\ cmd'[f] = cmd[f]
  BY <1>1, <1>3, <1>4, <1>6 DEF DataTypes, procVars
<1>8. TypeOK'
  <2>1. Len(out[e]) \in Nat
    BY <1>3, LenProperties DEF DataTypes
  <2>2. \A f \in Execs : Len(out'[f]) <= PipeCap
    BY <1>1, <1>3, <1>7, <2>1, CmdAssumption DEF TypeOK
  <2> QED BY <1>1, <1>3, <1>4, <2>2 DEF TypeOK, procVars
<1>9. Others(e)
  BY <1>1, <1>7 DEF Others, procVars
<1>10. Active(e)
  BY <1>1 DEF At, Active
<1>11. \A f \in Execs \ {e} : ExecInv(f)'
  BY <1>9, <1>10, OthersKeep DEF CmdInv
<1>12. InStep(e)'
  <2>1. pc[e] = "out" /\ proc[e] \notin {"none", "connected"}
    BY <1>1, <1>3 DEF InStep, At
  <2> QED BY <1>1, <1>3, <2>1 DEF InStep, procVars
\* The last line is the error of a failure, and no other.
<1>13. ErrorLast(e)'
  <2> DEFINE F == end[e] \in Failing
  <2>1. ErrorAtEnd(q, F) /\ NoError(s)
    <3>1. q # <<>>
      BY <1>1
    <3> QED BY <1>3, <3>1 DEF ExecInv, ErrorLast, q, s
  <2> HIDE DEF F
  <2>2. ErrorAtEnd(r, F)
    <3>1. \A i \in 1..Len(r) : r[i].kind = "error" => F /\ i = Len(r)
      BY <1>1, <2>1 DEF ErrorAtEnd
    <3>2. ASSUME F, r # <<>> PROVE r[Len(r)] = ErrorLine
      <4>1. Len(r) >= 1 /\ q # <<>>
        BY <1>1, <3>2, EmptySeq
      <4>2. q[Len(q)] = ErrorLine
        BY <2>1, <3>2, <4>1 DEF ErrorAtEnd
      <4> QED BY <1>1, <4>1, <4>2
    <3> QED BY <3>1, <3>2 DEF ErrorAtEnd
  <2>3. IF F /\ r = <<>> THEN EndsInError(k) ELSE NoError(k)
    <3>1. CASE l.kind = "error"
      <4>1. F /\ 1 = Len(q)
        BY <1>1, <2>1, <3>1 DEF ErrorAtEnd
      <4>2. r = <<>>
        BY <1>1, <4>1, EmptySeq
      <4>3. k = s \o <<Error>>
        BY <1>4, <3>1
      <4>4. EndsInError(k)
        BY <1>3, <1>5, <2>1, <4>3, CallAppended
      <4> QED BY <4>1, <4>2, <4>4
    <3>2. CASE l.kind # "error"
      <4>1. ~(F /\ r = <<>>)
        <5>1. ASSUME F, r = <<>> PROVE FALSE
          <6>1. Len(r) = 0 /\ q # <<>>
            BY <1>1, <5>1
          <6>2. Len(q) = 1 /\ q[Len(q)] = ErrorLine
            BY <1>1, <2>1, <5>1, <6>1 DEF ErrorAtEnd
          <6> QED BY <1>1, <3>2, <6>2 DEF ErrorLine, Line
        <5> QED BY <5>1
      <4>2. NoError(k)
        BY <1>3, <1>4, <1>5, <2>1, <3>2, CallAppended
      <4> QED BY <4>1, <4>2
    <3> QED BY <3>1, <3>2
  <2>4. (end[e] \in Failing)' = F
    BY <1>1 DEF F, procVars
  <2> QED BY <2>2, <2>3, <2>4 DEF ErrorLast, r, k
<1>14. SaidOf(test[e], ToCome(e))' /\ (LineOf(t, l) \/ l = ErrorLine)
  <2>1. SaidOf(t, q)
    BY <1>3 DEF ExecInv, t, q
  <2>2. SaidOf(t, r)
    <3>1. ASSUME NEW i \in 1..Len(r) PROVE LineOf(t, r[i]) \/ r[i] = ErrorLine
      <4>1. i + 1 \in 1..Len(q) /\ r[i] = q[i + 1]
        BY <1>1
      <4>2. LineOf(t, q[i + 1]) \/ q[i + 1] = ErrorLine
        BY <2>1, <4>1 DEF SaidOf
      <4> QED BY <4>1, <4>2, Zenon
    <3> QED BY <3>1 DEF SaidOf
  <2>3. LineOf(t, l) \/ l = ErrorLine
    BY <1>1, <2>1 DEF SaidOf
  <2> QED BY <1>1, <2>2, <2>3 DEF t, r, procVars
<1>15. Owns(e)'
  BY <1>1, <1>3, <1>4 DEF ExecInv, Owns, Alone, Active, procVars
<1>16. /\ Odd(e)' <=> Odd(e)
       /\ Alone(e)' <=> Alone(e)
       /\ Plain(e)' <=> Plain(e)
       /\ Active(e)' <=> Active(e)
       /\ e \notin mixed => Alone(e)
  BY <1>1, <1>10 DEF Odd, Alone, Plain, Active, procVars
<1>17. Told(e)'
  BY <1>1, <1>3 DEF ExecInv, Told, procVars
\* The count of titles is right for the line that is read, and for the next ones.
<1>18. ASSUME Alone(e), ~Odd(e)
       PROVE  /\ l.of = "interval" => titles = 1
              /\ l.of \in {"sent", "received"} => titles = 2
              /\ Numbered(r, titles)
              /\ titles + Left(e, Titles)' = One(gathered[e] > 0) + One(end[e] \in Reported)
  <2>1. /\ Numbered(q, titleCnt)
        /\ titleCnt + Left(e, Titles) = One(gathered[e] > 0) + One(end[e] \in Reported)
    BY <1>3, <1>18 DEF ExecInv, Titled, q
  <2>2. /\ Left(e, Titles) = One(l \in Titles) + Left(e, Titles)' /\ Left(e, Titles)' \in Nat
        /\ \A i \in 1..Len(r) : Num(q, Titles, i + 1) = One(l \in Titles) + Num(r, Titles, i)
        /\ Num(q, Titles, 1) = One(l \in Titles)
    BY <1>2
  <2>3. One(l \in Titles) \in Nat /\ titles = titleCnt + One(l \in Titles)
    BY DEF One, titles
  <2>4. /\ l.of = "interval" => titles = 1
        /\ l.of \in {"sent", "received"} => titles = 2
    <3>1. 1 \in 1..Len(q)
      BY <1>1
    <3> QED BY <1>1, <2>1, <2>2, <2>3, <3>1 DEF Numbered
  <2>5. ASSUME NEW i \in 1..Len(r)
        PROVE  /\ r[i].of = "interval" => titles + Num(r, Titles, i) = 1
               /\ r[i].of \in {"sent", "received"} => titles + Num(r, Titles, i) = 2
    <3>1. i + 1 \in 1..Len(q) /\ r[i] = q[i + 1] /\ i \in Nat
      BY <1>1
    <3>2. Num(q, Titles, i + 1) = One(l \in Titles) + Num(r, Titles, i)
      BY <2>2
    <3>3. Num(r, Titles, i) \in Nat
      BY <3>1, NumType
    <3>4. /\ q[i + 1].of = "interval" => titleCnt + Num(q, Titles, i + 1) = 1
          /\ q[i + 1].of \in {"sent", "received"} => titleCnt + Num(q, Titles, i + 1) = 2
      BY <2>1, <3>1 DEF Numbered
    <3>5. titleCnt + Num(q, Titles, i + 1) = titles + Num(r, Titles, i)
      BY <1>3, <2>3, <3>2, <3>3
    <3> QED BY <3>1, <3>4, <3>5
  <2>6. titles + Left(e, Titles)' = titleCnt + Left(e, Titles)
    BY <1>3, <2>2, <2>3
  <2> QED BY <2>1, <2>4, <2>5, <2>6 DEF Numbered
<1>19. Titled(e)'
  <2> SUFFICES ASSUME Alone(e)', ~Odd(e)'
               PROVE  /\ Numbered(r, titles)
                      /\ titles + Left(e, Titles)' = One(gathered[e] > 0) + One(end[e] \in Reported)
    BY <1>1, <1>4 DEF Titled, procVars, r
  <2> QED BY <1>16, <1>18
<1>20. ASSUME e \notin mixed, ~Odd(e)
       PROVE  /\ H => l.of = "interval"
              /\ J => l.of = Own(t)
              /\ l.kind # "error" /\ t.givesP /\ ~t.long /\ t.mbits =>
                   /\ H <=> l \in IntervalKeys(t)
                   /\ J <=> l \in ResultKeys(t)
                   /\ H => c = IntervalCall(t)
                   /\ J => d = ResultCall(t)
  <2>1. Alone(e)
    BY <1>16, <1>20
  <2>2. isDown = t.reverse /\ (t.givesP => parallels = t.n)
    BY <1>3, <2>1 DEF ExecInv, Owns, t
  <2>3. /\ H <=> Matches(l, m) /\ IsInterval(l, titles)
        /\ J <=> Matches(l, m) /\ ~IsInterval(l, titles) /\ IsResult(l, titles)
    BY <1>20 DEF H, J, Heeds, Judges
  <2>4. CASE l.kind = "error"
    BY <2>3, <2>4 DEF Matches
  <2>5. CASE l.kind # "error"
    <3>1. LineOf(t, l)
      BY <1>14, <2>5 DEF ErrorLine, Line
    <3>2. /\ l.of = "interval" => titles = 1
          /\ l.of \in {"sent", "received"} => titles = 2
      BY <1>18, <1>20, <2>1
    <3> QED BY <1>1, <1>3, <1>3b, <1>4, <2>2, <2>3, <3>1, <3>2, Heard DEF c, d
  <2> QED BY <2>4, <2>5
<1>21. AllRight(e)'
  <2> SUFFICES ASSUME e \notin mixed, ~Odd(e), NEW i \in 1..Len(k) PROVE Right(t, k[i])
    BY <1>1, <1>16 DEF AllRight, k, t, procVars
  <2>1. \A j \in 1..Len(s) : Right(t, s[j])
    BY <1>3 DEF ExecInv, AllRight, s, t
  <2>2. ASSUME NEW x \in Calls, k = s \o <<x>>, Right(t, x) PROVE Right(t, k[i])
    <3>1. i \in 1..Len(s) \/ i = Len(s) + 1
      BY <1>3, <2>2, CallAppended
    <3>2. (\A j \in 1..Len(s) : k[j] = s[j]) /\ k[Len(s) + 1] = x
      BY <1>3, <2>2, CallAppended
    <3> QED BY <2>1, <2>2, <3>1, <3>2
  <2>3. /\ H => Right(t, c)
        /\ J => Right(t, d)
        /\ Right(t, Error)
    BY <1>5, <1>20 DEF Right
  <2> QED BY <1>4, <1>5, <2>1, <2>2, <2>3
\* What was found so far are the calls that were made.
<1>22. Counted(e)'
  <2> DEFINE a == Found(e)
             b == FoundResults(e)
             IK == IntervalKeys(t)
             RK == ResultKeys(t)
             res == <<ResultCall(t)>>
  <2> SUFFICES ASSUME Plain(e)', end[e] \in {"none", "success"}
               PROVE  /\ Found(e)' \in Nat /\ FoundResults(e)' \in {0, 1}
                      /\ FoundResults(e)' = 1 => titles >= 2
                      /\ k = Intervals(t, Found(e)') \o If(FoundResults(e)' = 1, res)
    BY <1>1, <1>4 DEF Counted, procVars, t, k
  <2>1. /\ Plain(e) /\ Alone(e) /\ ~Odd(e) /\ e \notin mixed
        /\ t.givesP /\ ~t.long /\ t.mbits
    BY <1>16 DEF Plain, Odd, t
  <2>2. /\ a \in Nat /\ b \in {0, 1}
        /\ b = 1 => titleCnt >= 2
        /\ s = Intervals(t, a) \o If(b = 1, res)
    BY <1>3, <1>10, <2>1 DEF ExecInv, Counted, s, t
  <2>3. l.kind # "error"
    <3>1. ErrorAtEnd(q, FALSE)
      BY <1>3 DEF ExecInv, ErrorLast, Failing, ErrorAtEnd, q
    <3> QED BY <1>1, <3>1 DEF ErrorAtEnd
  <2>4. /\ H <=> l \in IK
        /\ J <=> l \in RK
        /\ H => c = IntervalCall(t) /\ l.of = "interval"
        /\ J => d = ResultCall(t) /\ l.of = Own(t)
        /\ ~(H /\ J)
    BY <1>20, <2>1, <2>3 DEF H, J, Heeds, Judges
  <2>5. /\ Found(e)' = a + One(l \in IK)
        /\ FoundResults(e)' = b + One(l \in RK)
        /\ FoundResults(e)' <= 1
    <3>1. /\ a = gathered[e] - Num(q, IK, Len(q))
          /\ b = One(end[e] = "success") - Num(q, RK, Len(q))
          /\ Found(e)' = gathered[e] - Num(r, IK, Len(r))
          /\ FoundResults(e)' = One(end[e] = "success") - Num(r, RK, Len(r))
      BY <1>1 DEF Found, FoundResults, Left, q, r, t, procVars
    <3> HIDE DEF a, b, IK, RK
    <3>2. /\ Num(q, IK, Len(q)) = One(l \in IK) + Num(r, IK, Len(r))
          /\ Num(q, RK, Len(q)) = One(l \in RK) + Num(r, RK, Len(r))
          /\ Num(r, IK, Len(r)) \in Nat /\ Num(r, RK, Len(r)) \in Nat
      BY <1>2a
    <3>3. /\ One(l \in IK) \in Nat /\ One(l \in RK) \in Nat
          /\ One(end[e] = "success") \in {0, 1} /\ gathered[e] \in Nat
      BY Values DEF One
    <3>4. /\ Found(e)' = a + One(l \in IK)
          /\ FoundResults(e)' = b + One(l \in RK)
      BY <3>1, <3>2, <3>3
    <3>5. FoundResults(e)' <= 1
      BY <3>1, <3>2, <3>3
    <3> QED BY <3>4, <3>5
  <2> HIDE DEF a, b, IK, RK, res
  <2>6. /\ If(b = 1, res) = IF b = 1 THEN res ELSE <<>>
        /\ If(FoundResults(e)' = 1, res) = IF FoundResults(e)' = 1 THEN res ELSE <<>>
    BY DEF If
  <2>7. ASSUME NEW g \in Nat
        PROVE  /\ Intervals(t, g) \in Seq(Calls) /\ Intervals(t, g) \o <<>> = Intervals(t, g)
               /\ Intervals(t, g + 1) = Intervals(t, g) \o <<IntervalCall(t)>>
    <3>1. /\ Intervals(t, g) \in Seq(Calls)
          /\ Intervals(t, g + 1) = Intervals(t, g) \o <<IntervalCall(t)>>
      BY <1>3, <2>7, IntervalsNext
    <3> QED BY <3>1, ConcatEmptySeq
  <2>8. titles >= titleCnt
    BY <1>3 DEF titles, One
  <2>8a. b = 0 => s = Intervals(t, a) \o <<>>
    <3>1. ASSUME b = 0 PROVE If(b = 1, res) = <<>>
      BY <2>6, <3>1
    <3> QED BY <2>2, <3>1, Zenon
  <2>9. CASE H
    <3>1. titles = 1
      BY <1>18, <2>1, <2>4, <2>9
    <3>2. b = 0
      BY <1>3, <1>4, <2>2, <2>8, <3>1
    <3>3. Found(e)' = a + 1 /\ FoundResults(e)' = 0
      BY <2>2, <2>4, <2>5, <2>9, <3>2 DEF One
    <3>4. k = s \o <<c>> /\ c = IntervalCall(t)
      BY <1>4, <2>4, <2>9
    <3>5. s = Intervals(t, a)
      BY <2>2, <2>7, <2>8a, <3>2
    <3>6. k = Intervals(t, a) \o <<IntervalCall(t)>> /\ a + 1 \in Nat
      BY <2>2, <3>4, <3>5
    <3>7. k = Intervals(t, a + 1)
      BY <2>2, <2>7, <3>6
    <3>8. k = Intervals(t, a + 1) \o <<>>
      BY <2>7, <3>6, <3>7
    <3>9. If(FoundResults(e)' = 1, res) = <<>>
      BY <2>6, <3>3
    <3>10. k = Intervals(t, Found(e)') \o If(FoundResults(e)' = 1, res)
      BY <3>3, <3>8, <3>9, Zenon
    <3>11. /\ Found(e)' \in Nat /\ FoundResults(e)' \in {0, 1}
           /\ FoundResults(e)' = 1 => titles >= 2
      BY <2>2, <3>3
    <3> QED BY <3>10, <3>11
  <2>10. CASE J
    <3>1. titles = 2
      BY <1>18, <2>1, <2>4, <2>10 DEF Own, Local
    <3>2. b = 0 /\ Found(e)' = a /\ FoundResults(e)' = 1
      BY <2>2, <2>4, <2>5, <2>10 DEF One
    <3>3. k = s \o <<d>> /\ <<d>> = res
      BY <1>4, <2>4, <2>10 DEF res
    <3>4. s = Intervals(t, a)
      BY <2>2, <2>7, <2>8a, <3>2
    <3>5. If(FoundResults(e)' = 1, res) = res
      BY <2>6, <3>2
    <3>6. k = Intervals(t, Found(e)') \o If(FoundResults(e)' = 1, res)
      BY <3>2, <3>3, <3>4, <3>5, Zenon
    <3> QED BY <2>2, <3>1, <3>2, <3>6
  <2>11. CASE ~H /\ ~J
    <3>1. k = s
      BY <1>4, <2>3, <2>11
    <3>2. Found(e)' = a /\ FoundResults(e)' = b
      BY <2>2, <2>4, <2>5, <2>11 DEF One
    <3>3. b = 1 => titles >= 2
      BY <1>3, <1>4, <2>2, <2>8
    <3> QED BY <2>2, <3>1, <3>2, <3>3
  <2> QED BY <2>9, <2>10, <2>11
<1>23. ExecInv(e)'
  BY <1>12, <1>13, <1>14, <1>15, <1>17, <1>19, <1>21, <1>22 DEF ExecInv
<1> QED BY <1>7, <1>8, <1>11, <1>23 DEF CmdInv

LEMMA ReadErrKeeps ==
  ASSUME CmdInv, NEW e \in Execs, ReadErr(e) PROVE CmdInv'
<1> DEFINE s == err[e]
           l == Head(s)
           p == Tail(s)
<1>1. /\ At(e, "err") /\ s # <<>> /\ ParseToCallback(e, l) /\ err' = [err EXCEPT ![e] = p]
      /\ UNCHANGED <<pc, procVars, out, mixed>>
  BY DEF ReadErr
<1>2. /\ TypeOK /\ DataTypes /\ InStep(e) /\ s \in Seq(Lines) /\ titleCnt \in Nat
  BY Values
<1>3. /\ Len(s) >= 1 /\ Len(s) \in Nat /\ l \in Lines /\ l = s[1]
      /\ p \in Seq(Lines) /\ Len(p) = Len(s) - 1 /\ \A i \in 1..Len(p) : p[i] = s[i + 1]
  BY <1>1, <1>2, EmptySeq, HeadTailProperties
<1> HIDE DEF s, l, p
<1>4. /\ l = Other /\ \A i \in 1..Len(p) : p[i] = Other
  <2>1. \A i \in 1..Len(s) : s[i] = Other
    BY <1>2 DEF InStep, s
  <2> QED BY <1>3, <2>1
<1>5. l \notin Titles /\ l.kind # "error" /\ \A m : ~Matches(l, m)
  BY <1>4 DEF Other, Line, Titles, Matches
<1>6. UNCHANGED fieldVars /\ cmd'[e] = cmd[e] /\ cmd' = [cmd EXCEPT ![e] = cmd[e]]
  <2>1. One(l \in Titles) = 0
    BY <1>5 DEF One
  <2>2. /\ titleCnt' = titleCnt + One(l \in Titles) /\ UNCHANGED <<parallels, isDown>>
        /\ cmd' = [cmd EXCEPT ![e] = cmd'[e]] /\ cmd'[e] = cmd[e]
    BY <1>1, <1>3, <1>5, Parsed DEF Heeds, Judges
  <2> QED BY <1>2, <2>1, <2>2 DEF fieldVars
<1>7. cmd' = cmd
  BY <1>2, <1>6 DEF DataTypes
<1>8. DataTypes' /\ err'[e] = p /\ \A f \in Execs \ {e} : err'[f] = err[f]
  BY <1>1, <1>2, <1>3, <1>7 DEF DataTypes, procVars
<1>9. TypeOK'
  <2>1. \A f \in Execs : Len(err'[f]) <= PipeCap
    <3>1. PipeCap \in Nat /\ Len(s) <= PipeCap /\ \A f \in Execs : Len(err[f]) <= PipeCap
      BY <1>2, CmdAssumption DEF TypeOK, s
    <3>2. Len(p) <= PipeCap
      BY <1>3, <3>1
    <3> QED BY <1>8, <3>1, <3>2
  <2> QED BY <1>1, <1>2, <1>6, <2>1 DEF TypeOK, procVars, fieldVars
<1>10. Others(e)
  BY <1>1, <1>7, <1>8 DEF Others, procVars
<1>11. InStep(e)'
  BY <1>1, <1>2, <1>4, <1>7, <1>8 DEF InStep, procVars
<1>12. ToCome(e)' = ToCome(e) /\ (Active(e)' => Active(e))
  BY <1>1 DEF ToCome, Active, procVars
<1>13. \A f \in Execs : ExecInv(f)'
  BY <1>1, <1>6, <1>10, <1>11, <1>12, Move DEF CmdInv, procVars
<1> QED BY <1>8, <1>9, <1>13 DEF CmdInv

-----------------------------------------------------------------------------
(* The first state of an exec *)

\* Nothing is printed, gathered or called.
LEMMA Nothing ==
  ASSUME NEW t \in TestTypes
  PROVE  /\ ErrorAtEnd(<<>>, FALSE) /\ NoError(<<>>) /\ SaidOf(t, <<>>)
         /\ <<>> \o <<>> = <<>> /\ <<>> \in Seq(Lines) /\ <<>> \in Seq(Calls) /\ Len(<<>>) = 0
         /\ (\A k : Numbered(<<>>, k)) /\ (\A K : Num(<<>>, K, 0) = 0)
         /\ Intervals(t, 0) = <<>>
         /\ One(0 > 0) = 0 /\ One("none" \in Reported) = 0 /\ One("none" = "success") = 0
         /\ "none" \notin Failing /\ OnlyErrors(<<>>) = <<>>
<1>1. /\ ErrorAtEnd(<<>>, FALSE) /\ NoError(<<>>) /\ SaidOf(t, <<>>)
      /\ <<>> \in Seq(Lines) /\ <<>> \in Seq(Calls) /\ Len(<<>>) = 0
  BY DEF ErrorAtEnd, NoError, SaidOf
<1>2. <<>> \o <<>> = <<>>
  BY <1>1, ConcatEmptySeq
<1>3. (\A k : Numbered(<<>>, k)) /\ (\A K : Num(<<>>, K, 0) = 0)
  BY <1>1, NumNone DEF Numbered
<1>4. /\ One(0 > 0) = 0 /\ One("none" \in Reported) = 0 /\ One("none" = "success") = 0
      /\ "none" \notin Failing
  BY DEF One, Reported, Failing
<1>5. Intervals(t, 0) = <<>>
  BY IntervalsNext
<1>6. OnlyErrors(<<>>) = <<>>
  BY <1>1, OnlyErrorsAre
<1> QED BY <1>1, <1>2, <1>3, <1>4, <1>5, <1>6

LEMMA InitHolds == Init => CmdInv
<1> SUFFICES ASSUME Init PROVE CmdInv
  OBVIOUS
<1>1. NoTest \in TestTypes
  BY DEF NoTest, TestTypes
<1>2. MaxIntervals \in Nat /\ PipeCap \in Nat
  BY CmdAssumption
<1>3. TypeOK
  <2>1. /\ parallels \in Nat /\ isDown \in BOOLEAN /\ titleCnt \in Nat
        /\ pc \in [Execs -> ExecPC] /\ test \in [Execs -> TestTypes]
        /\ proc \in [Execs -> {"none", "connected", "running", "exiting", "exited"}]
        /\ end \in [Execs -> {"none", "success", "terminated", "failed", "badargs"}]
        /\ mixed \subseteq Execs
    BY <1>1 DEF Init, ExecPC
  <2>2. gathered \in [Execs -> 0..(MaxIntervals + 1)]
    BY <1>2 DEF Init
  <2>3. \A e \in Execs : Len(out[e]) <= PipeCap /\ Len(err[e]) <= PipeCap
    BY <1>2 DEF Init
  <2> QED BY <2>1, <2>2, <2>3 DEF TypeOK
<1>4. DataTypes
  <2>1. <<>> \in Seq(Lines) /\ <<>> \in Seq(Calls)
    BY <1>1, Nothing
  <2> QED BY <2>1 DEF Init, DataTypes
<1>5. ASSUME NEW e \in Execs PROVE ExecInv(e)
  <2>1. /\ pc[e] = "idle" /\ test[e] = NoTest /\ proc[e] = "none" /\ end[e] = "none"
        /\ gathered[e] = 0 /\ toOut[e] = <<>> /\ toErr[e] = <<>> /\ out[e] = <<>>
        /\ err[e] = <<>> /\ cmd[e] = <<>> /\ jni[e] = <<>>
    BY DEF Init
  <2> DEFINE t == test[e]
  <2>2. t \in TestTypes
    BY <1>1, <2>1
  <2>3. ToCome(e) = <<>> /\ ~Alone(e)
    BY <2>1, <2>2, Nothing DEF ToCome, Alone, Active
  <2>4. InStep(e)
    BY <1>2, <2>1 DEF InStep
  <2>5. ErrorLast(e) /\ SaidOf(test[e], ToCome(e))
    <3>1. /\ ErrorAtEnd(<<>>, FALSE) /\ NoError(<<>>) /\ SaidOf(t, <<>>)
      BY <2>2, Nothing
    <3>2. end[e] \notin Failing
      BY <2>1 DEF Failing
    <3> QED BY <2>1, <2>3, <3>1, <3>2 DEF ErrorLast, ErrorAtEnd
  <2>6. Owns(e) /\ Titled(e)
    BY <2>3 DEF Owns, Titled
  <2>7. AllRight(e)
    BY <2>1, Nothing DEF AllRight
  <2>8. Counted(e) /\ Told(e)
    <3>1. \A K : Num(<<>>, K, 0) = 0
      BY NumNone
    <3>2. Found(e) = 0 /\ FoundResults(e) = 0
      BY <2>1, <2>3, <3>1 DEF Found, FoundResults, Left, One
    <3>3. <<>> \o <<>> = <<>> /\ Intervals(t, 0) = <<>>
      BY <2>2, Nothing
    <3>4. /\ If(FoundResults(e) = 1, <<ResultCall(t)>>) = <<>>
          /\ If(end[e] = "success", SummaryCalls(t)) = <<>>
      BY <2>1, <3>2 DEF If
    <3>5. /\ <<>> = Intervals(t, Found(e)) \o If(FoundResults(e) = 1, <<ResultCall(t)>>)
          /\ <<>> = Intervals(t, gathered[e]) \o If(end[e] = "success", SummaryCalls(t))
      BY <2>1, <3>2, <3>3, <3>4, Zenon
    <3>6. Counted(e)
      BY <2>1, <3>2, <3>5 DEF Counted
    <3>7. Told(e)
      BY <2>1, <3>5 DEF Told
    <3> QED BY <3>6, <3>7
  <2> QED BY <2>4, <2>5, <2>6, <2>7, <2>8 DEF ExecInv
<1> QED BY <1>3, <1>4, <1>5 DEF CmdInv

LEMMA StartKeeps ==
  ASSUME CmdInv, NEW e \in Execs, NEW t \in Tests[e], Start(e, t) PROVE CmdInv'
<1> DEFINE others == {f \in Execs : Active(f)}
           shared == IF others = {} THEN {} ELSE {e} \cup others
<1>1. /\ At(e, "idle") /\ isDown' = t.reverse /\ titleCnt' = 0
      /\ parallels' = (IF t.givesP THEN t.n ELSE parallels)
      /\ test' = [test EXCEPT ![e] = t] /\ proc' = [proc EXCEPT ![e] = "connected"]
      /\ pc' = [pc EXCEPT ![e] = "out"]
      /\ mixed' = mixed \cup shared
      /\ cmd' = [f \in Execs |-> IF f \in shared THEN OnlyErrors(cmd[f]) ELSE cmd[f]]
      /\ UNCHANGED <<end, gathered, toOut, toErr, jni, out, err>>
  BY DEF Start, Share, Goto
<1>2. /\ TypeOK /\ DataTypes /\ InStep(e)
  BY Values
<1>3. t \in TestTypes /\ t.n \in Nat /\ t.reverse \in BOOLEAN
  <2>1. t \in TestTypes
    BY CmdAssumption
  <2> QED BY <2>1 DEF TestTypes
<1>4. /\ end[e] = "none" /\ gathered[e] = 0 /\ jni[e] = <<>> /\ cmd[e] = <<>>
      /\ out[e] = <<>> /\ toOut[e] = <<>> /\ ~Active(e)
  BY <1>1, <1>2 DEF At, InStep, Active
<1>5. shared \subseteq Execs /\ \A f \in Execs \ {e} : f \in shared <=> Active(f)
  OBVIOUS
<1> HIDE DEF shared, others
<1>6. /\ pc'[e] = "out" /\ test'[e] = t /\ proc'[e] = "connected" /\ end'[e] = "none"
      /\ gathered'[e] = 0 /\ toOut'[e] = <<>> /\ out'[e] = <<>> /\ jni'[e] = <<>>
      /\ toErr'[e] = toErr[e] /\ err'[e] = err[e] /\ cmd'[e] = <<>>
  <2>1. cmd'[e] = <<>>
    BY <1>1, <1>3, <1>4, Nothing
  <2> QED BY <1>1, <1>2, <1>4, <2>1 DEF TypeOK
<1>7. ASSUME NEW f \in Execs \ {e} PROVE ExecInv(f)' /\ cmd'[f] \in Seq(Calls)
  <2>1. /\ pc'[f] = pc[f] /\ test'[f] = test[f] /\ proc'[f] = proc[f] /\ end'[f] = end[f]
        /\ gathered'[f] = gathered[f] /\ toOut'[f] = toOut[f] /\ toErr'[f] = toErr[f]
        /\ out'[f] = out[f] /\ err'[f] = err[f] /\ jni'[f] = jni[f]
    BY <1>1, <1>2 DEF TypeOK
  <2>2. ExecInv(f) /\ cmd[f] \in Seq(Calls)
    BY Values
  <2>3. CASE f \in shared
    <3>1. cmd'[f] = OnlyErrors(cmd[f]) /\ f \in mixed'
      BY <1>1, <2>3
    <3> QED BY <1>2, <2>1, <2>2, <3>1, Shared
  <2>4. CASE f \notin shared
    <3>1. cmd'[f] = cmd[f] /\ (f \in mixed <=> f \in mixed') /\ ~Alone(f)
      BY <1>1, <1>5, <2>4 DEF Alone
    <3> QED BY <2>1, <2>2, <3>1, Frame
  <2> QED BY <2>3, <2>4
<1>8. TypeOK'
  <2>1. parallels' \in Nat /\ isDown' \in BOOLEAN /\ titleCnt' \in Nat
    BY <1>1, <1>2, <1>3 DEF TypeOK
  <2>2. /\ pc' \in [Execs -> ExecPC] /\ test' \in [Execs -> TestTypes]
        /\ proc' \in [Execs -> {"none", "connected", "running", "exiting", "exited"}]
    BY <1>1, <1>2, <1>3 DEF TypeOK, ExecPC
  <2>3. mixed' \subseteq Execs
    BY <1>1, <1>2, <1>5 DEF TypeOK
  <2> QED BY <1>1, <1>2, <2>1, <2>2, <2>3 DEF TypeOK
<1>9. DataTypes'
  <2>1. \A f \in Execs : cmd'[f] \in Seq(Calls)
    BY <1>3, <1>6, <1>7, Nothing
  <2>2. cmd' \in [Execs -> Seq(Calls)]
    <3>1. cmd' = [f \in Execs |-> cmd'[f]]
      BY <1>1
    <3> QED BY <2>1, <3>1
  <2> QED BY <1>1, <1>2, <2>2 DEF DataTypes
<1>10. ExecInv(e)'
  <2>1. ToCome(e)' = <<>>
    BY <1>3, <1>6, Nothing DEF ToCome
  <2>2. InStep(e)'
    BY <1>2, <1>6 DEF InStep
  <2>3. ErrorLast(e)' /\ SaidOf(test[e], ToCome(e))'
    <3>1. /\ ErrorAtEnd(<<>>, FALSE) /\ NoError(<<>>) /\ SaidOf(t, <<>>)
      BY <1>3, Nothing
    <3>2. (end[e] \in Failing)' = FALSE
      BY <1>6 DEF Failing
    <3> QED BY <1>6, <2>1, <3>1, <3>2 DEF ErrorLast, ErrorAtEnd
  <2>4. Owns(e)'
    <3> SUFFICES ASSUME Alone(e)'
                 PROVE  /\ \A f \in Execs \ {e} : ~Active(f)'
                        /\ isDown' = t.reverse /\ (t.givesP => parallels' = t.n)
      BY <1>6 DEF Owns
    <3>1. e \notin shared
      BY <1>1 DEF Alone
    <3>2. others = {}
      BY <3>1 DEF shared
    <3>3. \A f \in Execs \ {e} : ~Active(f)'
      BY <1>1, <1>2, <3>2 DEF others, Active, TypeOK
    <3> QED BY <1>1, <3>3
  <2>5. Titled(e)'
    <3>1. Left(e, Titles)' = 0
      BY <1>3, <2>1, Nothing DEF Left
    <3> QED BY <1>1, <1>3, <1>6, <2>1, <3>1, Nothing DEF Titled
  <2>6. AllRight(e)'
    BY <1>6 DEF AllRight
  <2>7. Found(e)' = 0 /\ FoundResults(e)' = 0
    <3>1. \A K : Num(<<>>, K, 0) = 0
      BY NumNone
    <3> QED BY <1>6, <2>1, <3>1 DEF Found, FoundResults, Left, One
  <2>8. Counted(e)' /\ Told(e)'
    <3>1. <<>> \o <<>> = <<>> /\ Intervals(t, 0) = <<>>
      BY <1>3, Nothing
    <3>2. /\ If(FoundResults(e)' = 1, <<ResultCall(t)>>) = <<>>
          /\ If(end'[e] = "success", SummaryCalls(t)) = <<>>
      BY <1>6, <2>7 DEF If
    <3>3. /\ <<>> = Intervals(t, Found(e)') \o If(FoundResults(e)' = 1, <<ResultCall(t)>>)
          /\ <<>> = Intervals(t, gathered'[e]) \o If(end'[e] = "success", SummaryCalls(t))
      BY <1>6, <2>7, <3>1, <3>2, Zenon
    <3>4. Counted(e)'
      BY <1>6, <2>7, <3>3 DEF Counted
    <3>5. Told(e)'
      BY <1>6, <3>3 DEF Told
    <3> QED BY <3>4, <3>5
  <2> QED BY <2>2, <2>3, <2>4, <2>5, <2>6, <2>8 DEF ExecInv
<1> QED BY <1>7, <1>8, <1>9, <1>10 DEF CmdInv

-----------------------------------------------------------------------------
(* The invariant holds *)

\* Every step of the process of an exec, of its wrapper, or of another start.
LEMMA NextKeeps == CmdInv /\ [Next]_vars => CmdInv'
<1> SUFFICES ASSUME CmdInv, [Next]_vars PROVE CmdInv'
  OBVIOUS
<1>1. CASE UNCHANGED vars
  <2>1. TypeOK' /\ DataTypes'
    BY <1>1 DEF vars, fieldVars, procVars, CmdInv, TypeOK, DataTypes
  <2>2. ASSUME NEW e \in Execs PROVE ExecInv(e)'
    <3>1. \A f \in Execs : ExecInv(f)
      BY DEF CmdInv
    <3>2. Others(e) /\ UNCHANGED fieldVars
      BY <1>1 DEF vars, procVars, Others
    <3>3. ToCome(e)' = ToCome(e) /\ (Active(e)' => Active(e)) /\ InStep(e)'
      BY <1>1, Values DEF vars, procVars, ToCome, Active, InStep
    <3> QED BY <1>1, <3>1, <3>2, <3>3, Move DEF vars, procVars
  <2> QED BY <2>1, <2>2 DEF CmdInv
<1>2. ASSUME NEW e \in Execs, ProcessStep(e) PROVE CmdInv'
  <2>1. CASE StartRunning(e)
    BY <2>1, StartRunningKeeps
  <2>2. CASE PrintInterval(e)
    BY <2>2, PrintIntervalKeeps
  <2>3. CASE Succeed(e)
    BY <2>3, SucceedKeeps
  <2>4. CASE Terminated(e)
    BY <2>4, TerminatedKeeps
  <2>5. CASE Fail(e)
    BY <2>5, FailKeeps
  <2>6. CASE BadArguments(e)
    BY <2>6, BadArgumentsKeeps
  <2>7. CASE WriteOut(e)
    BY <2>7, WriteOutKeeps
  <2>8. CASE WriteErr(e)
    BY <2>8, WriteErrKeeps
  <2>9. CASE ProcessExits(e)
    BY <2>9, ProcessExitsKeeps
  <2> QED BY <1>2, <2>1, <2>2, <2>3, <2>4, <2>5, <2>6, <2>7, <2>8, <2>9 DEF ProcessStep
<1>3. ASSUME NEW e \in Execs, WrapperStep(e) PROVE CmdInv'
  <2>1. CASE ReadOut(e)
    BY <2>1, ReadOutKeeps
  <2>2. CASE ReadErr(e)
    BY <2>2, ReadErrKeeps
  <2>3. CASE EndOfOut(e) \/ EndOfErr(e) \/ Finish(e)
    BY <2>3, EndsKeep
  <2> QED BY <1>3, <2>1, <2>2, <2>3 DEF WrapperStep
<1>4. ASSUME NEW e \in Execs, NEW t \in Tests[e], Start(e, t) PROVE CmdInv'
  BY <1>4, StartKeeps
<1> QED BY <1>1, <1>2, <1>3, <1>4 DEF Next

LEMMA CmdInvHolds == Spec => []CmdInv
<1>1. Init => CmdInv
  BY InitHolds
<1>2. CmdInv /\ [Next]_vars => CmdInv'
  BY NextKeeps
<1> QED BY <1>1, <1>2, PTL DEF Spec

-----------------------------------------------------------------------------
(* Theorems *)

\* The state of the object, of its execs, and of the processes that they run
\* has the types of the model; in particular no pipe holds more lines than it
\* can, and no process gathers an interval after its last one.
THEOREM CmdTypeCorrect == Spec => []TypeOK
<1>1. CmdInv => TypeOK
  BY DEF CmdInv
<1> QED BY <1>1, CmdInvHolds, PTL

\* Iperf3Cmd.parseToCallback: whatever the test, the lines the pipe lets through
\* at a time and the other execs on the same object, the onError of a running
\* client that fails is made once, and after every other callback.
THEOREM CmdFailureReported == Spec => []FailureReported
<1>1. CmdInv => FailureReported
  <2> SUFFICES ASSUME CmdInv, NEW e \in Execs, Done(e, "failed") \/ Done(e, "terminated")
               PROVE  /\ cmd[e] # <<>> /\ cmd[e][Len(cmd[e])] = Error
                      /\ Count(cmd[e], "onError") = 1
    BY DEF FailureReported
  <2>1. DataTypes /\ ExecInv(e) /\ cmd[e] \in Seq(Calls)
    BY Values
  <2>2. end[e] \in Failing /\ pc[e] = "done"
    BY DEF Done, At, Failing
  <2>3. ToCome(e) = <<>>
    <3>1. out[e] = <<>> /\ toOut[e] = <<>>
      BY <2>1, <2>2 DEF ExecInv, InStep
    <3> QED BY <3>1, EmptySeq, ConcatEmptySeq DEF ToCome
  <2>4. EndsInError(cmd[e])
    BY <2>1, <2>2, <2>3 DEF ExecInv, ErrorLast
  <2> QED BY <2>1, <2>4, OnlyErrorsAre DEF EndsInError
<1> QED BY <1>1, CmdInvHolds, PTL

\* Iperf3Cmd.isInterval and isResult: the count of titles tells the lines of
\* the intervals from those of the summary, and the end of a line which end of
\* the connection it is of, for every number of streams and of intervals.
THEOREM CmdClassifiedRight == Spec => []ClassifiedRight
<1>1. CmdInv => ClassifiedRight
  <2> SUFFICES ASSUME CmdInv, NEW e \in Execs, NEW i \in DOMAIN cmd[e],
                      e \notin mixed, ~(end[e] = "terminated" /\ gathered[e] <= 1)
               PROVE  LET c == cmd[e][i] IN
                        /\ c.call = "onInterval" => c.of = "interval"
                        /\ c.call = "onResult" =>
                             c.of = Local(test[e])
                               \/ (test[e].udp /\ test[e].reverse /\ c.of = "sent")
    BY DEF ClassifiedRight
  <2>1. ExecInv(e) /\ cmd[e] \in Seq(Calls)
    BY Values
  <2>2. i \in 1..Len(cmd[e])
    BY <2>1, LenProperties
  <2>3. Right(test[e], cmd[e][i])
    BY <2>1, <2>2 DEF ExecInv, AllRight, Odd
  <2> QED BY <2>3 DEF Right, Own, Local
<1> QED BY <1>1, CmdInvHolds, PTL

\* The calls of a test that succeeded, with the object to itself.
LEMMA SuccessCalls ==
  ASSUME CmdInv, NEW e \in Execs, Plain(e), Done(e, "success")
  PROVE  LET t == test[e]
             g == gathered[e]
         IN /\ t \in TestTypes /\ g \in Nat
            /\ cmd[e] = Intervals(t, g) \o <<ResultCall(t)>>
            /\ jni[e] = Intervals(t, g) \o SummaryCalls(t)
<1> DEFINE t == test[e]
           g == gathered[e]
<1>1. DataTypes /\ ExecInv(e) /\ t \in TestTypes /\ g \in Nat
  BY Values
<1>2. end[e] = "success" /\ pc[e] = "done"
  BY DEF Done, At
<1>3. ToCome(e) = <<>>
  <2>1. out[e] = <<>> /\ toOut[e] = <<>>
    BY <1>1, <1>2 DEF ExecInv, InStep
  <2> QED BY <2>1, EmptySeq, ConcatEmptySeq DEF ToCome
<1>4. Found(e) = g /\ FoundResults(e) = 1
  <2>1. \A K : Num(<<>>, K, 0) = 0
    BY NumNone
  <2> QED BY <1>1, <1>2, <1>3, <2>1 DEF Found, FoundResults, Left, One
<1>5. /\ cmd[e] = Intervals(t, Found(e)) \o If(FoundResults(e) = 1, <<ResultCall(t)>>)
      /\ jni[e] = Intervals(t, g) \o If(end[e] = "success", SummaryCalls(t))
  BY <1>1, <1>2 DEF ExecInv, Counted, Told
<1>6. /\ If(FoundResults(e) = 1, <<ResultCall(t)>>) = <<ResultCall(t)>>
      /\ If(end[e] = "success", SummaryCalls(t)) = SummaryCalls(t)
  BY <1>2, <1>4 DEF If
<1> QED BY <1>1, <1>4, <1>5, <1>6, Zenon

\* A test of a shape that the regular expressions of Iperf3Cmd know (-P given,
\* below 100 seconds, every bandwidth in Mbits/sec, as -f m prints them), with the
\* object to itself: as many onInterval as intervals were gathered and then one
\* onResult, for every number of streams and intervals.
THEOREM CmdOneResult == Spec => []OneResult
<1>1. CmdInv => OneResult
  <2> SUFFICES ASSUME CmdInv, NEW e \in Execs, Plain(e), Done(e, "success")
               PROVE  /\ Len(cmd[e]) = gathered[e] + 1
                      /\ \A i \in 1..gathered[e] : cmd[e][i].call = "onInterval"
                      /\ cmd[e][gathered[e] + 1].call = "onResult"
    BY DEF OneResult
  <2> DEFINE t == test[e]
             g == gathered[e]
             s == Intervals(t, g)
             c == ResultCall(t)
             k == cmd[e]
  <2>1. t \in TestTypes /\ g \in Nat /\ k = s \o <<c>>
    BY SuccessCalls
  <2>2. s \in Seq(Calls) /\ Len(s) = g /\ s = [i \in 1..g |-> IntervalCall(t)]
    BY <2>1, IntervalsNext DEF Intervals
  <2>3. /\ c \in Calls /\ c.call = "onResult" /\ IntervalCall(t).call = "onInterval"
    BY <2>1, CallsType
  <2> HIDE DEF t, g, s, c, k
  <2>4. /\ Len(k) = g + 1 /\ (\A i \in 1..g : k[i] = s[i]) /\ k[g + 1] = c
    BY <2>1, <2>2, <2>3, CallAppended
  <2>5. \A i \in 1..g : k[i].call = "onInterval"
    BY <2>2, <2>3, <2>4
  <2> QED BY <2>3, <2>4, <2>5 DEF g, k
<1> QED BY <1>1, CmdInvHolds, PTL

\* The callbacks of iperf3_java_callback.c and those of Iperf3Cmd, of the same
\* TCP test that succeeds and whose lines REPORT_PATTERN matches, so with every
\* bandwidth in Mbits/sec: the same, but for the result of the other end that a
\* reverse test with retransmits and one stream has through JNI.
THEOREM CmdSameEitherWay == Spec => []SameEitherWay
<1>1. CmdInv => SameEitherWay
  <2> SUFFICES ASSUME CmdInv, NEW e \in Execs, Plain(e), Done(e, "success"), ~test[e].udp
               PROVE  IF Extra(e)
                        THEN jni[e] = SubSeq(cmd[e], 1, Len(cmd[e]) - 1)
                               \o <<Call("onResult", FALSE, "sent"), cmd[e][Len(cmd[e])]>>
                        ELSE jni[e] = cmd[e]
    BY DEF SameEitherWay
  <2> DEFINE t == test[e]
             g == gathered[e]
             s == Intervals(t, g)
             c == ResultCall(t)
             k == cmd[e]
             x == Call("onResult", FALSE, "sent")
  <2>1. t \in TestTypes /\ g \in Nat /\ k = s \o <<c>> /\ jni[e] = s \o SummaryCalls(t)
    BY SuccessCalls
  <2>2. SummaryCalls(t) = IF Extra(e) THEN <<x>> \o <<c>> ELSE <<c>>
    BY <2>1, FinalCallsAre DEF Extra
  <2>3. s \in Seq(Calls) /\ Len(s) = g /\ c \in Calls
    BY <2>1, IntervalsNext, CallsType
  <2> HIDE DEF t, g, s, c, k, x
  <2>4. CASE ~Extra(e)
    BY <2>1, <2>2, <2>4, Zenon DEF k
  <2>5. CASE Extra(e)
    <3>1. Len(k) = g + 1 /\ k[g + 1] = c /\ k \in Seq(Calls) /\ \A i \in 1..g : k[i] = s[i]
      BY <2>1, <2>3, CallAppended
    <3>2. SubSeq(k, 1, g) = s
      <4> DEFINE p == SubSeq(k, 1, g)
      <4>1. /\ p \in Seq(Calls) /\ Len(p) = g /\ \A i \in 1..g : p[i] = k[i]
        BY <2>1, <3>1, Cut
      <4> HIDE DEF p
      <4>2. p = s
        BY <2>3, <3>1, <4>1, SeqEqual
      <4> QED BY <4>2 DEF p
    <3>3. <<x, c>> = <<x>> \o <<c>>
      BY TwoLines
    <3>4. Len(k) - 1 = g /\ k[Len(k)] = c
      BY <2>1, <3>1
    <3>5. jni[e] = SubSeq(k, 1, Len(k) - 1) \o <<x, k[Len(k)]>>
      BY <2>1, <2>2, <2>5, <3>2, <3>3, <3>4, Zenon
    <3> QED BY <2>5, <3>5, Zenon DEF k, x
  <2> QED BY <2>4, <2>5
<1> QED BY <1>1, CmdInvHolds, PTL
=============================================================================
