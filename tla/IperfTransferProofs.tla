------------------------ MODULE IperfTransferProofs ------------------------
EXTENDS IperfTransfer, WellFoundedInduction, FiniteSetTheorems, TLAPS

-----------------------------------------------------------------------------
(* Induction, with a set in the place of a predicate *)

LEMMA LessThanWellFounded ==
  IsWellFoundedOn({ss \in Nat \X Nat : ss[1] < ss[2]}, Nat)
BY NatLessThanWellFounded, Zenon DEF OpToRel

LEMMA NatSetInduction ==
  ASSUME NEW S, 0 \in S, \A n \in Nat : n \in S => n + 1 \in S
  PROVE  Nat \subseteq S
<1>1. SUFFICES ASSUME Nat \ S # {} PROVE FALSE
  OBVIOUS
<1> DEFINE R == {ss \in Nat \X Nat : ss[1] < ss[2]}
<1>2. IsWellFoundedOn(R, Nat)
  BY LessThanWellFounded
<1> HIDE DEF R
<1>3. PICK x \in Nat \ S : \A y \in Nat \ S : ~(<<y, x>> \in R)
  BY <1>1, <1>2, WFMin
<1>4. x # 0 /\ x - 1 \in Nat /\ x - 1 < x
  BY <1>3
<1>5. x - 1 \in S
  BY <1>3, <1>4 DEF R
<1> QED BY <1>4, <1>5

\* The maximum by which FoldLeft goes through a sequence.
LEMMA MaxOfRange ==
  \A n \in Nat : \A s \in SUBSET (1..n) :
    s # {} => Max(s) \in s /\ \A y \in s : y <= Max(s)
<1> DEFINE S == {k \in Nat : \A t \in SUBSET (1..k) :
                    t # {} => \E x \in t : \A y \in t : x >= y}
<1>1. 0 \in S
  <2>1. 1..0 = {}
    OBVIOUS
  <2> QED BY <2>1
<1>2. \A k \in Nat : k \in S => k + 1 \in S
  <2> SUFFICES ASSUME NEW k \in Nat, k \in S, NEW t \in SUBSET (1..(k + 1)), t # {}
               PROVE  \E x \in t : \A y \in t : x >= y
    OBVIOUS
  <2>1. CASE k + 1 \in t
    BY <2>1
  <2>2. CASE k + 1 \notin t
    <3>1. t \in SUBSET (1..k)
      BY <2>2
    <3> QED BY <3>1
  <2> QED BY <2>1, <2>2
<1>3. Nat \subseteq S
  <2> HIDE DEF S
  <2> QED BY <1>1, <1>2, NatSetInduction
<1> SUFFICES ASSUME NEW n \in Nat, NEW s \in SUBSET (1..n), s # {}
             PROVE  Max(s) \in s /\ \A y \in s : y <= Max(s)
  OBVIOUS
<1>4. n \in S
  BY <1>3
<1>5. \E x \in s : \A y \in s : x >= y
  BY <1>4
<1>6. Max(s) \in s /\ \A y \in s : Max(s) >= y
  BY <1>5 DEF Max
<1> DEFINE m == Max(s)
<1>7. m \in s /\ \A y \in s : m >= y
  BY <1>6
<1> HIDE DEF m, S
<1>8. \A y \in s : y <= m
  BY <1>7
<1> QED BY <1>7, <1>8 DEF m

\* The step of a fold from the first i elements to the first i - 1.
LEMMA LastOfRange ==
  ASSUME NEW n \in Nat, NEW i \in 1..n
  PROVE  /\ 1..i \in SUBSET (1..n) /\ 1..i # {}
         /\ Max(1..i) = i /\ (1..i) \ {i} = 1..(i - 1)
<1>1. 1..i \in SUBSET (1..n) /\ 1..i # {}
  OBVIOUS
<1>2. Max(1..i) \in 1..i /\ \A y \in 1..i : y <= Max(1..i)
  BY <1>1, MaxOfRange
<1>3. Max(1..i) = i
  BY <1>2
<1> QED BY <1>1, <1>3

LEMMA WithoutLast ==
  ASSUME NEW k \in Nat, NEW s \in SUBSET (1..(k + 1)), s # {}
  PROVE  s \ {Max(s)} \in SUBSET (1..k)
<1>1. k + 1 \in Nat
  OBVIOUS
<1>2. Max(s) \in s /\ \A y \in s : y <= Max(s)
  BY <1>1, MaxOfRange
<1> DEFINE m == Max(s)
<1>3. m \in s /\ \A y \in s : y <= m
  BY <1>2
<1> HIDE DEF m
<1>4. \A y \in s : y # m => y \in 1..k
  BY <1>3
<1>5. s \ {m} \in SUBSET (1..k)
  BY <1>4
<1> QED BY <1>5 DEF m

-----------------------------------------------------------------------------
(* The arguments are parsed one after the other *)

Parsed(args, full) == FoldLeft(LAMBDA q, a : ParseOption(q, a, full), Nothing, args)

LEMMA ParseSteps ==
  ASSUME NEW n \in Nat, NEW args, DOMAIN args = 1..n, NEW full
  PROVE  \E g : /\ g[0] = Nothing
                /\ \A i \in 1..n : g[i] = ParseOption(g[i - 1], args[i], full)
                /\ Parsed(args, full) = g[n]
<1> DEFINE Body(it, s) == IF s = {} THEN Nothing
                          ELSE ParseOption(it[s \ {Max(s)}], args[Max(s)], full)
           Is(it, D) == it = [s \in SUBSET D |-> Body(it, s)]
           S == {k \in Nat : \E it : Is(it, 1..k)}
<1>1. 0 \in S
  <2> DEFINE it == [s \in SUBSET (1..0) |-> Nothing]
  <2>1. \A s \in SUBSET (1..0) : Body(it, s) = Nothing
    OBVIOUS
  <2>2. Is(it, 1..0)
    BY <2>1
  <2> QED BY <2>2
<1>2. ASSUME NEW k \in Nat, k \in S PROVE k + 1 \in S
  <2>1. PICK it : Is(it, 1..k)
    BY <1>2
  <2> DEFINE jt == [s \in SUBSET (1..(k + 1)) |-> Body(it, s)]
  <2>2. ASSUME NEW s \in SUBSET (1..(k + 1)) PROVE Body(jt, s) = Body(it, s)
    <3>1. CASE s = {}
      BY <3>1
    <3>2. CASE s # {}
      <4> DEFINE r == s \ {Max(s)}
      <4>1. r \in SUBSET (1..k)
        BY <3>2, WithoutLast
      <4>2. r \in SUBSET (1..(k + 1))
        OBVIOUS
      <4> HIDE DEF r
      <4>3. it[r] = Body(it, r)
        BY <4>1, <2>1
      <4>4. jt[r] = Body(it, r)
        BY <4>2
      <4> QED BY <4>3, <4>4 DEF r
    <3> QED BY <3>1, <3>2
  <2>3. Is(jt, 1..(k + 1))
    BY <2>2
  <2>4. k + 1 \in Nat
    OBVIOUS
  <2>5. \E lt : Is(lt, 1..(k + 1))
    BY <2>3
  <2> QED BY <2>4, <2>5
<1>3. n \in S
  <2> HIDE DEF S
  <2> QED BY <1>1, <1>2, NatSetInduction
<1>4. PICK jt : Is(jt, 1..n)
  BY <1>3
<1> DEFINE it == CHOOSE it : Is(it, DOMAIN args)
<1>5. Is(it, DOMAIN args)
  BY <1>4
<1>6. Parsed(args, full) = it[DOMAIN args]
  BY DEF Parsed, FoldLeft, MapThenFoldSet
<1> DEFINE g == [i \in 0..n |-> it[1..i]]
<1>7. ASSUME NEW i \in 1..n PROVE g[i] = ParseOption(g[i - 1], args[i], full)
  <2>a. 1..i \in SUBSET DOMAIN args
    BY LastOfRange
  <2>1. it[1..i] = Body(it, 1..i)
    BY <1>5, <2>a
  <2>2. it[1..i] = ParseOption(it[1..(i - 1)], args[i], full)
    BY <2>1, LastOfRange
  <2> QED BY <2>2
<1>8. g[0] = Nothing
  <2>1. {} \in SUBSET DOMAIN args /\ 1..0 = {}
    OBVIOUS
  <2>2. it[{}] = Body(it, {})
    BY <1>5, <2>1
  <2> QED BY <2>1, <2>2
<1>9. Parsed(args, full) = g[n]
  BY <1>6
<1> HIDE DEF g
<1> QED BY <1>7, <1>8, <1>9

-----------------------------------------------------------------------------
(* What an argument does to a test *)

\* Retransmits are counted by a sender over TCP and by no one else.
Exact(t) == t.retrans = (t.sender /\ t.protocol = "tcp" /\ HasTcpinfoRetransmits)

\* The numbers that the code keeps unsigned or checks.
Unsigned(t) ==
  t.set["num"] \in Nat /\ t.set["blockcount"] \in Nat /\ t.set["burst"] \in 0..MAX_BURST

LEMMA OptionKeyIs ==
  /\ DOMAIN OptionKey =
        {"t", "n", "k", "P", "w", "M", "N", "S", "O", "T", "C", "L", "A", "i", "f", "B",
         "Z", "cport", "get_server_output", "udp_counters_64bit", "no_fq_socket_pacing"}
  /\ OptionKey["t"] = "time" /\ OptionKey["n"] = "num" /\ OptionKey["k"] = "blockcount"
  /\ OptionKey["P"] = "parallel" /\ OptionKey["w"] = "window" /\ OptionKey["M"] = "MSS"
  /\ OptionKey["N"] = "nodelay" /\ OptionKey["S"] = "TOS" /\ OptionKey["O"] = "omit"
  /\ OptionKey["T"] = "title" /\ OptionKey["C"] = "congestion"
  /\ OptionKey["L"] = "flowlabel" /\ OptionKey["A"] = "server_affinity"
  /\ OptionKey["i"] = "interval" /\ OptionKey["f"] = "unit_format"
  /\ OptionKey["B"] = "bind_address" /\ OptionKey["Z"] = "zerocopy"
  /\ OptionKey["cport"] = "bind_port"
  /\ OptionKey["get_server_output"] = "get_server_output"
  /\ OptionKey["udp_counters_64bit"] = "udp_counters_64bit"
  /\ OptionKey["no_fq_socket_pacing"] = "no_fq_socket_pacing"
BY DEF OptionKey

LEMMA KeysAre ==
  /\ {"time", "num", "blockcount", "parallel", "omit", "burst", "bandwidth", "len"}
       \subseteq WireKeys
  /\ WireKeys \subseteq Keys /\ LocalKeys \cap WireKeys = {}
  /\ Always \subseteq WireKeys
BY OptionKeyIs DEF WireKeys, Keys, LocalKeys, Range, Always

LEMMA OptionKeys ==
  /\ \A o \in DOMAIN OptionKey :
       /\ OptionKey[o] = "num" => o = "n"
       /\ OptionKey[o] = "blockcount" => o = "k"
       /\ OptionKey[o] # "burst"
  /\ \A o \in {"s", "c", "u", "R", "b"} : o \notin DOMAIN OptionKey
BY OptionKeyIs

LEMMA Defaults ==
  /\ \A k : Default(k) \in Int
  /\ Default("num") = 0 /\ Default("blockcount") = 0 /\ Default("burst") = 0
BY DEF Default, DURATION, DEFAULT_TCP_BLKSIZE

LEMMA Checked ==
  ASSUME NEW t \in TestType
  PROVE  /\ check_sender_has_retransmits(t) \in TestType
         /\ Exact(check_sender_has_retransmits(t))
         /\ \A f \in {"role", "protocol", "sender", "reverse", "set"} :
              check_sender_has_retransmits(t)[f] = t[f]
BY OptionsAssumption DEF check_sender_has_retransmits, TestType, Exact

LEMMA SetRole ==
  ASSUME NEW t \in TestType, NEW r \in {"s", "c"}
  PROVE  LET u == set_test_role(t, r) IN
           /\ u \in TestType /\ Exact(u)
           /\ u.role = r /\ u.sender = Xor(r = "c", t.reverse)
           /\ u.protocol = t.protocol /\ u.reverse = t.reverse /\ u.set = t.set
<1> DEFINE v == [t EXCEPT !.role = r, !.sender = Xor(r = "c", t.reverse)]
<1>1. v \in TestType /\ v.role = r /\ v.sender = Xor(r = "c", t.reverse)
      /\ v.protocol = t.protocol /\ v.reverse = t.reverse /\ v.set = t.set
  BY DEF TestType, Xor
<1>2. set_test_role(t, r) = check_sender_has_retransmits(v)
  BY DEF set_test_role
<1> HIDE DEF v
<1> QED BY <1>1, <1>2, Checked

LEMMA SetReverse ==
  ASSUME NEW t \in TestType
  PROVE  LET u == set_test_reverse(t) IN
           /\ u \in TestType /\ Exact(u)
           /\ u.role = t.role /\ u.sender = ~t.sender
           /\ u.protocol = t.protocol /\ u.reverse = TRUE /\ u.set = t.set
<1> DEFINE v == [t EXCEPT !.reverse = TRUE, !.sender = ~@]
<1>1. v \in TestType /\ v.role = t.role /\ v.sender = ~t.sender
      /\ v.protocol = t.protocol /\ v.reverse = TRUE /\ v.set = t.set
  BY DEF TestType
<1>2. set_test_reverse(t) = check_sender_has_retransmits(v)
  BY DEF set_test_reverse
<1> HIDE DEF v
<1> QED BY <1>1, <1>2, Checked

LEMMA SetProtocol ==
  ASSUME NEW t \in TestType, NEW p \in {"tcp", "udp"}
  PROVE  LET u == set_protocol(t, p) IN
           /\ u \in TestType /\ Exact(u)
           /\ u.role = t.role /\ u.sender = t.sender
           /\ u.protocol = p /\ u.reverse = t.reverse /\ u.set = t.set
<1> DEFINE v == [t EXCEPT !.protocol = p]
<1>1. v \in TestType /\ v.role = t.role /\ v.sender = t.sender
      /\ v.protocol = p /\ v.reverse = t.reverse /\ v.set = t.set
  BY DEF TestType
<1>2. set_protocol(t, p) = check_sender_has_retransmits(v)
  BY DEF set_protocol
<1> HIDE DEF v
<1> QED BY <1>1, <1>2, Checked

\* u is t with one value set.
WithValue(t, k, v, u) ==
  /\ u \in TestType
  /\ \A f \in {"role", "protocol", "sender", "reverse", "retrans"} : u[f] = t[f]
  /\ Exact(u) = Exact(t)
  /\ \A x \in Keys : u.set[x] = IF x = k THEN v ELSE t.set[x]

LEMMA SetValue ==
  ASSUME NEW t \in TestType, NEW k, NEW v \in Int
  PROVE  WithValue(t, k, v, [t EXCEPT !.set[k] = v])
<1> DEFINE u == [t EXCEPT !.set[k] = v]
<1>1. /\ u \in TestType
      /\ \A f \in {"role", "protocol", "sender", "reverse", "retrans"} : u[f] = t[f]
      /\ \A x \in Keys : u.set[x] = IF x = k THEN v ELSE t.set[x]
  BY DEF TestType
<1>2. Exact(u) = Exact(t)
  BY <1>1 DEF Exact
<1> QED BY <1>1, <1>2 DEF WithValue

LEMMA TakeOptionCases ==
  ASSUME NEW t, NEW a
  PROVE  /\ a.opt = "s" => TakeOption(t, a) = set_test_role(t, "s")
         /\ a.opt = "c" => TakeOption(t, a) = set_test_role(t, "c")
         /\ a.opt = "u" => TakeOption(t, a) = set_protocol(t, "udp")
         /\ a.opt = "R" => TakeOption(t, a) = set_test_reverse(t)
         /\ a.opt = "b" => TakeOption(t, a) =
              [t EXCEPT !.set["bandwidth"] = a.val,
                        !.set["burst"] = IF a.burst = NoBurst THEN @ ELSE a.burst]
         /\ a.opt \in DOMAIN OptionKey =>
              TakeOption(t, a) = [t EXCEPT !.set[OptionKey[a.opt]] = a.val]
         /\ a.opt \notin {"s", "c", "u", "R", "b"} \cup DOMAIN OptionKey =>
              TakeOption(t, a) = t
<1> \A o \in {"s", "c", "u", "R", "b"} : o \notin DOMAIN OptionKey
  BY OptionKeys
<1>1. CASE a.opt = "s"
  BY <1>1 DEF TakeOption
<1>2. CASE a.opt = "c"
  BY <1>2 DEF TakeOption
<1>3. CASE a.opt = "u"
  BY <1>3 DEF TakeOption
<1>4. CASE a.opt = "R"
  BY <1>4 DEF TakeOption
<1>5. CASE a.opt = "b"
  BY <1>5 DEF TakeOption
<1>6. CASE a.opt \in DOMAIN OptionKey
  BY <1>6 DEF TakeOption
<1>7. CASE a.opt \notin {"s", "c", "u", "R", "b"} \cup DOMAIN OptionKey
  BY <1>7 DEF TakeOption
<1> QED BY <1>1, <1>2, <1>3, <1>4, <1>5, <1>6, <1>7

\* The role and the direction after an argument.
Turned(t, a, u) ==
  /\ a.opt = "R" => u.role = t.role /\ u.reverse = TRUE /\ u.sender = ~t.sender
  /\ a.opt \in {"s", "c"} =>
       u.role = a.opt /\ u.reverse = t.reverse /\ u.sender = Xor(a.opt = "c", t.reverse)
  /\ a.opt \notin {"R", "s", "c"} =>
       u.role = t.role /\ u.reverse = t.reverse /\ u.sender = t.sender

LEMMA BurstInRange ==
  ASSUME NEW a, a.opt = "b", ~OutOfRange(a)
  PROVE  a.burst = NoBurst \/ a.burst \in 1..MAX_BURST
<1> DEFINE R == a.opt = "b" /\ a.burst # NoBurst /\ a.burst \notin 1..MAX_BURST
<1>1. R => OutOfRange(a)
  BY SMT DEF OutOfRange
<1> QED BY <1>1

LEMMA TakeOptionGood ==
  ASSUME NEW t \in TestType, NEW a \in ArgType, ~OutOfRange(a), Exact(t), Unsigned(t)
  PROVE  LET u == TakeOption(t, a) IN
           u \in TestType /\ Exact(u) /\ Unsigned(u) /\ Turned(t, a, u)
<1> DEFINE u == TakeOption(t, a)
<1> a.opt \in Options /\ a.val \in Int /\ a.burst \in Int
  BY DEF ArgType
<1>k. {"num", "blockcount", "burst", "bandwidth"} \subseteq Keys
  BY KeysAre
<1>0. ASSUME u \in TestType, u.set = t.set PROVE Unsigned(u)
  BY <1>0 DEF Unsigned
<1>1. CASE a.opt \in {"s", "c"}
  <2>1. u = set_test_role(t, a.opt)
    BY <1>1, TakeOptionCases
  <2> HIDE DEF u
  <2>2. u \in TestType /\ Exact(u) /\ u.role = a.opt
        /\ u.sender = Xor(a.opt = "c", t.reverse) /\ u.reverse = t.reverse /\ u.set = t.set
    BY <1>1, <2>1, SetRole
  <2> QED BY <1>0, <1>1, <2>2 DEF Turned, u
<1>2. CASE a.opt = "u"
  <2>1. u = set_protocol(t, "udp")
    BY <1>2, TakeOptionCases
  <2> HIDE DEF u
  <2>2. u \in TestType /\ Exact(u) /\ u.role = t.role
        /\ u.sender = t.sender /\ u.reverse = t.reverse /\ u.set = t.set
    BY <2>1, SetProtocol
  <2> QED BY <1>0, <1>2, <2>2 DEF Turned, u
<1>3. CASE a.opt = "R"
  <2>1. u = set_test_reverse(t)
    BY <1>3, TakeOptionCases
  <2> HIDE DEF u
  <2>2. u \in TestType /\ Exact(u) /\ u.role = t.role
        /\ u.sender = ~t.sender /\ u.reverse = TRUE /\ u.set = t.set
    BY <2>1, SetReverse
  <2> QED BY <1>0, <1>3, <2>2 DEF Turned, u
<1>4. CASE a.opt = "b"
  <2> DEFINE burst == IF a.burst = NoBurst THEN t.set["burst"] ELSE a.burst
             v == [t EXCEPT !.set["bandwidth"] = a.val]
             w == [v EXCEPT !.set["burst"] = burst]
  <2>1. burst \in 0..MAX_BURST /\ burst \in Int
    <3>1. MAX_BURST \in Nat
      BY SMT DEF MAX_BURST
    <3>2. a.burst = NoBurst \/ a.burst \in 1..MAX_BURST
      BY <1>4, BurstInRange
    <3> QED BY <3>1, <3>2 DEF Unsigned
  <2>2. WithValue(t, "bandwidth", a.val, v)
    BY SetValue
  <2>3. v.set["burst"] = t.set["burst"]
    BY <2>2, <1>k DEF WithValue
  <2>4. u = w
    BY <1>4, <2>3, TakeOptionCases
  <2> HIDE DEF v, burst
  <2>5. WithValue(v, "burst", burst, w)
    <3>1. v \in TestType
      BY <2>2 DEF WithValue
    <3> QED BY <2>1, <3>1, SetValue
  <2> HIDE DEF w, u
  <2>6. Unsigned(w)
    BY <2>1, <2>2, <2>5, <1>k DEF Unsigned, WithValue
  <2>7. Turned(t, a, w)
    BY <1>4, <2>2, <2>5 DEF Turned, WithValue
  <2> QED BY <2>2, <2>4, <2>5, <2>6, <2>7 DEF u, WithValue
<1>5. CASE a.opt \in DOMAIN OptionKey
  <2> DEFINE k == OptionKey[a.opt]
             w == [t EXCEPT !.set[k] = a.val]
  <2>1. u = w
    BY <1>5, TakeOptionCases
  <2>2. (k = "num" \/ k = "blockcount" => a.val \in Nat) /\ k # "burst"
    BY <1>5, OptionKeys DEF ArgType
  <2> HIDE DEF k
  <2>3. WithValue(t, k, a.val, w)
    BY SetValue
  <2> HIDE DEF w, u
  <2>4. Unsigned(w)
    BY <2>2, <2>3, <1>k DEF Unsigned, WithValue
  <2>5. a.opt \notin {"R", "s", "c"}
    BY <1>5, OptionKeys
  <2>6. Turned(t, a, w)
    BY <2>3, <2>5 DEF Turned, WithValue
  <2> QED BY <2>1, <2>3, <2>4, <2>6 DEF u, WithValue
<1>6. CASE a.opt \notin {"s", "c", "u", "R", "b"} \cup DOMAIN OptionKey
  <2>1. u = t
    BY <1>6, TakeOptionCases
  <2> HIDE DEF u
  <2> QED BY <1>6, <2>1 DEF Turned, u
<1> QED BY <1>1, <1>2, <1>3, <1>4, <1>5, <1>6

-----------------------------------------------------------------------------
(* What the arguments come to *)

ParseType == [test : TestType, seen : SUBSET Options, blksize : Int, ok : BOOLEAN]

\* -R is given once at most.
OneR(args) ==
  \A i, j \in DOMAIN args : args[i].opt = "R" /\ args[j].opt = "R" => i = j
HasR(args, n) == \E i \in 1..n : args[i].opt = "R"

\* After n arguments that are accepted.
Sound(p, args, n) ==
  p.ok =>
    /\ Exact(p.test) /\ Unsigned(p.test)
    /\ OneR(args) => /\ p.test.reverse = HasR(args, n)
                     /\ p.test.sender = Xor(p.test.role = "c", p.test.reverse)

LEMMA DefaultsTyped ==
  /\ iperf_defaults \in TestType /\ Exact(iperf_defaults) /\ Unsigned(iperf_defaults)
  /\ iperf_defaults.role = "none" /\ iperf_defaults.protocol = "tcp"
  /\ iperf_defaults.sender = FALSE /\ iperf_defaults.reverse = FALSE
  /\ \A k \in Keys : iperf_defaults.set[k] = Default(k)
<1>1. /\ iperf_defaults \in TestType
      /\ iperf_defaults.role = "none" /\ iperf_defaults.protocol = "tcp"
      /\ iperf_defaults.sender = FALSE /\ iperf_defaults.reverse = FALSE
      /\ iperf_defaults.retrans = FALSE
      /\ \A k \in Keys : iperf_defaults.set[k] = Default(k)
  BY Defaults DEF iperf_defaults, TestType
<1>2. 0 \in 0..MAX_BURST
  BY DEF MAX_BURST
<1>3. Exact(iperf_defaults)
  BY <1>1 DEF Exact
<1>4. Unsigned(iperf_defaults)
  BY <1>1, <1>2, KeysAre, Defaults DEF Unsigned
<1> QED BY <1>1, <1>3, <1>4

LEMMA NothingTyped ==
  /\ Nothing \in ParseType /\ Nothing.test = iperf_defaults /\ Nothing.ok = TRUE
BY DefaultsTyped DEF Nothing, ParseType

LEMMA ParseOptionTyped ==
  ASSUME NEW args \in Seq(ArgType), NEW n \in 1..Len(args), NEW full,
         NEW p \in ParseType, Sound(p, args, n - 1)
  PROVE  LET u == ParseOption(p, args[n], full) IN u \in ParseType /\ Sound(u, args, n)
<1> DEFINE a == args[n]
           u == ParseOption(p, a, full)
<1>1. a \in ArgType /\ a.opt \in Options /\ a.val \in Int
  <2>1. a \in ArgType
    OBVIOUS
  <2> QED BY <2>1 DEF ArgType
<1>2. CASE ~p.ok \/ RefusedOption(p, a, full)
  <2>1. u = [p EXCEPT !.ok = FALSE]
    BY <1>2 DEF ParseOption
  <2>2. u \in ParseType /\ u.ok = FALSE
    BY <2>1 DEF ParseType
  <2> QED BY <2>2 DEF Sound
<1>3. CASE p.ok /\ ~RefusedOption(p, a, full)
  <2> DEFINE t == TakeOption(p.test, a)
             b == IF a.opt = "l" THEN a.val ELSE p.blksize
  <2>1. p.test \in TestType /\ p.seen \in SUBSET Options /\ p.blksize \in Int
    BY DEF ParseType
  <2>2. ~OutOfRange(a)
    BY <1>3 DEF RefusedOption
  <2>3. Exact(p.test) /\ Unsigned(p.test)
    BY <1>3 DEF Sound
  <2>4. t \in TestType /\ Exact(t) /\ Unsigned(t) /\ Turned(p.test, a, t)
    BY <1>1, <2>1, <2>2, <2>3, TakeOptionGood
  <2>5. u = [p EXCEPT !.test = t, !.seen = p.seen \cup {a.opt}, !.blksize = b]
    BY <1>3 DEF ParseOption
  <2> HIDE DEF t, u
  <2>6. b \in Int /\ p.seen \cup {a.opt} \in SUBSET Options
    BY <1>1, <2>1
  <2> HIDE DEF b
  <2>7. u \in ParseType /\ u.test = t
    BY <2>4, <2>5, <2>6 DEF ParseType
  <2>8. ASSUME OneR(args)
        PROVE  t.reverse = HasR(args, n) /\ t.sender = Xor(t.role = "c", t.reverse)
    <3>1. p.test.reverse = HasR(args, n - 1)
          /\ p.test.sender = Xor(p.test.role = "c", p.test.reverse)
      BY <1>3, <2>8 DEF Sound
    <3>2. HasR(args, n) <=> HasR(args, n - 1) \/ a.opt = "R"
      BY DEF HasR
    <3>3. CASE a.opt = "R"
      <4>1. ~HasR(args, n - 1)
        <5>1. ASSUME NEW i \in 1..(n - 1), args[i].opt = "R" PROVE FALSE
          <6>1. i \in DOMAIN args /\ n \in DOMAIN args /\ i # n
            OBVIOUS
          <6> QED BY <2>8, <3>3, <5>1, <6>1 DEF OneR
        <5> QED BY <5>1 DEF HasR
      <4>2. t.role = p.test.role /\ t.reverse = TRUE /\ t.sender = ~p.test.sender
        BY <2>4, <3>3 DEF Turned
      <4>3. HasR(args, n) = TRUE
        BY <3>2, <3>3 DEF HasR
      <4>4. p.test.reverse = FALSE
        BY <3>1, <4>1 DEF HasR
      <4>5. t.sender = Xor(t.role = "c", t.reverse)
        BY <3>1, <4>2, <4>4 DEF Xor
      <4> QED BY <4>2, <4>3, <4>5
    <3>4. CASE a.opt # "R"
      <4>1. HasR(args, n) = HasR(args, n - 1)
        BY <3>2, <3>4 DEF HasR
      <4>2. CASE a.opt \in {"s", "c"}
        BY <2>4, <3>1, <4>1, <4>2 DEF Turned
      <4>3. CASE a.opt \notin {"s", "c"}
        BY <2>4, <3>1, <3>4, <4>1, <4>3 DEF Turned
      <4> QED BY <4>2, <4>3
    <3> QED BY <3>3, <3>4
  <2>9. Sound(u, args, n)
    BY <2>4, <2>7, <2>8 DEF Sound
  <2> QED BY <2>7, <2>9 DEF u
<1> HIDE DEF u
<1>4. p.ok \in BOOLEAN
  BY DEF ParseType
<1> QED BY <1>2, <1>3, <1>4 DEF u

LEMMA ParsedSound ==
  ASSUME NEW args \in Seq(ArgType), NEW full
  PROVE  Parsed(args, full) \in ParseType /\ Sound(Parsed(args, full), args, Len(args))
<1> DEFINE n == Len(args)
<1>1. n \in Nat /\ DOMAIN args = 1..n
  OBVIOUS
<1> HIDE DEF n
<1>2. PICK g : /\ g[0] = Nothing
               /\ \A i \in 1..n : g[i] = ParseOption(g[i - 1], args[i], full)
               /\ Parsed(args, full) = g[n]
  BY <1>1, ParseSteps
<1> DEFINE S == {i \in Nat : i <= n => g[i] \in ParseType /\ Sound(g[i], args, i)}
<1>3. 0 \in S
  <2>1. Sound(Nothing, args, 0)
    <3>1. HasR(args, 0) = FALSE
      BY DEF HasR
    <3>2. Nothing.test.sender = Xor(Nothing.test.role = "c", Nothing.test.reverse)
      BY NothingTyped, DefaultsTyped DEF Xor
    <3> QED BY <3>1, <3>2, NothingTyped, DefaultsTyped DEF Sound
  <2> QED BY <1>2, <2>1, NothingTyped
<1>4. ASSUME NEW i \in Nat, i \in S PROVE i + 1 \in S
  <2>1. CASE i + 1 <= n
    <3>1. g[i] \in ParseType /\ Sound(g[i], args, i)
      BY <1>1, <1>4, <2>1
    <3> DEFINE j == i + 1
    <3>2. j \in 1..n /\ j - 1 = i
      BY <1>1, <2>1
    <3> HIDE DEF j
    <3>3. g[j] = ParseOption(g[i], args[j], full)
      BY <1>2, <3>2
    <3>4. g[j] \in ParseType /\ Sound(g[j], args, j)
      BY <3>1, <3>2, <3>3, ParseOptionTyped DEF n
    <3> QED BY <3>4 DEF j
  <2>2. CASE ~(i + 1 <= n)
    BY <2>2
  <2> QED BY <2>1, <2>2
<1>5. n \in S
  <2> HIDE DEF S
  <2> QED BY <1>1, <1>3, <1>4, NatSetInduction
<1>6. g[n] \in ParseType /\ Sound(g[n], args, n)
  BY <1>1, <1>5
<1> QED BY <1>2, <1>6 DEF n

LEMMA SetParsed ==
  ASSUME NEW p \in ParseType, NEW k, NEW v \in Int
  PROVE  LET u == [p EXCEPT !.test.set[k] = v] IN
           u \in ParseType /\ u.ok = p.ok /\ WithValue(p.test, k, v, u.test)
<1> DEFINE t == [p.test EXCEPT !.set[k] = v]
           u == [p EXCEPT !.test.set[k] = v]
<1>1. p.test \in TestType
  BY DEF ParseType
<1>2. WithValue(p.test, k, v, t)
  BY <1>1, SetValue
<1>3. u = [p EXCEPT !.test = t]
  OBVIOUS
<1> HIDE DEF t, u
<1>4. t \in TestType
  BY <1>2 DEF WithValue
<1>5. u \in ParseType /\ u.ok = p.ok /\ u.test = t
  BY <1>3, <1>4 DEF ParseType
<1> QED BY <1>2, <1>5 DEF u

\* u is p with another duration, block size and rate.
Settles(p, len, rate, time, u) ==
  /\ u \in ParseType /\ u.ok = p.ok
  /\ \A f \in {"role", "protocol", "sender", "reverse", "retrans"} : u.test[f] = p.test[f]
  /\ Exact(u.test) = Exact(p.test)
  /\ \A k \in Keys : u.test.set[k] =
       IF k = "time" THEN time ELSE IF k = "bandwidth" THEN rate
       ELSE IF k = "len" THEN len ELSE p.test.set[k]

LEMMA Settled ==
  ASSUME NEW p \in ParseType, NEW x \in Int, NEW y \in Int, NEW z \in Int
  PROVE  Settles(p, x, y, z, [p EXCEPT !.test.set["len"] = x, !.test.set["bandwidth"] = y,
                                       !.test.set["time"] = z])
<1> DEFINE a == [p EXCEPT !.test.set["len"] = x]
           b == [a EXCEPT !.test.set["bandwidth"] = y]
           c == [b EXCEPT !.test.set["time"] = z]
           u == [p EXCEPT !.test.set["len"] = x, !.test.set["bandwidth"] = y,
                          !.test.set["time"] = z]
<1>1. u = c
  OBVIOUS
<1>2. a \in ParseType /\ a.ok = p.ok /\ WithValue(p.test, "len", x, a.test)
  BY SetParsed
<1> HIDE DEF a
<1>3. b \in ParseType /\ b.ok = a.ok /\ WithValue(a.test, "bandwidth", y, b.test)
  BY <1>2, SetParsed
<1> HIDE DEF b
<1>4. c \in ParseType /\ c.ok = b.ok /\ WithValue(b.test, "time", z, c.test)
  BY <1>3, SetParsed
<1> HIDE DEF c, u
<1>6. Exact(c.test) = Exact(p.test)
  BY <1>2, <1>3, <1>4 DEF WithValue
<1>7. \A f \in {"role", "protocol", "sender", "reverse", "retrans"} : c.test[f] = p.test[f]
  BY <1>2, <1>3, <1>4 DEF WithValue
<1>8. \A k \in Keys : c.test.set[k] =
        IF k = "time" THEN z ELSE IF k = "bandwidth" THEN y
        ELSE IF k = "len" THEN x ELSE p.test.set[k]
  BY <1>2, <1>3, <1>4 DEF WithValue
<1> QED BY <1>1, <1>2, <1>3, <1>4, <1>6, <1>7, <1>8 DEF u, Settles

\* One end condition at most.
OneEnd(set) ==
  /\ set["num"] = 0 \/ set["blockcount"] = 0
  /\ set["time"] # 0 => set["num"] = 0 /\ set["blockcount"] = 0

LEMMA ArgumentsSound ==
  ASSUME NEW args \in Seq(ArgType), NEW full, iperf_parse_arguments(args, full).ok
  PROVE  LET t == iperf_parse_arguments(args, full).test IN
           /\ t \in TestType /\ Exact(t) /\ Unsigned(t) /\ OneEnd(t.set)
           /\ OneR(args) => t.sender = Xor(t.role = "c", t.reverse)
<1> DEFINE p == Parsed(args, full)
           q == iperf_parse_arguments(args, full)
           u == [p EXCEPT !.test.set["len"] = BlockSize(p),
                          !.test.set["bandwidth"] = Rate(p),
                          !.test.set["time"] = Duration(p)]
<1>1. q = IF ~p.ok \/ RefusedTest(p) THEN [p EXCEPT !.ok = FALSE] ELSE u
  BY DEF iperf_parse_arguments, Parsed, FoldLeft, MapThenFoldSet
<1>2. p \in ParseType /\ Sound(p, args, Len(args))
  BY ParsedSound
<1> HIDE DEF p, q
<1>3. p.ok /\ ~RefusedTest(p) /\ q = u
  <2>1. [p EXCEPT !.ok = FALSE].ok = FALSE
    BY <1>2 DEF ParseType
  <2> QED BY <1>1, <2>1 DEF q
<1>4. p.test \in TestType /\ p.blksize \in Int /\ p.test.set \in [Keys -> Int]
  BY <1>2 DEF ParseType, TestType
<1>5. {"time", "num", "blockcount", "burst", "bandwidth"} \subseteq Keys
  BY KeysAre
<1>6. BlockSize(p) \in Int /\ Rate(p) \in Int /\ Duration(p) \in Int
  BY <1>4, <1>5 DEF BlockSize, Rate, Duration, DEFAULT_UDP_BLKSIZE, DEFAULT_TCP_BLKSIZE,
     UDP_RATE
<1>7. Settles(p, BlockSize(p), Rate(p), Duration(p), u)
  BY <1>2, <1>6, Settled
<1> HIDE DEF u
<1>8. Exact(p.test) /\ Unsigned(p.test)
      /\ (OneR(args) => p.test.sender = Xor(p.test.role = "c", p.test.reverse))
  BY <1>2, <1>3 DEF Sound
<1>9. u.test \in TestType /\ Exact(u.test) /\ Unsigned(u.test)
  BY <1>5, <1>7, <1>8 DEF Unsigned, ParseType, Settles
<1>10. OneEnd(u.test.set)
  <2>1. u.test.set["num"] = p.test.set["num"]
        /\ u.test.set["blockcount"] = p.test.set["blockcount"]
    BY <1>5, <1>7 DEF Settles
  <2>2. ~(p.test.set["num"] # 0 /\ p.test.set["blockcount"] # 0)
    BY <1>3 DEF RefusedTest
  <2>3. ~("t" \in p.seen /\ (p.test.set["num"] # 0 \/ p.test.set["blockcount"] # 0))
    BY <1>3 DEF RefusedTest
  <2>4. (p.test.set["num"] # 0 \/ p.test.set["blockcount"] # 0) => Duration(p) = 0
    BY <2>3 DEF Duration
  <2>5. u.test.set["time"] = Duration(p)
    BY <1>5, <1>7 DEF Settles
  <2> QED BY <2>1, <2>2, <2>4, <2>5 DEF OneEnd
<1>11. OneR(args) => u.test.sender = Xor(u.test.role = "c", u.test.reverse)
  BY <1>7, <1>8 DEF Settles
<1> QED BY <1>3, <1>9, <1>10, <1>11 DEF q

LEMMA JavaSound ==
  ASSUME NEW r \in [kind : {"java"}, down : BOOLEAN, bandwidth : Int, parallels : Int]
  PROVE  LET t == parse_java_config(r).test IN
           /\ t \in TestType /\ Exact(t) /\ Unsigned(t)
           /\ t.role = "c" /\ t.sender = ~t.reverse
<1> DEFINE b == set_test_role(iperf_defaults, "c")
           d == IF r.down THEN set_test_reverse(b) ELSE b
           v == [d EXCEPT !.set["bandwidth"] = r.bandwidth]
           w == [v EXCEPT !.set["parallel"] = r.parallels]
<1>1. /\ b \in TestType /\ Exact(b) /\ b.role = "c"
      /\ b.sender = Xor(TRUE, iperf_defaults.reverse)
      /\ b.reverse = iperf_defaults.reverse /\ b.set = iperf_defaults.set
  BY DefaultsTyped, SetRole
<1>2. b.sender = TRUE /\ b.reverse = FALSE
  BY <1>1, DefaultsTyped DEF Xor
<1> HIDE DEF b
<1>3. /\ d \in TestType /\ Exact(d) /\ d.role = "c" /\ d.set = iperf_defaults.set
      /\ d.sender = ~d.reverse
  BY <1>1, <1>2, SetReverse
<1>4. parse_java_config(r).test = w
  <2>1. parse_java_config(r) =
          [Nothing EXCEPT !.test = [d EXCEPT !.set["bandwidth"] = r.bandwidth,
                                             !.set["parallel"] = r.parallels]]
    BY DEF parse_java_config, b
  <2> DEFINE x == [d EXCEPT !.set["bandwidth"] = r.bandwidth,
                            !.set["parallel"] = r.parallels]
  <2>2. x = w
    OBVIOUS
  <2> HIDE DEF x, w
  <2>3. [Nothing EXCEPT !.test = x].test = x
    BY NothingTyped DEF ParseType
  <2> QED BY <2>1, <2>2, <2>3 DEF x
<1> HIDE DEF d
<1>5. WithValue(d, "bandwidth", r.bandwidth, v)
  BY <1>3, SetValue
<1>6. v \in TestType
  BY <1>5 DEF WithValue
<1> HIDE DEF v
<1>7. WithValue(v, "parallel", r.parallels, w)
  BY <1>6, SetValue
<1> HIDE DEF w
<1>8. \A k \in {"num", "blockcount", "burst"} : w.set[k] = iperf_defaults.set[k]
  BY <1>3, <1>5, <1>7, KeysAre DEF WithValue
<1>9. Unsigned(w)
  BY <1>8, DefaultsTyped DEF Unsigned
<1> QED BY <1>3, <1>4, <1>5, <1>7, <1>9 DEF WithValue

LEMMA ClientSound ==
  ASSUME NEW r \in RequestType, ClientOf(r).ok, ClientOf(r).test.role = "c"
  PROVE  LET t == ClientOf(r).test IN
           /\ t \in TestType /\ Exact(t) /\ Unsigned(t)
           /\ r.kind = "args" => OneEnd(t.set) /\ r.args \in Seq(ArgType)
           /\ r.kind = "java" \/ OneR(r.args) => t.sender = ~t.reverse
<1>1. CASE r \in [kind : {"args"}, args : Seq(ArgType), full : BOOLEAN]
  <2> DEFINE q == iperf_parse_arguments(r.args, r.full)
  <2>1. r.kind = "args" /\ r.args \in Seq(ArgType)
    BY <1>1
  <2>2. ClientOf(r) = q
    BY <2>1 DEF ClientOf
  <2>3. q.ok
    BY <2>2
  <2>4. /\ q.test \in TestType /\ Exact(q.test) /\ Unsigned(q.test) /\ OneEnd(q.test.set)
        /\ OneR(r.args) => q.test.sender = Xor(q.test.role = "c", q.test.reverse)
    BY <2>1, <2>3, ArgumentsSound
  <2> HIDE DEF q
  <2>5. OneR(r.args) => q.test.sender = ~q.test.reverse
    BY <2>2, <2>4 DEF Xor, TestType
  <2> QED BY <2>1, <2>2, <2>4, <2>5
<1>2. CASE r \in [kind : {"java"}, down : BOOLEAN, bandwidth : Int, parallels : Int]
  <2>1. r.kind = "java"
    BY <1>2
  <2>2. ClientOf(r) = parse_java_config(r)
    BY <2>1 DEF ClientOf
  <2> DEFINE t == parse_java_config(r).test
  <2>3. /\ t \in TestType /\ Exact(t) /\ Unsigned(t) /\ t.sender = ~t.reverse
    BY <1>2, JavaSound
  <2> HIDE DEF t
  <2> QED BY <2>1, <2>2, <2>3 DEF t
<1> QED BY <1>1, <1>2 DEF RequestType

LEMMA ParseOne ==
  ASSUME NEW args, NEW n \in Nat, DOMAIN args = 1..n, NEW full
  PROVE  n = 1 => Parsed(args, full) = ParseOption(Nothing, args[n], full)
<1>1. \E g : /\ g[0] = Nothing
             /\ \A i \in 1..n : g[i] = ParseOption(g[i - 1], args[i], full)
             /\ Parsed(args, full) = g[n]
  BY ParseSteps
<1>2. PICK g : /\ g[0] = Nothing
               /\ \A i \in 1..n : g[i] = ParseOption(g[i - 1], args[i], full)
               /\ Parsed(args, full) = g[n]
  BY <1>1
<1>3. n = 1 => n \in 1..n /\ n - 1 = 0
  OBVIOUS
<1> QED BY <1>2, <1>3

\* The server process starts with the defaults.
LEMMA ServerStarts ==
  LET t == iperf_parse_arguments(<<Switch("s")>>, FALSE).test IN
    /\ t \in TestType /\ t.role = "s" /\ t.sender = FALSE /\ t.reverse = FALSE
    /\ \A k \in Keys : t.set[k] = Default(k)
<1> DEFINE args == <<Switch("s")>>
           no == FALSE
           a == Switch("s")
           p == Parsed(args, no)
           q == iperf_parse_arguments(args, no)
           u == [p EXCEPT !.test.set["len"] = BlockSize(p),
                          !.test.set["bandwidth"] = Rate(p),
                          !.test.set["time"] = Duration(p)]
<1>1. q = IF ~p.ok \/ RefusedTest(p) THEN [p EXCEPT !.ok = FALSE] ELSE u
  BY DEF iperf_parse_arguments, Parsed, FoldLeft, MapThenFoldSet
<1>2. DOMAIN args = 1..1 /\ args[1] = a /\ 1 \in Nat
  OBVIOUS
<1>0. no \in BOOLEAN /\ ~no
  OBVIOUS
<1> HIDE DEF args, no, u
<1>3. p = ParseOption(Nothing, a, no)
  <2>1. Parsed(args, no) = ParseOption(Nothing, args[1], no)
    BY <1>2, ParseOne
  <2> QED BY <1>2, <2>1 DEF p
<1>4. a.opt = "s"
  BY DEF Switch, Arg
<1> HIDE DEF a, p, q
<1>5. ~RefusedOption(Nothing, a, no)
  BY <1>0, <1>4, NothingTyped, DefaultsTyped DEF RefusedOption, OutOfRange, Unimplemented
<1> DEFINE t == set_test_role(iperf_defaults, "s")
<1>6. p = [Nothing EXCEPT !.test = t, !.seen = Nothing.seen \cup {"s"},
                          !.blksize = Nothing.blksize]
  <2>1. TakeOption(Nothing.test, a) = t
    BY <1>4, NothingTyped, TakeOptionCases
  <2> HIDE DEF t
  <2> QED BY <1>3, <1>4, <1>5, <2>1, NothingTyped DEF ParseOption
<1>7. /\ t \in TestType /\ t.role = "s" /\ t.sender = Xor(FALSE, iperf_defaults.reverse)
      /\ t.reverse = iperf_defaults.reverse /\ t.protocol = iperf_defaults.protocol
      /\ t.set = iperf_defaults.set
  BY DefaultsTyped, SetRole
<1>8. /\ t.sender = FALSE /\ t.reverse = FALSE /\ t.protocol = "tcp"
      /\ \A k \in Keys : t.set[k] = Default(k)
  BY <1>7, DefaultsTyped DEF Xor
<1> HIDE DEF t
<1>9. Nothing.seen = {} /\ Nothing.blksize = 0
  BY DEF Nothing
<1>10. p \in ParseType /\ p.test = t /\ p.seen = {"s"} /\ p.blksize = 0
  <2> DEFINE ss == {"s"}
             z == 0
  <2>1. "s" \in Options
    BY DEF Options
  <2>2. ss \in SUBSET Options /\ Nothing.seen \cup {"s"} = ss /\ z \in Int
        /\ Nothing.blksize = z
    BY <1>9, <2>1
  <2> HIDE DEF ss, z
  <2>3. p = [Nothing EXCEPT !.test = t, !.seen = ss, !.blksize = z]
    BY <1>6, <2>2
  <2>4. p \in ParseType /\ p.test = t /\ p.seen = ss /\ p.blksize = z
    BY <1>7, <2>2, <2>3, NothingTyped DEF ParseType
  <2> QED BY <2>4 DEF ss, z
<1>11. /\ BlockSize(p) = Default("len") /\ Rate(p) = Default("bandwidth")
       /\ Duration(p) = Default("time")
  <2>1. Default("len") = DEFAULT_TCP_BLKSIZE /\ Default("bandwidth") = 0
    BY DEF Default
  <2>2. BlockSize(p) = DEFAULT_TCP_BLKSIZE
    BY <1>8, <1>10 DEF BlockSize
  <2>3. Rate(p) = 0
    BY <1>8, <1>10 DEF Rate
  <2>4. Duration(p) = Default("time")
    BY <1>8, <1>10, KeysAre, Defaults DEF Duration
  <2> QED BY <2>1, <2>2, <2>3, <2>4
<1>12. Settles(p, Default("len"), Default("bandwidth"), Default("time"), u)
  <2>1. BlockSize(p) \in Int /\ Rate(p) \in Int /\ Duration(p) \in Int
    BY <1>11, Defaults
  <2>2. Settles(p, BlockSize(p), Rate(p), Duration(p), u)
    BY <1>10, <2>1, Settled DEF u
  <2> QED BY <1>11, <2>2
<1>13. CASE ~p.ok \/ RefusedTest(p)
  <2>1. q = [p EXCEPT !.ok = FALSE]
    BY <1>1, <1>13
  <2>2. q.test = t
    BY <1>10, <2>1 DEF ParseType
  <2> QED BY <1>7, <1>8, <2>2 DEF q, args, a, no
<1>14. CASE ~(~p.ok \/ RefusedTest(p))
  <2>1. q = u
    BY <1>1, <1>14
  <2>2. q.test \in TestType
    BY <1>12, <2>1 DEF Settles, ParseType
  <2>3. q.test.role = t.role /\ q.test.sender = t.sender /\ q.test.reverse = t.reverse
    BY <1>10, <1>12, <2>1 DEF Settles
  <2>4. \A k \in Keys : q.test.set[k] = Default(k)
    BY <1>8, <1>10, <1>12, <2>1 DEF Settles
  <2> QED BY <1>7, <1>8, <2>2, <2>3, <2>4 DEF q, args, a, no
<1> QED BY <1>13, <1>14

-----------------------------------------------------------------------------
(* The exchange and the reset *)

LEMMA GivenKeys ==
  ASSUME NEW c
  PROVE  /\ Given(c) \subseteq WireKeys /\ Given(c) \subseteq Keys
         /\ "parallel" \in Given(c)
BY KeysAre DEF Given, Always

LEMMA Told ==
  ASSUME NEW s \in TestType, s.reverse = FALSE, s.sender = FALSE, NEW c \in TestType
  PROVE  LET u == get_parameters(s, send_parameters(c)) IN
           /\ u \in TestType /\ Exact(u) /\ u.role = s.role
           /\ u.protocol = c.protocol /\ u.reverse = c.reverse /\ u.sender = c.reverse
           /\ \A k \in Keys : u.set[k] = IF k \in Given(c) THEN c.set[k] ELSE s.set[k]
<1> DEFINE j == send_parameters(c)
           p == set_protocol(s, j.protocol)
           r == IF j.reverse THEN set_test_reverse(p) ELSE p
           f == [k \in Keys |-> IF k \in DOMAIN j.set THEN j.set[k] ELSE r.set[k]]
           x == r.retrans \/ (r.sender /\ r.protocol = "tcp" /\ HasTcpinfoRetransmits)
           u == get_parameters(s, j)
<1>1. /\ c.protocol \in {"tcp", "udp"} /\ c.reverse \in BOOLEAN
      /\ c.set \in [Keys -> Int]
  BY DEF TestType
<1>2. /\ j.protocol = c.protocol /\ j.reverse = c.reverse /\ DOMAIN j.set = Given(c)
      /\ \A k \in Given(c) : j.set[k] = c.set[k]
  BY DEF send_parameters
<1> HIDE DEF j
<1>3. /\ p \in TestType /\ Exact(p) /\ p.role = s.role /\ p.sender = FALSE
      /\ p.protocol = c.protocol /\ p.reverse = FALSE /\ p.set = s.set
  BY <1>1, <1>2, SetProtocol
<1>4. u = [r EXCEPT !.set = f, !.retrans = x]
  BY DEF get_parameters
<1> HIDE DEF p
<1>5. /\ r \in TestType /\ Exact(r) /\ r.role = s.role /\ r.set = s.set
      /\ r.protocol = c.protocol /\ r.reverse = c.reverse /\ r.sender = c.reverse
  <2>1. CASE c.reverse
    <3> DEFINE q == set_test_reverse(p)
    <3>1. /\ q \in TestType /\ Exact(q) /\ q.role = p.role /\ q.sender = ~p.sender
          /\ q.protocol = p.protocol /\ q.reverse = TRUE /\ q.set = p.set
      BY <1>3, SetReverse
    <3>2. r = q
      BY <1>2, <2>1
    <3> HIDE DEF q, r
    <3> QED BY <1>1, <1>3, <2>1, <3>1, <3>2
  <2>2. CASE ~c.reverse
    <3>1. r = p
      BY <1>2, <2>2
    <3> HIDE DEF r
    <3> QED BY <1>1, <1>3, <2>2, <3>1
  <2> QED BY <2>1, <2>2
<1> HIDE DEF r
<1>6. f \in [Keys -> Int]
      /\ \A k \in Keys : f[k] = IF k \in Given(c) THEN c.set[k] ELSE s.set[k]
  <2>1. s.set \in [Keys -> Int]
    BY DEF TestType
  <2> QED BY <1>1, <1>2, <1>5, <2>1, GivenKeys
<1>7. x \in BOOLEAN /\ x = r.retrans
  BY <1>5, OptionsAssumption DEF Exact, TestType
<1> HIDE DEF f, x, u
<1>8. u \in TestType /\ u.set = f /\ u.role = r.role /\ u.protocol = r.protocol
      /\ u.sender = r.sender /\ u.reverse = r.reverse /\ u.retrans = x
  BY <1>4, <1>5, <1>6, <1>7 DEF TestType
<1>9. Exact(u)
  BY <1>5, <1>7, <1>8 DEF Exact
<1> QED BY <1>5, <1>6, <1>8, <1>9 DEF u, j

LEMMA WasReset ==
  ASSUME NEW s \in TestType
  PROVE  LET u == ResetOptions(s) IN
           /\ u \in TestType /\ u.role = "s" /\ u.sender = FALSE /\ u.reverse = FALSE
           /\ \A k \in Keys :
                u.set[k] = IF k \in LocalKeys \cup Sticky THEN s.set[k] ELSE Default(k)
<1> DEFINE a == [s EXCEPT !.role = "s", !.sender = FALSE, !.retrans = FALSE]
           p == set_protocol(a, "tcp")
           f == [k \in Keys |-> IF k \in LocalKeys \cup Sticky THEN p.set[k] ELSE Default(k)]
           u == ResetOptions(s)
<1>1. a \in TestType /\ a.role = "s" /\ a.sender = FALSE /\ a.set = s.set
  BY DEF TestType
<1>2. u = [p EXCEPT !.reverse = FALSE, !.set = f]
  BY DEF ResetOptions
<1> HIDE DEF a
<1>3. p \in TestType /\ p.role = "s" /\ p.sender = FALSE /\ p.set = s.set
  BY <1>1, SetProtocol
<1> HIDE DEF p
<1>4. f \in [Keys -> Int]
      /\ \A k \in Keys :
           f[k] = IF k \in LocalKeys \cup Sticky THEN s.set[k] ELSE Default(k)
  <2>1. s.set \in [Keys -> Int]
    BY DEF TestType
  <2> QED BY <1>3, <2>1, Defaults
<1> HIDE DEF f, u
<1>5. u \in TestType /\ u.role = p.role /\ u.sender = p.sender /\ u.reverse = FALSE
      /\ u.set = f
  BY <1>2, <1>3, <1>4 DEF TestType
<1> QED BY <1>3, <1>4, <1>5 DEF u

-----------------------------------------------------------------------------
(* What one pass of iperf_send adds *)

Count == [bytes : 0..(MaxCount * BlockUnits), blocks : 0..MaxCount]

\* What a call can have come to.
CallType(S) ==
  [pipe : [S -> 0..Room], green : SUBSET S, c : Count,
   skip : BOOLEAN, active : BOOLEAN, stop : BOOLEAN]

\* The limits are gone over by less than q blocks.
Under(t, c, q) ==
  /\ t.set["num"] # 0 => c.bytes < t.set["num"] + q * BlockUnits
  /\ t.set["blockcount"] # 0 => c.blocks < t.set["blockcount"] + q

LEMMA MostUnits ==
  MaxCount * BlockUnits \in Nat /\ MaxCount \in Nat /\ BlockUnits \in Nat /\ Room \in Nat
  /\ 0 < BlockUnits
BY TransferAssumption

LEMMA LeastIs ==
  ASSUME NEW a \in Int, NEW b \in Int
  PROVE  Least(a, b) \in {a, b} /\ Least(a, b) <= a /\ Least(a, b) <= b
BY DEF Least

LEMMA AddTyped ==
  ASSUME NEW c \in Count, NEW u \in 0..BlockUnits
  PROVE  /\ Add(c, u) \in Count
         /\ Add(c, u).bytes <= c.bytes + BlockUnits /\ Add(c, u).blocks <= c.blocks + 1
<1> DEFINE M == MaxCount * BlockUnits
           x == Least(c.bytes + u, M)
           y == Least(c.blocks + 1, MaxCount)
<1>1. M \in Nat /\ MaxCount \in Nat /\ BlockUnits \in Nat
  BY MostUnits
<1>2. c.bytes \in 0..M /\ c.blocks \in 0..MaxCount
  BY DEF Count
<1> HIDE DEF M
<1>3. x \in 0..M /\ x <= c.bytes + BlockUnits
  BY <1>1, <1>2 DEF Least
<1>4. y \in 0..MaxCount /\ y <= c.blocks + 1
  BY <1>1, <1>2 DEF Least
<1>5. Add(c, u) = [bytes |-> x, blocks |-> y]
  BY DEF Add, M
<1> HIDE DEF x, y
<1> QED BY <1>3, <1>4, <1>5 DEF Count, M

LEMMA UnderFacts ==
  ASSUME NEW t \in TestType, Unsigned(t), NEW c \in Count
  PROVE  /\ ~LimitReached(t, c) => Under(t, c, 0)
         /\ \A q, r \in Nat : q <= r /\ Under(t, c, q) => Under(t, c, r)
         /\ \A q \in Nat, u \in 0..BlockUnits :
              Under(t, c, q) => Under(t, Add(c, u), q + 1)
<1> DEFINE K == t.set["num"]
           L == t.set["blockcount"]
<1>1. K \in Nat /\ L \in Nat /\ BlockUnits \in Nat
  BY MostUnits DEF Unsigned
<1>2. c.bytes \in Nat /\ c.blocks \in Nat
  BY MostUnits DEF Count
<1>3. ~LimitReached(t, c) => Under(t, c, 0)
  <2>1. ASSUME ~LimitReached(t, c) PROVE (K # 0 => c.bytes < K) /\ (L # 0 => c.blocks < L)
    BY <1>1, <1>2, <2>1 DEF LimitReached
  <2>2. K + 0 * BlockUnits = K /\ L + 0 = L
    BY <1>1
  <2> HIDE DEF K, L
  <2> QED BY <2>1, <2>2 DEF Under, K, L
<1>4. ASSUME NEW q \in Nat, NEW r \in Nat, q <= r, Under(t, c, q) PROVE Under(t, c, r)
  <2>1. q * BlockUnits <= r * BlockUnits
    BY <1>1, <1>4
  <2> DEFINE x == q * BlockUnits
             y == r * BlockUnits
  <2>2. x \in Nat /\ y \in Nat /\ x <= y
    BY <1>1, <2>1
  <2>3. (K # 0 => c.bytes < K + x) /\ (L # 0 => c.blocks < L + q)
    BY <1>4 DEF Under
  <2> HIDE DEF x, y, K, L
  <2>4. (K # 0 => c.bytes < K + y) /\ (L # 0 => c.blocks < L + r)
    BY <1>1, <1>2, <1>4, <2>2, <2>3
  <2> QED BY <2>4 DEF Under, y, K, L
<1>5. ASSUME NEW q \in Nat, NEW u \in 0..BlockUnits, Under(t, c, q)
      PROVE  Under(t, Add(c, u), q + 1)
  <2> DEFINE d == Add(c, u)
             x == q * BlockUnits
             y == (q + 1) * BlockUnits
  <2>1. d \in Count /\ d.bytes <= c.bytes + BlockUnits /\ d.blocks <= c.blocks + 1
    BY AddTyped
  <2>2. d.bytes \in Nat /\ d.blocks \in Nat
    BY <2>1, MostUnits DEF Count
  <2>3. x \in Nat /\ y = x + BlockUnits
    BY <1>1
  <2>4. (K # 0 => c.bytes < K + x) /\ (L # 0 => c.blocks < L + q)
    BY <1>5 DEF Under
  <2> HIDE DEF x, y, d, K, L
  <2>5. (K # 0 => d.bytes < K + y) /\ (L # 0 => d.blocks < L + (q + 1))
    BY <1>1, <1>2, <2>1, <2>2, <2>3, <2>4
  <2> QED BY <2>5 DEF Under, d, y, K, L
<1> QED BY <1>3, <1>4, <1>5

\* A block more on the stream s, at most.
Further(t, st, u, s, m) ==
  /\ \/ u.c = st.c /\ (u.skip = st.skip \/ u.skip)
     \/ /\ ~st.skip
        /\ \E r \in 0..BlockUnits : u.c = Add(st.c, r)
        /\ u.skip = (m > 1 /\ LimitReached(t, u.c))

LEMMA SendOneTyped ==
  ASSUME NEW S, NEW t \in TestType, NEW st \in CallType(S), ~st.skip, NEW s \in S, NEW m \in Nat,
         NEW u \in SendOne(t, st, s, m)
  PROVE  u \in CallType(S) /\ Further(t, st, u, s, m)
<1> DEFINE r == Written(t, Room - st.pipe[s])
           c == Add(st.c, r)
           p == Least(st.pipe[s] + r, Room)
           k == m > 1 /\ LimitReached(t, c)
<1>1. st.pipe \in [S -> 0..Room] /\ st.green \in SUBSET S /\ st.c \in Count
  BY DEF CallType
<1>2. st.pipe[s] \in 0..Room /\ Room \in Nat /\ BlockUnits \in Nat
  BY <1>1, MostUnits
<1>3. r \in 0..BlockUnits
  BY <1>2 DEF Written, Least
<1>4. c \in Count
  BY <1>1, <1>3, AddTyped
<1>5. p \in 0..Room
  BY <1>2, <1>3 DEF Least
<1>6. k \in BOOLEAN
  BY DEF LimitReached
<1>7. PICK g : /\ g \in (IF PacesEach(t) THEN Throttled(t, st.green, s) ELSE {st.green})
               /\ u = [st EXCEPT !.pipe[s] = p, !.c = c, !.active = TRUE,
                                 !.skip = k, !.green = g]
  BY DEF SendOne
<1>8. g \in SUBSET S
  BY <1>1, <1>7 DEF Throttled
<1> HIDE DEF r, c, p, k
<1>9. u \in CallType(S) /\ u.c = c /\ u.skip = k
  <2> DEFINE f == [st.pipe EXCEPT ![s] = p]
  <2>1. f \in [S -> 0..Room]
    BY <1>1, <1>5
  <2>2. u = [st EXCEPT !.pipe = f, !.c = c, !.active = TRUE, !.skip = k, !.green = g]
    BY <1>7
  <2> HIDE DEF f
  <2> QED BY <1>4, <1>6, <1>8, <2>1, <2>2 DEF CallType
<1>10. u.c = Add(st.c, r) /\ u.skip = (m > 1 /\ LimitReached(t, u.c))
  BY <1>9 DEF c, k
<1> QED BY <1>3, <1>9, <1>10 DEF Further

LEMMA VisitTyped ==
  ASSUME NEW S, NEW t \in TestType, NEW st \in CallType(S), NEW s \in S, NEW m \in Nat, NEW ready,
         NEW u \in Visit(t, st, s, m, ready)
  PROVE  u \in CallType(S) /\ Further(t, st, u, s, m)
<1> DEFINE left == st.stop \/ st.skip \/
                     (t.set["no_fq_socket_pacing"] # 0 /\ ~(s \in st.green /\ s \in ready))
<1>1. CASE left
  <2>1. u = st
    BY <1>1 DEF Visit
  <2> QED BY <2>1 DEF Further
<1>2. CASE ~left
  <2>1. u \in SendOne(t, st, s, m) \/ u = [st EXCEPT !.skip = TRUE]
    BY <1>2 DEF Visit
  <2>2. CASE u \in SendOne(t, st, s, m)
    BY <1>2, <2>2, SendOneTyped
  <2>3. CASE u = [st EXCEPT !.skip = TRUE]
    <3>1. u \in CallType(S) /\ u.c = st.c /\ u.skip = TRUE
      BY <2>3 DEF CallType
    <3> QED BY <3>1 DEF Further
  <2> QED BY <2>1, <2>2, <2>3
<1> QED BY <1>1, <1>2

LEMMA BeginPassTyped ==
  ASSUME NEW S, NEW st \in CallType(S)
  PROVE  BeginPass(st) \in CallType(S) /\ BeginPass(st).c = st.c /\ BeginPass(st).skip = FALSE
<1> DEFINE x == st.stop \/ ~st.active
<1>1. x \in BOOLEAN
  BY DEF CallType
<1>2. BeginPass(st) = [st EXCEPT !.stop = x, !.active = FALSE, !.skip = FALSE]
  BY DEF BeginPass
<1> HIDE DEF x
<1> QED BY <1>1, <1>2 DEF CallType

-----------------------------------------------------------------------------
(* The passes *)

\* The pass of visit i + 1, from 0, and its place in the pass.
PassOf(i, n) == i \div n
StreamOf(i, n) == (i % n) + 1

LEMMA Quotient ==
  ASSUME NEW n \in Nat \ {0}, NEW i \in Nat
  PROVE  /\ i \div n \in Nat /\ (i % n) \in 0..(n - 1)
         /\ i = n * (i \div n) + (i % n)
OBVIOUS

LEMMA QuotientUnique ==
  ASSUME NEW n \in Nat \ {0}, NEW a \in Nat, NEW b \in Nat,
         NEW r \in 0..(n - 1), NEW s \in 0..(n - 1), n * a + r = n * b + s
  PROVE  a = b /\ r = s
<1>1. CASE a < b
  <2>1. b = a + 1 + (b - a - 1) /\ b - a - 1 \in Nat
    BY <1>1
  <2> DEFINE d == b - a - 1
  <2>2. n * b = n * a + n + n * d
    BY <2>1
  <2>3. n * d \in Nat /\ n * a \in Nat /\ n * b \in Nat
    BY <2>1
  <2> HIDE DEF d
  <2> QED BY <2>2, <2>3
<1>2. CASE b < a
  <2>1. a = b + 1 + (a - b - 1) /\ a - b - 1 \in Nat
    BY <1>2
  <2> DEFINE d == a - b - 1
  <2>2. n * a = n * b + n + n * d
    BY <2>1
  <2>3. n * d \in Nat /\ n * a \in Nat /\ n * b \in Nat
    BY <2>1
  <2> HIDE DEF d
  <2> QED BY <2>2, <2>3
<1>3. CASE a = b
  BY <1>3
<1> QED BY <1>1, <1>2, <1>3

LEMMA FirstPlace ==
  ASSUME NEW n \in Nat \ {0}
  PROVE  PassOf(0, n) = 0 /\ StreamOf(0, n) = 1
<1>1. 0 = n * 0 + 0 /\ 0 \in 0..(n - 1)
  OBVIOUS
<1> DEFINE a == 0 \div n
           r == (0 % n)
<1>2. a \in Nat /\ r \in 0..(n - 1) /\ 0 = n * a + r
  BY Quotient
<1> HIDE DEF a, r
<1>3. n * 0 + 0 = n * a + r
  BY <1>1, <1>2
<1>4. a = 0 /\ r = 0
  BY <1>1, <1>2, <1>3, QuotientUnique
<1> QED BY <1>4 DEF PassOf, StreamOf, a, r

LEMMA NextPlace ==
  ASSUME NEW n \in Nat \ {0}, NEW i \in Nat
  PROVE  \/ /\ StreamOf(i, n) = n /\ StreamOf(i + 1, n) = 1
            /\ PassOf(i + 1, n) = PassOf(i, n) + 1
         \/ /\ StreamOf(i + 1, n) = StreamOf(i, n) + 1
            /\ PassOf(i + 1, n) = PassOf(i, n)
<1> DEFINE a == i \div n
           r == (i % n)
           b == (i + 1) \div n
           s == ((i + 1) % n)
<1>1. a \in Nat /\ r \in 0..(n - 1) /\ i = n * a + r
  BY Quotient
<1>2. i + 1 \in Nat
  OBVIOUS
<1>3. b \in Nat /\ s \in 0..(n - 1) /\ i + 1 = n * b + s
  BY <1>2, Quotient
<1> HIDE DEF a, r, b, s
<1>4. CASE r = n - 1
  <2>1. n * (a + 1) + 0 = n * b + s /\ a + 1 \in Nat /\ 0 \in 0..(n - 1)
    <3>1. n * (a + 1) = n * a + n /\ n * a \in Nat
      BY <1>1
    <3> QED BY <1>1, <1>3, <1>4, <3>1
  <2>2. a + 1 = b /\ 0 = s
    <3> DEFINE x == a + 1
    <3>1. x \in Nat /\ n * x + 0 = n * b + s /\ 0 \in 0..(n - 1)
      BY <2>1
    <3> HIDE DEF x
    <3>2. x = b /\ 0 = s
      BY <1>3, <3>1, QuotientUnique
    <3> QED BY <3>2 DEF x
  <2> QED BY <1>4, <2>2 DEF PassOf, StreamOf, a, r, b, s
<1>5. CASE r # n - 1
  <2>1. r + 1 \in 0..(n - 1) /\ n * a + (r + 1) = n * b + s
    <3>1. n * a \in Nat
      BY <1>1
    <3> QED BY <1>1, <1>3, <1>5, <3>1
  <2>2. a = b /\ r + 1 = s
    <3> DEFINE x == r + 1
    <3>1. x \in 0..(n - 1) /\ n * a + x = n * b + s
      BY <2>1
    <3> HIDE DEF x
    <3>2. a = b /\ x = s
      BY <1>1, <1>3, <3>1, QuotientUnique
    <3> QED BY <3>2 DEF x
  <2>3. s + 1 = (r + 1) + 1
    BY <1>1, <2>2
  <2> QED BY <2>2, <2>3 DEF PassOf, StreamOf, a, r, b, s
<1> QED BY <1>4, <1>5

LEMMA PlaceBounds ==
  ASSUME NEW n \in Nat \ {0}, NEW P \in Nat \ {0}, NEW i \in Nat
  PROVE  /\ StreamOf(i, n) \in 1..n /\ PassOf(i, n) \in Nat
         /\ i < P * n => PassOf(i, n) < P
         /\ i = P * n - 1 => PassOf(i, n) = P - 1 /\ StreamOf(i, n) = n
<1> DEFINE a == i \div n
           r == (i % n)
<1>1. a \in Nat /\ r \in 0..(n - 1) /\ i = n * a + r
  BY Quotient
<1> HIDE DEF a, r
<1>2. ASSUME i < P * n, a >= P PROVE FALSE
  <2>1. a = P + (a - P) /\ a - P \in Nat
    BY <1>1, <1>2
  <2> DEFINE d == a - P
  <2>2. n * a = P * n + n * d /\ n * d \in Nat /\ P * n \in Nat
    BY <2>1
  <2> HIDE DEF d
  <2> QED BY <1>1, <1>2, <2>2
<1>3. ASSUME i = P * n - 1 PROVE a = P - 1 /\ r = n - 1
  <2> DEFINE x == P - 1
             y == n - 1
  <2>1. x \in Nat /\ y \in 0..(n - 1)
    OBVIOUS
  <2>2. P * n = n * x + n /\ n * x \in Nat
    BY <2>1
  <2>3. n * a + r = n * x + y
    <3>1. n * a \in Nat
      BY <1>1
    <3> QED BY <1>1, <1>3, <2>2, <3>1
  <2> HIDE DEF x, y
  <2>4. a = x /\ r = y
    BY <1>1, <2>1, <2>3, QuotientUnique
  <2> QED BY <2>4 DEF x, y
<1>4. r + 1 \in 1..n
  BY <1>1
<1>5. i < P * n => a < P
  BY <1>1, <1>2
<1>6. r = n - 1 => r + 1 = n
  OBVIOUS
<1> QED BY <1>1, <1>3, <1>4, <1>5, <1>6 DEF PassOf, StreamOf, a, r

-----------------------------------------------------------------------------
(* iperf_send, visit by visit *)

\* The outcomes of visit i from the outcomes before it.
Visits(e, i, before) ==
  LET t == Of(e)
      n == Cardinality(Streams)
      ready == Writable(t)
      s == ((i - 1) % n) + 1
      m == Passes(t) - ((i - 1) \div n)
  IN UNION {Visit(t, IF s = 1 THEN BeginPass(st) ELSE st, s, m, ready) : st \in before}

\* With a burst the rate is looked at after the passes.
AfterPasses(t, all) ==
  IF t.set["burst"] = 0 THEN all
  ELSE {[st EXCEPT !.green = g] : st \in all,
          g \in IF t.set["bandwidth"] = 0 THEN {{}} ELSE SUBSET Streams}

LEMMA SendSteps ==
  ASSUME NEW e, NEW N \in Nat, Passes(Of(e)) * Cardinality(Streams) = N
  PROVE  \E f : /\ f[0] = {Begin(e)}
                /\ \A i \in 1..N : f[i] = Visits(e, i, f[i - 1])
                /\ iperf_send(e) = AfterPasses(Of(e), f[N])
<1> DEFINE Body(f, i) == IF i = 0 THEN {Begin(e)} ELSE Visits(e, i, f[i - 1])
           Is(f, k) == f = [i \in 0..k |-> Body(f, i)]
           S == {k \in Nat : \E f : Is(f, k)}
<1>1. 0 \in S
  <2> DEFINE f == [i \in 0..0 |-> {Begin(e)}]
  <2>1. \A i \in 0..0 : Body(f, i) = {Begin(e)}
    OBVIOUS
  <2>2. Is(f, 0)
    BY <2>1
  <2> QED BY <2>2
<1>2. ASSUME NEW k \in Nat, k \in S PROVE k + 1 \in S
  <2>1. PICK f : Is(f, k)
    BY <1>2
  <2> DEFINE h == [i \in 0..(k + 1) |-> Body(f, i)]
  <2>2. ASSUME NEW i \in 0..(k + 1) PROVE Body(h, i) = Body(f, i)
    <3>1. CASE i = 0
      BY <3>1
    <3>2. CASE i # 0
      <4> DEFINE j == i - 1
      <4>1. j \in 0..k /\ j \in 0..(k + 1)
        BY <3>2
      <4> HIDE DEF j
      <4>2. f[j] = Body(f, j)
        BY <2>1, <4>1
      <4>3. h[j] = Body(f, j)
        BY <4>1
      <4> QED BY <4>2, <4>3 DEF j
    <3> QED BY <3>1, <3>2
  <2>3. Is(h, k + 1)
    BY <2>2
  <2>4. k + 1 \in Nat
    OBVIOUS
  <2>5. \E l : Is(l, k + 1)
    BY <2>3
  <2> QED BY <2>4, <2>5
<1>3. N \in S
  <2> HIDE DEF S
  <2> QED BY <1>1, <1>2, NatSetInduction
<1>4. PICK h : Is(h, N)
  BY <1>3
<1> DEFINE M == Passes(Of(e)) * Cardinality(Streams)
           f == CHOOSE f : Is(f, M)
<1>5. Is(f, M)
  BY <1>4
<1>6. iperf_send(e) = AfterPasses(Of(e), f[M])
  BY DEF iperf_send, AfterPasses, Visits
<1>7. f = [i \in 0..N |-> Body(f, i)]
  BY <1>5
<1> HIDE DEF f
<1>8. f[0] = {Begin(e)}
  BY <1>7
<1>9. ASSUME NEW i \in 1..N PROVE f[i] = Visits(e, i, f[i - 1])
  <2>1. i \in 0..N /\ i # 0
    OBVIOUS
  <2>2. f[i] = Body(f, i)
    BY <1>7, <2>1
  <2> QED BY <2>1, <2>2
<1> QED BY <1>6, <1>8, <1>9

-----------------------------------------------------------------------------
(* How far iperf_send goes over a limit *)

\* Before and after visit s of pass p, of P passes: a pass but the last adds
\* one block to a limit that is reached, the last one a block of each stream.
Entry(t, st, p, s, P) ==
  Under(t, st.c, IF p < P - 1 THEN IF st.skip THEN p + 1 ELSE p ELSE p + s - 1)
Bounded(t, st, p, s, P) ==
  Under(t, st.c, IF p < P - 1 THEN IF st.skip THEN p + 1 ELSE p ELSE p + s)

LEMMA VisitBounded ==
  ASSUME NEW S, NEW t \in TestType, Unsigned(t),
         NEW st \in CallType(S), NEW u \in CallType(S),
         NEW P \in Nat \ {0}, NEW p \in 0..(P - 1), NEW s \in Nat \ {0},
         Further(t, st, u, s, P - p), Entry(t, st, p, s, P)
  PROVE  Bounded(t, u, p, s, P)
<1>1. st.c \in Count /\ u.c \in Count /\ st.skip \in BOOLEAN /\ u.skip \in BOOLEAN
  BY DEF CallType
<1>2. /\ \A q, r \in Nat : q <= r /\ Under(t, st.c, q) => Under(t, st.c, r)
      /\ \A q \in Nat, r \in 0..BlockUnits : Under(t, st.c, q) => Under(t, Add(st.c, r), q + 1)
      /\ ~LimitReached(t, u.c) => Under(t, u.c, 0)
      /\ \A q, r \in Nat : q <= r /\ Under(t, u.c, q) => Under(t, u.c, r)
  BY <1>1, UnderFacts
<1>3. CASE p < P - 1
  <2>1. p \in Nat /\ p + 1 \in Nat /\ p <= p + 1 /\ 0 \in Nat /\ 0 <= p /\ P - p > 1
    BY <1>3
  <2>2. Under(t, st.c, IF st.skip THEN p + 1 ELSE p)
    BY <1>3 DEF Entry
  <2>3. Under(t, u.c, IF u.skip THEN p + 1 ELSE p)
    <3>1. CASE u.c = st.c /\ (u.skip = st.skip \/ u.skip)
      <4>1. CASE u.skip
        <5>1. Under(t, st.c, p + 1)
          BY <1>2, <2>1, <2>2
        <5> QED BY <3>1, <4>1, <5>1
      <4>2. CASE ~u.skip
        <5>1. ~st.skip
          BY <3>1, <4>2
        <5> QED BY <2>2, <3>1, <4>2, <5>1
      <4> QED BY <4>1, <4>2
    <3>2. CASE /\ ~st.skip
               /\ \E r \in 0..BlockUnits : u.c = Add(st.c, r)
               /\ u.skip = (P - p > 1 /\ LimitReached(t, u.c))
      <4>1. Under(t, st.c, p)
        BY <2>2, <3>2
      <4>2. Under(t, u.c, p + 1)
        BY <1>2, <2>1, <3>2, <4>1
      <4>3. ~u.skip => Under(t, u.c, p)
        BY <1>2, <2>1, <3>2
      <4> QED BY <4>2, <4>3
    <3> QED BY <3>1, <3>2 DEF Further
  <2> QED BY <1>3, <2>3 DEF Bounded
<1>4. CASE ~(p < P - 1)
  <2> DEFINE q == p + s - 1
  <2>1. q \in Nat /\ q + 1 \in Nat /\ q <= q + 1 /\ q + 1 = p + s
    OBVIOUS
  <2>2. Under(t, st.c, q)
    BY <1>4 DEF Entry
  <2> HIDE DEF q
  <2>3. Under(t, u.c, q + 1)
    <3>1. CASE u.c = st.c
      <4>1. Under(t, st.c, q + 1)
        BY <1>2, <2>1, <2>2
      <4> QED BY <3>1, <4>1
    <3>2. CASE \E r \in 0..BlockUnits : u.c = Add(st.c, r)
      BY <1>2, <2>1, <2>2, <3>2
    <3> QED BY <3>1, <3>2 DEF Further
  <2>4. Under(t, u.c, p + s)
    BY <2>1, <2>3
  <2> QED BY <1>4, <2>4 DEF Bounded
<1> QED BY <1>3, <1>4

LEMMA EnterPass ==
  ASSUME NEW S, NEW t \in TestType, Unsigned(t), NEW st \in CallType(S),
         NEW P \in Nat \ {0}, NEW p \in 0..(P - 2), NEW s \in Nat,
         Bounded(t, st, p, s, P)
  PROVE  Entry(t, BeginPass(st), p + 1, 1, P)
<1>1. p < P - 1 /\ p \in Nat /\ p + 1 \in Nat /\ p <= p + 1
  OBVIOUS
<1>2. st.c \in Count
  BY DEF CallType
<1>3. Under(t, st.c, IF st.skip THEN p + 1 ELSE p)
  BY <1>1 DEF Bounded
<1>4. Under(t, st.c, p + 1)
  BY <1>1, <1>2, <1>3, UnderFacts
<1>5. BeginPass(st).c = st.c /\ ~BeginPass(st).skip
  BY BeginPassTyped
<1>6. (p + 1) + 1 - 1 = p + 1
  BY <1>1
<1> QED BY <1>4, <1>5, <1>6 DEF Entry

LEMMA EnterFirst ==
  ASSUME NEW S, NEW t, NEW st \in CallType(S), NEW P \in Nat \ {0}, Under(t, st.c, 0)
  PROVE  Entry(t, BeginPass(st), 0, 1, P)
<1>1. BeginPass(st).c = st.c /\ ~BeginPass(st).skip
  BY BeginPassTyped
<1>2. 0 + 1 - 1 = 0
  OBVIOUS
<1> QED BY <1>1, <1>2 DEF Entry

LEMMA EnterNext ==
  ASSUME NEW t, NEW st, NEW P \in Nat \ {0}, NEW p \in Nat, NEW s \in Nat,
         Bounded(t, st, p, s, P)
  PROVE  Entry(t, st, p, s + 1, P)
<1>1. p + (s + 1) - 1 = p + s
  OBVIOUS
<1> QED BY <1>1 DEF Entry, Bounded

\* The streams, when the test runs.
Shape ==
  /\ client.set["parallel"] \in Nat
  /\ pipe \in [Streams -> 0..Room] /\ green \subseteq Streams
  /\ counted \in [Ends -> Count]

LEMMA StreamCount ==
  client.set["parallel"] \in Nat =>
    Streams = 1..client.set["parallel"] /\ Cardinality(Streams) = client.set["parallel"]
    /\ IsFiniteSet(Streams)
<1> DEFINE n == client.set["parallel"]
<1> SUFFICES ASSUME n \in Nat PROVE Cardinality(1..n) = n /\ IsFiniteSet(1..n)
  BY DEF Streams
<1> HIDE DEF n
<1>1. IsFiniteSet(1..n) /\ Cardinality(1..n) = IF 1 > n THEN 0 ELSE n - 1 + 1
  BY FS_Interval
<1> QED BY <1>1

LEMMA BeginTyped ==
  ASSUME Shape, NEW e \in Ends
  PROVE  /\ Begin(e) \in CallType(Streams) /\ Begin(e).c = counted[e]
         /\ Begin(e).skip = FALSE
<1>1. counted[e] \in Count
  BY DEF Shape
<1> QED BY <1>1 DEF Begin, CallType, Shape

LEMMA PassesTyped ==
  ASSUME NEW t \in TestType, t.set["burst"] \in Nat
  PROVE  Passes(t) \in Nat \ {0}
BY TransferAssumption DEF Passes

\* The visit of st in place i + 1, and what it gives.
VisitOf(t, i, n, st, ready) ==
  Visit(t, IF StreamOf(i, n) = 1 THEN BeginPass(st) ELSE st, StreamOf(i, n),
        Passes(t) - PassOf(i, n), ready)

LEMMA VisitsAre ==
  ASSUME NEW e, NEW i \in Nat, NEW before, NEW n, Cardinality(Streams) = n,
         NEW u \in Visits(e, i + 1, before)
  PROVE  \E st \in before :
           u \in VisitOf(Of(e), i, n, st, Writable(Of(e)))
<1>1. (i + 1) - 1 = i
  OBVIOUS
<1> DEFINE j == (i + 1) - 1
           s == (j % n) + 1
           m == Passes(Of(e)) - (j \div n)
           ready == Writable(Of(e))
<1>2. PICK st \in before : u \in Visit(Of(e), IF s = 1 THEN BeginPass(st) ELSE st, s, m, ready)
  BY DEF Visits
<1>3. s = StreamOf(i, n) /\ m = Passes(Of(e)) - PassOf(i, n)
  BY <1>1 DEF StreamOf, PassOf
<1> HIDE DEF s, m, ready
<1>4. u \in VisitOf(Of(e), i, n, st, ready)
  BY <1>2, <1>3 DEF VisitOf
<1> QED BY <1>4 DEF ready

\* One visit, from the state it comes to.
LEMMA OneVisit ==
  ASSUME NEW n \in Nat \ {0}, NEW i \in Nat, NEW t \in TestType, NEW ready,
         Passes(t) \in Nat \ {0}, i < Passes(t) * n,
         NEW st \in CallType(1..n), NEW u \in VisitOf(t, i, n, st, ready)
  PROVE  LET s == StreamOf(i, n)
             p == PassOf(i, n)
             b == IF s = 1 THEN BeginPass(st) ELSE st
         IN /\ u \in CallType(1..n)
            /\ Unsigned(t) /\ Entry(t, b, p, s, Passes(t)) => Bounded(t, u, p, s, Passes(t))
<1> DEFINE P == Passes(t)
           s == StreamOf(i, n)
           p == PassOf(i, n)
           b == IF s = 1 THEN BeginPass(st) ELSE st
           m == P - p
<1>1. s \in 1..n /\ p \in Nat /\ p < P
  BY PlaceBounds
<1>2. u \in Visit(t, b, s, m, ready)
  BY DEF VisitOf
<1>3. b \in CallType(1..n)
  BY BeginPassTyped
<1> HIDE DEF P, s, p, b
<1>4. P \in Nat \ {0}
  BY DEF P
<1>5. m \in Nat /\ p \in 0..(P - 1) /\ s \in Nat \ {0}
  BY <1>1, <1>4
<1> HIDE DEF m
<1>6. u \in CallType(1..n) /\ Further(t, b, u, s, m)
  BY <1>1, <1>2, <1>3, <1>5, VisitTyped
<1>7. ASSUME Unsigned(t), Entry(t, b, p, s, P) PROVE Bounded(t, u, p, s, P)
  BY <1>3, <1>4, <1>5, <1>6, <1>7, VisitBounded DEF m
<1> QED BY <1>6, <1>7 DEF P, s, p, b

LEMMA AfterPassesAre ==
  ASSUME NEW t, NEW all, t.set["burst"] # 0, NEW u \in AfterPasses(t, all)
  PROVE  \E st \in all, g \in SUBSET Streams : u = [st EXCEPT !.green = g]
<1> DEFINE G == IF t.set["bandwidth"] = 0 THEN {{}} ELSE SUBSET Streams
<1>1. G \subseteq SUBSET Streams
  OBVIOUS
<1>2. AfterPasses(t, all) = {[st EXCEPT !.green = g] : st \in all, g \in G}
  BY DEF AfterPasses
<1> HIDE DEF G
<1>3. \E st \in all, g \in G : u = [st EXCEPT !.green = g]
  BY <1>2, SMT
<1> QED BY <1>1, <1>3

LEMMA SendGood ==
  ASSUME Shape, NEW e \in Ends, NEW t \in TestType, Of(e) = t, t.set["burst"] \in Nat,
         NEW u \in iperf_send(e)
  PROVE  /\ u \in CallType(Streams)
         /\ Unsigned(t) /\ ~LimitReached(t, counted[e]) =>
              Under(t, u.c, Passes(t) - 1 + Cardinality(Streams))
<1> DEFINE n == client.set["parallel"]
           P == Passes(t)
           N == P * n
           ready == Writable(t)
           calm == Unsigned(t) /\ ~LimitReached(t, counted[e])
<1>1. n \in Nat /\ Streams = 1..n /\ Cardinality(Streams) = n
  BY StreamCount DEF Shape
<1>2. P \in Nat \ {0}
  BY PassesTyped
<1> HIDE DEF n, P
<1>3. N \in Nat /\ Passes(Of(e)) * Cardinality(Streams) = N
  BY <1>1, <1>2 DEF P
<1> HIDE DEF N
<1>4. PICK f : /\ f[0] = {Begin(e)}
               /\ \A i \in 1..N : f[i] = Visits(e, i, f[i - 1])
               /\ iperf_send(e) = AfterPasses(Of(e), f[N])
  BY <1>3, SendSteps
<1>5. /\ Begin(e) \in CallType(1..n)
      /\ calm => Under(t, Begin(e).c, 0)
  <2>1. Begin(e) \in CallType(Streams) /\ Begin(e).c = counted[e]
    BY BeginTyped
  <2>2. counted[e] \in Count
    BY DEF Shape
  <2> QED BY <1>1, <2>1, <2>2, UnderFacts
<1> DEFINE At(i, st) == IF i = 0 THEN Under(t, st.c, 0)
                        ELSE Bounded(t, st, PassOf(i - 1, n), StreamOf(i - 1, n), P)
           Good(i) == \A st \in f[i] : st \in CallType(1..n) /\ (calm => At(i, st))
           S == {i \in Nat : i <= N => Good(i)}
<1>6. 0 \in S
  BY <1>4, <1>5
<1>7. ASSUME NEW i \in Nat, i \in S PROVE i + 1 \in S
  <2> SUFFICES ASSUME i + 1 <= N, NEW v \in f[i + 1]
               PROVE  v \in CallType(1..n) /\ (calm => At(i + 1, v))
    OBVIOUS
  <2>1. i <= N /\ i < N /\ i + 1 \in 1..N /\ (i + 1) - 1 = i
    BY <1>3
  <2>2. Good(i)
    BY <1>7, <2>1
  <2>3. n \in Nat \ {0}
    <3>1. n = 0 => N = 0
      BY <1>2, <1>3 DEF N
    <3> QED BY <1>1, <2>1, <3>1
  <2>4. v \in Visits(e, i + 1, f[i])
    <3> DEFINE j == i + 1
    <3>1. j \in 1..N /\ j - 1 = i /\ v \in f[j]
      BY <2>1
    <3> HIDE DEF j
    <3>2. v \in Visits(e, j, f[i])
      BY <1>4, <3>1
    <3> QED BY <3>2 DEF j
  <2>5. PICK st \in f[i] : v \in VisitOf(t, i, n, st, ready)
    BY <1>1, <2>4, VisitsAre
  <2>6. st \in CallType(1..n) /\ (calm => At(i, st))
    BY <2>2, <2>5
  <2> DEFINE s == StreamOf(i, n)
             p == PassOf(i, n)
             b == IF s = 1 THEN BeginPass(st) ELSE st
  <2>7. i < Passes(t) * n /\ Passes(t) \in Nat \ {0}
    BY <1>2, <2>1 DEF N, P
  <2>8. /\ v \in CallType(1..n)
        /\ Unsigned(t) /\ Entry(t, b, p, s, P) => Bounded(t, v, p, s, P)
    BY <2>3, <2>5, <2>6, <2>7, OneVisit DEF P
  <2>9. ASSUME calm PROVE Entry(t, b, p, s, P)
    <3>1. CASE i = 0
      <4>1. s = 1 /\ p = 0
        BY <2>3, <3>1, FirstPlace
      <4>2. Under(t, st.c, 0)
        BY <2>6, <2>9, <3>1
      <4>3. Entry(t, BeginPass(st), 0, 1, P)
        BY <1>2, <2>6, <4>2, EnterFirst
      <4> QED BY <4>1, <4>3
    <3>2. CASE i # 0
      <4> DEFINE k == i - 1
                 s0 == StreamOf(k, n)
                 p0 == PassOf(k, n)
      <4>1. k \in Nat /\ k + 1 = i
        BY <3>2
      <4>2. Bounded(t, st, p0, s0, P)
        BY <2>6, <2>9, <3>2
      <4> HIDE DEF k
      <4>3. s0 \in 1..n /\ p0 \in Nat
        BY <1>2, <2>3, <4>1, PlaceBounds
      <4>4. \/ s0 = n /\ StreamOf(k + 1, n) = 1 /\ PassOf(k + 1, n) = p0 + 1
            \/ StreamOf(k + 1, n) = s0 + 1 /\ PassOf(k + 1, n) = p0
        BY <2>3, <4>1, NextPlace
      <4>5. \/ s0 = n /\ s = 1 /\ p = p0 + 1
            \/ s = s0 + 1 /\ p = p0
        BY <4>1, <4>4
      <4>6. p < P
        BY <2>3, <2>7, PlaceBounds DEF P
      <4> HIDE DEF s0, p0, s, p
      <4>7. CASE s = 1 /\ p = p0 + 1
        <5>1. p0 \in 0..(P - 2) /\ s0 \in Nat
          BY <1>2, <4>3, <4>6, <4>7
        <5>2. Entry(t, BeginPass(st), p0 + 1, 1, P)
          BY <1>2, <2>6, <2>9, <4>2, <5>1, EnterPass
        <5> QED BY <4>7, <5>2
      <4>8. CASE s = s0 + 1 /\ p = p0
        <5>1. s0 \in Nat /\ s # 1
          BY <2>3, <4>3, <4>8
        <5>2. Entry(t, st, p0, s0 + 1, P)
          BY <1>2, <4>2, <4>3, <5>1, EnterNext
        <5> QED BY <4>8, <5>1, <5>2
      <4> QED BY <4>5, <4>7, <4>8
    <3> QED BY <3>1, <3>2
  <2>10. calm => At(i + 1, v)
    <3>1. ASSUME calm PROVE Bounded(t, v, p, s, P)
      BY <2>8, <2>9, <3>1
    <3> HIDE DEF calm
    <3>2. i + 1 # 0 /\ PassOf((i + 1) - 1, n) = p /\ StreamOf((i + 1) - 1, n) = s
      BY <2>1
    <3> HIDE DEF p, s
    <3> QED BY <3>1, <3>2
  <2> QED BY <2>8, <2>10
<1>8. Good(N)
  <2>1. N \in S
    <3> HIDE DEF S
    <3> QED BY <1>3, <1>6, <1>7, NatSetInduction
  <2> QED BY <1>3, <2>1
<1> DEFINE q == P - 1 + n
<1>9. q \in Nat
  BY <1>1, <1>2
<1>10. ASSUME NEW st \in f[N], calm PROVE Under(t, st.c, q)
  <2>1. st \in CallType(1..n) /\ At(N, st)
    BY <1>8, <1>10
  <2>2. st.c \in Count
    BY <2>1 DEF CallType
  <2>3. CASE N = 0
    <3>1. Under(t, st.c, 0) /\ 0 <= q
      BY <1>9, <2>1, <2>3
    <3> QED BY <1>9, <1>10, <2>2, <3>1, UnderFacts
  <2>4. CASE N # 0
    <3> DEFINE i == N - 1
    <3>1. n \in Nat \ {0} /\ i \in Nat /\ i = P * n - 1
      <4>1. n = 0 => N = 0
        BY <1>2 DEF N
      <4> QED BY <1>1, <1>3, <2>4, <4>1 DEF N
    <3>2. Bounded(t, st, PassOf(i, n), StreamOf(i, n), P)
      BY <2>1, <2>4
    <3> HIDE DEF i
    <3>3. PassOf(i, n) = P - 1 /\ StreamOf(i, n) = n
      BY <1>2, <3>1, PlaceBounds
    <3>4. Bounded(t, st, P - 1, n, P)
      BY <3>2, <3>3
    <3>5. ~(P - 1 < P - 1)
      BY <1>2
    <3> QED BY <3>4, <3>5 DEF Bounded
  <2> QED BY <2>3, <2>4
<1>11. CASE t.set["burst"] = 0
  <2>1. u \in f[N]
    BY <1>4, <1>11 DEF AfterPasses
  <2> QED BY <1>1, <1>8, <1>10, <2>1 DEF P
<1>12. CASE t.set["burst"] # 0
  <2>1. PICK st \in f[N], g \in SUBSET Streams : u = [st EXCEPT !.green = g]
    <3> DEFINE all == f[N]
    <3>1. u \in AfterPasses(t, all)
      BY <1>4
    <3> HIDE DEF all
    <3>2. \E st \in all, g \in SUBSET Streams : u = [st EXCEPT !.green = g]
      <4> HIDE DEF calm
      <4> QED BY <1>12, <3>1, AfterPassesAre
    <3> QED BY <3>2 DEF all
  <2>2. st \in CallType(1..n)
    BY <1>8
  <2>3. u \in CallType(Streams) /\ u.c = st.c
    BY <1>1, <2>1, <2>2 DEF CallType
  <2> QED BY <1>1, <1>10, <2>3 DEF P
<1> QED BY <1>11, <1>12

-----------------------------------------------------------------------------
(* iperf_recv *)

\* The counters after the streams of order were read.
Received(e, order) ==
  FoldLeft(LAMBDA c, s : Add(c, Least(pipe[s], BlockUnits)), counted[e], order)

\* Counter by counter, in the first n streams of order.
ReceivedIn(e, order, n) ==
  \E g : /\ g[0] = counted[e]
         /\ \A i \in 1..n : g[i] = Add(g[i - 1], Least(pipe[order[i]], BlockUnits))
         /\ Received(e, order) = g[n]

LEMMA ReceiveSteps ==
  ASSUME NEW e, NEW n \in Nat, NEW order, DOMAIN order = 1..n
  PROVE  ReceivedIn(e, order, n)
<1> DEFINE Body(it, s) == IF s = {} THEN counted[e]
                          ELSE Add(it[s \ {Max(s)}], Least(pipe[order[Max(s)]], BlockUnits))
           Is(it, D) == it = [s \in SUBSET D |-> Body(it, s)]
           S == {k \in Nat : \E it : Is(it, 1..k)}
<1>1. 0 \in S
  <2> DEFINE it == [s \in SUBSET (1..0) |-> counted[e]]
  <2>1. \A s \in SUBSET (1..0) : Body(it, s) = counted[e]
    OBVIOUS
  <2>2. Is(it, 1..0)
    BY <2>1
  <2> QED BY <2>2
<1>2. ASSUME NEW k \in Nat, k \in S PROVE k + 1 \in S
  <2>1. PICK it : Is(it, 1..k)
    BY <1>2
  <2> DEFINE jt == [s \in SUBSET (1..(k + 1)) |-> Body(it, s)]
  <2>2. ASSUME NEW s \in SUBSET (1..(k + 1)) PROVE Body(jt, s) = Body(it, s)
    <3>1. CASE s = {}
      BY <3>1
    <3>2. CASE s # {}
      <4> DEFINE r == s \ {Max(s)}
      <4>1. r \in SUBSET (1..k)
        BY <3>2, WithoutLast
      <4>2. r \in SUBSET (1..(k + 1))
        OBVIOUS
      <4> HIDE DEF r
      <4>3. it[r] = Body(it, r)
        BY <4>1, <2>1
      <4>4. jt[r] = Body(it, r)
        BY <4>2
      <4> QED BY <4>3, <4>4 DEF r
    <3> QED BY <3>1, <3>2
  <2>3. Is(jt, 1..(k + 1))
    BY <2>2
  <2>4. k + 1 \in Nat
    OBVIOUS
  <2>5. \E lt : Is(lt, 1..(k + 1))
    BY <2>3
  <2> QED BY <2>4, <2>5
<1>3. n \in S
  <2> HIDE DEF S
  <2> QED BY <1>1, <1>2, NatSetInduction
<1>4. PICK jt : Is(jt, 1..n)
  BY <1>3
<1> DEFINE it == CHOOSE it : Is(it, DOMAIN order)
<1>5. Is(it, DOMAIN order)
  BY <1>4
<1>6. Received(e, order) = it[DOMAIN order]
  BY DEF Received, FoldLeft, MapThenFoldSet
<1> DEFINE g == [i \in 0..n |-> it[1..i]]
<1>7. ASSUME NEW i \in 1..n
      PROVE  g[i] = Add(g[i - 1], Least(pipe[order[i]], BlockUnits))
  <2>a. 1..i \in SUBSET DOMAIN order
    BY LastOfRange
  <2>1. it[1..i] = Body(it, 1..i)
    BY <1>5, <2>a
  <2>2. it[1..i] = Add(it[1..(i - 1)], Least(pipe[order[i]], BlockUnits))
    BY <2>1, LastOfRange
  <2> QED BY <2>2
<1>8. g[0] = counted[e]
  <2>1. {} \in SUBSET DOMAIN order /\ 1..0 = {}
    OBVIOUS
  <2>2. it[{}] = Body(it, {})
    BY <1>5, <2>1
  <2> QED BY <2>1, <2>2
<1>9. Received(e, order) = g[n]
  BY <1>6
<1> HIDE DEF g
<1> QED BY <1>7, <1>8, <1>9 DEF ReceivedIn

LEMMA OrderIs ==
  ASSUME NEW T, IsFiniteSet(T)
  PROVE  /\ Cardinality(T) \in Nat /\ DOMAIN SetToSeq(T) = 1..Cardinality(T)
         /\ \A i \in 1..Cardinality(T) : SetToSeq(T)[i] \in T
<1> DEFINE n == Cardinality(T)
           Good(f) == f \in [1..n -> T] /\ IsInjective(f)
<1>1. n \in Nat /\ ExistsBijection(1..n, T)
  BY FS_CardinalityType
<1>2. \E f : Good(f)
  <2>1. PICK f : f \in Bijection(1..n, T)
    BY <1>1 DEF ExistsBijection
  <2>2. f \in [1..n -> T] /\ IsInjective(f)
    BY <2>1 DEF Bijection, Injection
  <2> QED BY <2>2
<1>3. SetToSeq(T) = CHOOSE f \in [1..n -> T] : IsInjective(f)
  BY DEF SetToSeq
<1>4. SetToSeq(T) \in [1..n -> T]
  BY <1>2, <1>3
<1> HIDE DEF n
<1>5. DOMAIN SetToSeq(T) = 1..n /\ \A i \in 1..n : SetToSeq(T)[i] \in T
  BY <1>4
<1> QED BY <1>1, <1>5 DEF n

LEMMA ReadableFinite ==
  ASSUME Shape, NEW e
  PROVE  /\ Readable(e) \subseteq Streams /\ IsFiniteSet(Readable(e))
         /\ Cardinality(Readable(e)) \in Nat
         /\ Cardinality(Readable(e)) <= Cardinality(Streams)
<1>1. IsFiniteSet(Streams) /\ Cardinality(Streams) \in Nat
  BY StreamCount DEF Shape
<1>2. Readable(e) \in SUBSET Streams
  BY DEF Readable
<1>3. IsFiniteSet(Readable(e)) /\ Cardinality(Readable(e)) <= Cardinality(Streams)
  BY <1>1, <1>2, FS_Subset
<1>4. Cardinality(Readable(e)) \in Nat
  BY <1>3, FS_CardinalityType
<1> QED BY <1>2, <1>3, <1>4

\* What the receiver counts: a block of each stream that was read, at most.
LEMMA ReceivedBounded ==
  ASSUME Shape, NEW e \in Ends, NEW t \in TestType,
         NEW c, c = Received(e, SetToSeq(Readable(e)))
  PROVE  /\ c \in Count
         /\ Unsigned(t) /\ ~LimitReached(t, counted[e]) => Under(t, c, Cardinality(Streams))
<1> DEFINE T == Readable(e)
           n == Cardinality(T)
           order == SetToSeq(T)
           w == Cardinality(Streams)
           calm == Unsigned(t) /\ ~LimitReached(t, counted[e])
<1>1. T \subseteq Streams /\ IsFiniteSet(T) /\ n \in Nat /\ n <= w
  BY ReadableFinite
<1>2. w \in Nat
  BY StreamCount DEF Shape
<1>3. DOMAIN order = 1..n /\ \A i \in 1..n : order[i] \in T
  BY <1>1, OrderIs
<1> HIDE DEF T, n, order, w
<1>4. PICK g : /\ g[0] = counted[e]
               /\ \A i \in 1..n : g[i] = Add(g[i - 1], Least(pipe[order[i]], BlockUnits))
               /\ Received(e, order) = g[n]
  <2>1. n \in Nat /\ DOMAIN order = 1..n
    BY <1>1, <1>3
  <2>2. ReceivedIn(e, order, n)
    BY <2>1, ReceiveSteps
  <2> QED BY <2>2 DEF ReceivedIn
<1>5. ASSUME NEW i \in 1..n PROVE Least(pipe[order[i]], BlockUnits) \in 0..BlockUnits
  <2>1. pipe[order[i]] \in 0..Room /\ BlockUnits \in Nat /\ Room \in Nat
    BY <1>1, <1>3, MostUnits DEF Shape
  <2> DEFINE x == pipe[order[i]]
  <2> HIDE DEF x
  <2>2. x \in 0..Room
    BY <2>1 DEF x
  <2>3. Least(x, BlockUnits) \in 0..BlockUnits
    BY <2>1, <2>2 DEF Least
  <2> QED BY <2>3 DEF x
<1> DEFINE Good(i) == g[i] \in Count /\ (calm => Under(t, g[i], i))
           S == {i \in Nat : i <= n => Good(i)}
<1>6. 0 \in S
  <2>1. counted[e] \in Count
    BY DEF Shape
  <2>2. calm => Under(t, counted[e], 0)
    BY <2>1, UnderFacts
  <2> QED BY <1>4, <2>1, <2>2
<1>7. ASSUME NEW i \in Nat, i \in S PROVE i + 1 \in S
  <2> SUFFICES ASSUME i + 1 <= n PROVE Good(i + 1)
    OBVIOUS
  <2> DEFINE j == i + 1
             u == Least(pipe[order[j]], BlockUnits)
  <2>1. j \in 1..n /\ j - 1 = i /\ i <= n
    BY <1>1
  <2>2. Good(i)
    BY <1>7, <2>1
  <2> HIDE DEF j
  <2>3. g[j] = Add(g[i], u)
    BY <1>4, <2>1
  <2>4. u \in 0..BlockUnits
    BY <1>5, <2>1
  <2> HIDE DEF u
  <2>5. g[j] \in Count
    BY <2>2, <2>3, <2>4, AddTyped
  <2>6. ASSUME calm PROVE Under(t, g[j], i + 1)
    <3>1. g[i] \in Count /\ Under(t, g[i], i)
      BY <2>2, <2>6
    <3>2. Under(t, Add(g[i], u), i + 1)
      BY <2>4, <2>6, <3>1, UnderFacts
    <3> QED BY <2>3, <3>2
  <2> HIDE DEF calm
  <2>7. Good(j)
    BY <2>5, <2>6 DEF j
  <2> QED BY <2>7 DEF j
<1>8. Good(n)
  <2>1. n \in S
    <3> HIDE DEF S
    <3> QED BY <1>1, <1>6, <1>7, NatSetInduction
  <2> QED BY <1>1, <2>1
<1>9. c = g[n]
  BY <1>4 DEF T, order
<1>10. ASSUME calm PROVE Under(t, c, w)
  <2>1. c \in Count /\ Under(t, c, n)
    BY <1>8, <1>9, <1>10
  <2> QED BY <1>1, <1>2, <1>10, <2>1, UnderFacts
<1> QED BY <1>8, <1>9, <1>10 DEF w

LEMMA ReceiveGood ==
  ASSUME Shape, NEW e \in Ends, NEW t \in TestType, NEW u, u = iperf_recv(e)
  PROVE  /\ u \in CallType(Streams)
         /\ Unsigned(t) /\ ~LimitReached(t, counted[e]) => Under(t, u.c, Cardinality(Streams))
<1> DEFINE left == [s \in Streams |-> IF s \in Readable(e)
                                      THEN pipe[s] - Least(pipe[s], BlockUnits) ELSE pipe[s]]
           c == Received(e, SetToSeq(Readable(e)))
<1>1. u = [Begin(e) EXCEPT !.pipe = left, !.c = c]
  BY DEF iperf_recv, Begin, Readable, Received
<1>2. left \in [Streams -> 0..Room]
  <2> SUFFICES ASSUME NEW s \in Streams
               PROVE  pipe[s] \in 0..Room /\ pipe[s] - Least(pipe[s], BlockUnits) \in 0..Room
    OBVIOUS
  <2>1. pipe[s] \in 0..Room /\ BlockUnits \in Nat /\ Room \in Nat
    BY MostUnits DEF Shape
  <2> QED BY <2>1 DEF Least
<1>3. /\ c \in Count
      /\ Unsigned(t) /\ ~LimitReached(t, counted[e]) => Under(t, c, Cardinality(Streams))
  BY ReceivedBounded
<1> HIDE DEF left, c
<1>4. Begin(e) \in CallType(Streams)
  BY BeginTyped
<1>5. u \in CallType(Streams) /\ u.c = c
  BY <1>1, <1>2, <1>3, <1>4 DEF CallType
<1> QED BY <1>3, <1>5

\* A call of either end, with the limit of the end that makes it.
LEMMA TransferGood ==
  ASSUME Shape, NEW e \in Ends, NEW t \in TestType, Of(e) = t, t.set["burst"] \in Nat,
         NEW knock \in BOOLEAN, NEW u \in Transfer(e, knock)
  PROVE  /\ u \in CallType(Streams)
         /\ Unsigned(t) /\ ~LimitReached(t, counted[e]) =>
              Under(t, u.c, Passes(t) - 1 + Cardinality(Streams))
<1>1. CASE u = iperf_recv(e)
  <2> DEFINE w == Cardinality(Streams)
             q == Passes(t) - 1 + w
  <2>1. u \in CallType(Streams) /\ (Unsigned(t) /\ ~LimitReached(t, counted[e]) => Under(t, u.c, w))
    BY <1>1, ReceiveGood
  <2>2. w \in Nat
    BY StreamCount DEF Shape
  <2>3. q \in Nat /\ w <= q
    <3> HIDE DEF w
    <3>1. Passes(t) \in Nat \ {0}
      BY PassesTyped
    <3> QED BY <2>2, <3>1
  <2>4. u.c \in Count
    BY <2>1 DEF CallType
  <2> HIDE DEF w, q
  <2>5. Unsigned(t) /\ ~LimitReached(t, counted[e]) => Under(t, u.c, q)
    BY <2>1, <2>2, <2>3, <2>4, UnderFacts
  <2> QED BY <2>1, <2>5 DEF q, w
<1>2. CASE u \in iperf_send(e)
  BY <1>2, SendGood
<1>3. CASE u = Begin(e)
  <2> DEFINE q == Passes(t) - 1 + Cardinality(Streams)
  <2>1. u \in CallType(Streams) /\ u.c = counted[e] /\ u.c \in Count
    BY <1>3, BeginTyped DEF Shape
  <2>2. q \in Nat /\ 0 <= q
    <3> DEFINE w == Cardinality(Streams)
    <3>1. w \in Nat /\ Passes(t) \in Nat \ {0}
      BY PassesTyped, StreamCount DEF Shape
    <3> HIDE DEF w
    <3>2. Passes(t) - 1 + w \in Nat /\ 0 <= Passes(t) - 1 + w
      BY <3>1
    <3> QED BY <3>2 DEF w
  <2> HIDE DEF q
  <2>3. ASSUME Unsigned(t), ~LimitReached(t, counted[e]) PROVE Under(t, u.c, q)
    BY <2>1, <2>2, <2>3, UnderFacts
  <2> QED BY <2>1, <2>3 DEF q
<1> QED BY <1>1, <1>2, <1>3 DEF Transfer

-----------------------------------------------------------------------------
(* The invariant *)

Typed ==
  /\ server \in TestType /\ server.role = "s" /\ client \in TestType
  /\ phase \in {"idle", "connected", "waiting", "running", "ended"}
  /\ last \in [WireKeys -> Int] /\ sessions \in 0..MaxSessions
  /\ counted \in [Ends -> Count] /\ omitting \subseteq Ends

\* Between two tests the server is a receiver, with what the last clients left
\* of the options that iperf_reset_test does not set.
Between ==
  phase \in {"idle", "connected"} =>
    /\ server.reverse = FALSE /\ server.sender = FALSE
    /\ \A k \in WireKeys : server.set[k] = IF k \in Sticky THEN last[k] ELSE Default(k)

\* A client has the options its arguments or its Iperf3Config give.
ClientParsed ==
  /\ phase = "idle" => client = NoClient /\ request = NoRequest
  /\ phase # "idle" =>
       /\ request \in Requests /\ client = ClientOf(request).test
       /\ ClientOf(request).ok /\ ClientOf(request).test.role = "c"

\* What the server was told stays told.
LastGiven == Exchanged => \A k \in Given(client) : last[k] = client.set[k]
ServerTurned == Exchanged => server.sender = server.reverse /\ Exact(server)

DataShape ==
  /\ phase \in {"idle", "connected"} => pipe = <<>> /\ green = {}
  /\ Exchanged => pipe \in [Streams -> 0..Room] /\ green \subseteq Streams
  /\ phase \in {"running", "ended"} => client.set["parallel"] >= 0

\* The client goes on only below its limit, but for the data of the omit period.
NotYet ==
  phase = "running" /\ "client" \notin omitting => ~LimitReached(client, counted["client"])

IInv ==
  /\ Typed /\ Between /\ ClientParsed /\ LastGiven /\ ServerTurned
  /\ ServerRunsClientsTest /\ DataShape /\ NotYet /\ LimitKept

LEMMA ZeroCount == Zero \in Count /\ Zero.bytes = 0 /\ Zero.blocks = 0
<1> DEFINE M == MaxCount * BlockUnits
<1>1. M \in Nat /\ MaxCount \in Nat
  BY MostUnits
<1> HIDE DEF M
<1>2. 0 \in 0..M /\ 0 \in 0..MaxCount
  BY <1>1
<1> QED BY <1>2 DEF Zero, Count, M

LEMMA ZeroIsBelow ==
  ASSUME NEW t \in TestType, Unsigned(t)
  PROVE  ~LimitReached(t, Zero)
<1>1. t.set["num"] \in Nat /\ t.set["blockcount"] \in Nat
  BY DEF Unsigned
<1> QED BY <1>1, ZeroCount DEF LimitReached

LEMMA ClientIs ==
  ASSUME ClientParsed, phase # "idle"
  PROVE  /\ request \in RequestType
         /\ client \in TestType /\ Exact(client) /\ Unsigned(client)
         /\ request.kind = "args" => OneEnd(client.set) /\ request.args \in Seq(ArgType)
         /\ request.kind = "java" \/ OneR(request.args) => client.sender = ~client.reverse
<1>1. /\ request \in RequestType /\ client = ClientOf(request).test
      /\ ClientOf(request).ok /\ ClientOf(request).test.role = "c"
  BY TransferAssumption DEF ClientParsed
<1> QED BY <1>1, ClientSound

\* The burst of either end is in range, and both have the same number of streams.
LEMMA EndIs ==
  ASSUME IInv, Exchanged, NEW e \in Ends
  PROVE  /\ Of(e) \in TestType /\ Of(e).set["burst"] \in Nat
         /\ Of(e).set["parallel"] = client.set["parallel"]
<1>1. phase # "idle"
  BY DEF Exchanged
<1>2. Unsigned(client) /\ client \in TestType /\ server \in TestType
  BY <1>1, ClientIs DEF IInv, Typed
<1>3. client.set["burst"] \in Nat
  BY <1>2 DEF Unsigned
<1>4. \A k \in WireKeys :
        server.set[k] = IF k \in Given(client) THEN client.set[k]
                        ELSE IF k \in Sticky THEN last[k] ELSE Default(k)
  BY DEF IInv, ServerRunsClientsTest
<1>5. /\ "burst" \in WireKeys /\ "burst" \notin Sticky /\ Default("burst") = 0
      /\ "parallel" \in WireKeys /\ "parallel" \in Given(client)
  BY KeysAre, Defaults, GivenKeys DEF Sticky
<1>6. server.set["burst"] \in Nat /\ server.set["parallel"] = client.set["parallel"]
  BY <1>3, <1>4, <1>5
<1> QED BY <1>2, <1>3, <1>6 DEF Of

LEMMA InitEstablishes == Init => IInv
<1> SUFFICES ASSUME Init PROVE IInv
  OBVIOUS
<1>1. /\ server \in TestType /\ server.role = "s"
      /\ server.sender = FALSE /\ server.reverse = FALSE
      /\ \A k \in Keys : server.set[k] = Default(k)
  BY ServerStarts DEF Init
<1>2. client \in TestType
  BY DefaultsTyped DEF Init, NoClient
<1>3. last \in [WireKeys -> Int] /\ \A k \in WireKeys : last[k] = Default(k)
  BY Defaults DEF Init
<1>4. phase = "idle" /\ sessions = 0 /\ pipe = <<>> /\ green = {} /\ omitting = {}
      /\ client = NoClient /\ request = NoRequest
  BY DEF Init
<1>5. counted \in [Ends -> Count]
  BY ZeroCount DEF Init
<1>6. sessions \in 0..MaxSessions
  BY <1>4, TransferAssumption
<1>7. Typed
  BY <1>1, <1>2, <1>3, <1>4, <1>5, <1>6 DEF Typed
<1>8. Between
  BY <1>1, <1>3, KeysAre DEF Between
<1>9. ~Exchanged /\ phase # "running" /\ phase # "ended"
  BY <1>4 DEF Exchanged
<1> QED BY <1>4, <1>7, <1>8, <1>9 DEF IInv, ClientParsed, LastGiven, ServerTurned,
     ServerRunsClientsTest, DataShape, NotYet, LimitKept

LEMMA StartClientKeeps ==
  ASSUME IInv, NEW r \in Requests, StartClient(r)
  PROVE  IInv'
<1>1. /\ phase = "idle" /\ phase' = "connected" /\ request' = r
      /\ client' = ClientOf(r).test /\ ClientOf(r).ok /\ ClientOf(r).test.role = "c"
      /\ sessions < MaxSessions /\ sessions' = sessions + 1
      /\ UNCHANGED <<server, last, pipe, green, counted, omitting>>
  BY DEF StartClient, dataVars
<1>2. client' \in TestType
  BY <1>1, ClientSound, TransferAssumption
<1>3. sessions' \in 0..MaxSessions
  BY <1>1, TransferAssumption DEF IInv, Typed
<1>4. Typed'
  BY <1>1, <1>2, <1>3 DEF IInv, Typed
<1>5. Between'
  BY <1>1 DEF IInv, Between
<1>6. ClientParsed'
  BY <1>1 DEF ClientParsed
<1>7. ~Exchanged' /\ phase' # "running" /\ phase' # "ended"
  BY <1>1 DEF Exchanged
<1>8. DataShape'
  BY <1>1, <1>7 DEF IInv, DataShape
<1> QED BY <1>4, <1>5, <1>6, <1>7, <1>8 DEF IInv, LastGiven, ServerTurned,
     ServerRunsClientsTest, NotYet, LimitKept

LEMMA ExchangeParametersKeeps ==
  ASSUME IInv, ExchangeParameters
  PROVE  IInv'
<1> DEFINE j == send_parameters(client)
<1>1. /\ phase = "connected" /\ server' = get_parameters(server, j)
      /\ last' = [k \in WireKeys |-> IF k \in DOMAIN j.set THEN j.set[k] ELSE last[k]]
      /\ phase' = IF client.set["parallel"] >= 0 THEN "running" ELSE "waiting"
      /\ pipe' = [s \in Streams |-> 0] /\ green' = Streams
      /\ counted' = [e \in Ends |-> Zero]
      /\ omitting' = IF client.set["omit"] = 0 THEN {} ELSE Ends
      /\ client' = client /\ request' = request /\ sessions' = sessions
  BY DEF ExchangeParameters
<1>2. /\ server \in TestType /\ client \in TestType /\ server.role = "s"
      /\ last \in [WireKeys -> Int]
  BY DEF IInv, Typed
<1>3. /\ server.reverse = FALSE /\ server.sender = FALSE
      /\ \A k \in WireKeys : server.set[k] = IF k \in Sticky THEN last[k] ELSE Default(k)
  BY <1>1 DEF IInv, Between
<1>4. /\ server' \in TestType /\ Exact(server') /\ server'.role = "s"
      /\ server'.protocol = client.protocol /\ server'.reverse = client.reverse
      /\ server'.sender = client.reverse
      /\ \A k \in Keys : server'.set[k] = IF k \in Given(client) THEN client.set[k]
                                          ELSE server.set[k]
  BY <1>1, <1>2, <1>3, Told
<1>5. DOMAIN j.set = Given(client) /\ \A k \in Given(client) : j.set[k] = client.set[k]
  BY DEF send_parameters
<1>6. /\ last' \in [WireKeys -> Int]
      /\ \A k \in WireKeys : last'[k] = IF k \in Given(client) THEN client.set[k] ELSE last[k]
  <2> HIDE DEF j
  <2>1. \A k \in Given(client) : client.set[k] \in Int
    BY <1>2, GivenKeys DEF TestType
  <2> QED BY <1>1, <1>2, <1>5, <2>1
<1>7. phase' \in {"running", "waiting"} /\ Exchanged'
      /\ (phase' = "running" => client.set["parallel"] >= 0)
  BY <1>1 DEF Exchanged
<1>8. Typed'
  <2>1. counted' \in [Ends -> Count]
    BY <1>1, ZeroCount
  <2>2. omitting' \subseteq Ends
    BY <1>1
  <2> QED BY <1>1, <1>2, <1>4, <1>6, <1>7, <2>1, <2>2 DEF IInv, Typed
<1>9. ClientParsed'
  BY <1>1, <1>7 DEF IInv, ClientParsed
<1>10. LastGiven' /\ ServerTurned'
  <2>1. Given(client) \subseteq WireKeys
    BY GivenKeys
  <2>2. \A k \in Given(client) : last'[k] = client.set[k]
    BY <1>6, <2>1
  <2>3. Exact(server')
    BY <1>4
  <2>4. ServerTurned'
    BY <1>4, <2>3 DEF ServerTurned, Exact
  <2> QED BY <1>1, <2>2, <2>4 DEF LastGiven
<1>11. ServerRunsClientsTest'
  <2>1. \A k \in WireKeys :
          server'.set[k] = IF k \in Given(client) THEN client.set[k]
                           ELSE IF k \in Sticky THEN last'[k] ELSE Default(k)
    BY <1>3, <1>4, <1>6, KeysAre
  <2> QED BY <1>1, <1>4, <2>1 DEF ServerRunsClientsTest
<1>12. DataShape'
  <2>1. Streams' = Streams
    BY <1>1 DEF Streams
  <2>2. 0 \in 0..Room
    BY TransferAssumption
  <2>3. pipe' \in [Streams -> 0..Room] /\ green' \subseteq Streams
    BY <1>1, <2>2
  <2> QED BY <1>1, <1>7, <2>1, <2>3 DEF DataShape
<1>13. NotYet' /\ LimitKept' /\ Between'
  <2>1. Unsigned(client) /\ client \in TestType
    BY <1>1, ClientIs DEF IInv
  <2>2. ~LimitReached(client, Zero)
    BY <2>1, ZeroIsBelow
  <2>3. counted'["client"] = Zero
    BY <1>1 DEF Ends
  <2>4. ~LimitReached(client', counted'["client"])
    BY <1>1, <2>2, <2>3
  <2> QED BY <1>7, <2>4 DEF NotYet, LimitKept, Between
<1> QED BY <1>8, <1>9, <1>10, <1>11, <1>12, <1>13 DEF IInv

LEMMA CleanUpKeeps ==
  ASSUME IInv, CleanUp
  PROVE  IInv'
<1>1. /\ server' = ResetOptions(server) /\ phase # "idle" /\ phase' = "idle"
      /\ client' = NoClient /\ request' = NoRequest
      /\ pipe' = <<>> /\ green' = {} /\ omitting' = {}
      /\ counted' = [e \in Ends |-> Zero] /\ last' = last /\ sessions' = sessions
  BY DEF CleanUp
<1>2. server \in TestType
  BY DEF IInv, Typed
<1>3. /\ server' \in TestType /\ server'.role = "s"
      /\ server'.sender = FALSE /\ server'.reverse = FALSE
      /\ \A k \in Keys :
           server'.set[k] = IF k \in LocalKeys \cup Sticky THEN server.set[k] ELSE Default(k)
  BY <1>1, <1>2, WasReset
<1>4. \A k \in WireKeys : k \in Sticky => server.set[k] = last[k]
  <2>1. CASE phase = "connected"
    BY <2>1 DEF IInv, Between
  <2>2. CASE phase # "connected"
    <3>1. Exchanged
      BY <1>1, <2>2 DEF IInv, Typed, Exchanged
    <3> QED BY <3>1 DEF IInv, ServerRunsClientsTest, LastGiven
  <2> QED BY <2>1, <2>2
<1>5. Between'
  <2>1. \A k \in WireKeys : k \in Keys /\ k \notin LocalKeys
    BY KeysAre
  <2>2. \A k \in WireKeys : server'.set[k] = IF k \in Sticky THEN last[k] ELSE Default(k)
    BY <1>3, <1>4, <2>1
  <2> QED BY <1>1, <1>3, <2>2 DEF Between
<1>6. Typed'
  <2>1. counted' \in [Ends -> Count]
    BY <1>1, ZeroCount
  <2>2. client' \in TestType
    BY <1>1, DefaultsTyped DEF NoClient
  <2> QED BY <1>1, <1>3, <2>1, <2>2 DEF IInv, Typed
<1>7. ~Exchanged' /\ phase' # "running" /\ phase' # "ended"
  BY <1>1 DEF Exchanged
<1>8. NoClient' = NoClient /\ NoRequest' = NoRequest
  BY DEF NoClient, NoRequest
<1>9. ClientParsed' /\ DataShape'
  BY <1>1, <1>7 DEF ClientParsed, DataShape
<1> QED BY <1>5, <1>6, <1>7, <1>9 DEF IInv, LastGiven, ServerTurned,
     ServerRunsClientsTest, NotYet, LimitKept

LEMMA TurnKeeps ==
  ASSUME IInv, NEW e \in Ends, NEW knock \in BOOLEAN, NEW due \in SUBSET Timers(e),
         Turn(e, due, knock)
  PROVE  IInv'
<1>1. PICK st \in Transfer(e, knock) :
        LET c == IF "omit" \in due THEN Zero ELSE st.c
            omits == IF "omit" \in due THEN omitting \ {e} ELSE omitting
        IN /\ pipe' = st.pipe
           /\ green' \in IF "send" \in due /\ Sends(e) THEN SUBSET Streams ELSE {st.green}
           /\ counted' = [counted EXCEPT ![e] = c]
           /\ omitting' = omits
           /\ phase' = IF /\ e = "client" /\ e \notin omits
                          /\ "test" \in due \/ LimitReached(client, c)
                       THEN "ended" ELSE phase
  BY DEF Turn
<1>2. phase = "running" /\ UNCHANGED <<server, client, request, last, sessions>>
  BY DEF Turn, optionVars
<1> DEFINE c == IF "omit" \in due THEN Zero ELSE st.c
           omits == IF "omit" \in due THEN omitting \ {e} ELSE omitting
           t == Of(e)
           q == Passes(t) - 1 + Cardinality(Streams)
<1>3. /\ pipe' = st.pipe /\ (green' \subseteq Streams \/ green' = st.green)
      /\ counted' = [counted EXCEPT ![e] = c] /\ omitting' = omits
      /\ phase' = IF /\ e = "client" /\ e \notin omits
                     /\ "test" \in due \/ LimitReached(client, c)
                  THEN "ended" ELSE phase
  BY <1>1
<1>4. Exchanged /\ Exchanged' /\ phase' \in {"running", "ended"}
  BY <1>2, <1>3 DEF Exchanged
<1>5. t \in TestType /\ t.set["burst"] \in Nat
  BY <1>4, EndIs
<1>6. Shape
  BY <1>2, <1>4 DEF IInv, Typed, DataShape, Shape, TestType, Count,
     Keys, WireKeys, OptionKey, LocalKeys, Range
<1>7. /\ st \in CallType(Streams)
      /\ Unsigned(t) /\ ~LimitReached(t, counted[e]) => Under(t, st.c, q)
  <2> HIDE DEF t
  <2>1. Of(e) = t
    BY DEF t
  <2> QED BY <1>1, <1>5, <1>6, <2>1, TransferGood
<1>8. c \in Count
  BY <1>7, ZeroCount DEF CallType
<1>9. Unsigned(client) /\ client \in TestType
  BY <1>2, ClientIs DEF IInv
<1> HIDE DEF c, t, q
<1>10. Typed'
  <2>1. counted' \in [Ends -> Count]
    BY <1>3, <1>8 DEF IInv, Typed
  <2>2. omitting' \subseteq Ends
    BY <1>3 DEF IInv, Typed
  <2> QED BY <1>2, <1>4, <2>1, <2>2 DEF IInv, Typed
<1>11. Between'
  BY <1>4 DEF Between
<1>12. ClientParsed'
  BY <1>2, <1>4 DEF IInv, ClientParsed
<1>13. LastGiven' /\ ServerTurned'
  BY <1>2, <1>4 DEF IInv, LastGiven, ServerTurned, Exact
<1>14. ServerRunsClientsTest'
  BY <1>2, <1>4 DEF IInv, ServerRunsClientsTest
<1>15. DataShape'
  <2>1. Streams' = Streams
    BY <1>2 DEF Streams
  <2>2. pipe' \in [Streams -> 0..Room] /\ green' \subseteq Streams
    BY <1>3, <1>7 DEF CallType
  <2> QED BY <1>2, <1>4, <2>1, <2>2 DEF IInv, DataShape
<1>16. NotYet'
  <2> SUFFICES ASSUME phase' = "running", "client" \notin omitting'
               PROVE  ~LimitReached(client, counted'["client"])
    BY <1>2 DEF NotYet
  <2>1. CASE e = "client"
    <3>1. ~LimitReached(client, c)
      BY <1>3, <2>1
    <3>2. counted'["client"] = c
      BY <1>3, <2>1 DEF IInv, Typed
    <3> QED BY <3>1, <3>2
  <2>2. CASE e # "client"
    <3>1. counted'["client"] = counted["client"]
      BY <1>3, <2>2 DEF IInv, Typed, Ends
    <3>2. "client" \notin omitting
      BY <1>3, <2>2
    <3> QED BY <1>2, <3>1, <3>2 DEF IInv, NotYet
  <2> QED BY <2>1, <2>2
<1>17. LimitKept'
  <2> SUFFICES ASSUME phase' = "ended", client.set["time"] = 0
               PROVE  /\ LimitReached(client, counted'["client"])
                      /\ Under(client, counted'["client"], Excess)
    <3>1. Excess' = Excess
      BY <1>2 DEF Excess, Streams, Passes
    <3> QED BY <1>2, <3>1 DEF LimitKept, Under
  <2>1. e = "client" /\ e \notin omits /\ ("test" \in due \/ LimitReached(client, c))
    BY <1>2, <1>3
  <2>2. "test" \notin due
    BY DEF Timers
  <2>3. counted'["client"] = c
    BY <1>3, <2>1 DEF IInv, Typed
  <2>4. LimitReached(client, c)
    BY <2>1, <2>2
  <2>5. c # Zero
    BY <1>9, <2>4, ZeroIsBelow
  <2>6. c = st.c /\ "client" \notin omitting
    BY <2>1, <2>5 DEF c
  <2>7. ~LimitReached(client, counted["client"])
    BY <1>2, <2>6 DEF IInv, NotYet
  <2>8. t = client
    BY <2>1 DEF t, Of
  <2>9. Under(client, st.c, q)
    BY <1>7, <1>9, <2>1, <2>7, <2>8
  <2>10. q = Excess
    BY <2>8 DEF q, Excess
  <2> QED BY <2>3, <2>4, <2>6, <2>9, <2>10
<1> QED BY <1>10, <1>11, <1>12, <1>13, <1>14, <1>15, <1>16, <1>17 DEF IInv

LEMMA StutterKeeps ==
  ASSUME IInv, UNCHANGED vars
  PROVE  IInv'
<1>1. UNCHANGED <<server, client, request, last, sessions, phase, pipe, green, counted, omitting>>
  BY DEF vars, optionVars, dataVars
<1>2. Streams' = Streams /\ Exchanged' = Exchanged /\ Excess' = Excess
  BY <1>1 DEF Streams, Exchanged, Excess, Passes
<1> QED BY <1>1, <1>2 DEF IInv, Typed, Between, ClientParsed, LastGiven, ServerTurned,
     ServerRunsClientsTest, DataShape, NotYet, LimitKept, Exact, NoClient, NoRequest

LEMMA NextKeeps == IInv /\ [Next]_vars => IInv'
<1> SUFFICES ASSUME IInv, [Next]_vars PROVE IInv'
  OBVIOUS
<1>1. ASSUME NEW r \in Requests, StartClient(r) PROVE IInv'
  BY <1>1, StartClientKeeps
<1>2. CASE ExchangeParameters
  BY <1>2, ExchangeParametersKeeps
<1>3. CASE CleanUp
  BY <1>3, CleanUpKeeps
<1>4. ASSUME NEW e \in Ends, NEW knock \in BOOLEAN, NEW due \in SUBSET Timers(e),
             Turn(e, due, knock)
      PROVE  IInv'
  BY <1>4, TurnKeeps
<1>5. CASE UNCHANGED vars
  BY <1>5, StutterKeeps
<1> QED BY <1>1, <1>2, <1>3, <1>4, <1>5 DEF Next

-----------------------------------------------------------------------------
(* What follows from it *)

LEMMA Invariant == Spec => []IInv
<1>1. Init => IInv
  BY InitEstablishes
<1>2. IInv /\ [Next]_vars => IInv'
  BY NextKeeps
<1> QED BY <1>1, <1>2, PTL DEF Spec

LEMMA OneOfThree ==
  ASSUME NEW set, OneEnd(set)
  PROVE  Cardinality({k \in {"time", "num", "blockcount"} : set[k] # 0}) <= 1
<1> DEFINE S == {k \in {"time", "num", "blockcount"} : set[k] # 0}
<1>1. \A x, y \in S : x = y
  BY DEF OneEnd
<1>2. CASE S = {}
  BY <1>2, FS_EmptySet
<1>3. CASE S # {}
  <2>1. PICK x : S = {x}
    BY <1>1, <1>3
  <2> HIDE DEF S
  <2>2. Cardinality(S) = 1
    BY <2>1, FS_Singleton
  <2> QED BY <2>2 DEF S
<1> QED BY <1>2, <1>3

\* The types of the variables hold, and a client that was started with arguments
\* ends its test in one way at most: iperf_parse_arguments refuses -t together
\* with -n or -k, and without -t takes the duration away from a test with a limit.
THEOREM TransferTypeCorrect == Spec => []TypeOK
<1>1. ASSUME IInv PROVE TypeOK
  <2>1. request.kind = "args" => OneEnd(client.set)
    <3>1. CASE phase = "idle"
      <4>1. OneEnd(NoClient.set)
        BY DefaultsTyped, KeysAre, Defaults DEF NoClient, OneEnd
      <4> QED BY <1>1, <3>1, <4>1 DEF IInv, ClientParsed
    <3>2. CASE phase # "idle"
      BY <1>1, <3>2, ClientIs DEF IInv
    <3> QED BY <3>1, <3>2
  <2>2. phase = "running" => \A e \in Ends : Of(e).set["parallel"] >= 0
    <3> SUFFICES ASSUME phase = "running", NEW e \in Ends
                 PROVE  Of(e).set["parallel"] >= 0
      OBVIOUS
    <3>1. Of(e).set["parallel"] = client.set["parallel"]
      BY <1>1, EndIs DEF Exchanged
    <3> QED BY <1>1, <3>1 DEF IInv, DataShape
  <2>3. phase # "running" \/ pipe \in [Streams -> 0..Room]
    BY <1>1 DEF IInv, DataShape, Exchanged
  <2>4. green \subseteq DOMAIN pipe
    BY <1>1 DEF IInv, Typed, DataShape, Exchanged
  <2>5. request.kind = "args" =>
          Cardinality({k \in {"time", "num", "blockcount"} : client.set[k] # 0}) <= 1
    BY <2>1, OneOfThree
  <2> QED BY <1>1, <2>2, <2>3, <2>4, <2>5 DEF IInv, Typed, TypeOK, Count
<1>2. IInv => TypeOK
  BY <1>1
<1> QED BY <1>2, Invariant, PTL

\* Whatever clients came before, and with whatever options, the server runs the
\* test of the client that is there: send_parameters tells it every value that
\* differs from its default, get_parameters takes them, and iperf_reset_test has
\* set back the others, except for those it leaves alone (Sticky).
THEOREM TransferServerRunsClientsTest == Spec => []ServerRunsClientsTest
<1>1. IInv => ServerRunsClientsTest
  BY DEF IInv
<1> QED BY <1>1, Invariant, PTL

LEMMA OneReversal ==
  ASSUME NEW args \in Seq(ArgType),
         Cardinality({i \in DOMAIN args : args[i].opt = "R"}) <= 1
  PROVE  OneR(args)
<1> DEFINE S == {i \in DOMAIN args : args[i].opt = "R"}
<1> SUFFICES ASSUME NEW i \in S, NEW j \in S, i # j PROVE FALSE
  BY DEF OneR
<1>1. IsFiniteSet(S)
  <2>1. DOMAIN args = 1..Len(args) /\ Len(args) \in Nat
    OBVIOUS
  <2>2. IsFiniteSet(DOMAIN args)
    BY <2>1, FS_Interval
  <2> QED BY <2>2, FS_Subset
<1> HIDE DEF S
<1>2. Cardinality({i, j}) = 2
  <2>1. IsFiniteSet({i}) /\ Cardinality({i}) = 1
    BY FS_Singleton
  <2>2. Cardinality({i} \cup {j}) = 2
    <3> DEFINE T == {i}
    <3>1. j \notin T
      OBVIOUS
    <3> HIDE DEF T
    <3>2. IsFiniteSet(T) /\ Cardinality(T) = 1
      BY <2>1 DEF T
    <3>3. Cardinality(T \cup {j}) = Cardinality(T) + 1
      BY <3>1, <3>2, FS_AddElement
    <3>4. Cardinality(T \cup {j}) = 2
      BY <3>2, <3>3
    <3> QED BY <3>4 DEF T
  <2>3. {i, j} = {i} \cup {j}
    OBVIOUS
  <2> QED BY <2>2, <2>3
<1>3. {i, j} \in SUBSET S
  OBVIOUS
<1>4. 2 <= Cardinality(S)
  BY <1>1, <1>2, <1>3, FS_Subset
<1>5. Cardinality(S) <= 1 /\ Cardinality(S) \in Nat
  BY <1>1, FS_CardinalityType DEF S
<1> QED BY <1>4, <1>5

\* In whatever order the arguments come, and on both ends, one end sends and the
\* other receives, in the direction asked for: iperf_set_test_role and
\* iperf_set_test_reverse agree on the sender unless -R is given twice, and each
\* setter leaves sender_has_retransmits as check_sender_has_retransmits says.
THEOREM TransferOneEndSends == Spec => []OneEndSends
<1>1. ASSUME IInv PROVE OneEndSends
  <2> SUFFICES ASSUME Exchanged, Reversals <= 1
               PROVE  /\ client.sender = ~client.reverse /\ server.sender = client.reverse
                      /\ \A e \in Ends : Exact(Of(e))
    BY DEF OneEndSends, Exact
  <2>1. phase # "idle"
    BY DEF Exchanged
  <2>2. /\ request \in RequestType /\ Exact(client)
        /\ request.kind = "args" => request.args \in Seq(ArgType)
        /\ request.kind = "java" \/ OneR(request.args) => client.sender = ~client.reverse
    BY <1>1, <2>1, ClientIs DEF IInv
  <2>3. request.kind = "java" \/ OneR(request.args)
    <3>1. CASE request.kind = "java"
      BY <3>1
    <3>2. CASE request.kind # "java"
      <4>1. request.kind = "args"
        BY <2>2, <3>2 DEF RequestType
      <4>2. request.args \in Seq(ArgType)
        BY <2>2, <4>1
      <4>3. Cardinality({i \in DOMAIN request.args : request.args[i].opt = "R"}) <= 1
        BY <3>2 DEF Reversals
      <4> QED BY <4>2, <4>3, OneReversal
    <3> QED BY <3>1, <3>2
  <2>4. server.sender = server.reverse /\ Exact(server) /\ server.reverse = client.reverse
    BY <1>1 DEF IInv, ServerTurned, ServerRunsClientsTest
  <2>5. \A e \in Ends : Exact(Of(e))
    BY <2>2, <2>4 DEF Of
  <2> QED BY <2>2, <2>3, <2>4, <2>5
<1>2. IInv => OneEndSends
  BY <1>1
<1> QED BY <1>2, Invariant, PTL

\* However many streams there are and however large the burst, the bytes or
\* blocks of a test that its limit ends go over it by less than a block for each
\* pass but the last and one for each stream: iperf_send looks at the limit after
\* every block of a pass that is not the last, and leaves the pass.
THEOREM TransferLimitKept == Spec => []LimitKept
<1>1. IInv => LimitKept
  BY DEF IInv
<1> QED BY <1>1, Invariant, PTL
=============================================================================
