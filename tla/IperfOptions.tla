---------------------------- MODULE IperfOptions ----------------------------
(***************************************************************************)
(* The options of a test: how a client gets them from its arguments        *)
(* (iperf_parse_arguments) or from Java (parse_java_config), which of them *)
(* it tells the server (send_parameters), what the server makes of them    *)
(* (get_parameters), and what the server still has of them when it serves  *)
(* the next client (iperf_reset_test).                                     *)
(*                                                                         *)
(* A test is a record of role, protocol, direction and, in the function    *)
(* set, every option with a value, under the name it has in the JSON       *)
(* document.  Numbers are those of the code but for the interval, which is *)
(* in tenths of a second; 0 is also a NULL string, and other strings are   *)
(* numbers.                                                                *)
(***************************************************************************)
EXTENDS Integers, FiniteSets, SequencesExt

CONSTANT HasTcpinfoRetransmits \* whether this build can count retransmits

\* Options that this build refuses, while the client of another build may
\* send what they set: SCTP, affinity, flow label, congestion control, pacing.
Unimplemented == {"sctp", "A", "L", "C", "no_fq_socket_pacing"}

\* The option that sets each value, with _ for - in its name, and the values
\* with no option to set them.
OptionKey ==
  [t |-> "time", n |-> "num", k |-> "blockcount", P |-> "parallel", w |-> "window",
   M |-> "MSS", N |-> "nodelay", S |-> "TOS", O |-> "omit", T |-> "title",
   C |-> "congestion", L |-> "flowlabel", A |-> "server_affinity",
   i |-> "interval", f |-> "unit_format", B |-> "bind_address", Z |-> "zerocopy",
   cport |-> "bind_port", get_server_output |-> "get_server_output",
   udp_counters_64bit |-> "udp_counters_64bit",
   no_fq_socket_pacing |-> "no_fq_socket_pacing"]
LocalKeys == {"interval", "unit_format", "bind_address", "zerocopy", "bind_port"}
WireKeys ==
  (Range(OptionKey) \ LocalKeys) \cup {"len", "bandwidth", "burst"}
Keys == LocalKeys \cup WireKeys

ClientOptions ==
  {"u", "b", "t", "n", "k", "l", "P", "R", "w", "M", "N", "S", "L", "Z", "O", "T", "C",
   "get_server_output"}
ServerOptions == {"D", "1", "I"}

\* The options that are told apart here.
Options ==
  DOMAIN OptionKey \cup ClientOptions \cup ServerOptions \cup Unimplemented \cup {"s", "c"}

MAX_TIME == 86400
MAX_STREAMS == 128
MAX_TCP_BUFFER == 512 * 1024 * 1024
MAX_MSS == 9 * 1024
MAX_BURST == 1000
MAX_FLOWLABEL == 1048575
MAX_BLOCKSIZE == 1024 * 1024
MAX_UDP_BLOCKSIZE == 65535 - 8 - 20
UDP_RATE == 1024 * 1024
DEFAULT_UDP_BLKSIZE == 8192
DEFAULT_TCP_BLKSIZE == 128 * 1024
DURATION == 10

\* An argument: val of "R" and the like is 1; burst is what follows the slash
\* of -b, or NoBurst.
NoBurst == -1
Arg(opt, val) == [burst |-> NoBurst, opt |-> opt, val |-> val]
Switch(opt) == Arg(opt, 1)

\* bytes and blocks are unsigned; the other numbers can be anything.
ArgType ==
  {a \in [opt : Options, val : Int, burst : Int] : a.opt \in {"n", "k"} => a.val \in Nat}

\* A client with arguments, of this build or a full one, or with the fields of
\* an Iperf3Config.
ArgsOf(args, full) == [args |-> args, kind |-> "args", full |-> full]
JavaOf(down, bandwidth, parallels) ==
  [kind |-> "java", down |-> down, bandwidth |-> bandwidth, parallels |-> parallels]
RequestType ==
  [kind : {"args"}, args : Seq(ArgType), full : BOOLEAN]
    \cup [kind : {"java"}, down : BOOLEAN, bandwidth : Int, parallels : Int]

ASSUME OptionsAssumption == HasTcpinfoRetransmits \in BOOLEAN

-----------------------------------------------------------------------------
(* The fields and their setters *)

Xor(a, b) == a # b

\* iperf_new_test and iperf_defaults.
Default(k) ==
  CASE k = "time" -> DURATION [] k = "parallel" -> 1 [] k = "interval" -> 10
    [] k = "len" -> DEFAULT_TCP_BLKSIZE [] k = "server_affinity" -> -1 [] OTHER -> 0
iperf_defaults ==
  [role |-> "none", protocol |-> "tcp", sender |-> FALSE, reverse |-> FALSE,
   retrans |-> FALSE, set |-> [k \in Keys |-> Default(k)]]

check_sender_has_retransmits(t) ==
  [t EXCEPT !.retrans = t.sender /\ t.protocol = "tcp" /\ HasTcpinfoRetransmits]
set_protocol(t, p) == check_sender_has_retransmits([t EXCEPT !.protocol = p])

\* Mistake: a role set after -R forgets it.
SetRoleOnly(t, r) ==
  check_sender_has_retransmits([t EXCEPT !.role = r, !.sender = (r = "c")])

set_test_role(t, r) ==
  check_sender_has_retransmits([t EXCEPT !.role = r, !.sender = Xor(r = "c", t.reverse)])
set_test_reverse(t) ==
  check_sender_has_retransmits([t EXCEPT !.reverse = TRUE, !.sender = ~@])

-----------------------------------------------------------------------------
(* The client's side *)

OutOfRange(a) ==
  \/ a.opt = "i" /\ a.val # 0 /\ a.val \notin 1..600
  \/ a.opt = "t" /\ a.val > MAX_TIME
  \/ a.opt = "P" /\ a.val > MAX_STREAMS
  \/ a.opt = "w" /\ a.val > MAX_TCP_BUFFER
  \/ a.opt = "M" /\ a.val > MAX_MSS
  \/ a.opt = "S" /\ a.val \notin 0..255
  \/ a.opt = "O" /\ a.val \notin 0..60
  \/ a.opt = "L" /\ a.val \notin 1..MAX_FLOWLABEL
  \/ a.opt = "A" /\ a.val \notin 0..1024
  \/ a.opt = "b" /\ a.burst # NoBurst /\ a.burst \notin 1..MAX_BURST

\* What has been parsed: the test, the options seen, the block size asked for,
\* and whether an argument has been refused.
Nothing == [test |-> iperf_defaults, seen |-> {}, blksize |-> 0, ok |-> TRUE]

\* The effect of one accepted argument.
TakeOption(t, a) ==
  CASE a.opt = "s" -> set_test_role(t, "s")
    [] a.opt = "c" -> set_test_role(t, "c")
    [] a.opt = "u" -> set_protocol(t, "udp")
    [] a.opt = "R" -> set_test_reverse(t)
    [] a.opt = "b" ->
         [t EXCEPT !.set["bandwidth"] = a.val,
                   !.set["burst"] = IF a.burst = NoBurst THEN @ ELSE a.burst]
    [] a.opt \in DOMAIN OptionKey -> [t EXCEPT !.set[OptionKey[a.opt]] = a.val]
    [] OTHER -> t

RefusedOption(p, a, full) ==
  \/ ~full /\ a.opt \in Unimplemented
  \/ a.opt = "s" /\ p.test.role = "c"
  \/ a.opt = "c" /\ p.test.role = "s"
  \/ OutOfRange(a)

ParseOption(p, a, full) ==
  IF ~p.ok \/ RefusedOption(p, a, full) THEN [p EXCEPT !.ok = FALSE]
  ELSE [p EXCEPT !.test = TakeOption(@, a), !.seen = @ \cup {a.opt},
                 !.blksize = IF a.opt = "l" THEN a.val ELSE @]

\* After the last argument: defaults that depend on others, then the checks.
BlockSize(p) ==
  IF p.blksize # 0 THEN p.blksize
  ELSE IF p.test.protocol = "udp" THEN DEFAULT_UDP_BLKSIZE ELSE DEFAULT_TCP_BLKSIZE

Rate(p) ==
  IF "b" \in p.seen THEN p.test.set["bandwidth"]
  ELSE IF p.test.protocol = "udp" THEN UDP_RATE ELSE 0

\* Mistake: a test with -n or -k keeps the default duration.
DurationKept(p) == p.test.set["time"]

\* Without -t a test with -n or -k has no duration.
Duration(p) ==
  IF (p.test.set["num"] # 0 \/ p.test.set["blockcount"] # 0) /\ "t" \notin p.seen
  THEN 0 ELSE p.test.set["time"]

RefusedTest(p) ==
  LET set == p.test.set IN
  \/ p.test.role = "c" /\ p.seen \cap ServerOptions # {}
  \/ p.test.role = "s" /\ p.seen \cap ClientOptions # {}
  \/ set["bind_address"] = 0 /\ set["bind_port"] # 0
  \/ BlockSize(p) <= 0 \/ BlockSize(p) > MAX_BLOCKSIZE
  \/ p.test.protocol = "udp" /\ BlockSize(p) > MAX_UDP_BLOCKSIZE
  \/ "t" \in p.seen /\ (set["num"] # 0 \/ set["blockcount"] # 0)
  \/ set["num"] # 0 /\ set["blockcount"] # 0
  \/ p.test.role = "none"

iperf_parse_arguments(args, full) ==
  LET p == FoldLeft(LAMBDA q, a : ParseOption(q, a, full), Nothing, args)
  IN IF ~p.ok \/ RefusedTest(p) THEN [p EXCEPT !.ok = FALSE]
     ELSE [p EXCEPT !.test.set["len"] = BlockSize(p),
                    !.test.set["bandwidth"] = Rate(p),
                    !.test.set["time"] = Duration(p)]

\* Nothing of an Iperf3Config is checked.
parse_java_config(c) ==
  LET t == set_test_role(iperf_defaults, "c")
      d == IF c.down THEN set_test_reverse(t) ELSE t
  IN [Nothing EXCEPT !.test =
        [d EXCEPT !.set["bandwidth"] = c.bandwidth, !.set["parallel"] = c.parallels]]

ClientOf(r) ==
  IF r.kind = "java" THEN parse_java_config(r) ELSE iperf_parse_arguments(r.args, r.full)

-----------------------------------------------------------------------------
(* The exchange and the server's side *)

\* The values that are sent even if they are 0; the affinity if it is not -1.
Always == {"omit", "parallel"}
Given(t) ==
  {k \in WireKeys : k \in Always \/ t.set[k] # (IF k = "server_affinity" THEN -1 ELSE 0)}
send_parameters(t) ==
  [protocol |-> t.protocol, reverse |-> t.reverse, set |-> [k \in Given(t) |-> t.set[k]]]

\* Mistake: a value that is not in the document is set to 0.
GetParametersOrZero(t, j) ==
  LET p == set_protocol(t, j.protocol)
      r == IF j.reverse THEN set_test_reverse(p) ELSE p
  IN [r EXCEPT !.set = [k \in Keys |->
                          IF k \in DOMAIN j.set THEN j.set[k]
                          ELSE IF k \in WireKeys THEN 0 ELSE @[k]]]

\* What is not in the document stays as it is.
get_parameters(t, j) ==
  LET p == set_protocol(t, j.protocol)
      r == IF j.reverse THEN set_test_reverse(p) ELSE p
  IN [r EXCEPT !.set = [k \in Keys |-> IF k \in DOMAIN j.set THEN j.set[k] ELSE @[k]],
               !.retrans = @ \/ (r.sender /\ r.protocol = "tcp" /\ HasTcpinfoRetransmits)]

\* What iperf_reset_test does not set.
Sticky ==
  {"num", "blockcount", "TOS", "flowlabel", "title", "congestion", "get_server_output",
   "no_fq_socket_pacing"}
ResetOptions(t) ==
  [set_protocol([t EXCEPT !.role = "s", !.sender = FALSE, !.retrans = FALSE], "tcp")
     EXCEPT !.reverse = FALSE,
            !.set = [k \in Keys |-> IF k \in LocalKeys \cup Sticky THEN @[k] ELSE Default(k)]]
=============================================================================
