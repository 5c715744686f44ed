------------------------------ MODULE ParamForms ------------------------------
(***************************************************************************)
(* The forms in which `vzctl set' takes the value of a parameter, keeps it *)
(* in memory and writes it to the configuration: the parse and store       *)
(* functions of src/lib/config.c and the bitmaps, capabilities, iptables   *)
(* modules and features they use.  `vzctl set --save' reads the            *)
(* configuration, parses its argument and writes the line that the next    *)
(* vzctl reads.                                                            *)
(*                                                                         *)
(* A text is the sequence of its tokens.                                   *)
(***************************************************************************)
EXTENDS SequencesExt

CONSTANTS
  None,     \* nothing: an unset parameter, a missing line
  MaxRuns,  \* bound on the number of commands
  Odd,      \* unusual arguments that are given as well, see Texts
  Amounts,  \* the numbers that arguments name
  MaxWords, \* bound on the words of a list
  Page, Kilo, IntMax, LongMax,  \* _page_size, 1024, INT_MAX, LONG_MAX
  NumCpu, Percent,              \* get_num_cpu(), 100
  MinUnits, MaxUnits,           \* MINCPUUNITS, MAXCPUUNITS
  NBits, PerLong                \* CPUMASK_NBITS, BITS_PER_LONG

VARIABLES
  kind,     \* the parameter, one for each form
  line,     \* its line in the configuration
  step,     \* where vzctl is: "idle", "ready" (configuration read), "save"
  conf,     \* what it has read of the configuration
  new,      \* the parsed argument
  text,     \* ghost: the last argument
  told,     \* ghost: what was answered to it
  want,     \* ghost: the value that all saved arguments together mean
  runs      \* how many commands there were

vars == <<kind, line, step, conf, new, text, told, want, runs>>

Is(x) == x \in Odd
Got(v) == [code |-> "OK", val |-> v]
Code(c, v) == [code |-> c, val |-> v]
Inval == Code("INVAL", None)
Lesser(a, b) == IF a < b THEN a ELSE b
One(S) == {<<x>> : x \in S}
OneOrTwo(S) == One(S) \union (S \X S)
Words(S) == UNION {[1..n -> S] : n \in 1..MaxWords}
Switch(x, state) == [name |-> x, state |-> state]
Switches(S) == {Switch(x, s) : x \in S, s \in {"on", "off"}}

-----------------------------------------------------------------------------
(* Numbers with a unit, "64K:unlimited".                                   *)

UlongMax == 2 * LongMax + 1

\* get_mul()
Mul == [B |-> 1, K |-> Kilo, M |-> Kilo * Kilo, P |-> Page,
        T |-> Kilo * Kilo * Kilo * Kilo]

N(n, sfx) == [n |-> n, sfx |-> sfx]
Unlimited == N(0, "unlimited")

\* parse_ul_sfx(): None where it fails.
UlSfx(w, divisor, allow_unlimited) ==
  IF w = Unlimited THEN IF allow_unlimited THEN LongMax ELSE None
  ELSE IF w.sfx = "" THEN w.n
  ELSE IF divisor = 0 THEN None
  ELSE Lesser((w.n * Mul[w.sfx]) \div divisor, LongMax + 1)

\* parse_twoul_sfx(): a single number is both barrier and limit.
TwoUl(t, divisor, allow_unlimited) ==
  LET v == <<UlSfx(Head(t), divisor, allow_unlimited),
             UlSfx(Last(t), divisor, allow_unlimited)>>
  IN  IF None \in ToSet(v) THEN Inval
      ELSE Code(IF \E x \in ToSet(v) : x > LongMax THEN "TRUNC" ELSE "OK",
                [i \in 1..2 |-> Lesser(v[i], LongMax)])

\* ubcstr()
UbcWord(x) == IF x = LongMax THEN Unlimited ELSE N(x, "")
UbcStr(v) == IF v[1] = v[2] THEN <<UbcWord(v[1])>>
             ELSE <<UbcWord(v[1]), UbcWord(v[2])>>

\* store_dq() writes both numbers, whatever they are.
DqStr(v) == <<N(v[1], ""), N(v[2], "")>>

\* parse_dq(), as parse() takes it: nothing may be truncated, but the value
\* is set even then.
Dq(t, divisor) ==
  LET r == TwoUl(t, divisor, FALSE)
  IN  IF r.code = "OK" THEN r ELSE Code("INVAL", r.val)

\* parse_vswap(): bytes are rounded up to pages, the barrier is zero.
Vswap(t) ==
  LET v == UlSfx(Head(t), 1, TRUE)
  IN  IF v = None \/ Len(t) > 1 THEN Inval
      ELSE Got(<<0, ((v + Page - 1) % (UlongMax + 1)) \div Page>>)

\* parse_iolimit(): zero is no limit.  Without a unit, the command line
\* counts in megabytes and the configuration in bytes.
Iolimit(t, def_mul) ==
  LET w == Head(t)
      n == Lesser(w.n, IntMax)
      v == (n * (IF w.sfx = "" THEN def_mul ELSE Mul[w.sfx])) % (UlongMax + 1)
  IN  IF w = Unlimited THEN Got(0)
      ELSE Code(IF w.n > IntMax \/ v > IntMax THEN "TRUNC" ELSE "OK",
                Lesser(v, IntMax))

\* parse_iopslimit(), like parse_ioprio() within its own bounds.
Iops(t) == IF Head(t).sfx # "" \/ Head(t).n > IntMax THEN Inval ELSE Got(Head(t).n)

\* conf_parse_ulong()
Ulong(t) ==
  LET w == Head(t)
  IN  IF w = Unlimited THEN Got(LongMax)
      ELSE IF w.sfx # "" \/ w.n > LongMax THEN Inval ELSE Got(w.n)

\* PARAM_CPUUNITS of parse()
Cpuunits(t) ==
  LET r == Ulong(t)
  IN  IF r.code = "OK" /\ r.val \notin MinUnits..MaxUnits THEN Inval ELSE r

\* conf_store_ulong()
UlongStr(v) == <<N(v, "")>>

\* store_io(): nothing below zero is set, so zero is written as well.
IoStr(v) == <<N(v, "")>>

\* parse_cpulimit(): up to 100 percent of each processor; strtoul() goes
\* through an int.
Cpulimit(t) ==
  LET w == Head(t)
      int == w.n % (2 * (IntMax + 1))
      val == IF int > IntMax THEN UlongMax + 1 - (2 * (IntMax + 1) - int) ELSE int
  IN  CASE w.sfx = "%" /\ val <= Percent -> Got(val * NumCpu)
        [] w.sfx = "" -> Got(val)
        [] OTHER -> Inval

\* parse_meminfo(): "none" has no value, the other modes have one.
Meminfo(t) ==
  IF (t.mode = "none") # (t.val = None) \/ t.val = 0 THEN Inval
  ELSE Got([mode |-> t.mode, val |-> IF t.val = None THEN 0 ELSE t.val])

\* store_meminfo()
MeminfoStr(v) == [v EXCEPT !.val = IF v.mode = "none" THEN None ELSE @]

-----------------------------------------------------------------------------
(* Bitmaps, "0,2-4": bit numbers up to NBits, stored in words.             *)

Longs(n) == (n + PerLong - 1) \div PerLong
Bits == 0..(Longs(NBits) * PerLong - 1)   \* those of all words
All == <<>>                                \* the text "all"

\* bitmap_find_first_bit() and ..._zero_bit() in n bits from word w on.
FindFirst(mask, bit, w, n) ==
  LET found == {i \in 0..(Longs(n) - 1) :
                  \E b \in 0..(PerLong - 1) : mask[(w + i) * PerLong + b] = bit}
      start == Min(found) * PerLong
      end == Lesser(start + PerLong, n)
      hits == {i \in start..(end - 1) : mask[w * PerLong + i] = bit}
  IN  IF found = {} THEN n ELSE IF hits = {} THEN end ELSE Min(hits)

\* bitmap_find_next_bit() and ..._zero_bit(): the rest of a word first.
FindNext(mask, bit, offset) ==
  LET end == Lesser(Longs(offset) * PerLong, NBits)
      hits == {i \in offset..(end - 1) : mask[i] = bit}
  IN  IF hits # {} THEN Min(hits)
      ELSE IF end >= NBits THEN NBits
      ELSE end + FindFirst(mask, bit, end \div PerLong, NBits - end)

\* bitmap_parse(), after conf_parse_bitmap() has looked for "all".
Bitmap(t) ==
  IF t = All THEN Got([i \in Bits |-> TRUE])
  ELSE IF \E r \in ToSet(t) : r[1] > r[2] \/ r[2] >= NBits THEN Inval
  ELSE Got([i \in Bits |-> \E r \in ToSet(t) : i \in r[1]..r[2]])

\* Mutant: the last bit of a range is taken for the first one after it.
MutSnprintf(mask) ==
  LET From[a \in 0..NBits] ==
        IF a >= NBits THEN <<>>
        ELSE LET b == FindNext(mask, FALSE, a + 1)
             IN  <<<<a, Lesser(b, NBits - 1)>>>> \o From[FindNext(mask, TRUE, b)]
  IN  From[FindFirst(mask, TRUE, 0, NBits)]

\* bitmap_snprintf()
Snprintf(mask) ==
  LET From[a \in 0..NBits] ==
        IF a >= NBits THEN <<>>
        ELSE LET b == FindNext(mask, FALSE, a + 1) - 1
             IN  <<<<a, b>>>> \o From[FindNext(mask, TRUE, b + 1)]
  IN  From[FindFirst(mask, TRUE, 0, NBits)]

\* conf_store_bitmap()
BitmapStr(mask) ==
  IF FindFirst(mask, FALSE, 0, NBits) = NBits THEN All ELSE Snprintf(mask)

-----------------------------------------------------------------------------
(* Capabilities, iptables modules and features: bits with names.           *)

Caps == {"sys_time", "net_admin", "sys_boot"}
Named(t, state) == {w.name : w \in {u \in ToSet(t) : u.state = state}}

\* parse_cap() and get_cap_mask()
Cap(t) ==
  IF \E w \in ToSet(t) : w.name \notin Caps THEN Inval
  ELSE Got([on |-> Named(t, "on"), off |-> Named(t, "off")])

\* build_cap_str(): the argument first, then what the configuration says.
CapStr(v, old) ==
  LET op(c) == IF c \in v.on THEN {"on"} ELSE IF c \in v.off THEN {"off"}
               ELSE IF old = None THEN {}
               ELSE IF c \in old.on THEN {"on"} ELSE IF c \in old.off THEN {"off"}
               ELSE {}
  IN  SetToSeq(UNION {{Switch(c, s) : s \in op(c)} : c \in Caps})

\* The modules each iptables module stands for.
Needs == [ip_tables |-> {"ip_tables"},
          iptable_nat |-> {"ip_tables", "ip_conntrack", "iptable_nat"},
          ip_conntrack |-> {"ip_tables", "ip_conntrack"}]

\* parse_iptables() and find_ipt(): an unknown module is skipped, which the
\* command line takes for an error.
Iptables(t) ==
  LET known == ToSet(t) \intersect DOMAIN Needs
  IN  Code(IF known = ToSet(t) THEN "OK" ELSE "SKIP", UNION {Needs[m] : m \in known})

\* ipt_mask2str()
IptablesStr(v) == SetToSeq(v)

\* find_feature(): `feat' is left at the last feature when no name fits, and
\* the state is looked for where the colon after that name would be.
Features == <<"ppp", "sysfs", "nfsd">>
NameLen(name) == CASE name \in {"ppp", "abc"} -> 3
                   [] name \in {"nfsd", "abcd"} -> 4
                   [] OTHER -> 5
FindFeature(w) ==
  IF w.name \in ToSet(Features) THEN w.name
  ELSE IF NameLen(w.name) = NameLen(Last(Features)) THEN Last(Features)
  ELSE None

\* parse_features(): `on' wins over an `off' of the same argument.
Feature(t) ==
  LET known == {w \in ToSet(t) : FindFeature(w) # None}
  IN  Code(IF known = ToSet(t) THEN "OK" ELSE "SKIP",
           [known |-> {FindFeature(w) : w \in known},
            mask |-> {FindFeature(w) : w \in {u \in known : u.state = "on"}}])

\* store_features() and features_mask2str(), as store_env() calls them.
FeatureStr(v, old) ==
  LET before == IF old = None THEN [known |-> {}, mask |-> {}] ELSE old
      mask == v.mask \union (before.mask \ v.known)
      state(f) == IF f \in mask THEN "on" ELSE "off"
  IN  SetToSeq({Switch(f, state(f)) : f \in v.known \union before.known})

-----------------------------------------------------------------------------
(* Devices, "b:8:1:rw c:5:all:none", and lists.                            *)

Loop == 7

\* parse_devices_str(): sscanf() wants four fields, and "none" is no access.
Refused(d) == d.major = Loop \/ d.mode = {}
ParsedDevice(d) == [d EXCEPT !.mode = @ \ {"none"}]

\* parse_dev(): the devices before a bad one are kept.
Devices(t) ==
  LET bad == {i \in DOMAIN t : Refused(t[i])}
      good == SubSeq(t, 1, IF bad = {} THEN Len(t) ELSE Min(bad) - 1)
  IN  Code(IF bad = {} THEN "OK" ELSE "INVAL",
           IF good = <<>> THEN None ELSE [i \in DOMAIN good |-> ParsedDevice(good[i])])

\* store_dev() and devperm2str(): no access is an empty mode.
DevicesStr(v) == v

\* parse_pci(): the domain may be missing; no device is listed twice.
Pci(t) == Got([op |-> t.op,
               devs |-> {IF Len(d) = 2 THEN d ELSE <<0>> \o d : d \in ToSet(t.devs)}])

\* The list after a command: merge_str_list().
ListAfter(v, old) ==
  LET devs == IF old = None THEN {} ELSE old.devs
  IN  IF v.op = "add" THEN devs \union v.devs ELSE devs \ v.devs

\* store_pci()
PciStr(v, old) == [op |-> "add", devs |-> SetToSeq(ListAfter(v, old))]

\* add_netdev(): devices the host needs are refused by the start of a name.
Strict == {"venet0", "tun0", "lo"}
Netdev(t) == IF ToSet(t.devs) \intersect Strict # {} THEN Inval
             ELSE Got([op |-> t.op, devs |-> ToSet(t.devs)])

\* store_netdev()
NetdevStr(v, old) == [op |-> "add", devs |-> SetToSeq(ListAfter(v, old))]

\* conf_parse_yesno()
YesNo(t) == IF t \in {"yes", "no"} THEN Got(t) ELSE Inval

-----------------------------------------------------------------------------
(* parse() and store(), with the arguments that are tried.                 *)

UbKinds == {"NUMPROC", "PRIVVMPAGES", "KMEMSIZE", "PHYSPAGES"}
IoKinds == {"IOLIMIT", "IOPSLIMIT"}
Kinds == UbKinds \union IoKinds \union
         {"CPUMASK", "DISKSPACE", "DISKINODES", "CPUUNITS", "CPULIMIT", "MEMINFO",
          "CAPABILITY", "IPTABLES", "FEATURES", "DEVICES", "PCI", "NETDEV", "ONBOOT"}

\* parse() of user beancounters: `cmdline' where --ram is the option.
ParseUb(k, t, cmdline) ==
  CASE k = "NUMPROC" -> TwoUl(t, 0, TRUE)
    [] k = "PRIVVMPAGES" -> TwoUl(t, Page, TRUE)
    [] k = "KMEMSIZE" -> TwoUl(t, 1, TRUE)
    [] k = "PHYSPAGES" -> IF cmdline THEN Vswap(t) ELSE TwoUl(t, Page, TRUE)

\* parse() of I/O limits: `cmdline' for PARAM_IOLIMIT_MB.
ParseIo(k, t, cmdline) ==
  CASE k = "IOLIMIT" -> Iolimit(t, IF cmdline THEN Mul["M"] ELSE 1)
    [] k = "IOPSLIMIT" -> Iops(t)

\* parse()
Parse(k, t, cmdline) ==
  CASE k \in UbKinds -> ParseUb(k, t, cmdline)
    [] k \in IoKinds -> ParseIo(k, t, cmdline)
    [] k = "CPUMASK" -> Bitmap(t)
    [] k = "DISKSPACE" -> Dq(t, Mul["K"])
    [] k = "DISKINODES" -> Dq(t, 0)
    [] k = "CPUUNITS" -> Cpuunits(t)
    [] k = "CPULIMIT" -> Cpulimit(t)
    [] k = "MEMINFO" -> Meminfo(t)
    [] k = "CAPABILITY" -> Cap(t)
    [] k = "IPTABLES" -> Iptables(t)
    [] k = "FEATURES" -> Feature(t)
    [] k = "DEVICES" -> Devices(t)
    [] k = "PCI" -> Pci(t)
    [] k = "NETDEV" -> Netdev(t)
    [] k = "ONBOOT" -> YesNo(t)

\* store(): the line for a parsed argument.
Store(k, v, old) ==
  CASE k = "CPUMASK" -> BitmapStr(v)
    [] k \in UbKinds -> UbcStr(v)
    [] k \in {"DISKSPACE", "DISKINODES"} -> DqStr(v)
    [] k \in IoKinds -> IoStr(v)
    [] k \in {"CPUUNITS", "CPULIMIT"} -> UlongStr(v)
    [] k = "MEMINFO" -> MeminfoStr(v)
    [] k = "CAPABILITY" -> CapStr(v, old)
    [] k = "IPTABLES" -> IptablesStr(v)
    [] k = "FEATURES" -> FeatureStr(v, old)
    [] k = "DEVICES" -> DevicesStr(v)
    [] k = "PCI" -> PciStr(v, old)
    [] k = "NETDEV" -> NetdevStr(v, old)
    [] k = "ONBOOT" -> v

Numbers(sfx) == {N(n, s) : n \in Amounts, s \in sfx}
Plain == Numbers({"", "K", "P"}) \union {Unlimited}
Ranges == (0..(NBits - 1)) \X (0..NBits)
Granted == [major : {Loop, 8}, minor : {"1", "all"},
            mode : {{"r"}, {"r", "w"}} \union (IF Is("none") THEN {{"none"}} ELSE {})]

\* Numbers that overflow before they are cut.
Wraps(k, w) ==
  CASE k = "PHYSPAGES" -> w.sfx = "" /\ w.n + Page - 1 > UlongMax
    [] k = "IOLIMIT" ->
         w # Unlimited /\ Lesser(w.n, IntMax) * Mul[IF w.sfx = "" THEN "M" ELSE w.sfx] > UlongMax
    [] k = "CPULIMIT" -> w.n > IntMax

\* The arguments.  Odd adds some that have been seen not to survive:
\*   "none"   a device without access
\*   "wrap"   numbers that overflow before they are cut: --iolimit 8T,
\*            --cpulimit 4294967296, --ram 18446744073709551615
\*   "ram"    --ram unlimited
\*   "typo"   an unknown feature with a name as long as the last known one
Texts(k) ==
  CASE k = "CPUMASK" -> Words(Ranges) \union {All}
    [] k \in {"NUMPROC", "PRIVVMPAGES", "KMEMSIZE", "DISKSPACE", "DISKINODES"} -> OneOrTwo(Plain)
    [] k = "PHYSPAGES" ->
         One({w \in Plain : /\ Wraps(k, w) => Is("wrap")
                            /\ w = Unlimited => Is("ram")})
    [] k = "IOLIMIT" ->
         One({w \in Numbers({"", "B", "M", "T"}) \union {Unlimited} :
                Wraps(k, w) => Is("wrap")})
    [] k \in {"IOPSLIMIT", "CPUUNITS"} -> One(Plain)
    [] k = "CPULIMIT" ->
         One({w \in Numbers({"", "%", "K"}) : Wraps(k, w) => Is("wrap")})
    [] k = "MEMINFO" -> [mode : {"none", "pages", "privvmpages"}, val : {None} \union Amounts]
    [] k = "CAPABILITY" -> Words(Switches(Caps \union {"abc"}))
    [] k = "IPTABLES" -> Words(DOMAIN Needs \union {"abc"})
    [] k = "FEATURES" -> Words(Switches(ToSet(Features) \union {"abc"} \union
                                        (IF Is("typo") THEN {"abcd"} ELSE {})))
    [] k = "DEVICES" -> Words(Granted)
    [] k = "PCI" -> [op : {"add", "del"}, devs : Words({<<1>>, <<0, 1>>, <<1, 1>>, <<2>>})]
    [] k = "NETDEV" -> [op : {"add", "del"}, devs : Words({"eth0", "eth1", "lo"})]
    [] k = "ONBOOT" -> {"yes", "no", "maybe"}

-----------------------------------------------------------------------------
Init ==
  /\ kind \in Kinds
  /\ line = None /\ conf = None /\ want = None /\ new = None /\ text = None
  /\ step = "idle" /\ told = "nothing" /\ runs = 0

\* vps_parse_config(): a bad value is skipped with a warning, but keeps what
\* has been parsed of it.
ReadConf ==
  /\ step = "idle"
  /\ runs < MaxRuns
  /\ conf' = IF line = None THEN None ELSE Parse(kind, line, FALSE).val
  /\ step' = "ready"
  /\ told' = "nothing"
  /\ UNCHANGED <<kind, line, new, text, want, runs>>

\* parse_opt(): every error of an argument ends vzctl.
ReadArg ==
  /\ step = "ready"
  /\ \E t \in Texts(kind) :
       LET r == Parse(kind, t, TRUE)
       IN  /\ text' = t
           /\ IF r.code = "OK" THEN /\ new' = r.val
                                    /\ step' = "save"
                                    /\ UNCHANGED <<told, runs>>
              ELSE /\ step' = "idle"
                   /\ told' = "bad parameter"
                   /\ runs' = runs + 1
                   /\ new' = None
  /\ UNCHANGED <<kind, line, conf, want>>

(* What an argument means, by itself and after those before it.            *)
Exact(w, unit) == IF w = Unlimited THEN LongMax
                  ELSE Lesser((w.n * (IF w.sfx = "" THEN unit ELSE Mul[w.sfx])) \div unit,
                              LongMax)
Latest(t, old) ==
  {w \in ToSet(t) : TRUE} \union {w \in old : \A u \in ToSet(t) : u.name # w.name}
Winning(S) == {w \in S : w.state = "off" => Switch(w.name, "on") \notin S}
AsSet(v) == IF v = None THEN {} ELSE v

Meaning(k, t, old) ==
  CASE k = "CPUMASK" ->
         IF t = All THEN 0..(NBits - 1) ELSE UNION {r[1]..r[2] : r \in ToSet(t)}
    [] k \in {"NUMPROC", "KMEMSIZE"} -> <<Exact(Head(t), 1), Exact(Last(t), 1)>>
    [] k = "PRIVVMPAGES" -> <<Exact(Head(t), Page), Exact(Last(t), Page)>>
    [] k = "PHYSPAGES" ->
         <<0, IF Head(t) = Unlimited THEN LongMax
              ELSE ((IF Head(t).sfx = "" THEN Head(t).n
                     ELSE Lesser(Head(t).n * Mul[Head(t).sfx], LongMax + 1)) + Page - 1)
                     \div Page>>
    [] k = "DISKSPACE" -> <<Exact(Head(t), Mul["K"]), Exact(Last(t), Mul["K"])>>
    [] k = "DISKINODES" -> <<Exact(Head(t), 1), Exact(Last(t), 1)>>
    [] k = "IOLIMIT" ->
         IF Head(t) = Unlimited THEN 0
         ELSE Lesser(Head(t).n * Mul[IF Head(t).sfx = "" THEN "M" ELSE Head(t).sfx], IntMax)
    [] k = "CPULIMIT" -> Head(t).n * (IF Head(t).sfx = "%" THEN NumCpu ELSE 1)
    [] k \in {"IOPSLIMIT", "CPUUNITS"} -> Exact(Head(t), 1)
    [] k \in {"CAPABILITY", "FEATURES"} -> Winning(Latest(t, AsSet(old)))
    [] k = "IPTABLES" -> UNION {Needs[m] : m \in ToSet(t)}
    [] k = "DEVICES" -> [i \in DOMAIN t |-> [t[i] EXCEPT !.mode = @ \ {"none"}]]
    [] k \in {"PCI", "NETDEV"} ->
         LET devs == {IF k = "PCI" /\ Len(d) = 1 THEN <<0>> \o d ELSE d : d \in ToSet(t.devs)}
         IN  IF t.op = "add" THEN AsSet(old) \union devs ELSE AsSet(old) \ devs
    [] OTHER -> t

\* The same of a value that vzctl has in memory.
View(k, v) ==
  IF v = None THEN None
  ELSE CASE k = "CPUMASK" -> {i \in 0..(NBits - 1) : v[i]}
         [] k = "CAPABILITY" -> {Switch(c, "on") : c \in v.on} \union {Switch(c, "off") : c \in v.off}
         [] k = "FEATURES" -> {Switch(f, IF f \in v.mask THEN "on" ELSE "off") : f \in v.known}
         [] k \in {"PCI", "NETDEV"} -> v.devs
         [] k = "MEMINFO" -> MeminfoStr(v)
         [] OTHER -> v

\* vps_save_config()
Save ==
  /\ step = "save"
  /\ line' = Store(kind, new, conf)
  /\ want' = Meaning(kind, text, want)
  /\ step' = "idle"
  /\ told' = "saved"
  /\ runs' = runs + 1
  /\ UNCHANGED <<kind, conf, new, text>>

Done == step = "idle" /\ runs = MaxRuns /\ UNCHANGED vars

Next == ReadConf \/ ReadArg \/ Save \/ Done

Spec == Init /\ [][Next]_vars

-----------------------------------------------------------------------------
TypeOK ==
  /\ kind \in Kinds
  /\ step \in {"idle", "ready", "save"}
  /\ told \in {"nothing", "saved", "bad parameter"}
  /\ runs \in 0..MaxRuns
  /\ (step = "save") => new # None

\* What the next vzctl reads is what the saved arguments meant, together:
\* no unit, no truncation, no word of a bitmap and no switch of an earlier
\* command is lost between parse() and store().
SavedIsReadBack ==
  step = "ready" => View(kind, conf) = want

\* man/vzctl.8.in: an --iopslimit may be the literal "unlimited", an
\* --iolimit above the largest one is truncated.
DocumentedIsTaken ==
  told = "bad parameter" =>
    /\ ~(kind = "IOPSLIMIT" /\ text = <<Unlimited>>)
    /\ ~(kind = "IOLIMIT" /\ Head(text).sfx \in {"", "B", "M"})
=============================================================================
