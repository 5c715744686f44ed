---------------------------- MODULE SettingsProofs ----------------------------
(***************************************************************************)
(* What vzctl set saves, for any number of processes, values and commands. *)
(*                                                                         *)
(* A file that is read back has no name twice, and the old name of a       *)
(* parameter before the new one (Clean).  vps_merge_conf() keeps it so and *)
(* changes what one parameter reads as (MergeReads).  The rest is the      *)
(* lock: who writes has merged into the file as it still is (WriterInv).   *)
(***************************************************************************)
EXTENDS Settings, TLAPS

\* A switch is not on and off at once.
Coherent(S) == \A s, t \in S : s[1] = t[1] => s = t
Readable(q) == {S \in Values(q) : q = "FEATURES" => Coherent(S)}

\* A line whose values are those of its parameter.
GoodLine == {l \in Line : l.vals \in Readable(Param(l.name))}

OldNameFirst(f) ==
  \A i, j \in DOMAIN f : f[i].name = "DCACHE" /\ f[j].name = "DCACHESIZE" => i < j

Clean(f) == f \in Seq(GoodLine) /\ Distinct(f) /\ OldNameFirst(f)

-----------------------------------------------------------------------------
(* Reading and merging.                                                    *)

LEMMA LineTypes ==
  ASSUME NEW l \in GoodLine
  PROVE  l.name \in Names /\ l = [name |-> l.name, vals |-> l.vals]
         /\ Param(l.name) \in Params /\ l.vals \in Readable(Param(l.name))
BY DEF GoodLine, Line, Param, Params, Names

\* The smallest and the largest of a set that has one.
LEMMA MinIs ==
  ASSUME NEW S \in SUBSET Nat, NEW k \in S, \A i \in S : k <= i
  PROVE  Min(S) = k
<1> DEFINE P(x) == x \in S /\ \A y \in S : x <= y
<1>1. P(k) /\ \A x : P(x) => x = k
  <2>1. k \in Nat /\ \A i \in S : i \in Nat
    OBVIOUS
  <2>2. P(k)
    BY <2>1
  <2>3. ASSUME NEW x \in S, P(x) PROVE x = k
    <3>1. x <= k /\ k <= x
      BY <2>3
    <3> QED
      BY <2>1, <3>1
  <2> QED
    BY <2>2, <2>3
<1>2. Min(S) = CHOOSE x : P(x)
  BY DEF Min
<1> HIDE DEF P
<1> QED
  BY <1>1, <1>2

LEMMA MaxIs ==
  ASSUME NEW S \in SUBSET Nat, NEW k \in S, \A i \in S : i <= k
  PROVE  Max(S) = k
<1> DEFINE P(x) == x \in S /\ \A y \in S : x >= y
<1>1. P(k) /\ \A x : P(x) => x = k
  <2>1. k \in Nat /\ \A i \in S : i \in Nat
    OBVIOUS
  <2>2. P(k)
    BY <2>1
  <2>3. ASSUME NEW x \in S, P(x) PROVE x = k
    <3>1. x <= k /\ k <= x
      BY <2>3
    <3> QED
      BY <2>1, <3>1
  <2> QED
    BY <2>2, <2>3
<1>2. Max(S) = CHOOSE x : P(x)
  BY DEF Max
<1> HIDE DEF P
<1> QED
  BY <1>1, <1>2

\* Where vps_merge_conf() puts a line.
LEMMA MergePlace ==
  ASSUME NEW f, Clean(f), NEW new \in GoodLine
  PROVE  \E k \in 1..(Len(f) + 1) :
           LET g == MergeConf(f, new)
           IN  /\ g \in Seq(GoodLine) /\ Len(g) \in {Len(f), Len(f) + 1} /\ k \in DOMAIN g
               /\ g[k] = new
               /\ \A i \in DOMAIN g : i # k =>
                    i \in DOMAIN f /\ g[i] = f[i] /\ f[i].name # new.name
               /\ \A i \in DOMAIN f : i # k => i \in DOMAIN g
               /\ k \in DOMAIN f => f[k].name = new.name
               /\ k \notin DOMAIN f => k = Len(g)
<1> DEFINE I == {i \in 1..Len(f) : IsLineOf(f[i], new.name)}
           at == SelectInSeq(f, LAMBDA l : IsLineOf(l, new.name))
<1>0. f \in Seq(GoodLine) /\ Len(f) \in Nat /\ DOMAIN f = 1..Len(f)
  BY DEF Clean
<1>1. at = IF I # {} THEN Min(I) ELSE 0
  BY DEF SelectInSeq
<1>2. CASE I = {}
  <2>1. MergeConf(f, new) = Append(f, new)
    BY <1>1, <1>2 DEF MergeConf
  <2>2. \A i \in DOMAIN f : f[i].name # new.name
    BY <1>0, <1>2 DEF IsLineOf
  <2> WITNESS Len(f) + 1 \in 1..(Len(f) + 1)
  <2> QED
    BY <1>0, <2>1, <2>2
<1>3. CASE I # {}
  <2>1. PICK k \in I : TRUE
    BY <1>3
  <2>2. k \in DOMAIN f /\ f[k].name = new.name
    BY <1>0 DEF IsLineOf
  <2>3. \A i \in DOMAIN f : i # k => f[i].name # new.name
    BY <2>2 DEF Clean, Distinct
  <2>4. Min(I) = k
    <3>1. \A i \in I : k <= i
      BY <1>0, <2>2, <2>3 DEF IsLineOf
    <3> QED
      BY <3>1, MinIs
  <2>5. MergeConf(f, new) = [f EXCEPT ![k] = new]
    <3>1. at = k /\ k # 0
      BY <1>0, <1>1, <1>3, <2>2, <2>4
    <3> QED
      BY <3>1 DEF MergeConf
  <2>6. [f EXCEPT ![k] = new] \in Seq(GoodLine)
    BY <1>0, <2>2
  <2> WITNESS k \in 1..(Len(f) + 1)
  <2> QED
    BY <1>0, <2>2, <2>3, <2>5, <2>6
<1> QED
  BY <1>2, <1>3

LEMMA MergeClean ==
  ASSUME NEW f, Clean(f), NEW new \in GoodLine, new.name \in Params
  PROVE  Clean(MergeConf(f, new))
<1> DEFINE g == MergeConf(f, new)
<1>1. PICK k \in 1..(Len(f) + 1) :
        /\ g \in Seq(GoodLine) /\ Len(g) \in {Len(f), Len(f) + 1} /\ k \in DOMAIN g
        /\ g[k] = new
        /\ \A i \in DOMAIN g : i # k => i \in DOMAIN f /\ g[i] = f[i] /\ f[i].name # new.name
        /\ \A i \in DOMAIN f : i # k => i \in DOMAIN g
        /\ k \in DOMAIN f => f[k].name = new.name
        /\ k \notin DOMAIN f => k = Len(g)
  BY MergePlace
<1> HIDE DEF g
<1>2. Distinct(g)
  BY <1>1 DEF Clean, Distinct
<1>3. OldNameFirst(g)
  <2> SUFFICES ASSUME NEW i \in DOMAIN g, NEW j \in DOMAIN g,
                      g[i].name = "DCACHE", g[j].name = "DCACHESIZE"
               PROVE  i < j
    BY DEF OldNameFirst
  <2>1. i # k /\ i \in DOMAIN f /\ f[i].name = "DCACHE"
    BY <1>1 DEF Params
  <2>2. CASE j \in DOMAIN f /\ f[j].name = "DCACHESIZE"
    BY <2>1, <2>2 DEF Clean, OldNameFirst
  <2>3. CASE j = k /\ k \notin DOMAIN f
    BY <1>1, <2>1, <2>3 DEF Clean
  <2> QED
    BY <1>1, <2>2, <2>3
<1> QED
  BY <1>1, <1>2, <1>3 DEF Clean, g

\* The parameter that was not merged has the lines that it had.
LEMMA OtherLines ==
  ASSUME NEW f, Clean(f), NEW new \in GoodLine, new.name \in Params,
         NEW q \in Params \ {new.name}
  PROVE  /\ LinesOf(MergeConf(f, new), q) = LinesOf(f, q)
         /\ \A i \in LinesOf(f, q) : MergeConf(f, new)[i] = f[i]
<1> DEFINE g == MergeConf(f, new)
<1>1. PICK k \in 1..(Len(f) + 1) :
        /\ g \in Seq(GoodLine) /\ Len(g) \in {Len(f), Len(f) + 1} /\ k \in DOMAIN g
        /\ g[k] = new
        /\ \A i \in DOMAIN g : i # k => i \in DOMAIN f /\ g[i] = f[i] /\ f[i].name # new.name
        /\ \A i \in DOMAIN f : i # k => i \in DOMAIN g
        /\ k \in DOMAIN f => f[k].name = new.name
        /\ k \notin DOMAIN f => k = Len(g)
  BY MergePlace
<1>2. Param(new.name) # q
  BY DEF Param, Params
<1> HIDE DEF g
<1>3. \A i \in LinesOf(f, q) : i # k /\ i \in DOMAIN g /\ g[i] = f[i]
  BY <1>1, <1>2 DEF LinesOf
<1>4. \A i \in LinesOf(g, q) : i # k /\ i \in DOMAIN f /\ g[i] = f[i]
  BY <1>1, <1>2 DEF LinesOf
<1>5. LinesOf(g, q) = LinesOf(f, q)
  BY <1>3, <1>4 DEF LinesOf
<1> QED
  BY <1>3, <1>5 DEF g

\* What is read is read from a line.
LEMMA OneName ==
  ASSUME NEW f, Clean(f), NEW q \in Params \ {"DCACHESIZE"}, NEW k \in LinesOf(f, q)
  PROVE  LinesOf(f, q) = {k}
BY DEF Clean, Distinct, LinesOf, Param, Params, GoodLine, Line, Names

LEMMA FirstLine ==
  ASSUME NEW f, Clean(f), NEW k \in LinesOf(f, "NAME")
  PROVE  ReadFirst(f, LinesOf(f, "NAME")) = f[k].vals
<1>1. LinesOf(f, "NAME") = {k} /\ k \in Nat
  BY OneName DEF Params, Clean, LinesOf
<1>2. Min({k}) = k
  BY <1>1, MinIs
<1> QED
  BY <1>1, <1>2 DEF ReadFirst

LEMMA LastLine ==
  ASSUME NEW f, Clean(f), NEW k \in LinesOf(f, "DCACHESIZE"),
         f[k].name = "DCACHESIZE" \/ \A i \in DOMAIN f : f[i].name # "DCACHESIZE"
  PROVE  Max(LinesOf(f, "DCACHESIZE")) = k
<1>1. LinesOf(f, "DCACHESIZE") \in SUBSET Nat
  BY DEF Clean, LinesOf
<1>2. \A i \in LinesOf(f, "DCACHESIZE") : i <= k
  BY <1>1 DEF Clean, Distinct, OldNameFirst, LinesOf, Param, Names, GoodLine, Line, Params
<1> QED
  BY <1>1, <1>2, MaxIs

LEMMA LastLineIs ==
  ASSUME NEW f, Clean(f), LinesOf(f, "DCACHESIZE") # {}
  PROVE  Max(LinesOf(f, "DCACHESIZE")) \in LinesOf(f, "DCACHESIZE")
<1>1. CASE \E i \in DOMAIN f : f[i].name = "DCACHESIZE"
  <2>1. PICK k \in DOMAIN f : f[k].name = "DCACHESIZE"
    BY <1>1
  <2>2. k \in LinesOf(f, "DCACHESIZE")
    BY <2>1 DEF LinesOf, Param
  <2> QED
    BY <2>1, <2>2, LastLine
<1>2. CASE \A i \in DOMAIN f : f[i].name # "DCACHESIZE"
  BY <1>2, LastLine
<1> QED
  BY <1>1, <1>2

\* A parameter reads the same from the same lines.
LEMMA SameLines ==
  ASSUME NEW f, Clean(f), NEW g, NEW q \in Params, LinesOf(g, q) = LinesOf(f, q),
         \A i \in LinesOf(f, q) : g[i] = f[i]
  PROVE  Parse(g)[q] = Parse(f)[q]
<1> DEFINE at == LinesOf(f, q)
<1>1. CASE q = "NAME"
  <2>1. ReadFirst(g, at) = ReadFirst(f, at)
    <3>1. CASE at = {}
      BY <3>1 DEF ReadFirst
    <3>2. CASE at # {}
      <4>1. PICK k \in at : TRUE
        BY <3>2
      <4>2. at = {k} /\ k \in Nat
        BY <1>1, <4>1, OneName DEF Params, Clean, LinesOf
      <4>3. Min({k}) = k
        BY <4>2, MinIs
      <4> QED
        BY <4>2, <4>3 DEF ReadFirst
    <3> QED
      BY <3>1, <3>2
  <2> QED
    BY <1>1, <2>1 DEF Parse
<1>2. CASE q = "DCACHESIZE"
  <2>1. ReadLast(g, at) = ReadLast(f, at)
    BY <1>2, LastLineIs DEF ReadLast
  <2> QED
    BY <1>2, <2>1 DEF Parse
<1>3. ReadWords(g, at) = ReadWords(f, at)
  BY DEF ReadWords
<1>4. CASE q = "FEATURES"
  <2>1. ReadSwitches(g, at) = ReadSwitches(f, at)
    BY <1>3 DEF ReadSwitches
  <2> QED
    BY <1>4, <2>1 DEF Parse
<1>5. CASE q \notin {"NAME", "DCACHESIZE", "FEATURES"}
  BY <1>3, <1>5 DEF Parse
<1> QED
  BY <1>1, <1>2, <1>4, <1>5

\* A parameter with one line reads as it has been written.
LEMMA WrittenLine ==
  ASSUME NEW g, Clean(g), NEW k \in DOMAIN g, g[k].name \in Params
  PROVE  Parse(g)[g[k].name] = g[k].vals
<1> DEFINE q == g[k].name
           at == LinesOf(g, q)
<1>1. k \in at /\ k \in Nat /\ g[k] \in GoodLine
  BY DEF LinesOf, Param, Params, Clean
<1>2. q # "DCACHESIZE" => at = {k}
  BY <1>1, OneName
<1>3. q # "DCACHESIZE" => ReadWords(g, at) = g[k].vals
  BY <1>2 DEF ReadWords
<1>4. CASE q = "NAME"
  BY <1>1, <1>4, FirstLine DEF Parse
<1>5. CASE q = "DCACHESIZE"
  <2>1. Max(at) = k
    BY <1>1, <1>5, LastLine
  <2> QED
    BY <1>1, <1>5, <2>1 DEF Parse, ReadLast
<1>6. CASE q = "FEATURES"
  <2> DEFINE S == g[k].vals
             on == {v \in Vals : <<v, "on">> \in S}
             known == {s[1] : s \in S}
  <2>1. S \subseteq Switches /\ Coherent(S)
    BY <1>1, <1>6 DEF GoodLine, Line, Readable, Values, Param
  <2>2. ReadSwitches(g, at) = (on \X {"on"}) \union ((known \ on) \X {"off"})
    BY <1>3, <1>6 DEF ReadSwitches
  <2>3. (on \X {"on"}) \union ((known \ on) \X {"off"}) = S
    <3> HIDE DEF S
    <3>1. ASSUME NEW s \in S PROVE s \in (on \X {"on"}) \union ((known \ on) \X {"off"})
      <4>1. PICK v \in Vals, x \in {"on", "off"} : s = <<v, x>>
        BY <2>1 DEF Switches
      <4>2. s[1] = v /\ v \in known
        BY <4>1
      <4>3. CASE x = "on"
        BY <4>1, <4>3
      <4>4. CASE x = "off"
        <5>1. <<v, "on">> \notin S
          BY <2>1, <4>1, <4>4 DEF Coherent
        <5> QED
          BY <4>1, <4>2, <4>4, <5>1
      <4> QED
        BY <4>3, <4>4
    <3>2. ASSUME NEW v \in known \ on PROVE <<v, "off">> \in S
      <4>1. PICK s \in S : v = s[1]
        BY <3>2
      <4>2. PICK w \in Vals, x \in {"on", "off"} : s = <<w, x>>
        BY <2>1, <4>1 DEF Switches
      <4> QED
        BY <3>2, <4>1, <4>2
    <3> QED
      BY <3>1, <3>2
  <2> QED
    BY <1>6, <2>2, <2>3 DEF Parse, Params
<1>7. CASE q \notin {"NAME", "DCACHESIZE", "FEATURES"}
  BY <1>3, <1>7 DEF Parse
<1> QED
  BY <1>4, <1>5, <1>6, <1>7

\* vps_merge_conf() changes what one parameter reads as.
LEMMA MergeReads ==
  ASSUME NEW f, Clean(f), NEW new \in GoodLine, new.name \in Params
  PROVE  Parse(MergeConf(f, new)) = [Parse(f) EXCEPT ![new.name] = new.vals]
<1> DEFINE g == MergeConf(f, new)
<1>1. Clean(g)
  BY MergeClean
<1>2. \E k \in DOMAIN g : g[k] = new
  BY MergePlace
<1> HIDE DEF g
<1>3. Parse(g)[new.name] = new.vals
  BY <1>1, <1>2, WrittenLine
<1>4. \A q \in Params \ {new.name} : Parse(g)[q] = Parse(f)[q]
  BY OtherLines, SameLines DEF g
<1>5. Parse(g) = [q \in Params |-> Parse(g)[q]] /\ Parse(f) = [q \in Params |-> Parse(f)[q]]
  BY DEF Parse
<1>6. Parse(g) = [Parse(f) EXCEPT ![new.name] = new.vals]
  BY <1>3, <1>4, <1>5
<1> QED
  BY <1>6 DEF g

-----------------------------------------------------------------------------
(* What is read and what is asked has types.                               *)

Settled == None \notin Vzctls /\ Vals # {} /\ MaxRuns \in Nat /\ ~Fault("full")

Reads ==
  {r \in [Params -> SUBSET (Vals \union Switches)] : \A q \in Params : r[q] \in Readable(q)}

LEMMA ReadableTypes ==
  ASSUME NEW q \in Params, NEW S \in Readable(q)
  PROVE  S \in SUBSET (Vals \union Switches)
BY DEF Readable, Values

LEMMA NothingRead == {} \in Readable("NAME") /\ Nothing \in Reads
BY DEF Nothing, Reads, Readable, Values, Coherent

LEMMA ParseTypes ==
  ASSUME NEW f, Clean(f)
  PROVE  Parse(f) \in Reads
<1> SUFFICES ASSUME NEW q \in Params PROVE Parse(f)[q] \in Readable(q)
  <2>1. Parse(f) = [q \in Params |-> Parse(f)[q]]
    BY DEF Parse
  <2> QED
    BY <2>1, ReadableTypes DEF Reads
<1> DEFINE at == LinesOf(f, q)
<1>1. \A i \in at : f[i].vals \in Readable(q)
  BY DEF LinesOf, Clean, GoodLine
<1>2. CASE q = "NAME"
  <2>1. CASE at = {}
    BY <1>2, <2>1, NothingRead DEF Parse, ReadFirst
  <2>2. CASE at # {}
    <3>1. PICK k \in at : TRUE
      BY <2>2
    <3> QED
      BY <1>1, <1>2, <3>1, FirstLine DEF Parse
  <2> QED
    BY <2>1, <2>2
<1>3. CASE q = "DCACHESIZE"
  <2>1. CASE at = {}
    BY <1>3, <2>1 DEF Parse, ReadLast, Readable, Values
  <2>2. CASE at # {}
    BY <1>1, <1>3, <2>2, LastLineIs DEF Parse, ReadLast
  <2> QED
    BY <2>1, <2>2
<1>4. CASE q = "FEATURES"
  <2> DEFINE words == ReadWords(f, at)
             on == {v \in Vals : <<v, "on">> \in words}
             known == {s[1] : s \in words}
             S == (on \X {"on"}) \union ((known \ on) \X {"off"})
  <2>1. words \subseteq Switches
    BY <1>1, <1>4 DEF ReadWords, Readable, Values
  <2>2. known \subseteq Vals /\ on \subseteq Vals
    BY <2>1 DEF Switches
  <2>3. S \subseteq Switches
    BY <2>2 DEF Switches
  <2>4. Coherent(S)
    BY DEF Coherent
  <2>5. Parse(f)[q] = S
    BY <1>4 DEF Parse, ReadSwitches
  <2> QED
    BY <1>4, <2>3, <2>4, <2>5 DEF Readable, Values
<1>5. CASE q \notin {"NAME", "DCACHESIZE", "FEATURES"}
  <2>1. ReadWords(f, at) \subseteq Vals
    BY <1>1, <1>5 DEF ReadWords, Readable, Values
  <2> QED
    BY <1>5, <2>1 DEF Parse, Readable, Values
<1> QED
  BY <1>2, <1>3, <1>4, <1>5

LEMMA CommandTypes ==
  ASSUME Settled, NEW c \in Commands
  PROVE  /\ c.param \in Params /\ c.add \in Readable(c.param)
<1>1. First \in Vals /\ Others \subseteq Vals
  BY DEF First, Others, Settled
<1>2. CASE \E q \in {"NAME", "NAMESERVER", "DCACHESIZE", "IP_ADDRESS"}, S \in SUBSET Vals,
              D \in SUBSET Vals, b \in BOOLEAN : c = Command(q, S, D, b)
  BY <1>2 DEF Command, Params, Readable, Values
<1>3. CASE \E s \in Switches : c = Command("FEATURES", {s}, {}, FALSE)
  BY <1>3 DEF Command, Params, Readable, Values, Coherent
<1>4. {<<First, "off">>} \union (Others \X {"on"}) \subseteq Switches
  BY <1>1 DEF Switches
<1>5. CASE \E q \in {"NAME", "NAMESERVER", "DCACHESIZE", "IP_ADDRESS"}, v \in Vals :
             c = Command(q, {v}, {}, FALSE)
  BY <1>2, <1>5
<1>6. CASE c = Command("IP_ADDRESS", {}, {First}, FALSE)
  BY <1>1, <1>2, <1>6
<1>7. CASE \E v \in Vals : c = Command("IP_ADDRESS", {v}, {}, TRUE)
  BY <1>2, <1>7
<1>8. CASE \E s \in {<<First, "off">>} \union (Others \X {"on"}) :
             c = Command("FEATURES", {s}, {}, FALSE)
  BY <1>3, <1>4, <1>8
<1>9. \/ \E q \in {"NAME", "NAMESERVER", "DCACHESIZE"}, v \in Others :
              c = Command(q, {v}, {}, FALSE)
      \/ c = Command("NAME", {First}, {}, FALSE)
      \/ \E s \in {<<First, "off">>} \union (Others \X {"on"}) :
              c = Command("FEATURES", {s}, {}, FALSE)
      \/ \E v \in Vals : c = Command("IP_ADDRESS", {v}, {}, FALSE)
      \/ c = Command("IP_ADDRESS", {}, {First}, FALSE)
      \/ \E v \in Others : c = Command("IP_ADDRESS", {v}, {}, TRUE)
  BY DEF Commands, Command
<1> QED
  BY <1>1, <1>5, <1>6, <1>7, <1>8, <1>9

\* The line of a command has the type of its parameter.
LEMMA StoreTypes ==
  ASSUME Settled, NEW c \in Commands, NEW old \in Reads
  PROVE  /\ Store(old, c) \in GoodLine /\ Store(old, c).name = c.param
         /\ Store(old, c).vals = Result(old[c.param], c)
<1> DEFINE q == c.param
<1>1. q \in Params /\ c.add \in Readable(q) /\ old[q] \in Readable(q)
  BY CommandTypes DEF Reads
<1>2. Result(old[q], c) \in Readable(q)
  <2>1. CASE q = "IP_ADDRESS"
    BY <1>1, <2>1 DEF Result, MergedWords, Readable, Values
  <2>2. CASE q = "FEATURES"
    <3>1. MergedSwitches(old[q], c) \subseteq Switches
      BY <1>1, <2>2 DEF MergedSwitches, Readable, Values
    <3>2. Coherent(MergedSwitches(old[q], c))
      BY <1>1, <2>2 DEF MergedSwitches, Readable, Coherent
    <3> QED
      BY <2>2, <3>1, <3>2 DEF Result, Readable, Values
  <2>3. CASE q \notin {"IP_ADDRESS", "FEATURES"}
    BY <1>1, <2>3 DEF Result
  <2> QED
    BY <2>1, <2>2, <2>3
<1>3. Param(q) = q /\ q \in Names
  BY <1>1 DEF Param, Params, Names
<1>4. Store(old, c) \in Line
  BY <1>1, <1>2, <1>3, ReadableTypes DEF Store, Line
<1> QED
  BY <1>2, <1>3, <1>4 DEF Store, GoodLine

-----------------------------------------------------------------------------
(* The invariant.                                                          *)

Works(p) == pc[p] \notin {"idle", "parsed"}

StateTypes ==
  /\ Clean(conf) /\ tmp \in Seq(GoodLine) \union {None}
  /\ lock \in Vzctls \union {None} /\ runs \in 0..MaxRuns
  /\ pc \in [Vzctls -> {"idle", "parsed", "set", "save", "open", "write"}]
  /\ cmd \in [Vzctls -> Commands \union {None}]
  /\ \A p \in Vzctls : pc[p] # "idle" => cmd[p] \in Commands
  /\ seen \in [Vzctls -> Reads] /\ lines \in [Vzctls -> Seq(GoodLine)]
  /\ want \in Reads

\* Who works has the lock, and what it writes is the file with its line.
Prefix(s, t) == s \in Seq(GoodLine) /\ Len(s) <= Len(t) /\ \A i \in 1..Len(s) : s[i] = t[i]

WriterInv == \A p \in Vzctls :
  /\ Works(p) => lock = p
  /\ pc[p] \in {"open", "write"} => lines[p] = MergeConf(conf, Store(seen[p], cmd[p]))
  /\ pc[p] = "write" => Prefix(tmp, lines[p])

IInv == StateTypes /\ WriterInv /\ SettingsKept

LEMMA InitInv ==
  ASSUME Settled, Init
  PROVE  IInv
<1> DEFINE L(n) == [name |-> n, vals |-> IF n = "FEATURES" THEN {<<First, "on">>} ELSE {First}]
<1>1. First \in Vals
  BY DEF First, Settled
<1>2. \A n \in Names : L(n) \in GoodLine /\ L(n).name = n
  BY <1>1 DEF GoodLine, Line, Names, Params, Param, Readable, Values, Switches, Coherent
<1> HIDE DEF L
<1>3. ASSUME NEW f, f \in {<<>>, <<L("NAMESERVER"), L("DCACHE")>>,
                           <<L("IP_ADDRESS"), L("NAME")>>, <<L("FEATURES")>>}
      PROVE  Clean(f)
  <2>1. CASE f = <<>>
    BY <2>1 DEF Clean, Distinct, OldNameFirst
  <2>2. CASE f = <<L("NAMESERVER"), L("DCACHE")>>
    <3>1. f \in Seq(GoodLine)
      BY <1>2, <2>2 DEF Names, Params
    <3> QED
      BY <1>2, <2>2, <3>1 DEF Clean, Distinct, OldNameFirst, Names, Params
  <2>3. CASE f = <<L("IP_ADDRESS"), L("NAME")>>
    <3>1. f \in Seq(GoodLine)
      BY <1>2, <2>3 DEF Names, Params
    <3> QED
      BY <1>2, <2>3, <3>1 DEF Clean, Distinct, OldNameFirst, Names, Params
  <2>4. CASE f = <<L("FEATURES")>>
    <3>1. f \in Seq(GoodLine)
      BY <1>2, <2>4 DEF Names, Params
    <3> QED
      BY <1>2, <2>4, <3>1 DEF Clean, Distinct, OldNameFirst, Names, Params
  <2> QED
    BY <1>3, <2>1, <2>2, <2>3, <2>4
<1>4. Clean(conf)
  BY <1>3 DEF Init, Files, L
<1>5. want \in Reads /\ SettingsKept
  BY <1>4, ParseTypes DEF Init, SettingsKept
<1>6. StateTypes
  BY <1>4, <1>5, NothingRead DEF StateTypes, Init, Settled
<1>7. WriterInv
  BY DEF Init, WriterInv, Works
<1> QED
  BY <1>5, <1>6, <1>7 DEF IInv

\* Only p moves, and what the others are about to write is not touched.
LEMMA EndsTypes ==
  ASSUME Settled, StateTypes, WriterInv, NEW p \in Vzctls, Ends(p),
         Clean(conf'), tmp' \in Seq(GoodLine) \union {None}, runs' = runs, want' \in Reads,
         (conf' = conf /\ tmp' = tmp) \/ lock = p
  PROVE  StateTypes' /\ WriterInv'
<1>1. \A q \in Vzctls : /\ pc'[q] = IF q = p THEN "idle" ELSE pc[q]
                        /\ q # p => /\ cmd'[q] = cmd[q] /\ seen'[q] = seen[q]
                                    /\ lines'[q] = lines[q]
  BY DEF StateTypes, Ends
<1>2. StateTypes'
  BY <1>1, NothingRead DEF StateTypes, Ends
<1>3. WriterInv'
  <2> SUFFICES ASSUME NEW q \in Vzctls, q # p
               PROVE  /\ Works(q)' => lock' = q
                      /\ pc'[q] \in {"open", "write"} =>
                           lines'[q] = MergeConf(conf', Store(seen'[q], cmd'[q]))
                      /\ pc'[q] = "write" => Prefix(tmp', lines'[q])
    BY <1>1 DEF WriterInv, Works
  <2>1. CASE Works(q)
    <3>1. lock = q /\ lock' = q
      BY <2>1 DEF WriterInv, Ends
    <3> QED
      BY <1>1, <3>1 DEF WriterInv, Settled
  <2>2. CASE ~Works(q)
    BY <1>1, <2>2 DEF Works
  <2> QED
    BY <2>1, <2>2
<1> QED
  BY <1>2, <1>3

\* The steps that leave the file alone.
LEMMA QuietStep ==
  ASSUME Settled, IInv, NEW p \in Vzctls,
         Invoke(p) \/ Lock(p) \/ Apply(p) \/ ReadConf(p) \/ OpenTmp(p)
          \/ WriteLine(p) \/ Die(p)
  PROVE  StateTypes' /\ WriterInv' /\ conf' = conf /\ want' = want
<1> USE DEF IInv
<1>0. Clean(conf) /\ want \in Reads /\ tmp \in Seq(GoodLine) \union {None}
  BY DEF StateTypes
<1>1. CASE Invoke(p)
  <2>1. Parse(conf) \in Reads
    BY <1>0, ParseTypes
  <2>2. /\ UNCHANGED <<conf, tmp, lock, lines, want>>
        /\ pc[p] = "idle" /\ pc' = [pc EXCEPT ![p] = "parsed"]
    BY <1>1 DEF Invoke, To, file
  <2>3. StateTypes'
    BY <1>1, <2>1, <2>2 DEF StateTypes, Invoke, Settled
  <2>4. WriterInv'
    BY <1>1, <2>2 DEF StateTypes, WriterInv, Works, Invoke
  <2> QED
    BY <2>2, <2>3, <2>4
<1>2. CASE Lock(p)
  <2>1. CASE Ends(p) /\ UNCHANGED <<file, want, runs>>
    BY <1>0, <2>1, EndsTypes DEF file
  <2>2. CASE /\ lock = None /\ To(p, "parsed", "set") /\ lock' = p
             /\ UNCHANGED <<file, cmd, seen, lines, want, runs>>
    BY <2>2 DEF StateTypes, WriterInv, Works, To, file, Settled
  <2> QED
    BY <1>2, <2>1, <2>2 DEF Lock
<1>3. CASE Apply(p)
  <2>1. CASE Ends(p) /\ UNCHANGED <<file, want, runs>>
    BY <1>0, <2>1, EndsTypes DEF file
  <2>2. CASE To(p, "set", "save") /\ UNCHANGED <<file, lock, cmd, seen, lines, want, runs>>
    BY <2>2 DEF StateTypes, WriterInv, Works, To, file
  <2> QED
    BY <1>3, <2>1, <2>2 DEF Apply
<1>4. CASE ReadConf(p)
  <2>1. /\ pc[p] = "save" /\ pc' = [pc EXCEPT ![p] = "open"]
        /\ lines' = [lines EXCEPT ![p] = MergeConf(conf, Store(seen[p], cmd[p]))]
        /\ UNCHANGED <<conf, tmp, lock, cmd, seen, want, runs>>
    BY <1>4 DEF ReadConf, To, file
  <2>2. cmd[p] \in Commands /\ seen[p] \in Reads
    BY <2>1 DEF StateTypes
  <2>3. Store(seen[p], cmd[p]) \in GoodLine /\ Store(seen[p], cmd[p]).name \in Params
    BY <2>2, StoreTypes, CommandTypes
  <2>4. MergeConf(conf, Store(seen[p], cmd[p])) \in Seq(GoodLine)
    BY <1>0, <2>3, MergeClean DEF Clean
  <2> QED
    BY <2>1, <2>4 DEF StateTypes, WriterInv, Works
<1>5. CASE OpenTmp(p)
  <2>1. /\ pc[p] = "open" /\ pc' = [pc EXCEPT ![p] = "write"] /\ tmp' = <<>>
        /\ UNCHANGED <<conf, lock, cmd, seen, lines, want, runs>>
    BY <1>5 DEF OpenTmp, To
  <2>2. Prefix(<<>>, lines[p])
    BY DEF StateTypes, Prefix
  <2>3. StateTypes'
    BY <2>1 DEF StateTypes
  <2>4. WriterInv'
    BY <2>1, <2>2 DEF StateTypes, WriterInv, Works, Settled
  <2> QED
    BY <2>1, <2>3, <2>4
<1>6. CASE WriteLine(p)
  <2>1. pc[p] = "write" /\ lock = p /\ Prefix(tmp, lines[p]) /\ lines[p] \in Seq(GoodLine)
    BY <1>6 DEF WriteLine, WriterInv, Works, StateTypes
  <2>2. CASE tmp' = None /\ Ends(p) /\ UNCHANGED <<conf, want, runs>>
    BY <1>0, <2>1, <2>2, EndsTypes
  <2>3. CASE /\ tmp' = Append(tmp, Head(Unwritten(p)))
             /\ UNCHANGED <<conf, lock, pc, cmd, seen, lines, want, runs>>
    <3> DEFINE n == Len(tmp)
    <3>1. n \in Nat /\ tmp \in Seq(GoodLine) /\ n <= Len(lines[p]) /\ Len(lines[p]) \in Nat
      BY <2>1 DEF Prefix
    <3>2. n < Len(lines[p])
      BY <1>6, <3>1, <2>1 DEF WriteLine, Unwritten
    <3>3. Head(Unwritten(p)) = lines[p][n + 1]
      BY <2>1, <3>1, <3>2 DEF Unwritten
    <3>4. lines[p][n + 1] \in GoodLine
      BY <2>1, <3>1, <3>2
    <3>5. tmp' \in Seq(GoodLine) /\ Prefix(tmp', lines[p])
      BY <2>1, <2>3, <3>1, <3>2, <3>3, <3>4 DEF Prefix
    <3> QED
      BY <2>1, <2>3, <3>5 DEF StateTypes, WriterInv, Works
  <2> QED
    BY <1>6, <2>2, <2>3 DEF WriteLine
<1>7. CASE Die(p)
  BY <1>0, <1>7, EndsTypes DEF Die, file
<1> QED
  BY <1>1, <1>2, <1>3, <1>4, <1>5, <1>6, <1>7

\* The new file is the old one with the line of the command.
LEMMA RenameStep ==
  ASSUME Settled, IInv, NEW p \in Vzctls, Rename(p)
  PROVE  /\ StateTypes' /\ WriterInv'
         /\ cmd[p] \in Commands /\ seen[p] \in Reads
         /\ Parse(conf') =
              [Parse(conf) EXCEPT ![cmd[p].param] = Result(seen[p][cmd[p].param], cmd[p])]
         /\ want' = [want EXCEPT ![cmd[p].param] = Result(want[cmd[p].param], cmd[p])]
<1> USE DEF IInv
<1> DEFINE c == cmd[p]
           new == Store(seen[p], c)
<1>1. /\ pc[p] = "write" /\ lock = p /\ Prefix(tmp, lines[p]) /\ lines[p] \in Seq(GoodLine)
      /\ lines[p] = MergeConf(conf, new) /\ Clean(conf) /\ want \in Reads
      /\ c \in Commands /\ seen[p] \in Reads
  BY DEF Rename, WriterInv, Works, StateTypes
<1>2. /\ new \in GoodLine /\ new.name = c.param /\ c.param \in Params
      /\ new.vals = Result(seen[p][c.param], c)
  BY <1>1, StoreTypes, CommandTypes
<1>3. tmp = lines[p]
  <2>1. Len(tmp) \in Nat /\ Len(lines[p]) \in Nat /\ tmp \in Seq(GoodLine)
    BY <1>1 DEF Prefix
  <2>2. Unwritten(p) = <<>>
    BY DEF Rename, Settled
  <2>3. Len(tmp) = Len(lines[p])
    BY <1>1, <2>1, <2>2 DEF Unwritten, Prefix
  <2> QED
    BY <1>1, <2>1, <2>3 DEF Prefix
<1>4. conf' = MergeConf(conf, new) /\ tmp' = None /\ Ends(p) /\ runs' = runs
  BY <1>1, <1>3 DEF Rename
<1>5. want' = [want EXCEPT ![c.param] = Result(want[c.param], c)]
  BY DEF Rename
<1>6. want' \in Reads
  <2>1. Result(want[c.param], c) \in Readable(c.param)
    <3>1. Store(want, c) \in GoodLine /\ Store(want, c).vals = Result(want[c.param], c)
          /\ Store(want, c).name = c.param
      BY <1>1, StoreTypes
    <3>2. Param(c.param) = c.param
      BY <1>2 DEF Param, Params
    <3> QED
      BY <3>1, <3>2 DEF GoodLine
  <2> QED
    BY <1>1, <1>2, <1>5, <2>1, ReadableTypes DEF Reads
<1>7. /\ Clean(conf')
      /\ Parse(conf') = [Parse(conf) EXCEPT ![c.param] = Result(seen[p][c.param], c)]
  BY <1>1, <1>2, <1>4, MergeClean, MergeReads
<1>8. StateTypes' /\ WriterInv'
  BY <1>1, <1>4, <1>6, <1>7, EndsTypes
<1> QED
  BY <1>1, <1>5, <1>7, <1>8

LEMMA StepInv ==
  ASSUME Settled, IInv, [Next]_vars
  PROVE  IInv'
<1>1. CASE UNCHANGED vars
  BY <1>1 DEF vars, file, IInv, StateTypes, WriterInv, Works, SettingsKept
<1>2. ASSUME NEW p \in Vzctls,
             Invoke(p) \/ Lock(p) \/ Apply(p) \/ ReadConf(p) \/ OpenTmp(p)
              \/ WriteLine(p) \/ Die(p)
      PROVE  IInv'
  BY <1>2, QuietStep DEF IInv, SettingsKept
<1>3. ASSUME NEW p \in Vzctls, Rename(p) PROVE IInv'
  <2> DEFINE q == cmd[p].param
  <2>1. /\ StateTypes' /\ WriterInv' /\ cmd[p] \in Commands
        /\ Parse(conf') = [Parse(conf) EXCEPT ![q] = Result(seen[p][q], cmd[p])]
        /\ want' = [want EXCEPT ![q] = Result(want[q], cmd[p])]
    BY <1>3, RenameStep
  <2>2. q \in Params /\ want \in Reads /\ Parse(conf) \in Reads
    BY <2>1, CommandTypes, ParseTypes DEF IInv, StateTypes
  <2>3. q \notin {"IP_ADDRESS", "FEATURES"} =>
          \A old : Result(old, cmd[p]) = cmd[p].add
    BY DEF Result
  <2>4. SettingsKept'
    <3> SUFFICES ASSUME NEW r \in {"NAME", "NAMESERVER", "DCACHESIZE"}
                 PROVE  Parse(conf')[r] = want'[r]
      BY DEF SettingsKept
    <3>1. r \in Params /\ Parse(conf)[r] = want[r]
      BY DEF Params, IInv, SettingsKept
    <3>2. CASE r = q
      BY <2>1, <2>2, <2>3, <3>1, <3>2 DEF Reads
    <3>3. CASE r # q
      BY <2>1, <2>2, <3>1, <3>3 DEF Reads
    <3> QED
      BY <3>2, <3>3
  <2> QED
    BY <2>1, <2>4 DEF IInv
<1> QED
  BY <1>1, <1>2, <1>3 DEF Next

LEMMA InvTypes ==
  ASSUME IInv
  PROVE  TypeOK
<1>1. \A f \in Seq(GoodLine) : f \in Seq(Line)
  BY DEF GoodLine
<1>2. \A p \in Vzctls : DOMAIN seen[p] = Params /\ lines[p] \in Seq(Line)
  BY <1>1 DEF IInv, StateTypes, Reads
<1>3. \A q \in Params : want[q] \in Values(q)
  BY DEF IInv, StateTypes, Reads, Readable
<1> QED
  BY <1>1, <1>2, <1>3 DEF TypeOK, IInv, StateTypes, Clean

-----------------------------------------------------------------------------
(* What holds of every behaviour of any number of vzctl set --save.        *)

(* No saved setting undoes another one: a string and a limit are what the  *)
(* last command has set (main(), run_action(), vps_save_config()).         *)
THEOREM LastCommandWins ==
  ASSUME Settled
  PROVE  Spec => []SettingsKept
<1>1. Init => IInv
  BY InitInv
<1>2. IInv /\ [Next]_vars => IInv'
  BY StepInv
<1>3. IInv => SettingsKept
  BY DEF IInv
<1> QED
  BY <1>1, <1>2, <1>3, PTL DEF Spec

(* The file changes as a whole, and then one parameter reads as its        *)
(* command asks, whoever dies in between (write_conf(), rename()).         *)
THEOREM OneParameterChanges ==
  ASSUME Settled, None \notin Commands
  PROVE  Spec => SavesOnlyWhatIsAsked
<1> DEFINE A == conf' # conf =>
                  \E p \in Vzctls :
                    /\ cmd[p] # None
                    /\ LET q == cmd[p].param
                       IN  Parse(conf') = [Parse(conf) EXCEPT ![q] = Result(seen[p][q], cmd[p])]
<1>1. Init => IInv
  BY InitInv
<1>2. IInv /\ [Next]_vars => IInv'
  BY StepInv
<1>3. IInv /\ [Next]_vars => [A]_vars
  <2> SUFFICES ASSUME IInv, Next, conf' # conf PROVE A
    BY DEF vars, file
  <2>1. PICK p \in Vzctls : Rename(p)
    BY QuietStep DEF Next
  <2> QED
    BY <2>1, RenameStep
<1> QED
  BY <1>1, <1>2, <1>3, PTL DEF Spec, SavesOnlyWhatIsAsked
=============================================================================
