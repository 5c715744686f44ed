--------------------------- MODULE MCSettingsProofs ---------------------------
(***************************************************************************)
(* What the run of MCSettings checks, for every value of its constants:    *)
(* the proofs about ConvertPloop, those of SettingsProofs and              *)
(* SetCommandProofs for the instances of the run, those about the limits   *)
(* of Ubc, from HostsAssumption, and those about the forms of ParamForms,  *)
(* from FormsAssumption.                                                   *)
(***************************************************************************)
EXTENDS MCSettings, Integers, FiniteSetTheorems, SequenceTheorems, WellFoundedInduction,
        TLAPS

-----------------------------------------------------------------------------
(* The conversion to ploop.                                                *)
(* The private area is away only while the old files lie beside it, and    *)
(* who is about to move it has a complete image that is not mounted.       *)
PlaceInv ==
  /\ private \in {"none", "old", "ploop"}
  /\ private = "none" => tmp = "old"
  /\ private = "ploop" => pc \in {"idle", "remove"} /\ ~mounted

SwapInv ==
  /\ mounted \in BOOLEAN
  /\ pc = "umount" /\ ret = 0 => private = "old" /\ new = "ploop"
  /\ pc \in {"mkdtemp", "away"} => private = "old" /\ new = "ploop" /\ ~mounted
  /\ pc = "inplace" => private = "none" /\ new = "ploop" /\ ~mounted
  /\ pc = "remove" => private = "ploop"

IInv == PlaceInv /\ SwapInv

LEMMA InitInv == Init => IInv
BY DEF Init, IInv, PlaceInv, SwapInv

\* Up to the removal of the image nothing is moved.
LEMMA CopyingInv ==
  ASSUME IInv, Invoke \/ CreateImage \/ MountImage \/ Copy \/ UmountImage
  PROVE  IInv'
<1> USE DEF IInv, PlaceInv, SwapInv, At, Fails
<1>1. CASE Invoke
  BY <1>1 DEF Invoke
<1>2. CASE CreateImage
  BY <1>2 DEF CreateImage
<1>3. CASE MountImage
  BY <1>3 DEF MountImage
<1>4. CASE Copy
  BY <1>4 DEF Copy
<1>5. CASE UmountImage
  BY <1>5 DEF UmountImage
<1> QED
  BY <1>1, <1>2, <1>3, <1>4, <1>5

LEMMA SwapStepInv ==
  ASSUME IInv, MakeTemp \/ MoveAway \/ MoveInPlace \/ RemoveOld \/ RemoveNew \/ Crash
  PROVE  IInv'
<1> USE DEF IInv, PlaceInv, SwapInv, At, Fails
<1>1. CASE MakeTemp
  BY <1>1 DEF MakeTemp
<1>2. CASE MoveAway
  BY <1>2 DEF MoveAway
<1>3. CASE MoveInPlace
  BY <1>3 DEF MoveInPlace
<1>4. CASE RemoveOld
  BY <1>4 DEF RemoveOld
<1>5. CASE RemoveNew
  BY <1>5 DEF RemoveNew
<1>6. CASE Crash
  <2>1. mounted' = mounted \/ mounted' = FALSE
    BY <1>6, Zenon DEF Crash
  <2>2. pc' = "idle" /\ pc # "idle" /\ UNCHANGED <<private, new, tmp, ret>>
    BY <1>6 DEF Crash
  <2>3. CASE mounted' = mounted
    BY <2>2, <2>3
  <2>4. CASE mounted' = FALSE
    BY <2>2, <2>4
  <2> QED
    BY <2>1, <2>3, <2>4
<1> QED
  BY <1>1, <1>2, <1>3, <1>4, <1>5, <1>6

LEMMA NextInv == IInv /\ [Next]_vars => IInv'
<1>1. ASSUME IInv, Next PROVE IInv'
  BY <1>1, CopyingInv, SwapStepInv DEF Next
<1>2. ASSUME IInv, UNCHANGED vars PROVE IInv'
  BY <1>2 DEF IInv, PlaceInv, SwapInv, vars
<1> QED
  BY <1>1, <1>2

(* vzctl convert never gives up the last complete copy of the container's  *)
(* files, and puts no incomplete or mounted image in their place, wherever *)
(* it fails or is killed and however often it is called again.             *)
THEOREM FilesAreKept == Spec => []ConversionKeepsFiles
<1>1. IInv => ConversionKeepsFiles
  BY DEF IInv, PlaceInv, SwapInv, ConversionKeepsFiles, CopySurvives, PlaceIsComplete
<1> QED
  BY <1>1, InitInv, NextInv, PTL DEF Spec

-----------------------------------------------------------------------------
(* The limits of vzsplit and vzcfgvalidate.                                *)

Sizes == {"kmemsize", "privvmpages", "dcachesize", "vmguarpages", "oomguarpages", "physpages"}
Needed == Counts \cup Buffers \cup Sizes \cup {"numfile"}

\* A configuration has all limits, but may have no AVNUMPROC.
IsOf(u, T) ==
  /\ DOMAIN u \in {Needed, Needed \cup {"avnumproc"}} /\ u = [r \in DOMAIN u |-> u[r]]
  /\ \A r \in DOMAIN u : u[r] \in T \X T
IsConf(u) == IsOf(u, 0..MaxLong)

Bar(u, r) == u[r][1]
Lim(u, r) == u[r][2]
Top(u, r) == Limits!Larger(u[r][1], u[r][2])

\* What the rules of validate() make of one limit.
Raised(p, v) == IF p[1] < v THEN <<v, Limits!ULong(p[2] + v - p[1])>> ELSE p
Gapped(p, v) == IF Limits!ULong(p[2] - p[1]) < v THEN <<p[1], Limits!ULong(p[1] + v)>> ELSE p
Buffered(p) == Raised(p, IF p[1] < 32 * 1024 THEN 32 * 1024 ELSE 129 * 1024)

\* What they ask for.
Gap(u, r) == Limits!Masked(2560 * Bar(u, IF r = "othersockbuf" THEN "numothersock" ELSE "numtcpsock"))
Files(u) ==
  Limits!Masked(Limits!Larger(Limits!Avnumproc(u) * 32,
                              Bar(u, "numtcpsock") + Bar(u, "numothersock") + Bar(u, "numpty")))
Dentries(u) == Limits!Masked(Bar(u, "numfile") * 384)
Kmem(u) == Limits!Masked(40 * 1024 * Limits!Avnumproc(u) + Lim(u, "dcachesize"))

LEMMA LongRange ==
  ASSUME NEW x \in Int
  PROVE  /\ Limits!ULong(x) \in Nat /\ Limits!Masked(x) \in 0..MaxLong
         /\ x \in Nat => Limits!Masked(x) <= x
         /\ x \in 0..(2 * MaxLong + 1) => Limits!ULong(x) = x
         /\ x \in 0..MaxLong => Limits!Masked(x) = x
<1> DEFINE m == 2 * (MaxLong + 1)
           n == MaxLong + 1
<1>1. m \in Nat \ {0} /\ n \in Nat \ {0} /\ m = 2 * MaxLong + 2
  BY HostsAssumption
<1> HIDE DEF m, n
<1>2. x % m \in Nat /\ x % n \in Nat /\ x % n < n
  BY <1>1
<1>3. x \in Nat => x % n <= x
  BY <1>1
<1>4. x \in Nat /\ x < m => x % m = x
  BY <1>1
<1>5. x \in Nat /\ x < n => x % n = x
  BY <1>1
<1>6. x % n \in 0..MaxLong
  BY <1>2, HostsAssumption DEF n
<1> QED
  BY <1>1, <1>2, <1>3, <1>4, <1>5, <1>6, HostsAssumption DEF Limits!ULong, Limits!Masked, m, n

LEMMA RaiseOne ==
  ASSUME NEW u, IsOf(u, Nat), NEW r \in DOMAIN u, NEW v \in Nat
  PROVE  /\ IsOf(Limits!RaiseBar(u, r, v), Nat) /\ DOMAIN Limits!RaiseBar(u, r, v) = DOMAIN u
         /\ Limits!RaiseBar(u, r, v)[r] = Raised(u[r], v)
         /\ \A s \in DOMAIN u \ {r} : Limits!RaiseBar(u, r, v)[s] = u[s]
<1>1. u[r][1] \in Nat /\ u[r][2] \in Nat
  BY DEF IsOf
<1>2. Limits!ULong(u[r][2] + v - u[r][1]) \in Nat
  BY <1>1, LongRange
<1>3. CASE u[r][1] < v
  <2> DEFINE w == [u EXCEPT ![r] = <<v, Limits!ULong(u[r][2] + v - u[r][1])>>]
  <2>1. Limits!RaiseBar(u, r, v) = w
    BY <1>3 DEF Limits!RaiseBar, Limits!Bar, Limits!Lim
  <2>2. DOMAIN w = DOMAIN u /\ w = [s \in DOMAIN w |-> w[s]]
    BY DEF IsOf
  <2>3. w[r] = Raised(u[r], v) /\ w[r] \in Nat \X Nat
    BY <1>2, <1>3 DEF IsOf, Raised
  <2>4. \A s \in DOMAIN u \ {r} : w[s] = u[s]
    BY DEF IsOf
  <2> QED
    BY <2>1, <2>2, <2>3, <2>4 DEF IsOf
<1>4. CASE ~(u[r][1] < v)
  BY <1>4 DEF Limits!RaiseBar, Limits!Bar, Raised
<1> QED
  BY <1>3, <1>4

LEMMA GapOne ==
  ASSUME NEW u, IsOf(u, Nat), NEW r \in Buffers, NEW s \in Counts
  PROVE  LET v == Limits!Masked(2560 * Bar(u, s))
         IN  /\ IsOf(Limits!Gap(u, r, s), Nat) /\ DOMAIN Limits!Gap(u, r, s) = DOMAIN u
             /\ Limits!Gap(u, r, s)[r] = Gapped(u[r], v)
             /\ \A t \in DOMAIN u \ {r} : Limits!Gap(u, r, s)[t] = u[t]
<1> DEFINE v == Limits!Masked(2560 * Bar(u, s))
<1>1. r \in DOMAIN u /\ s \in DOMAIN u
  BY DEF IsOf, Needed
<1>2. u[r][1] \in Nat /\ u[r][2] \in Nat /\ u[s][1] \in Nat /\ u[r] = <<u[r][1], u[r][2]>>
  BY <1>1 DEF IsOf
<1>3. v \in Nat
  BY <1>2, LongRange DEF Bar
<1> HIDE DEF v
<1>4. Limits!ULong(u[r][1] + v) \in Nat
  BY <1>2, <1>3, LongRange
<1>5. CASE Limits!ULong(u[r][2] - u[r][1]) < v
  <2> DEFINE w == [u EXCEPT ![r][2] = Limits!ULong(u[r][1] + v)]
  <2>1. Limits!Gap(u, r, s) = w
    BY <1>5 DEF Limits!Gap, Limits!Bar, Limits!Lim, v, Bar
  <2>2. DOMAIN w = DOMAIN u /\ w = [t \in DOMAIN w |-> w[t]]
    BY DEF IsOf
  <2>3. w[r] = <<u[r][1], Limits!ULong(u[r][1] + v)>>
    BY <1>1, <1>2 DEF IsOf
  <2>4. \A t \in DOMAIN u \ {r} : w[t] = u[t]
    BY DEF IsOf
  <2>a. Gapped(u[r], v) = <<u[r][1], Limits!ULong(u[r][1] + v)>>
    BY <1>5 DEF Gapped
  <2>b. w[r] \in Nat \X Nat
    BY <2>3, <1>2, <1>4
  <2>5. w[r] = Gapped(u[r], v) /\ w[r] \in Nat \X Nat
    BY <2>3, <2>a, <2>b
  <2> HIDE DEF w
  <2>6. IsOf(w, Nat)
    BY <2>2, <2>4, <2>5 DEF IsOf
  <2> QED
    BY <2>1, <2>2, <2>4, <2>5, <2>6 DEF v
<1>6. CASE ~(Limits!ULong(u[r][2] - u[r][1]) < v)
  <2>1. Limits!Gap(u, r, s) = u
    BY <1>6 DEF Limits!Gap, Limits!Bar, Limits!Lim, v, Bar
  <2>2. Gapped(u[r], v) = u[r]
    BY <1>6 DEF Gapped
  <2> QED
    BY <2>1, <2>2 DEF v
<1> QED
  BY <1>5, <1>6

\* The first rule, limit by limit.
Levelled(p, r) ==
  CASE r \in Limits!Equal -> Limits!Same(Limits!Larger(p[1], p[2]))
    [] r \in Limits!Ordered -> <<p[1], Limits!Larger(p[1], p[2])>>
    [] r \in Limits!Guarantees -> <<p[1], MaxLong>>
    [] r = "physpages" -> <<0, MaxLong>>
    [] OTHER -> p

LEMMA LevelAll ==
  ASSUME NEW T, T \in {Nat, 0..MaxLong}, NEW u, IsOf(u, T)
  PROVE  LET b == Limits!BarrierAndLimit(u)
         IN  /\ IsOf(b, T) /\ DOMAIN b = DOMAIN u
             /\ \A r \in DOMAIN u : b[r] = Levelled(u[r], r)
<1> DEFINE b == Limits!BarrierAndLimit(u)
<1>1. DOMAIN b = DOMAIN u /\ b = [r \in DOMAIN b |-> b[r]]
  BY DEF Limits!BarrierAndLimit
<1>2. \A r \in DOMAIN u : b[r] = Levelled(u[r], r)
  BY DEF Limits!BarrierAndLimit, Levelled, Limits!Bar, Limits!Lim
<1>3. 0 \in T /\ MaxLong \in T /\ T \subseteq Nat
  BY HostsAssumption
<1>4. \A p \in T \X T : \A r : Levelled(p, r) \in T \X T
  BY <1>3 DEF Levelled, Limits!Same, Limits!Larger
<1> HIDE DEF b
<1> QED
  BY <1>1, <1>2, <1>4 DEF IsOf, b

LEMMA DcacheOne ==
  ASSUME NEW u, IsOf(u, Nat)
  PROVE  LET w == Limits!DcacheLimit(u)
         IN  /\ IsOf(w, Nat) /\ DOMAIN w = DOMAIN u
             /\ w["dcachesize"] = <<Bar(u, "dcachesize"), Limits!Larger(Lim(u, "dcachesize"), Dentries(u))>>
             /\ \A t \in DOMAIN u \ {"dcachesize"} : w[t] = u[t]
<1> DEFINE w == Limits!DcacheLimit(u)
<1>1. "dcachesize" \in DOMAIN u /\ "numfile" \in DOMAIN u
  BY DEF IsOf, Needed, Sizes
<1>2. u["dcachesize"][1] \in Nat /\ u["dcachesize"][2] \in Nat /\ u["numfile"][1] \in Nat
        /\ u["dcachesize"] = <<u["dcachesize"][1], u["dcachesize"][2]>>
  BY <1>1 DEF IsOf
<1>3. Dentries(u) \in Nat
  BY <1>2, LongRange DEF Dentries, Bar
<1>4. w = [u EXCEPT !["dcachesize"][2] = Limits!Larger(Lim(u, "dcachesize"), Dentries(u))]
  BY DEF Limits!DcacheLimit, Limits!Bar, Lim, Dentries, Bar
<1>5. w["dcachesize"] = <<Bar(u, "dcachesize"), Limits!Larger(Lim(u, "dcachesize"), Dentries(u))>>
  BY <1>1, <1>2, <1>4 DEF IsOf, Bar
<1>6. DOMAIN w = DOMAIN u /\ w = [t \in DOMAIN w |-> w[t]]
        /\ \A t \in DOMAIN u \ {"dcachesize"} : w[t] = u[t]
  BY <1>4 DEF IsOf
<1>7. w["dcachesize"] \in Nat \X Nat
  BY <1>2, <1>3, <1>5 DEF Bar, Lim, Limits!Larger
<1> HIDE DEF w
<1> QED
  BY <1>5, <1>6, <1>7 DEF IsOf, w

LEMMA PrivvmOne ==
  ASSUME NEW u, IsOf(u, Nat)
  PROVE  LET w == Limits!PrivvmBarrier(u)
             v == Bar(u, "vmguarpages")
         IN  /\ IsOf(w, Nat) /\ DOMAIN w = DOMAIN u
             /\ w["privvmpages"] =
                  IF Bar(u, "privvmpages") < v
                  THEN <<v, IF Lim(u, "privvmpages") < v THEN v ELSE Lim(u, "vmguarpages")>>
                  ELSE u["privvmpages"]
             /\ \A t \in DOMAIN u \ {"privvmpages"} : w[t] = u[t]
<1> DEFINE w == Limits!PrivvmBarrier(u)
           v == Bar(u, "vmguarpages")
           p == IF Bar(u, "privvmpages") < v
                THEN <<v, IF Lim(u, "privvmpages") < v THEN v ELSE Lim(u, "vmguarpages")>>
                ELSE u["privvmpages"]
<1>1. "privvmpages" \in DOMAIN u /\ "vmguarpages" \in DOMAIN u
  BY DEF IsOf, Needed, Sizes
<1>2. p \in Nat \X Nat
  BY <1>1 DEF IsOf, Bar, Lim
<1>3. w = [u EXCEPT !["privvmpages"] = p]
  BY <1>1 DEF Limits!PrivvmBarrier, Limits!Bar, Limits!Lim, Bar, Lim, IsOf
<1> HIDE DEF w, p
<1>4. w["privvmpages"] = p
  BY <1>1, <1>3 DEF IsOf
<1>5. DOMAIN w = DOMAIN u /\ w = [t \in DOMAIN w |-> w[t]]
        /\ \A t \in DOMAIN u \ {"privvmpages"} : w[t] = u[t]
  BY <1>3 DEF IsOf
<1> QED
  BY <1>1, <1>2, <1>4, <1>5 DEF IsOf, w, p

LEMMA SameProcesses ==
  ASSUME NEW u, NEW w, DOMAIN w = DOMAIN u, "numproc" \in DOMAIN u,
         \A r \in {"numproc", "avnumproc"} \cap DOMAIN u : w[r] = u[r]
  PROVE  Limits!Avnumproc(w) = Limits!Avnumproc(u)
BY DEF Limits!Avnumproc, Limits!Bar

LEMMA Processes ==
  ASSUME NEW u, IsOf(u, Nat)
  PROVE  Limits!Avnumproc(u) \in Nat
<1>1. "numproc" \in DOMAIN u
  BY DEF IsOf, Needed, Counts
<1> QED
  BY <1>1 DEF IsOf, Limits!Avnumproc, Limits!Bar

LEMMA Askings ==
  ASSUME NEW u, IsOf(u, Nat)
  PROVE  /\ \A r \in Buffers : Gap(u, r) \in 0..MaxLong
         /\ Files(u) \in 0..MaxLong /\ Dentries(u) \in 0..MaxLong /\ Kmem(u) \in 0..MaxLong
<1>1. \A r \in Counts \cup {"numfile"} : Bar(u, r) \in Nat
  BY DEF IsOf, Bar, Needed
<1>2. Lim(u, "dcachesize") \in Nat /\ Limits!Avnumproc(u) \in Nat
  BY Processes DEF IsOf, Lim, Needed, Sizes
<1>3. \A r \in Buffers : Gap(u, r) \in 0..MaxLong
  BY <1>1, LongRange DEF Gap, Counts
<1>4. Files(u) \in 0..MaxLong
  BY <1>1, <1>2, LongRange DEF Files, Counts, Limits!Larger
<1>5. Dentries(u) \in 0..MaxLong
  BY <1>1, LongRange DEF Dentries
<1>6. Kmem(u) \in 0..MaxLong
  BY <1>2, LongRange DEF Kmem
<1> QED
  BY <1>3, <1>4, <1>5, <1>6

(* All rules: what becomes of a limit depends on few others.               *)
LEMMA RepairAll ==
  ASSUME NEW u, IsOf(u, Nat)
  PROVE  LET b == Limits!BarrierAndLimit(u)
             w == Limits!Repaired(u)
         IN  /\ IsOf(w, Nat) /\ DOMAIN w = DOMAIN u
             /\ \A r \in DOMAIN u \ (Buffers \cup {"numfile", "dcachesize", "kmemsize", "privvmpages"}) :
                  w[r] = b[r]
             /\ w["dcachesize"] =
                  <<Bar(b, "dcachesize"), Limits!Larger(Lim(b, "dcachesize"), Dentries(b))>>
             /\ w["kmemsize"] =
                  Raised(b["kmemsize"],
                         Limits!Masked(40 * 1024 * Limits!Avnumproc(b) + Lim(w, "dcachesize")))
             /\ w["privvmpages"] =
                  IF Bar(b, "privvmpages") < Bar(b, "vmguarpages")
                  THEN <<Bar(b, "vmguarpages"),
                         IF Lim(b, "privvmpages") < Bar(b, "vmguarpages") THEN Bar(b, "vmguarpages")
                         ELSE Lim(b, "vmguarpages")>>
                  ELSE b["privvmpages"]
             /\ \A r \in {"tcpsndbuf", "tcprcvbuf"} :
                  w[r] = Raised(Gapped(b[r], Gap(b, r)), 64 * 1024)
             /\ w["othersockbuf"] = Buffered(Gapped(b["othersockbuf"], Gap(b, "othersockbuf")))
             /\ w["dgramrcvbuf"] = Buffered(b["dgramrcvbuf"])
             /\ w["numfile"] = Raised(b["numfile"], Files(b))
<1> DEFINE b == Limits!BarrierAndLimit(u)
           w1 == Limits!DcacheLimit(b)
           w2 == Limits!KmemBarrier(w1)
           w3 == Limits!PrivvmBarrier(w2)
           w4 == Limits!TcpSndGap(w3)
           w5 == Limits!OtherGap(w4)
           w6 == Limits!TcpRcvGap(w5)
           w7 == Limits!TcpRcvBarrier(w6)
           w8 == Limits!TcpSndBarrier(w7)
           w9 == Limits!Buffer(w8, "dgramrcvbuf")
           w10 == Limits!Buffer(w9, "othersockbuf")
           w == Limits!NumfileLimit(w10)
<1>1. Limits!Repaired(u) = w
  BY DEF Limits!Repaired
<1>2. IsOf(b, Nat) /\ DOMAIN b = DOMAIN u
  BY LevelAll
<1> DEFINE D == DOMAIN u
<1> HIDE DEF b
<1>3. Needed \subseteq D /\ "numproc" \in D
  BY DEF IsOf, Needed, Counts
<1>4. /\ IsOf(w1, Nat) /\ DOMAIN w1 = D
      /\ w1["dcachesize"] = <<Bar(b, "dcachesize"), Limits!Larger(Lim(b, "dcachesize"), Dentries(b))>>
      /\ \A t \in D \ {"dcachesize"} : w1[t] = b[t]
  BY <1>2, DcacheOne
<1> HIDE DEF w1
<1>5. Limits!Avnumproc(w1) = Limits!Avnumproc(b)
  BY <1>2, <1>3, <1>4, SameProcesses
<1>6. Kmem(w1) \in Nat /\ w2 = Limits!RaiseBar(w1, "kmemsize", Kmem(w1))
  BY <1>4, Askings, HostsAssumption DEF Limits!KmemBarrier, Kmem, Limits!Lim, Lim
<1>7. /\ IsOf(w2, Nat) /\ DOMAIN w2 = D
      /\ w2["kmemsize"] = Raised(b["kmemsize"], Kmem(w1))
      /\ \A t \in D \ {"kmemsize"} : w2[t] = w1[t]
  <2>1. "kmemsize" \in D /\ w1["kmemsize"] = b["kmemsize"]
    BY <1>3, <1>4 DEF Needed, Sizes
  <2> QED
    BY <2>1, <1>4, <1>6, RaiseOne
<1> HIDE DEF w2
<1>8. Kmem(w1) = Limits!Masked(40 * 1024 * Limits!Avnumproc(b) + Lim(w1, "dcachesize"))
  BY <1>5 DEF Kmem
<1>9. /\ IsOf(w3, Nat) /\ DOMAIN w3 = D
      /\ w3["privvmpages"] =
                  IF Bar(b, "privvmpages") < Bar(b, "vmguarpages")
                  THEN <<Bar(b, "vmguarpages"),
                         IF Lim(b, "privvmpages") < Bar(b, "vmguarpages") THEN Bar(b, "vmguarpages")
                         ELSE Lim(b, "vmguarpages")>>
                  ELSE b["privvmpages"]
      /\ \A t \in D \ {"privvmpages"} : w3[t] = w2[t]
  <2>1. w2["privvmpages"] = b["privvmpages"] /\ w2["vmguarpages"] = b["vmguarpages"]
    BY <1>3, <1>4, <1>7 DEF Needed, Sizes
  <2> QED
    BY <2>1, <1>7, PrivvmOne DEF Bar, Lim
<1> HIDE DEF w3
<1>10. \A t \in Counts \cup Buffers \cup {"numfile"} : w3[t] = b[t]
  BY <1>3, <1>4, <1>7, <1>9 DEF Needed, Counts, Buffers
<1>11. /\ IsOf(w4, Nat) /\ DOMAIN w4 = D
       /\ w4["tcpsndbuf"] = Gapped(b["tcpsndbuf"], Gap(b, "tcpsndbuf"))
       /\ \A t \in D \ {"tcpsndbuf"} : w4[t] = w3[t]
  <2>1. w3["tcpsndbuf"] = b["tcpsndbuf"] /\ w3["numtcpsock"] = b["numtcpsock"]
    BY <1>10 DEF Counts, Buffers
  <2> QED
    <3>1. "tcpsndbuf" \in Buffers /\ "numtcpsock" \in Counts
      BY DEF Counts, Buffers
    <3>2. Limits!Masked(2560 * Bar(w3, "numtcpsock")) = Gap(b, "tcpsndbuf")
      BY <2>1 DEF Gap, Bar
    <3>3. w4 = Limits!Gap(w3, "tcpsndbuf", "numtcpsock")
      BY DEF Limits!TcpSndGap
    <3> QED
      BY <2>1, <3>1, <3>2, <3>3, <1>9, GapOne
<1> HIDE DEF w4
<1>12. /\ IsOf(w5, Nat) /\ DOMAIN w5 = D
       /\ w5["othersockbuf"] = Gapped(b["othersockbuf"], Gap(b, "othersockbuf"))
       /\ \A t \in D \ {"othersockbuf"} : w5[t] = w4[t]
  <2>1. w4["othersockbuf"] = b["othersockbuf"] /\ w4["numothersock"] = b["numothersock"]
    BY <1>3, <1>10, <1>11 DEF Counts, Buffers, Needed
  <2> QED
    <3>1. "othersockbuf" \in Buffers /\ "numothersock" \in Counts
      BY DEF Counts, Buffers
    <3>2. Limits!Masked(2560 * Bar(w4, "numothersock")) = Gap(b, "othersockbuf")
      BY <2>1 DEF Gap, Bar
    <3>3. w5 = Limits!Gap(w4, "othersockbuf", "numothersock")
      BY DEF Limits!OtherGap
    <3> QED
      BY <2>1, <3>1, <3>2, <3>3, <1>11, GapOne
<1> HIDE DEF w5
<1>13. /\ IsOf(w6, Nat) /\ DOMAIN w6 = D
       /\ w6["tcprcvbuf"] = Gapped(b["tcprcvbuf"], Gap(b, "tcprcvbuf"))
       /\ \A t \in D \ {"tcprcvbuf"} : w6[t] = w5[t]
  <2>1. w5["tcprcvbuf"] = b["tcprcvbuf"] /\ w5["numtcpsock"] = b["numtcpsock"]
    BY <1>3, <1>10, <1>11, <1>12 DEF Counts, Buffers, Needed
  <2> QED
    <3>1. "tcprcvbuf" \in Buffers /\ "numtcpsock" \in Counts
      BY DEF Counts, Buffers
    <3>2. Limits!Masked(2560 * Bar(w5, "numtcpsock")) = Gap(b, "tcprcvbuf")
      BY <2>1 DEF Gap, Bar
    <3>3. w6 = Limits!Gap(w5, "tcprcvbuf", "numtcpsock")
      BY DEF Limits!TcpRcvGap
    <3> QED
      BY <2>1, <3>1, <3>2, <3>3, <1>12, GapOne
<1> HIDE DEF w6
<1>14. /\ IsOf(w7, Nat) /\ DOMAIN w7 = D
       /\ w7["tcprcvbuf"] = Raised(w6["tcprcvbuf"], 64 * 1024)
       /\ \A t \in D \ {"tcprcvbuf"} : w7[t] = w6[t]
  <2>1. "tcprcvbuf" \in D /\ w7 = Limits!RaiseBar(w6, "tcprcvbuf", 64 * 1024)
    BY <1>3 DEF Limits!TcpRcvBarrier, Needed, Buffers
  <2> QED
    BY <2>1, <1>13, RaiseOne
<1> HIDE DEF w7
<1>15. /\ IsOf(w8, Nat) /\ DOMAIN w8 = D
       /\ w8["tcpsndbuf"] = Raised(w7["tcpsndbuf"], 64 * 1024)
       /\ \A t \in D \ {"tcpsndbuf"} : w8[t] = w7[t]
  <2>1. "tcpsndbuf" \in D /\ w8 = Limits!RaiseBar(w7, "tcpsndbuf", 64 * 1024)
    BY <1>3 DEF Limits!TcpSndBarrier, Needed, Buffers
  <2> QED
    BY <2>1, <1>14, RaiseOne
<1> HIDE DEF w8
<1>16. /\ IsOf(w9, Nat) /\ DOMAIN w9 = D
       /\ w9["dgramrcvbuf"] = Buffered(w8["dgramrcvbuf"])
       /\ \A t \in D \ {"dgramrcvbuf"} : w9[t] = w8[t]
  <2> DEFINE t == IF w8["dgramrcvbuf"][1] < 32 * 1024 THEN 32 * 1024 ELSE 129 * 1024
  <2>1. "dgramrcvbuf" \in D /\ w9 = Limits!RaiseBar(w8, "dgramrcvbuf", t)
    BY <1>3 DEF Limits!Buffer, Limits!Bar, Needed, Buffers
  <2>2. t \in Nat /\ Buffered(w8["dgramrcvbuf"]) = Raised(w8["dgramrcvbuf"], t)
    BY DEF Buffered
  <2> HIDE DEF t
  <2> QED
    BY <2>1, <2>2, <1>15, RaiseOne
<1> HIDE DEF w9
<1>17. /\ IsOf(w10, Nat) /\ DOMAIN w10 = D
       /\ w10["othersockbuf"] = Buffered(w9["othersockbuf"])
       /\ \A t \in D \ {"othersockbuf"} : w10[t] = w9[t]
  <2> DEFINE t == IF w9["othersockbuf"][1] < 32 * 1024 THEN 32 * 1024 ELSE 129 * 1024
  <2>1. "othersockbuf" \in D /\ w10 = Limits!RaiseBar(w9, "othersockbuf", t)
    BY <1>3 DEF Limits!Buffer, Limits!Bar, Needed, Buffers
  <2>2. t \in Nat /\ Buffered(w9["othersockbuf"]) = Raised(w9["othersockbuf"], t)
    BY DEF Buffered
  <2> HIDE DEF t
  <2> QED
    BY <2>1, <2>2, <1>16, RaiseOne
<1> HIDE DEF w10
<1>18. \A t \in D \ (Buffers \cup {"dcachesize", "kmemsize", "privvmpages"}) : w10[t] = b[t]
  BY <1>4, <1>7, <1>9, <1>11, <1>12, <1>13, <1>14, <1>15, <1>16, <1>17 DEF Buffers
<1>19. Files(w10) = Files(b) /\ w10["numfile"] = b["numfile"]
  <2>1. \A t \in Counts \cup {"numfile"} : w10[t] = b[t]
    BY <1>3, <1>18 DEF Needed, Counts, Buffers
  <2>2. Limits!Avnumproc(w10) = Limits!Avnumproc(b)
    BY <1>2, <1>3, <1>17, <1>18, SameProcesses DEF Buffers
  <2> QED
    BY <2>1, <2>2 DEF Files, Bar, Counts
<1>20. Files(b) \in Nat /\ w = Limits!RaiseBar(w10, "numfile", Files(b))
  BY <1>2, <1>17, <1>19, Askings, HostsAssumption DEF Limits!NumfileLimit, Files, Limits!Bar, Bar
<1>21. /\ IsOf(w, Nat) /\ DOMAIN w = D
       /\ w["numfile"] = Raised(b["numfile"], Files(b))
       /\ \A t \in D \ {"numfile"} : w[t] = w10[t]
  BY <1>3, <1>17, <1>19, <1>20, RaiseOne DEF Needed
<1> HIDE DEF w
<1>22. /\ w["dcachesize"] = w1["dcachesize"] /\ w["kmemsize"] = w2["kmemsize"]
       /\ w["privvmpages"] = w3["privvmpages"]
  BY <1>3, <1>7, <1>9, <1>11, <1>12, <1>13, <1>14, <1>15, <1>16, <1>17, <1>21
     DEF Needed, Sizes
<1>23. \A r \in {"tcpsndbuf", "tcprcvbuf"} :
          w[r] = Raised(Gapped(b[r], Gap(b, r)), 64 * 1024)
  BY <1>3, <1>11, <1>12, <1>13, <1>14, <1>15, <1>16, <1>17, <1>21 DEF Needed, Buffers
<1>24. /\ w["othersockbuf"] = Buffered(Gapped(b["othersockbuf"], Gap(b, "othersockbuf")))
       /\ w["dgramrcvbuf"] = Buffered(b["dgramrcvbuf"])
  BY <1>3, <1>10, <1>11, <1>12, <1>13, <1>14, <1>15, <1>16, <1>17, <1>21 DEF Needed, Buffers
<1>25. w["kmemsize"] =
         Raised(b["kmemsize"], Limits!Masked(40 * 1024 * Limits!Avnumproc(b) + Lim(w, "dcachesize")))
  BY <1>7, <1>8, <1>22 DEF Lim
<1>26. \A r \in D \ (Buffers \cup {"numfile", "dcachesize", "kmemsize", "privvmpages"}) : w[r] = b[r]
  BY <1>18, <1>21
<1> QED
  BY <1>1, <1>4, <1>9, <1>21, <1>22, <1>23, <1>24, <1>25, <1>26 DEF b

\* As the file is read again.
Cut(p) == <<Limits!Smaller(p[1], MaxLong), Limits!Smaller(p[2], MaxLong)>>
Pass(u) == Limits!Parsed(Limits!Repaired(u))

LEMMA RaisedLimit ==
  ASSUME NEW x \in Nat, NEW y \in Nat, NEW v \in Nat, x <= y, y <= MaxLong, v <= MaxLong
  PROVE  LET q == Cut(Raised(<<x, y>>, v))
         IN  /\ q = <<q[1], q[2]>> /\ q[1] \in 0..MaxLong /\ q[2] \in 0..MaxLong
             /\ q[1] = Limits!Larger(x, v) /\ q[1] <= q[2]
             /\ x = y => q[1] = q[2]
             /\ x >= v => q = <<x, y>>
<1>0. MaxLong \in Nat
  BY HostsAssumption
<1>1. CASE x < v
  <2> DEFINE z == y + v - x
  <2>1. z \in 0..(2 * MaxLong + 1) /\ z \in Nat /\ v <= z
    BY <1>0, <1>1
  <2>2. Limits!ULong(z) = z
    BY <2>1, LongRange
  <2>3. Raised(<<x, y>>, v) = <<v, z>>
    BY <1>1, <2>2 DEF Raised
  <2>4. x = y => z = v
    BY <1>1
  <2> HIDE DEF z
  <2>5. Cut(<<v, z>>) = <<v, Limits!Smaller(z, MaxLong)>>
    BY <1>0 DEF Cut, Limits!Smaller
  <2>6. /\ Limits!Smaller(z, MaxLong) \in 0..MaxLong /\ v <= Limits!Smaller(z, MaxLong)
        /\ z = v => Limits!Smaller(z, MaxLong) = v
    BY <1>0, <2>1 DEF Limits!Smaller
  <2>7. Limits!Larger(x, v) = v /\ ~(x >= v)
    BY <1>1 DEF Limits!Larger
  <2> HIDE DEF Limits!Smaller
  <2> QED
    BY <2>3, <2>4, <2>5, <2>6, <2>7
<1>2. CASE ~(x < v)
  <2>1. Raised(<<x, y>>, v) = <<x, y>>
    BY <1>2 DEF Raised
  <2>2. Cut(<<x, y>>) = <<x, y>>
    BY <1>0 DEF Cut, Limits!Smaller
  <2>3. Limits!Larger(x, v) = x
    BY <1>2 DEF Limits!Larger
  <2>4. x \in 0..MaxLong /\ y \in 0..MaxLong
    BY <1>0
  <2> QED
    BY <2>1, <2>2, <2>3, <2>4
<1> QED
  BY <1>1, <1>2

LEMMA GappedLimit ==
  ASSUME NEW x \in Nat, NEW y \in Nat, NEW v \in Nat, x <= y, y <= MaxLong, x + v <= MaxLong
  PROVE  \E z \in Nat : Gapped(<<x, y>>, v) = <<x, z>> /\ x + v <= z /\ z <= MaxLong
<1>0. MaxLong \in Nat
  BY HostsAssumption
<1>1. y - x \in 0..(2 * MaxLong + 1) /\ x + v \in 0..(2 * MaxLong + 1)
  BY <1>0
<1>2. Limits!ULong(y - x) = y - x /\ Limits!ULong(x + v) = x + v
  BY <1>1, LongRange
<1>3. CASE y - x < v
  <2>1. Gapped(<<x, y>>, v) = <<x, x + v>>
    BY <1>2, <1>3 DEF Gapped
  <2> QED
    BY <2>1
<1>4. CASE ~(y - x < v)
  <2>1. Gapped(<<x, y>>, v) = <<x, y>>
    BY <1>2, <1>4 DEF Gapped
  <2> QED
    BY <2>1, <1>4
<1> QED
  BY <1>3, <1>4

\* A buffer keeps its gap when its barrier goes up.
LEMMA RaisedGap ==
  ASSUME NEW x \in Nat, NEW z \in Nat, NEW v \in Nat, NEW t \in Nat,
         x + v <= z, z <= MaxLong, t + v <= MaxLong
  PROVE  LET q == Cut(Raised(<<x, z>>, t))
         IN  /\ q = <<q[1], q[2]>> /\ q[1] \in 0..MaxLong /\ q[2] \in 0..MaxLong
             /\ q[1] = Limits!Larger(x, t) /\ q[1] + v <= q[2]
<1>0. MaxLong \in Nat
  BY HostsAssumption
<1>1. CASE x < t
  <2> DEFINE y == z + t - x
  <2>1. y \in 0..(2 * MaxLong + 1) /\ y \in Nat /\ t + v <= y
    BY <1>0, <1>1
  <2>2. Limits!ULong(y) = y
    BY <2>1, LongRange
  <2>3. Raised(<<x, z>>, t) = <<t, y>>
    BY <1>1, <2>2 DEF Raised
  <2> HIDE DEF y
  <2>4. t <= MaxLong
    BY <1>0
  <2>5. Cut(<<t, y>>) = <<t, Limits!Smaller(y, MaxLong)>>
    BY <1>0, <2>4 DEF Cut, Limits!Smaller
  <2>6. Limits!Smaller(y, MaxLong) \in 0..MaxLong /\ t + v <= Limits!Smaller(y, MaxLong)
    BY <1>0, <2>1 DEF Limits!Smaller
  <2>7. Limits!Larger(x, t) = t /\ t \in 0..MaxLong
    BY <1>0, <1>1, <2>4 DEF Limits!Larger
  <2> QED
    BY <2>3, <2>5, <2>6, <2>7
<1>2. CASE ~(x < t)
  <2>1. Raised(<<x, z>>, t) = <<x, z>>
    BY <1>2 DEF Raised
  <2>2. Cut(<<x, z>>) = <<x, z>>
    BY <1>0 DEF Cut, Limits!Smaller
  <2>3. Limits!Larger(x, t) = x
    BY <1>2 DEF Limits!Larger
  <2>4. x \in 0..MaxLong /\ z \in 0..MaxLong
    BY <1>0
  <2> QED
    BY <2>1, <2>2, <2>3, <2>4
<1> QED
  BY <1>1, <1>2

SockBufs == {"tcpsndbuf", "tcprcvbuf", "othersockbuf"}

\* The gap above each buffer fits in a long, however a repair raises the barrier.
Repairable(u) ==
  /\ IsConf(u)
  /\ \A r \in SockBufs :
       Limits!Larger(Bar(u, r), 132096) + Gap(Limits!BarrierAndLimit(u), r) <= MaxLong

\* What the first repair achieves, and what it may leave to the second.
Shaped(u) ==
  /\ \A r \in DOMAIN u : Levelled(u[r], r) = u[r]
  /\ Bar(u, "vmguarpages") <= Bar(u, "privvmpages")
  /\ \A r \in SockBufs : Bar(u, r) + Gap(u, r) <= Lim(u, r)
  /\ \A r \in {"tcpsndbuf", "tcprcvbuf"} : Bar(u, r) >= 65536
  /\ \A r \in {"othersockbuf", "dgramrcvbuf"} : Bar(u, r) >= 32768
  /\ Bar(u, "numfile") >= Files(u)
Backed(u) ==
  /\ Lim(u, "dcachesize") >= Dentries(u) /\ Bar(u, "kmemsize") >= Kmem(u)

LEMMA ConfFields ==
  ASSUME NEW u, IsConf(u)
  PROVE  /\ IsOf(u, Nat) /\ Needed \subseteq DOMAIN u /\ DOMAIN u \subseteq Needed \cup {"avnumproc"}
         /\ \A r \in DOMAIN u : /\ u[r] = <<Bar(u, r), Lim(u, r)>>
                                /\ Bar(u, r) \in Nat /\ Bar(u, r) <= MaxLong
                                /\ Lim(u, r) \in Nat /\ Lim(u, r) <= MaxLong
<1>1. MaxLong \in Nat
  BY HostsAssumption
<1>2. \A r \in DOMAIN u : u[r] \in (0..MaxLong) \X (0..MaxLong)
  BY DEF IsConf, IsOf
<1>3. IsOf(u, Nat)
  BY <1>1, <1>2 DEF IsConf, IsOf
<1>4. Needed \subseteq DOMAIN u /\ DOMAIN u \subseteq Needed \cup {"avnumproc"}
  BY DEF IsConf, IsOf
<1> QED
  BY <1>1, <1>2, <1>3, <1>4 DEF Bar, Lim

LEMMA Level1 ==
  ASSUME NEW u, IsConf(u), \A r \in DOMAIN u : Levelled(u[r], r) = u[r]
  PROVE  Limits!BarrierAndLimit(u) = u
<1>1. IsOf(u, Nat)
  BY ConfFields
<1>2. Limits!BarrierAndLimit(u) = [r \in DOMAIN u |-> Limits!BarrierAndLimit(u)[r]]
  BY <1>1, LevelAll DEF IsOf
<1>3. \A r \in DOMAIN u : Limits!BarrierAndLimit(u)[r] = u[r]
  BY <1>1, LevelAll
<1>4. u = [r \in DOMAIN u |-> u[r]]
  BY <1>1 DEF IsOf
<1> QED
  BY <1>2, <1>3, <1>4

LEMMA NoGap ==
  ASSUME NEW u, IsConf(u), NEW r \in SockBufs, NEW s \in Counts,
         Bar(u, r) + Limits!Masked(2560 * Bar(u, s)) <= Lim(u, r)
  PROVE  Limits!Gap(u, r, s) = u
<1>1. r \in DOMAIN u /\ s \in DOMAIN u
  BY ConfFields DEF Needed, SockBufs, Buffers
<1>2. Bar(u, r) \in Nat /\ Lim(u, r) \in Nat /\ Lim(u, r) <= MaxLong /\ Bar(u, s) \in Nat
  BY <1>1, ConfFields
<1>3. Limits!Masked(2560 * Bar(u, s)) \in Nat
  BY <1>2, LongRange, HostsAssumption
<1>4. Lim(u, r) - Bar(u, r) \in 0..(2 * MaxLong + 1)
  BY <1>2, <1>3, HostsAssumption
<1>5. ~(Limits!ULong(Lim(u, r) - Bar(u, r)) < Limits!Masked(2560 * Bar(u, s)))
  BY <1>2, <1>3, <1>4, LongRange
<1> QED
  BY <1>5 DEF Limits!Gap, Limits!Bar, Limits!Lim, Bar, Lim

LEMMA NoRaise ==
  ASSUME NEW u, NEW r, NEW v, ~(Bar(u, r) < v)
  PROVE  Limits!RaiseBar(u, r, v) = u
BY DEF Limits!RaiseBar, Limits!Bar, Bar

\* The rules one by one accept such limits.
LEMMA Accepting ==
  ASSUME NEW u, IsConf(u), Shaped(u), Backed(u)
  PROVE  Limits!Valid(u)
<1>1. Limits!BarrierAndLimit(u) = u
  BY Level1 DEF Shaped
<1>2. \A r \in Needed : r \in DOMAIN u /\ Bar(u, r) \in Nat /\ Lim(u, r) \in Nat
                         /\ u[r] = <<Bar(u, r), Lim(u, r)>>
  BY ConfFields
<1>3. IsOf(u, Nat) /\ u = [r \in DOMAIN u |-> u[r]]
  BY ConfFields DEF IsOf
<1>4. Limits!DcacheLimit(u) = u
  <2>1. Dentries(u) \in Nat /\ Lim(u, "dcachesize") \in Nat
    BY <1>2, <1>3, Askings, HostsAssumption DEF Needed, Sizes
  <2>2. Limits!Larger(Lim(u, "dcachesize"), Dentries(u)) = Lim(u, "dcachesize")
    BY <2>1 DEF Limits!Larger, Backed
  <2>3. Limits!DcacheLimit(u)["dcachesize"] = u["dcachesize"]
    BY <1>2, <1>3, <2>2, DcacheOne DEF Needed, Sizes
  <2>4. /\ \A r \in DOMAIN u : Limits!DcacheLimit(u)[r] = u[r]
        /\ DOMAIN Limits!DcacheLimit(u) = DOMAIN u
        /\ Limits!DcacheLimit(u) = [r \in DOMAIN u |-> Limits!DcacheLimit(u)[r]]
    BY <1>3, <2>3, DcacheOne DEF IsOf
  <2> QED
    BY <1>3, <2>4
<1>5. Limits!KmemBarrier(u) = u
  <2>1. Kmem(u) \in Nat /\ Bar(u, "kmemsize") \in Nat
    BY <1>2, <1>3, Askings, HostsAssumption DEF Needed, Sizes
  <2>2. Limits!KmemBarrier(u) = Limits!RaiseBar(u, "kmemsize", Kmem(u))
    BY DEF Limits!KmemBarrier, Kmem, Limits!Lim, Lim
  <2>3. ~(Bar(u, "kmemsize") < Kmem(u))
    BY <2>1 DEF Backed
  <2> QED
    BY <2>2, <2>3, NoRaise
<1>6. Limits!PrivvmBarrier(u) = u
  <2>1. ~(Bar(u, "privvmpages") < Bar(u, "vmguarpages"))
    BY <1>2 DEF Shaped, Needed, Sizes
  <2> QED
    BY <2>1 DEF Limits!PrivvmBarrier, Limits!Bar, Bar
<1>7. /\ Limits!TcpSndGap(u) = u /\ Limits!OtherGap(u) = u /\ Limits!TcpRcvGap(u) = u
  BY NoGap DEF Limits!TcpSndGap, Limits!OtherGap, Limits!TcpRcvGap, SockBufs, Counts, Shaped, Gap
<1>8. Limits!TcpRcvBarrier(u) = u /\ Limits!TcpSndBarrier(u) = u
  <2>1. ~(Bar(u, "tcprcvbuf") < 64 * 1024) /\ ~(Bar(u, "tcpsndbuf") < 64 * 1024)
    BY <1>2 DEF Shaped, Needed, Buffers
  <2> QED
    BY <2>1, NoRaise DEF Limits!TcpRcvBarrier, Limits!TcpSndBarrier
<1>9. Limits!Bar(u, "dgramrcvbuf") >= 32 * 1024 /\ Limits!Bar(u, "othersockbuf") >= 32 * 1024
  BY DEF Shaped, Bar, Limits!Bar
<1>10. Limits!NumfileLimit(u) = u
  <2>1. Files(u) \in Nat /\ Bar(u, "numfile") \in Nat
    BY <1>2, <1>3, Askings, HostsAssumption DEF Needed
  <2>2. Limits!NumfileLimit(u) = Limits!RaiseBar(u, "numfile", Files(u))
    BY DEF Limits!NumfileLimit, Files, Limits!Bar, Bar
  <2>3. ~(Bar(u, "numfile") < Files(u))
    BY <2>1 DEF Shaped
  <2> QED
    BY <2>2, <2>3, NoRaise
<1> QED
  BY <1>1, <1>4, <1>5, <1>6, <1>7, <1>8, <1>9, <1>10 DEF Limits!Valid

\* What the first rule makes of a configuration.
LEMMA LevelFields ==
  ASSUME NEW u, IsConf(u)
  PROVE  LET b == Limits!BarrierAndLimit(u)
         IN  /\ IsConf(b) /\ DOMAIN b = DOMAIN u
             /\ \A r \in DOMAIN u :
                  /\ r \in Limits!Equal => Bar(b, r) = Top(u, r)
                  /\ r \in Limits!Ordered => Bar(b, r) = Bar(u, r) /\ Lim(b, r) = Top(u, r)
                  /\ r \in Limits!Guarantees => Bar(b, r) = Bar(u, r)
                  /\ r # "avnumproc" => Bar(b, r) <= Lim(b, r)
                  /\ r \in Limits!Equal => Bar(b, r) = Lim(b, r)
                  /\ r \in Limits!Guarantees => Lim(b, r) = MaxLong
                  /\ r = "physpages" => b[r] = <<0, MaxLong>>
                  /\ r = "avnumproc" => b[r] = u[r]
<1> DEFINE b == Limits!BarrierAndLimit(u)
<1>1. IsConf(b) /\ DOMAIN b = DOMAIN u /\ \A r \in DOMAIN u : b[r] = Levelled(u[r], r)
  BY LevelAll DEF IsConf
<1>2. \A r \in DOMAIN u : Bar(u, r) \in Nat /\ Lim(u, r) \in Nat /\ Lim(u, r) <= MaxLong
                          /\ Bar(u, r) <= MaxLong
  BY ConfFields
<1> HIDE DEF b
<1> SUFFICES ASSUME NEW r \in DOMAIN u
             PROVE  /\ r \in Limits!Equal => Bar(b, r) = Top(u, r)
                    /\ r \in Limits!Ordered => Bar(b, r) = Bar(u, r) /\ Lim(b, r) = Top(u, r)
                    /\ r \in Limits!Guarantees => Bar(b, r) = Bar(u, r)
                    /\ r # "avnumproc" => Bar(b, r) <= Lim(b, r)
                    /\ r \in Limits!Equal => Bar(b, r) = Lim(b, r)
                    /\ r \in Limits!Guarantees => Lim(b, r) = MaxLong
                    /\ r = "physpages" => b[r] = <<0, MaxLong>>
                    /\ r = "avnumproc" => b[r] = u[r]
  BY <1>1 DEF b
<1>3. Top(u, r) \in Nat /\ Bar(u, r) <= Top(u, r) /\ Bar(u, r) \in Nat /\ Bar(u, r) <= MaxLong
        /\ MaxLong \in Nat
  BY <1>2, HostsAssumption DEF Top, Limits!Larger, Bar, Lim
<1>4. r \in Limits!Equal \cup Limits!Ordered \cup Limits!Guarantees \cup {"physpages", "avnumproc"}
  BY ConfFields
     DEF Needed, Counts, Buffers, Sizes, Limits!Equal, Limits!Ordered, Limits!Guarantees
<1>5. CASE r \in Limits!Equal
  <2>1. b[r] = Limits!Same(Top(u, r))
    BY <1>1, <1>5 DEF Levelled, Top, Limits!Equal, Limits!Ordered, Limits!Guarantees
  <2>2. Bar(b, r) = Top(u, r) /\ Lim(b, r) = Top(u, r)
    BY <2>1 DEF Limits!Same, Bar, Lim
  <2>3. r \notin Limits!Ordered \cup Limits!Guarantees \cup {"physpages", "avnumproc"}
    BY <1>5 DEF Limits!Equal, Limits!Ordered, Limits!Guarantees
  <2> QED
    BY <1>3, <2>2, <2>3
<1>6. CASE r \in Limits!Ordered
  <2>1. b[r] = <<Bar(u, r), Top(u, r)>>
    BY <1>1, <1>6 DEF Levelled, Top, Bar, Limits!Equal, Limits!Ordered, Limits!Guarantees
  <2>2. Bar(b, r) = Bar(u, r) /\ Lim(b, r) = Top(u, r)
    BY <2>1 DEF Bar, Lim
  <2>3. r \notin Limits!Equal \cup Limits!Guarantees \cup {"physpages", "avnumproc"}
    BY <1>6 DEF Limits!Equal, Limits!Ordered, Limits!Guarantees
  <2> QED
    BY <1>3, <2>2, <2>3
<1>7. CASE r \in Limits!Guarantees
  <2>1. b[r] = <<Bar(u, r), MaxLong>>
    BY <1>1, <1>7 DEF Levelled, Bar, Limits!Equal, Limits!Ordered, Limits!Guarantees
  <2>2. Bar(b, r) = Bar(u, r) /\ Lim(b, r) = MaxLong
    BY <2>1 DEF Bar, Lim
  <2>3. r \notin Limits!Equal \cup Limits!Ordered \cup {"physpages", "avnumproc"}
    BY <1>7 DEF Limits!Equal, Limits!Ordered, Limits!Guarantees
  <2> QED
    BY <1>3, <2>2, <2>3
<1>8. CASE r = "physpages"
  <2>1. b[r] = <<0, MaxLong>>
    BY <1>1, <1>8 DEF Levelled, Limits!Equal, Limits!Ordered, Limits!Guarantees
  <2>2. r \notin Limits!Equal \cup Limits!Ordered \cup Limits!Guarantees \cup {"avnumproc"}
    BY <1>8 DEF Limits!Equal, Limits!Ordered, Limits!Guarantees
  <2> QED
    BY <1>3, <2>1, <2>2 DEF Bar, Lim
<1>9. CASE r = "avnumproc"
  <2>1. b[r] = u[r]
    BY <1>1, <1>9 DEF Levelled, Limits!Equal, Limits!Ordered, Limits!Guarantees
  <2>2. r \notin Limits!Equal \cup Limits!Ordered \cup Limits!Guarantees \cup {"physpages"}
    BY <1>9 DEF Limits!Equal, Limits!Ordered, Limits!Guarantees
  <2> QED
    BY <1>9, <2>1, <2>2
<1> QED
  BY <1>4, <1>5, <1>6, <1>7, <1>8, <1>9

\* And what it leaves alone.
LEMMA LevelledAlready ==
  ASSUME NEW u, IsConf(u), NEW r \in DOMAIN u,
         r \in Limits!Equal => Bar(u, r) = Lim(u, r),
         r \in Limits!Ordered => Bar(u, r) <= Lim(u, r),
         r \in Limits!Guarantees => Lim(u, r) = MaxLong,
         r = "physpages" => u[r] = <<0, MaxLong>>
  PROVE  Levelled(u[r], r) = u[r]
<1>1. u[r] = <<Bar(u, r), Lim(u, r)>> /\ Bar(u, r) \in Nat /\ Lim(u, r) \in Nat
  BY ConfFields
<1>2. CASE r \in Limits!Equal
  BY <1>1, <1>2 DEF Levelled, Limits!Same, Limits!Larger, Bar, Lim, Limits!Equal, Limits!Ordered,
                    Limits!Guarantees
<1>3. CASE r \in Limits!Ordered
  BY <1>1, <1>3 DEF Levelled, Limits!Larger, Bar, Lim, Limits!Equal, Limits!Ordered,
                    Limits!Guarantees
<1>4. CASE r \in Limits!Guarantees
  BY <1>1, <1>4 DEF Levelled, Bar, Lim, Limits!Equal, Limits!Ordered, Limits!Guarantees
<1>5. CASE r \notin Limits!Equal \cup Limits!Ordered \cup Limits!Guarantees
  BY <1>5 DEF Levelled
<1> QED
  BY <1>2, <1>3, <1>4, <1>5

(* What one repair makes of the limits, as they are read again.            *)
LEMMA PassOf ==
  ASSUME NEW u, Repairable(u)
  PROVE  LET b == Limits!BarrierAndLimit(u)
             w == Pass(u)
         IN  /\ IsConf(b) /\ DOMAIN b = DOMAIN u /\ IsConf(w) /\ DOMAIN w = DOMAIN u
             /\ \A r \in DOMAIN u \ (Buffers \cup {"numfile", "dcachesize", "kmemsize", "privvmpages"}) :
                  w[r] = b[r]
             /\ w["dcachesize"] =
                  <<Bar(b, "dcachesize"), Limits!Larger(Lim(b, "dcachesize"), Dentries(b))>>
             /\ Bar(w, "kmemsize") =
                  Limits!Larger(Bar(b, "kmemsize"),
                    Limits!Masked(40 * 1024 * Limits!Avnumproc(b) + Lim(w, "dcachesize")))
             /\ Bar(w, "kmemsize") <= Lim(w, "kmemsize")
             /\ Bar(w, "privvmpages") = Limits!Larger(Bar(b, "privvmpages"), Bar(b, "vmguarpages"))
             /\ Bar(w, "privvmpages") <= Lim(w, "privvmpages")
             /\ \A r \in SockBufs :
                  /\ \E t \in {32768, 65536, 132096} :
                       /\ Bar(w, r) = Limits!Larger(Bar(b, r), t)
                       /\ r # "othersockbuf" => t = 65536
                  /\ Bar(w, r) + Gap(b, r) <= Lim(w, r)
             /\ \E t \in {32768, 132096} : Bar(w, "dgramrcvbuf") = Limits!Larger(Bar(b, "dgramrcvbuf"), t)
             /\ Bar(w, "dgramrcvbuf") <= Lim(w, "dgramrcvbuf")
             /\ w["numfile"] = Limits!Same(Limits!Larger(Bar(b, "numfile"), Files(b)))
<1> DEFINE b == Limits!BarrierAndLimit(u)
           v == Limits!Repaired(u)
           w == Pass(u)
           D == DOMAIN u
<1>0. MaxLong \in Nat
  BY HostsAssumption
<1>1. IsOf(u, Nat) /\ IsConf(u)
  BY ConfFields DEF Repairable
<1>2. IsConf(b) /\ DOMAIN b = D /\ \A r \in D : b[r] = Levelled(u[r], r)
  BY <1>1, LevelAll DEF IsConf
<1>3. /\ IsOf(b, Nat) /\ Needed \subseteq D
      /\ \A r \in D : /\ b[r] = <<Bar(b, r), Lim(b, r)>>
                      /\ Bar(b, r) \in Nat /\ Bar(b, r) <= MaxLong
                      /\ Lim(b, r) \in Nat /\ Lim(b, r) <= MaxLong
  BY <1>2, ConfFields
<1>4. /\ IsOf(v, Nat) /\ DOMAIN v = D
      /\ \A r \in D \ (Buffers \cup {"numfile", "dcachesize", "kmemsize", "privvmpages"}) :
           v[r] = b[r]
      /\ v["dcachesize"] =
           <<Bar(b, "dcachesize"), Limits!Larger(Lim(b, "dcachesize"), Dentries(b))>>
      /\ v["kmemsize"] =
           Raised(b["kmemsize"],
                  Limits!Masked(40 * 1024 * Limits!Avnumproc(b) + Lim(v, "dcachesize")))
      /\ v["privvmpages"] =
                  IF Bar(b, "privvmpages") < Bar(b, "vmguarpages")
                  THEN <<Bar(b, "vmguarpages"),
                         IF Lim(b, "privvmpages") < Bar(b, "vmguarpages") THEN Bar(b, "vmguarpages")
                         ELSE Lim(b, "vmguarpages")>>
                  ELSE b["privvmpages"]
      /\ \A r \in {"tcpsndbuf", "tcprcvbuf"} :
           v[r] = Raised(Gapped(b[r], Gap(b, r)), 64 * 1024)
      /\ v["othersockbuf"] = Buffered(Gapped(b["othersockbuf"], Gap(b, "othersockbuf")))
      /\ v["dgramrcvbuf"] = Buffered(b["dgramrcvbuf"])
      /\ v["numfile"] = Raised(b["numfile"], Files(b))
  BY <1>1, RepairAll
<1>5. DOMAIN w = D /\ w = [r \in D |-> w[r]] /\ \A r \in D : w[r] = Cut(v[r])
  BY <1>4 DEF Pass, Limits!Parsed, Cut, Limits!Bar, Limits!Lim
<1> HIDE DEF b, v, w
<1>6. IsConf(w)
  <2>1. \A r \in D : v[r][1] \in Nat /\ v[r][2] \in Nat
    BY <1>4 DEF IsOf
  <2>2. \A r \in D : w[r] \in (0..MaxLong) \X (0..MaxLong)
    BY <1>0, <1>5, <2>1 DEF Cut, Limits!Smaller
  <2> QED
    BY <1>1, <1>5, <2>2 DEF IsConf, IsOf
<1>7. \A r \in D : /\ r # "avnumproc" => Bar(b, r) <= Lim(b, r)
                   /\ r \in Limits!Equal => Bar(b, r) = Lim(b, r)
                   /\ r \in Limits!Guarantees => Lim(b, r) = MaxLong
  BY <1>1, LevelFields DEF b
<1>8. \A r \in D \ (Buffers \cup {"numfile", "dcachesize", "kmemsize", "privvmpages"}) : w[r] = b[r]
  <2> SUFFICES ASSUME NEW r \in D \ (Buffers \cup {"numfile", "dcachesize", "kmemsize", "privvmpages"})
               PROVE  w[r] = b[r]
    OBVIOUS
  <2>1. w[r] = Cut(b[r])
    BY <1>4, <1>5
  <2>2. b[r][1] \in Nat /\ b[r][2] \in Nat /\ b[r][1] <= MaxLong /\ b[r][2] <= MaxLong
          /\ b[r] = <<b[r][1], b[r][2]>>
    BY <1>3 DEF Bar, Lim
  <2> QED
    BY <1>0, <2>1, <2>2 DEF Cut, Limits!Smaller
<1>9. w["dcachesize"] =
        <<Bar(b, "dcachesize"), Limits!Larger(Lim(b, "dcachesize"), Dentries(b))>>
  <2>1. Dentries(b) \in Nat /\ Dentries(b) <= MaxLong
    BY <1>0, <1>3, Askings
  <2>2. Bar(b, "dcachesize") \in Nat /\ Bar(b, "dcachesize") <= MaxLong
          /\ Lim(b, "dcachesize") \in Nat /\ Lim(b, "dcachesize") <= MaxLong
          /\ "dcachesize" \in D
    BY <1>3 DEF Needed, Sizes
  <2>3. w["dcachesize"] = Cut(v["dcachesize"])
    BY <1>5, <2>2
  <2> QED
    BY <1>0, <1>4, <2>1, <2>2, <2>3 DEF Cut, Limits!Smaller, Limits!Larger
<1>10. /\ Bar(w, "kmemsize") =
            Limits!Larger(Bar(b, "kmemsize"),
                    Limits!Masked(40 * 1024 * Limits!Avnumproc(b) + Lim(w, "dcachesize")))
       /\ Bar(w, "kmemsize") <= Lim(w, "kmemsize")
  <2> DEFINE k == Limits!Masked(40 * 1024 * Limits!Avnumproc(b) + Lim(w, "dcachesize"))
             x == Bar(b, "kmemsize")
             y == Lim(b, "kmemsize")
  <2>1. "kmemsize" \in D /\ "dcachesize" \in D
    BY <1>3 DEF Needed, Sizes
  <2>a. x <= y
    BY <1>7, <2>1
  <2>2. x \in Nat /\ y \in Nat /\ x <= y /\ y <= MaxLong /\ b["kmemsize"] = <<x, y>>
    BY <1>3, <2>1, <2>a
  <2>3. Limits!Avnumproc(b) \in Nat /\ Lim(w, "dcachesize") \in Nat
    BY <1>3, <1>6, <2>1, Processes, ConfFields, <1>5
  <2>4. k \in Nat /\ k <= MaxLong
    BY <1>0, <2>3, LongRange
  <2>5. Lim(v, "dcachesize") = Lim(w, "dcachesize")
    BY <1>4, <1>9 DEF Lim
  <2>6. w["kmemsize"] = Cut(Raised(<<x, y>>, k))
    BY <1>4, <1>5, <2>1, <2>2, <2>5
  <2> HIDE DEF k, x, y
  <2>7. Bar(w, "kmemsize") = Limits!Larger(x, k) /\ Bar(w, "kmemsize") <= Lim(w, "kmemsize")
    BY <2>2, <2>4, <2>6, RaisedLimit DEF Bar, Lim
  <2> QED
    BY <2>7 DEF k, x
<1>11. /\ Bar(w, "privvmpages") = Limits!Larger(Bar(b, "privvmpages"), Bar(b, "vmguarpages"))
       /\ Bar(w, "privvmpages") <= Lim(w, "privvmpages")
  <2>0. "privvmpages" \in D /\ "vmguarpages" \in D
    BY <1>3 DEF Needed, Sizes
  <2>1. /\ "privvmpages" \in D /\ "vmguarpages" \in D
        /\ Lim(b, "vmguarpages") = MaxLong
        /\ Bar(b, "privvmpages") <= Lim(b, "privvmpages")
    BY <1>7, <2>0 DEF Limits!Guarantees
  <2>2. /\ Bar(b, "privvmpages") \in Nat /\ Bar(b, "privvmpages") <= MaxLong
        /\ Lim(b, "privvmpages") \in Nat /\ Lim(b, "privvmpages") <= MaxLong
        /\ Bar(b, "vmguarpages") \in Nat /\ Bar(b, "vmguarpages") <= MaxLong
        /\ b["privvmpages"] = <<Bar(b, "privvmpages"), Lim(b, "privvmpages")>>
        /\ w["privvmpages"] = Cut(v["privvmpages"])
    BY <1>3, <1>5, <2>1
  <2>3. CASE Bar(b, "privvmpages") < Bar(b, "vmguarpages")
    <3>1. w["privvmpages"] = Cut(<<Bar(b, "vmguarpages"),
             IF Lim(b, "privvmpages") < Bar(b, "vmguarpages") THEN Bar(b, "vmguarpages") ELSE MaxLong>>)
      BY <1>4, <2>1, <2>2, <2>3
    <3>2. Bar(w, "privvmpages") = Bar(b, "vmguarpages") /\ Bar(b, "vmguarpages") <= Lim(w, "privvmpages")
      BY <1>0, <2>2, <3>1 DEF Cut, Limits!Smaller, Bar, Lim
    <3> QED
      BY <2>2, <2>3, <3>2 DEF Limits!Larger
  <2>4. CASE ~(Bar(b, "privvmpages") < Bar(b, "vmguarpages"))
    <3>1. w["privvmpages"] = Cut(<<Bar(b, "privvmpages"), Lim(b, "privvmpages")>>)
      BY <1>4, <2>2, <2>4
    <3>2. Bar(w, "privvmpages") = Bar(b, "privvmpages") /\ Lim(w, "privvmpages") = Lim(b, "privvmpages")
      BY <1>0, <2>2, <3>1 DEF Cut, Limits!Smaller, Bar, Lim
    <3> QED
      BY <2>1, <2>2, <2>4, <3>2 DEF Limits!Larger
  <2> QED
    BY <2>3, <2>4
<1>12. \A r \in SockBufs : Gap(b, r) \in Nat /\ r \in D /\ Limits!Larger(Bar(b, r), 132096) + Gap(b, r) <= MaxLong
  <2> SUFFICES ASSUME NEW r \in SockBufs
               PROVE Gap(b, r) \in Nat /\ r \in D /\ Limits!Larger(Bar(b, r), 132096) + Gap(b, r) <= MaxLong
    OBVIOUS
  <2>1. r \in Buffers /\ r \in D
    BY <1>3 DEF SockBufs, Buffers, Needed
  <2>2. Gap(b, r) \in Nat
    BY <1>0, <1>3, <2>1, Askings
  <2>3. Bar(b, r) = Bar(u, r)
    BY <1>2, <2>1 DEF Levelled, Bar, Buffers, Limits!Equal, Limits!Ordered
  <2> QED
    BY <2>1, <2>2, <2>3 DEF Repairable, b
<1>13. \A r \in SockBufs : \E z \in Nat :
         /\ Gapped(b[r], Gap(b, r)) = <<Bar(b, r), z>>
         /\ Bar(b, r) + Gap(b, r) <= z /\ z <= MaxLong
  <2> SUFFICES ASSUME NEW r \in SockBufs
               PROVE  \E z \in Nat :
                        /\ Gapped(b[r], Gap(b, r)) = <<Bar(b, r), z>>
                        /\ Bar(b, r) + Gap(b, r) <= z /\ z <= MaxLong
    OBVIOUS
  <2> DEFINE x == Bar(b, r)
             y == Lim(b, r)
             g == Gap(b, r)
  <2>0. r \in D /\ g \in Nat
    BY <1>12
  <2>a. x <= y
    BY <1>7, <2>0 DEF SockBufs
  <2>1. x \in Nat /\ y \in Nat /\ g \in Nat /\ x <= y /\ y <= MaxLong /\ b[r] = <<x, y>>
    BY <1>3, <2>0, <2>a
  <2>2. Limits!Larger(x, 132096) + g <= MaxLong
    BY <1>12
  <2> HIDE DEF x, y, g
  <2>3. x + g <= MaxLong
    BY <1>0, <2>1, <2>2 DEF Limits!Larger
  <2>4. \E z \in Nat : Gapped(<<x, y>>, g) = <<x, z>> /\ x + g <= z /\ z <= MaxLong
    BY <2>1, <2>3, GappedLimit
  <2> QED
    BY <2>1, <2>4 DEF x, y, g
<1>14. \A r \in SockBufs :
         /\ \E t \in {32768, 65536, 132096} :
              /\ Bar(w, r) = Limits!Larger(Bar(b, r), t)
              /\ r # "othersockbuf" => t = 65536
         /\ Bar(w, r) + Gap(b, r) <= Lim(w, r)
  <2> SUFFICES ASSUME NEW r \in SockBufs
               PROVE  /\ \E t \in {32768, 65536, 132096} :
                           /\ Bar(w, r) = Limits!Larger(Bar(b, r), t)
                           /\ r # "othersockbuf" => t = 65536
                      /\ Bar(w, r) + Gap(b, r) <= Lim(w, r)
    OBVIOUS
  <2> DEFINE x == Bar(b, r)
             g == Gap(b, r)
  <2>1. PICK z \in Nat : Gapped(b[r], g) = <<x, z>> /\ x + g <= z /\ z <= MaxLong
    BY <1>13
  <2>2. x \in Nat /\ g \in Nat /\ Limits!Larger(x, 132096) + g <= MaxLong
    BY <1>3, <1>12
  <2>3. w[r] = Cut(v[r])
    BY <1>5, <1>12
  <2>4. \E t \in {32768, 65536, 132096} : v[r] = Raised(<<x, z>>, t) /\ (r # "othersockbuf" => t = 65536)
    <3>1. CASE r \in {"tcpsndbuf", "tcprcvbuf"}
      BY <1>4, <2>1, <3>1
    <3>2. CASE r = "othersockbuf"
      BY <1>4, <2>1, <3>2 DEF Buffered
    <3> QED
      BY <3>1, <3>2 DEF SockBufs
  <2> HIDE DEF x, g
  <2>5. PICK t \in {32768, 65536, 132096} : v[r] = Raised(<<x, z>>, t) /\ (r # "othersockbuf" => t = 65536)
    BY <2>4
  <2>6. t \in Nat /\ t + g <= MaxLong
    BY <1>0, <2>2 DEF Limits!Larger
  <2>7. w[r][1] = Limits!Larger(x, t) /\ w[r][1] + g <= w[r][2]
    BY <2>1, <2>2, <2>3, <2>5, <2>6, RaisedGap
  <2> QED
    BY <2>5, <2>7 DEF Bar, Lim, x, g
<1>15. /\ \E t \in {32768, 132096} : Bar(w, "dgramrcvbuf") = Limits!Larger(Bar(b, "dgramrcvbuf"), t)
       /\ Bar(w, "dgramrcvbuf") <= Lim(w, "dgramrcvbuf")
  <2> DEFINE x == Bar(b, "dgramrcvbuf")
             y == Lim(b, "dgramrcvbuf")
  <2>1. "dgramrcvbuf" \in D
    BY <1>3 DEF Needed, Buffers
  <2>a. x <= y
    BY <1>7, <2>1
  <2>2. x \in Nat /\ y \in Nat /\ x <= y /\ y <= MaxLong /\ b["dgramrcvbuf"] = <<x, y>>
    BY <1>3, <2>1, <2>a
  <2>3. \E t \in {32768, 132096} : w["dgramrcvbuf"] = Cut(Raised(<<x, y>>, t))
    BY <1>4, <1>5, <2>1, <2>2 DEF Buffered
  <2> HIDE DEF x, y
  <2>4. PICK t \in {32768, 132096} : w["dgramrcvbuf"] = Cut(Raised(<<x, y>>, t))
    BY <2>3
  <2>5. t \in Nat /\ t <= MaxLong
    <3>1. "tcpsndbuf" \in SockBufs
      BY DEF SockBufs
    <3>2. Bar(b, "tcpsndbuf") \in Nat /\ Gap(b, "tcpsndbuf") \in Nat
            /\ Limits!Larger(Bar(b, "tcpsndbuf"), 132096) + Gap(b, "tcpsndbuf") <= MaxLong
      BY <1>3, <1>12, <3>1
    <3> QED
      BY <1>0, <3>2 DEF Limits!Larger
  <2>6. w["dgramrcvbuf"][1] = Limits!Larger(x, t) /\ w["dgramrcvbuf"][1] <= w["dgramrcvbuf"][2]
    BY <2>2, <2>4, <2>5, RaisedLimit
  <2> QED
    BY <2>4, <2>6 DEF Bar, Lim, x
<1>16. w["numfile"] = Limits!Same(Limits!Larger(Bar(b, "numfile"), Files(b)))
  <2> DEFINE x == Bar(b, "numfile")
             k == Files(b)
  <2>0. "numfile" \in D
    BY <1>3 DEF Needed
  <2>1. "numfile" \in D /\ Lim(b, "numfile") = x
    BY <1>7, <2>0 DEF Limits!Equal
  <2>2. x \in Nat /\ x <= MaxLong /\ b["numfile"] = <<x, x>>
    BY <1>3, <2>1
  <2>3. k \in Nat /\ k <= MaxLong
    BY <1>0, <1>3, Askings
  <2>4. w["numfile"] = Cut(Raised(<<x, x>>, k))
    BY <1>4, <1>5, <2>1, <2>2
  <2> HIDE DEF x, k
  <2>5. w["numfile"] = <<w["numfile"][1], w["numfile"][2]>> /\ w["numfile"][1] = Limits!Larger(x, k)
          /\ w["numfile"][1] = w["numfile"][2]
    BY <2>2, <2>3, <2>4, RaisedLimit
  <2> QED
    BY <2>5 DEF Limits!Same, x, k
<1> QED
  BY <1>2, <1>5, <1>6, <1>8, <1>9, <1>10, <1>11, <1>14, <1>15, <1>16 DEF b, w

LEMMA SameGap ==
  ASSUME NEW u, NEW w, \A r \in Counts : Bar(w, r) = Bar(u, r)
  PROVE  \A r : Gap(w, r) = Gap(u, r)
BY DEF Gap, Counts

(* After a repair only the memory rules may complain, and gaps still fit.  *)
LEMMA PassShapes ==
  ASSUME NEW u, Repairable(u)
  PROVE  LET w == Pass(u)
         IN  /\ Repairable(w) /\ Shaped(w)
             /\ \A r \in Counts : Bar(w, r) = Top(u, r) /\ Lim(w, r) = Top(u, r)
             /\ Limits!Avnumproc(w) = Limits!Avnumproc(Limits!BarrierAndLimit(u))
<1> DEFINE b == Limits!BarrierAndLimit(u)
           w == Pass(u)
           D == DOMAIN u
<1>0. MaxLong \in Nat
  BY HostsAssumption
<1>1. IsConf(u) /\ IsConf(b) /\ DOMAIN b = D /\ IsConf(w) /\ DOMAIN w = D
  BY PassOf DEF Repairable
<1>2. \A r \in D \ (Buffers \cup {"numfile", "dcachesize", "kmemsize", "privvmpages"}) : w[r] = b[r]
  BY PassOf
<1>3. /\ w["dcachesize"] =
           <<Bar(b, "dcachesize"), Limits!Larger(Lim(b, "dcachesize"), Dentries(b))>>
      /\ Bar(w, "kmemsize") <= Lim(w, "kmemsize")
      /\ Bar(w, "privvmpages") = Limits!Larger(Bar(b, "privvmpages"), Bar(b, "vmguarpages"))
      /\ Bar(w, "privvmpages") <= Lim(w, "privvmpages")
      /\ w["numfile"] = Limits!Same(Limits!Larger(Bar(b, "numfile"), Files(b)))
  BY PassOf
<1>4. \A r \in SockBufs :
        /\ \E t \in {32768, 65536, 132096} :
              /\ Bar(w, r) = Limits!Larger(Bar(b, r), t)
              /\ r # "othersockbuf" => t = 65536
        /\ Bar(w, r) + Gap(b, r) <= Lim(w, r)
  BY PassOf
<1>5. /\ \E t \in {32768, 132096} : Bar(w, "dgramrcvbuf") = Limits!Larger(Bar(b, "dgramrcvbuf"), t)
      /\ Bar(w, "dgramrcvbuf") <= Lim(w, "dgramrcvbuf")
  BY PassOf
<1>6. \A r \in D :
        /\ r \in Limits!Equal => Bar(b, r) = Top(u, r) /\ Bar(b, r) = Lim(b, r)
        /\ r \in Limits!Ordered => Bar(b, r) = Bar(u, r) /\ Bar(b, r) <= Lim(b, r)
        /\ r \in Limits!Guarantees => Lim(b, r) = MaxLong
        /\ r = "physpages" => b[r] = <<0, MaxLong>>
  BY <1>1, LevelFields DEF Limits!Ordered
<1> HIDE DEF b, w
<1>7. Needed \subseteq D /\ D \subseteq Needed \cup {"avnumproc"} /\ IsOf(b, Nat) /\ IsOf(w, Nat)
  BY <1>1, ConfFields
<1>8. \A r \in D : /\ Bar(b, r) \in Nat /\ Lim(b, r) \in Nat
                   /\ Bar(w, r) \in Nat /\ Lim(w, r) \in Nat
  BY <1>1, ConfFields
<1>9. /\ \A r \in Counts : w[r] = b[r] /\ r \in D /\ r \in Limits!Equal
      /\ w["vmguarpages"] = b["vmguarpages"] /\ w["oomguarpages"] = b["oomguarpages"]
      /\ w["physpages"] = b["physpages"]
      /\ "avnumproc" \in D => w["avnumproc"] = b["avnumproc"]
  BY <1>2, <1>7 DEF Needed, Counts, Buffers, Sizes, Limits!Equal
<1>10. \A r : Gap(w, r) = Gap(b, r)
  <2>1. \A r \in Counts : Bar(w, r) = Bar(b, r)
    BY <1>9 DEF Bar
  <2> QED
    BY <2>1, SameGap
<1>11. Limits!Avnumproc(w) = Limits!Avnumproc(b)
  <2>1. "numproc" \in D
    BY <1>7 DEF Needed, Counts
  <2>2. \A r \in {"numproc", "avnumproc"} \cap D : w[r] = b[r]
    BY <1>9 DEF Counts
  <2> QED
    BY <1>1, <2>1, <2>2, SameProcesses
<1>12. Files(w) = Files(b)
  <2>1. /\ Bar(w, "numtcpsock") = Bar(b, "numtcpsock") /\ Bar(w, "numpty") = Bar(b, "numpty")
        /\ Bar(w, "numothersock") = Bar(b, "numothersock")
    BY <1>9 DEF Bar, Counts
  <2> QED
    BY <1>11, <2>1 DEF Files
<1>13. \A r \in SockBufs : r \in D /\ r \in Limits!Ordered /\ Gap(b, r) \in Nat
  BY <1>0, <1>7, Askings DEF SockBufs, Buffers, Needed, Limits!Ordered
<1>14. ASSUME NEW r \in D
       PROVE  Levelled(w[r], r) = w[r]
  <2>1. CASE r \in Counts
    <3>1. Bar(w, r) = Lim(w, r)
      BY <1>6, <1>9, <2>1 DEF Bar, Lim
    <3>2. r \notin Limits!Ordered \cup Limits!Guarantees \cup {"physpages"}
      BY <2>1 DEF Counts, Limits!Ordered, Limits!Guarantees
    <3> QED
      BY <1>1, <3>1, <3>2, LevelledAlready
  <2>2. CASE r = "numfile"
    <3>1. Bar(w, r) = Lim(w, r)
      BY <1>3, <2>2 DEF Bar, Lim, Limits!Same
    <3>2. r \notin Limits!Ordered \cup Limits!Guarantees \cup {"physpages"}
      BY <2>2 DEF Limits!Ordered, Limits!Guarantees
    <3> QED
      BY <1>1, <3>1, <3>2, LevelledAlready
  <2>3. CASE r \in Limits!Ordered
    <3>1. ASSUME r = "dcachesize"
          PROVE  Bar(w, r) <= Lim(w, r)
      <4>1. Bar(b, r) <= Lim(b, r) /\ Lim(b, r) \in Nat /\ Bar(b, r) \in Nat
        BY <1>6, <1>8, <2>3
      <4>2. Dentries(b) \in Nat
        BY <1>0, <1>7, Askings
      <4>3. Bar(b, r) <= Limits!Larger(Lim(b, r), Dentries(b))
        BY <4>1, <4>2 DEF Limits!Larger
      <4> QED
        BY <1>3, <3>1, <4>3 DEF Bar, Lim
    <3>2. ASSUME r \in SockBufs
          PROVE  Bar(w, r) <= Lim(w, r)
      <4>1. Bar(w, r) + Gap(b, r) <= Lim(w, r) /\ Gap(b, r) \in Nat
        BY <1>4, <1>13, <3>2
      <4>2. Bar(w, r) \in Nat /\ Lim(w, r) \in Nat
        BY <1>8
      <4> QED
        BY <4>1, <4>2
    <3>3. Bar(w, r) <= Lim(w, r)
      BY <1>3, <1>5, <2>3, <3>1, <3>2 DEF Limits!Ordered, SockBufs
    <3>4. r \notin Limits!Equal \cup Limits!Guarantees \cup {"physpages"}
      BY <2>3 DEF Limits!Equal, Limits!Ordered, Limits!Guarantees
    <3> QED
      BY <1>1, <3>3, <3>4, LevelledAlready
  <2>4. CASE r \in Limits!Guarantees
    <3>1. Lim(w, r) = MaxLong
      BY <1>6, <1>9, <2>4 DEF Lim, Limits!Guarantees
    <3>2. r \notin Limits!Equal \cup Limits!Ordered \cup {"physpages"}
      BY <2>4 DEF Limits!Equal, Limits!Ordered, Limits!Guarantees
    <3> QED
      BY <1>1, <3>1, <3>2, LevelledAlready
  <2>5. CASE r = "physpages"
    <3>1. w[r] = <<0, MaxLong>>
      BY <1>6, <1>9, <2>5
    <3>2. r \notin Limits!Equal \cup Limits!Ordered \cup Limits!Guarantees
      BY <2>5 DEF Limits!Equal, Limits!Ordered, Limits!Guarantees
    <3> QED
      BY <1>1, <3>1, <3>2, LevelledAlready
  <2>6. CASE r = "avnumproc"
    <3>2. r \notin Limits!Equal \cup Limits!Ordered \cup Limits!Guarantees \cup {"physpages"}
      BY <2>6 DEF Limits!Equal, Limits!Ordered, Limits!Guarantees
    <3> QED
      BY <1>1, <3>2, LevelledAlready
  <2> QED
    BY <1>7, <2>1, <2>2, <2>3, <2>4, <2>5, <2>6
       DEF Needed, Counts, Buffers, Sizes, Limits!Equal, Limits!Ordered, Limits!Guarantees
<1>15. Shaped(w)
  <2>1. \A r \in DOMAIN w : Levelled(w[r], r) = w[r]
    BY <1>1, <1>14
  <2>2. Bar(w, "vmguarpages") <= Bar(w, "privvmpages")
    <3>1. Bar(b, "vmguarpages") \in Nat /\ Bar(b, "privvmpages") \in Nat
      BY <1>7, <1>8 DEF Needed, Sizes
    <3>2. Bar(w, "vmguarpages") = Bar(b, "vmguarpages")
      BY <1>9 DEF Bar
    <3> QED
      BY <1>3, <3>1, <3>2 DEF Limits!Larger
  <2>3. \A r \in SockBufs : Bar(w, r) + Gap(w, r) <= Lim(w, r)
    BY <1>4, <1>10
  <2>4. ASSUME NEW r \in SockBufs
        PROVE  Bar(w, r) >= 32768 /\ (r # "othersockbuf" => Bar(w, r) >= 65536)
    <3>1. PICK t \in {32768, 65536, 132096} : Bar(w, r) = Limits!Larger(Bar(b, r), t)
                                             /\ (r # "othersockbuf" => t = 65536)
      BY <1>4
    <3>2. Bar(b, r) \in Nat
      BY <1>8, <1>13
    <3> QED
      BY <3>1, <3>2 DEF Limits!Larger
  <2>5. Bar(w, "dgramrcvbuf") >= 32768
    <3>1. Bar(b, "dgramrcvbuf") \in Nat
      BY <1>7, <1>8 DEF Needed, Buffers
    <3> QED
      BY <1>5, <3>1 DEF Limits!Larger
  <2>6. Bar(w, "numfile") >= Files(w)
    <3>1. Bar(b, "numfile") \in Nat /\ Files(b) \in Nat
      BY <1>0, <1>7, <1>8, Askings DEF Needed
    <3>2. Bar(w, "numfile") = Limits!Larger(Bar(b, "numfile"), Files(b))
      BY <1>3 DEF Bar, Limits!Same
    <3> QED
      BY <1>12, <3>1, <3>2 DEF Limits!Larger
  <2> QED
    BY <2>1, <2>2, <2>3, <2>4, <2>5, <2>6 DEF Shaped, SockBufs
<1>16. Repairable(w)
  <2>1. Limits!BarrierAndLimit(w) = w
    BY <1>1, <1>15, Level1 DEF Shaped
  <2>2. ASSUME NEW r \in SockBufs
        PROVE  Limits!Larger(Bar(w, r), 132096) + Gap(w, r) <= MaxLong
    <3>1. PICK t \in {32768, 65536, 132096} : Bar(w, r) = Limits!Larger(Bar(b, r), t)
      BY <1>4
    <3>2. Bar(b, r) = Bar(u, r) /\ Bar(b, r) \in Nat
      BY <1>6, <1>8, <1>13
    <3>3. Limits!Larger(Bar(w, r), 132096) = Limits!Larger(Bar(u, r), 132096)
      BY <3>1, <3>2 DEF Limits!Larger
    <3> QED
      BY <1>10, <3>3 DEF Repairable, b
  <2> QED
    BY <1>1, <2>1, <2>2 DEF Repairable
<1>17. \A r \in Counts : Bar(w, r) = Top(u, r) /\ Lim(w, r) = Top(u, r)
  BY <1>6, <1>9 DEF Bar, Lim
<1> QED
  BY <1>11, <1>15, <1>16, <1>17 DEF b, w

(* The second repair leaves nothing to complain about.                     *)
LEMMA PassBacks ==
  ASSUME NEW u, Repairable(u), Shaped(u)
  PROVE  Backed(Pass(u))
<1> DEFINE w == Pass(u)
<1>1. Limits!BarrierAndLimit(u) = u /\ IsConf(u)
  BY Level1 DEF Repairable, Shaped
<1>2. IsConf(w) /\ DOMAIN w = DOMAIN u /\ Limits!Avnumproc(w) = Limits!Avnumproc(u)
  BY <1>1, PassOf, PassShapes
<1>3. /\ w["dcachesize"] = <<Bar(u, "dcachesize"), Limits!Larger(Lim(u, "dcachesize"), Dentries(u))>>
      /\ Bar(w, "kmemsize") =
           Limits!Larger(Bar(u, "kmemsize"),
                    Limits!Masked(40 * 1024 * Limits!Avnumproc(u) + Lim(w, "dcachesize")))
      /\ w["numfile"] = Limits!Same(Limits!Larger(Bar(u, "numfile"), Files(u)))
  BY <1>1, PassOf
<1> HIDE DEF w
<1>4. /\ IsOf(u, Nat) /\ IsOf(w, Nat)
      /\ Bar(u, "numfile") \in Nat /\ Lim(u, "dcachesize") \in Nat /\ Bar(u, "kmemsize") \in Nat
  <2>1. {"numfile", "dcachesize", "kmemsize"} \subseteq DOMAIN u
    BY <1>1, ConfFields DEF Needed, Sizes
  <2> QED
    BY <1>1, <1>2, <2>1, ConfFields
<1>5. Files(u) \in Nat /\ Dentries(u) \in Nat /\ Kmem(w) \in Nat
  BY <1>4, Askings, HostsAssumption
<1>6. Bar(w, "numfile") = Bar(u, "numfile")
  <2>1. Bar(u, "numfile") >= Files(u)
    BY DEF Shaped
  <2> QED
    BY <1>3, <1>4, <1>5, <2>1 DEF Limits!Same, Limits!Larger, Bar
<1>7. Lim(w, "dcachesize") >= Dentries(w)
  <2>1. Dentries(w) = Dentries(u)
    BY <1>6 DEF Dentries
  <2>2. Lim(w, "dcachesize") = Limits!Larger(Lim(u, "dcachesize"), Dentries(u))
    BY <1>3 DEF Lim
  <2> QED
    BY <1>4, <1>5, <2>1, <2>2 DEF Limits!Larger
<1>8. Bar(w, "kmemsize") >= Kmem(w)
  <2>1. Bar(w, "kmemsize") = Limits!Larger(Bar(u, "kmemsize"), Kmem(w))
    BY <1>2, <1>3 DEF Kmem
  <2> QED
    BY <1>4, <1>5, <2>1 DEF Limits!Larger
<1> QED
  BY <1>7, <1>8 DEF Backed, w

LEMMA Room ==
  ASSUME NEW u, IsConf(u), \A r \in Counts : Top(u, r) * 16384 <= MaxLong,
         \A r \in SockBufs : Limits!Larger(Bar(u, r), 132096) * 2 <= MaxLong
  PROVE  Repairable(u)
<1> DEFINE b == Limits!BarrierAndLimit(u)
<1>0. MaxLong \in Nat
  BY HostsAssumption
<1>1. \A r \in Counts \cup SockBufs : r \in DOMAIN u /\ Bar(u, r) \in Nat /\ Top(u, r) \in Nat
  BY ConfFields DEF Counts, SockBufs, Buffers, Needed, Top, Limits!Larger, Bar, Lim
<1>2. \A r \in Counts : Bar(b, r) = Top(u, r)
  BY <1>1, LevelFields DEF Counts, Limits!Equal
<1> HIDE DEF b
<1>3. ASSUME NEW r \in SockBufs
      PROVE  Limits!Larger(Bar(u, r), 132096) + Gap(b, r) <= MaxLong
  <2> DEFINE s == IF r = "othersockbuf" THEN "numothersock" ELSE "numtcpsock"
             t == Top(u, s)
             x == Limits!Larger(Bar(u, r), 132096)
  <2>1. s \in Counts
    BY DEF Counts
  <2>2. Gap(b, r) = Limits!Masked(2560 * t)
    BY <1>2, <2>1 DEF Gap
  <2>3. t \in Nat /\ t * 16384 <= MaxLong
    BY <1>1, <2>1
  <2>4. x \in Nat /\ x * 2 <= MaxLong
    BY <1>1 DEF Limits!Larger
  <2> HIDE DEF t, x, s
  <2>5. 2560 * t \in Nat
    BY <2>3
  <2>6. Limits!Masked(2560 * t) <= 2560 * t /\ Limits!Masked(2560 * t) \in Nat
    BY <1>0, <2>5, LongRange
  <2>7. x + Limits!Masked(2560 * t) <= MaxLong
    BY <1>0, <2>3, <2>4, <2>6
  <2> QED
    BY <2>2, <2>7 DEF x
<1> QED
  BY <1>3 DEF Repairable, b

LEMMA RoomFields ==
  ASSUME NEW u, IsConf(u), Roomy(u)
  PROVE  /\ \A r \in Counts : r \in DOMAIN u /\ Top(u, r) \in Nat /\ Top(u, r) * 32768 <= MaxLong
         /\ Top(u, "numfile") \in Nat /\ Top(u, "numfile") * 4096 <= MaxLong
         /\ Top(u, "dcachesize") \in Nat /\ Top(u, "dcachesize") * 6 <= MaxLong
         /\ \A r \in Buffers : /\ r \in DOMAIN u /\ Bar(u, r) \in Nat
                               /\ Limits!Larger(Bar(u, r), 132096) * 4 <= MaxLong
         /\ \A r \in DOMAIN u : Bar(u, r) \in Nat /\ Bar(u, r) * 2 <= MaxLong
<1>1. \A r \in DOMAIN u : Bar(u, r) \in Nat /\ Lim(u, r) \in Nat
  BY ConfFields
<1>2. Counts \cup Buffers \cup {"numfile", "dcachesize"} \subseteq DOMAIN u
  BY ConfFields DEF Needed, Sizes
<1>3. \A r \in DOMAIN u : Top(u, r) \in Nat
  BY <1>1 DEF Top, Limits!Larger, Bar, Lim
<1> QED
  BY <1>1, <1>2, <1>3 DEF Roomy, AtMost, Top, Bar

LEMMA RoomyRepairable ==
  ASSUME NEW u, IsConf(u), Roomy(u)
  PROVE  Repairable(u)
<1>1. \A r \in Counts : Top(u, r) * 16384 <= MaxLong
  <2> SUFFICES ASSUME NEW r \in Counts PROVE Top(u, r) * 16384 <= MaxLong
    OBVIOUS
  <2>1. Top(u, r) \in Nat /\ Top(u, r) * 32768 <= MaxLong
    BY RoomFields
  <2> QED
    BY <2>1, HostsAssumption
<1>2. \A r \in SockBufs : Limits!Larger(Bar(u, r), 132096) * 2 <= MaxLong
  <2> SUFFICES ASSUME NEW r \in SockBufs PROVE Limits!Larger(Bar(u, r), 132096) * 2 <= MaxLong
    OBVIOUS
  <2>1. Bar(u, r) \in Nat /\ Limits!Larger(Bar(u, r), 132096) * 4 <= MaxLong
    BY RoomFields DEF SockBufs, Buffers
  <2>2. Limits!Larger(Bar(u, r), 132096) \in Nat
    BY <2>1 DEF Limits!Larger
  <2> QED
    BY <2>1, <2>2, HostsAssumption
<1> QED
  BY <1>1, <1>2, Room

(* A change by hand doubles a number at most.                              *)
LEMMA EditedRoom ==
  ASSUME NEW u, IsConf(u), Roomy(u), NEW r \in DOMAIN u, NEW x \in Nat, NEW y \in Nat,
         x <= MaxLong, y <= MaxLong, x <= 2 * Bar(u, r),
         r \in Counts => y <= 2 * Top(u, r)
  PROVE  Repairable([u EXCEPT ![r] = <<x, y>>])
<1> DEFINE w == [u EXCEPT ![r] = <<x, y>>]
<1>0. MaxLong \in Nat
  BY HostsAssumption
<1>1. /\ DOMAIN w = DOMAIN u /\ w = [s \in DOMAIN w |-> w[s]]
      /\ w[r] = <<x, y>> /\ \A s \in DOMAIN u \ {r} : w[s] = u[s]
  BY DEF IsConf, IsOf
<1>2. x \in 0..MaxLong /\ y \in 0..MaxLong
  BY <1>0
<1> HIDE DEF w
<1>3. IsConf(w)
  BY <1>1, <1>2 DEF IsConf, IsOf
<1>4. ASSUME NEW s \in Counts
      PROVE  Top(w, s) * 16384 <= MaxLong
  <2>1. s \in DOMAIN u /\ Top(u, s) \in Nat /\ Top(u, s) * 32768 <= MaxLong
    BY RoomFields
  <2>2. Bar(u, s) \in Nat /\ Lim(u, s) \in Nat
    BY <2>1, ConfFields
  <2>3. CASE s # r
    <3>1. Top(w, s) = Top(u, s)
      BY <1>1, <2>1, <2>3 DEF Top
    <3> QED
      BY <1>0, <2>1, <3>1
  <2>4. CASE s = r
    <3>1. Top(w, s) = Limits!Larger(x, y)
      BY <1>1, <2>4 DEF Top
    <3>2. Bar(u, s) <= Top(u, s)
      BY <2>2 DEF Top, Bar, Lim, Limits!Larger
    <3>3. x <= 2 * Top(u, s) /\ y <= 2 * Top(u, s)
      BY <2>1, <2>2, <2>4, <3>2
    <3>4. Top(w, s) \in Nat /\ Top(w, s) <= 2 * Top(u, s)
      BY <3>1, <3>3 DEF Limits!Larger
    <3> QED
      BY <1>0, <2>1, <3>4
  <2> QED
    BY <2>3, <2>4
<1>5. ASSUME NEW s \in SockBufs
      PROVE  Limits!Larger(Bar(w, s), 132096) * 2 <= MaxLong
  <2>1. s \in DOMAIN u /\ Bar(u, s) \in Nat /\ Limits!Larger(Bar(u, s), 132096) * 4 <= MaxLong
    BY RoomFields DEF SockBufs, Buffers
  <2>2. Bar(w, s) \in Nat /\ Bar(w, s) <= 2 * Bar(u, s)
    BY <1>1, <2>1 DEF Bar
  <2> HIDE DEF Bar
  <2> QED
    BY <1>0, <2>1, <2>2 DEF Limits!Larger
<1>6. Repairable(w)
  BY <1>3, <1>4, <1>5, Room
<1> QED
  BY <1>6 DEF w

LEMMA ForgottenRoom ==
  ASSUME NEW u, IsConf(u), Roomy(u)
  PROVE  Repairable([r \in DOMAIN u \ {"avnumproc"} |-> u[r]])
<1> DEFINE w == [r \in DOMAIN u \ {"avnumproc"} |-> u[r]]
<1>1. DOMAIN w = DOMAIN u \ {"avnumproc"} /\ w = [r \in DOMAIN w |-> w[r]]
        /\ \A r \in DOMAIN w : w[r] = u[r]
  OBVIOUS
<1>2. "avnumproc" \notin Needed /\ DOMAIN u \in {Needed, Needed \cup {"avnumproc"}}
  BY DEF Needed, Counts, Buffers, Sizes, IsConf, IsOf
<1>3. DOMAIN w = Needed
  BY <1>1, <1>2
<1> HIDE DEF w
<1>4. IsConf(w)
  BY <1>1, <1>3 DEF IsConf, IsOf
<1>5. \A r \in Counts \cup SockBufs : w[r] = u[r]
  BY <1>1, <1>3 DEF Needed, SockBufs, Buffers
<1>6. Repairable(u)
  BY RoomyRepairable
<1>7. \A r \in Counts : Top(w, r) * 16384 <= MaxLong
  <2> SUFFICES ASSUME NEW r \in Counts PROVE Top(w, r) * 16384 <= MaxLong
    OBVIOUS
  <2>1. Top(u, r) \in Nat /\ Top(u, r) * 32768 <= MaxLong /\ Top(w, r) = Top(u, r)
    BY <1>5, RoomFields DEF Top
  <2> QED
    BY <2>1, HostsAssumption
<1>8. \A r \in SockBufs : Limits!Larger(Bar(w, r), 132096) * 2 <= MaxLong
  <2> SUFFICES ASSUME NEW r \in SockBufs PROVE Limits!Larger(Bar(w, r), 132096) * 2 <= MaxLong
    OBVIOUS
  <2>1. Bar(u, r) \in Nat /\ Limits!Larger(Bar(u, r), 132096) * 4 <= MaxLong /\ Bar(w, r) = Bar(u, r)
    BY <1>5, RoomFields DEF SockBufs, Buffers, Bar
  <2>2. Limits!Larger(Bar(w, r), 132096) \in Nat
    BY <2>1 DEF Limits!Larger
  <2> QED
    BY <2>1, <2>2, HostsAssumption
<1>9. Repairable(w)
  BY <1>4, <1>7, <1>8, Room
<1> QED
  BY <1>9 DEF w

(* A repair leaves the room that it found.                                 *)
LEMMA PassRoomy ==
  ASSUME NEW u, IsConf(u), Roomy(u), "avnumproc" \in DOMAIN u
  PROVE  Roomy(Pass(u))
<1> DEFINE b == Limits!BarrierAndLimit(u)
           w == Pass(u)
           D == DOMAIN u
           avn == Bar(u, "avnumproc")
           nf == Top(u, "numfile")
           dc == Top(u, "dcachesize")
<1>0. MaxLong \in Nat /\ Repairable(u)
  BY RoomyRepairable, HostsAssumption
<1>1. IsConf(b) /\ DOMAIN b = D /\ IsConf(w) /\ DOMAIN w = D
  BY <1>0, PassOf
<1>2. /\ \A r \in Counts : Bar(w, r) = Top(u, r) /\ Lim(w, r) = Top(u, r)
      /\ Limits!Avnumproc(w) = avn /\ Limits!Avnumproc(b) = avn
  <2>1. b["avnumproc"] = u["avnumproc"]
    BY LevelFields
  <2>2. Limits!Avnumproc(b) = avn
    BY <1>1, <2>1 DEF Limits!Avnumproc, Limits!Bar, Bar
  <2> QED
    BY <1>0, <2>2, PassShapes
<1>3. /\ \A r \in D \ (Buffers \cup {"numfile", "dcachesize", "kmemsize", "privvmpages"}) : w[r] = b[r]
      /\ w["dcachesize"] = <<Bar(b, "dcachesize"), Limits!Larger(Lim(b, "dcachesize"), Dentries(b))>>
      /\ Bar(w, "kmemsize") =
           Limits!Larger(Bar(b, "kmemsize"), Limits!Masked(40 * 1024 * avn + Lim(w, "dcachesize")))
      /\ Bar(w, "privvmpages") = Limits!Larger(Bar(b, "privvmpages"), Bar(b, "vmguarpages"))
      /\ w["numfile"] = Limits!Same(Limits!Larger(Bar(b, "numfile"), Files(b)))
  BY <1>0, <1>2, PassOf
<1>4. ASSUME NEW r \in Buffers
      PROVE  \E t \in {32768, 65536, 132096} : Bar(w, r) = Limits!Larger(Bar(b, r), t)
  BY <1>0, PassOf DEF Buffers, SockBufs
<1>5. /\ Bar(b, "numfile") = nf
      /\ Bar(b, "dcachesize") = Bar(u, "dcachesize") /\ Lim(b, "dcachesize") = dc
      /\ Bar(b, "kmemsize") = Bar(u, "kmemsize") /\ Bar(b, "privvmpages") = Bar(u, "privvmpages")
      /\ Bar(b, "vmguarpages") = Bar(u, "vmguarpages")
      /\ Bar(b, "oomguarpages") = Bar(u, "oomguarpages")
      /\ Bar(b, "physpages") = 0 /\ Bar(b, "avnumproc") = avn
      /\ \A r \in Buffers : Bar(b, r) = Bar(u, r)
      /\ \A r \in Counts : Bar(b, r) = Top(u, r)
  <2>1. Needed \subseteq D
    BY ConfFields
  <2> QED
    BY <2>1, LevelFields DEF Bar, Needed, Sizes, Buffers, Counts, Limits!Equal, Limits!Ordered,
                             Limits!Guarantees
<1>6. /\ \A r \in Counts : Top(u, r) \in Nat /\ Top(u, r) * 32768 <= MaxLong
      /\ nf \in Nat /\ nf * 4096 <= MaxLong /\ dc \in Nat /\ dc * 6 <= MaxLong
      /\ \A r \in Buffers : Bar(u, r) \in Nat /\ Limits!Larger(Bar(u, r), 132096) * 4 <= MaxLong
      /\ \A r \in D : Bar(u, r) \in Nat /\ Bar(u, r) * 2 <= MaxLong
      /\ avn \in Nat /\ avn * 131072 <= MaxLong
  BY RoomFields DEF Roomy, Limits!Avnumproc, Limits!Bar, Bar
<1>7. /\ Needed \subseteq D /\ D \subseteq Needed \cup {"avnumproc"}
      /\ \A r \in D : Bar(w, r) \in Nat /\ Lim(w, r) \in Nat
  BY <1>1, ConfFields
<1> HIDE DEF b, w, avn, nf, dc
<1>8. ASSUME NEW r \in Counts
      PROVE  AtMost(w, r, 32768) /\ Bar(w, r) * 2 <= MaxLong
  <2>1. Bar(w, r) = Top(u, r) /\ Lim(w, r) = Top(u, r) /\ Top(u, r) \in Nat /\ Top(u, r) * 32768 <= MaxLong
    BY <1>2, <1>6
  <2>2. Limits!Larger(w[r][1], w[r][2]) = Top(u, r)
    BY <2>1 DEF Limits!Larger, Bar, Lim
  <2> QED
    BY <1>0, <2>1, <2>2 DEF AtMost
<1>9. AtMost(w, "numfile", 4096) /\ Bar(w, "numfile") * 2 <= MaxLong
  <2> DEFINE k == Files(b)
             p == Top(u, "numtcpsock")
             q == Top(u, "numothersock")
             z == Top(u, "numpty")
  <2>1. /\ p \in Nat /\ q \in Nat /\ z \in Nat
        /\ p * 32768 <= MaxLong /\ q * 32768 <= MaxLong /\ z * 32768 <= MaxLong
        /\ Bar(b, "numtcpsock") = p /\ Bar(b, "numothersock") = q /\ Bar(b, "numpty") = z
    BY <1>5, <1>6 DEF Counts
  <2>2. k = Limits!Masked(Limits!Larger(avn * 32, p + q + z))
    BY <1>2, <2>1 DEF Files
  <2> HIDE DEF k, p, q, z
  <2>3. Limits!Larger(avn * 32, p + q + z) \in Nat /\ Limits!Larger(avn * 32, p + q + z) * 4096 <= MaxLong
    BY <1>0, <1>6, <2>1 DEF Limits!Larger
  <2>4. k \in Nat /\ k <= Limits!Larger(avn * 32, p + q + z)
    BY <1>0, <2>2, <2>3, LongRange
  <2>5. k * 4096 <= MaxLong
    BY <1>0, <2>3, <2>4
  <2>6. w["numfile"] = <<Limits!Larger(nf, k), Limits!Larger(nf, k)>>
    BY <1>3, <1>5 DEF Limits!Same, k
  <2>7. Limits!Larger(nf, k) \in Nat /\ Limits!Larger(nf, k) * 4096 <= MaxLong
    BY <1>0, <1>6, <2>4, <2>5 DEF Limits!Larger
  <2> QED
    <3> DEFINE m == Limits!Larger(nf, k)
    <3>1. w["numfile"] = <<m, m>> /\ m \in Nat /\ m * 4096 <= MaxLong
      BY <2>6, <2>7
    <3> HIDE DEF m
    <3>2. Limits!Larger(w["numfile"][1], w["numfile"][2]) = m /\ Bar(w, "numfile") = m
      BY <3>1 DEF Limits!Larger, Bar
    <3> QED
      BY <1>0, <3>1, <3>2 DEF AtMost
<1>10. AtMost(w, "dcachesize", 6) /\ Bar(w, "dcachesize") * 2 <= MaxLong
         /\ Lim(w, "dcachesize") \in Nat /\ Lim(w, "dcachesize") * 6 <= MaxLong
  <2> DEFINE k == Dentries(b)
             x == Bar(u, "dcachesize")
             m == Limits!Larger(dc, k)
  <2>1. k = Limits!Masked(nf * 384)
    BY <1>5 DEF Dentries
  <2>2. nf * 384 \in Nat
    BY <1>6
  <2>3. k \in Nat /\ k <= nf * 384
    BY <1>0, <2>1, <2>2, LongRange
  <2> HIDE DEF k
  <2>4. m \in Nat /\ m * 6 <= MaxLong /\ dc <= m
    BY <1>0, <1>6, <2>3 DEF Limits!Larger
  <2>5. x \in Nat /\ x * 2 <= MaxLong
    BY <1>6, <1>7 DEF Needed, Sizes
  <2>6. x <= dc
    <3>1. Lim(u, "dcachesize") \in Nat
      BY ConfFields, <1>7 DEF Needed, Sizes
    <3> QED
      BY <2>5, <3>1 DEF dc, Top, Limits!Larger, Bar, Lim
  <2>7. w["dcachesize"] = <<x, m>>
    BY <1>3, <1>5 DEF k
  <2> HIDE DEF m, x
  <2>8. Limits!Larger(w["dcachesize"][1], w["dcachesize"][2]) = m
          /\ Bar(w, "dcachesize") = x /\ Lim(w, "dcachesize") = m
    BY <1>6, <2>4, <2>5, <2>6, <2>7 DEF Limits!Larger, Bar, Lim
  <2> QED
    BY <2>4, <2>5, <2>8 DEF AtMost
<1>11. Bar(w, "kmemsize") * 2 <= MaxLong
  <2> DEFINE x == Bar(u, "kmemsize")
             y == Lim(w, "dcachesize")
             k == Limits!Masked(40 * 1024 * avn + y)
  <2>1. 40 * 1024 * avn + y \in Nat
    BY <1>6, <1>10
  <2>2. k \in Nat /\ k <= 40 * 1024 * avn + y
    BY <1>0, <2>1, LongRange
  <2>3. x \in Nat /\ x * 2 <= MaxLong
    BY <1>6, <1>7 DEF Needed, Sizes
  <2>4. Bar(w, "kmemsize") = Limits!Larger(x, k)
    BY <1>3, <1>5
  <2>5. y \in Nat /\ y * 6 <= MaxLong
    BY <1>10
  <2> HIDE DEF k, x, y
  <2>6. k * 2 <= MaxLong
    BY <1>0, <1>6, <2>2, <2>5
  <2> QED
    BY <1>0, <2>2, <2>3, <2>4, <2>6 DEF Limits!Larger
<1>12. ASSUME NEW r \in Buffers
       PROVE  Limits!Larger(w[r][1], 132096) * 4 <= MaxLong /\ Bar(w, r) * 2 <= MaxLong
  <2>1. PICK t \in {32768, 65536, 132096} : Bar(w, r) = Limits!Larger(Bar(u, r), t)
    BY <1>4, <1>5
  <2>2. Bar(u, r) \in Nat /\ Limits!Larger(Bar(u, r), 132096) * 4 <= MaxLong
    BY <1>6
  <2>3. Limits!Larger(Bar(w, r), 132096) = Limits!Larger(Bar(u, r), 132096)
          /\ Bar(w, r) <= Limits!Larger(Bar(u, r), 132096) /\ Bar(w, r) \in Nat
          /\ Limits!Larger(Bar(u, r), 132096) \in Nat
    BY <2>1, <2>2 DEF Limits!Larger
  <2>4. Limits!Larger(w[r][1], 132096) * 4 <= MaxLong
    BY <2>2, <2>3 DEF Bar
  <2> QED
    BY <1>0, <2>2, <2>3, <2>4
<1>13. Bar(w, "privvmpages") * 2 <= MaxLong
  <2>1. {"privvmpages", "vmguarpages"} \subseteq D
    BY <1>7 DEF Needed, Sizes
  <2> QED
    BY <1>3, <1>5, <1>6, <2>1 DEF Limits!Larger
<1>14. ASSUME NEW r \in {"vmguarpages", "oomguarpages", "physpages", "avnumproc"}
       PROVE  Bar(w, r) * 2 <= MaxLong
  <2>1. r \in D /\ Bar(w, r) = Bar(b, r)
    BY <1>3, <1>7 DEF Needed, Sizes, Buffers, Bar
  <2>2. Bar(b, r) = Bar(u, r) \/ Bar(b, r) = 0
    BY <1>5 DEF avn
  <2> QED
    BY <1>0, <1>6, <2>1, <2>2
<1>15. \A r \in D : w[r][1] * 2 <= MaxLong
  BY <1>7, <1>8, <1>9, <1>10, <1>11, <1>12, <1>13, <1>14 DEF Needed, Sizes, Bar
<1>16. Limits!Avnumproc(w) * 131072 <= MaxLong
  BY <1>2, <1>6
<1>17. Roomy(w)
  BY <1>1, <1>8, <1>9, <1>10, <1>12, <1>15, <1>16 DEF Roomy
<1> QED
  BY <1>17 DEF w

LEMMA LeastOf ==
  ASSUME NEW S, S \subseteq 0..10, S # {}
  PROVE  Limits!Min(S) \in S /\ \A y \in S : Limits!Min(S) <= y
<1>1. ASSUME \A x \in S : \E y \in S : y < x
      PROVE  FALSE
  <2>1. 0 \notin S
    BY <1>1
  <2>2. 1 \notin S
    BY <1>1, <2>1
  <2>3. 2 \notin S
    BY <1>1, <2>1, <2>2
  <2>4. 3 \notin S
    BY <1>1, <2>1, <2>2, <2>3
  <2>5. 4 \notin S
    BY <1>1, <2>1, <2>2, <2>3, <2>4
  <2>6. 5 \notin S
    BY <1>1, <2>1, <2>2, <2>3, <2>4, <2>5
  <2>7. 6 \notin S
    BY <1>1, <2>1, <2>2, <2>3, <2>4, <2>5, <2>6
  <2>8. 7 \notin S
    BY <1>1, <2>1, <2>2, <2>3, <2>4, <2>5, <2>6, <2>7
  <2>9. 8 \notin S
    BY <1>1, <2>1, <2>2, <2>3, <2>4, <2>5, <2>6, <2>7, <2>8
  <2>10. 9 \notin S
    BY <1>1, <2>1, <2>2, <2>3, <2>4, <2>5, <2>6, <2>7, <2>8, <2>9
  <2>11. 10 \notin S
    BY <1>1, <2>1, <2>2, <2>3, <2>4, <2>5, <2>6, <2>7, <2>8, <2>9, <2>10
  <2>12. \A x \in S : x \in {0, 1, 2, 3, 4, 5, 6, 7, 8, 9, 10}
    OBVIOUS
  <2> QED
    BY <2>1, <2>2, <2>3, <2>4, <2>5, <2>6, <2>7, <2>8, <2>9, <2>10, <2>11, <2>12
<1>2. \E x \in S : \A y \in S : x <= y
  <2> SUFFICES ASSUME \A x \in S : \E y \in S : ~(x <= y)
               PROVE  FALSE
    OBVIOUS
  <2>1. \A x \in S, y \in S : ~(x <= y) => y < x
    OBVIOUS
  <2>2. \A x \in S : \E y \in S : y < x
    BY <2>1
  <2> QED
    BY <1>1, <2>2
<1> QED
  BY <1>2 DEF Limits!Min

LEMMA Powers ==
  ASSUME NEW i \in 1..10
  PROVE  2 ^ i \in Nat \ {0}
<1>1. /\ 2 ^ 1 \in Nat \ {0} /\ 2 ^ 2 \in Nat \ {0} /\ 2 ^ 3 \in Nat \ {0} /\ 2 ^ 4 \in Nat \ {0}
      /\ 2 ^ 5 \in Nat \ {0} /\ 2 ^ 6 \in Nat \ {0} /\ 2 ^ 7 \in Nat \ {0} /\ 2 ^ 8 \in Nat \ {0}
      /\ 2 ^ 9 \in Nat \ {0} /\ 2 ^ 10 \in Nat \ {0}
  OBVIOUS
<1>2. i \in {1, 2, 3, 4, 5, 6, 7, 8, 9, 10}
  OBVIOUS
<1> QED
  BY <1>1, <1>2, Zenon

IsHost(h) == h \in UbHosts /\ Limits!Accepted(h)

LEMMA HostFields ==
  ASSUME NEW h, IsHost(h)
  PROVE  /\ h.mem \in Nat /\ h.swap \in Nat /\ h.threads \in Nat /\ h.n \in Nat \ {0}
         /\ Limits!TotPve(h) \in Int /\ Limits!TotPve(h) >= 5542912
         /\ ~Limits!Fatal(h) /\ MaxLong \in Nat
BY HostsAssumption DEF IsHost, Limits!Accepted, Limits!TotPve

LEMMA Shares ==
  ASSUME NEW h, IsHost(h), NEW l \in 0..3
  PROVE  /\ Limits!LowShare(h, l) \in Int /\ Limits!LowPve(h, l) \in Int
         /\ Limits!Guaranteed(h, l) \in Nat /\ Limits!Guaranteed(h, l) >= 1024
<1>1. Limits!PerCent[l + 1] \in Nat
  BY DEF Limits!PerCent
<1>2. Limits!LowShare(h, l) \in Int
  <2>1. (h.mem \div 100) * Limits!PerCent[l + 1] \in Int
    BY <1>1, HostFields
  <2> QED
    BY <2>1, HostFields DEF Limits!LowShare
<1>3. Limits!LowPve(h, l) \in Int
  BY <1>2, HostFields DEF Limits!LowPve, Limits!PageSize
<1>4. (Limits!TotPve(h) - Limits!LowShare(h, l)) \div Limits!PageSize \in Int
  BY <1>2, HostFields DEF Limits!PageSize
<1> QED
  BY <1>2, <1>3, <1>4 DEF Limits!Guaranteed, Limits!Larger

LEMMA LevelFound ==
  ASSUME NEW h, IsHost(h)
  PROVE  /\ Limits!Level(h) \in 0..3
         /\ Limits!Level(h) # 3 => Limits!Enough(h, Limits!Level(h))
<1> DEFINE S == {l \in 0..2 : Limits!Enough(h, l)} \cup {3}
<1>1. S \subseteq 0..10 /\ S # {}
  OBVIOUS
<1>2. Limits!Level(h) = Limits!Min(S)
  BY DEF Limits!Level
<1>3. Limits!Level(h) \in S
  BY <1>1, <1>2, LeastOf
<1> QED
  BY <1>3

LEMMA HalvingsFound ==
  ASSUME NEW h, IsHost(h), Limits!Shortage(h)
  PROVE  Limits!Halvings(h) \in 1..10
<1> DEFINE S == {i \in 1..10 : Limits!Rest(h, i) >= 0 \/ Limits!Halved(h, i) = 30}
<1>1. S \subseteq 0..10 /\ S # {}
  BY HostsAssumption DEF IsHost
<1>2. Limits!Halvings(h) = Limits!Min(S)
  BY DEF Limits!Halvings
<1>3. Limits!Halvings(h) \in S
  BY <1>1, <1>2, LeastOf
<1> QED
  BY <1>3

LEMMA ThreadsOf ==
  ASSUME NEW h, IsHost(h), NEW l \in 0..2
  PROVE  Limits!Threads(h, l) \in Nat
<1>1. <<2, 3, 4>>[l + 1] \in Nat
  OBVIOUS
<1>2. h.threads * <<2, 3, 4>>[l + 1] \in Nat /\ 2 * h.n \in Nat \ {0}
  BY <1>1, HostFields
<1> QED
  BY <1>2 DEF Limits!Threads


\* What either part of vzsplit hands to the rest of it.
Spread(b, n) ==
  /\ b = <<b[1], b[2]>> /\ b[1] \in Nat /\ b[2] \in Nat
  /\ b[1] <= b[2] /\ b[2] <= b[1] + 4096 * n
Sound(p, d, gapped) ==
  /\ p.np \in Nat /\ p.avn \in Nat /\ p.kmem \in Nat /\ p.dgram \in Nat /\ d \in Nat
  /\ p.np >= 30 /\ p.dgram >= 32768
  /\ p.avn * 32 >= 2 * p.np + Limits!Smaller(Limits!Larger(p.np \div 10, 4), 512)
  /\ d >= p.avn * 32 * 384 /\ p.kmem >= 40960 * p.avn + d
  /\ \A b \in {p.tcpsnd, p.tcprcv, p.other} : Spread(b, p.np)
  /\ \A b \in {p.tcpsnd, p.other} : b[1] + 2560 * p.np <= b[2]
  /\ p.tcpsnd[1] >= 65536 /\ p.tcprcv[1] >= 65536 /\ p.other[1] >= 32768
  /\ gapped => p.tcprcv[1] + 2560 * p.np <= p.tcprcv[2]

LEMMA PlentifulIsSound ==
  ASSUME NEW h, IsHost(h), ~Limits!Shortage(h)
  PROVE  Sound(Limits!Part(h), Limits!Dcache(h), TRUE)
<1> DEFINE l == Limits!Level(h)
           x == Limits!LowPve(h, l)
           a == Limits!LevelAvn(h, l)
           n == Limits!LevelNumproc(h, l)
           t == Limits!TcpBuf(h, l)
           s1 == Limits!Sock1[l + 1]
           s2 == Limits!Sock2[l + 1]
           d == Limits!Dcache(h)
           e == Limits!Threads(h, l)
<1>1. l \in 0..2 /\ Limits!Enough(h, l)
  BY LevelFound DEF Limits!Shortage
<1>2. x \in Int /\ e \in Nat
  BY <1>1, Shares, ThreadsOf
<1>3. Limits!Part(h) =
        [np |-> n, avn |-> a, kmem |-> x \div 2,
         tcpsnd |-> <<t - s2 * n, t>>, tcprcv |-> <<t - s2 * n, t>>,
         dgram |-> (t - s2 * n) \div 2,
         other |-> <<(t - s2 * n) \div 2, (t - s2 * n) \div 2 + s2 * n>>]
  BY DEF Limits!Part, Limits!Plentiful
<1>4. a >= 15 /\ t >= s1 + s2 * n
  BY <1>1 DEF Limits!Enough
<1>5. d = (a * 32 * <<5760, 4608, 3840>>[l + 1]) \div 10
  <2>1. Limits!Sl(h) = l
    BY <1>1 DEF Limits!Sl, Limits!Smaller
  <2>2. Limits!Part(h).avn = a
    BY <1>3
  <2> QED
    BY <2>1, <2>2 DEF Limits!Dcache, Limits!Numfile
<1>6. /\ a = (x \div 2) \div Limits!Kpp[l + 1]
      /\ n = Limits!Smaller(Limits!Larger(Limits!Larger(e, 30), 2 * a), a * <<8, 5, 3>>[l + 1])
      /\ t = (x - x \div 2) \div 3
  BY DEF Limits!LevelAvn, Limits!LevelNumproc, Limits!TcpBuf
<1>7. a \in Int /\ t \in Int /\ x \div 2 \in Int
  BY <1>1, <1>2, <1>6 DEF Limits!Kpp
<1> HIDE DEF l, x, a, n, t, s1, s2, d, e
<1>8. /\ n \in Nat /\ n >= 30
      /\ a * 32 >= 2 * n + Limits!Smaller(Limits!Larger(n \div 10, 4), 512)
      /\ x \div 2 >= a * Limits!Kpp[l + 1]
  <2>1. Limits!Kpp[l + 1] \in {81920, 65536, 53248} /\ <<8, 5, 3>>[l + 1] \in {8, 5, 3}
    BY <1>1 DEF Limits!Kpp
  <2> DEFINE m == <<8, 5, 3>>[l + 1]
             k == Limits!Kpp[l + 1]
  <2>2. a = (x \div 2) \div k /\ k \in {81920, 65536, 53248} /\ m \in {8, 5, 3}
          /\ n = Limits!Smaller(Limits!Larger(Limits!Larger(e, 30), 2 * a), a * m)
    BY <1>6, <2>1
  <2> HIDE DEF m, k
  <2>3. a * m \in Int /\ Limits!Larger(Limits!Larger(e, 30), 2 * a) \in Int
    BY <1>2, <1>7, <2>2 DEF Limits!Larger
  <2>4. n \in Int
    BY <2>2, <2>3 DEF Limits!Smaller
  <2>5. n >= 30 /\ n <= 8 * a
    <3> DEFINE g == Limits!Larger(Limits!Larger(e, 30), 2 * a)
    <3>1. g \in Int /\ g >= 30
      BY <1>2, <1>7 DEF Limits!Larger
    <3>2. a >= 15
      BY <1>4
    <3>3. a * m >= 45 /\ a * m <= 8 * a
      BY <1>7, <2>2, <3>2
    <3>4. n = Limits!Smaller(g, a * m)
      BY <2>2
    <3> HIDE DEF g
    <3>5. a * m \in Int
      BY <2>3
    <3> QED
      BY <1>7, <3>1, <3>3, <3>4, <3>5 DEF Limits!Smaller
  <2>6. n \div 10 <= a /\ n \div 10 \in Int
    BY <1>7, <2>4, <2>5
  <2>7. a >= 15
    BY <1>4
  <2>8. Limits!Smaller(Limits!Larger(n \div 10, 4), 512) <= a
          /\ Limits!Smaller(Limits!Larger(n \div 10, 4), 512) \in Int
    BY <1>7, <2>6, <2>7 DEF Limits!Larger, Limits!Smaller
  <2>9. a * 32 >= 2 * n + Limits!Smaller(Limits!Larger(n \div 10, 4), 512)
    BY <1>7, <2>4, <2>5, <2>7, <2>8
  <2>10. x \div 2 >= a * k
    BY <1>7, <2>2
  <2> QED
    BY <2>4, <2>5, <2>9, <2>10 DEF k
<1>9. d \in Nat /\ d >= a * 32 * 384 /\ x \div 2 >= 40960 * a + d
  <2>1. CASE l = 0
    BY <1>4, <1>5, <1>7, <1>8, <2>1 DEF Limits!Kpp
  <2>2. CASE l = 1
    BY <1>4, <1>5, <1>7, <1>8, <2>2 DEF Limits!Kpp
  <2>3. CASE l = 2
    BY <1>4, <1>5, <1>7, <1>8, <2>3 DEF Limits!Kpp
  <2> QED
    BY <1>1, <2>1, <2>2, <2>3
<1>10. s1 \in Nat /\ s1 >= 65536 /\ s2 \in {4096, 3036, 2560}
  BY <1>1 DEF s1, s2, Limits!Sock1, Limits!Sock2
<1> DEFINE z == s2 * n
           r == t - z
<1>11. z \in Nat /\ z >= 2560 * n /\ z <= 4096 * n
  BY <1>8, <1>10
<1>12. r \in Nat /\ r >= 65536 /\ t = r + z
  BY <1>4, <1>7, <1>10, <1>11
<1>13. Limits!Part(h) =
        [np |-> n, avn |-> a, kmem |-> x \div 2, tcpsnd |-> <<r, r + z>>,
         tcprcv |-> <<r, r + z>>, dgram |-> r \div 2, other |-> <<r \div 2, r \div 2 + z>>]
  BY <1>3, <1>12
<1> HIDE DEF z, r
<1>14. r \div 2 \in Nat /\ r \div 2 >= 32768
  BY <1>12
<1>15. x \div 2 \in Nat /\ a \in Nat
  BY <1>4, <1>7, <1>9
<1> QED
  <2> DEFINE p == Limits!Part(h)
  <2>1. /\ p.np = n /\ p.avn = a /\ p.kmem = x \div 2 /\ p.tcpsnd = <<r, r + z>>
        /\ p.tcprcv = <<r, r + z>> /\ p.dgram = r \div 2 /\ p.other = <<r \div 2, r \div 2 + z>>
    BY <1>13
  <2> HIDE DEF p
  <2>2. \A b \in {p.tcpsnd, p.tcprcv, p.other} :
          \E y \in Nat : b = <<y, y + z>> /\ y >= 32768
    BY <1>12, <1>14, <2>1
  <2>3. ASSUME NEW y \in Nat
        PROVE  LET b == <<y, y + z>>
               IN  Spread(b, n) /\ b[1] + 2560 * n <= b[2]
    BY <1>8, <1>11 DEF Spread
  <2>4. \A b \in {p.tcpsnd, p.tcprcv, p.other} :
          Spread(b, p.np) /\ b[1] + 2560 * p.np <= b[2]
    BY <2>1, <2>2, <2>3
  <2>5. p.tcpsnd[1] >= 65536 /\ p.tcprcv[1] >= 65536 /\ p.other[1] >= 32768
    BY <1>12, <1>14, <2>1
  <2>6. /\ p.np \in Nat /\ p.avn \in Nat /\ p.kmem \in Nat /\ p.dgram \in Nat /\ d \in Nat
        /\ p.np >= 30 /\ p.dgram >= 32768
        /\ p.avn * 32 >= 2 * p.np + Limits!Smaller(Limits!Larger(p.np \div 10, 4), 512)
        /\ d >= p.avn * 32 * 384 /\ p.kmem >= 40960 * p.avn + d
    BY <1>8, <1>9, <1>14, <1>15, <2>1
  <2>7. Sound(p, d, TRUE)
    BY <2>4, <2>5, <2>6 DEF Sound
  <2> QED
    BY <2>7 DEF p, d

LEMMA ScarceIsSound ==
  ASSUME NEW h, IsHost(h), Limits!Shortage(h)
  PROVE  Sound(Limits!Part(h), Limits!Dcache(h), FALSE)
<1> DEFINE i == Limits!Halvings(h)
           n == Limits!Halved(h, i)
           x == Limits!LowPve(h, 3)
           q == Limits!Rest(h, i)
           d == Limits!Dcache(h)
           a == n \div 2
           z == 2560 * n
           p == Limits!Part(h)
<1>1. i \in 1..10 /\ x \in Int
  <2>1. i \in 1..10
    BY HalvingsFound
  <2>2. 3 \in 0..3
    OBVIOUS
  <2>3. x \in Int
    BY <2>2, Shares
  <2> QED
    BY <2>1, <2>3
<1>2. n \in Nat /\ n >= 30
  <2>0. 2 \in 0..2
    OBVIOUS
  <2>a. 2 ^ i \in Nat \ {0}
    BY <1>1, Powers, Zenon
  <2>1. Limits!Threads(h, 2) \in Nat /\ 2 ^ i \in Nat \ {0}
    BY <2>0, <2>a, ThreadsOf, Zenon
  <2> DEFINE y == Limits!Threads(h, 2) \div 2 ^ i
  <2>2. y \in Nat
    BY <2>1
  <2>3. n = Limits!Larger(y, 30)
    BY DEF Limits!Halved
  <2> HIDE DEF y, n
  <2> QED
    BY <2>2, <2>3 DEF Limits!Larger
<1>3. q = x - Limits!SockBuf(n) - a * 53248
  BY DEF Limits!Rest, Limits!Kpp
<1>4. p = [np |-> n, avn |-> a, kmem |-> x - Limits!SockBuf(n) + Limits!Larger(q - z, 0),
           tcpsnd |-> <<65536, 65536 + z>>, tcprcv |-> <<65536, 65536 + Limits!Smaller(q, z)>>,
           dgram |-> 32768, other |-> <<32768, 32768 + z>>]
  BY DEF Limits!Part, Limits!Scarce
<1>5. ~(q < 0)
  BY HostFields DEF Limits!Fatal
<1>6. d = (a * 32 * 3840) \div 10
  <2>1. Limits!Sl(h) = 2
    BY DEF Limits!Sl, Limits!Smaller, Limits!Shortage
  <2>2. p.avn = a
    BY <1>4
  <2> QED
    BY <2>1, <2>2 DEF Limits!Dcache, Limits!Numfile
<1> HIDE DEF i, n, x, q, d, p
<1>7. a \in Nat /\ a * 2 <= n /\ n <= a * 2 + 1 /\ z \in Nat
  BY <1>2
<1> HIDE DEF a, z
<1>8. Limits!SockBuf(n) \in Nat
  BY <1>2 DEF Limits!SockBuf
<1>9. q \in Nat
  BY <1>1, <1>3, <1>5, <1>7, <1>8
<1>10. a * 32 >= 2 * n + Limits!Smaller(Limits!Larger(n \div 10, 4), 512)
  <2>1. n \div 10 \in Nat /\ (n \div 10) * 10 <= n
    BY <1>2
  <2>2. Limits!Smaller(Limits!Larger(n \div 10, 4), 512) <= n /\ Limits!Smaller(Limits!Larger(n \div 10, 4), 512) \in Int
    BY <1>2, <2>1 DEF Limits!Smaller, Limits!Larger
  <2> QED
    BY <1>2, <1>7, <2>2
<1> DEFINE k == x - Limits!SockBuf(n) + Limits!Larger(q - z, 0)
           y == Limits!Smaller(q, z)
<1>11. k \in Int /\ k >= a * 53248
  <2>1. Limits!Larger(q - z, 0) \in Nat
    BY <1>7, <1>9 DEF Limits!Larger
  <2> QED
    BY <1>1, <1>3, <1>7, <1>8, <1>9, <2>1
<1>12. d \in Nat /\ d >= a * 32 * 384 /\ d <= a * 12288
  BY <1>6, <1>7
<1>13. y \in Nat /\ y <= z
  BY <1>7, <1>9 DEF Limits!Smaller
<1>14. z = 2560 * n
  BY DEF z
<1> HIDE DEF k, y
<1>15. /\ p.np = n /\ p.avn = a /\ p.kmem = k /\ p.tcpsnd = <<65536, 65536 + z>>
       /\ p.tcprcv = <<65536, 65536 + y>> /\ p.dgram = 32768 /\ p.other = <<32768, 32768 + z>>
  BY <1>4 DEF k, y
<1>16. /\ p.np \in Nat /\ p.avn \in Nat /\ p.kmem \in Nat /\ p.dgram \in Nat /\ d \in Nat
       /\ p.np >= 30 /\ p.dgram >= 32768
       /\ p.avn * 32 >= 2 * p.np + Limits!Smaller(Limits!Larger(p.np \div 10, 4), 512)
       /\ d >= p.avn * 32 * 384 /\ p.kmem >= 40960 * p.avn + d
  BY <1>2, <1>7, <1>10, <1>11, <1>12, <1>15
<1>17. \A b \in {p.tcpsnd, p.tcprcv, p.other} :
         Spread(b, p.np)
  BY <1>2, <1>7, <1>13, <1>14, <1>15 DEF Spread
<1>18. \A b \in {p.tcpsnd, p.other} : b[1] + 2560 * p.np <= b[2]
  BY <1>2, <1>7, <1>14, <1>15
<1>19. p.tcpsnd[1] >= 65536 /\ p.tcprcv[1] >= 65536 /\ p.other[1] >= 32768
  BY <1>15
<1> QED
  BY <1>16, <1>17, <1>18, <1>19 DEF Sound, p, d

\* Guaranteed memory and its cap.
LEMMA PagesOf ==
  ASSUME NEW h, IsHost(h)
  PROVE  /\ Limits!Guarpg(h) \in Nat /\ Limits!Privvm(h) \in Nat
         /\ Limits!Guarpg(h) <= Limits!Privvm(h)
<1> DEFINE g == Limits!Guar(h)
           f == <<12, 6, 3>>[Limits!Sl(h) + 1]
           m == Limits!PrivvmMax(h)
           v == Limits!Privvm0(h)
<1>1. g \in Nat
  BY LevelFound, Shares DEF Limits!Guar
<1>2. f \in {12, 6, 3}
  <2>1. Limits!Sl(h) \in 0..2
    BY LevelFound DEF Limits!Sl, Limits!Smaller
  <2> QED
    BY <2>1
<1>3. m \in Nat
  BY HostFields DEF Limits!PrivvmMax, Limits!PageSize
<1>4. v = IF (g * f) \div 2 > Limits!TotPve(h) \div Limits!PageSize THEN g ELSE (g * f) \div 2
  BY DEF Limits!Privvm0
<1> HIDE DEF g, f, m, v
<1>5. (g * f) \div 2 \in Nat /\ (g * f) \div 2 >= g
  BY <1>1, <1>2
<1>6. v \in Nat /\ v >= g
  BY <1>1, <1>4, <1>5
<1>7. /\ Limits!Privvm(h) = IF Limits!Capped(h) THEN m ELSE v
      /\ Limits!Guarpg(h) = IF Limits!Capped(h) THEN Limits!Smaller(g, m) ELSE g
  BY DEF Limits!Privvm, Limits!Guarpg, g, m, v
<1> QED
  BY <1>1, <1>3, <1>6, <1>7 DEF Limits!Smaller

LEMMA PartIsSound ==
  ASSUME NEW h, IsHost(h)
  PROVE  Sound(Limits!Part(h), Limits!Dcache(h), ~Limits!Shortage(h))
<1>1. CASE Limits!Shortage(h)
  BY <1>1, ScarceIsSound DEF Sound
<1>2. CASE ~Limits!Shortage(h)
  BY <1>2, PlentifulIsSound DEF Sound
<1> QED
  BY <1>1, <1>2

\* The configuration of vzsplit, limit by limit.
Ptys(n) == Limits!Smaller(Limits!Larger(n \div 10, 4), 512)
DcacheBar(d) == (d \div 103) * 100 + ((d % 103) * 100) \div 103
Laid(u, p, g, v, d) ==
  /\ DOMAIN u = Needed \cup {"avnumproc"} /\ u = [r \in DOMAIN u |-> u[r]]
  /\ \A r \in {"numproc", "numtcpsock", "numothersock"} : u[r] = <<p.np, p.np>>
  /\ u["avnumproc"] = <<p.avn, p.avn>> /\ u["numpty"] = <<Ptys(p.np), Ptys(p.np)>>
  /\ \A r \in {"vmguarpages", "oomguarpages"} : u[r] = <<g, MaxLong>>
  /\ u["kmemsize"] = <<p.kmem, p.kmem + p.kmem \div 10>>
  /\ u["tcpsndbuf"] = p.tcpsnd /\ u["tcprcvbuf"] = p.tcprcv
  /\ u["othersockbuf"] = p.other /\ u["dgramrcvbuf"] = <<p.dgram, p.dgram>>
  /\ u["privvmpages"] = <<v, v + v \div 10>>
  /\ u["physpages"] = <<0, MaxLong>>
  /\ u["numfile"] = <<p.avn * 32, p.avn * 32>>
  /\ u["dcachesize"] = <<DcacheBar(d), d>>

LEMMA SplitIsLaid ==
  ASSUME NEW h
  PROVE  Laid(Limits!Split(h), Limits!Part(h), Limits!Guarpg(h), Limits!Privvm(h), Limits!Dcache(h))
<1> DEFINE p == Limits!Part(h)
           u == Limits!Split(h)
           pty == Ptys(p.np)
           g == Limits!Guarpg(h)
           v == Limits!Privvm(h)
           d == Limits!Dcache(h)
<1>1. u = [numproc |-> <<p.np, p.np>>, avnumproc |-> <<p.avn, p.avn>>,
           numtcpsock |-> <<p.np, p.np>>, numothersock |-> <<p.np, p.np>>,
           vmguarpages |-> <<g, MaxLong>>, oomguarpages |-> <<g, MaxLong>>,
           kmemsize |-> <<p.kmem, p.kmem + p.kmem \div 10>>,
           tcpsndbuf |-> p.tcpsnd, tcprcvbuf |-> p.tcprcv,
           othersockbuf |-> p.other, dgramrcvbuf |-> <<p.dgram, p.dgram>>,
           privvmpages |-> <<v, v + v \div 10>>, physpages |-> <<0, MaxLong>>,
           numfile |-> <<p.avn * 32, p.avn * 32>>, numpty |-> <<pty, pty>>,
           dcachesize |-> <<DcacheBar(d), d>>]
  BY DEF Limits!Split, Limits!Same, Limits!Tenth, Limits!Numfile, Ptys, DcacheBar
<1> HIDE DEF p, u, pty, g, v, d
<1>2. DOMAIN u = Needed \cup {"avnumproc"}
  BY <1>1 DEF Needed, Counts, Buffers, Sizes
<1>3. u = [r \in DOMAIN u |-> u[r]]
  BY <1>1
<1>4. /\ u["numproc"] = <<p.np, p.np>> /\ u["numtcpsock"] = <<p.np, p.np>>
      /\ u["numothersock"] = <<p.np, p.np>>
      /\ u["avnumproc"] = <<p.avn, p.avn>> /\ u["numpty"] = <<pty, pty>>
      /\ u["vmguarpages"] = <<g, MaxLong>> /\ u["oomguarpages"] = <<g, MaxLong>>
      /\ u["kmemsize"] = <<p.kmem, p.kmem + p.kmem \div 10>>
  BY <1>1
<1>5. /\ u["tcpsndbuf"] = p.tcpsnd /\ u["tcprcvbuf"] = p.tcprcv
      /\ u["othersockbuf"] = p.other /\ u["dgramrcvbuf"] = <<p.dgram, p.dgram>>
      /\ u["privvmpages"] = <<v, v + v \div 10>> /\ u["physpages"] = <<0, MaxLong>>
      /\ u["numfile"] = <<p.avn * 32, p.avn * 32>>
      /\ u["dcachesize"] = <<DcacheBar(d), d>>
  BY <1>1
<1>6. Laid(u, p, g, v, d)
  BY <1>2, <1>3, <1>4, <1>5 DEF Laid, pty
<1> QED
  BY <1>6 DEF p, u, g, v, d

LEMMA SplitConf ==
  ASSUME NEW h, IsHost(h)
  PROVE  LET u == Limits!Split(h)
         IN  IsConf(u) /\ Roomy(u) /\ "avnumproc" \in DOMAIN u
<1> DEFINE p == Limits!Part(h)
           u == Limits!Split(h)
           n == p.np
           pty == Ptys(n)
           d == Limits!Dcache(h)
           dbar == DcacheBar(d)
           g == Limits!Guarpg(h)
           v == Limits!Privvm(h)
<1>0. MaxLong \in Nat /\ Roomy(u)
  BY HostsAssumption DEF IsHost
<1>1. Sound(p, d, FALSE)
  BY PartIsSound DEF Sound
<1>2. g \in Nat /\ v \in Nat
  BY PagesOf
<1>b. Laid(u, p, g, v, d)
  BY SplitIsLaid
<1> HIDE DEF p, u, n, pty, d, dbar, g, v
<1>3. /\ DOMAIN u = Needed \cup {"avnumproc"} /\ u = [r \in DOMAIN u |-> u[r]]
      /\ \A r \in {"numproc", "numtcpsock", "numothersock"} : u[r] = <<n, n>>
      /\ u["avnumproc"] = <<p.avn, p.avn>> /\ u["numpty"] = <<pty, pty>>
      /\ \A r \in {"vmguarpages", "oomguarpages"} : u[r] = <<g, MaxLong>>
      /\ u["kmemsize"] = <<p.kmem, p.kmem + p.kmem \div 10>>
      /\ u["tcpsndbuf"] = p.tcpsnd /\ u["tcprcvbuf"] = p.tcprcv
      /\ u["othersockbuf"] = p.other /\ u["dgramrcvbuf"] = <<p.dgram, p.dgram>>
      /\ u["privvmpages"] = <<v, v + v \div 10>> /\ u["physpages"] = <<0, MaxLong>>
      /\ u["numfile"] = <<p.avn * 32, p.avn * 32>> /\ u["dcachesize"] = <<dbar, d>>
  BY <1>b DEF Laid, n, pty, dbar
<1>4. /\ n \in Nat /\ p.avn \in Nat /\ p.kmem \in Nat /\ p.dgram \in Nat /\ d \in Nat
      /\ \A b \in {p.tcpsnd, p.tcprcv, p.other} : Spread(b, n)
  BY <1>1 DEF Sound, n
<1>5. /\ pty \in Nat /\ dbar \in Nat /\ dbar <= d
  <2>1. pty \in Nat
    BY <1>4 DEF pty, Ptys, Limits!Smaller, Limits!Larger
  <2>2. dbar \in Nat /\ dbar <= d
    <3> DEFINE a == d \div 103
               b == d % 103
    <3>1. a \in Nat /\ b \in Nat /\ d = 103 * a + b
      BY <1>4
    <3>2. dbar = a * 100 + (b * 100) \div 103
      BY DEF dbar, DcacheBar
    <3> HIDE DEF a, b
    <3>3. (b * 100) \div 103 \in Nat /\ (b * 100) \div 103 <= b
      BY <3>1
    <3> QED
      BY <3>1, <3>2, <3>3
  <2> QED
    BY <2>1, <2>2
<1>6. \A r \in DOMAIN u : u[r][1] * 2 <= MaxLong
  BY <1>0 DEF Roomy
<1>7. n * 32768 <= MaxLong
  <2>1. AtMost(u, "numproc", 32768)
    BY <1>0 DEF Roomy, Counts
  <2>2. Limits!Larger(u["numproc"][1], u["numproc"][2]) = n
    BY <1>3, <1>4 DEF Limits!Larger
  <2> QED
    BY <2>1, <2>2 DEF AtMost
<1>8. d * 6 <= MaxLong
  <2>1. AtMost(u, "dcachesize", 6)
    BY <1>0 DEF Roomy
  <2>2. Limits!Larger(u["dcachesize"][1], u["dcachesize"][2]) = d
    <3>1. u["dcachesize"] = <<dbar, d>> /\ d \in Nat /\ dbar \in Nat /\ dbar <= d
      BY <1>3, <1>4, <1>5
    <3> QED
      BY <3>1 DEF Limits!Larger
  <2> QED
    BY <2>1, <2>2 DEF AtMost
<1>a. ASSUME NEW r \in DOMAIN u, NEW x \in Nat, NEW y \in Nat, u[r] = <<x, y>>,
             y <= 2 * x \/ y <= MaxLong
      PROVE  u[r] \in (0..MaxLong) \X (0..MaxLong)
  <2>1. x * 2 <= MaxLong
    BY <1>6, <1>a
  <2>2. x \in 0..MaxLong /\ y \in 0..MaxLong
    BY <1>0, <1>a, <2>1
  <2> QED
    BY <1>a, <2>2
<1>9. ASSUME NEW r \in DOMAIN u
      PROVE  u[r] \in (0..MaxLong) \X (0..MaxLong)
  <2> SUFFICES \E x \in Nat, y \in Nat : u[r] = <<x, y>> /\ (y <= 2 * x \/ y <= MaxLong)
    BY <1>a
  <2>1. CASE r \in {"numproc", "numtcpsock", "numothersock"}
    <3>1. u[r] = <<n, n>> /\ n <= 2 * n
      BY <1>3, <1>4, <2>1
    <3> QED
      BY <1>4, <3>1
  <2>2. CASE r = "avnumproc"
    <3>1. u[r] = <<p.avn, p.avn>> /\ p.avn <= 2 * p.avn
      BY <1>3, <1>4, <2>2
    <3> QED
      BY <1>4, <3>1
  <2>3. CASE r = "numpty"
    <3>1. u[r] = <<pty, pty>> /\ pty <= 2 * pty
      BY <1>3, <1>5, <2>3
    <3> QED
      BY <1>5, <3>1
  <2>4. CASE r \in {"vmguarpages", "oomguarpages"}
    <3>1. u[r] = <<g, MaxLong>> /\ MaxLong <= MaxLong
      BY <1>0, <1>3, <2>4
    <3> QED
      BY <1>0, <1>2, <3>1
  <2>5. CASE r = "kmemsize"
    <3>1. u[r] = <<p.kmem, p.kmem + p.kmem \div 10>>
      BY <1>3, <2>5
    <3>2. p.kmem + p.kmem \div 10 <= 2 * p.kmem /\ p.kmem + p.kmem \div 10 \in Nat
      BY <1>4
    <3> QED
      BY <1>4, <3>1, <3>2
  <2>6. CASE r \in SockBufs
    <3>1. u[r] \in {p.tcpsnd, p.tcprcv, p.other}
      BY <1>3, <2>6 DEF SockBufs
    <3>3. /\ u[r] = <<u[r][1], u[r][2]>> /\ u[r][1] \in Nat /\ u[r][2] \in Nat
          /\ u[r][2] <= u[r][1] + 4096 * n
      <4>1. Spread(u[r], n)
        BY <1>4, <3>1
      <4> QED
        BY <4>1 DEF Spread
    <3> DEFINE x == u[r][1]
               y == u[r][2]
    <3>4. x \in Nat /\ y \in Nat /\ y <= x + 4096 * n /\ x * 2 <= MaxLong /\ u[r] = <<x, y>>
      BY <1>6, <3>3
    <3> HIDE DEF x, y
    <3>5. y <= MaxLong
      BY <1>0, <1>4, <1>7, <3>4
    <3> QED
      BY <3>4, <3>5
  <2>7. CASE r = "dgramrcvbuf"
    <3>1. u[r] = <<p.dgram, p.dgram>> /\ p.dgram <= 2 * p.dgram
      BY <1>3, <1>4, <2>7
    <3> QED
      BY <1>4, <3>1
  <2>8. CASE r = "privvmpages"
    <3>1. u[r] = <<v, v + v \div 10>>
      BY <1>3, <2>8
    <3>2. v + v \div 10 <= 2 * v /\ v + v \div 10 \in Nat
      BY <1>2
    <3> QED
      BY <1>2, <3>1, <3>2
  <2>9. CASE r = "physpages"
    <3>1. u[r] = <<0, MaxLong>> /\ MaxLong <= MaxLong
      BY <1>0, <1>3, <2>9
    <3> QED
      BY <1>0, <3>1
  <2>10. CASE r = "numfile"
    <3>1. u[r] = <<p.avn * 32, p.avn * 32>> /\ p.avn * 32 \in Nat /\ p.avn * 32 <= 2 * (p.avn * 32)
      BY <1>3, <1>4, <2>10
    <3> QED
      BY <3>1
  <2>11. CASE r = "dcachesize"
    <3>1. u[r] = <<dbar, d>>
      BY <1>3, <2>11
    <3>2. d <= MaxLong
      BY <1>0, <1>4, <1>8
    <3> QED
      BY <1>4, <1>5, <3>1, <3>2
  <2> QED
    BY <1>3, <2>1, <2>2, <2>3, <2>4, <2>5, <2>6, <2>7, <2>8, <2>9, <2>10, <2>11
       DEF Needed, Counts, Buffers, Sizes, SockBufs
<1>10. IsConf(u)
  BY <1>3, <1>9 DEF IsConf, IsOf
<1> QED
  BY <1>0, <1>3, <1>10 DEF u

(* The rules accept it: only what is received may be given too little.     *)
LEMMA LaidIsValid ==
  ASSUME NEW h, IsHost(h), NEW w, IsConf(w), DOMAIN w = DOMAIN Limits!Split(h),
         \A r \in DOMAIN w \ {"tcprcvbuf"} : w[r] = Limits!Split(h)[r],
         Bar(w, "tcprcvbuf") >= 65536,
         Bar(w, "tcprcvbuf") + Gap(w, "tcprcvbuf") <= Lim(w, "tcprcvbuf")
  PROVE  Limits!Valid(w)
<1> DEFINE p == Limits!Part(h)
           u == Limits!Split(h)
           n == p.np
           a == p.avn
           pty == Ptys(n)
           d == Limits!Dcache(h)
           g == Limits!Guarpg(h)
           v == Limits!Privvm(h)
<1>0. MaxLong \in Nat
  BY HostsAssumption
<1>1. Sound(p, d, FALSE) /\ Laid(u, p, g, v, d)
  BY PartIsSound, SplitIsLaid DEF Sound
<1>2. g \in Nat /\ v \in Nat /\ g <= v
  BY PagesOf
<1> HIDE DEF p, u, d, g, v
<1>3. /\ n \in Nat /\ a \in Nat /\ p.kmem \in Nat /\ p.dgram \in Nat /\ d \in Nat
      /\ p.dgram >= 32768 /\ a * 32 >= 2 * n + pty
      /\ d >= a * 32 * 384 /\ p.kmem >= 40960 * a + d
      /\ p.tcpsnd[1] >= 65536 /\ p.other[1] >= 32768
      /\ p.tcpsnd[1] + 2560 * n <= p.tcpsnd[2] /\ p.other[1] + 2560 * n <= p.other[2]
  BY <1>1 DEF Sound, Ptys
<1>4. Spread(p.tcpsnd, n) /\ Spread(p.other, n)
  BY <1>1 DEF Sound
<1>5. DOMAIN w = Needed \cup {"avnumproc"} /\ \A r \in DOMAIN w \ {"tcprcvbuf"} : w[r] = u[r]
  BY <1>1 DEF Laid, u
<1> HIDE DEF n, a, pty
<1>6. /\ \A r \in {"numproc", "numtcpsock", "numothersock"} : w[r] = <<n, n>>
      /\ w["avnumproc"] = <<a, a>> /\ w["numpty"] = <<pty, pty>>
      /\ \A r \in {"vmguarpages", "oomguarpages"} : w[r] = <<g, MaxLong>>
      /\ w["kmemsize"] = <<p.kmem, p.kmem + p.kmem \div 10>>
  BY <1>1, <1>5 DEF Laid, Needed, Counts, Sizes, n, a, pty
<1>7. /\ w["tcpsndbuf"] = p.tcpsnd
      /\ w["othersockbuf"] = p.other /\ w["dgramrcvbuf"] = <<p.dgram, p.dgram>>
      /\ w["privvmpages"] = <<v, v + v \div 10>> /\ w["physpages"] = <<0, MaxLong>>
      /\ w["numfile"] = <<a * 32, a * 32>> /\ w["dcachesize"] = <<DcacheBar(d), d>>
  BY <1>1, <1>5 DEF Laid, Needed, Buffers, Sizes, a
<1>8. pty \in Nat
  BY <1>3 DEF pty, Ptys, Limits!Smaller, Limits!Larger
<1>9. IsOf(w, Nat) /\ \A r \in DOMAIN w : Bar(w, r) \in Nat /\ Lim(w, r) \in Nat
  BY ConfFields
<1>10. ASSUME NEW r \in DOMAIN w
       PROVE  Levelled(w[r], r) = w[r]
  <2>1. CASE r \in Limits!Equal
    <3>1. Bar(w, r) = Lim(w, r)
      BY <1>6, <1>7, <2>1 DEF Limits!Equal, Bar, Lim
    <3>2. r \notin Limits!Ordered \cup Limits!Guarantees \cup {"physpages"}
      BY <2>1 DEF Limits!Equal, Limits!Ordered, Limits!Guarantees
    <3> QED
      BY <3>1, <3>2, LevelledAlready
  <2>2. CASE r \in Limits!Ordered
    <3>1. Bar(w, r) <= Lim(w, r)
      <4>1. CASE r = "kmemsize"
        BY <1>3, <1>6, <4>1 DEF Bar, Lim
      <4>2. CASE r = "tcpsndbuf"
        BY <1>4, <1>7, <4>2 DEF Bar, Lim, Spread
      <4>3. CASE r = "othersockbuf"
        BY <1>4, <1>7, <4>3 DEF Bar, Lim, Spread
      <4>4. CASE r = "tcprcvbuf"
        <5>1. Gap(w, r) \in Nat
          BY <1>0, <1>9, <4>4, Askings DEF Buffers
        <5> QED
          BY <1>9, <4>4, <5>1
      <4>5. CASE r = "dgramrcvbuf"
        BY <1>3, <1>7, <4>5 DEF Bar, Lim
      <4>6. CASE r = "privvmpages"
        BY <1>2, <1>7, <4>6 DEF Bar, Lim
      <4>7. CASE r = "dcachesize"
        <5> DEFINE x == d \div 103
                   y == d % 103
        <5>1. x \in Nat /\ y \in Nat /\ d = 103 * x + y
          BY <1>3
        <5>2. DcacheBar(d) = x * 100 + (y * 100) \div 103
          BY DEF DcacheBar
        <5> HIDE DEF x, y
        <5>3. (y * 100) \div 103 \in Nat /\ (y * 100) \div 103 <= y
          BY <5>1
        <5>4. DcacheBar(d) <= d
          BY <5>1, <5>2, <5>3
        <5> QED
          BY <1>7, <4>7, <5>4 DEF Bar, Lim
      <4> QED
        BY <2>2, <4>1, <4>2, <4>3, <4>4, <4>5, <4>6, <4>7 DEF Limits!Ordered
    <3>2. r \notin Limits!Equal \cup Limits!Guarantees \cup {"physpages"}
      BY <2>2 DEF Limits!Equal, Limits!Ordered, Limits!Guarantees
    <3> QED
      BY <3>1, <3>2, LevelledAlready
  <2>3. CASE r \in Limits!Guarantees
    <3>1. Lim(w, r) = MaxLong
      BY <1>6, <2>3 DEF Limits!Guarantees, Lim
    <3>2. r \notin Limits!Equal \cup Limits!Ordered \cup {"physpages"}
      BY <2>3 DEF Limits!Equal, Limits!Ordered, Limits!Guarantees
    <3> QED
      BY <3>1, <3>2, LevelledAlready
  <2>4. CASE r \notin Limits!Equal \cup Limits!Ordered \cup Limits!Guarantees
    <3>1. r = "physpages" => w[r] = <<0, MaxLong>>
      BY <1>7
    <3>2. /\ r \in Limits!Equal => Bar(w, r) = Lim(w, r)
          /\ r \in Limits!Ordered => Bar(w, r) <= Lim(w, r)
          /\ r \in Limits!Guarantees => Lim(w, r) = MaxLong
      BY <2>4
    <3> QED
      BY <3>1, <3>2, LevelledAlready
  <2> QED
    BY <2>1, <2>2, <2>3, <2>4
<1>11. /\ Bar(w, "vmguarpages") = g /\ Bar(w, "privvmpages") = v
       /\ Bar(w, "tcpsndbuf") = p.tcpsnd[1] /\ Lim(w, "tcpsndbuf") = p.tcpsnd[2]
       /\ Bar(w, "othersockbuf") = p.other[1] /\ Lim(w, "othersockbuf") = p.other[2]
       /\ Bar(w, "dgramrcvbuf") = p.dgram /\ Bar(w, "numfile") = a * 32
       /\ Lim(w, "dcachesize") = d /\ Bar(w, "kmemsize") = p.kmem
       /\ Bar(w, "numtcpsock") = n /\ Bar(w, "numothersock") = n /\ Bar(w, "numpty") = pty
  BY <1>6, <1>7 DEF Bar, Lim
<1>12. Limits!Avnumproc(w) = a
  BY <1>5, <1>6 DEF Limits!Avnumproc, Limits!Bar
<1>13. ASSUME NEW r \in {"tcpsndbuf", "othersockbuf"}
       PROVE  Bar(w, r) + Gap(w, r) <= Lim(w, r)
  <2>1. Gap(w, r) = Limits!Masked(2560 * n)
    BY <1>11 DEF Gap
  <2>2. 2560 * n \in Nat
    BY <1>3
  <2>3. Limits!Masked(2560 * n) <= 2560 * n /\ Limits!Masked(2560 * n) \in Nat
    BY <1>0, <2>2, LongRange
  <2>4. Bar(w, r) \in Nat /\ Lim(w, r) \in Nat
    BY <1>5, <1>9 DEF Needed, Buffers
  <2>5. Bar(w, r) + 2560 * n <= Lim(w, r)
    BY <1>3, <1>11
  <2> DEFINE x == Bar(w, r)
             y == Lim(w, r)
             z == Limits!Masked(2560 * n)
  <2>6. x \in Nat /\ y \in Nat /\ z \in Nat /\ z <= 2560 * n /\ x + 2560 * n <= y
    BY <2>3, <2>4, <2>5
  <2> HIDE DEF x, y, z
  <2>7. x + z <= y
    BY <1>3, <2>6
  <2> QED
    BY <2>1, <2>7 DEF x, y, z
<1>14. Files(w) <= a * 32
  <2> DEFINE m == Limits!Larger(a * 32, n + n + pty)
  <2>1. m = a * 32 /\ m \in Nat
    BY <1>3, <1>8 DEF Limits!Larger
  <2>2. Files(w) = Limits!Masked(m)
    BY <1>11, <1>12 DEF Files
  <2> HIDE DEF m
  <2> QED
    BY <2>1, <2>2, LongRange
<1>15. Dentries(w) <= d
  <2>1. a * 32 * 384 \in Nat /\ Dentries(w) = Limits!Masked(a * 32 * 384)
    BY <1>3, <1>11 DEF Dentries
  <2>2. Limits!Masked(a * 32 * 384) <= a * 32 * 384 /\ Limits!Masked(a * 32 * 384) \in Nat
    BY <1>0, <2>1, LongRange
  <2> QED
    BY <1>3, <2>1, <2>2
<1>16. Kmem(w) <= p.kmem
  <2> DEFINE m == 40 * 1024 * a + d
  <2>1. m \in Nat /\ m <= p.kmem
    BY <1>3
  <2>2. Kmem(w) = Limits!Masked(m)
    BY <1>11, <1>12 DEF Kmem
  <2> HIDE DEF m
  <2>3. Limits!Masked(m) <= m /\ Limits!Masked(m) \in Nat
    BY <1>0, <2>1, LongRange
  <2> QED
    BY <1>3, <2>1, <2>2, <2>3
<1>17. /\ Files(w) \in Nat /\ Dentries(w) \in Nat /\ Kmem(w) \in Nat
  BY <1>0, <1>9, Askings
<1>18. Shaped(w)
  <2>1. \A r \in SockBufs : Bar(w, r) + Gap(w, r) <= Lim(w, r)
    BY <1>13 DEF SockBufs
  <2>2. /\ \A r \in {"tcpsndbuf", "tcprcvbuf"} : Bar(w, r) >= 65536
        /\ \A r \in {"othersockbuf", "dgramrcvbuf"} : Bar(w, r) >= 32768
    BY <1>3, <1>11
  <2>3. Bar(w, "numfile") >= Files(w)
    BY <1>3, <1>11, <1>14, <1>17
  <2>4. Bar(w, "vmguarpages") <= Bar(w, "privvmpages")
    BY <1>2, <1>11
  <2> QED
    BY <1>10, <2>1, <2>2, <2>3, <2>4 DEF Shaped
<1>19. Backed(w)
  BY <1>3, <1>11, <1>15, <1>16, <1>17 DEF Backed
<1> QED
  BY <1>18, <1>19, Accepting

LEMMA SplitAccepted ==
  ASSUME NEW h, IsHost(h)
  PROVE  Limits!Valid(IF Limits!Shortage(h) THEN Limits!TcpRcvGap(Limits!Split(h)) ELSE Limits!Split(h))
<1> DEFINE u == Limits!Split(h)
           p == Limits!Part(h)
           n == p.np
           z == Gap(u, "tcprcvbuf")
<1>0. MaxLong \in Nat /\ IsConf(u) /\ Roomy(u)
  BY SplitConf, HostsAssumption
<1>1. Sound(p, Limits!Dcache(h), ~Limits!Shortage(h))
  BY PartIsSound
<1>2. Laid(u, p, Limits!Guarpg(h), Limits!Privvm(h), Limits!Dcache(h))
  BY SplitIsLaid
<1>3. IsOf(u, Nat) /\ "tcprcvbuf" \in DOMAIN u /\ "numtcpsock" \in DOMAIN u
  BY <1>0, ConfFields DEF Needed, Counts, Buffers
<1> HIDE DEF u, p, n
<1>4. u["tcprcvbuf"] = p.tcprcv /\ u["numtcpsock"] = <<n, n>>
  BY <1>2 DEF Laid, n
<1>5. n \in Nat /\ Spread(p.tcprcv, n) /\ p.tcprcv[1] >= 65536
        /\ (~Limits!Shortage(h) => p.tcprcv[1] + 2560 * n <= p.tcprcv[2])
  BY <1>1 DEF Sound, n
<1> DEFINE x == p.tcprcv[1]
           y == p.tcprcv[2]
<1>6. /\ x \in Nat /\ y \in Nat /\ x <= y /\ y <= MaxLong /\ u["tcprcvbuf"] = <<x, y>>
      /\ x >= 65536
  <2>1. x \in Nat /\ y \in Nat /\ x <= y /\ p.tcprcv = <<x, y>>
    BY <1>5 DEF Spread
  <2>2. Lim(u, "tcprcvbuf") <= MaxLong
    BY <1>0, <1>3, ConfFields
  <2> QED
    BY <1>4, <1>5, <2>1, <2>2 DEF Lim
<1>7. z \in Nat /\ z <= 2560 * n
  <2>1. z = Limits!Masked(2560 * n)
    BY <1>4 DEF Gap, Bar
  <2>2. 2560 * n \in Nat
    BY <1>5
  <2> QED
    BY <1>0, <2>1, <2>2, LongRange
<1>8. x + z <= MaxLong
  <2>1. Repairable(u) /\ Limits!BarrierAndLimit(u)["numtcpsock"] = u["numtcpsock"]
    <3>1. Repairable(u)
      BY <1>0, RoomyRepairable
    <3>2. Levelled(u["numtcpsock"], "numtcpsock") = u["numtcpsock"]
      <4>1. "numtcpsock" \notin Limits!Ordered \cup Limits!Guarantees \cup {"physpages"}
        BY DEF Limits!Ordered, Limits!Guarantees
      <4>2. Bar(u, "numtcpsock") = Lim(u, "numtcpsock")
        BY <1>4 DEF Bar, Lim
      <4> QED
        BY <1>0, <1>3, <4>1, <4>2, LevelledAlready
    <3> QED
      BY <1>3, <3>1, <3>2, LevelAll
  <2>2. Gap(Limits!BarrierAndLimit(u), "tcprcvbuf") = z
    BY <2>1 DEF Gap, Bar
  <2>3. Limits!Larger(Bar(u, "tcprcvbuf"), 132096) + z <= MaxLong
    BY <2>1, <2>2 DEF Repairable, SockBufs
  <2>4. Bar(u, "tcprcvbuf") = x
    BY <1>6 DEF Bar
  <2> HIDE DEF x, z
  <2>5. x \in Nat /\ z \in Nat /\ Limits!Larger(x, 132096) + z <= MaxLong
    BY <1>6, <1>7, <2>3, <2>4
  <2> QED
    BY <1>0, <2>5 DEF Limits!Larger
<1> HIDE DEF x, y, z
<1>9. CASE ~Limits!Shortage(h)
  <2>1. Bar(u, "tcprcvbuf") = x /\ Lim(u, "tcprcvbuf") = y
    BY <1>6 DEF Bar, Lim
  <2>2. x + z <= y
    <3>1. x + 2560 * n <= y
      BY <1>5, <1>9 DEF x, y
    <3> QED
      BY <1>5, <1>6, <1>7, <3>1
  <2>3. Limits!Valid(u)
    BY <1>0, <1>6, <2>1, <2>2, LaidIsValid DEF u, z
  <2> QED
    BY <1>9, <2>3 DEF u
<1>10. CASE Limits!Shortage(h)
  <2> DEFINE w == Limits!TcpRcvGap(u)
  <2>1. PICK l \in Nat : Gapped(<<x, y>>, z) = <<x, l>> /\ x + z <= l /\ l <= MaxLong
    BY <1>6, <1>7, <1>8, GappedLimit
  <2>2. /\ IsOf(w, Nat) /\ DOMAIN w = DOMAIN u /\ w["tcprcvbuf"] = Gapped(u["tcprcvbuf"], z)
        /\ \A r \in DOMAIN u \ {"tcprcvbuf"} : w[r] = u[r]
    <3>1. "tcprcvbuf" \in Buffers /\ "numtcpsock" \in Counts
      BY DEF Buffers, Counts
    <3>2. Limits!Masked(2560 * Bar(u, "numtcpsock")) = z
      BY DEF z, Gap
    <3>3. w = Limits!Gap(u, "tcprcvbuf", "numtcpsock")
      BY DEF Limits!TcpRcvGap
    <3> QED
      BY <1>3, <3>1, <3>2, <3>3, GapOne
  <2> HIDE DEF w
  <2>3. w["tcprcvbuf"] = <<x, l>>
    BY <1>6, <2>1, <2>2
  <2>4. IsConf(w)
    <3>1. <<x, l>> \in (0..MaxLong) \X (0..MaxLong)
      BY <1>0, <1>6, <2>1
    <3> QED
      BY <1>0, <2>2, <2>3, <3>1 DEF IsConf, IsOf
  <2>5. Gap(w, "tcprcvbuf") = z
    <3>1. w["numtcpsock"] = u["numtcpsock"]
      BY <1>3, <2>2
    <3> QED
      BY <3>1 DEF Gap, Bar, z
  <2>6. Bar(w, "tcprcvbuf") >= 65536 /\ Bar(w, "tcprcvbuf") + Gap(w, "tcprcvbuf") <= Lim(w, "tcprcvbuf")
    BY <1>6, <2>1, <2>3, <2>5 DEF Bar, Lim
  <2>7. Limits!Valid(w)
    BY <2>2, <2>4, <2>6, LaidIsValid DEF u
  <2> QED
    BY <1>10, <2>7 DEF u, w
<1> QED
  BY <1>9, <1>10

-----------------------------------------------------------------------------
(* Each command finds limits whose gaps fit in a long: as long as nobody   *)
(* has edited them with room for an edit, and after a repair with at most  *)
(* the memory rules to complain.                                           *)
UbcInv ==
  /\ IsHost(host) /\ edits \in 0..1 /\ repairs \in 0..2
  /\ Repairable(ub)
  /\ edits = 0 => Roomy(ub) /\ "avnumproc" \in DOMAIN ub
  /\ edits = 0 /\ repairs = 0 => ub = Limits!Split(host)
  /\ repairs >= 1 => Shaped(ub)
  /\ repairs = 2 => Backed(ub)

LEMMA UbcInit == Limits!Init => UbcInv
<1> SUFFICES ASSUME Limits!Init PROVE UbcInv
  OBVIOUS
<1>1. IsHost(host) /\ ub = Limits!Split(host) /\ edits = 0 /\ repairs = 0
  BY DEF Limits!Init, IsHost
<1>2. IsConf(ub) /\ Roomy(ub) /\ "avnumproc" \in DOMAIN ub
  BY <1>1, SplitConf
<1> QED
  BY <1>1, <1>2, RoomyRepairable DEF UbcInv

LEMMA RepairStep ==
  ASSUME UbcInv, Limits!Repair
  PROVE  UbcInv'
<1>1. /\ repairs < 2 /\ repairs' = repairs + 1 /\ ub' = Pass(ub)
      /\ UNCHANGED <<host, edits>>
  BY DEF Limits!Repair, Pass
<1>2. Repairable(ub) /\ IsConf(ub) /\ repairs \in 0..2
  BY DEF UbcInv, Repairable
<1>3. Repairable(ub') /\ Shaped(ub')
  BY <1>1, <1>2, PassShapes
<1>4. edits = 0 => Roomy(ub') /\ "avnumproc" \in DOMAIN ub'
  <2> SUFFICES ASSUME edits = 0 PROVE Roomy(ub') /\ "avnumproc" \in DOMAIN ub'
    OBVIOUS
  <2>1. Roomy(ub) /\ "avnumproc" \in DOMAIN ub
    BY DEF UbcInv
  <2>2. DOMAIN Pass(ub) = DOMAIN ub
    BY <1>2, PassOf
  <2> QED
    BY <1>1, <1>2, <2>1, <2>2, PassRoomy
<1>5. repairs' = 2 => Backed(ub')
  <2> SUFFICES ASSUME repairs' = 2 PROVE Backed(ub')
    OBVIOUS
  <2>1. Shaped(ub)
    BY <1>1, <1>2 DEF UbcInv
  <2> QED
    BY <1>1, <1>2, <2>1, PassBacks
<1>6. repairs' \in 0..2 /\ repairs' # 0
  BY <1>1, <1>2
<1> QED
  BY <1>1, <1>3, <1>4, <1>5, <1>6 DEF UbcInv

LEMMA EditStep ==
  ASSUME UbcInv, Limits!Edit
  PROVE  UbcInv'
<1>0. MaxLong \in Nat
  BY HostsAssumption
<1>1. edits = 0 /\ edits' = 1 /\ repairs' = 0 /\ host' = host
  BY DEF Limits!Edit, UbcInv
<1>2. IsConf(ub) /\ Roomy(ub)
  BY <1>1 DEF UbcInv, Repairable
<1>3. \A r \in DOMAIN ub : /\ ub[r] = <<Bar(ub, r), Lim(ub, r)>>
                          /\ Bar(ub, r) \in Nat /\ Bar(ub, r) * 2 <= MaxLong
                          /\ Lim(ub, r) \in Nat /\ Lim(ub, r) <= MaxLong
  BY <1>2, ConfFields, RoomFields
<1>4. ASSUME NEW r \in DOMAIN ub, NEW v \in Limits!Values(ub[r]), ub' = [ub EXCEPT ![r] = v]
      PROVE  Repairable(ub')
  <2> DEFINE x == Bar(ub, r)
             y == Lim(ub, r)
             t == Top(ub, r)
  <2>1. x \in Nat /\ x * 2 <= MaxLong /\ y \in Nat /\ y <= MaxLong
    BY <1>3
  <2>2. x <= t /\ y <= t /\ t \in Nat
    BY <2>1 DEF Top, Bar, Lim, Limits!Larger
  <2>3. v \in {<<x \div 2, y>>, <<x, 2 * Limits!Smaller(y, MaxLong \div 2)>>, <<2 * x, 2 * x>>, <<2 * x, y>>}
    BY <1>4 DEF Limits!Values, Bar, Lim
  <2> HIDE DEF x, y, t
  <2>4. \E a \in Nat, b \in Nat : /\ v = <<a, b>> /\ a <= MaxLong /\ b <= MaxLong
                                /\ a <= 2 * x /\ b <= 2 * t
    <3>1. CASE v = <<x \div 2, y>>
      <4>1. x \div 2 \in Nat /\ x \div 2 <= MaxLong /\ x \div 2 <= 2 * x /\ y <= 2 * t
        BY <1>0, <2>1, <2>2
      <4> QED
        BY <2>1, <3>1, <4>1
    <3>2. CASE v = <<x, 2 * Limits!Smaller(y, MaxLong \div 2)>>
      <4> DEFINE z == 2 * Limits!Smaller(y, MaxLong \div 2)
      <4>1. z \in Nat /\ z <= MaxLong /\ z <= 2 * t
        <5>1. MaxLong \div 2 \in Nat /\ 2 * (MaxLong \div 2) <= MaxLong
          BY <1>0
        <5> QED
          BY <1>0, <2>1, <2>2, <5>1 DEF Limits!Smaller
      <4>2. x <= MaxLong /\ x <= 2 * x
        BY <1>0, <2>1
      <4> HIDE DEF z
      <4>3. v = <<x, z>>
        BY <3>2 DEF z
      <4> QED
        BY <2>1, <4>1, <4>2, <4>3
    <3>3. CASE v = <<2 * x, 2 * x>>
      <4>1. 2 * x \in Nat /\ 2 * x <= MaxLong /\ 2 * x <= 2 * t
        BY <1>0, <2>1, <2>2
      <4> QED
        BY <3>3, <4>1
    <3>4. CASE v = <<2 * x, y>>
      <4>1. 2 * x \in Nat /\ 2 * x <= MaxLong /\ y <= 2 * t
        BY <1>0, <2>1, <2>2
      <4> QED
        BY <2>1, <3>4, <4>1
    <3> QED
      BY <2>3, <3>1, <3>2, <3>3, <3>4
  <2>5. PICK a \in Nat, b \in Nat : /\ v = <<a, b>> /\ a <= MaxLong /\ b <= MaxLong
                                  /\ a <= 2 * x /\ b <= 2 * t
    BY <2>4
  <2>6. Repairable([ub EXCEPT ![r] = <<a, b>>])
    BY <1>2, <2>5, EditedRoom DEF x, t
  <2> QED
    BY <1>4, <2>5, <2>6
<1>5. ASSUME NEW r \in Limits!Ordered, ub' = [ub EXCEPT ![r] = <<0, MaxLong>>]
      PROVE  Repairable(ub')
  <2>1. r \in DOMAIN ub /\ r \notin Counts
    BY <1>2, ConfFields DEF Limits!Ordered, Needed, Counts, Buffers, Sizes
  <2>2. 0 <= 2 * Bar(ub, r) /\ 0 <= MaxLong /\ 0 \in Nat /\ MaxLong <= MaxLong
    BY <1>0, <1>3, <2>1
  <2>3. Repairable([ub EXCEPT ![r] = <<0, MaxLong>>])
    BY <1>0, <1>2, <2>1, <2>2, EditedRoom
  <2> QED
    BY <1>5, <2>3
<1>6. ASSUME ub' = [r \in DOMAIN ub \ {"avnumproc"} |-> ub[r]]
      PROVE  Repairable(ub')
  BY <1>2, <1>6, ForgottenRoom
<1>7. Repairable(ub')
  BY <1>4, <1>5, <1>6 DEF Limits!Edit
<1> QED
  BY <1>1, <1>7 DEF UbcInv

LEMMA UbcStep == UbcInv /\ [Limits!Next]_ubcVars => UbcInv'
<1>1. CASE UNCHANGED ubcVars
  BY <1>1 DEF ubcVars, UbcInv
<1>2. CASE Limits!Next
  BY <1>2, RepairStep, EditStep DEF Limits!Next
<1> QED
  BY <1>1, <1>2

(* vzcfgvalidate, which knows the rules between the limits by itself,      *)
(* accepts what vzsplit makes of any host, up to the receive buffers of a  *)
(* host short of memory, and what it has repaired itself for the second    *)
(* time, whatever was changed by hand in between.                          *)
THEOREM SplitPassesValidation == SettingsSpec => []LimitsAccepted
<1>1. SettingsInit => UbcInv
  BY UbcInit DEF SettingsInit
<1>2. UbcInv /\ [SettingsNext]_allVars => UbcInv'
  <2>1. [SettingsNext]_allVars => [Limits!Next]_ubcVars
    BY DEF SettingsNext, allVars, ConvertNext, ConfNext, FormsNext, LimitsNext, ByNameNext,
           ByModeNext
  <2> QED
    BY <2>1, UbcStep
<1>3. UbcInv => LimitsAccepted
  <2> SUFFICES ASSUME UbcInv PROVE Limits!SplitIsValid /\ Limits!RepairSettles
    BY DEF LimitsAccepted, Limits!LimitsAccepted
  <2>1. Limits!SplitIsValid
    BY SplitAccepted DEF Limits!SplitIsValid, UbcInv
  <2>2. Limits!RepairSettles
    BY Accepting DEF Limits!RepairSettles, UbcInv, Repairable
  <2> QED
    BY <2>1, <2>2
<1> QED
  BY <1>1, <1>2, <1>3, PTL DEF SettingsSpec

-----------------------------------------------------------------------------
(* The forms of parameters.                                                *)

InProportion ==
  /\ Page \in Nat /\ Kilo \in Nat /\ NumCpu \in Nat /\ NBits \in Nat /\ PerLong \in Nat
  /\ MaxWords \in Nat /\ FormRuns \in Nat /\ Percent \in Nat /\ IntMax \in Nat /\ LongMax \in Nat
  /\ Kilo > 0 /\ NumCpu > 0 /\ NBits > 0 /\ PerLong > 0 /\ MaxWords > 0
  /\ IntMax <= LongMax /\ NumCpu * Percent <= IntMax /\ 2 <= Page /\ Page <= LongMax + 1
  /\ Amounts \subseteq 0..(2 * LongMax + 1)

\* What the assumption on the constants is used for.
LEMMA SizesHold == InProportion /\ Amounts \subseteq Nat
BY FormsAssumption DEF InProportion

\* Nothing is none of what a parameter is kept as.
LEMMA NoneIsNothing == None \notin Kept /\ None \notin Nat
BY FormsAssumption DEF Kept

\* A word for a number; a pair of numbers.
Word == [n : Nat, sfx : {"", "K", "P", "unlimited"}]

\* A word of Numbers is an amount with a suffix.
LEMMA NumbersAre ==
  ASSUME NEW S, NEW w \in Forms!Numbers(S)
  PROVE  \E n \in Amounts, s \in S : w = Forms!N(n, s)
BY DEF Forms!Numbers

\* The words of a number; a plain one differs from "unlimited".
LEMMA WordsAre ==
  /\ Forms!Unlimited \in Word
  /\ \A x, s : Forms!N(x, s).n = x /\ Forms!N(x, s).sfx = s
  /\ \A x \in Nat : Forms!N(x, "") \in Word /\ Forms!N(x, "") # Forms!Unlimited
  /\ \A w \in Forms!Plain : w \in Word /\ (w.sfx = "unlimited" <=> w = Forms!Unlimited)
<1>1. ASSUME NEW w \in Forms!Plain
      PROVE  w \in Word /\ (w.sfx = "unlimited" <=> w = Forms!Unlimited)
  <2>1. CASE w = Forms!Unlimited
    BY <2>1 DEF Forms!N, Forms!Unlimited, Word
  <2>2. CASE w \in Forms!Numbers({"", "K", "P"})
    <3> DEFINE S == {"", "K", "P"}
    <3> HIDE DEF S
    <3>0. w \in Forms!Numbers(S)
      BY <2>2 DEF S
    <3>1. PICK n \in Amounts, s \in S : w = Forms!N(n, s)
      BY <3>0, NumbersAre
    <3> QED
      BY <3>1, SizesHold DEF S, Forms!N, Forms!Unlimited, Word
  <2> QED
    BY <2>1, <2>2 DEF Forms!Plain
<1>2. /\ Forms!Unlimited \in Word
      /\ \A x, s : Forms!N(x, s).n = x /\ Forms!N(x, s).sfx = s
  BY DEF Word, Forms!N, Forms!Unlimited
<1>3. \A x \in Nat : Forms!N(x, "") \in Word /\ Forms!N(x, "") # Forms!Unlimited
  <2> TAKE x \in Nat
  <2>1. Forms!Unlimited.sfx = "unlimited" /\ Forms!N(x, "").sfx = ""
    BY DEF Forms!N, Forms!Unlimited
  <2>2. Forms!N(x, "") \in Word
    BY DEF Forms!N, Word
  <2> QED
    BY <2>1, <2>2
<1> QED
  BY <1>1, <1>2, <1>3

\* The first, last and members of one and of two.
LEMMA PairIs ==
  ASSUME NEW a, NEW b
  PROVE  /\ Head(<<a>>) = a /\ Forms!Last(<<a>>) = a /\ Forms!ToSet(<<a>>) = {a}
         /\ Head(<<a, b>>) = a /\ Forms!Last(<<a, b>>) = b
         /\ Forms!ToSet(<<a, b>>) = {a, b}
BY DEF Forms!Last, Forms!ToSet

\* The numbers of a limit are of the set they are taken from.
LEMMA OneOrTwo ==
  ASSUME NEW S, NEW t \in Forms!OneOrTwo(S)
  PROVE  Head(t) \in S /\ Forms!Last(t) \in S
<1>1. CASE t \in Forms!One(S)
  <2>1. PICK x \in S : t = <<x>>
    BY <1>1 DEF Forms!One
  <2> QED
    BY <2>1, PairIs
<1>2. CASE t \in S \X S
  <2>1. PICK x \in S, y \in S : t = <<x, y>>
    BY <1>2
  <2> QED
    BY <2>1, PairIs
<1> QED
  BY <1>1, <1>2 DEF Forms!OneOrTwo

\* What parse_twoul_sfx() takes, it takes number by number.
LEMMA TwoUlOk ==
  ASSUME NEW t, NEW d, NEW u, Forms!TwoUl(t, d, u).code = "OK",
         Forms!UlSfx(Head(t), d, u) \in Nat \union {None},
         Forms!UlSfx(Forms!Last(t), d, u) \in Nat \union {None}
  PROVE  LET v == <<Forms!UlSfx(Head(t), d, u), Forms!UlSfx(Forms!Last(t), d, u)>>
         IN  /\ Forms!TwoUl(t, d, u).val = v
             /\ v[1] \in 0..LongMax /\ v[2] \in 0..LongMax
<1> DEFINE v == <<Forms!UlSfx(Head(t), d, u), Forms!UlSfx(Forms!Last(t), d, u)>>
<1>1. Forms!ToSet(v) = {v[1], v[2]}
  BY PairIs
<1> HIDE DEF v
<1>2. None \notin Forms!ToSet(v)
  BY DEF Forms!TwoUl, Forms!Inval, Forms!Code, v
<1>3. v[1] \in Nat /\ v[2] \in Nat
  BY <1>1, <1>2 DEF v
<1>4. ~\E x \in Forms!ToSet(v) : x > LongMax
  BY <1>2 DEF Forms!TwoUl, Forms!Code, v
<1>5. v[1] <= LongMax /\ v[2] <= LongMax
  BY <1>1, <1>3, <1>4, SizesHold DEF InProportion
<1>6. Forms!TwoUl(t, d, u).val = [i \in 1..2 |-> Forms!Lesser(v[i], LongMax)]
  BY <1>2 DEF Forms!TwoUl, Forms!Code, v
<1>7. [i \in 1..2 |-> Forms!Lesser(v[i], LongMax)] = <<v[1], v[2]>>
  BY <1>3, <1>5, SizesHold DEF InProportion, Forms!Lesser
<1>8. v = <<v[1], v[2]>>
  BY DEF v
<1> QED
  BY <1>3, <1>5, <1>6, <1>7, <1>8, SizesHold DEF v, InProportion

\* What is written is read back.
LEMMA NumbersRead ==
  ASSUME NEW a \in 0..LongMax, NEW b \in 0..LongMax, NEW d
  PROVE  /\ Forms!TwoUl(Forms!UbcStr(<<a, b>>), d, TRUE).val = <<a, b>>
         /\ Forms!TwoUl(Forms!DqStr(<<a, b>>), d, FALSE).val = <<a, b>>
<1>0. a \in Nat /\ b \in Nat /\ a <= LongMax /\ b <= LongMax /\ LongMax \in Nat
  BY SizesHold DEF InProportion
<1>1. ASSUME NEW x \in 0..LongMax
      PROVE  Forms!UlSfx(Forms!UbcWord(x), d, TRUE) = x /\ Forms!UlSfx(Forms!N(x, ""), d, FALSE) = x
  <2>1. x \in Nat
    BY <1>0
  <2> QED
    BY <2>1, WordsAre DEF Forms!UbcWord, Forms!UlSfx
<1>2. ASSUME NEW t, NEW u, Forms!UlSfx(Head(t), d, u) = a, Forms!UlSfx(Forms!Last(t), d, u) = b
      PROVE  Forms!TwoUl(t, d, u).val = <<a, b>>
  <2> DEFINE v == <<Forms!UlSfx(Head(t), d, u), Forms!UlSfx(Forms!Last(t), d, u)>>
  <2>1. v = <<a, b>> /\ Forms!ToSet(<<a, b>>) = {a, b}
    BY <1>2, PairIs
  <2>2. None \notin Forms!ToSet(v)
    BY <1>0, <2>1, NoneIsNothing
  <2>3. Forms!TwoUl(t, d, u).val = [i \in 1..2 |-> Forms!Lesser(v[i], LongMax)]
    BY <2>2 DEF Forms!TwoUl, Forms!Code
  <2> HIDE DEF v
  <2>4. [i \in 1..2 |-> Forms!Lesser(v[i], LongMax)] = <<a, b>>
    BY <1>0, <2>1 DEF Forms!Lesser
  <2> QED
    BY <2>3, <2>4
<1>3. /\ Head(Forms!UbcStr(<<a, b>>)) = Forms!UbcWord(a)
      /\ Forms!Last(Forms!UbcStr(<<a, b>>)) = Forms!UbcWord(b)
  BY PairIs DEF Forms!UbcStr
<1>4. /\ Head(Forms!DqStr(<<a, b>>)) = Forms!N(a, "")
      /\ Forms!Last(Forms!DqStr(<<a, b>>)) = Forms!N(b, "")
  BY PairIs DEF Forms!DqStr
<1> QED
  BY <1>1, <1>2, <1>3, <1>4

\* What holds of a value that was read from a line.
Held(k, p) ==
  /\ k = "CAPABILITY" => /\ p \in [on : SUBSET Forms!Caps, off : SUBSET Forms!Caps]
                         /\ p.on \intersect p.off = {}
  /\ k = "FEATURES" => /\ p \in [known : SUBSET Forms!ToSet(Forms!Features),
                                 mask : SUBSET Forms!ToSet(Forms!Features)]
                       /\ p.mask \subseteq p.known
  /\ k = "PCI" => /\ p \in [op : {"add"}, devs : SUBSET Slots]
                  /\ IsFiniteSet(p.devs)
  /\ k = "NETDEV" => p \in [op : {"add"}, devs : SUBSET {"eth0", "eth1"}]

\* The value of a parameter, as it was read, and what was asked so far.
Before(k, old, want) == \/ old = None /\ want = None
                        \/ old # None /\ Held(k, old) /\ Forms!View(k, old) = want

ReadsBack(k, t, old, want) ==
  LET v == Forms!Parse(k, t, TRUE).val
      l == Forms!Store(k, v, old)
      p == Forms!Parse(k, l, FALSE).val
  IN  v # None /\ l # None /\ p # None /\ Held(k, p) /\ Forms!View(k, p) = Forms!Meaning(k, t, want)

Taken(k, t) == t \in Forms!Texts(k) /\ Forms!Parse(k, t, TRUE).code = "OK"

\* The parser of each form that is a pair of numbers.
LEMMA ParseNumbers ==
  ASSUME NEW t, NEW c
  PROVE  /\ Forms!Parse("NUMPROC", t, c) = Forms!TwoUl(t, 0, TRUE)
         /\ Forms!Parse("PRIVVMPAGES", t, c) = Forms!TwoUl(t, Page, TRUE)
         /\ Forms!Parse("KMEMSIZE", t, c) = Forms!TwoUl(t, 1, TRUE)
         /\ Forms!Parse("PHYSPAGES", t, TRUE) = Forms!Vswap(t)
         /\ Forms!Parse("PHYSPAGES", t, FALSE) = Forms!TwoUl(t, Page, TRUE)
         /\ Forms!Parse("DISKSPACE", t, c) = Forms!Dq(t, Kilo)
         /\ Forms!Parse("DISKINODES", t, c) = Forms!Dq(t, 0)
         /\ Forms!Parse("IOLIMIT", t, TRUE) = Forms!Iolimit(t, Kilo * Kilo)
         /\ Forms!Parse("IOLIMIT", t, FALSE) = Forms!Iolimit(t, 1)
         /\ Forms!Parse("IOPSLIMIT", t, c) = Forms!Iops(t)
         /\ Forms!Parse("CPUUNITS", t, c) = Forms!Cpuunits(t)
         /\ Forms!Parse("CPULIMIT", t, c) = Forms!Cpulimit(t)
<1>1. "NUMPROC" \in Forms!UbKinds /\ "PRIVVMPAGES" \in Forms!UbKinds
      /\ "KMEMSIZE" \in Forms!UbKinds /\ "PHYSPAGES" \in Forms!UbKinds
      /\ "IOLIMIT" \in Forms!IoKinds /\ "IOPSLIMIT" \in Forms!IoKinds
  BY DEF Forms!UbKinds, Forms!IoKinds
<1>2. Forms!Mul["K"] = Kilo /\ Forms!Mul["M"] = Kilo * Kilo
  BY DEF Forms!Mul
<1>3. /\ Forms!Parse("NUMPROC", t, c) = Forms!ParseUb("NUMPROC", t, c)
      /\ Forms!Parse("PRIVVMPAGES", t, c) = Forms!ParseUb("PRIVVMPAGES", t, c)
      /\ Forms!Parse("KMEMSIZE", t, c) = Forms!ParseUb("KMEMSIZE", t, c)
      /\ \A d : Forms!Parse("PHYSPAGES", t, d) = Forms!ParseUb("PHYSPAGES", t, d)
  BY DEF Forms!Parse, Forms!UbKinds, Forms!IoKinds
<1>4. /\ \A d : Forms!Parse("IOLIMIT", t, d) = Forms!ParseIo("IOLIMIT", t, d)
      /\ Forms!Parse("IOPSLIMIT", t, c) = Forms!ParseIo("IOPSLIMIT", t, c)
  BY DEF Forms!Parse, Forms!UbKinds, Forms!IoKinds
<1>5. /\ Forms!Parse("DISKSPACE", t, c) = Forms!Dq(t, Kilo)
      /\ Forms!Parse("DISKINODES", t, c) = Forms!Dq(t, 0)
      /\ Forms!Parse("CPUUNITS", t, c) = Forms!Cpuunits(t)
      /\ Forms!Parse("CPULIMIT", t, c) = Forms!Cpulimit(t)
  BY <1>2 DEF Forms!Parse, Forms!UbKinds, Forms!IoKinds
<1> QED
  BY <1>2, <1>3, <1>4, <1>5 DEF Forms!ParseUb, Forms!ParseIo

\* The printer of each form that is a number or a pair.
LEMMA StoreNumbers ==
  ASSUME NEW v, NEW old
  PROVE  /\ \A k \in Forms!UbKinds : Forms!Store(k, v, old) = Forms!UbcStr(v)
         /\ \A k \in {"DISKSPACE", "DISKINODES"} : Forms!Store(k, v, old) = Forms!DqStr(v)
         /\ \A k \in Forms!IoKinds \union {"CPUUNITS", "CPULIMIT"} : Forms!Store(k, v, old) = <<Forms!N(v, "")>>
BY DEF Forms!Store, Forms!UbKinds, Forms!IoKinds, Forms!IoStr, Forms!UlongStr

NumKinds == Forms!UbKinds \union Forms!IoKinds \union {"DISKSPACE", "DISKINODES", "CPUUNITS", "CPULIMIT"}

\* Numbers are in memory what they mean.
LEMMA NumbersPlain ==
  ASSUME NEW k \in NumKinds, NEW v
  PROVE  Held(k, v) /\ Forms!View(k, v) = v
<1>1. Held(k, v)
  BY DEF Held, NumKinds, Forms!UbKinds, Forms!IoKinds
<1>2. Forms!View(k, v) = v
  BY DEF Forms!View, NumKinds, Forms!UbKinds, Forms!IoKinds
<1> QED
  BY <1>1, <1>2

\* Division rounds down.
LEMMA Quotient ==
  ASSUME NEW n \in Nat, NEW u \in Nat, u > 0
  PROVE  n \div u \in Nat /\ (n \div u) * u <= n /\ n < (n \div u) * u + u
<1>1. n = u * (n \div u) + (n % u) /\ n % u \in 0..(u - 1) /\ n \div u \in Int
  OBVIOUS
<1> DEFINE q == n \div u
           r == n % u
<1>2. n = u * q + r /\ r \in Nat /\ r < u /\ q \in Int
  BY <1>1
<1> HIDE DEF q, r
<1>3. q >= 0
  <2> SUFFICES ASSUME q <= -1 PROVE FALSE
    BY <1>2
  <2>1. (-1 - q) * u >= 0
    BY <1>2
  <2>2. (-1 - q) * u = -u - u * q
    BY <1>2
  <2> QED
    BY <1>2, <2>1, <2>2
<1>4. u * q = q * u
  BY <1>2
<1> QED
  BY <1>2, <1>3, <1>4 DEF q

\* A number is the quotient when it leaves less than the divisor.
LEMMA QuotientIs ==
  ASSUME NEW n \in Nat, NEW u \in Nat, NEW q \in Nat, q * u <= n, n < q * u + u
  PROVE  n \div u = q
<1>1. u > 0
  BY SMT
<1> DEFINE p == n \div u
<1>2. p \in Nat /\ p * u <= n /\ n < p * u + u
  BY <1>1, Quotient
<1> HIDE DEF p
<1>3. p <= q
  <2> SUFFICES ASSUME p >= q + 1 PROVE FALSE
    BY <1>2
  <2>1. (p - q - 1) * u >= 0
    BY <1>2
  <2>2. (p - q - 1) * u = p * u - q * u - u
    BY <1>2
  <2> QED
    BY <1>2, <2>1, <2>2
<1>4. q <= p
  <2> SUFFICES ASSUME q >= p + 1 PROVE FALSE
    BY <1>2
  <2>1. (q - p - 1) * u >= 0
    BY <1>2
  <2>2. (q - p - 1) * u = q * u - p * u - u
    BY <1>2
  <2> QED
    BY <1>2, <2>1, <2>2
<1> QED
  BY <1>2, <1>3, <1>4 DEF p

\* A multiple of a unit is divided by it without a rest.
LEMMA Whole ==
  ASSUME NEW n \in Nat, NEW u \in Nat, u > 0
  PROVE  (n * u) \div u = n
<1>1. n * u \in Nat
  OBVIOUS
<1> QED
  BY <1>1, QuotientIs

\* Lines and values of numbers are not nothing.
LEMMA NumbersKept ==
  ASSUME NEW a \in Nat, NEW b \in Nat
  PROVE  /\ a # None /\ <<a, b>> # None /\ <<Forms!N(a, "")>> # None
         /\ Forms!UbcStr(<<a, b>>) # None /\ Forms!DqStr(<<a, b>>) # None
<1>1. \A x \in Nat : Forms!N(x, "") \in Tokens /\ Forms!UbcWord(x) \in Tokens
  BY DEF Tokens, Forms!UbcWord, Forms!Unlimited, Forms!N
<1>2. \A x, y : x \in Tokens /\ y \in Tokens => <<x>> # None /\ <<x, y>> # None
  <2> TAKE x, y
  <2> HAVE x \in Tokens /\ y \in Tokens
  <2>1. <<x>> \in Seq(Tokens) /\ <<x, y>> \in Seq(Tokens)
    OBVIOUS
  <2>2. Seq(Tokens) \subseteq Kept
    BY DEF Kept
  <2> QED
    BY <2>1, <2>2, NoneIsNothing
<1>3. a \in Tokens /\ b \in Tokens /\ a # None
  BY NoneIsNothing DEF Tokens
<1> QED
  BY <1>1, <1>2, <1>3 DEF Forms!UbcStr, Forms!DqStr

\* What parse_ul_sfx() makes of a word: the number, or so many units.
LEMMA UlSfxIs ==
  ASSUME NEW w \in Forms!Plain, NEW d \in Nat, NEW u \in BOOLEAN
  PROVE  /\ Forms!UlSfx(w, d, u) \in Nat \union {None}
         /\ w = Forms!Unlimited /\ u => Forms!UlSfx(w, d, u) = LongMax
         /\ w = Forms!Unlimited /\ ~u => Forms!UlSfx(w, d, u) = None
         /\ w # Forms!Unlimited /\ w.sfx = "" => Forms!UlSfx(w, d, u) = w.n
         /\ w # Forms!Unlimited /\ w.sfx # "" /\ d = 0 => Forms!UlSfx(w, d, u) = None
         /\ w # Forms!Unlimited /\ w.sfx # "" /\ d # 0 =>
              /\ Forms!UlSfx(w, d, u) = Forms!Lesser((w.n * Forms!Mul[w.sfx]) \div d, LongMax + 1)
              /\ (w.n * Forms!Mul[w.sfx]) \div d \in Nat
<1>1. w \in Word /\ (w.sfx = "unlimited" <=> w = Forms!Unlimited)
  BY WordsAre
<1>2. w.n \in Nat /\ w.sfx \in {"", "K", "P", "unlimited"}
  BY <1>1 DEF Word
<1>3. LongMax \in Nat /\ Forms!Mul["K"] = Kilo /\ Forms!Mul["P"] = Page /\ Kilo \in Nat /\ Page \in Nat
  BY SizesHold DEF InProportion, Forms!Mul
<1>4. ASSUME w # Forms!Unlimited, w.sfx # "", NEW e \in Nat, e > 0
      PROVE  (w.n * Forms!Mul[w.sfx]) \div e \in Nat
  <2> DEFINE m == Forms!Mul[w.sfx]
             x == w.n
             p == x * m
  <2>1. m \in Nat /\ x \in Nat
    BY <1>1, <1>2, <1>3, <1>4
  <2> HIDE DEF m, x
  <2>2. p \in Nat
    BY <2>1
  <2> HIDE DEF p
  <2>4. p \div e \in Nat
    BY e > 0, <2>2, Quotient
  <2> QED
    BY <2>4 DEF p, m, x
<1>5. \A x \in Nat : Forms!Lesser(x, LongMax + 1) \in Nat
  BY <1>3 DEF Forms!Lesser
<1>6. CASE w = Forms!Unlimited
  BY <1>1, <1>3, <1>6 DEF Forms!UlSfx
<1>7. CASE w # Forms!Unlimited /\ w.sfx = ""
  BY <1>2, <1>7 DEF Forms!UlSfx
<1>8. CASE w # Forms!Unlimited /\ w.sfx # ""
  <2>1. CASE d = 0
    BY <1>8, <2>1 DEF Forms!UlSfx
  <2>2. CASE d # 0
    <3> DEFINE y == (w.n * Forms!Mul[w.sfx]) \div d
    <3>0. d > 0
      BY <2>2
    <3>1. Forms!UlSfx(w, d, u) = Forms!Lesser(y, LongMax + 1) /\ y \in Nat
      BY <1>4, <1>8, <2>2, <3>0 DEF Forms!UlSfx
    <3> HIDE DEF y
    <3>2. Forms!UlSfx(w, d, u) \in Nat
      BY <1>5, <3>1
    <3> QED
      BY <1>8, <2>2, <3>1, <3>2 DEF y
  <2> QED
    BY <2>1, <2>2
<1> QED
  BY <1>6, <1>7, <1>8

\* As far as it is not cut off, this is what the word means.
LEMMA UlSfxExact ==
  ASSUME NEW w \in Forms!Plain, NEW d \in Nat, NEW unit \in Nat, NEW u \in BOOLEAN,
         unit > 0, d = 0 \/ d = unit,
         Forms!UlSfx(w, d, u) \in 0..LongMax
  PROVE  Forms!Exact(w, unit) = Forms!UlSfx(w, d, u)
<1>0. LongMax \in Nat /\ None \notin Nat
  BY SizesHold, NoneIsNothing DEF InProportion
<1> DEFINE x == Forms!UlSfx(w, d, u)
<1>1. x \in Nat /\ x <= LongMax /\ x # None
  BY <1>0
<1>2. w \in Word
  BY WordsAre
<1>3. CASE w = Forms!Unlimited
  <2>1. x = LongMax
    BY <1>1, <1>3, UlSfxIs
  <2> QED
    BY <1>3, <2>1 DEF Forms!Exact
<1>4. CASE w # Forms!Unlimited /\ w.sfx = ""
  <2>1. x = w.n /\ w.n \in Nat
    BY <1>2, <1>4, UlSfxIs DEF Word
  <2>2. (w.n * unit) \div unit = w.n
    BY <2>1, Whole
  <2>3. Forms!Exact(w, unit) = Forms!Lesser(w.n, LongMax)
    BY <1>4, <2>2 DEF Forms!Exact
  <2> QED
    BY <1>0, <1>1, <2>1, <2>3 DEF Forms!Lesser
<1>5. CASE w # Forms!Unlimited /\ w.sfx # ""
  <2> DEFINE y == (w.n * Forms!Mul[w.sfx]) \div unit
  <2>0. d # 0
    BY <1>1, <1>5, UlSfxIs
  <2>1. d = unit /\ x = Forms!Lesser(y, LongMax + 1) /\ y \in Nat
    BY <1>5, <2>0, UlSfxIs
  <2>2. Forms!Exact(w, unit) = Forms!Lesser(y, LongMax)
    BY <1>5 DEF Forms!Exact
  <2> HIDE DEF y, x
  <2> QED
    BY <1>0, <1>1, <2>1, <2>2 DEF Forms!Lesser, x
<1> QED
  BY <1>3, <1>4, <1>5

\* A word without a unit; what it is with one.
Bare(w) == w.sfx = ""
Raw(x) == Forms!N(x, "")
Times(w) == w.n * Forms!Mul[w.sfx]
NumberTexts == Forms!Numbers({"", "B", "M", "T"}) \union {Forms!Unlimited}
CpuTexts == Forms!Numbers({"", "%", "K"})

\* The texts of the forms that are numbers.
LEMMA TextsAre ==
  /\ \A k \in {"NUMPROC", "PRIVVMPAGES", "KMEMSIZE", "DISKSPACE", "DISKINODES"} :
       Forms!Texts(k) = Forms!OneOrTwo(Forms!Plain)
  /\ Forms!Texts("PHYSPAGES") =
       Forms!One({w \in Forms!Plain : ~Forms!Wraps("PHYSPAGES", w) /\ w # Forms!Unlimited})
  /\ Forms!Texts("IOLIMIT") = Forms!One({w \in NumberTexts : ~Forms!Wraps("IOLIMIT", w)})
  /\ Forms!Texts("IOPSLIMIT") = Forms!One(Forms!Plain)
  /\ Forms!Texts("CPUUNITS") = Forms!One(Forms!Plain)
  /\ Forms!Texts("CPULIMIT") = Forms!One({w \in CpuTexts : ~Forms!Wraps("CPULIMIT", w)})
<1>1. \A x : ~Forms!Is(x)
  BY DEF Forms!Is
<1> QED
  BY <1>1, Zenon DEF Forms!Texts, NumberTexts, CpuTexts

\* Which amounts go beyond the type they are computed in.
LEMMA WrapsAre ==
  ASSUME NEW w
  PROVE  /\ Forms!Wraps("PHYSPAGES", w) <=> Bare(w) /\ w.n + Page - 1 > Forms!UlongMax
         /\ Forms!Wraps("CPULIMIT", w) <=> w.n > IntMax
         /\ Forms!Wraps("IOLIMIT", w) <=>
              w # Forms!Unlimited /\
              Forms!Lesser(w.n, IntMax) * Forms!Mul[IF Bare(w) THEN "M" ELSE w.sfx] > Forms!UlongMax
BY Zenon DEF Forms!Wraps, Bare

\* The meaning of the forms that are numbers.
LEMMA MeaningIs ==
  ASSUME NEW t, NEW want
  PROVE  /\ \A k \in {"NUMPROC", "KMEMSIZE", "DISKINODES"} :
              Forms!Meaning(k, t, want) = <<Forms!Exact(Head(t), 1), Forms!Exact(Forms!Last(t), 1)>>
         /\ Forms!Meaning("PRIVVMPAGES", t, want) =
              <<Forms!Exact(Head(t), Page), Forms!Exact(Forms!Last(t), Page)>>
         /\ Forms!Meaning("DISKSPACE", t, want) =
              <<Forms!Exact(Head(t), Kilo), Forms!Exact(Forms!Last(t), Kilo)>>
         /\ Head(t) # Forms!Unlimited =>
              Forms!Meaning("PHYSPAGES", t, want) =
                <<0, ((IF Bare(Head(t)) THEN Head(t).n
                       ELSE Forms!Lesser(Times(Head(t)), LongMax + 1)) + Page - 1) \div Page>>
         /\ Forms!Meaning("IOLIMIT", t, want) =
              IF Head(t) = Forms!Unlimited THEN 0
              ELSE Forms!Lesser(Head(t).n * Forms!Mul[IF Bare(Head(t)) THEN "M" ELSE Head(t).sfx], IntMax)
         /\ Forms!Meaning("CPULIMIT", t, want) = Head(t).n * (IF Head(t).sfx = "%" THEN NumCpu ELSE 1)
         /\ \A k \in {"IOPSLIMIT", "CPUUNITS"} : Forms!Meaning(k, t, want) = Forms!Exact(Head(t), 1)
<1>1. Forms!Mul["K"] = Kilo
  BY DEF Forms!Mul
<1> QED
  BY <1>1, Zenon DEF Forms!Meaning, Bare, Times

\* A text of one word.
LEMMA OneIs ==
  ASSUME NEW S, NEW t \in Forms!One(S)
  PROVE  Head(t) \in S /\ t = <<Head(t)>> /\ Len(t) = 1
<1>1. PICK w \in S : t = <<w>>
  BY DEF Forms!One
<1> QED
  BY <1>1, PairIs

\* What parse_ul_sfx() makes of a plain word.
LEMMA PlainIs ==
  ASSUME NEW w \in Forms!Plain, NEW d \in Nat, NEW u \in BOOLEAN, w # Forms!Unlimited
  PROVE  /\ w.n \in Nat /\ (~Bare(w) => Times(w) \in Nat)
         /\ Bare(w) => Forms!UlSfx(w, d, u) = w.n
         /\ ~Bare(w) /\ d # 0 => Forms!UlSfx(w, d, u) = Forms!Lesser(Times(w) \div d, LongMax + 1)
<1>1. w \in Word /\ w.sfx # "unlimited"
  BY WordsAre
<1>2. w.n \in Nat /\ w.sfx \in {"", "K", "P"}
  BY <1>1, Zenon DEF Word
<1>3. /\ Bare(w) => Forms!UlSfx(w, d, u) = w.n
      /\ ~Bare(w) /\ d # 0 => Forms!UlSfx(w, d, u) = Forms!Lesser(Times(w) \div d, LongMax + 1)
  BY Zenon DEF Forms!UlSfx, Bare, Times
<1>4. w.sfx \in {"K", "P"} => Times(w) \in Nat
  <2> DEFINE m == Forms!Mul[w.sfx]
             n == w.n
  <2>1. Forms!Mul["K"] = Kilo /\ Forms!Mul["P"] = Page /\ Kilo \in Nat /\ Page \in Nat
    BY SizesHold DEF Forms!Mul, InProportion
  <2>2. n \in Nat /\ (w.sfx \in {"K", "P"} => m \in Nat)
    BY <1>2, <2>1
  <2> HIDE DEF m, n
  <2>3. m \in Nat => n * m \in Nat
    BY <2>2
  <2> QED
    BY <2>2, <2>3 DEF Times, m, n
<1>5. ~Bare(w) => Times(w) \in Nat
  BY <1>2, <1>4, Zenon DEF Bare
<1> QED
  BY <1>2, <1>3, <1>5, Zenon

\* What parse_twoul_sfx() takes is what the words mean.
LEMMA TwoUlExact ==
  ASSUME NEW t \in Forms!OneOrTwo(Forms!Plain), NEW d \in Nat, NEW unit \in Nat, NEW u \in BOOLEAN,
         unit > 0, d = 0 \/ d = unit, Forms!TwoUl(t, d, u).code = "OK"
  PROVE  \E a, b \in 0..LongMax :
           /\ Forms!TwoUl(t, d, u).val = <<a, b>>
           /\ Forms!Exact(Head(t), unit) = a /\ Forms!Exact(Forms!Last(t), unit) = b
<1> DEFINE a == Forms!UlSfx(Head(t), d, u)
           b == Forms!UlSfx(Forms!Last(t), d, u)
<1>1. Head(t) \in Forms!Plain /\ Forms!Last(t) \in Forms!Plain
  BY OneOrTwo
<1>2. a \in Nat \union {None} /\ b \in Nat \union {None}
  BY <1>1, UlSfxIs
<1>3. Forms!TwoUl(t, d, u).val = <<a, b>> /\ a \in 0..LongMax /\ b \in 0..LongMax
  BY <1>2, TwoUlOk
<1>4. Forms!Exact(Head(t), unit) = a /\ Forms!Exact(Forms!Last(t), unit) = b
  BY <1>1, <1>3, UlSfxExact
<1> QED
  BY <1>3, <1>4

PairKinds == {"NUMPROC", "PRIVVMPAGES", "KMEMSIZE", "DISKSPACE", "DISKINODES"}

\* The barrier and limit of UBC and of a disk quota.
LEMMA PairsReadBack ==
  ASSUME NEW k \in PairKinds, NEW t, NEW old, NEW want, Taken(k, t)
  PROVE  ReadsBack(k, t, old, want)
<1> DEFINE v == Forms!Parse(k, t, TRUE).val
           m == Forms!Meaning(k, t, want)
<1>1. Page \in Nat /\ Page > 0 /\ Kilo \in Nat /\ Kilo > 0 /\ 0 \in Nat /\ 1 \in Nat
      /\ 1 > 0 /\ TRUE \in BOOLEAN /\ FALSE \in BOOLEAN
  BY SizesHold DEF InProportion
<1>2. t \in Forms!OneOrTwo(Forms!Plain)
  BY TextsAre DEF Taken, PairKinds
<1>3. Forms!Dq(t, Kilo).code = "OK" => Forms!TwoUl(t, Kilo, FALSE).code = "OK" /\ Forms!Dq(t, Kilo) = Forms!TwoUl(t, Kilo, FALSE)
  BY DEF Forms!Dq, Forms!Code
<1>4. Forms!Dq(t, 0).code = "OK" => Forms!TwoUl(t, 0, FALSE).code = "OK" /\ Forms!Dq(t, 0) = Forms!TwoUl(t, 0, FALSE)
  BY DEF Forms!Dq, Forms!Code
<1>5. k \in NumKinds
  BY DEF NumKinds, PairKinds, Forms!UbKinds
<1>6. \E a, b \in 0..LongMax : v = <<a, b>> /\ m = <<a, b>>
  <2>1. CASE k = "NUMPROC"
    <3>1. v = Forms!TwoUl(t, 0, TRUE).val /\ Forms!TwoUl(t, 0, TRUE).code = "OK"
      BY <2>1, ParseNumbers DEF Taken
    <3>2. m = <<Forms!Exact(Head(t), 1), Forms!Exact(Forms!Last(t), 1)>>
      BY <2>1, MeaningIs
    <3>3. \E a, b \in 0..LongMax :
            /\ Forms!TwoUl(t, 0, TRUE).val = <<a, b>>
            /\ Forms!Exact(Head(t), 1) = a /\ Forms!Exact(Forms!Last(t), 1) = b
      BY <1>1, <1>2, <3>1, TwoUlExact
    <3> QED
      BY <3>1, <3>2, <3>3, Zenon
  <2>2. CASE k = "PRIVVMPAGES"
    <3>1. v = Forms!TwoUl(t, Page, TRUE).val /\ Forms!TwoUl(t, Page, TRUE).code = "OK"
      BY <2>2, ParseNumbers DEF Taken
    <3>2. m = <<Forms!Exact(Head(t), Page), Forms!Exact(Forms!Last(t), Page)>>
      BY <2>2, MeaningIs
    <3>3. \E a, b \in 0..LongMax :
            /\ Forms!TwoUl(t, Page, TRUE).val = <<a, b>>
            /\ Forms!Exact(Head(t), Page) = a /\ Forms!Exact(Forms!Last(t), Page) = b
      BY <1>1, <1>2, <3>1, TwoUlExact
    <3> QED
      BY <3>1, <3>2, <3>3, Zenon
  <2>3. CASE k = "KMEMSIZE"
    <3>1. v = Forms!TwoUl(t, 1, TRUE).val /\ Forms!TwoUl(t, 1, TRUE).code = "OK"
      BY <2>3, ParseNumbers DEF Taken
    <3>2. m = <<Forms!Exact(Head(t), 1), Forms!Exact(Forms!Last(t), 1)>>
      BY <2>3, MeaningIs
    <3>3. \E a, b \in 0..LongMax :
            /\ Forms!TwoUl(t, 1, TRUE).val = <<a, b>>
            /\ Forms!Exact(Head(t), 1) = a /\ Forms!Exact(Forms!Last(t), 1) = b
      BY <1>1, <1>2, <3>1, TwoUlExact
    <3> QED
      BY <3>1, <3>2, <3>3, Zenon
  <2>4. CASE k = "DISKSPACE"
    <3>1. v = Forms!TwoUl(t, Kilo, FALSE).val /\ Forms!TwoUl(t, Kilo, FALSE).code = "OK"
      BY <1>3, <2>4, ParseNumbers DEF Taken
    <3>2. m = <<Forms!Exact(Head(t), Kilo), Forms!Exact(Forms!Last(t), Kilo)>>
      BY <2>4, MeaningIs
    <3>3. \E a, b \in 0..LongMax :
            /\ Forms!TwoUl(t, Kilo, FALSE).val = <<a, b>>
            /\ Forms!Exact(Head(t), Kilo) = a /\ Forms!Exact(Forms!Last(t), Kilo) = b
      BY <1>1, <1>2, <3>1, TwoUlExact
    <3> QED
      BY <3>1, <3>2, <3>3, Zenon
  <2>5. CASE k = "DISKINODES"
    <3>1. v = Forms!TwoUl(t, 0, FALSE).val /\ Forms!TwoUl(t, 0, FALSE).code = "OK"
      BY <1>4, <2>5, ParseNumbers DEF Taken
    <3>2. m = <<Forms!Exact(Head(t), 1), Forms!Exact(Forms!Last(t), 1)>>
      BY <2>5, MeaningIs
    <3>3. \E a, b \in 0..LongMax :
            /\ Forms!TwoUl(t, 0, FALSE).val = <<a, b>>
            /\ Forms!Exact(Head(t), 1) = a /\ Forms!Exact(Forms!Last(t), 1) = b
      BY <1>1, <1>2, <3>1, TwoUlExact
    <3> QED
      BY <3>1, <3>2, <3>3, Zenon
  <2> QED
    BY <2>1, <2>2, <2>3, <2>4, <2>5 DEF PairKinds
<1> HIDE DEF v, m
<1>7. PICK a, b \in 0..LongMax : v = <<a, b>> /\ m = <<a, b>>
  BY <1>6
<1>8. a \in Nat /\ b \in Nat
  BY SizesHold DEF InProportion
<1> DEFINE l == Forms!Store(k, v, old)
<1>9. \/ k \in {"NUMPROC", "PRIVVMPAGES", "KMEMSIZE"} /\ l = Forms!UbcStr(<<a, b>>)
      \/ k \in {"DISKSPACE", "DISKINODES"} /\ l = Forms!DqStr(<<a, b>>)
  <2>1. CASE k \in {"NUMPROC", "PRIVVMPAGES", "KMEMSIZE"}
    <3>1. k \in Forms!UbKinds
      BY <2>1 DEF Forms!UbKinds
    <3> QED
      BY <1>7, <2>1, <3>1, StoreNumbers
  <2>2. CASE k \in {"DISKSPACE", "DISKINODES"}
    BY <1>7, <2>2, StoreNumbers
  <2> QED
    BY <2>1, <2>2 DEF PairKinds
<1>10. Forms!Parse(k, l, FALSE).val = <<a, b>>
  <2>1. CASE k \in {"NUMPROC", "PRIVVMPAGES", "KMEMSIZE"} /\ l = Forms!UbcStr(<<a, b>>)
    <3>1. \E d : Forms!Parse(k, l, FALSE) = Forms!TwoUl(l, d, TRUE)
      BY <2>1, ParseNumbers
    <3> QED
      BY <2>1, <3>1, NumbersRead
  <2>2. CASE k \in {"DISKSPACE", "DISKINODES"} /\ l = Forms!DqStr(<<a, b>>)
    <3>0. \A d : Forms!Dq(l, d).val = Forms!TwoUl(l, d, FALSE).val
      BY DEF Forms!Dq, Forms!Code
    <3> HIDE DEF l
    <3>1. \E d : Forms!Parse(k, l, FALSE).val = Forms!TwoUl(l, d, FALSE).val
      BY <2>2, <3>0, ParseNumbers
    <3> QED
      BY <2>2, <3>1, NumbersRead
  <2> QED
    BY <1>9, <2>1, <2>2
<1>11. l # None /\ v # None
  BY <1>7, <1>8, <1>9, NumbersKept
<1> HIDE DEF l
<1> QED
  BY <1>5, <1>7, <1>10, <1>11, NumbersKept, <1>8, NumbersPlain DEF ReadsBack, l, v, m

\* --physpages, of which only the limit is taken.
LEMMA PhyspagesReadBack ==
  ASSUME NEW t, NEW old, NEW want, Taken("PHYSPAGES", t)
  PROVE  ReadsBack("PHYSPAGES", t, old, want)
<1> DEFINE v == Forms!Parse("PHYSPAGES", t, TRUE).val
           m == Forms!Meaning("PHYSPAGES", t, want)
           l == Forms!Store("PHYSPAGES", v, old)
           w == Head(t)
           raw == Forms!UlSfx(w, 1, TRUE)
           means == IF Bare(w) THEN w.n ELSE Forms!Lesser(Times(w), LongMax + 1)
           b == (raw + Page - 1) \div Page
<1>1. Page \in Nat /\ 2 <= Page /\ Page <= LongMax + 1 /\ LongMax \in Nat /\ LongMax >= 1
      /\ Forms!UlongMax = 2 * LongMax + 1
  BY SizesHold DEF InProportion, Forms!UlongMax
<1>2. w \in Forms!Plain /\ w # Forms!Unlimited /\ Len(t) = 1
      /\ ~(Bare(w) /\ w.n + Page - 1 > Forms!UlongMax)
  <2>1. t \in Forms!One({x \in Forms!Plain : ~Forms!Wraps("PHYSPAGES", x) /\ x # Forms!Unlimited})
    BY TextsAre DEF Taken
  <2> QED
    BY <2>1, OneIs, WrapsAre
<1>3. /\ w.n \in Nat /\ (~Bare(w) => Times(w) \in Nat)
      /\ Bare(w) => raw = w.n
      /\ ~Bare(w) => raw = Forms!Lesser(Times(w) \div 1, LongMax + 1)
  <2>1. 1 \in Nat /\ 1 # 0 /\ TRUE \in BOOLEAN
    OBVIOUS
  <2> QED
    BY <1>2, <2>1, PlainIs, Zenon
<1>4. raw = means /\ raw \in Nat /\ raw + Page - 1 <= 2 * LongMax + 1
  <2> DEFINE n == w.n
             p == Times(w)
  <2>1. n \in Nat /\ (~Bare(w) => p \in Nat) /\ (Bare(w) => n + Page - 1 <= 2 * LongMax + 1)
    BY <1>1, <1>2, <1>3
  <2>2. /\ Bare(w) => raw = n
        /\ ~Bare(w) => raw = Forms!Lesser(p \div 1, LongMax + 1)
        /\ means = IF Bare(w) THEN n ELSE Forms!Lesser(p, LongMax + 1)
    BY <1>3
  <2> HIDE DEF n, p, raw, means, w
  <2>3. ~Bare(w) => p \div 1 = p
    BY <2>1
  <2> QED
    BY <1>1, <2>1, <2>2, <2>3 DEF Forms!Lesser
<1>5. v = <<0, ((raw + Page - 1) % (Forms!UlongMax + 1)) \div Page>>
  <2>1. v = Forms!Vswap(t).val
    BY ParseNumbers
  <2>2. raw # None
    BY <1>4, NoneIsNothing
  <2>3. ~(1 > 1)
    OBVIOUS
  <2>4. ~(raw = None \/ Len(t) > 1)
    BY <1>2, <2>2, <2>3, Zenon
  <2> QED
    BY <2>1, <2>4, Zenon DEF Forms!Vswap, Forms!Got
<1>6. m = <<0, (means + Page - 1) \div Page>>
  BY <1>2, MeaningIs
<1> HIDE DEF means
<1>7. (raw + Page - 1) % (Forms!UlongMax + 1) = raw + Page - 1
  <2> HIDE DEF raw
  <2> QED
    BY <1>1, <1>4
<1>8. v = <<0, b>> /\ m = <<0, b>>
  BY <1>4, <1>5, <1>6, <1>7
<1>9. b \in 0..LongMax
  <2> HIDE DEF raw
  <2>1. b \in Nat /\ b * Page <= raw + Page - 1
    BY <1>1, <1>4, Quotient
  <2>2. b <= LongMax
    <3> SUFFICES ASSUME b >= LongMax + 1 PROVE FALSE
      BY <1>1, <2>1
    <3> HIDE DEF b
    <3>1. (b - LongMax - 1) * Page >= 0
      BY <1>1, <2>1
    <3>2. (b - LongMax - 1) * Page = b * Page - (LongMax + 1) * Page
      BY <1>1, <2>1
    <3>3. (LongMax + 1) * Page >= (LongMax + 1) * 2
      <4>1. (LongMax + 1) * (Page - 2) >= 0
        BY <1>1
      <4> QED
        BY <1>1, <4>1
    <3>4. b * Page <= 2 * LongMax + 1
      BY <1>1, <1>4, <2>1
    <3> QED
      BY <1>1, <2>1, <3>1, <3>2, <3>3, <3>4
  <2> HIDE DEF b
  <2> QED
    BY <1>1, <2>1, <2>2
<1> HIDE DEF v, b, m
<1>10. "PHYSPAGES" \in Forms!UbKinds /\ "PHYSPAGES" \in NumKinds
  BY DEF Forms!UbKinds, NumKinds
<1>11. l = Forms!UbcStr(<<0, b>>)
  BY <1>8, <1>10, StoreNumbers
<1> HIDE DEF l
<1>12. Forms!Parse("PHYSPAGES", l, FALSE).val = <<0, b>>
  <2>1. Forms!Parse("PHYSPAGES", l, FALSE) = Forms!TwoUl(l, Page, TRUE)
    BY ParseNumbers
  <2>2. 0 \in 0..LongMax
    BY <1>1
  <2> QED
    BY <1>9, <1>11, <2>1, <2>2, NumbersRead
<1>13. b \in Nat /\ 0 \in Nat
  BY <1>1, <1>9
<1> QED
  BY <1>8, <1>10, <1>11, <1>12, <1>13, NumbersKept, NumbersPlain DEF ReadsBack, v, m, l

\* A form that is one number reads back when the number does.
LEMMA SingleReadsBack ==
  ASSUME NEW k \in Forms!IoKinds \union {"CPUUNITS", "CPULIMIT"}, NEW t, NEW old, NEW want, NEW x \in Nat,
         Forms!Parse(k, t, TRUE).val = x, Forms!Meaning(k, t, want) = x,
         Forms!Parse(k, <<Raw(x)>>, FALSE).val = x
  PROVE  ReadsBack(k, t, old, want)
<1> DEFINE l == Forms!Store(k, x, old)
<1>1. l = <<Raw(x)>>
  BY StoreNumbers DEF Raw
<1>2. k \in NumKinds
  BY DEF NumKinds
<1>3. x # None /\ l # None
  BY <1>1, NumbersKept DEF Raw
<1>4. Held(k, x) /\ Forms!View(k, x) = x
  BY <1>2, NumbersPlain
<1> HIDE DEF l
<1> QED
  BY <1>1, <1>3, <1>4 DEF ReadsBack, l

\* A number as printf() writes it.
LEMMA RawIs ==
  ASSUME NEW x \in Nat
  PROVE  /\ Head(<<Raw(x)>>) = Raw(x) /\ Raw(x) # Forms!Unlimited /\ Raw(x).n = x
         /\ Bare(Raw(x)) /\ Raw(x).sfx # "%"
<1>1. Raw(x).n = x /\ Bare(Raw(x)) /\ Raw(x) # Forms!Unlimited
  BY WordsAre, Zenon DEF Raw, Bare
<1>2. Raw(x).sfx # "%"
  <2>1. "" # "%"
    BY Zenon
  <2> QED
    BY <1>1, <2>1, Zenon DEF Bare
<1> QED
  BY <1>1, <1>2, PairIs

\* "unlimited" has a suffix.
LEMMA UnlimitedIs == ~Bare(Forms!Unlimited)
<1>1. Forms!Unlimited.sfx = "unlimited"
  BY DEF Forms!Unlimited, Forms!N
<1>2. "unlimited" # ""
  BY Zenon
<1> QED
  BY <1>1, <1>2, Zenon DEF Bare

\* --iopslimit
LEMMA IopsReadBack ==
  ASSUME NEW t, NEW old, NEW want, Taken("IOPSLIMIT", t)
  PROVE  ReadsBack("IOPSLIMIT", t, old, want)
<1> DEFINE w == Head(t)
           x == w.n
<1>0. IntMax \in Nat /\ LongMax \in Nat /\ IntMax <= LongMax
  BY SizesHold DEF InProportion
<1>1. w \in Forms!Plain
  BY TextsAre, OneIs DEF Taken
<1>2. \A s : Forms!Iops(s) =
        IF ~Bare(Head(s)) \/ Head(s).n > IntMax THEN Forms!Inval ELSE Forms!Got(Head(s).n)
  BY Zenon DEF Forms!Iops, Bare
<1>3. Forms!Inval.code # "OK" /\ (\A y : Forms!Got(y).val = y)
  BY DEF Forms!Inval, Forms!Code, Forms!Got
<1>4. Bare(w) /\ ~(x > IntMax) /\ Forms!Parse("IOPSLIMIT", t, TRUE).val = x
  BY <1>2, <1>3, ParseNumbers DEF Taken
<1>5. w # Forms!Unlimited
  BY <1>4, UnlimitedIs
<1>6. x \in Nat
  BY <1>1, <1>5, PlainIs
<1>7. Forms!Meaning("IOPSLIMIT", t, want) = x
  <2>1. Forms!Exact(w, 1) = Forms!Lesser((x * 1) \div 1, LongMax)
    BY <1>4, <1>5, Zenon DEF Forms!Exact, Bare
  <2> HIDE DEF w, x
  <2>2. (x * 1) \div 1 = x
    BY <1>6
  <2>3. Forms!Lesser(x, LongMax) = x
    BY <1>0, <1>4, <1>6 DEF Forms!Lesser
  <2> QED
    BY <2>1, <2>2, <2>3, MeaningIs DEF w
<1> HIDE DEF x, w
<1>8. Forms!Parse("IOPSLIMIT", <<Raw(x)>>, FALSE).val = x
  <2> DEFINE s == <<Raw(x)>>
  <2>1. Bare(Head(s)) /\ Head(s).n = x
    BY <1>6, RawIs
  <2>2. Forms!Parse("IOPSLIMIT", s, FALSE) = Forms!Iops(s)
    BY ParseNumbers
  <2> HIDE DEF s
  <2>3. Forms!Iops(s) = Forms!Got(x)
    BY <1>2, <1>4, <2>1
  <2> QED
    BY <1>3, <2>2, <2>3 DEF s
<1> QED
  BY <1>4, <1>6, <1>7, <1>8, SingleReadsBack DEF Forms!IoKinds

\* --cpuunits
LEMMA UnitsReadBack ==
  ASSUME NEW t, NEW old, NEW want, Taken("CPUUNITS", t)
  PROVE  ReadsBack("CPUUNITS", t, old, want)
<1> DEFINE w == Head(t)
           x == IF w = Forms!Unlimited THEN LongMax ELSE w.n
<1>0. LongMax \in Nat
  BY SizesHold DEF InProportion
<1>1. w \in Forms!Plain
  BY TextsAre, OneIs DEF Taken
<1>2. \A s : Forms!Ulong(s) =
        IF Head(s) = Forms!Unlimited THEN Forms!Got(LongMax)
        ELSE IF ~Bare(Head(s)) \/ Head(s).n > LongMax THEN Forms!Inval ELSE Forms!Got(Head(s).n)
  BY Zenon DEF Forms!Ulong, Bare
<1>3. Forms!Inval.code # "OK" /\ (\A y : Forms!Got(y).val = y)
  BY DEF Forms!Inval, Forms!Code, Forms!Got
<1>2a. \A s : Forms!Cpuunits(s) =
        IF Forms!Ulong(s).code = "OK" /\ Forms!Ulong(s).val \notin MinUnits..MaxUnits
        THEN Forms!Inval ELSE Forms!Ulong(s)
  BY Zenon DEF Forms!Cpuunits
<1>p. Forms!Parse("CPUUNITS", t, TRUE) = Forms!Cpuunits(t) /\ Forms!Cpuunits(t).code = "OK"
  BY ParseNumbers DEF Taken
<1>u. /\ Forms!Cpuunits(t) = Forms!Ulong(t)
      /\ Forms!Ulong(t).code = "OK" /\ Forms!Ulong(t).val \in MinUnits..MaxUnits
  BY <1>3, <1>2a, <1>p, Zenon
<1>4. /\ w # Forms!Unlimited => Bare(w) /\ ~(w.n > LongMax)
      /\ Forms!Parse("CPUUNITS", t, TRUE).val = x
      /\ x \in MinUnits..MaxUnits
  <2>1. w # Forms!Unlimited => Bare(w) /\ ~(w.n > LongMax)
    BY <1>2, <1>3, <1>u
  <2>2. Forms!Ulong(t) = Forms!Got(x)
    BY <1>2, <2>1
  <2> HIDE DEF x
  <2> QED
    BY <1>3, <1>p, <1>u, <2>1, <2>2
<1>5. w # Forms!Unlimited => w.n \in Nat
  <2>1. 0 \in Nat /\ TRUE \in BOOLEAN
    OBVIOUS
  <2> QED
    BY <1>1, <2>1, PlainIs, Zenon
<1>6. x \in Nat /\ ~(x > LongMax)
  <2>1. CASE w = Forms!Unlimited
    BY <1>0, <2>1
  <2>2. CASE w # Forms!Unlimited
    <3>1. x = w.n
      BY <2>2
    <3> HIDE DEF x
    <3> QED
      BY <1>4, <1>5, <2>2, <3>1
  <2> QED
    BY <2>1, <2>2
<1>7. Forms!Meaning("CPUUNITS", t, want) = x
  <2>1. Forms!Exact(w, 1) = IF w = Forms!Unlimited THEN LongMax ELSE Forms!Lesser((x * 1) \div 1, LongMax)
    BY <1>4, Zenon DEF Forms!Exact, Bare
  <2>2. w = Forms!Unlimited => x = LongMax
    OBVIOUS
  <2> HIDE DEF w, x
  <2>3. (x * 1) \div 1 = x
    BY <1>6
  <2>4. Forms!Lesser(x, LongMax) = x
    BY <1>0, <1>6 DEF Forms!Lesser
  <2> QED
    BY <2>1, <2>2, <2>3, <2>4, MeaningIs DEF w
<1> HIDE DEF x, w
<1>8. Forms!Parse("CPUUNITS", <<Raw(x)>>, FALSE).val = x
  <2> DEFINE s == <<Raw(x)>>
  <2>1. Bare(Head(s)) /\ Head(s).n = x /\ Head(s) # Forms!Unlimited
    BY <1>6, RawIs
  <2>2. Forms!Parse("CPUUNITS", s, FALSE) = Forms!Cpuunits(s)
    BY ParseNumbers
  <2> HIDE DEF s
  <2>3. Forms!Ulong(s) = Forms!Got(x)
    BY <1>2, <1>6, <2>1
  <2>4. Forms!Cpuunits(s) = Forms!Got(x)
    BY <1>3, <1>4, <1>2a, <2>3, Zenon
  <2> QED
    BY <1>3, <2>2, <2>4 DEF s
<1> QED
  BY <1>4, <1>6, <1>7, <1>8, SingleReadsBack

\* --cpulimit, whose per cent are those of one or of all CPUs.
LEMMA LimitReadBack ==
  ASSUME NEW t, NEW old, NEW want, Taken("CPULIMIT", t)
  PROVE  ReadsBack("CPULIMIT", t, old, want)
<1> DEFINE w == Head(t)
           n == w.n
           x == n * (IF w.sfx = "%" THEN NumCpu ELSE 1)
           int(i) == i % (2 * (IntMax + 1))
           val(i) == IF int(i) > IntMax THEN Forms!UlongMax + 1 - (2 * (IntMax + 1) - int(i)) ELSE int(i)
<1>0. IntMax \in Nat /\ NumCpu \in Nat /\ Percent \in Nat /\ NumCpu * Percent <= IntMax /\ NumCpu > 0
  BY SizesHold DEF InProportion
<1>1. w \in CpuTexts /\ ~(n > IntMax)
  <2>1. t \in Forms!One({u \in CpuTexts : ~Forms!Wraps("CPULIMIT", u)})
    BY TextsAre DEF Taken
  <2> QED
    BY <2>1, OneIs, WrapsAre
<1>2. n \in Nat
  <2> DEFINE S == {"", "%", "K"}
  <2> HIDE DEF S
  <2>1. w \in Forms!Numbers(S)
    BY <1>1, Zenon DEF CpuTexts, S
  <2>2. PICK i \in Amounts, s \in S : w = Forms!N(i, s)
    BY <2>1, NumbersAre
  <2>3. n = i
    BY <2>2, WordsAre
  <2> QED
    BY <2>3, SizesHold
<1>3. \A i \in Nat : i <= IntMax => val(i) = i
  BY <1>0
<1>4. ASSUME NEW s, Head(s).n \in Nat, Head(s).n <= IntMax
      PROVE  /\ Head(s).sfx = "%" /\ Head(s).n <= Percent =>
                   Forms!Cpulimit(s) = Forms!Got(Head(s).n * NumCpu)
             /\ ~(Head(s).sfx = "%" /\ Head(s).n <= Percent) /\ Bare(Head(s)) =>
                   Forms!Cpulimit(s) = Forms!Got(Head(s).n)
             /\ ~(Head(s).sfx = "%" /\ Head(s).n <= Percent) /\ ~Bare(Head(s)) =>
                   Forms!Cpulimit(s) = Forms!Inval
  <2> DEFINE i == Head(s).n
  <2>1. val(i) = i
    BY <1>3, <1>4
  <2>2. Forms!Cpulimit(s) =
          CASE Head(s).sfx = "%" /\ val(i) <= Percent -> Forms!Got(val(i) * NumCpu)
            [] Head(s).sfx = "" -> Forms!Got(val(i))
            [] OTHER -> Forms!Inval
    BY Zenon DEF Forms!Cpulimit
  <2> HIDE DEF val, int, i
  <2>3. Forms!Cpulimit(s) =
          CASE Head(s).sfx = "%" /\ i <= Percent -> Forms!Got(i * NumCpu)
            [] Head(s).sfx = "" -> Forms!Got(i)
            [] OTHER -> Forms!Inval
    BY <2>1, <2>2, Zenon
  <2>4. ("%" = "") = FALSE
    BY Zenon
  <2> QED
    BY <2>3, <2>4, Zenon DEF Bare, i
<1>5. Forms!Inval.code # "OK" /\ (\A y : Forms!Got(y).val = y)
  BY DEF Forms!Inval, Forms!Code, Forms!Got
<1>6. /\ Forms!Parse("CPULIMIT", t, TRUE) = Forms!Cpulimit(t)
      /\ Forms!Cpulimit(t).code = "OK"
  BY ParseNumbers DEF Taken
<1>7. n <= IntMax
  <2> HIDE DEF n
  <2> QED
    BY <1>0, <1>1, <1>2
<1>8. \/ w.sfx = "%" /\ n <= Percent /\ Forms!Parse("CPULIMIT", t, TRUE).val = n * NumCpu
      \/ w.sfx # "%" /\ Forms!Parse("CPULIMIT", t, TRUE).val = n
  <2>1. "" # "%"
    BY Zenon
  <2>2. Bare(w) => w.sfx # "%"
    BY <2>1, Zenon DEF Bare
  <2> QED
    BY <1>2, <1>4, <1>5, <1>6, <1>7, <2>2
<1>9. Forms!Parse("CPULIMIT", t, TRUE).val = x /\ x \in Nat /\ x <= IntMax
  <2> DEFINE p == (w.sfx = "%")
             m == Forms!Parse("CPULIMIT", t, TRUE).val
  <2>1. \/ p /\ n <= Percent /\ m = n * NumCpu
        \/ ~p /\ m = n
    BY <1>8
  <2>2. x = IF p THEN n * NumCpu ELSE n * 1
    OBVIOUS
  <2> HIDE DEF p, m, n, x
  <2>3. n <= Percent => n * NumCpu <= IntMax
    <3> SUFFICES ASSUME n <= Percent PROVE n * NumCpu <= IntMax
      OBVIOUS
    <3>1. (Percent - n) * NumCpu >= 0
      BY <1>0, <1>2
    <3>2. (Percent - n) * NumCpu = NumCpu * Percent - n * NumCpu
      BY <1>0, <1>2
    <3> QED
      BY <1>0, <1>2, <3>1, <3>2
  <2> QED
    <3> DEFINE y == n * NumCpu
    <3>1. y \in Nat
      BY <1>0, <1>2
    <3>2. (n <= Percent => y <= IntMax) /\ n * 1 = n
      BY <1>2, <2>3
    <3> HIDE DEF y
    <3>3. CASE p /\ n <= Percent /\ m = y
      BY <2>2, <3>1, <3>2, <3>3 DEF m, y
    <3>4. CASE ~p /\ m = n
      BY <1>2, <1>7, <2>2, <3>2, <3>4 DEF m
    <3> QED
      BY <2>1, <3>3, <3>4 DEF y
<1>10. Forms!Meaning("CPULIMIT", t, want) = x
  BY MeaningIs
<1> HIDE DEF x, n, w
<1>11. Forms!Parse("CPULIMIT", <<Raw(x)>>, FALSE).val = x
  <2> DEFINE s == <<Raw(x)>>
  <2>1. Bare(Head(s)) /\ Head(s).n = x /\ Head(s).sfx # "%"
    BY <1>9, RawIs
  <2>2. Forms!Parse("CPULIMIT", s, FALSE) = Forms!Cpulimit(s)
    BY ParseNumbers
  <2> HIDE DEF s
  <2>3. Forms!Cpulimit(s) = Forms!Got(x)
    BY <1>4, <1>9, <2>1
  <2> QED
    BY <1>5, <2>2, <2>3 DEF s
<1> QED
  BY <1>9, <1>10, <1>11, SingleReadsBack

\* --iolimit, which is written in bytes.
LEMMA IolimitReadBack ==
  ASSUME NEW t, NEW old, NEW want, Taken("IOLIMIT", t)
  PROVE  ReadsBack("IOLIMIT", t, old, want)
<1> DEFINE w == Head(t)
           mul(u, d) == IF Bare(u) THEN d ELSE Forms!Mul[u.sfx]
           val(u, d) == (Forms!Lesser(u.n, IntMax) * mul(u, d)) % (Forms!UlongMax + 1)
           by == IF Bare(w) THEN Kilo * Kilo ELSE Forms!Mul[w.sfx]
           x == IF w = Forms!Unlimited THEN 0 ELSE w.n * by
<1>0. IntMax \in Nat /\ LongMax \in Nat /\ IntMax <= LongMax /\ Forms!UlongMax = 2 * LongMax + 1
  BY SizesHold DEF InProportion, Forms!UlongMax
<1>1. w \in NumberTexts /\ (w # Forms!Unlimited => ~(Forms!Lesser(w.n, IntMax) * by > Forms!UlongMax))
  <2>1. t \in Forms!One({u \in NumberTexts : ~Forms!Wraps("IOLIMIT", u)})
    BY TextsAre DEF Taken
  <2>2. Forms!Mul["M"] = Kilo * Kilo
    BY DEF Forms!Mul
  <2>3. Forms!Mul[IF Bare(w) THEN "M" ELSE w.sfx] = by
    BY <2>2
  <2> HIDE DEF by
  <2> QED
    BY <2>1, <2>3, OneIs, WrapsAre
<1>2. ASSUME NEW s, NEW d
      PROVE  /\ Head(s) = Forms!Unlimited => Forms!Iolimit(s, d) = Forms!Got(0)
             /\ Head(s) # Forms!Unlimited =>
                  Forms!Iolimit(s, d) =
                    Forms!Code(IF Head(s).n > IntMax \/ val(Head(s), d) > IntMax THEN "TRUNC" ELSE "OK",
                               Forms!Lesser(val(Head(s), d), IntMax))
  BY Zenon DEF Forms!Iolimit, Bare
<1>3. w # Forms!Unlimited => w.n \in Nat /\ by \in Nat
  <2> SUFFICES ASSUME w # Forms!Unlimited PROVE w.n \in Nat /\ by \in Nat
    BY Zenon
  <2> DEFINE S == {"", "B", "M", "T"}
  <2> HIDE DEF S
  <2>1. w \in Forms!Numbers(S)
    BY <1>1, Zenon DEF NumberTexts, S
  <2>2. PICK i \in Amounts, s \in S : w = Forms!N(i, s)
    BY <2>1, NumbersAre
  <2>3. w.n = i /\ w.sfx = s
    BY <2>2, WordsAre
  <2>4. Bare(w) \/ w.sfx \in {"B", "M", "T"}
    BY <2>3, Zenon DEF S, Bare
  <2>5. by \in Nat
    <3>1. /\ Forms!Mul["B"] = 1 /\ Forms!Mul["M"] = Kilo * Kilo
          /\ Forms!Mul["T"] = Kilo * Kilo * Kilo * Kilo
      BY DEF Forms!Mul
    <3>2. Kilo \in Nat /\ 1 \in Nat
      BY SizesHold DEF InProportion
    <3>3. Kilo * Kilo \in Nat
      BY <3>2
    <3> DEFINE q == Kilo * Kilo
    <3>4. Kilo * Kilo * Kilo * Kilo = q * q
      BY <3>2
    <3>5. Kilo * Kilo * Kilo * Kilo \in Nat
      <4> HIDE DEF q
      <4>1. q \in Nat
        BY <3>3 DEF q
      <4>2. q * q \in Nat
        BY <4>1
      <4> QED
        BY <3>4, <4>2
    <3> QED
      BY <2>4, <3>1, <3>2, <3>3, <3>5, Zenon
  <2> QED
    BY <2>3, <2>5, SizesHold
<1>4. Forms!Parse("IOLIMIT", t, TRUE) = Forms!Iolimit(t, Kilo * Kilo) /\ Forms!Iolimit(t, Kilo * Kilo).code = "OK"
  BY ParseNumbers DEF Taken
<1>5. (\A y : Forms!Got(y).val = y) /\ (\A c, y : Forms!Code(c, y).val = y /\ Forms!Code(c, y).code = c)
  BY DEF Forms!Code, Forms!Got
<1>6. /\ Forms!Parse("IOLIMIT", t, TRUE).val = x /\ x \in Nat /\ x <= IntMax
      /\ Forms!Meaning("IOLIMIT", t, want) = x
  <2>1. CASE w = Forms!Unlimited
    <3>1. Forms!Parse("IOLIMIT", t, TRUE).val = 0
      BY <1>2, <1>4, <1>5, <2>1, Zenon
    <3>2. Forms!Meaning("IOLIMIT", t, want) = 0
      BY <2>1, MeaningIs, Zenon
    <3>3. x = 0
      BY <2>1, Zenon
    <3> HIDE DEF x, w
    <3>4. x \in Nat /\ x <= IntMax
      BY <1>0, <3>3
    <3> QED
      BY <3>1, <3>2, <3>3, <3>4, Zenon
  <2>2. CASE w # Forms!Unlimited
    <3> DEFINE n == w.n
               v == val(w, Kilo * Kilo)
    <3>1. ~(n > IntMax \/ v > IntMax) /\ Forms!Parse("IOLIMIT", t, TRUE).val = Forms!Lesser(v, IntMax)
      <4> HIDE DEF v, n
      <4>1. Forms!Iolimit(t, Kilo * Kilo) =
              Forms!Code(IF n > IntMax \/ v > IntMax THEN "TRUNC" ELSE "OK", Forms!Lesser(v, IntMax))
        BY <1>2, <2>2, Zenon DEF v, n
      <4> DEFINE c == IF n > IntMax \/ v > IntMax THEN "TRUNC" ELSE "OK"
      <4>2. n > IntMax \/ v > IntMax => c = "TRUNC" /\ c # "OK"
        OBVIOUS
      <4>3. c = "OK" /\ Forms!Parse("IOLIMIT", t, TRUE).val = Forms!Lesser(v, IntMax)
        <5> HIDE DEF c
        <5>1. Forms!Iolimit(t, Kilo * Kilo) = Forms!Code(c, Forms!Lesser(v, IntMax))
          BY <4>1 DEF c
        <5> DEFINE y == Forms!Lesser(v, IntMax)
        <5> HIDE DEF y
        <5>2. Forms!Code(c, y).val = y /\ Forms!Code(c, y).code = c
          BY DEF Forms!Code
        <5> QED
          BY <1>4, <5>1, <5>2, Zenon DEF y
      <4> HIDE DEF c
      <4> QED
        BY <4>2, <4>3
    <3>2. v = (Forms!Lesser(n, IntMax) * by) % (Forms!UlongMax + 1)
      BY Zenon
    <3>3. n \in Nat /\ by \in Nat /\ x = n * by /\ ~(Forms!Lesser(n, IntMax) * by > Forms!UlongMax)
      BY <1>1, <1>3, <2>2, Zenon
    <3>4. Forms!Meaning("IOLIMIT", t, want) = Forms!Lesser(x, IntMax)
      <4>1. Forms!Mul["M"] = Kilo * Kilo
        BY DEF Forms!Mul
      <4>2. Forms!Mul[IF Bare(w) THEN "M" ELSE w.sfx] = by
        BY <4>1
      <4>3. Forms!Meaning("IOLIMIT", t, want) = Forms!Lesser(w.n * Forms!Mul[IF Bare(w) THEN "M" ELSE w.sfx], IntMax)
        BY <2>2, MeaningIs, Zenon
      <4> HIDE DEF by
      <4> QED
        BY <2>2, <4>2, <4>3
    <3> HIDE DEF n, v, by, x, w
    <3>5. Forms!Lesser(n, IntMax) = n
      BY <1>0, <3>1, <3>3 DEF Forms!Lesser
    <3>6. x \in Nat /\ x <= Forms!UlongMax
      BY <1>0, <3>3, <3>5
    <3>7. v = x
      <4>1. v = x % (Forms!UlongMax + 1)
        BY <3>2, <3>3, <3>5
      <4> QED
        BY <1>0, <3>6, <4>1
    <3>8. x <= IntMax
      BY <1>0, <3>1, <3>6, <3>7
    <3>9. Forms!Lesser(x, IntMax) = x
      BY <1>0, <3>6, <3>8 DEF Forms!Lesser
    <3> QED
      BY <3>1, <3>4, <3>6, <3>7, <3>8, <3>9
  <2> QED
    BY <2>1, <2>2
<1> HIDE DEF x
<1>7. Forms!Parse("IOLIMIT", <<Raw(x)>>, FALSE).val = x
  <2> DEFINE s == <<Raw(x)>>
  <2>1. Bare(Head(s)) /\ Head(s).n = x /\ Head(s) # Forms!Unlimited
    BY <1>6, RawIs
  <2>2. Forms!Parse("IOLIMIT", s, FALSE) = Forms!Iolimit(s, 1)
    BY ParseNumbers
  <2> HIDE DEF s
  <2>3. Forms!Iolimit(s, 1).val = Forms!Lesser(val(Head(s), 1), IntMax)
    <3> DEFINE y == Forms!Lesser(val(Head(s), 1), IntMax)
               c == IF Head(s).n > IntMax \/ val(Head(s), 1) > IntMax THEN "TRUNC" ELSE "OK"
    <3>1. Forms!Iolimit(s, 1) = Forms!Code(c, y)
      BY <1>2, <2>1, Zenon
    <3> HIDE DEF c, y
    <3>2. Forms!Iolimit(s, 1).val = y
      BY <1>5, <3>1
    <3> QED
      BY <3>2 DEF y
  <2>4. val(Head(s), 1) = (Forms!Lesser(x, IntMax) * 1) % (Forms!UlongMax + 1)
    BY <2>1, Zenon
  <2> HIDE DEF val
  <2>5. Forms!Lesser(x, IntMax) = x
    BY <1>0, <1>6 DEF Forms!Lesser
  <2>6. (x * 1) % (Forms!UlongMax + 1) = x
    BY <1>0, <1>6
  <2> QED
    BY <2>2, <2>3, <2>4, <2>5, <2>6 DEF s
<1> QED
  BY <1>6, <1>7, SingleReadsBack DEF Forms!IoKinds

\* Every number that is taken.
LEMMA NumbersReadBack ==
  ASSUME NEW k \in NumKinds, NEW t, NEW old, NEW want, Taken(k, t)
  PROVE  ReadsBack(k, t, old, want)
<1>1. k \in PairKinds \union {"PHYSPAGES", "IOLIMIT", "IOPSLIMIT", "CPUUNITS", "CPULIMIT"}
  BY DEF NumKinds, PairKinds, Forms!UbKinds, Forms!IoKinds
<1> QED
  BY <1>1, PairsReadBack, PhyspagesReadBack, IolimitReadBack, IopsReadBack, UnitsReadBack, LimitReadBack

\* A finite set that is written as a list is the set of its words.
LEMMA SeqOfSet ==
  ASSUME NEW S, IsFiniteSet(S)
  PROVE  Forms!SetToSeq(S) \in Seq(S) /\ Forms!ToSet(Forms!SetToSeq(S)) = S
<1> DEFINE n == Cardinality(S)
           f == Forms!SetToSeq(S)
<1>1. n \in Nat /\ ExistsBijection(1..n, S)
  BY FS_CardinalityType
<1>2. \E g \in [1..n -> S] : Forms!IsInjective(g)
  BY <1>1 DEF ExistsBijection, Bijection, Injection, IsInjective, Forms!IsInjective
<1>0. Forms!Cardinality(S) = n
  BY DEF Forms!Cardinality, Cardinality
<1>3. f \in [1..n -> S] /\ Forms!IsInjective(f)
  <2> HIDE DEF n
  <2> QED
    BY <1>0, <1>2, Zenon DEF Forms!SetToSeq
<1> HIDE DEF f
<1>4. f \in Injection(1..n, S)
  BY <1>3 DEF Injection, IsInjective, Forms!IsInjective
<1>5. Cardinality(1..n) = n
  BY <1>1, FS_Interval
<1>6. f \in Surjection(1..n, S)
  BY <1>4, <1>5, FS_Injection
<1>7. f \in Seq(S) /\ DOMAIN f = 1..n
  BY <1>1, <1>3
<1>8. {f[i] : i \in DOMAIN f} = S
  BY <1>3, <1>6, <1>7 DEF Surjection
<1> QED
  BY <1>7, <1>8 DEF Forms!ToSet, f

\* Switches, tokens and records are kept, and are not nothing.
LEMMA KeptIs ==
  /\ "yes" # None /\ "no" # None
  /\ \A x \in Titles : x # None
  /\ \A x \in SUBSET Labels : x # None
  /\ \A x \in SUBSET Slots : x # None
  /\ \A x \in SUBSET Forms!Switches(Titles) : x # None
  /\ \A x \in Seq(Tokens) : x # None
  /\ \A x \in [Forms!Bits -> BOOLEAN] : x # None
  /\ \A x \in [mode : {"none", "pages", "privvmpages"}, val : Nat \union {None}] : x # None
  /\ \A x \in [on : SUBSET Titles, off : SUBSET Titles] : x # None
  /\ \A x \in [known : SUBSET Titles, mask : SUBSET Titles] : x # None
  /\ \A x \in [op : {"add", "del"}, devs : (SUBSET Tokens) \union Seq(Tokens)] : x # None
BY NoneIsNothing, FormsAssumption, Zenon DEF Kept

\* The tokens of a list.
LEMMA TokensAre ==
  /\ Titles \subseteq Tokens /\ Labels \subseteq Tokens /\ Seq(Nat) \subseteq Tokens
  /\ [name : Titles, state : {"on", "off"}] \subseteq Tokens
  /\ [major : Nat, minor : {"1", "all"}, mode : SUBSET {"r", "w"}] \subseteq Tokens
BY Zenon DEF Tokens

\* The texts of the forms that are no numbers.
LEMMA TextsOther ==
  /\ Forms!Texts("CPUMASK") = Forms!Words(Forms!Ranges) \union {Forms!All}
  /\ Forms!Texts("MEMINFO") = [mode : {"none", "pages", "privvmpages"}, val : {None} \union Amounts]
  /\ Forms!Texts("CAPABILITY") = Forms!Words(Forms!Switches(Forms!Caps \union {"abc"}))
  /\ Forms!Texts("IPTABLES") = Forms!Words(DOMAIN Forms!Needs \union {"abc"})
  /\ Forms!Texts("FEATURES") =
       Forms!Words(Forms!Switches(Forms!ToSet(Forms!Features) \union {"abc"} \union {}))
  /\ Forms!Texts("DEVICES") = Forms!Words(Forms!Granted)
  /\ Forms!Texts("PCI") = [op : {"add", "del"}, devs : Forms!Words({<<1>>, <<0, 1>>, <<1, 1>>, <<2>>})]
  /\ Forms!Texts("NETDEV") = [op : {"add", "del"}, devs : Forms!Words({"eth0", "eth1", "lo"})]
  /\ Forms!Texts("ONBOOT") = {"yes", "no", "maybe"}
<1>1. \A x : ~Forms!Is(x)
  BY DEF Forms!Is
<1> QED
  BY <1>1, Zenon DEF Forms!Texts

\* The parser of each form that is no number.
LEMMA ParseOther ==
  ASSUME NEW t, NEW c
  PROVE  /\ Forms!Parse("CPUMASK", t, c) = Forms!Bitmap(t)
         /\ Forms!Parse("MEMINFO", t, c) = Forms!Meminfo(t)
         /\ Forms!Parse("CAPABILITY", t, c) = Forms!Cap(t)
         /\ Forms!Parse("IPTABLES", t, c) = Forms!Iptables(t)
         /\ Forms!Parse("FEATURES", t, c) = Forms!Feature(t)
         /\ Forms!Parse("DEVICES", t, c) = Forms!Devices(t)
         /\ Forms!Parse("PCI", t, c) = Forms!Pci(t)
         /\ Forms!Parse("NETDEV", t, c) = Forms!Netdev(t)
         /\ Forms!Parse("ONBOOT", t, c) = Forms!YesNo(t)
BY Zenon DEF Forms!Parse, Forms!UbKinds, Forms!IoKinds

\* The printer of each form that is no number.
LEMMA StoreOther ==
  ASSUME NEW v, NEW old
  PROVE  /\ Forms!Store("CPUMASK", v, old) = Forms!BitmapStr(v)
         /\ Forms!Store("MEMINFO", v, old) = Forms!MeminfoStr(v)
         /\ Forms!Store("CAPABILITY", v, old) = Forms!CapStr(v, old)
         /\ Forms!Store("IPTABLES", v, old) = Forms!IptablesStr(v)
         /\ Forms!Store("FEATURES", v, old) = Forms!FeatureStr(v, old)
         /\ Forms!Store("DEVICES", v, old) = v
         /\ Forms!Store("PCI", v, old) = Forms!PciStr(v, old)
         /\ Forms!Store("NETDEV", v, old) = Forms!NetdevStr(v, old)
         /\ Forms!Store("ONBOOT", v, old) = v
BY Zenon DEF Forms!Store, Forms!UbKinds, Forms!IoKinds, Forms!DevicesStr

\* The meaning of the forms that are no numbers.
LEMMA MeaningOther ==
  ASSUME NEW t, NEW want
  PROVE  /\ Forms!Meaning("CPUMASK", t, want) =
              IF t = Forms!All THEN 0..(NBits - 1) ELSE UNION {r[1]..r[2] : r \in Forms!ToSet(t)}
         /\ Forms!Meaning("MEMINFO", t, want) = t
         /\ Forms!Meaning("CAPABILITY", t, want) = Forms!Winning(Forms!Latest(t, Forms!AsSet(want)))
         /\ Forms!Meaning("IPTABLES", t, want) = UNION {Forms!Needs[m] : m \in Forms!ToSet(t)}
         /\ Forms!Meaning("FEATURES", t, want) = Forms!Winning(Forms!Latest(t, Forms!AsSet(want)))
         /\ Forms!Meaning("DEVICES", t, want) = [i \in DOMAIN t |-> Forms!ParsedDevice(t[i])]
         /\ Forms!Meaning("PCI", t, want) =
              LET devs == {IF Len(d) = 1 THEN <<0>> \o d ELSE d : d \in Forms!ToSet(t.devs)}
              IN  IF t.op = "add" THEN Forms!AsSet(want) \union devs ELSE Forms!AsSet(want) \ devs
         /\ Forms!Meaning("NETDEV", t, want) =
              IF t.op = "add" THEN Forms!AsSet(want) \union Forms!ToSet(t.devs)
              ELSE Forms!AsSet(want) \ Forms!ToSet(t.devs)
         /\ Forms!Meaning("ONBOOT", t, want) = t
<1>1. Forms!ToSet(t.devs) = {d : d \in Forms!ToSet(t.devs)}
  OBVIOUS
<1> QED
  BY <1>1, Zenon DEF Forms!Meaning, Forms!ParsedDevice

\* What a value in memory means, for the same forms.
LEMMA ViewOther ==
  ASSUME NEW v, v # None
  PROVE  /\ Forms!View("CPUMASK", v) = {i \in 0..(NBits - 1) : v[i]}
         /\ Forms!View("MEMINFO", v) = Forms!MeminfoStr(v)
         /\ Forms!View("CAPABILITY", v) =
              {Forms!Switch(c, "on") : c \in v.on} \union {Forms!Switch(c, "off") : c \in v.off}
         /\ Forms!View("FEATURES", v) =
              {Forms!Switch(f, IF f \in v.mask THEN "on" ELSE "off") : f \in v.known}
         /\ \A k \in {"PCI", "NETDEV"} : Forms!View(k, v) = v.devs
         /\ \A k \in {"IPTABLES", "DEVICES", "ONBOOT"} : Forms!View(k, v) = v
BY Zenon DEF Forms!View

\* A text of words is a sequence of them.
LEMMA WordsIs ==
  ASSUME NEW S, NEW t \in Forms!Words(S)
  PROVE  /\ t \in Seq(S) /\ t # <<>> /\ Forms!ToSet(t) \subseteq S
         /\ Len(t) \in Nat \ {0} /\ DOMAIN t = 1..Len(t) /\ (\A i \in DOMAIN t : t[i] \in S)
         /\ IsFiniteSet(Forms!ToSet(t)) /\ Forms!ToSet(t) # {}
<1>1. PICK n \in 1..MaxWords : t \in [1..n -> S]
  BY DEF Forms!Words
<1>2. n \in Nat \ {0}
  BY SizesHold DEF InProportion
<1>3. t \in Seq(S) /\ t # <<>> /\ Len(t) = n /\ DOMAIN t = 1..n
  BY <1>1, <1>2
<1>4. Forms!ToSet(t) = {t[i] : i \in 1..n}
  BY <1>3 DEF Forms!ToSet
<1>5. t[1] \in Forms!ToSet(t) /\ Forms!ToSet(t) \subseteq S
  BY <1>1, <1>2, <1>4
<1>6. IsFiniteSet(Forms!ToSet(t))
  <2> DEFINE U == Forms!ToSet(t)
  <2>1. t \in Seq(U) /\ \A s \in U : \E i \in 1..Len(t) : t[i] = s
    BY <1>2, <1>3, <1>4
  <2> HIDE DEF U
  <2>2. \E q \in Seq(U) : \A s \in U : \E i \in 1..Len(q) : q[i] = s
    BY <2>1
  <2> QED
    BY <2>2 DEF IsFiniteSet, U
<1> QED
  BY <1>1, <1>2, <1>3, <1>5, <1>6

\* The codes of a refusal are not success.
LEMMA CodesAre ==
  /\ Forms!Inval.code # "OK"
  /\ \A y : Forms!Got(y).val = y /\ Forms!Got(y).code = "OK"
  /\ \A y, c : Forms!Code(c, y).val = y /\ Forms!Code(c, y).code = c
BY DEF Forms!Inval, Forms!Code, Forms!Got

\* Of these forms any value may be in memory.
LEMMA NothingHeld ==
  ASSUME NEW k \in {"CPUMASK", "MEMINFO", "IPTABLES", "DEVICES", "ONBOOT"}, NEW p
  PROVE  Held(k, p)
BY DEF Held

\* --onboot
LEMMA OnbootReadBack ==
  ASSUME NEW t, NEW old, NEW want, Taken("ONBOOT", t)
  PROVE  ReadsBack("ONBOOT", t, old, want)
<1>1. \A c : Forms!Parse("ONBOOT", t, c) = Forms!YesNo(t)
  BY ParseOther
<1>2. t \in {"yes", "no"}
  BY <1>1, CodesAre DEF Taken, Forms!YesNo
<1>3. \A c : Forms!Parse("ONBOOT", t, c).val = t
  BY <1>1, <1>2, CodesAre DEF Forms!YesNo
<1>4. t # None
  BY <1>2, KeptIs
<1>5. Forms!Store("ONBOOT", t, old) = t /\ Forms!Meaning("ONBOOT", t, want) = t /\ Forms!View("ONBOOT", t) = t
  BY <1>4, StoreOther, MeaningOther, ViewOther
<1>6. Held("ONBOOT", t)
  BY NothingHeld
<1> QED
  BY <1>3, <1>4, <1>5, <1>6, Zenon DEF ReadsBack

\* --meminfo
LEMMA MeminfoReadBack ==
  ASSUME NEW t, NEW old, NEW want, Taken("MEMINFO", t)
  PROVE  ReadsBack("MEMINFO", t, old, want)
<1> DEFINE v == [mode |-> t.mode, val |-> IF t.val = None THEN 0 ELSE t.val]
           Modes == {"none", "pages", "privvmpages"}
<1>1. \A c : Forms!Parse("MEMINFO", t, c) = Forms!Meminfo(t)
  BY ParseOther
<1>2. t \in [mode : Modes, val : {None} \union Nat]
  <2>1. t \in [mode : Modes, val : {None} \union Amounts]
    BY TextsOther DEF Taken
  <2> QED
    BY <2>1, SizesHold
<1>3. ~((t.mode = "none") # (t.val = None) \/ t.val = 0)
  BY <1>1, CodesAre, Zenon DEF Taken, Forms!Meminfo
<1>4. \A c : Forms!Parse("MEMINFO", t, c).val = v
  <2>1. Forms!Meminfo(t) = Forms!Got(v)
    BY <1>3, Zenon DEF Forms!Meminfo
  <2> HIDE DEF v
  <2> QED
    BY <1>1, <2>1, CodesAre
<1>5. v \in [mode : Modes, val : Nat \union {None}] /\ v.mode = t.mode
  BY <1>2
<1>6. Forms!MeminfoStr(v) = t
  BY <1>2, <1>3, <1>5 DEF Forms!MeminfoStr
<1> HIDE DEF v
<1>7. v # None /\ t # None
  BY <1>2, <1>5, KeptIs
<1>8. Forms!Store("MEMINFO", v, old) = t /\ Forms!Meaning("MEMINFO", t, want) = t /\ Forms!View("MEMINFO", v) = t
  BY <1>6, <1>7, StoreOther, MeaningOther, ViewOther
<1>9. Held("MEMINFO", v)
  BY NothingHeld
<1> QED
  BY <1>4, <1>7, <1>8, <1>9, Zenon DEF ReadsBack

\* --devices
LEMMA DevicesReadBack ==
  ASSUME NEW t, NEW old, NEW want, Taken("DEVICES", t)
  PROVE  ReadsBack("DEVICES", t, old, want)
<1> DEFINE Dev == [major : Nat, minor : {"1", "all"}, mode : SUBSET {"r", "w"}]
<1>1. \A c : Forms!Parse("DEVICES", t, c) = Forms!Devices(t)
  BY ParseOther
<1>2. Forms!Granted \subseteq Dev
  BY DEF Forms!Granted, Forms!Loop, Forms!Is
<1>3. t \in Forms!Words(Forms!Granted)
  BY TextsOther DEF Taken
<1>4. /\ t # <<>> /\ Len(t) \in Nat \ {0} /\ DOMAIN t = 1..Len(t)
      /\ t \in Seq(Forms!Granted) /\ (\A i \in DOMAIN t : t[i] \in Dev)
  BY <1>2, <1>3, WordsIs
<1>5. \A d \in Dev : Forms!ParsedDevice(d) = d
  <2> TAKE d \in Dev
  <2>1. d.mode \in SUBSET {"r", "w"}
    OBVIOUS
  <2>2. d.mode \ {"none"} = d.mode
    BY <2>1
  <2> QED
    BY <2>2 DEF Forms!ParsedDevice
<1> HIDE DEF Dev
<1>6. [i \in DOMAIN t |-> Forms!ParsedDevice(t[i])] = t
  BY <1>4, <1>5
<1> DEFINE bad == {i \in DOMAIN t : Forms!Refused(t[i])}
           good == SubSeq(t, 1, IF bad = {} THEN Len(t) ELSE Forms!Min(bad) - 1)
<1>7. Forms!Devices(t) =
        Forms!Code(IF bad = {} THEN "OK" ELSE "INVAL",
                   IF good = <<>> THEN None ELSE [i \in DOMAIN good |-> Forms!ParsedDevice(good[i])])
  BY DEF Forms!Devices
<1>8. bad = {}
  <2> DEFINE c == IF bad = {} THEN "OK" ELSE "INVAL"
             y == IF good = <<>> THEN None ELSE [i \in DOMAIN good |-> Forms!ParsedDevice(good[i])]
  <2>1. Forms!Devices(t) = Forms!Code(c, y)
    BY <1>7, Zenon
  <2>2. bad # {} => c # "OK"
    BY Zenon
  <2> HIDE DEF c, y
  <2>3. Forms!Code(c, y).code = c
    BY DEF Forms!Code
  <2> QED
    BY <1>1, <2>1, <2>2, <2>3, Zenon DEF Taken
<1>9. good = t
  <2>1. good = SubSeq(t, 1, Len(t))
    BY <1>8
  <2> HIDE DEF good, bad
  <2>2. SubSeq(t, 1, Len(t)) = t
    BY <1>4, SubSeqFull
  <2> QED
    BY <2>1, <2>2
<1> HIDE DEF bad, good
<1>10. \A c : Forms!Parse("DEVICES", t, c).val = t
  BY <1>1, <1>4, <1>6, <1>7, <1>9, CodesAre
<1>11. t # None
  <2>1. Dev \subseteq Tokens
    BY DEF Tokens, Dev
  <2>2. t \in Seq(Tokens)
    BY <1>4, <2>1
  <2> QED
    BY <2>2, KeptIs
<1>12. Forms!Store("DEVICES", t, old) = t /\ Forms!Meaning("DEVICES", t, want) = t /\ Forms!View("DEVICES", t) = t
  BY <1>6, <1>11, StoreOther, MeaningOther, ViewOther
<1>13. Held("DEVICES", t)
  BY NothingHeld
<1> QED
  BY <1>10, <1>11, <1>12, <1>13, Zenon DEF ReadsBack

\* --iptables
LEMMA IptablesReadBack ==
  ASSUME NEW t, NEW old, NEW want, Taken("IPTABLES", t)
  PROVE  ReadsBack("IPTABLES", t, old, want)
<1> DEFINE Mods == {"ip_tables", "iptable_nat", "ip_conntrack"}
           v == UNION {Forms!Needs[m] : m \in Forms!ToSet(t)}
           l == Forms!SetToSeq(v)
<1>1. /\ DOMAIN Forms!Needs = Mods
      /\ Forms!Needs["ip_tables"] = {"ip_tables"}
      /\ Forms!Needs["iptable_nat"] = {"ip_tables", "ip_conntrack", "iptable_nat"}
      /\ Forms!Needs["ip_conntrack"] = {"ip_tables", "ip_conntrack"}
  BY DEF Forms!Needs
<1>2. ASSUME NEW s, Forms!ToSet(s) \subseteq Mods
      PROVE  Forms!Iptables(s) = Forms!Code("OK", UNION {Forms!Needs[m] : m \in Forms!ToSet(s)})
  <2>1. Forms!ToSet(s) \intersect DOMAIN Forms!Needs = Forms!ToSet(s)
    BY <1>1, <1>2
  <2> QED
    BY <2>1, Zenon DEF Forms!Iptables
<1>3. \A c : Forms!Parse("IPTABLES", t, c) = Forms!Iptables(t)
  BY ParseOther
<1>4. Forms!ToSet(t) \subseteq Mods
  <2> DEFINE known == Forms!ToSet(t) \intersect DOMAIN Forms!Needs
             c == IF known = Forms!ToSet(t) THEN "OK" ELSE "SKIP"
             y == UNION {Forms!Needs[m] : m \in known}
  <2>1. Forms!Iptables(t) = Forms!Code(c, y)
    BY Zenon DEF Forms!Iptables
  <2>2. c = "OK" => known = Forms!ToSet(t)
    BY Zenon
  <2> HIDE DEF c, y
  <2>3. Forms!Code(c, y).code = c
    BY DEF Forms!Code
  <2>4. c = "OK"
    BY <1>3, <2>1, <2>3, Zenon DEF Taken
  <2> QED
    BY <1>1, <2>2, <2>4
<1>5. \A c : Forms!Parse("IPTABLES", t, c).val = v
  <2>1. Forms!Iptables(t) = Forms!Code("OK", v)
    BY <1>2, <1>4
  <2> HIDE DEF v
  <2>2. Forms!Code("OK", v).val = v
    BY DEF Forms!Code
  <2> QED
    BY <1>3, <2>1, <2>2, Zenon
<1>6. v \subseteq Mods /\ (\A m \in v : Forms!Needs[m] \subseteq v) /\ (\A m \in Mods : m \in Forms!Needs[m])
  BY <1>1, <1>4
<1> HIDE DEF v, Mods
<1>7. IsFiniteSet(v)
  <2>1. IsFiniteSet(Mods)
    <3>1. Mods = {"ip_tables"} \union {"iptable_nat"} \union {"ip_conntrack"}
      BY DEF Mods
    <3> QED
      BY <3>1, FS_Singleton, FS_AddElement
  <2> QED
    BY <1>6, <2>1, FS_Subset
<1>8. l \in Seq(v) /\ Forms!ToSet(l) = v
  BY <1>7, SeqOfSet
<1>9. UNION {Forms!Needs[m] : m \in v} = v
  BY <1>6
<1> HIDE DEF l
<1>10. \A c : Forms!Parse("IPTABLES", l, c).val = v
  <2>1. Forms!Iptables(l) = Forms!Code("OK", v)
    BY <1>2, <1>6, <1>8, <1>9
  <2> QED
    BY <2>1, ParseOther, CodesAre
<1>11. v # None /\ l # None
  <2>1. Mods \subseteq Labels /\ Mods \subseteq Tokens
    BY <1>1, TokensAre DEF Labels
  <2>2. v \in SUBSET Labels /\ l \in Seq(Tokens)
    BY <1>6, <1>8, <2>1
  <2> QED
    BY <2>2, KeptIs
<1>12. Forms!Store("IPTABLES", v, old) = l /\ Forms!Meaning("IPTABLES", t, want) = v /\ Forms!View("IPTABLES", v) = v
  BY <1>11, StoreOther, MeaningOther, ViewOther DEF Forms!IptablesStr, l, v
<1>13. Held("IPTABLES", v)
  BY NothingHeld
<1> QED
  BY <1>5, <1>10, <1>11, <1>12, <1>13, Zenon DEF ReadsBack

\* The list that a command leaves.
Leaves(v, old, want, S) ==
  /\ Forms!ListAfter(v, old) \in SUBSET S /\ IsFiniteSet(Forms!ListAfter(v, old))
  /\ Forms!ListAfter(v, old) = IF v.op = "add" THEN Forms!AsSet(want) \union v.devs
                               ELSE Forms!AsSet(want) \ v.devs

\* merge: a list after devices are added to it or deleted from it.
LEMMA ListAfterIs ==
  ASSUME NEW k \in {"PCI", "NETDEV"}, NEW S, \A X \in SUBSET S : X # None, NEW v, v.devs \in SUBSET S, IsFiniteSet(v.devs),
         NEW old, NEW want, Before(k, old, want), old # None => old.devs \in SUBSET S /\ IsFiniteSet(old.devs)
  PROVE  Leaves(v, old, want, S)
<1> DEFINE devs == IF old = None THEN {} ELSE old.devs
<1>1. devs \in SUBSET S /\ IsFiniteSet(devs)
  BY FS_EmptySet
<1>2. Forms!AsSet(want) = devs
  <2>1. CASE old = None /\ want = None
    BY <2>1, Zenon DEF Forms!AsSet
  <2>2. CASE old # None /\ Forms!View(k, old) = want
    <3>1. want = old.devs
      BY <2>2, ViewOther
    <3>2. old.devs \in SUBSET S
      BY <2>2
    <3>3. want # None
      BY <3>1, <3>2
    <3> QED
      BY <2>2, <3>1, <3>3, Zenon DEF Forms!AsSet
  <2> QED
    BY <2>1, <2>2 DEF Before
<1>3. Forms!ListAfter(v, old) = IF v.op = "add" THEN devs \union v.devs ELSE devs \ v.devs
  BY Zenon DEF Forms!ListAfter
<1> HIDE DEF devs
<1>4. IsFiniteSet(devs \union v.devs) /\ IsFiniteSet(devs \ v.devs)
  BY <1>1, FS_Union, FS_Difference
<1> QED
  BY <1>1, <1>2, <1>3, <1>4 DEF Leaves

\* --netdev_add and --netdev_del
LEMMA NetdevReadBack ==
  ASSUME NEW t, NEW old, NEW want, Taken("NETDEV", t), Before("NETDEV", old, want)
  PROVE  ReadsBack("NETDEV", t, old, want)
<1> DEFINE E == {"eth0", "eth1"}
           devs == Forms!ToSet(t.devs)
           v == [op |-> t.op, devs |-> devs]
           L == Forms!ListAfter(v, old)
           s == Forms!SetToSeq(L)
           l == [op |-> "add", devs |-> s]
           p == [op |-> "add", devs |-> L]
<1>1. t.op \in {"add", "del"} /\ t.devs \in Forms!Words({"eth0", "eth1", "lo"})
  <2>1. t \in [op : {"add", "del"}, devs : Forms!Words({"eth0", "eth1", "lo"})]
    BY TextsOther DEF Taken
  <2> QED
    BY <2>1
<1>2. \A c, x : Forms!Parse("NETDEV", x, c) = Forms!Netdev(x)
  BY ParseOther
<1>3. devs \intersect Forms!Strict = {}
  BY <1>2, CodesAre, Zenon DEF Taken, Forms!Netdev
<1>4. devs \subseteq E /\ IsFiniteSet(devs)
  <2>1. devs \subseteq {"eth0", "eth1", "lo"} /\ IsFiniteSet(devs)
    BY <1>1, WordsIs
  <2> HIDE DEF devs
  <2> QED
    BY <1>3, <2>1 DEF Forms!Strict
<1>5. Forms!Netdev(t) = Forms!Got(v)
  BY <1>3, Zenon DEF Forms!Netdev
<1>6. /\ E \in SUBSET Tokens /\ (\A X \in SUBSET E : X # None)
      /\ E \intersect Forms!Strict = {} /\ IsFiniteSet(E)
  <2>1. E = {"eth0"} \union {"eth1"}
    OBVIOUS
  <2>2. IsFiniteSet(E)
    <3>1. IsFiniteSet({"eth0"})
      BY FS_Singleton
    <3> QED
      BY <2>1, <3>1, FS_AddElement
  <2>3. E \intersect Forms!Strict = {}
    BY DEF Forms!Strict
  <2>4. E \subseteq Labels
    BY DEF Labels
  <2> HIDE DEF E
  <2> QED
    BY <2>2, <2>3, <2>4, TokensAre, KeptIs
<1>7. old # None => old.devs \in SUBSET E /\ IsFiniteSet(old.devs)
  <2> SUFFICES ASSUME old # None PROVE old.devs \in SUBSET E /\ IsFiniteSet(old.devs)
    OBVIOUS
  <2>1. Held("NETDEV", old)
    BY DEF Before
  <2>2. old.devs \in SUBSET E
    BY <2>1 DEF Held
  <2> HIDE DEF E
  <2> QED
    BY <1>6, <2>2, FS_Subset
<1> HIDE DEF devs, E
<1>8. v.devs = devs /\ v.op = t.op
  OBVIOUS
<1> HIDE DEF v
<1>9. /\ L \in SUBSET E /\ IsFiniteSet(L)
      /\ L = IF v.op = "add" THEN Forms!AsSet(want) \union v.devs ELSE Forms!AsSet(want) \ v.devs
  <2>1. (\A X \in SUBSET E : X # None) /\ v.devs \in SUBSET E /\ IsFiniteSet(v.devs)
    BY <1>4, <1>6, <1>8, Zenon
  <2>2. "NETDEV" \in {"PCI", "NETDEV"}
    BY Zenon
  <2>3. Leaves(v, old, want, E)
    BY <1>7, <2>1, <2>2, ListAfterIs, Zenon
  <2> QED
    BY <2>3 DEF Leaves
<1>10. Forms!Meaning("NETDEV", t, want) = L
  BY <1>8, <1>9, MeaningOther DEF devs
<1> HIDE DEF L
<1>11. s \in Seq(L) /\ Forms!ToSet(s) = L
  BY <1>9, SeqOfSet
<1> HIDE DEF s
<1>12. Forms!Netdev(l) = Forms!Got(p)
  <2>1. Forms!ToSet(l.devs) = L /\ l.op = "add"
    BY <1>11
  <2>2. ~(Forms!ToSet(l.devs) \intersect Forms!Strict # {})
    BY <1>6, <1>9, <2>1
  <2> HIDE DEF l
  <2> QED
    BY <2>1, <2>2, Zenon DEF Forms!Netdev
<1>13. l # None /\ p # None /\ v # None
  <2>1. v \in [op : {"add", "del"}, devs : (SUBSET Tokens) \union Seq(Tokens)]
    BY <1>1, <1>4, <1>6 DEF v
  <2>2. s \in Seq(Tokens) /\ L \in SUBSET Tokens
    BY <1>6, <1>9, <1>11
  <2>3. l \in [op : {"add", "del"}, devs : (SUBSET Tokens) \union Seq(Tokens)]
    BY <2>2
  <2>4. p \in [op : {"add", "del"}, devs : (SUBSET Tokens) \union Seq(Tokens)]
    BY <2>2
  <2> HIDE DEF l, p
  <2> QED
    BY <2>1, <2>3, <2>4, KeptIs
<1>14. Held("NETDEV", p) /\ p.devs = L
  BY <1>9 DEF Held, E
<1>15. Forms!Store("NETDEV", v, old) = l
  BY StoreOther DEF Forms!NetdevStr, L, s
<1> HIDE DEF l, p
<1>16. Forms!View("NETDEV", p) = L
  BY <1>13, <1>14, ViewOther
<1>17. /\ Forms!Parse("NETDEV", t, TRUE).val = v
       /\ Forms!Parse("NETDEV", l, FALSE).val = p
  <2>1. Forms!Got(v).val = v /\ Forms!Got(p).val = p
    BY DEF Forms!Got
  <2> QED
    BY <1>2, <1>5, <1>12, <2>1, Zenon
<1> QED
  BY <1>10, <1>13, <1>14, <1>15, <1>16, <1>17, Zenon DEF ReadsBack

\* --pci_add and --pci_del, where a missing domain is the first.
LEMMA PciReadBack ==
  ASSUME NEW t, NEW old, NEW want, Taken("PCI", t), Before("PCI", old, want)
  PROVE  ReadsBack("PCI", t, old, want)
<1> DEFINE E == Slots
           full(d) == IF Len(d) = 2 THEN d ELSE <<0>> \o d
           devs == {full(d) : d \in Forms!ToSet(t.devs)}
           v == [op |-> t.op, devs |-> devs]
           L == Forms!ListAfter(v, old)
           s == Forms!SetToSeq(L)
           l == [op |-> "add", devs |-> s]
           p == [op |-> "add", devs |-> L]
<1>1. t.op \in {"add", "del"} /\ t.devs \in Forms!Words({<<1>>, <<0, 1>>, <<1, 1>>, <<2>>})
  <2>1. t \in [op : {"add", "del"}, devs : Forms!Words({<<1>>, <<0, 1>>, <<1, 1>>, <<2>>})]
    BY TextsOther DEF Taken
  <2> QED
    BY <2>1
<1>2. \A c, x : Forms!Parse("PCI", x, c) = Forms!Pci(x)
  BY ParseOther
<1>3. \A x : Forms!Pci(x) = Forms!Got([op |-> x.op, devs |-> {full(d) : d \in Forms!ToSet(x.devs)}])
  BY Zenon DEF Forms!Pci
<1>4. \A d \in {<<1>>, <<0, 1>>, <<1, 1>>, <<2>>} :
        full(d) \in E /\ (IF Len(d) = 1 THEN <<0>> \o d ELSE d) = full(d)
  <2>0. ASSUME NEW a \in Nat
        PROVE  Len(<<a>>) = 1 /\ <<0>> \o <<a>> = <<0, a>>
    <3> DEFINE q == <<0>> \o <<a>>
    <3>1. <<0>> \in Seq(Nat) /\ <<a>> \in Seq(Nat) /\ Len(<<0>>) = 1 /\ Len(<<a>>) = 1
      OBVIOUS
    <3>2. q \in Seq(Nat) /\ Len(q) = 2 /\ q[1] = 0 /\ q[2] = a
      BY <3>1
    <3> HIDE DEF q
    <3>3. q = <<q[1], q[2]>>
      BY <3>2
    <3> QED
      BY <3>1, <3>2, <3>3 DEF q
  <2>1. Len(<<1>>) = 1 /\ <<0>> \o <<1>> = <<0, 1>> /\ <<0, 1>> \in E
    BY <2>0, Zenon DEF Slots
  <2>2. Len(<<2>>) = 1 /\ <<0>> \o <<2>> = <<0, 2>> /\ <<0, 2>> \in E
    BY <2>0, Zenon DEF Slots
  <2>3. Len(<<0, 1>>) = 2 /\ Len(<<1, 1>>) = 2 /\ <<1, 1>> \in E
    BY DEF Slots
  <2>4. 1 # 2
    OBVIOUS
  <2> HIDE DEF E
  <2> QED
    BY <2>1, <2>2, <2>3, <2>4, Zenon
<1>5. /\ devs \subseteq E /\ IsFiniteSet(devs)
      /\ {IF Len(d) = 1 THEN <<0>> \o d ELSE d : d \in Forms!ToSet(t.devs)} = devs
  <2> DEFINE T == Forms!ToSet(t.devs)
  <2>1. T \subseteq {<<1>>, <<0, 1>>, <<1, 1>>, <<2>>} /\ IsFiniteSet(T)
    BY <1>1, WordsIs
  <2>2. IsFiniteSet(devs)
    <3> DEFINE f == [d \in T |-> full(d)]
    <3> HIDE DEF T, full
    <3>1. f \in [T -> devs] /\ \A x \in devs : \E d \in T : f[d] = x
      BY DEF T
    <3>2. f \in Surjection(T, devs)
      BY <3>1 DEF Surjection
    <3> QED
      BY <2>1, <3>2, FS_Surjection
  <2> HIDE DEF T
  <2>3. \A d \in T : full(d) \in E /\ (IF Len(d) = 1 THEN <<0>> \o d ELSE d) = full(d)
    BY <1>4, <2>1
  <2> HIDE DEF full, E
  <2> QED
    BY <2>2, <2>3 DEF T
<1>6. /\ E \in SUBSET Tokens /\ (\A X \in SUBSET E : X # None)
      /\ \A d \in E : full(d) = d
  <2>1. \A a, b \in Nat : <<a, b>> \in Seq(Nat) /\ Len(<<a, b>>) = 2
    OBVIOUS
  <2>2. \A d \in E : d \in Seq(Nat) /\ full(d) = d
    <3> TAKE d \in E
    <3>1. PICK a, b \in Nat : d = <<a, b>>
      BY DEF Slots
    <3>2. d \in Seq(Nat) /\ Len(d) = 2
      BY <2>1, <3>1
    <3> QED
      BY <3>2
  <2> HIDE DEF E
  <2> QED
    BY <2>2, TokensAre, KeptIs DEF E
<1>7. old # None => old.devs \in SUBSET E /\ IsFiniteSet(old.devs)
  BY DEF Before, Held
<1> HIDE DEF devs, E, full
<1>8. v.devs = devs /\ v.op = t.op
  OBVIOUS
<1> HIDE DEF v
<1>9. /\ L \in SUBSET E /\ IsFiniteSet(L)
      /\ L = IF v.op = "add" THEN Forms!AsSet(want) \union v.devs ELSE Forms!AsSet(want) \ v.devs
  <2>1. (\A X \in SUBSET E : X # None) /\ v.devs \in SUBSET E /\ IsFiniteSet(v.devs)
    BY <1>5, <1>6, <1>8, Zenon
  <2>2. "PCI" \in {"PCI", "NETDEV"}
    BY Zenon
  <2>3. Leaves(v, old, want, E)
    BY <1>7, <2>1, <2>2, ListAfterIs, Zenon
  <2> QED
    BY <2>3 DEF Leaves
<1>10. Forms!Meaning("PCI", t, want) = L
  BY <1>5, <1>8, <1>9, MeaningOther
<1> HIDE DEF L
<1>11. s \in Seq(L) /\ Forms!ToSet(s) = L
  BY <1>9, SeqOfSet
<1> HIDE DEF s
<1>12. Forms!Pci(l) = Forms!Got(p)
  <2>1. Forms!ToSet(l.devs) = L /\ l.op = "add"
    BY <1>11
  <2>2. {full(d) : d \in L} = L
    BY <1>6, <1>9
  <2> HIDE DEF l
  <2> QED
    BY <1>3, <2>1, <2>2
<1>13. l # None /\ p # None /\ v # None
  <2>1. v \in [op : {"add", "del"}, devs : (SUBSET Tokens) \union Seq(Tokens)]
    BY <1>1, <1>5, <1>6 DEF v
  <2>2. s \in Seq(Tokens) /\ L \in SUBSET Tokens
    BY <1>6, <1>9, <1>11
  <2>3. l \in [op : {"add", "del"}, devs : (SUBSET Tokens) \union Seq(Tokens)]
    BY <2>2
  <2>4. p \in [op : {"add", "del"}, devs : (SUBSET Tokens) \union Seq(Tokens)]
    BY <2>2
  <2> HIDE DEF l, p
  <2> QED
    BY <2>1, <2>3, <2>4, KeptIs
<1>14. Held("PCI", p) /\ p.devs = L
  BY <1>9 DEF Held, E
<1>15. Forms!Store("PCI", v, old) = l
  BY StoreOther DEF Forms!PciStr, L, s
<1> HIDE DEF l, p
<1>16. Forms!View("PCI", p) = L
  BY <1>13, <1>14, ViewOther
<1>17. /\ Forms!Parse("PCI", t, TRUE).val = v
       /\ Forms!Parse("PCI", l, FALSE).val = p
  <2>1. Forms!Got(v).val = v /\ Forms!Got(p).val = p
    BY DEF Forms!Got
  <2>2. Forms!Pci(t) = Forms!Got(v)
    BY <1>3, Zenon DEF v, devs
  <2> QED
    BY <1>2, <1>12, <2>1, <2>2, Zenon
<1> QED
  BY <1>10, <1>13, <1>14, <1>15, <1>16, <1>17, Zenon DEF ReadsBack

\* A switch has a name and a side.
LEMMA SwitchIs ==
  ASSUME NEW X
  PROVE  /\ \A c, s : Forms!Switch(c, s).name = c /\ Forms!Switch(c, s).state = s
         /\ \A c \in X : Forms!Switch(c, "on") \in Forms!Switches(X) /\ Forms!Switch(c, "off") \in Forms!Switches(X)
         /\ \A u \in Forms!Switches(X) : /\ u.name \in X /\ u.state \in {"on", "off"}
                                         /\ u = Forms!Switch(u.name, u.state)
<1>1. \A c, s : Forms!Switch(c, s).name = c /\ Forms!Switch(c, s).state = s
  BY DEF Forms!Switch
<1>2. \A c \in X : Forms!Switch(c, "on") \in Forms!Switches(X) /\ Forms!Switch(c, "off") \in Forms!Switches(X)
  BY DEF Forms!Switches
<1>3. ASSUME NEW u \in Forms!Switches(X)
      PROVE  u.name \in X /\ u.state \in {"on", "off"} /\ u = Forms!Switch(u.name, u.state)
  <2>1. PICK c \in X, s \in {"on", "off"} : u = Forms!Switch(c, s)
    BY DEF Forms!Switches
  <2> QED
    BY <1>1, <2>1
<1> QED
  BY <1>1, <1>2, <1>3

\* Two sets of switches with the same names on and off.
Alike(X, A, B) ==
  \A c \in X : /\ Forms!Switch(c, "on") \in A <=> Forms!Switch(c, "on") \in B
               /\ Forms!Switch(c, "off") \in A <=> Forms!Switch(c, "off") \in B

\* Two sets of switches with the same members on each side are equal.
LEMMA SameSwitches ==
  ASSUME NEW X, NEW A \in SUBSET Forms!Switches(X), NEW B \in SUBSET Forms!Switches(X),
         Alike(X, A, B)
  PROVE  A = B
<1>1. \A u \in Forms!Switches(X) : \E c \in X : u = Forms!Switch(c, "on") \/ u = Forms!Switch(c, "off")
  BY SwitchIs
<1> QED
  BY <1>1 DEF Alike

\* Which switches a text has.
LEMMA NamedIs ==
  ASSUME NEW X, NEW t, Forms!ToSet(t) \subseteq Forms!Switches(X), NEW s
  PROVE  /\ Forms!Named(t, s) \subseteq X
         /\ \A c : c \in Forms!Named(t, s) <=> Forms!Switch(c, s) \in Forms!ToSet(t)
<1>1. ASSUME NEW c, c \in Forms!Named(t, s) PROVE c \in X /\ Forms!Switch(c, s) \in Forms!ToSet(t)
  <2>1. PICK u \in Forms!ToSet(t) : u.state = s /\ c = u.name
    BY <1>1 DEF Forms!Named
  <2> QED
    BY <2>1, SwitchIs
<1>2. ASSUME NEW c, Forms!Switch(c, s) \in Forms!ToSet(t) PROVE c \in Forms!Named(t, s)
  <2>1. Forms!Switch(c, s).name = c /\ Forms!Switch(c, s).state = s
    BY SwitchIs
  <2> QED
    BY <1>2, <2>1 DEF Forms!Named
<1> QED
  BY <1>1, <1>2

\* What the words of a text and earlier ones mean together.
LEMMA LatestIs ==
  ASSUME NEW X, NEW t, Forms!ToSet(t) \subseteq Forms!Switches(X), NEW old \in SUBSET Forms!Switches(X)
  PROVE  LET on == Forms!Named(t, "on")
             off == Forms!Named(t, "off")
             W == Forms!Winning(Forms!Latest(t, old))
         IN  /\ W \subseteq Forms!Switches(X)
             /\ \A c \in X :
                  /\ Forms!Switch(c, "on") \in W <=>
                       c \in on \/ (c \notin off /\ Forms!Switch(c, "on") \in old)
                  /\ Forms!Switch(c, "off") \in W <=>
                       /\ c \notin on
                       /\ c \in off \/ (Forms!Switch(c, "off") \in old /\ Forms!Switch(c, "on") \notin old)
<1> DEFINE on == Forms!Named(t, "on")
           off == Forms!Named(t, "off")
           Lt == Forms!Latest(t, old)
           W == Forms!Winning(Lt)
           T == Forms!ToSet(t)
<1>1. Lt \subseteq Forms!Switches(X)
  BY DEF Forms!Latest
<1>2. W \subseteq Lt /\ \A u : u \in W <=> u \in Lt /\ (u.state = "off" => Forms!Switch(u.name, "on") \notin Lt)
  BY DEF Forms!Winning
<1>3. \A u : u \in Lt <=> u \in T \/ (u \in old /\ \A x \in T : x.name # u.name)
  BY DEF Forms!Latest
<1>4. \A c : /\ c \in on <=> Forms!Switch(c, "on") \in T
             /\ c \in off <=> Forms!Switch(c, "off") \in T
  BY NamedIs
<1>5. ASSUME NEW c \in X
      PROVE  (\A x \in T : x.name # c) <=> c \notin on /\ c \notin off
  <2>1. \A x \in T : x = Forms!Switch(x.name, "on") \/ x = Forms!Switch(x.name, "off")
    BY SwitchIs
  <2>2. Forms!Switch(c, "on").name = c /\ Forms!Switch(c, "off").name = c
    BY SwitchIs
  <2> HIDE DEF on, off, T
  <2> QED
    BY <1>4, <2>1, <2>2
<1>6. ASSUME NEW c \in X
      PROVE  /\ Forms!Switch(c, "on") \in Lt <=> c \in on \/ (c \notin on /\ c \notin off /\ Forms!Switch(c, "on") \in old)
             /\ Forms!Switch(c, "off") \in Lt <=> c \in off \/ (c \notin on /\ c \notin off /\ Forms!Switch(c, "off") \in old)
  <2>2. Forms!Switch(c, "on").name = c /\ Forms!Switch(c, "off").name = c
    BY SwitchIs
  <2> HIDE DEF on, off, T, Lt
  <2> QED
    BY <1>3, <1>4, <1>5, <2>2
<1>7. ASSUME NEW c \in X
      PROVE  /\ Forms!Switch(c, "on") \in W <=> Forms!Switch(c, "on") \in Lt
             /\ Forms!Switch(c, "off") \in W <=> Forms!Switch(c, "off") \in Lt /\ Forms!Switch(c, "on") \notin Lt
  <2>2. /\ Forms!Switch(c, "on").state = "on" /\ Forms!Switch(c, "off").state = "off"
        /\ Forms!Switch(c, "off").name = c
    BY SwitchIs
  <2>3. "on" # "off"
    OBVIOUS
  <2> HIDE DEF W, Lt
  <2> QED
    BY <1>2, <2>2, <2>3
<1> HIDE DEF on, off, W, Lt, T
<1>8. \A c \in X :
        /\ Forms!Switch(c, "on") \in W <=>
             c \in on \/ (c \notin off /\ Forms!Switch(c, "on") \in old)
        /\ Forms!Switch(c, "off") \in W <=>
             /\ c \notin on
             /\ c \in off \/ (Forms!Switch(c, "off") \in old /\ Forms!Switch(c, "on") \notin old)
  BY <1>6, <1>7
<1> QED
  BY <1>1, <1>2, <1>8 DEF on, off, W, Lt

\* Switches that are on and off, and what is asked of them.
Both(on, off) == {Forms!Switch(c, "on") : c \in on} \union {Forms!Switch(c, "off") : c \in off}
Asks(p, on, off) ==
  \A c : /\ Forms!Switch(c, "on") \in p <=> c \in on
         /\ Forms!Switch(c, "off") \in p <=> c \in off

\* The switches that two sets of names stand for.
LEMMA BothIs ==
  ASSUME NEW X \in SUBSET Titles, NEW on \in SUBSET X, NEW off \in SUBSET X
  PROVE  LET p == Both(on, off)
         IN  /\ p \in SUBSET Forms!Switches(X) /\ p # None /\ Forms!AsSet(p) = p
             /\ Asks(p, on, off)
<1> DEFINE p == Both(on, off)
<1>1. p \in SUBSET Forms!Switches(X)
  BY SwitchIs DEF Both
<1>2. p # None
  <2>1. Forms!Switches(X) \subseteq Forms!Switches(Titles)
    BY DEF Forms!Switches
  <2> HIDE DEF p
  <2> QED
    BY <1>1, <2>1, KeptIs
<1>3. Asks(p, on, off)
  <2>1. ASSUME NEW c
        PROVE  /\ Forms!Switch(c, "on") \in p <=> c \in on
               /\ Forms!Switch(c, "off") \in p <=> c \in off
    <3>1. \A x, s : Forms!Switch(x, s).name = x /\ Forms!Switch(x, s).state = s
      BY SwitchIs
    <3>2. "on" # "off"
      OBVIOUS
    <3> QED
      BY <3>1, <3>2 DEF Both
  <2> QED
    BY <2>1 DEF Asks
<1> HIDE DEF p
<1> QED
  BY <1>1, <1>2, <1>3 DEF Forms!AsSet, p

\* A finite set of switches is kept as a value.
LEMMA SwitchesKept ==
  ASSUME NEW X \in SUBSET Titles, IsFiniteSet(X), NEW L \in SUBSET Forms!Switches(X)
  PROVE  IsFiniteSet(L) /\ Forms!SetToSeq(L) # None /\ Forms!ToSet(Forms!SetToSeq(L)) = L
<1>1. IsFiniteSet(Forms!Switches(X))
  <2> DEFINE P == {Forms!Switch(c, "on") : c \in X}
             Q == {Forms!Switch(c, "off") : c \in X}
             f == [c \in X |-> Forms!Switch(c, "on")]
             g == [c \in X |-> Forms!Switch(c, "off")]
  <2>1. f \in Surjection(X, P) /\ g \in Surjection(X, Q)
    BY DEF Surjection
  <2>2. IsFiniteSet(P) /\ IsFiniteSet(Q)
    <3> HIDE DEF P, Q, f, g
    <3> QED
      BY <2>1, FS_Surjection
  <2>3. Forms!Switches(X) = P \union Q
    BY DEF Forms!Switches
  <2> HIDE DEF P, Q
  <2> QED
    BY <2>2, <2>3, FS_Union
<1>2. IsFiniteSet(L)
  BY <1>1, FS_Subset
<1>3. Forms!SetToSeq(L) \in Seq(L) /\ Forms!ToSet(Forms!SetToSeq(L)) = L
  BY <1>2, SeqOfSet
<1>4. L \subseteq Tokens
  <2>1. \A u \in Forms!Switches(X) : u \in [name : Titles, state : {"on", "off"}]
    BY DEF Forms!Switches, Forms!Switch
  <2> QED
    BY <2>1, TokensAre
<1>5. Forms!SetToSeq(L) \in Seq(Tokens)
  BY <1>3, <1>4
<1> QED
  BY <1>2, <1>3, <1>5, KeptIs

\* Which side one capability is asked for.
LEMMA AsksIs ==
  ASSUME NEW p, NEW on, NEW off, Asks(p, on, off), NEW c
  PROVE  /\ Forms!Switch(c, "on") \in p <=> c \in on
         /\ Forms!Switch(c, "off") \in p <=> c \in off
BY DEF Asks

\* The capabilities are finitely many titles.
LEMMA CapsAre == Forms!Caps \in SUBSET Titles /\ IsFiniteSet(Forms!Caps)
<1>1. Forms!Caps = {"sys_time"} \union {"net_admin"} \union {"sys_boot"}
  BY DEF Forms!Caps
<1>2. IsFiniteSet({"sys_time"})
  BY FS_Singleton
<1>3. IsFiniteSet({"sys_time"} \union {"net_admin"})
  BY <1>2, FS_AddElement
<1>4. IsFiniteSet(Forms!Caps)
  BY <1>1, <1>3, FS_AddElement
<1> QED
  BY <1>4 DEF Titles

\* --capability
LEMMA CapabilityReadBack ==
  ASSUME NEW t, NEW old, NEW want, Taken("CAPABILITY", t), Before("CAPABILITY", old, want)
  PROVE  ReadsBack("CAPABILITY", t, old, want)
<1> DEFINE X == Forms!Caps
           on == Forms!Named(t, "on")
           off == Forms!Named(t, "off")
           v == [on |-> on, off |-> off]
           has == old # None
           op(c) == IF c \in v.on THEN {"on"} ELSE IF c \in v.off THEN {"off"}
                    ELSE IF old = None THEN {}
                    ELSE IF c \in old.on THEN {"on"} ELSE IF c \in old.off THEN {"off"}
                    ELSE {}
           L == UNION {{Forms!Switch(c, s) : s \in op(c)} : c \in X}
           l == Forms!SetToSeq(L)
           p == [on |-> Forms!Named(l, "on"), off |-> Forms!Named(l, "off")]
           m == Forms!Winning(Forms!Latest(t, Forms!AsSet(want)))
<1>0. X \in SUBSET Titles /\ IsFiniteSet(X)
  BY CapsAre
<1>1. \A x, c : Forms!Parse("CAPABILITY", x, c) = Forms!Cap(x)
  BY ParseOther
<1>2. ASSUME NEW x, Forms!ToSet(x) \subseteq Forms!Switches(X)
      PROVE  Forms!Cap(x) = Forms!Got([on |-> Forms!Named(x, "on"), off |-> Forms!Named(x, "off")])
  <2>1. ~\E u \in Forms!ToSet(x) : u.name \notin Forms!Caps
    BY <1>2, SwitchIs
  <2> QED
    BY <2>1, Zenon DEF Forms!Cap
<1>3. Forms!ToSet(t) \subseteq Forms!Switches(X)
  <2>1. \A u \in Forms!ToSet(t) : u.name \in X
    BY <1>1, CodesAre, Zenon DEF Taken, Forms!Cap
  <2>2. Forms!ToSet(t) \subseteq Forms!Switches(X \union {"abc"})
    BY TextsOther, WordsIs DEF Taken
  <2> HIDE DEF X
  <2>3. \A u \in Forms!ToSet(t) : u.state \in {"on", "off"} /\ u = Forms!Switch(u.name, u.state)
    BY <2>2, SwitchIs
  <2> QED
    BY <2>1, <2>3, SwitchIs
<1>4. Forms!Parse("CAPABILITY", t, TRUE).val = v
  <2>1. Forms!Cap(t) = Forms!Got(v)
    BY <1>2, <1>3
  <2>2. Forms!Got(v).val = v
    BY DEF Forms!Got
  <2> QED
    BY <1>1, <2>1, <2>2, Zenon
<1>5. on \subseteq X /\ off \subseteq X
  BY <1>3, NamedIs
<1>6. /\ Forms!AsSet(want) \in SUBSET Forms!Switches(X)
      /\ \A c \in X : /\ Forms!Switch(c, "on") \in Forms!AsSet(want) <=> has /\ c \in old.on
                      /\ Forms!Switch(c, "off") \in Forms!AsSet(want) <=> has /\ c \in old.off
      /\ has => old.on \intersect old.off = {}
  <2>1. CASE old = None /\ want = None
    <3>1. Forms!AsSet(want) = {}
      BY <2>1, Zenon DEF Forms!AsSet
    <3> QED
      BY <2>1, <3>1
  <2>2. CASE has /\ Held("CAPABILITY", old) /\ Forms!View("CAPABILITY", old) = want
    <3>1. old.on \in SUBSET X /\ old.off \in SUBSET X /\ old.on \intersect old.off = {}
      BY <2>2 DEF Held
    <3>2. want = Both(old.on, old.off)
      BY <2>2, ViewOther DEF Both
    <3> HIDE DEF X
    <3>3. /\ want \in SUBSET Forms!Switches(X) /\ Forms!AsSet(want) = want
          /\ Asks(want, old.on, old.off)
      BY <1>0, <3>1, <3>2, BothIs
    <3>4. ASSUME NEW c
          PROVE  /\ Forms!Switch(c, "on") \in want <=> c \in old.on
                 /\ Forms!Switch(c, "off") \in want <=> c \in old.off
      BY <3>3, AsksIs
    <3> QED
      BY <2>2, <3>1, <3>3, <3>4, Zenon
  <2> HIDE DEF X
  <2> QED
    BY <2>1, <2>2, Zenon DEF Before
<1>7. L \in SUBSET Forms!Switches(X)
  <2>1. \A c : op(c) \subseteq {"on", "off"}
    OBVIOUS
  <2> HIDE DEF op, X
  <2> QED
    BY <2>1, SwitchIs
<1>8. \A c \in X : /\ Forms!Switch(c, "on") \in L <=> "on" \in op(c)
                   /\ Forms!Switch(c, "off") \in L <=> "off" \in op(c)
  <2>1. \A c, s : Forms!Switch(c, s).name = c /\ Forms!Switch(c, s).state = s
    BY SwitchIs
  <2> HIDE DEF op, X
  <2> QED
    BY <2>1
<1>9. \A c : /\ "on" \in op(c) <=> c \in on \/ (c \notin off /\ has /\ c \in old.on)
             /\ "off" \in op(c) <=> /\ c \notin on
                                    /\ c \in off \/ (has /\ c \in old.off /\ c \notin old.on)
  <2> TAKE c
  <2>1. "on" # "off"
    OBVIOUS
  <2> HIDE DEF on, off
  <2> QED
    BY <2>1, Zenon
<1>10. /\ m \subseteq Forms!Switches(X)
       /\ \A c \in X :
            /\ Forms!Switch(c, "on") \in m <=>
                 c \in on \/ (c \notin off /\ Forms!Switch(c, "on") \in Forms!AsSet(want))
            /\ Forms!Switch(c, "off") \in m <=>
                 /\ c \notin on
                 /\ \/ c \in off
                    \/ Forms!Switch(c, "off") \in Forms!AsSet(want) /\ Forms!Switch(c, "on") \notin Forms!AsSet(want)
  <2> DEFINE old1 == Forms!AsSet(want)
  <2>1. old1 \in SUBSET Forms!Switches(X)
    BY <1>6
  <2> HIDE DEF old1, X
  <2>2. LET W == Forms!Winning(Forms!Latest(t, old1))
        IN  /\ W \subseteq Forms!Switches(X)
            /\ \A c \in X :
                 /\ Forms!Switch(c, "on") \in W <=>
                      c \in on \/ (c \notin off /\ Forms!Switch(c, "on") \in old1)
                 /\ Forms!Switch(c, "off") \in W <=>
                      /\ c \notin on
                      /\ c \in off \/ (Forms!Switch(c, "off") \in old1 /\ Forms!Switch(c, "on") \notin old1)
    BY <1>3, <2>1, LatestIs
  <2> QED
    BY <2>2 DEF old1
<1> HIDE DEF on, off, m, L, X, has, op
<1>11. L = m
  <2>1. Alike(X, L, m)
    BY <1>6, <1>8, <1>9, <1>10 DEF Alike
  <2>2. m \in SUBSET Forms!Switches(X)
    BY <1>10
  <2> QED
    BY <1>7, <2>1, <2>2, SameSwitches
<1>12. l # None /\ Forms!ToSet(l) = L
  BY <1>0, <1>7, SwitchesKept
<1> HIDE DEF l
<1>13. /\ \A c : /\ c \in p.on <=> Forms!Switch(c, "on") \in L
                 /\ c \in p.off <=> Forms!Switch(c, "off") \in L
       /\ p.on \in SUBSET X /\ p.off \in SUBSET X
  <2>1. /\ Forms!Named(l, "on") \subseteq X
        /\ \A c : c \in Forms!Named(l, "on") <=> Forms!Switch(c, "on") \in Forms!ToSet(l)
    BY <1>7, <1>12, NamedIs
  <2>2. /\ Forms!Named(l, "off") \subseteq X
        /\ \A c : c \in Forms!Named(l, "off") <=> Forms!Switch(c, "off") \in Forms!ToSet(l)
    BY <1>7, <1>12, NamedIs
  <2> QED
    BY <1>12, <2>1, <2>2
<1>14. Forms!Parse("CAPABILITY", l, FALSE).val = p
  <2>1. Forms!Cap(l) = Forms!Got(p)
    BY <1>2, <1>7, <1>12
  <2>2. Forms!Got(p).val = p
    BY DEF Forms!Got
  <2> QED
    BY <1>1, <2>1, <2>2, Zenon
<1>15. p \in [on : SUBSET X, off : SUBSET X]
  BY <1>13
<1>16. v \in [on : SUBSET X, off : SUBSET X]
  BY <1>5
<1> HIDE DEF p, v
<1>17. p # None /\ v # None
  <2>1. p \in [on : SUBSET Titles, off : SUBSET Titles] /\ v \in [on : SUBSET Titles, off : SUBSET Titles]
    BY <1>0, <1>15, <1>16
  <2> QED
    BY <2>1, KeptIs
<1>18. Held("CAPABILITY", p)
  <2>1. p.on \intersect p.off = {}
    BY <1>8, <1>9, <1>13, <1>6
  <2> QED
    BY <1>15, <2>1 DEF Held, X
<1>19. Forms!View("CAPABILITY", p) = L
  <2> DEFINE q == Both(p.on, p.off)
  <2>1. Forms!View("CAPABILITY", p) = q
    BY <1>17, ViewOther DEF Both
  <2>2. q \in SUBSET Forms!Switches(X) /\ Asks(q, p.on, p.off)
    BY <1>0, <1>13, BothIs
  <2> HIDE DEF q
  <2>5. ASSUME NEW c
        PROVE  /\ Forms!Switch(c, "on") \in q <=> Forms!Switch(c, "on") \in L
               /\ Forms!Switch(c, "off") \in q <=> Forms!Switch(c, "off") \in L
    <3>1. /\ Forms!Switch(c, "on") \in q <=> c \in p.on
          /\ Forms!Switch(c, "off") \in q <=> c \in p.off
      BY <2>2, AsksIs
    <3>2. /\ c \in p.on <=> Forms!Switch(c, "on") \in L
          /\ c \in p.off <=> Forms!Switch(c, "off") \in L
      BY <1>13, Zenon
    <3> QED
      BY <3>1, <3>2, Zenon
  <2>3. Alike(X, q, L)
    BY <2>5, Zenon DEF Alike
  <2>4. q = L
    BY <1>7, <2>2, <2>3, SameSwitches
  <2> QED
    BY <2>1, <2>4
<1>20. Forms!Store("CAPABILITY", v, old) = l
  <2>1. Forms!Store("CAPABILITY", v, old) = Forms!CapStr(v, old)
    BY StoreOther
  <2>2. Forms!CapStr(v, old) = l
    BY DEF Forms!CapStr, l, L, op, X
  <2> QED
    BY <2>1, <2>2
<1>21. Forms!Meaning("CAPABILITY", t, want) = m
  BY MeaningOther DEF m
<1> QED
  BY <1>4, <1>11, <1>12, <1>14, <1>17, <1>18, <1>19, <1>20, <1>21, Zenon DEF ReadsBack

\* The table of features and its masks.
LEMMA FeaturesAre ==
  /\ Forms!ToSet(Forms!Features) = {"ppp", "sysfs", "nfsd"}
  /\ Forms!ToSet(Forms!Features) \in SUBSET Titles /\ IsFiniteSet(Forms!ToSet(Forms!Features))
  /\ Forms!Last(Forms!Features) = "nfsd"
<1>1. Forms!ToSet(Forms!Features) = {"ppp", "sysfs", "nfsd"} /\ Forms!Last(Forms!Features) = "nfsd"
  BY DEF Forms!Features, Forms!ToSet, Forms!Last
<1>2. Forms!ToSet(Forms!Features) = {"ppp"} \union {"sysfs"} \union {"nfsd"}
  BY <1>1
<1>3. IsFiniteSet({"ppp"})
  BY FS_Singleton
<1>4. IsFiniteSet({"ppp"} \union {"sysfs"})
  BY <1>3, FS_AddElement
<1>5. IsFiniteSet(Forms!ToSet(Forms!Features))
  BY <1>2, <1>4, FS_AddElement
<1> QED
  BY <1>1, <1>5 DEF Titles

\* A name that is one of the features is found, "abc" is not.
LEMMA FindFeatureIs ==
  ASSUME NEW w
  PROVE  /\ w.name \in Forms!ToSet(Forms!Features) => Forms!FindFeature(w) = w.name /\ Forms!FindFeature(w) # None
         /\ w.name = "abc" => Forms!FindFeature(w) = None
<1>1. \A x \in Forms!ToSet(Forms!Features) : x # None
  BY FeaturesAre, KeptIs
<1>2. "abc" \notin Forms!ToSet(Forms!Features)
  BY FeaturesAre
<1>3. Forms!NameLen("abc") = 3 /\ Forms!NameLen(Forms!Last(Forms!Features)) = 4
  BY FeaturesAre DEF Forms!NameLen
<1>4. ASSUME w.name = "abc" PROVE Forms!FindFeature(w) = None
  BY <1>2, <1>3, <1>4 DEF Forms!FindFeature
<1> QED
  BY <1>1, <1>4, Zenon DEF Forms!FindFeature

\* Words that name features: what parse_features() makes of them.
LEMMA FeatureIs ==
  ASSUME NEW t, Forms!ToSet(t) \subseteq Forms!Switches(Forms!ToSet(Forms!Features))
  PROVE  Forms!Feature(t) =
           Forms!Code("OK", [known |-> Forms!Named(t, "on") \union Forms!Named(t, "off"),
                             mask |-> Forms!Named(t, "on")])
<1> DEFINE X == Forms!ToSet(Forms!Features)
           T == Forms!ToSet(t)
           known == {w \in T : Forms!FindFeature(w) # None}
<1>1. \A w \in T : w.name \in X /\ w.state \in {"on", "off"}
  <2> HIDE DEF X
  <2> QED
    BY SwitchIs DEF X
<1>2. \A w \in T : Forms!FindFeature(w) = w.name /\ Forms!FindFeature(w) # None
  BY <1>1, FindFeatureIs
<1>3. known = T
  BY <1>2
<1>4. {Forms!FindFeature(w) : w \in T} = Forms!Named(t, "on") \union Forms!Named(t, "off")
  BY <1>1, <1>2 DEF Forms!Named
<1>5. {Forms!FindFeature(w) : w \in {u \in T : u.state = "on"}} = Forms!Named(t, "on")
  BY <1>2 DEF Forms!Named
<1>6. Forms!Feature(t) =
        Forms!Code(IF known = T THEN "OK" ELSE "SKIP",
                   [known |-> {Forms!FindFeature(w) : w \in known},
                    mask |-> {Forms!FindFeature(w) : w \in {u \in known : u.state = "on"}}])
  BY Zenon DEF Forms!Feature
<1> HIDE DEF known, T
<1> QED
  BY <1>3, <1>4, <1>5, <1>6, Zenon

\* A text of features that is taken names known features only.
LEMMA FeaturesTaken ==
  ASSUME NEW t, Taken("FEATURES", t)
  PROVE  Forms!ToSet(t) \subseteq Forms!Switches(Forms!ToSet(Forms!Features))
<1> DEFINE X == Forms!ToSet(Forms!Features)
           T == Forms!ToSet(t)
           known == {w \in T : Forms!FindFeature(w) # None}
           c == IF known = T THEN "OK" ELSE "SKIP"
           y == [known |-> {Forms!FindFeature(w) : w \in known},
                 mask |-> {Forms!FindFeature(w) : w \in {u \in known : u.state = "on"}}]
<1>1. Forms!Feature(t) = Forms!Code(c, y)
  BY Zenon DEF Forms!Feature
<1>2. c = "OK" => known = T
  BY Zenon
<1>3. Forms!Parse("FEATURES", t, TRUE) = Forms!Feature(t)
  BY ParseOther
<1>4. c = "OK"
  <2> HIDE DEF c, y
  <2>1. Forms!Code(c, y).code = c
    BY DEF Forms!Code
  <2> QED
    BY <1>1, <1>3, <2>1, Zenon DEF Taken
<1>5. \A w \in T : Forms!FindFeature(w) # None
  BY <1>2, <1>4, Zenon
<1>6. T \subseteq Forms!Switches(X \union {"abc"})
  <2>1. X \union {"abc"} \union {} = X \union {"abc"}
    BY Zenon
  <2>2. t \in Forms!Words(Forms!Switches(X \union {"abc"} \union {}))
    BY TextsOther, Zenon DEF Taken
  <2>3. t \in Forms!Words(Forms!Switches(X \union {"abc"}))
    BY <2>1, <2>2
  <2> HIDE DEF X
  <2> QED
    BY <2>3, WordsIs
<1> HIDE DEF X, T, known
<1>7. \A w \in T : w.name \in X \union {"abc"} /\ w.state \in {"on", "off"} /\ w = Forms!Switch(w.name, w.state)
  <2> DEFINE Y == X \union {"abc"}
  <2>1. T \subseteq Forms!Switches(Y)
    BY <1>6
  <2> HIDE DEF Y
  <2>2. \A w \in T : w.name \in Y /\ w.state \in {"on", "off"} /\ w = Forms!Switch(w.name, w.state)
    BY <2>1, SwitchIs
  <2> QED
    BY <2>2 DEF Y
<1>8. \A w \in T : w.name # "abc"
  BY <1>5, FindFeatureIs
<1>9. \A w \in T : w \in Forms!Switches(X)
  <2> TAKE w \in T
  <2>1. w.name \in X
    BY <1>7, <1>8
  <2>2. Forms!Switch(w.name, "on") \in Forms!Switches(X) /\ Forms!Switch(w.name, "off") \in Forms!Switches(X)
    BY <2>1, SwitchIs
  <2> QED
    BY <1>7, <2>2
<1> QED
  BY <1>9 DEF T, X

\* What is known is on or off.
LEMMA FeatureViewIs ==
  ASSUME NEW known, NEW mask \in SUBSET known
  PROVE  {Forms!Switch(f, IF f \in mask THEN "on" ELSE "off") : f \in known} = Both(mask, known \ mask)
BY DEF Both

\* --features
LEMMA FeaturesReadBack ==
  ASSUME NEW t, NEW old, NEW want, Taken("FEATURES", t), Before("FEATURES", old, want)
  PROVE  ReadsBack("FEATURES", t, old, want)
<1> DEFINE X == Forms!ToSet(Forms!Features)
           on == Forms!Named(t, "on")
           off == Forms!Named(t, "off")
           v == [known |-> on \union off, mask |-> on]
           bk == IF old = None THEN {} ELSE old.known
           bm == IF old = None THEN {} ELSE old.mask
           nk == on \union off \union bk
           nm == on \union (bm \ (on \union off))
           L == Both(nm, nk \ nm)
           l == Forms!SetToSeq(L)
           p == [known |-> nk, mask |-> nm]
           m == Forms!Winning(Forms!Latest(t, Forms!AsSet(want)))
<1>0. X \in SUBSET Titles /\ IsFiniteSet(X)
  BY FeaturesAre
<1>1. \A x, c : Forms!Parse("FEATURES", x, c) = Forms!Feature(x)
  BY ParseOther
<1>3. Forms!ToSet(t) \subseteq Forms!Switches(X)
  BY FeaturesTaken
<1>4. Forms!Parse("FEATURES", t, TRUE).val = v
  <2>1. Forms!Feature(t) = Forms!Code("OK", v)
    BY <1>3, FeatureIs
  <2> HIDE DEF v
  <2>2. Forms!Code("OK", v).val = v
    BY DEF Forms!Code
  <2> QED
    BY <1>1, <2>1, <2>2, Zenon
<1>5. on \subseteq X /\ off \subseteq X
  <2> HIDE DEF X
  <2> QED
    BY <1>3, NamedIs
<1>6. bk \in SUBSET X /\ bm \in SUBSET bk /\ Forms!AsSet(want) = Both(bm, bk \ bm)
  <2>1. CASE old = None /\ want = None
    <3>1. Forms!AsSet(want) = {} /\ bk = {} /\ bm = {}
      BY <2>1, Zenon DEF Forms!AsSet
    <3>2. Both({}, {} \ {}) = {}
      BY DEF Both
    <3> HIDE DEF bk, bm
    <3> QED
      BY <3>1, <3>2
  <2>2. CASE old # None /\ Held("FEATURES", old) /\ Forms!View("FEATURES", old) = want
    <3>1. old.known \in SUBSET X /\ old.mask \in SUBSET X /\ old.mask \subseteq old.known
      BY <2>2 DEF Held
    <3>2. bk = old.known /\ bm = old.mask
      BY <2>2
    <3>3. want = {Forms!Switch(f, IF f \in bm THEN "on" ELSE "off") : f \in bk}
      BY <2>2, <3>2, ViewOther
    <3> HIDE DEF X, bk, bm
    <3>4. want = Both(bm, bk \ bm)
      BY <3>1, <3>2, <3>3, FeatureViewIs
    <3>5. bm \in SUBSET X /\ bk \ bm \in SUBSET X
      BY <3>1, <3>2
    <3>6. Forms!AsSet(want) = want
      BY <1>0, <3>4, <3>5, BothIs
    <3> QED
      BY <3>1, <3>2, <3>4, <3>6
  <2> QED
    BY <2>1, <2>2, Zenon DEF Before
<1> HIDE DEF X, bk, bm, on, off
<1>7. nk \in SUBSET X /\ nm \in SUBSET nk /\ nm \in SUBSET X /\ nk \ nm \in SUBSET X
  BY <1>5, <1>6
<1>8. /\ Forms!AsSet(want) \in SUBSET Forms!Switches(X)
      /\ Asks(Forms!AsSet(want), bm, bk \ bm)
  <2>1. bm \in SUBSET X /\ bk \ bm \in SUBSET X
    BY <1>6
  <2> QED
    BY <1>0, <1>6, <2>1, BothIs
<1>9. L \in SUBSET Forms!Switches(X) /\ L # None /\ Asks(L, nm, nk \ nm)
  <2> DEFINE on1 == nm
             off1 == nk \ nm
  <2>1. on1 \in SUBSET X /\ off1 \in SUBSET X
    BY <1>7
  <2> HIDE DEF on1, off1
  <2>2. Both(on1, off1) \in SUBSET Forms!Switches(X) /\ Both(on1, off1) # None /\ Asks(Both(on1, off1), on1, off1)
    BY <1>0, <2>1, BothIs
  <2> QED
    BY <2>2 DEF on1, off1
<1>10. /\ m \subseteq Forms!Switches(X)
       /\ \A c \in X :
            /\ Forms!Switch(c, "on") \in m <=>
                 c \in on \/ (c \notin off /\ Forms!Switch(c, "on") \in Forms!AsSet(want))
            /\ Forms!Switch(c, "off") \in m <=>
                 /\ c \notin on
                 /\ \/ c \in off
                    \/ Forms!Switch(c, "off") \in Forms!AsSet(want) /\ Forms!Switch(c, "on") \notin Forms!AsSet(want)
  <2> DEFINE old1 == Forms!AsSet(want)
  <2>1. old1 \in SUBSET Forms!Switches(X)
    BY <1>8
  <2> HIDE DEF old1, X
  <2>2. LET W == Forms!Winning(Forms!Latest(t, old1))
        IN  /\ W \subseteq Forms!Switches(X)
            /\ \A c \in X :
                 /\ Forms!Switch(c, "on") \in W <=>
                      c \in on \/ (c \notin off /\ Forms!Switch(c, "on") \in old1)
                 /\ Forms!Switch(c, "off") \in W <=>
                      /\ c \notin on
                      /\ c \in off \/ (Forms!Switch(c, "off") \in old1 /\ Forms!Switch(c, "on") \notin old1)
    BY <1>3, <2>1, LatestIs DEF on, off
  <2> QED
    BY <2>2 DEF old1
<1>11. L = m
  <2> DEFINE A == Forms!AsSet(want)
  <2>1. ASSUME NEW c \in X
        PROVE  /\ Forms!Switch(c, "on") \in L <=> Forms!Switch(c, "on") \in m
               /\ Forms!Switch(c, "off") \in L <=> Forms!Switch(c, "off") \in m
    <3>1. /\ Forms!Switch(c, "on") \in L <=> c \in nm
          /\ Forms!Switch(c, "off") \in L <=> c \in nk \ nm
      <4> HIDE DEF L, nm, nk
      <4> QED
        BY <1>9, AsksIs
    <3>2. /\ Forms!Switch(c, "on") \in A <=> c \in bm
          /\ Forms!Switch(c, "off") \in A <=> c \in bk \ bm
      <4> HIDE DEF A
      <4> QED
        BY <1>8, AsksIs DEF A
    <3>3. /\ Forms!Switch(c, "on") \in m <=> c \in on \/ (c \notin off /\ c \in bm)
          /\ Forms!Switch(c, "off") \in m <=> c \notin on /\ (c \in off \/ (c \in bk \ bm /\ c \notin bm))
      <4> HIDE DEF m, L
      <4> QED
        BY <1>10, <3>2, Zenon
    <3>4. /\ c \in nm <=> c \in on \/ (c \notin off /\ c \in bm)
          /\ c \in nk \ nm <=> c \notin on /\ (c \in off \/ (c \in bk \ bm /\ c \notin bm))
      BY <1>6
    <3> HIDE DEF L, m, nk, nm
    <3> QED
      BY <3>1, <3>3, <3>4, Zenon
  <2> HIDE DEF L, m
  <2>2. Alike(X, L, m)
    BY <2>1, Zenon DEF Alike
  <2> QED
    BY <1>9, <1>10, <2>2, SameSwitches
<1> HIDE DEF L
<1>12. l # None /\ Forms!ToSet(l) = L
  BY <1>0, <1>9, SwitchesKept
<1> HIDE DEF l
<1>13. Forms!Named(l, "on") = nm /\ Forms!Named(l, "off") = nk \ nm
  <2>1. \A c : c \in Forms!Named(l, "on") <=> Forms!Switch(c, "on") \in L
    BY <1>9, <1>12, NamedIs
  <2>2. \A c : c \in Forms!Named(l, "off") <=> Forms!Switch(c, "off") \in L
    BY <1>9, <1>12, NamedIs
  <2> DEFINE on1 == nm
             off1 == nk \ nm
  <2>3. Asks(L, on1, off1)
    BY <1>9
  <2> HIDE DEF on1, off1, nm, nk
  <2>4. ASSUME NEW c
        PROVE  (Forms!Switch(c, "on") \in L <=> c \in on1) /\ (Forms!Switch(c, "off") \in L <=> c \in off1)
    BY <2>3, AsksIs
  <2> QED
    BY <2>1, <2>2, <2>4 DEF on1, off1
<1>14. Forms!Parse("FEATURES", l, FALSE).val = p
  <2>1. Forms!Feature(l) =
          Forms!Code("OK", [known |-> Forms!Named(l, "on") \union Forms!Named(l, "off"), mask |-> Forms!Named(l, "on")])
    BY <1>9, <1>12, FeatureIs DEF X
  <2>2. Forms!Named(l, "on") \union Forms!Named(l, "off") = nk
    BY <1>7, <1>13
  <2>3. Forms!Feature(l) = Forms!Code("OK", p)
    BY <1>13, <2>1, <2>2, Zenon
  <2> HIDE DEF p
  <2>4. Forms!Code("OK", p).val = p
    BY DEF Forms!Code
  <2> QED
    BY <1>1, <2>3, <2>4, Zenon
<1>15. p \in [known : SUBSET X, mask : SUBSET X] /\ p.known = nk /\ p.mask = nm
  BY <1>7
<1>16. v \in [known : SUBSET X, mask : SUBSET X]
  BY <1>5
<1>20. Forms!Store("FEATURES", v, old) = l
  <2>1. Forms!Store("FEATURES", v, old) = Forms!FeatureStr(v, old)
    BY StoreOther
  <2> DEFINE before == IF old = None THEN [known |-> {}, mask |-> {}] ELSE old
             mask == v.mask \union (before.mask \ v.known)
  <2>2. before.known = bk /\ before.mask = bm
    BY DEF bk, bm
  <2>3. mask = nm /\ v.known \union before.known = nk
    BY <2>2
  <2>4. Forms!FeatureStr(v, old) =
          Forms!SetToSeq({Forms!Switch(f, IF f \in mask THEN "on" ELSE "off") : f \in v.known \union before.known})
    BY Zenon DEF Forms!FeatureStr
  <2>5. Forms!FeatureStr(v, old) = Forms!SetToSeq({Forms!Switch(f, IF f \in nm THEN "on" ELSE "off") : f \in nk})
    BY <2>3, <2>4, Zenon
  <2> HIDE DEF nm, nk
  <2>6. {Forms!Switch(f, IF f \in nm THEN "on" ELSE "off") : f \in nk} = Both(nm, nk \ nm)
    BY <1>7, FeatureViewIs
  <2> QED
    BY <2>1, <2>5, <2>6, Zenon DEF l, L
<1> HIDE DEF p, v
<1>17. p # None /\ v # None
  <2>1. p \in [known : SUBSET Titles, mask : SUBSET Titles] /\ v \in [known : SUBSET Titles, mask : SUBSET Titles]
    BY <1>0, <1>15, <1>16
  <2> QED
    BY <2>1, KeptIs
<1>18. Held("FEATURES", p)
  <2>1. p.mask \subseteq p.known
    BY <1>7, <1>15
  <2> QED
    BY <1>15, <2>1 DEF Held, X
<1>19. Forms!View("FEATURES", p) = L
  <2>1. Forms!View("FEATURES", p) = {Forms!Switch(f, IF f \in p.mask THEN "on" ELSE "off") : f \in p.known}
    BY <1>17, ViewOther
  <2> HIDE DEF nm, nk
  <2>2. {Forms!Switch(f, IF f \in p.mask THEN "on" ELSE "off") : f \in p.known} = Both(nm, nk \ nm)
    BY <1>7, <1>15, FeatureViewIs
  <2> QED
    BY <2>1, <2>2 DEF L
<1>21. Forms!Meaning("FEATURES", t, want) = m
  BY MeaningOther DEF m
<1> HIDE DEF m
<1> QED
  BY <1>4, <1>11, <1>12, <1>14, <1>17, <1>18, <1>19, <1>20, <1>21, Zenon DEF ReadsBack

\* Numbers have a least one, and a largest one below a bound.
LEMMA LeastIs ==
  ASSUME NEW S, S \subseteq Nat, S # {}
  PROVE  \E x \in S : \A y \in S : x <= y
<1>1. PICK x \in S : \A y \in S : ~(<<y, x>> \in OpToRel(<, Nat))
  BY NatLessThanWellFounded, WFMin
<1>2. \A y \in S : ~(y < x)
  <2> SUFFICES ASSUME NEW y \in S, y < x PROVE FALSE
    OBVIOUS
  <2>1. <<y, x>> \in OpToRel(<, Nat)
    BY DEF OpToRel
  <2> QED
    BY <1>1, <2>1
<1> QED
  BY <1>2

\* The largest number of a set with a bound.
LEMMA LargestIs ==
  ASSUME NEW n \in Nat, NEW S, S \subseteq 0..n, S # {}
  PROVE  \E x \in S : \A y \in S : y <= x
<1> DEFINE R == {n - x : x \in S}
<1>1. R \subseteq Nat /\ R # {}
  <2>1. \A x \in S : n - x \in Nat
    OBVIOUS
  <2>2. PICK x \in S : TRUE
    OBVIOUS
  <2>3. n - x \in R
    OBVIOUS
  <2>4. R \subseteq Nat
    BY <2>1
  <2> QED
    BY <2>3, <2>4
<1> HIDE DEF R
<1>2. PICK r \in R : \A y \in R : r <= y
  BY <1>1, LeastIs
<1>3. PICK x \in S : r = n - x
  BY DEF R
<1>4. \A y \in S : n - y \in R
  BY DEF R
<1>5. ASSUME NEW y \in S PROVE y <= x
  <2>1. r <= n - y
    BY <1>2, <1>4
  <2> QED
    BY <1>3, <2>1
<1> QED
  BY <1>5

\* A set of natural numbers has a least one.
LEMMA MinIs ==
  ASSUME NEW S, S \subseteq Nat, S # {}
  PROVE  Forms!Min(S) \in S /\ \A y \in S : Forms!Min(S) <= y
<1>1. \E x \in S : \A y \in S : x <= y
  BY LeastIs
<1> QED
  BY <1>1, Zenon DEF Forms!Min

\* The words that n bits take.
LEMMA LongsIs ==
  ASSUME NEW n \in Nat
  PROVE  /\ Forms!Longs(n) \in Nat /\ n <= Forms!Longs(n) * PerLong
         /\ Forms!Longs(n) * PerLong <= n + PerLong - 1
<1>0. PerLong \in Nat /\ PerLong > 0
  BY SizesHold DEF InProportion
<1> DEFINE m == n + PerLong - 1
           q == m \div PerLong
<1>1. m \in Nat
  BY <1>0
<1>2. q \in Nat /\ q * PerLong <= m /\ m < q * PerLong + PerLong
  <2> HIDE DEF m
  <2> QED
    BY <1>0, <1>1, Quotient
<1>3. Forms!Longs(n) = q
  BY DEF Forms!Longs
<1> HIDE DEF q
<1>4. q * PerLong \in Int
  BY <1>0, <1>2
<1> QED
  BY <1>0, <1>2, <1>3, <1>4

\* Bit i of a bitmap is a bit of its word.
LEMMA WordOf ==
  ASSUME NEW i \in Nat
  PROVE  \E q \in Nat, b \in 0..(PerLong - 1) : i = q * PerLong + b
<1>0. PerLong \in Nat /\ PerLong > 0
  BY SizesHold DEF InProportion
<1> DEFINE q == i \div PerLong
<1>1. q \in Nat /\ q * PerLong <= i /\ i < q * PerLong + PerLong
  BY <1>0, Quotient
<1> HIDE DEF q
<1>2. i - q * PerLong \in 0..(PerLong - 1) /\ i = q * PerLong + (i - q * PerLong)
  BY <1>0, <1>1
<1> QED
  BY <1>1, <1>2

\* A word of the mask begins at a multiple of its width.
LEMMA Products ==
  ASSUME NEW a \in Nat, NEW b \in Nat, NEW w \in Nat
  PROVE  /\ a * PerLong \in Nat /\ (w + a) * PerLong = w * PerLong + a * PerLong
         /\ a < b => a * PerLong + PerLong <= b * PerLong
<1>0. PerLong \in Nat
  BY SizesHold DEF InProportion
<1>1. (w + a) * PerLong = w * PerLong + a * PerLong /\ a * PerLong \in Nat
  BY <1>0
<1>2. ASSUME a < b PROVE a * PerLong + PerLong <= b * PerLong
  <2>1. (b - a - 1) * PerLong >= 0
    BY <1>0, <1>2
  <2>2. (b - a - 1) * PerLong = b * PerLong - a * PerLong - PerLong
    BY <1>0
  <2> QED
    BY <1>0, <2>1, <2>2
<1> QED
  BY <1>1, <1>2

\* The first of n bits from bit `base' on that is `bit', or n.
First(mask, bit, base, n, r) ==
  /\ r \in 0..n
  /\ r < n => mask[base + r] = bit
  /\ \A i \in 0..(r - 1) : mask[base + i] # bit

\* find_first of the words: the first bit of a word, or its end.
LEMMA FindFirstIs ==
  ASSUME NEW mask, NEW bit, NEW w \in Nat, NEW n \in Nat
  PROVE  First(mask, bit, w * PerLong, n, Forms!FindFirst(mask, bit, w, n))
<1> DEFINE base == w * PerLong
           W == Forms!Longs(n)
           at(i, b) == mask[(w + i) * PerLong + b] = bit
           found == {i \in 0..(W - 1) : \E b \in 0..(PerLong - 1) : at(i, b)}
           k == Forms!Min(found)
           start == k * PerLong
           end == Forms!Lesser(start + PerLong, n)
           hits == {i \in start..(end - 1) : mask[base + i] = bit}
           r == Forms!FindFirst(mask, bit, w, n)
<1>0. PerLong \in Nat /\ PerLong > 0 /\ base \in Nat
  BY SizesHold DEF InProportion
<1>1. r = IF found = {} THEN n ELSE IF hits = {} THEN end ELSE Forms!Min(hits)
  BY Zenon DEF Forms!FindFirst
<1>2. W \in Nat /\ n <= W * PerLong /\ W * PerLong <= n + PerLong - 1
  BY LongsIs
<1> HIDE DEF base, W, r
<1>3. \A i, b \in Nat : at(i, b) <=> mask[base + (i * PerLong + b)] = bit
  <2> TAKE i, b \in Nat
  <2>1. (w + i) * PerLong = base + i * PerLong /\ i * PerLong \in Nat
    BY Products DEF base
  <2>2. (w + i) * PerLong + b = base + (i * PerLong + b)
    BY <1>0, <2>1
  <2> QED
    BY <2>2
<1>4. ASSUME NEW i \in 0..(n - 1), mask[base + i] = bit
      PROVE  \E q \in found : q * PerLong <= i /\ i < q * PerLong + PerLong
  <2>1. PICK q \in Nat, b \in 0..(PerLong - 1) : i = q * PerLong + b
    BY WordOf
  <2>2. at(q, b)
    BY <1>0, <1>3, <1>4, <2>1
  <2>3. q * PerLong \in Nat /\ W * PerLong \in Nat /\ (W < q => W * PerLong + PerLong <= q * PerLong)
    BY <1>2, Products
  <2>4. q \in 0..(W - 1)
    <3>1. q * PerLong < W * PerLong
      BY <1>0, <1>2, <2>1, <2>3
    <3>2. W # q /\ ~(W < q)
      BY <1>0, <2>3, <3>1
    <3> QED
      BY <1>2, <3>2
  <2>5. q \in found
    BY <2>1, <2>2, <2>4
  <2> QED
    BY <1>0, <2>1, <2>3, <2>5
<1>5. ASSUME found = {} PROVE First(mask, bit, base, n, r)
  <2>1. \A i \in 0..(n - 1) : mask[base + i] # bit
    BY <1>4, <1>5
  <2>2. r = n
    BY <1>1, <1>5, Zenon
  <2> QED
    BY <2>1, <2>2 DEF First
<1>6. ASSUME found # {} PROVE First(mask, bit, base, n, r)
  <2>1. found \subseteq Nat
    BY <1>2
  <2>2. k \in found /\ \A y \in found : k <= y
    BY <1>6, <2>1, MinIs
  <2>3. k \in Nat /\ k < W
    BY <1>2, <2>2
  <2>4. PICK b \in 0..(PerLong - 1) : at(k, b)
    <3>1. \A i \in found : \E b \in 0..(PerLong - 1) : at(i, b)
      OBVIOUS
    <3> HIDE DEF found, at
    <3> QED
      BY <2>2, <3>1, Zenon
  <2>5. mask[base + (start + b)] = bit
    <3>1. k \in Nat /\ b \in Nat
      BY <1>0, <2>3, <2>4
    <3> HIDE DEF k, at
    <3> QED
      BY <1>3, <2>4, <3>1
  <2>6. start \in Nat /\ start + PerLong <= W * PerLong /\ W * PerLong \in Nat
    BY <1>2, <2>3, Products
  <2>7. start <= n - 1
    BY <1>0, <1>2, <2>6
  <2>8. ASSUME NEW i \in 0..(start - 1) PROVE mask[base + i] # bit
    <3> SUFFICES ASSUME mask[base + i] = bit PROVE FALSE
      OBVIOUS
    <3>1. i \in 0..(n - 1)
      BY <2>6, <2>7, <2>8
    <3>2. PICK q \in found : q * PerLong <= i
      BY <1>4, <3>1
    <3>3. k <= q /\ q \in Nat
      BY <2>1, <2>2, <3>2
    <3>4. start <= q * PerLong /\ q * PerLong \in Nat
      <4>1. CASE k = q
        BY <2>6, <4>1
      <4>2. CASE k < q
        <5>1. start + PerLong <= q * PerLong /\ q * PerLong \in Nat
          BY <2>3, <3>3, <4>2, Products
        <5> QED
          BY <1>0, <2>6, <5>1
      <4> QED
        BY <2>3, <3>3, <4>1, <4>2
    <3> QED
      BY <2>6, <2>8, <3>2, <3>4
  <2> HIDE DEF start, k, found, at
  <2>9. end \in Nat /\ end <= n /\ start < end /\ (end < n => end = start + PerLong)
    BY <1>0, <2>6, <2>7 DEF Forms!Lesser
  <2>10. r = IF hits = {} THEN end ELSE Forms!Min(hits)
    BY <1>1, <1>6
  <2>11. ASSUME hits = {} PROVE First(mask, bit, base, n, r)
    <3>1. end = n
      <4> SUFFICES ASSUME end < n PROVE FALSE
        BY <2>9
      <4>1. start + b \in start..(end - 1)
        BY <1>0, <2>6, <2>9
      <4> QED
        BY <2>5, <2>11, <4>1
    <3>2. \A i \in start..(n - 1) : mask[base + i] # bit
      BY <2>11, <3>1
    <3>3. \A i \in 0..(n - 1) : mask[base + i] # bit
      BY <2>6, <2>8, <3>2
    <3>4. r = n
      BY <2>10, <2>11, <3>1, Zenon
    <3> QED
      BY <3>3, <3>4 DEF First
  <2>12. ASSUME hits # {} PROVE First(mask, bit, base, n, r)
    <3> DEFINE x == Forms!Min(hits)
    <3>1. hits \subseteq Nat
      BY <2>6, <2>9
    <3>2. x \in hits /\ \A y \in hits : x <= y
      BY <2>12, <3>1, MinIs
    <3> HIDE DEF x
    <3>3. x \in start..(end - 1) /\ mask[base + x] = bit
      BY <3>2
    <3>4. \A i \in start..(x - 1) : mask[base + i] # bit
      BY <2>6, <2>9, <3>2, <3>3
    <3>5. x \in 0..n /\ \A i \in 0..(x - 1) : mask[base + i] # bit
      BY <2>6, <2>8, <2>9, <3>3, <3>4
    <3>6. r = x
      BY <2>10, <2>12, Zenon DEF x
    <3>7. First(mask, bit, base, n, x)
      BY <3>3, <3>5 DEF First
    <3> QED
      BY <3>6, <3>7, Zenon
  <2> QED
    BY <2>11, <2>12
<1> QED
  BY <1>5, <1>6, Zenon DEF base, r

\* The first bit from bit a on that is `bit', or NBits.
NextBit(mask, bit, a, r) ==
  /\ r \in a..NBits
  /\ r < NBits => mask[r] = bit
  /\ \A i \in a..(r - 1) : mask[i] # bit

\* find_next_bit(): no bit between here and what it returns.
LEMMA FindNextIs ==
  ASSUME NEW mask, NEW bit, NEW a \in 0..NBits
  PROVE  NextBit(mask, bit, a, Forms!FindNext(mask, bit, a))
<1> DEFINE W == Forms!Longs(a)
           whole == W * PerLong
           end == Forms!Lesser(whole, NBits)
           hits == {i \in a..(end - 1) : mask[i] = bit}
           f == Forms!FindFirst(mask, bit, end \div PerLong, NBits - end)
           r == Forms!FindNext(mask, bit, a)
<1>0. PerLong \in Nat /\ PerLong > 0 /\ NBits \in Nat
  BY SizesHold DEF InProportion
<1>1. r = IF hits # {} THEN Forms!Min(hits) ELSE IF end >= NBits THEN NBits ELSE end + f
  BY Zenon DEF Forms!FindNext
<1>2. W \in Nat /\ a <= whole
  BY <1>0, LongsIs
<1>3. whole \in Nat
  BY <1>2, Products
<1> HIDE DEF W, r
<1>4. end < NBits => f = Forms!FindFirst(mask, bit, W, NBits - end) /\ end = whole
  <2> SUFFICES ASSUME end < NBits PROVE f = Forms!FindFirst(mask, bit, W, NBits - end) /\ end = whole
    OBVIOUS
  <2>1. end = whole
    BY <1>0, <1>3 DEF Forms!Lesser
  <2>2. whole \div PerLong = W
    BY <1>0, <1>2, Whole
  <2> HIDE DEF whole, end
  <2> QED
    BY <2>1, <2>2
<1> HIDE DEF whole, f
<1>5. end \in Nat /\ end <= NBits /\ a <= end /\ end <= whole
  BY <1>0, <1>2, <1>3 DEF Forms!Lesser
<1>6. ASSUME hits # {} PROVE NextBit(mask, bit, a, r)
  <2> DEFINE x == Forms!Min(hits)
  <2>1. hits \subseteq Nat
    BY <1>5
  <2>2. x \in hits /\ \A y \in hits : x <= y
    BY <1>6, <2>1, MinIs
  <2> HIDE DEF x
  <2>3. x \in a..(end - 1) /\ mask[x] = bit
    BY <2>2
  <2>4. \A i \in a..(x - 1) : mask[i] # bit
    BY <1>5, <2>2, <2>3
  <2>5. NextBit(mask, bit, a, x)
    BY <1>0, <1>5, <2>3, <2>4 DEF NextBit
  <2>6. r = x
    BY <1>1, <1>6, Zenon DEF x
  <2> QED
    BY <2>5, <2>6, Zenon
<1>7. ASSUME hits = {} PROVE NextBit(mask, bit, a, r)
  <2>1. \A i \in a..(end - 1) : mask[i] # bit
    BY <1>7
  <2> HIDE DEF end, hits
  <2>2. CASE end >= NBits
    <3>1. r = NBits /\ end = NBits
      BY <1>0, <1>1, <1>5, <1>7, <2>2
    <3>2. NextBit(mask, bit, a, NBits)
      BY <1>0, <2>1, <3>1 DEF NextBit
    <3> QED
      BY <3>1, <3>2, Zenon DEF r
  <2>3. CASE end < NBits
    <3>1. r = end + f
      BY <1>0, <1>1, <1>5, <1>7, <2>3
    <3> DEFINE n == NBits - end
    <3>2. n \in Nat
      BY <1>0, <1>5
    <3> HIDE DEF n
    <3>3. First(mask, bit, W * PerLong, n, Forms!FindFirst(mask, bit, W, n))
      BY <1>2, <3>2, FindFirstIs
    <3>4. First(mask, bit, end, n, f)
      BY <1>4, <2>3, <3>3 DEF n, whole
    <3>5. f \in 0..n /\ (f < n => mask[end + f] = bit) /\ \A i \in 0..(f - 1) : mask[end + i] # bit
      BY <3>4 DEF First
    <3>6. r \in a..NBits /\ (r < NBits => mask[r] = bit)
      BY <1>0, <1>5, <3>1, <3>5 DEF n
    <3>7. \A i \in end..(r - 1) : mask[i] # bit
      <4> TAKE i \in end..(r - 1)
      <4>1. i - end \in 0..(f - 1) /\ end + (i - end) = i
        BY <1>5, <3>1, <3>2, <3>5
      <4> QED
        BY <3>5, <4>1
    <3>8. \A i \in a..(r - 1) : mask[i] # bit
      BY <1>0, <1>5, <2>1, <3>6, <3>7
    <3>9. NextBit(mask, bit, a, r)
      BY <3>6, <3>8 DEF NextBit
    <3> QED
      BY <3>9 DEF r
  <2> QED
    BY <1>0, <1>5, <2>2, <2>3 DEF r
<1> QED
  BY <1>6, <1>7, Zenon DEF r

\* The range that starts at bit a, and where the next one does.
Upto(mask, a) == Forms!FindNext(mask, FALSE, a + 1) - 1
Onward(mask, a) == Forms!FindNext(mask, TRUE, Upto(mask, a) + 1)

\* bitmap_snprintf(): the range that begins at a bit that is set.
LEMMA RangeIs ==
  ASSUME NEW mask \in [Forms!Bits -> BOOLEAN], NEW a \in 0..(NBits - 1)
  PROVE  /\ Upto(mask, a) \in a..(NBits - 1) /\ Onward(mask, a) \in (Upto(mask, a) + 1)..NBits
         /\ \A i \in (a + 1)..Upto(mask, a) : mask[i]
         /\ \A i \in (Upto(mask, a) + 1)..(Onward(mask, a) - 1) : ~mask[i]
         /\ Onward(mask, a) < NBits => mask[Onward(mask, a)]
<1> DEFINE f == Forms!FindNext(mask, FALSE, a + 1)
           b == Upto(mask, a)
           c == Onward(mask, a)
<1>0. NBits \in Nat
  BY SizesHold DEF InProportion
<1>1. \A i \in 0..(NBits - 1) : mask[i] \in BOOLEAN
  <2>1. PerLong \in Nat /\ Forms!Longs(NBits) \in Nat /\ NBits <= Forms!Longs(NBits) * PerLong
    BY SizesHold, LongsIs DEF InProportion
  <2>2. Forms!Longs(NBits) * PerLong \in Nat
    BY <2>1, Products
  <2>3. 0..(NBits - 1) \subseteq Forms!Bits
    BY <1>0, <2>1, <2>2 DEF Forms!Bits
  <2> QED
    BY <2>3
<1>2. NextBit(mask, FALSE, a + 1, f)
  <2> DEFINE x == a + 1
  <2>1. x \in 0..NBits
    BY <1>0
  <2> HIDE DEF x
  <2>2. NextBit(mask, FALSE, x, Forms!FindNext(mask, FALSE, x))
    BY <2>1, FindNextIs
  <2> QED
    BY <2>2 DEF x
<1> HIDE DEF f
<1>3. f \in (a + 1)..NBits /\ \A i \in (a + 1)..(f - 1) : mask[i] # FALSE
  BY <1>2 DEF NextBit
<1>4. b = f - 1
  BY DEF Upto, f
<1>5. NextBit(mask, TRUE, b + 1, c)
  <2> DEFINE x == b + 1
  <2>1. x \in 0..NBits
    BY <1>0, <1>3, <1>4
  <2>2. c = Forms!FindNext(mask, TRUE, x)
    BY DEF Onward
  <2> HIDE DEF x, c
  <2>3. NextBit(mask, TRUE, x, Forms!FindNext(mask, TRUE, x))
    BY <2>1, FindNextIs
  <2> QED
    BY <2>2, <2>3 DEF x
<1> HIDE DEF b, c
<1>6. c \in (b + 1)..NBits /\ (c < NBits => mask[c] = TRUE) /\ \A i \in (b + 1)..(c - 1) : mask[i] # TRUE
  BY <1>5 DEF NextBit
<1>7. b \in a..(NBits - 1)
  BY <1>0, <1>3, <1>4
<1>8. \A i \in (a + 1)..b : mask[i]
  <2> TAKE i \in (a + 1)..b
  <2>1. i \in 0..(NBits - 1) /\ i \in (a + 1)..(f - 1)
    BY <1>0, <1>3, <1>4
  <2> QED
    BY <1>1, <1>3, <2>1
<1>9. \A i \in (b + 1)..(c - 1) : ~mask[i]
  <2> TAKE i \in (b + 1)..(c - 1)
  <2>1. i \in 0..(NBits - 1)
    BY <1>0, <1>6, <1>7
  <2> QED
    BY <1>1, <1>6, <2>1
<1> QED
  BY <1>6, <1>7, <1>8, <1>9 DEF b, c

\* The recursion of bitmap_snprintf(), and that it is one.
Prints(mask, g, k) ==
  \A a \in k..NBits :
    g[a] = IF a >= NBits THEN <<>> ELSE <<<<a, Upto(mask, a)>>>> \o g[Onward(mask, a)]

\* A printer of the ranges from every bit on exists: induction on what is left
\* of the mask, by the least bit without one.
LEMMA PrintsExists ==
  ASSUME NEW mask \in [Forms!Bits -> BOOLEAN]
  PROVE  \E g : g = [a \in 0..NBits |-> IF a >= NBits THEN <<>>
                                        ELSE <<<<a, Upto(mask, a)>>>> \o g[Onward(mask, a)]]
<1> DEFINE D == {k \in 0..NBits : \E g : Prints(mask, g, k)}
<1>0. NBits \in Nat
  BY SizesHold DEF InProportion
<1>1. NBits \in D
  <2> DEFINE g == [a \in {NBits} |-> <<>>]
  <2>1. Prints(mask, g, NBits)
    BY <1>0 DEF Prints
  <2> QED
    BY <1>0, <2>1
<1>2. D \subseteq Nat
  BY <1>0
<1> HIDE DEF D
<1>3. PICK k \in D : \A y \in D : k <= y
  BY <1>1, <1>2, LeastIs
<1>4. k \in 0..NBits
  BY <1>3 DEF D
<1>5. PICK g : Prints(mask, g, k)
  BY <1>3 DEF D
<1>6. k = 0
  <2> SUFFICES ASSUME k # 0 PROVE FALSE
    OBVIOUS
  <2> DEFINE j == k - 1
             h == [a \in j..NBits |-> IF a = j THEN <<<<j, Upto(mask, j)>>>> \o g[Onward(mask, j)] ELSE g[a]]
  <2>1. j \in 0..(NBits - 1)
    BY <1>0, <1>4
  <2>2. \A a \in j..(NBits - 1) : Onward(mask, a) \in (a + 1)..NBits
    <3> TAKE a \in j..(NBits - 1)
    <3>1. a \in 0..(NBits - 1)
      BY <2>1
    <3> QED
      BY <1>0, <3>1, RangeIs
  <2>3. \A a \in k..NBits : h[a] = g[a]
    BY <1>4, <2>1
  <2>4. \A a \in j..NBits : a = j \/ a \in k..NBits
    BY <1>4, <2>1
  <2>5. h[j] = <<<<j, Upto(mask, j)>>>> \o h[Onward(mask, j)]
    <3>1. Onward(mask, j) \in k..NBits
      BY <1>0, <1>4, <2>1, <2>2
    <3>2. h[j] = <<<<j, Upto(mask, j)>>>> \o g[Onward(mask, j)]
      BY <1>0, <2>1
    <3> HIDE DEF h, j
    <3> QED
      BY <2>3, <3>1, <3>2
  <2> HIDE DEF h
  <2>6. ASSUME NEW a \in k..NBits
        PROVE  h[a] = IF a >= NBits THEN <<>> ELSE <<<<a, Upto(mask, a)>>>> \o h[Onward(mask, a)]
    <3>1. g[a] = IF a >= NBits THEN <<>> ELSE <<<<a, Upto(mask, a)>>>> \o g[Onward(mask, a)]
      BY <1>5 DEF Prints
    <3>2. h[a] = g[a]
      BY <2>3
    <3>3. CASE a >= NBits
      BY <3>1, <3>2, <3>3
    <3>4. CASE ~(a >= NBits)
      <4>1. a \in j..(NBits - 1)
        BY <1>0, <1>4, <3>4
      <4>2. Onward(mask, a) \in k..NBits
        BY <1>0, <1>4, <2>2, <4>1
      <4>3. h[Onward(mask, a)] = g[Onward(mask, a)]
        BY <2>3, <4>2
      <4> QED
        BY <3>1, <3>2, <3>4, <4>3, Zenon
    <3> QED
      BY <3>3, <3>4
  <2>7. Prints(mask, h, j)
    <3>1. ~(j >= NBits)
      BY <1>0, <2>1
    <3> HIDE DEF j
    <3> QED
      BY <2>4, <2>5, <2>6, <3>1, Zenon DEF Prints
  <2>8. j \in D
    BY <1>0, <2>1, <2>7 DEF D
  <2> QED
    BY <1>3, <1>4, <2>8
<1>7. Prints(mask, g, 0)
  BY <1>5, <1>6
<1> DEFINE h == [a \in 0..NBits |-> g[a]]
<1>8. \A a \in 0..NBits : h[a] = g[a]
  OBVIOUS
<1>9. \A a \in 0..(NBits - 1) : Onward(mask, a) \in 0..NBits
  BY <1>0, RangeIs
<1> DEFINE e(q, a) == IF a >= NBits THEN <<>> ELSE <<<<a, Upto(mask, a)>>>> \o q[Onward(mask, a)]
<1>10. \A a \in 0..NBits : g[a] = e(h, a)
  <2> TAKE a \in 0..NBits
  <2>1. g[a] = e(g, a)
    BY <1>7, Zenon DEF Prints
  <2>2. CASE a >= NBits
    BY <2>1, <2>2, Zenon
  <2>3. CASE ~(a >= NBits)
    <3>1. a \in 0..(NBits - 1)
      BY <1>0, <2>3
    <3>2. h[Onward(mask, a)] = g[Onward(mask, a)]
      BY <1>8, <1>9, <3>1
    <3> HIDE DEF h
    <3> QED
      BY <2>1, <2>3, <3>2, Zenon
  <2> QED
    BY <2>2, <2>3
<1>11. h = [a \in 0..NBits |-> e(h, a)]
  <2> DEFINE q == [a \in 0..NBits |-> e(h, a)]
  <2>1. \A a \in 0..NBits : q[a] = h[a]
    BY <1>8, <1>10, Zenon
  <2> HIDE DEF e, h
  <2>2. q = [a \in 0..NBits |-> q[a]]
    OBVIOUS
  <2>3. h = [a \in 0..NBits |-> h[a]]
    BY <1>8 DEF h
  <2> HIDE DEF q
  <2>4. q = h
    BY <2>1, <2>2, <2>3
  <2> QED
    BY <2>4 DEF q
<1> HIDE DEF h
<1> QED
  BY <1>11

\* bitmap_snprintf() is such a printer.
LEMMA SnprintfIs ==
  ASSUME NEW mask \in [Forms!Bits -> BOOLEAN]
  PROVE  \E g : /\ Prints(mask, g, 0)
                /\ Forms!Snprintf(mask) = g[Forms!FindFirst(mask, TRUE, 0, NBits)]
<1> DEFINE e(q, a) == IF a >= NBits THEN <<>> ELSE <<<<a, Upto(mask, a)>>>> \o q[Onward(mask, a)]
           g == CHOOSE q : q = [a \in 0..NBits |-> e(q, a)]
<1>1. \E q : q = [a \in 0..NBits |-> e(q, a)]
  BY PrintsExists
<1>2. g = [a \in 0..NBits |-> e(g, a)]
  <2> HIDE DEF e
  <2> QED
    BY <1>1, Zenon
<1>3. Forms!Snprintf(mask) = g[Forms!FindFirst(mask, TRUE, 0, NBits)]
  BY Zenon DEF Forms!Snprintf, Upto, Onward
<1> HIDE DEF g
<1>4. Prints(mask, g, 0)
  <2>1. \A a \in 0..NBits : g[a] = e(g, a)
    <3> HIDE DEF e
    <3> QED
      BY <1>2
  <2> QED
    BY <2>1, Zenon DEF Prints
<1> QED
  BY <1>3, <1>4

\* What is printed from bit a on: ranges of set bits, all of them.
Lists(mask, a, s) ==
  /\ s \in Seq((0..(NBits - 1)) \X (0..(NBits - 1)))
  /\ a < NBits => s # <<>>
  /\ \A r \in Forms!ToSet(s) : a <= r[1] /\ r[1] <= r[2]
  /\ \A i \in a..(NBits - 1) : mask[i] <=> \E r \in Forms!ToSet(s) : i \in r[1]..r[2]

\* A sequence with one more in front.
LEMMA ConsIs ==
  ASSUME NEW S, NEW x \in S, NEW s \in Seq(S)
  PROVE  /\ <<x>> \o s \in Seq(S) /\ <<x>> \o s # <<>>
         /\ Forms!ToSet(<<x>> \o s) = {x} \union Forms!ToSet(s)
<1> DEFINE t == <<x>> \o s
<1>1. t \in Seq(S) /\ Len(t) = Len(s) + 1 /\ t # <<>>
  OBVIOUS
<1>2. Len(s) \in Nat /\ DOMAIN s = 1..Len(s) /\ DOMAIN t = 1..(Len(s) + 1)
  BY <1>1
<1>3. t[1] = x /\ \A i \in 1..Len(s) : t[i + 1] = s[i]
  OBVIOUS
<1>4. \A j \in DOMAIN t : j = 1 \/ \E i \in 1..Len(s) : j = i + 1
  <2> TAKE j \in DOMAIN t
  <2>1. j = 1 \/ (j - 1 \in 1..Len(s) /\ j = (j - 1) + 1)
    BY <1>2
  <2> QED
    BY <2>1
<1>5. 1 \in DOMAIN t /\ \A i \in 1..Len(s) : i + 1 \in DOMAIN t
  BY <1>2
<1> HIDE DEF t
<1>6. Forms!ToSet(t) = {t[j] : j \in DOMAIN t} /\ Forms!ToSet(s) = {s[i] : i \in 1..Len(s)}
  BY <1>2 DEF Forms!ToSet
<1>7. {t[j] : j \in DOMAIN t} = {x} \union {s[i] : i \in 1..Len(s)}
  BY <1>3, <1>4, <1>5
<1> QED
  BY <1>1, <1>6, <1>7 DEF t

\* Such a printer lists just the bits that are set.
LEMMA PrintsLists ==
  ASSUME NEW mask \in [Forms!Bits -> BOOLEAN], NEW g, Prints(mask, g, 0),
         NEW a \in 0..NBits, a < NBits => mask[a]
  PROVE  Lists(mask, a, g[a])
<1> DEFINE Good(x) == (x < NBits => mask[x]) => Lists(mask, x, g[x])
           C == {x \in 0..NBits : ~Good(x)}
<1>0. NBits \in Nat
  BY SizesHold DEF InProportion
<1>1. \A x \in 0..NBits :
        g[x] = IF x >= NBits THEN <<>> ELSE <<<<x, Upto(mask, x)>>>> \o g[Onward(mask, x)]
  BY Zenon DEF Prints
<1>2. C = {}
  <2> SUFFICES ASSUME C # {} PROVE FALSE
    OBVIOUS
  <2>1. C \subseteq 0..NBits /\ (\A x \in C : ~Good(x)) /\ (\A x \in 0..NBits : x \notin C => Good(x))
    BY Zenon
  <2> HIDE DEF C, Good
  <2>2. PICK x \in C : \A y \in C : y <= x
    BY <1>0, <2>1, LargestIs
  <2>3. x \in 0..NBits /\ ~Good(x) /\ \A y \in (x + 1)..NBits : Good(y)
    BY <1>0, <2>1, <2>2
  <2>4. CASE x >= NBits
    <3>1. x = NBits /\ g[x] = <<>>
      <4>1. g[x] = <<>>
        BY <1>1, <2>3, <2>4, Zenon
      <4> QED
        BY <1>0, <2>3, <2>4, <4>1
    <3>2. Forms!ToSet(<<>>) = {}
      BY DEF Forms!ToSet
    <3>3. Lists(mask, x, g[x])
      BY <1>0, <3>1, <3>2 DEF Lists
    <3> QED
      BY <2>3, <3>3 DEF Good
  <2>5. CASE x < NBits
    <3> DEFINE b == Upto(mask, x)
               c == Onward(mask, x)
               R == (0..(NBits - 1)) \X (0..(NBits - 1))
               s == g[c]
    <3>1. x \in 0..(NBits - 1)
      BY <1>0, <2>3, <2>5
    <3>2. /\ b \in x..(NBits - 1) /\ c \in (b + 1)..NBits
          /\ \A i \in (x + 1)..b : mask[i]
          /\ \A i \in (b + 1)..(c - 1) : ~mask[i]
          /\ c < NBits => mask[c]
      BY <3>1, RangeIs
    <3>3. g[x] = <<<<x, b>>>> \o s
      <4>1. ~(x >= NBits)
        BY <1>0, <2>3, <2>5
      <4> QED
        BY <1>1, <2>3, <4>1, Zenon
    <3> HIDE DEF b, c, s
    <3>4. mask[x]
      BY <2>3, <2>5, Zenon DEF Good
    <3>5. Lists(mask, c, s)
      <4>1. c \in (x + 1)..NBits
        BY <1>0, <3>1, <3>2
      <4> QED
        BY <2>3, <3>2, <4>1 DEF Good, s
    <3>6. <<x, b>> \in R
      BY <1>0, <3>1, <3>2
    <3>7. /\ s \in Seq(R)
          /\ \A r \in Forms!ToSet(s) : c <= r[1] /\ r[1] <= r[2]
          /\ \A i \in c..(NBits - 1) : mask[i] <=> \E r \in Forms!ToSet(s) : i \in r[1]..r[2]
      BY <3>5 DEF Lists
    <3>8. g[x] \in Seq(R) /\ g[x] # <<>> /\ Forms!ToSet(g[x]) = {<<x, b>>} \union Forms!ToSet(s)
      <4> DEFINE r == <<x, b>>
      <4>1. r \in R /\ g[x] = <<r>> \o s
        BY <3>3, <3>6
      <4> HIDE DEF R, r
      <4>2. s \in Seq(R)
        BY <3>7
      <4>3. <<r>> \o s \in Seq(R) /\ <<r>> \o s # <<>> /\ Forms!ToSet(<<r>> \o s) = {r} \union Forms!ToSet(s)
        BY <4>1, <4>2, ConsIs
      <4> QED
        BY <4>1, <4>3 DEF r
    <3>9. Forms!ToSet(s) \subseteq R
      BY <3>7 DEF Forms!ToSet
    <3>10. \A r \in Forms!ToSet(g[x]) : x <= r[1] /\ r[1] <= r[2]
      <4>1. \A r \in Forms!ToSet(s) : r[1] \in Nat /\ r[2] \in Nat /\ c <= r[1] /\ r[1] <= r[2]
        BY <3>7, <3>9
      <4>2. <<x, b>>[1] = x /\ <<x, b>>[2] = b
        OBVIOUS
      <4> QED
        BY <1>0, <3>1, <3>2, <3>8, <4>1, <4>2
    <3>11. ASSUME NEW i \in x..(NBits - 1)
           PROVE  mask[i] <=> \E r \in Forms!ToSet(g[x]) : i \in r[1]..r[2]
      <4>1. (\E r \in Forms!ToSet(g[x]) : i \in r[1]..r[2]) <=>
              i \in x..b \/ \E r \in Forms!ToSet(s) : i \in r[1]..r[2]
        <5> DEFINE T == Forms!ToSet(s)
                   r0 == <<x, b>>
        <5>1. r0[1] = x /\ r0[2] = b
          OBVIOUS
        <5>2. Forms!ToSet(g[x]) = {r0} \union T
          BY <3>8
        <5> HIDE DEF T, r0
        <5>3. (\E r \in Forms!ToSet(g[x]) : i \in r[1]..r[2]) <=>
                i \in r0[1]..r0[2] \/ \E r \in T : i \in r[1]..r[2]
          BY <5>2, Zenon
        <5> QED
          BY <5>1, <5>3 DEF T
      <4>2. CASE i <= b
        <5>1. i \in x..b /\ (i = x \/ i \in (x + 1)..b)
          BY <3>1, <3>2, <4>2
        <5>2. mask[i]
          BY <3>2, <3>4, <5>1
        <5> QED
          BY <4>1, <5>1, <5>2
      <4>3. CASE b < i /\ i < c
        <5>1. i \in (b + 1)..(c - 1) /\ i \notin x..b
          BY <3>1, <3>2, <4>3
        <5>2. ~\E r \in Forms!ToSet(s) : i \in r[1]..r[2]
          <6> SUFFICES ASSUME NEW r \in Forms!ToSet(s), i \in r[1]..r[2] PROVE FALSE
            OBVIOUS
          <6>1. c <= r[1] /\ r[1] \in Nat /\ r[2] \in Nat
            BY <3>7, <3>9
          <6> QED
            BY <1>0, <3>1, <3>2, <4>3, <6>1
        <5>3. ~mask[i]
          BY <3>2, <5>1
        <5> QED
          BY <4>1, <5>1, <5>2, <5>3
      <4>4. CASE c <= i
        <5>1. i \in c..(NBits - 1) /\ i \notin x..b
          BY <1>0, <3>1, <3>2, <4>4
        <5> QED
          BY <3>7, <4>1, <5>1
      <4> QED
        BY <1>0, <3>1, <3>2, <4>2, <4>3, <4>4
    <3>12. Lists(mask, x, g[x])
      BY <3>8, <3>10, <3>11 DEF Lists
    <3> QED
      BY <2>3, <3>12 DEF Good
  <2> QED
    BY <1>0, <2>3, <2>4, <2>5
<1>3. a \notin C
  <2> HIDE DEF C
  <2> QED
    BY <1>2
<1> QED
  BY <1>3, Zenon

\* The bits of a mask.
LEMMA BitsAre ==
  /\ NBits \in Nat /\ NBits > 0 /\ 0..(NBits - 1) \subseteq Forms!Bits
  /\ \A mask \in [Forms!Bits -> BOOLEAN] : \A i \in 0..(NBits - 1) : mask[i] \in BOOLEAN
<1>1. PerLong \in Nat /\ Forms!Longs(NBits) \in Nat /\ NBits <= Forms!Longs(NBits) * PerLong /\ NBits \in Nat /\ NBits > 0
  BY SizesHold, LongsIs DEF InProportion
<1>2. Forms!Longs(NBits) * PerLong \in Nat
  BY <1>1, Products
<1>3. 0..(NBits - 1) \subseteq Forms!Bits
  BY <1>1, <1>2 DEF Forms!Bits
<1> QED
  BY <1>1, <1>3

\* The first bit of a whole bitmap.
LEMMA FirstIs ==
  ASSUME NEW mask, NEW bit
  PROVE  NextBit(mask, bit, 0, Forms!FindFirst(mask, bit, 0, NBits))
<1> DEFINE r == Forms!FindFirst(mask, bit, 0, NBits)
<1>1. NBits \in Nat /\ 0 \in Nat /\ 0 * PerLong = 0
  BY SizesHold DEF InProportion
<1>2. First(mask, bit, 0 * PerLong, NBits, r)
  BY <1>1, FindFirstIs
<1> HIDE DEF r
<1>3. r \in 0..NBits /\ (r < NBits => mask[0 + r] = bit) /\ \A i \in 0..(r - 1) : mask[0 + i] # bit
  BY <1>1, <1>2 DEF First
<1>4. 0 + r = r /\ \A i \in 0..(r - 1) : 0 + i = i
  BY <1>3
<1>5. NextBit(mask, bit, 0, r)
  BY <1>3, <1>4 DEF NextBit
<1> QED
  BY <1>5 DEF r

\* A mask of some bits is printed as ranges that stand for it.
LEMMA PrintedIs ==
  ASSUME NEW mask \in [Forms!Bits -> BOOLEAN], \E i \in 0..(NBits - 1) : mask[i]
  PROVE  Lists(mask, 0, Forms!Snprintf(mask))
<1> DEFINE f == Forms!FindFirst(mask, TRUE, 0, NBits)
           s == Forms!Snprintf(mask)
<1>0. NBits \in Nat
  BY BitsAre
<1>1. PICK g : Prints(mask, g, 0) /\ s = g[f]
  BY SnprintfIs
<1>2. NextBit(mask, TRUE, 0, f)
  BY FirstIs
<1> HIDE DEF f, s
<1>3. f \in 0..NBits /\ (f < NBits => mask[f] = TRUE) /\ \A i \in 0..(f - 1) : mask[i] # TRUE
  BY <1>2 DEF NextBit
<1>4. PICK j \in 0..(NBits - 1) : mask[j]
  OBVIOUS
<1>5. \A i \in 0..(NBits - 1) : mask[i] \in BOOLEAN
  BY BitsAre
<1>6. f <= j /\ f < NBits
  <2>1. mask[j] = TRUE
    BY <1>4, <1>5
  <2>2. j \notin 0..(f - 1)
    BY <1>3, <2>1
  <2> QED
    BY <1>0, <1>3, <2>2
<1>7. Lists(mask, f, s)
  BY <1>1, <1>3, PrintsLists
<1>8. /\ s \in Seq((0..(NBits - 1)) \X (0..(NBits - 1))) /\ s # <<>>
      /\ \A r \in Forms!ToSet(s) : f <= r[1] /\ r[1] <= r[2]
      /\ \A i \in f..(NBits - 1) : mask[i] <=> \E r \in Forms!ToSet(s) : i \in r[1]..r[2]
  BY <1>6, <1>7 DEF Lists
<1>9. \A r \in Forms!ToSet(s) : r[1] \in Nat /\ r[2] \in Nat /\ r[1] >= 0
  BY <1>0, <1>8 DEF Forms!ToSet
<1>10. ASSUME NEW i \in 0..(NBits - 1)
       PROVE  mask[i] <=> \E r \in Forms!ToSet(s) : i \in r[1]..r[2]
  <2>1. CASE i < f
    <3>1. ~mask[i]
      <4>1. i \in 0..(f - 1)
        BY <1>3, <2>1
      <4>2. mask[i] # TRUE
        BY <1>3, <4>1
      <4>3. mask[i] \in BOOLEAN
        BY <1>5
      <4> QED
        BY <4>2, <4>3
    <3>2. \A r \in Forms!ToSet(s) : i \notin r[1]..r[2]
      <4> TAKE r \in Forms!ToSet(s)
      <4>1. f <= r[1] /\ r[1] \in Nat /\ r[2] \in Nat
        BY <1>8, <1>9
      <4> QED
        BY <1>3, <2>1, <4>1
    <3> QED
      BY <3>1, <3>2
  <2>2. CASE f <= i
    <3>1. i \in f..(NBits - 1)
      BY <1>0, <1>3, <2>2
    <3> QED
      BY <1>8, <3>1
  <2> QED
    BY <1>3, <2>1, <2>2
<1>11. Lists(mask, 0, s)
  BY <1>8, <1>9, <1>10 DEF Lists
<1> QED
  BY <1>11 DEF s

\* What conf_store_bitmap() writes of a bitmap, bitmap_parse() reads back:
\* each of the NBits bits, whatever the length of a word.  A bitmap without
\* a bit has no text of its own.
THEOREM BitmapIsReadBack ==
  ASSUME NEW mask \in [Forms!Bits -> BOOLEAN], \E i \in 0..(NBits - 1) : mask[i]
  PROVE  LET r == Forms!Bitmap(Forms!BitmapStr(mask))
         IN  /\ r.code = "OK" /\ r.val \in [Forms!Bits -> BOOLEAN]
             /\ \A i \in 0..(NBits - 1) : r.val[i] = mask[i]
<1> DEFINE l == Forms!BitmapStr(mask)
           s == Forms!Snprintf(mask)
           f == Forms!FindFirst(mask, FALSE, 0, NBits)
<1>0. NBits \in Nat /\ 0..(NBits - 1) \subseteq Forms!Bits /\ \A i \in 0..(NBits - 1) : mask[i] \in BOOLEAN
  BY BitsAre
<1>1. l = IF f = NBits THEN Forms!All ELSE s
  BY Zenon DEF Forms!BitmapStr
<1>2. CASE f = NBits
  <2> DEFINE v == [i \in Forms!Bits |-> TRUE]
  <2>1. Forms!Bitmap(l) = Forms!Got(v)
    BY <1>1, <1>2, Zenon DEF Forms!Bitmap
  <2>2. \A i \in 0..(NBits - 1) : mask[i]
    <3>1. NextBit(mask, FALSE, 0, f)
      BY FirstIs
    <3> HIDE DEF f
    <3>2. \A i \in 0..(NBits - 1) : mask[i] # FALSE
      BY <1>2, <3>1 DEF NextBit
    <3> QED
      BY <1>0, <3>2
  <2>3. v \in [Forms!Bits -> BOOLEAN] /\ \A i \in 0..(NBits - 1) : v[i] = TRUE
    BY <1>0
  <2> HIDE DEF v, l
  <2>4. Forms!Got(v).val = v /\ Forms!Got(v).code = "OK"
    BY DEF Forms!Got
  <2>5. \A i \in 0..(NBits - 1) : v[i] = mask[i]
    BY <1>0, <2>2, <2>3
  <2> QED
    BY <2>1, <2>3, <2>4, <2>5, Zenon DEF l
<1>3. CASE f # NBits
  <2> DEFINE v == [i \in Forms!Bits |-> \E r \in Forms!ToSet(s) : i \in r[1]..r[2]]
             R == (0..(NBits - 1)) \X (0..(NBits - 1))
  <2>1. l = s
    BY <1>1, <1>3, Zenon
  <2>2. Lists(mask, 0, s)
    BY PrintedIs
  <2> HIDE DEF s, l
  <2>3. /\ s \in Seq(R) /\ s # <<>>
        /\ \A r \in Forms!ToSet(s) : 0 <= r[1] /\ r[1] <= r[2]
        /\ \A i \in 0..(NBits - 1) : mask[i] <=> \E r \in Forms!ToSet(s) : i \in r[1]..r[2]
    BY <2>2, BitsAre DEF Lists
  <2>4. \A r \in Forms!ToSet(s) : r[1] \in 0..(NBits - 1) /\ r[2] \in 0..(NBits - 1)
    BY <2>3 DEF Forms!ToSet
  <2>5. ~\E r \in Forms!ToSet(s) : r[1] > r[2] \/ r[2] >= NBits
    BY <1>0, <2>3, <2>4
  <2>6. s # Forms!All
    BY <2>3 DEF Forms!All
  <2>7. Forms!Bitmap(s) = Forms!Got(v)
    BY <2>5, <2>6, Zenon DEF Forms!Bitmap
  <2>8. v \in [Forms!Bits -> BOOLEAN]
    OBVIOUS
  <2>9. \A i \in 0..(NBits - 1) : v[i] = mask[i]
    <3> TAKE i \in 0..(NBits - 1)
    <3>1. v[i] = (\E r \in Forms!ToSet(s) : i \in r[1]..r[2])
      BY <1>0
    <3>2. mask[i] <=> \E r \in Forms!ToSet(s) : i \in r[1]..r[2]
      BY <2>3
    <3>3. v[i] \in BOOLEAN /\ mask[i] \in BOOLEAN
      BY <1>0, <2>8
    <3> HIDE DEF v
    <3> QED
      BY <3>1, <3>2, <3>3, Zenon
  <2> HIDE DEF v
  <2>10. Forms!Got(v).val = v /\ Forms!Got(v).code = "OK"
    BY DEF Forms!Got
  <2> QED
    BY <2>1, <2>7, <2>8, <2>9, <2>10, Zenon DEF l
<1> QED
  BY <1>2, <1>3

\* A CPU mask that is taken: its bits, and that there are some.
LEMMA CpumaskIs ==
  ASSUME NEW t, NEW want, Taken("CPUMASK", t)
  PROVE  LET v == Forms!Parse("CPUMASK", t, TRUE).val
         IN  /\ v \in [Forms!Bits -> BOOLEAN] /\ (\E i \in 0..(NBits - 1) : v[i])
             /\ {i \in 0..(NBits - 1) : v[i]} = Forms!Meaning("CPUMASK", t, want)
<1> DEFINE v == Forms!Parse("CPUMASK", t, TRUE).val
           M == Forms!Meaning("CPUMASK", t, want)
<1>0. NBits \in Nat /\ NBits > 0 /\ 0..(NBits - 1) \subseteq Forms!Bits
  BY BitsAre
<1>1. Forms!Parse("CPUMASK", t, TRUE) = Forms!Bitmap(t)
  BY ParseOther
<1>2. M = IF t = Forms!All THEN 0..(NBits - 1) ELSE UNION {r[1]..r[2] : r \in Forms!ToSet(t)}
  BY MeaningOther
<1>3. CASE t = Forms!All
  <2> DEFINE w == [i \in Forms!Bits |-> TRUE]
  <2>1. Forms!Bitmap(t) = Forms!Got(w)
    BY <1>3, Zenon DEF Forms!Bitmap
  <2>2. w \in [Forms!Bits -> BOOLEAN] /\ \A i \in 0..(NBits - 1) : w[i]
    BY <1>0
  <2> HIDE DEF w, M
  <2>3. Forms!Got(w).val = w
    BY DEF Forms!Got
  <2>4. v = w
    BY <1>1, <2>1, <2>3, Zenon
  <2> HIDE DEF v
  <2>5. 0 \in 0..(NBits - 1) /\ {i \in 0..(NBits - 1) : v[i]} = 0..(NBits - 1)
    BY <1>0, <2>2, <2>4
  <2>6. M = 0..(NBits - 1)
    BY <1>2, <1>3, Zenon
  <2>7. v \in [Forms!Bits -> BOOLEAN] /\ v[0]
    BY <2>2, <2>4, <2>5
  <2> QED
    BY <2>5, <2>6, <2>7 DEF v, M
<1>4. CASE t # Forms!All
  <2> DEFINE T == Forms!ToSet(t)
             w == [i \in Forms!Bits |-> \E r \in T : i \in r[1]..r[2]]
  <2>1. t \in Forms!Words(Forms!Ranges)
    BY <1>4, TextsOther DEF Taken
  <2>2. T \subseteq Forms!Ranges /\ T # {}
    BY <2>1, WordsIs
  <2>3. ~\E r \in T : r[1] > r[2] \/ r[2] >= NBits
    BY <1>1, <1>4, CodesAre, Zenon DEF Taken, Forms!Bitmap
  <2>4. Forms!Bitmap(t) = Forms!Got(w)
    BY <1>4, <2>3, Zenon DEF Forms!Bitmap
  <2> HIDE DEF T
  <2>5. w \in [Forms!Bits -> BOOLEAN]
    OBVIOUS
  <2>6. \A i \in 0..(NBits - 1) : w[i] <=> \E r \in T : i \in r[1]..r[2]
    BY <1>0
  <2>7. \A r \in T : r[1] \in Nat /\ r[2] \in Nat /\ r[1] <= r[2] /\ r[2] < NBits
    BY <1>0, <2>2, <2>3 DEF Forms!Ranges
  <2>8. PICK r \in T : TRUE
    BY <2>2
  <2>9. r[1] \in 0..(NBits - 1) /\ r[1] \in r[1]..r[2]
    BY <1>0, <2>7
  <2>10. w[r[1]]
    BY <2>6, <2>9
  <2>11. M = UNION {q[1]..q[2] : q \in T}
    BY <1>2, <1>4, Zenon DEF T
  <2>12. \A i : i \in M <=> \E q \in T : i \in q[1]..q[2]
    BY <2>11, Zenon
  <2>13. \A i \in M : i \in 0..(NBits - 1)
    BY <1>0, <2>7, <2>12
  <2> HIDE DEF w, M
  <2>14. {i \in 0..(NBits - 1) : w[i]} = M
    BY <2>6, <2>12, <2>13
  <2>15. Forms!Got(w).val = w
    BY DEF Forms!Got
  <2>16. v = w
    BY <1>1, <2>4, <2>15, Zenon
  <2> HIDE DEF v
  <2> QED
    BY <2>5, <2>9, <2>10, <2>14, <2>16 DEF v, M
<1> QED
  BY <1>3, <1>4

\* --cpumask
LEMMA CpumaskReadBack ==
  ASSUME NEW t, NEW old, NEW want, Taken("CPUMASK", t)
  PROVE  ReadsBack("CPUMASK", t, old, want)
<1> DEFINE v == Forms!Parse("CPUMASK", t, TRUE).val
           l == Forms!BitmapStr(v)
           r == Forms!Bitmap(l)
           p == r.val
           M == Forms!Meaning("CPUMASK", t, want)
<1>1. v \in [Forms!Bits -> BOOLEAN] /\ (\E i \in 0..(NBits - 1) : v[i]) /\ {i \in 0..(NBits - 1) : v[i]} = M
  BY CpumaskIs
<1> HIDE DEF v, M
<1>2. p \in [Forms!Bits -> BOOLEAN] /\ \A i \in 0..(NBits - 1) : p[i] = v[i]
  BY <1>1, BitmapIsReadBack
<1>3. Forms!Store("CPUMASK", v, old) = l /\ Forms!Parse("CPUMASK", l, FALSE) = r
  BY StoreOther, ParseOther
<1>4. l # None
  <2>1. Forms!All \in Seq(Tokens)
    BY DEF Forms!All
  <2>2. Forms!Snprintf(v) \in Seq(Tokens)
    <3> DEFINE R == (0..(NBits - 1)) \X (0..(NBits - 1))
               s == Forms!Snprintf(v)
    <3>1. Lists(v, 0, s)
      BY <1>1, PrintedIs
    <3> HIDE DEF s
    <3>2. s \in Seq(R)
      BY <3>1 DEF Lists
    <3>3. R \subseteq Tokens
      <4>1. NBits \in Nat
        BY BitsAre
      <4>2. R \subseteq Seq(Nat)
        BY <4>1
      <4> HIDE DEF R
      <4> QED
        BY <4>2, TokensAre
    <3> HIDE DEF R
    <3>4. s \in Seq(Tokens)
      BY <3>2, <3>3
    <3> QED
      BY <3>4 DEF s
  <2>3. l = Forms!All \/ l = Forms!Snprintf(v)
    BY Zenon DEF Forms!BitmapStr
  <2> HIDE DEF l
  <2> QED
    BY <2>1, <2>2, <2>3, KeptIs
<1> HIDE DEF p, r, l
<1>5. p # None /\ v # None
  BY <1>1, <1>2, KeptIs
<1>6. Forms!View("CPUMASK", p) = M
  <2>1. Forms!View("CPUMASK", p) = {i \in 0..(NBits - 1) : p[i]}
    BY <1>5, ViewOther
  <2> QED
    BY <1>1, <1>2, <2>1
<1>7. Held("CPUMASK", p)
  BY NothingHeld
<1> QED
  BY <1>3, <1>4, <1>5, <1>6, <1>7, Zenon DEF ReadsBack, v, p, M

\* Whatever parameter: its line is read back as all its arguments meant.
LEMMA EveryFormReadsBack ==
  ASSUME NEW k \in Forms!Kinds, NEW t, NEW old, NEW want, Taken(k, t), Before(k, old, want)
  PROVE  ReadsBack(k, t, old, want)
<1>1. \/ k \in NumKinds \/ k = "CPUMASK" \/ k = "MEMINFO" \/ k = "CAPABILITY" \/ k = "IPTABLES"
      \/ k = "FEATURES" \/ k = "DEVICES" \/ k = "PCI" \/ k = "NETDEV" \/ k = "ONBOOT"
  BY DEF Forms!Kinds, NumKinds
<1>2. CASE k \in NumKinds
  BY <1>2, NumbersReadBack
<1>3. CASE k = "CPUMASK"
  BY <1>3, CpumaskReadBack
<1>4. CASE k = "MEMINFO"
  BY <1>4, MeminfoReadBack
<1>5. CASE k = "CAPABILITY"
  BY <1>5, CapabilityReadBack
<1>6. CASE k = "IPTABLES"
  BY <1>6, IptablesReadBack
<1>7. CASE k = "FEATURES"
  BY <1>7, FeaturesReadBack
<1>8. CASE k = "DEVICES"
  BY <1>8, DevicesReadBack
<1>9. CASE k = "PCI"
  BY <1>9, PciReadBack
<1>10. CASE k = "NETDEV"
  BY <1>10, NetdevReadBack
<1>11. CASE k = "ONBOOT"
  BY <1>11, OnbootReadBack
<1> QED
  BY <1>1, <1>2, <1>3, <1>4, <1>5, <1>6, <1>7, <1>8, <1>9, <1>10, <1>11

-----------------------------------------------------------------------------
(* The line of a parameter is what all saved arguments mean, and vzctl is  *)
(* about to write what it has parsed of the last one.                      *)
Read(k, l) == IF l = None THEN None ELSE Forms!Parse(k, l, FALSE).val

FormTypes ==
  /\ kind \in Forms!Kinds /\ step \in {"idle", "ready", "save"}
  /\ told \in {"nothing", "saved", "bad parameter"} /\ formRuns \in 0..FormRuns

FormInv ==
  /\ FormTypes
  /\ Before(kind, Read(kind, line), formWant)
  /\ step \in {"ready", "save"} => formConf = Read(kind, line) /\ formRuns < FormRuns
  /\ step = "save" => Taken(kind, text) /\ formNew = Forms!Parse(kind, text, TRUE).val

\* A command begins with nothing read.
LEMMA FormInit == Forms!Init => FormInv
<1> SUFFICES ASSUME Forms!Init PROVE FormInv
  OBVIOUS
<1>1. Before(kind, Read(kind, line), formWant)
  BY DEF Forms!Init, Before, Read
<1>2. FormTypes
  BY SizesHold DEF InProportion, Forms!Init, FormTypes
<1> QED
  BY <1>1, <1>2 DEF Forms!Init, FormInv

\* No step of a command breaks it.
LEMMA FormStep == FormInv /\ [Forms!Next]_formVars => FormInv'
<1> SUFFICES ASSUME FormInv, [Forms!Next]_formVars PROVE FormInv'
  OBVIOUS
<1>0. FormRuns \in Nat
  BY SizesHold DEF InProportion
<1>1. CASE UNCHANGED formVars
  <2>1. UNCHANGED <<kind, line, step, formConf, formNew, text, told, formWant, formRuns>>
    BY <1>1 DEF formVars
  <2> QED
    BY <2>1 DEF FormInv, FormTypes
<1>2. CASE Forms!ReadConf
  <2>1. /\ formRuns < FormRuns /\ step' = "ready" /\ told' = "nothing"
        /\ formConf' = Read(kind, line)
        /\ UNCHANGED <<kind, line, formNew, text, formWant, formRuns>>
    BY <1>2 DEF Forms!ReadConf, Read
  <2>2. FormTypes'
    BY <2>1 DEF FormInv, FormTypes
  <2> QED
    BY <2>1, <2>2 DEF FormInv
<1>3. CASE Forms!ReadArg
  <2>1. /\ step = "ready" /\ UNCHANGED <<kind, line, formConf, formWant>>
        /\ formConf = Read(kind, line) /\ formRuns < FormRuns
    BY <1>3 DEF Forms!ReadArg, FormInv
  <2>2. PICK t \in Forms!Texts(kind) :
          /\ text' = t
          /\ IF Forms!Parse(kind, t, TRUE).code = "OK"
             THEN /\ formNew' = Forms!Parse(kind, t, TRUE).val
                  /\ step' = "save"
                  /\ UNCHANGED <<told, formRuns>>
             ELSE /\ step' = "idle"
                  /\ told' = "bad parameter"
                  /\ formRuns' = formRuns + 1
                  /\ formNew' = None
    BY <1>3, Zenon DEF Forms!ReadArg
  <2>3. CASE Forms!Parse(kind, t, TRUE).code = "OK"
    <3>1. text' = t /\ step' = "save" /\ formNew' = Forms!Parse(kind, t, TRUE).val /\ UNCHANGED <<told, formRuns>>
      BY <2>2, <2>3, Zenon
    <3>2. Taken(kind, t)
      BY <2>3 DEF Taken
    <3>3. FormTypes'
      BY <2>1, <3>1 DEF FormInv, FormTypes
    <3>4. (Taken(kind, text) /\ formNew = Forms!Parse(kind, text, TRUE).val)'
      BY <2>1, <3>1, <3>2
    <3> QED
      BY <2>1, <3>1, <3>3, <3>4 DEF FormInv
  <2>4. CASE Forms!Parse(kind, t, TRUE).code # "OK"
    <3>1. step' = "idle" /\ told' = "bad parameter" /\ formRuns' = formRuns + 1
      BY <2>2, <2>4, Zenon
    <3>2. kind \in Forms!Kinds /\ formRuns \in 0..FormRuns
      BY DEF FormInv, FormTypes
    <3>3. formRuns < FormRuns /\ formRuns' = formRuns + 1
      BY <2>1, <3>1
    <3>4. formRuns' \in 0..FormRuns
      BY <1>0, <3>2, <3>3
    <3>5. FormTypes'
      BY <2>1, <3>1, <3>2, <3>4 DEF FormTypes
    <3> QED
      BY <2>1, <3>1, <3>5 DEF FormInv
  <2> QED
    BY <2>3, <2>4
<1>4. CASE Forms!Save
  <2>1. /\ step = "save" /\ step' = "idle" /\ told' = "saved" /\ formRuns' = formRuns + 1
        /\ line' = Forms!Store(kind, formNew, formConf)
        /\ formWant' = Forms!Meaning(kind, text, formWant)
        /\ kind' = kind
    BY <1>4 DEF Forms!Save
  <2>2. /\ formConf = Read(kind, line) /\ formRuns < FormRuns
        /\ Taken(kind, text) /\ formNew = Forms!Parse(kind, text, TRUE).val
        /\ Before(kind, formConf, formWant) /\ kind \in Forms!Kinds
    BY <2>1 DEF FormInv, FormTypes
  <2>3. ReadsBack(kind, text, formConf, formWant)
    BY <2>2, EveryFormReadsBack
  <2>4. LET p == Forms!Parse(kind, line', FALSE).val
        IN  line' # None /\ p # None /\ Held(kind, p) /\ Forms!View(kind, p) = formWant'
    BY <2>1, <2>2, <2>3, Zenon DEF ReadsBack
  <2>5. Before(kind, Read(kind, line'), formWant')
    BY <2>4, Zenon DEF Before, Read
  <2>6. formRuns \in 0..FormRuns
    BY DEF FormInv, FormTypes
  <2>7. formRuns' \in 0..FormRuns
    BY <1>0, <2>1, <2>2, <2>6
  <2>8. FormTypes'
    BY <2>1, <2>2, <2>7 DEF FormTypes
  <2> QED
    BY <2>1, <2>5, <2>8 DEF FormInv
<1>5. CASE Forms!Done
  <2>1. UNCHANGED <<kind, line, step, formConf, formNew, text, told, formWant, formRuns>>
    BY <1>5 DEF Forms!Done, Forms!vars
  <2> QED
    BY <2>1 DEF FormInv, FormTypes
<1> QED
  BY <1>1, <1>2, <1>3, <1>4, <1>5 DEF Forms!Next

\* The invariant is what the run checks, and the types.
LEMMA FormKept == FormInv => Forms!SavedIsReadBack /\ Forms!TypeOK
<1> SUFFICES ASSUME FormInv PROVE Forms!SavedIsReadBack /\ Forms!TypeOK
  OBVIOUS
<1>1. Forms!SavedIsReadBack
  <2> SUFFICES ASSUME step = "ready" PROVE Forms!View(kind, formConf) = formWant
    BY DEF Forms!SavedIsReadBack
  <2>1. Before(kind, formConf, formWant)
    BY DEF FormInv
  <2>2. CASE formConf = None /\ formWant = None
    BY <2>2, Zenon DEF Forms!View
  <2> QED
    BY <2>1, <2>2 DEF Before
<1>2. step = "save" => formNew # None
  <2> SUFFICES ASSUME step = "save" PROVE formNew # None
    OBVIOUS
  <2>1. /\ Before(kind, formConf, formWant) /\ kind \in Forms!Kinds
        /\ Taken(kind, text) /\ formNew = Forms!Parse(kind, text, TRUE).val
    BY DEF FormInv, FormTypes
  <2>2. ReadsBack(kind, text, formConf, formWant)
    BY <2>1, EveryFormReadsBack
  <2> QED
    BY <2>1, <2>2, Zenon DEF ReadsBack
<1>3. Forms!TypeOK
  BY <1>2 DEF FormInv, FormTypes, Forms!TypeOK
<1> QED
  BY <1>1, <1>3

\* No other part of the run touches the forms.
LEMMA FormsAlone == [SettingsNext]_allVars => [Forms!Next]_formVars
BY DEF SettingsNext, allVars, ConvertNext, ConfNext, FormsNext, LimitsNext, ByNameNext,
       ByModeNext

(* What the next vzctl reads of a parameter is what all the arguments that *)
(* were saved mean together, whatever their number, for each of the forms  *)
(* in which src/lib/config.c takes, keeps and writes a value: no unit, no  *)
(* truncation, no bit and no switch of an earlier command is lost between  *)
(* parse() and store().                                                    *)
THEOREM FormsAreReadBack == SettingsSpec => []SavedIsReadBack
<1>1. SettingsInit => FormInv
  BY FormInit DEF SettingsInit
<1>2. FormInv /\ [SettingsNext]_allVars => FormInv'
  BY FormsAlone, FormStep
<1>3. FormInv => SavedIsReadBack
  BY FormKept DEF SavedIsReadBack
<1> QED
  BY <1>1, <1>2, <1>3, PTL DEF SettingsSpec

-----------------------------------------------------------------------------
(* The other parts, and what is proved about them.                        *)
ConfP == INSTANCE SettingsProofs
  WITH Vals <- ConfVals, MaxRuns <- 3, Faults <- {},
       conf <- confConf, tmp <- confTmp, lock <- confLock, pc <- confPc,
       cmd <- confCmd, seen <- confSeen, want <- confWant, runs <- confRuns

ByNameP == INSTANCE SetCommandProofs
  WITH Cts <- NamedCts, Names <- CtNames, Vals <- {0}, Features <- {},
       Requests <- NameRequests, Faults <- NameFaults,
       exists <- namesExists, name <- namesName, par <- namesPar,
       area <- namesArea, dump <- namesDump, live <- namesLive,
       link <- namesLink, lock <- namesLock, pc <- namesPc, cmd <- namesCmd,
       ct <- namesCt, seen <- namesSeen, sample <- namesSample,
       torn <- namesTorn, matched <- namesMatched

ByModeP == INSTANCE SetCommandProofs
  WITH Cts <- ModeCts, Names <- ModeNames, Vals <- ModeVals, Features <- ModeFeatures,
       Requests <- ModeRequests, Faults <- ModeFaults,
       exists <- modesExists, name <- modesName, par <- modesPar,
       area <- modesArea, dump <- modesDump, live <- modesLive,
       link <- modesLink, lock <- modesLock, pc <- modesPc, cmd <- modesCmd,
       ct <- modesCt, seen <- modesSeen, sample <- modesSample,
       torn <- modesTorn, matched <- modesMatched

-----------------------------------------------------------------------------
(* Each part runs alone.  The proofs come with their own instance of a     *)
(* module, Settings in ConfP and SetCommand in ByNameP and ByModeP: they   *)
(* are the same word for word, so both are expanded down to the operators. *)

LEMMA ConfSame ==
  /\ Conf!Init => ConfP!Init
  /\ Conf!Next => ConfP!Next
  /\ ConfP!SettingsKept => Conf!SettingsKept
<1>1. \A f : Conf!Parse(f) = ConfP!Parse(f)
  BY DEF Conf!Params, ConfP!Params, Conf!Names, ConfP!Names, Conf!Param, ConfP!Param,
         Conf!LinesOf, ConfP!LinesOf, Conf!Min, ConfP!Min, Conf!Max, ConfP!Max,
         Conf!ReadFirst, ConfP!ReadFirst, Conf!ReadLast, ConfP!ReadLast,
         Conf!ReadWords, ConfP!ReadWords, Conf!ReadSwitches, ConfP!ReadSwitches,
         Conf!Parse, ConfP!Parse
<1>2. Conf!Commands = ConfP!Commands
  BY DEF Conf!Command, ConfP!Command, Conf!First, ConfP!First, Conf!Others, ConfP!Others,
         Conf!Commands, ConfP!Commands
<1>3. \A f, l : Conf!MergeConf(f, l) = ConfP!MergeConf(f, l)
  BY DEF Conf!Min, ConfP!Min, Conf!SelectInSeq, ConfP!SelectInSeq, Conf!IsLineOf,
         ConfP!IsLineOf, Conf!MergeConf, ConfP!MergeConf
<1>4. \A s, c : Conf!Store(s, c) = ConfP!Store(s, c) /\ Conf!Result(s, c) = ConfP!Result(s, c)
  BY DEF Conf!MergedWords, ConfP!MergedWords, Conf!MergedSwitches, ConfP!MergedSwitches,
         Conf!Result, ConfP!Result, Conf!Store, ConfP!Store
<1>5. Conf!Next => ConfP!Next
  BY <1>1, <1>2, <1>3, <1>4
     DEF Conf!file, ConfP!file, Conf!vars, ConfP!vars, Conf!Fault, ConfP!Fault, Conf!Params,
         ConfP!Params, Conf!Names, ConfP!Names, Conf!Param, ConfP!Param, Conf!Nothing,
         ConfP!Nothing, Conf!To, ConfP!To, Conf!Ends, ConfP!Ends, Conf!Invoke,
         ConfP!Invoke, Conf!Lock, ConfP!Lock, Conf!Apply, ConfP!Apply, Conf!ReadConf,
         ConfP!ReadConf, Conf!OpenTmp, ConfP!OpenTmp, Conf!Unwritten, ConfP!Unwritten,
         Conf!WriteLine, ConfP!WriteLine, Conf!Rename, ConfP!Rename, Conf!Die,
         ConfP!Die, Conf!Next, ConfP!Next
<1>6. Conf!Init => ConfP!Init
  BY <1>1
     DEF Conf!Init, ConfP!Init, Conf!Files, ConfP!Files, Conf!First, ConfP!First, Conf!Nothing,
         ConfP!Nothing, Conf!Params, ConfP!Params
<1>7. ConfP!SettingsKept => Conf!SettingsKept
  BY <1>1 DEF Conf!SettingsKept, ConfP!SettingsKept
<1> QED
  BY <1>5, <1>6, <1>7

LEMMA NameSame ==
  /\ ByName!Init => ByNameP!Init
  /\ ByName!Next => ByNameP!Next
  /\ ByNameP!NameKept => ByName!NameKept
<1>1. ByName!Next => ByNameP!Next
  BY DEF ByName!conf, ByNameP!conf, ByName!ctVars, ByNameP!ctVars, ByName!proc,
         ByNameP!proc, ByName!vars, ByNameP!vars, ByName!Fault, ByNameP!Fault,
         ByName!Sample, ByNameP!Sample, ByName!Default, ByNameP!Default, ByName!NoCmd,
         ByNameP!NoCmd, ByName!NoConf, ByNameP!NoConf, ByName!VeidOf, ByNameP!VeidOf,
         ByName!Running, ByNameP!Running, ByName!LiveOf, ByNameP!LiveOf, ByName!AtName,
         ByNameP!AtName, ByName!Meet, ByNameP!Meet, ByName!Watch, ByNameP!Watch,
         ByName!Goto, ByNameP!Goto, ByName!Advance, ByNameP!Advance, ByName!Step,
         ByNameP!Step, ByName!Invoke, ByNameP!Invoke, ByName!Free, ByNameP!Free,
         ByName!Lock, ByNameP!Lock, ByName!After, ByNameP!After, ByName!OldName,
         ByNameP!OldName, ByName!Unnamed, ByNameP!Unnamed, ByName!CheckName,
         ByNameP!CheckName, ByName!Unlink, ByNameP!Unlink, ByName!Symlink, ByNameP!Symlink,
         ByName!Alias, ByNameP!Alias, ByName!RemoveAlias, ByNameP!RemoveAlias,
         ByName!Starts, ByNameP!Starts, ByName!Restores, ByNameP!Restores, ByName!Boots,
         ByNameP!Boots, ByName!NoStart, ByNameP!NoStart, ByName!StartForPassword,
         ByNameP!StartForPassword, ByName!SetPassword, ByNameP!SetPassword,
         ByName!NoPassword, ByNameP!NoPassword, ByName!Differs, ByNameP!Differs,
         ByName!Apply, ByNameP!Apply, ByName!Refuse, ByNameP!Refuse, ByName!StopForRestart,
         ByNameP!StopForRestart, ByName!Merged, ByNameP!Merged, ByName!Restart,
         ByNameP!Restart, ByName!Stored, ByNameP!Stored, ByName!Save, ByNameP!Save,
         ByName!RemoveFile, ByNameP!RemoveFile, ByName!CopySample, ByNameP!CopySample,
         ByName!CheckArea, ByNameP!CheckArea, ByName!CreateFs, ByNameP!CreateFs,
         ByName!CreateScript, ByNameP!CreateScript, ByName!DestroyCt, ByNameP!DestroyCt,
         ByName!BackUpConfig, ByNameP!BackUpConfig, ByName!RemoveName, ByNameP!RemoveName,
         ByName!NamesRemoved, ByNameP!NamesRemoved, ByName!RemoveArea, ByNameP!RemoveArea,
         ByName!RemoveConfig, ByNameP!RemoveConfig, ByName!Interrupted, ByNameP!Interrupted,
         ByName!Tears, ByNameP!Tears, ByName!Leaves, ByNameP!Leaves, ByName!Unlock,
         ByNameP!Unlock, ByName!Killed, ByNameP!Killed, ByName!StartCt, ByNameP!StartCt,
         ByName!Halt, ByNameP!Halt, ByName!Chkpnt, ByNameP!Chkpnt, ByName!Next, ByNameP!Next
<1>2. ByName!Init => ByNameP!Init
  BY DEF ByName!Init, ByNameP!Init, ByName!NoCmd, ByNameP!NoCmd, ByName!NoConf,
         ByNameP!NoConf, ByName!Default, ByNameP!Default, ByName!Sample, ByNameP!Sample
<1>3. ByNameP!NameKept => ByName!NameKept
  BY DEF ByName!NameKept, ByNameP!NameKept
<1> QED
  BY <1>1, <1>2, <1>3

LEMMA ModeSame ==
  /\ ByMode!Init => ByModeP!Init
  /\ ByMode!Next => ByModeP!Next
  /\ ByModeP!SetModeHonoured => ByMode!SetModeHonoured
<1>1. ByMode!Next => ByModeP!Next
  BY DEF ByMode!conf, ByModeP!conf, ByMode!ctVars, ByModeP!ctVars, ByMode!proc,
         ByModeP!proc, ByMode!vars, ByModeP!vars, ByMode!Fault, ByModeP!Fault,
         ByMode!Sample, ByModeP!Sample, ByMode!Default, ByModeP!Default, ByMode!NoCmd,
         ByModeP!NoCmd, ByMode!NoConf, ByModeP!NoConf, ByMode!VeidOf, ByModeP!VeidOf,
         ByMode!Running, ByModeP!Running, ByMode!LiveOf, ByModeP!LiveOf, ByMode!AtName,
         ByModeP!AtName, ByMode!Meet, ByModeP!Meet, ByMode!Watch, ByModeP!Watch,
         ByMode!Goto, ByModeP!Goto, ByMode!Advance, ByModeP!Advance, ByMode!Step,
         ByModeP!Step, ByMode!Invoke, ByModeP!Invoke, ByMode!Free, ByModeP!Free,
         ByMode!Lock, ByModeP!Lock, ByMode!After, ByModeP!After, ByMode!OldName,
         ByModeP!OldName, ByMode!Unnamed, ByModeP!Unnamed, ByMode!CheckName,
         ByModeP!CheckName, ByMode!Unlink, ByModeP!Unlink, ByMode!Symlink, ByModeP!Symlink,
         ByMode!Alias, ByModeP!Alias, ByMode!RemoveAlias, ByModeP!RemoveAlias,
         ByMode!Starts, ByModeP!Starts, ByMode!Restores, ByModeP!Restores, ByMode!Boots,
         ByModeP!Boots, ByMode!NoStart, ByModeP!NoStart, ByMode!StartForPassword,
         ByModeP!StartForPassword, ByMode!SetPassword, ByModeP!SetPassword,
         ByMode!NoPassword, ByModeP!NoPassword, ByMode!Differs, ByModeP!Differs,
         ByMode!Apply, ByModeP!Apply, ByMode!Refuse, ByModeP!Refuse, ByMode!StopForRestart,
         ByModeP!StopForRestart, ByMode!Merged, ByModeP!Merged, ByMode!Restart,
         ByModeP!Restart, ByMode!Stored, ByModeP!Stored, ByMode!Save, ByModeP!Save,
         ByMode!RemoveFile, ByModeP!RemoveFile, ByMode!CopySample, ByModeP!CopySample,
         ByMode!CheckArea, ByModeP!CheckArea, ByMode!CreateFs, ByModeP!CreateFs,
         ByMode!CreateScript, ByModeP!CreateScript, ByMode!DestroyCt, ByModeP!DestroyCt,
         ByMode!BackUpConfig, ByModeP!BackUpConfig, ByMode!RemoveName, ByModeP!RemoveName,
         ByMode!NamesRemoved, ByModeP!NamesRemoved, ByMode!RemoveArea, ByModeP!RemoveArea,
         ByMode!RemoveConfig, ByModeP!RemoveConfig, ByMode!Interrupted, ByModeP!Interrupted,
         ByMode!Tears, ByModeP!Tears, ByMode!Leaves, ByModeP!Leaves, ByMode!Unlock,
         ByModeP!Unlock, ByMode!Killed, ByModeP!Killed, ByMode!StartCt, ByModeP!StartCt,
         ByMode!Halt, ByModeP!Halt, ByMode!Chkpnt, ByModeP!Chkpnt, ByMode!Next, ByModeP!Next
<1>2. ByMode!Init => ByModeP!Init
  BY DEF ByMode!Init, ByModeP!Init, ByMode!NoCmd, ByModeP!NoCmd, ByMode!NoConf,
         ByModeP!NoConf, ByMode!Default, ByModeP!Default, ByMode!Sample, ByModeP!Sample
<1>3. ByModeP!SetModeHonoured => ByMode!SetModeHonoured
  BY DEF ByMode!SetModeHonoured, ByModeP!SetModeHonoured, ByMode!Settled, ByModeP!Settled,
         ByMode!FeaturesGiven, ByModeP!FeaturesGiven, ByMode!LiveOf, ByModeP!LiveOf,
         ByMode!Running, ByModeP!Running
<1> QED
  BY <1>1, <1>2, <1>3

LEMMA Parts ==
  ASSUME [SettingsNext]_allVars
  PROVE  /\ [ConfP!Next]_(ConfP!vars)
         /\ [ByNameP!Next]_(ByNameP!vars)
         /\ [ByModeP!Next]_(ByModeP!vars)
<1> USE DEF SettingsNext, allVars, ConvertNext, ConfNext, FormsNext, LimitsNext,
            ByNameNext, ByModeNext
<1>1. ConfP!Next \/ UNCHANGED confVars
  BY ConfSame
<1>2. ByNameP!Next \/ UNCHANGED namesVars
  BY NameSame
<1>3. ByModeP!Next \/ UNCHANGED modesVars
  BY ModeSame
<1>4. UNCHANGED confVars => UNCHANGED ConfP!vars
  BY DEF confVars, ConfP!vars, ConfP!file
<1>5. UNCHANGED namesVars => UNCHANGED ByNameP!vars
  BY DEF namesVars, ByNameP!vars, ByNameP!conf, ByNameP!ctVars, ByNameP!proc
<1>6. UNCHANGED modesVars => UNCHANGED ByModeP!vars
  BY DEF modesVars, ByModeP!vars, ByModeP!conf, ByModeP!ctVars, ByModeP!proc
<1> QED
  BY <1>1, <1>2, <1>3, <1>4, <1>5, <1>6

\* What the proofs take for granted of the constants.
LEMMA SettledHere == ConfP!Settled
BY VzctlsAssumption, ConfAssumption DEF ConfP!Settled, ConfP!Fault

\* What SetCommandProofs calls Commands.
Meanings(names, vals, features) ==
  {r \in [op : {"none", "set", "create", "destroy", "start"}, name : names \union {None},
          par : vals \union {None}, known : SUBSET features, on : SUBSET features,
          mode : {"none", "ignore", "restart"}, pw : BOOLEAN,
          config : {"none", "default", "given"}] : r.on \subseteq r.known}

LEMMA MeantCommands ==
  ASSUME NEW cts, NEW names, NEW vals, NEW features, NEW requests,
         Meant(cts, names, vals, features, requests), NEW r \in requests
  PROVE  /\ r \in Meanings(names, vals, features)
         /\ r.op # "none" /\ (r.op \in {"destroy", "start"} => r.name = None)
<1>1. /\ r.op \in {"set", "create", "destroy", "start"} /\ r.name \in names \union {None}
      /\ r.par \in vals \union {None} /\ r.known \subseteq features
      /\ r.on \subseteq r.known /\ r.mode \in {"none", "ignore", "restart"}
      /\ r.pw \in BOOLEAN /\ r.config \in {"none", "default", "given"}
      /\ r.op \in {"destroy", "start"} => r.name = None
  BY Zenon DEF Meant
<1> DEFINE t == [op |-> r.op, name |-> r.name, par |-> r.par, known |-> r.known,
                 on |-> r.on, mode |-> r.mode, pw |-> r.pw, config |-> r.config]
<1>2. r = t
  BY Zenon DEF Meant
<1>3. t \in Meanings(names, vals, features)
  BY <1>1 DEF Meanings
<1>4. r.op # "none"
  BY <1>1
<1> QED
  BY <1>1, <1>2, <1>3, <1>4, Zenon

LEMMA SaneHere == ByNameP!Sane /\ ByModeP!Sane
<1>1. ByNameP!Sane
  <2>1. Meant(NamedCts, CtNames, {0}, {}, NameRequests)
    BY NamesAssumption
  <2>2. ASSUME NEW r \in NameRequests
        PROVE  /\ r \in Meanings(CtNames, {0}, {})
               /\ r.op # "none" /\ (r.op \in {"destroy", "start"} => r.name = None)
    BY <2>1, MeantCommands, Zenon
  <2>3. Meanings(CtNames, {0}, {}) = ByNameP!Commands
    BY DEF Meanings, ByNameP!Commands
  <2>4. None \notin NamedCts /\ None \notin CtNames /\ None \notin {0}
    BY <2>1 DEF Meant
  <2> QED
    BY <2>2, <2>3, <2>4, VzctlsAssumption DEF ByNameP!Sane
<1>2. ByModeP!Sane
  <2>1. Meant(ModeCts, ModeNames, ModeVals, ModeFeatures, ModeRequests)
    BY ModesAssumption
  <2>2. ASSUME NEW r \in ModeRequests
        PROVE  /\ r \in Meanings(ModeNames, ModeVals, ModeFeatures)
               /\ r.op # "none" /\ (r.op \in {"destroy", "start"} => r.name = None)
    BY <2>1, MeantCommands, Zenon
  <2>3. Meanings(ModeNames, ModeVals, ModeFeatures) = ByModeP!Commands
    BY DEF Meanings, ByModeP!Commands
  <2>4. None \notin ModeCts /\ None \notin ModeNames /\ None \notin ModeVals /\ ModeVals # {}
    BY <2>1 DEF Meant
  <2> QED
    BY <2>2, <2>3, <2>4, VzctlsAssumption DEF ByModeP!Sane
<1> QED
  BY <1>1, <1>2

-----------------------------------------------------------------------------

(* No saved setting undoes another one: what is not built from an old      *)
(* value is what the last command for it has set, however many vzctl set   *)
(* --save there are and wherever they are killed.                          *)
THEOREM SettingsAreKept == SettingsSpec => []SettingsKept
<1>1. SettingsInit => ConfP!IInv
  BY ConfSame, SettledHere, ConfP!InitInv DEF SettingsInit
<1>2. ConfP!IInv /\ [SettingsNext]_allVars => ConfP!IInv'
  BY Parts, SettledHere, ConfP!StepInv
<1>3. ConfP!IInv => SettingsKept
  BY ConfSame DEF SettingsKept, ConfP!IInv
<1> QED
  BY <1>1, <1>2, <1>3, PTL DEF SettingsSpec

(* The name in the configuration file of a container leads to it: no other *)
(* container takes it over, be it by set --name, create or destroy, unless *)
(* two of them work on one name at a time, or a set --name or a create     *)
(* does not finish.                                                        *)
THEOREM NamesLeadHome == SettingsSpec => []NameKept
<1>1. SettingsInit => ByNameP!NameInv
  BY NameSame, SaneHere, ByNameP!NameInit DEF SettingsInit
<1>2. ByNameP!NameInv /\ [SettingsNext]_allVars => ByNameP!NameInv'
  BY Parts, SaneHere, ByNameP!NameStep
<1>3. ByNameP!NameInv => NameKept
  BY NameSame, ByNameP!NameInvKept DEF NameKept
<1> QED
  BY <1>1, <1>2, <1>3, PTL DEF SettingsSpec

(* A vzctl set with --setmode that saves leaves no running container with  *)
(* another value than it has saved, nor with other features if it was      *)
(* given all of them, provided that the container ran before with what     *)
(* vzctl has read and no dump lay there.                                   *)
THEOREM ModesHonoured == SettingsSpec => []SetModeHonoured
<1> DEFINE I == ByModeP!NameInv /\ ByModeP!ModeInv
<1>1. SettingsInit => I
  BY ModeSame, SaneHere, ByModeP!NameInit, ByModeP!ModeInit DEF SettingsInit
<1>2. I /\ [SettingsNext]_allVars => I'
  BY Parts, SaneHere, ByModeP!NameStep, ByModeP!ModeStep DEF ByModeP!NameInv
<1>3. I => SetModeHonoured
  BY ModeSame, ByModeP!ModeInvHonoured DEF SetModeHonoured
<1> QED
  BY <1>1, <1>2, <1>3, PTL DEF SettingsSpec

-----------------------------------------------------------------------------
(* The types of all parts.                                                 *)

\* The types of the conversion.
LEMMA ConvertTypes ==
  /\ SettingsInit => TypeOK /\ IInv
  /\ TypeOK /\ IInv /\ [SettingsNext]_allVars => (TypeOK /\ IInv)'
<1>1. Init => TypeOK
  <2> SUFFICES ASSUME Init PROVE TypeOK
    OBVIOUS
  <2>1. 0 \in 0..Runs
    BY RunsAssumption
  <2> QED
    BY <2>1 DEF Init, TypeOK
<1>2. TypeOK /\ IInv /\ [Next]_vars => TypeOK'
  <2> SUFFICES ASSUME TypeOK, IInv, [Next]_vars PROVE TypeOK'
    OBVIOUS
  <2> USE RunsAssumption DEF TypeOK, IInv, PlaceInv, SwapInv, At, Fails
  <2>1. CASE UNCHANGED vars
    BY <2>1 DEF vars
  <2>2. CASE Invoke
    BY <2>2 DEF Invoke
  <2>3. CASE CreateImage \/ MountImage \/ Copy \/ UmountImage
    BY <2>3 DEF CreateImage, MountImage, Copy, UmountImage
  <2>4. CASE MakeTemp \/ MoveAway
    BY <2>4 DEF MakeTemp, MoveAway
  <2>5. CASE MoveInPlace
    BY <2>5 DEF MoveInPlace
  <2>6. CASE RemoveOld \/ RemoveNew \/ Crash
    BY <2>6 DEF RemoveOld, RemoveNew, Crash
  <2> QED
    BY <2>1, <2>2, <2>3, <2>4, <2>5, <2>6 DEF Next
<1>3. [SettingsNext]_allVars => [Next]_vars
  BY DEF SettingsNext, allVars, ConvertNext, ConfNext, FormsNext, LimitsNext, ByNameNext,
         ByModeNext, convertVars, vars
<1>4. SettingsInit => Init
  BY DEF SettingsInit
<1> QED
  BY <1>1, <1>2, <1>3, <1>4, InitInv, NextInv

\* The types of the limits.
LEMMA UbcTypes == UbcInv => Limits!TypeOK
<1> SUFFICES ASSUME UbcInv PROVE Limits!TypeOK
  OBVIOUS
<1>1. host \in UbHosts /\ edits \in 0..1 /\ repairs \in 0..2 /\ IsConf(ub)
  BY DEF UbcInv, IsHost, Repairable
<1>2. DOMAIN Limits!Split(host) = Needed \cup {"avnumproc"}
  BY SplitIsLaid DEF Laid
<1>3. DOMAIN ub \subseteq Needed \cup {"avnumproc"} /\ \A r \in DOMAIN ub : ub[r] \in (0..MaxLong) \X (0..MaxLong)
  BY <1>1 DEF IsConf, IsOf
<1> QED
  BY <1>1, <1>2, <1>3 DEF Limits!TypeOK

\* The parts of the run have the types of the parts proved about.
LEMMA SameTypes ==
  /\ ConfP!TypeOK => Conf!TypeOK
  /\ ByNameP!TypeOK => ByName!TypeOK
  /\ ByModeP!TypeOK => ByMode!TypeOK
<1>1. Conf!Commands = ConfP!Commands
  BY DEF Conf!Command, ConfP!Command, Conf!First, ConfP!First, Conf!Others, ConfP!Others,
         Conf!Commands, ConfP!Commands
<1>2. ConfP!TypeOK => Conf!TypeOK
  BY <1>1 DEF Conf!TypeOK, ConfP!TypeOK, Conf!Line, ConfP!Line, Conf!Names, ConfP!Names, Conf!Params,
         ConfP!Params, Conf!Values, ConfP!Values, Conf!Distinct, ConfP!Distinct, Conf!Switches,
         ConfP!Switches
<1>3. ByNameP!TypeOK => ByName!TypeOK
  BY DEF ByName!TypeOK, ByNameP!TypeOK, ByName!Pars, ByNameP!Pars, ByName!Lives, ByNameP!Lives
<1>4. ByModeP!TypeOK => ByMode!TypeOK
  BY DEF ByMode!TypeOK, ByModeP!TypeOK, ByMode!Pars, ByModeP!Pars, ByMode!Lives, ByModeP!Lives
<1> QED
  BY <1>2, <1>3, <1>4

(* Every part keeps to its types: what is copied, written, locked and      *)
(* counted is of its kind, no limit leaves a long, each parameter has at   *)
(* most one line, and whoever works on a container has it locked.          *)
THEOREM SettingsTypesCorrect == SettingsSpec => []SettingsTypes
<1> DEFINE I == /\ TypeOK /\ IInv /\ ConfP!IInv /\ FormInv /\ UbcInv
                /\ ByNameP!NameInv /\ ByModeP!NameInv
<1>1. SettingsInit => I
  BY ConvertTypes, ConfSame, SettledHere, ConfP!InitInv, FormInit, UbcInit, NameSame, ModeSame,
     SaneHere, ByNameP!NameInit, ByModeP!NameInit DEF SettingsInit
<1>2. I /\ [SettingsNext]_allVars => I'
  <2>1. [SettingsNext]_allVars => [Limits!Next]_ubcVars
    BY DEF SettingsNext, allVars, ConvertNext, ConfNext, FormsNext, LimitsNext, ByNameNext,
           ByModeNext
  <2> QED
    BY <2>1, ConvertTypes, Parts, SettledHere, ConfP!StepInv, FormsAlone, FormStep, UbcStep,
       SaneHere, ByNameP!NameStep, ByModeP!NameStep
<1>3. I => SettingsTypes
  BY ConfP!InvTypes, ByNameP!NameInvKept, ByModeP!NameInvKept, SameTypes, FormKept, UbcTypes
     DEF SettingsTypes
<1> QED
  BY <1>1, <1>2, <1>3, PTL DEF SettingsSpec
=============================================================================
