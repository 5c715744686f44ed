--------------------------------- MODULE Ubc ---------------------------------
(***************************************************************************)
(* The resource limits of a container: vzsplit.c, which makes a sample     *)
(* configuration out of the memory of the host, and validate.c, with which *)
(* vzcfgvalidate checks and repairs one.  Each of them knows the rules     *)
(* between the parameters by itself.                                       *)
(*                                                                         *)
(* Without vswap.  A limit is <<barrier, limit>>; an unsigned long is kept *)
(* modulo 2 * (LongMax + 1).  The inputs are such that the floating-point  *)
(* factors of vzsplit give no fraction before its divisions.               *)
(***************************************************************************)
EXTENDS Integers, FiniteSetsExt

CONSTANTS
  Hosts,    \* [mem, swap : bytes, threads, n : containers]
  LongMax,  \* LONG_MAX
  MaxEdits  \* bound on the changes that the administrator makes

VARIABLES
  host,     \* the host that vzsplit has run on
  ub,       \* the limits in the configuration
  edits,    \* changes by hand
  repairs   \* vzcfgvalidate -r since the last of them

vars == <<host, ub, edits, repairs>>

PageSize == 4096
Larger(x, y) == IF x < y THEN y ELSE x
Smaller(x, y) == IF x < y THEN x ELSE y

-----------------------------------------------------------------------------
(* vzsplit: calculate_values()                                             *)

TotPve(h) == (h.mem + h.swap - 52428800) \div h.n

\* Resource commit levels 0, 1, 2; 3 is a shortage.
PerCent == <<40, 48, 72, 80>>        \* 0.4 * k_kmem, and 0.4 * K_KMEM_MAX
\* Mutant: the memory for a process leaves no room for its dentries.
MutKpp == <<81920, 53248, 40960>>

Kpp == <<81920, 65536, 53248>>
Sock1 == <<262144, 131072, 65536>>
Sock2 == <<4096, 3036, 2560>>

LowShare(h, l) == ((h.mem \div 100) * PerCent[l + 1]) \div h.n

Guaranteed(h, l) == Larger((TotPve(h) - LowShare(h, l)) \div PageSize, 1024)

LowPve(h, l) ==
  IF (TotPve(h) - LowShare(h, l)) \div PageSize < 1024
  THEN TotPve(h) - 1024 * PageSize ELSE LowShare(h, l)

Threads(h, l) == (h.threads * <<2, 3, 4>>[l + 1]) \div (2 * h.n)

LevelAvn(h, l) == (LowPve(h, l) \div 2) \div Kpp[l + 1]

LevelNumproc(h, l) ==
  Smaller(Larger(Larger(Threads(h, l), 30), 2 * LevelAvn(h, l)),
          LevelAvn(h, l) * <<8, 5, 3>>[l + 1])

TcpBuf(h, l) == (LowPve(h, l) - LowPve(h, l) \div 2) \div 3

Enough(h, l) ==
  /\ LowPve(h, l) >= <<10485760, 2097152, 0>>[l + 1]
  /\ LevelAvn(h, l) >= 15
  /\ TcpBuf(h, l) >= Sock1[l + 1] + Sock2[l + 1] * LevelNumproc(h, l)

\* osl
Level(h) == Min({l \in 0..2 : Enough(h, l)} \union {3})

Shortage(h) == Level(h) = 3

(* In a shortage the processes are halved until the kernel memory does.    *)
Halved(h, i) == Larger(Threads(h, 2) \div 2 ^ i, 30)
SockBuf(np) == 2 * (32768 + 65536 + 2560 * np)
Rest(h, i) == LowPve(h, 3) - SockBuf(Halved(h, i))
                - (Halved(h, i) \div 2) * Kpp[3]
Halvings(h) == Min({i \in 1..10 : Rest(h, i) >= 0 \/ Halved(h, i) = 30})

\* "Fatal resource shortage"
Fatal(h) == Shortage(h) /\ Rest(h, Halvings(h)) < 0

\* main(): hosts that are too small for so many containers are refused.
Accepted(h) ==
  /\ h.mem >= 52428800 /\ TotPve(h) >= 5542912
  /\ (h.mem - 52428800) \div h.n >= 1348608
  /\ ~Fatal(h)

Same(v) == <<v, v>>

\* The network buffers, kernel memory and processes at each level.
Plentiful(h) ==
  LET l == Level(h)
      np == LevelNumproc(h, l)
      delta == Sock2[l + 1] * np
      rest == TcpBuf(h, l) - delta
  IN  [np |-> np, avn |-> LevelAvn(h, l), kmem |-> LowPve(h, l) \div 2,
       tcpsnd |-> <<rest, TcpBuf(h, l)>>, tcprcv |-> <<rest, TcpBuf(h, l)>>,
       dgram |-> rest \div 2, other |-> <<rest \div 2, rest \div 2 + delta>>]

Scarce(h) ==
  LET i == Halvings(h)
      np == Halved(h, i)
      delta == 2560 * np
      rest == Rest(h, i)
  IN  [np |-> np, avn |-> np \div 2,
       kmem |-> LowPve(h, 3) - SockBuf(np) + Larger(rest - delta, 0),
       tcpsnd |-> <<65536, 65536 + delta>>,
       tcprcv |-> <<65536, 65536 + Smaller(rest, delta)>>,
       dgram |-> 32768, other |-> <<32768, 32768 + delta>>]

Part(h) == IF Shortage(h) THEN Scarce(h) ELSE Plentiful(h)
Sl(h) == Smaller(Level(h), 2)

Numfile(h) == Part(h).avn * 32
Dcache(h) == (Numfile(h) * <<5760, 4608, 3840>>[Sl(h) + 1]) \div 10

\* guarpg and privvm
Guar(h) == Guaranteed(h, Level(h))
PrivvmMax(h) == ((h.mem \div PageSize) * 6) \div 10
Privvm0(h) ==
  LET p == (Guar(h) * <<12, 6, 3>>[Sl(h) + 1]) \div 2
  IN  IF p > TotPve(h) \div PageSize THEN Guar(h) ELSE p
Capped(h) == h.n > 1 /\ Privvm0(h) > PrivvmMax(h)
Privvm(h) == IF Capped(h) THEN PrivvmMax(h) ELSE Privvm0(h)
Guarpg(h) == IF Capped(h) THEN Smaller(Guar(h), PrivvmMax(h)) ELSE Guar(h)

Tenth(v) == v + v \div 10

Split(h) ==
  LET p == Part(h)
  IN  [numproc |-> Same(p.np), avnumproc |-> Same(p.avn),
       numtcpsock |-> Same(p.np), numothersock |-> Same(p.np),
       vmguarpages |-> <<Guarpg(h), LongMax>>,
       oomguarpages |-> <<Guarpg(h), LongMax>>,
       kmemsize |-> <<p.kmem, Tenth(p.kmem)>>,
       tcpsndbuf |-> p.tcpsnd, tcprcvbuf |-> p.tcprcv,
       othersockbuf |-> p.other, dgramrcvbuf |-> Same(p.dgram),
       privvmpages |-> <<Privvm(h), Tenth(Privvm(h))>>,
       physpages |-> <<0, LongMax>>,
       numfile |-> Same(Numfile(h)),
       numpty |-> Same(Smaller(Larger(p.np \div 10, 4), 512)),
       dcachesize |-> <<(Dcache(h) \div 103) * 100 + ((Dcache(h) % 103) * 100) \div 103,
                       Dcache(h)>>]

-----------------------------------------------------------------------------
(* vzcfgvalidate: validate().  A rule is what its repair makes of the      *)
(* limits; limits that it leaves alone obey it.                            *)

Bar(u, r) == u[r][1]
Lim(u, r) == u[r][2]
ULong(n) == n % (2 * (LongMax + 1))
Masked(n) == n % (LongMax + 1)

Equal == {"numproc", "numtcpsock", "numothersock", "numfile", "numpty"}
Ordered == {"kmemsize", "tcpsndbuf", "tcprcvbuf", "othersockbuf", "dgramrcvbuf",
            "privvmpages", "dcachesize"}
Guarantees == {"vmguarpages", "oomguarpages"}

\* "1 Check barrier & limit"
BarrierAndLimit(u) ==
  [r \in DOMAIN u |->
    CASE r \in Equal -> Same(Larger(Bar(u, r), Lim(u, r)))
      [] r \in Ordered -> <<Bar(u, r), Larger(Bar(u, r), Lim(u, r))>>
      [] r \in Guarantees -> <<Bar(u, r), LongMax>>
      [] r = "physpages" -> <<0, LongMax>>
      [] OTHER -> u[r]]

Avnumproc(u) == IF "avnumproc" \in DOMAIN u THEN Bar(u, "avnumproc")
                ELSE Bar(u, "numproc") \div 2

\* A barrier goes up and takes its limit with it.
RaiseBar(u, r, v) ==
  IF Bar(u, r) < v
  THEN [u EXCEPT ![r] = <<v, ULong(Lim(u, r) + v - Bar(u, r))>>] ELSE u

\* The limit is to be that much above the barrier.
Gap(u, r, sockets) ==
  LET v == Masked(2560 * Bar(u, sockets))
  IN  IF ULong(Lim(u, r) - Bar(u, r)) < v
      THEN [u EXCEPT ![r][2] = ULong(Bar(u, r) + v)] ELSE u

DcacheLimit(u) ==
  [u EXCEPT !.dcachesize[2] = Larger(@, Masked(Bar(u, "numfile") * 384))]

KmemBarrier(u) ==
  RaiseBar(u, "kmemsize", Masked(40 * 1024 * Avnumproc(u) + Lim(u, "dcachesize")))

PrivvmBarrier(u) ==
  LET v == Bar(u, "vmguarpages")
  IN  IF Bar(u, "privvmpages") < v
      THEN [u EXCEPT !.privvmpages =
              <<v, IF Lim(u, "privvmpages") < v THEN v ELSE Lim(u, "vmguarpages")>>]
      ELSE u

TcpSndGap(u) == Gap(u, "tcpsndbuf", "numtcpsock")
OtherGap(u) == Gap(u, "othersockbuf", "numothersock")
TcpRcvGap(u) == Gap(u, "tcprcvbuf", "numtcpsock")
TcpRcvBarrier(u) == RaiseBar(u, "tcprcvbuf", 64 * 1024)
TcpSndBarrier(u) == RaiseBar(u, "tcpsndbuf", 64 * 1024)

\* Below 32K is a fault; 129K are recommended.
Buffer(u, r) ==
  RaiseBar(u, r, IF Bar(u, r) < 32 * 1024 THEN 32 * 1024 ELSE 129 * 1024)

NumfileLimit(u) ==
  RaiseBar(u, "numfile",
    Masked(Larger(Avnumproc(u) * 32, Bar(u, "numtcpsock")
                    + Bar(u, "numothersock") + Bar(u, "numpty"))))

\* All rules in their order.
Repaired(u) ==
  LET memory == PrivvmBarrier(KmemBarrier(DcacheLimit(BarrierAndLimit(u))))
      gaps == TcpRcvGap(OtherGap(TcpSndGap(memory)))
      tcp == TcpSndBarrier(TcpRcvBarrier(gaps))
  IN  NumfileLimit(Buffer(Buffer(tcp, "dgramrcvbuf"), "othersockbuf"))

\* "Validation completed: success"
Valid(u) ==
  /\ BarrierAndLimit(u) = u
  /\ DcacheLimit(u) = u /\ KmemBarrier(u) = u /\ PrivvmBarrier(u) = u
  /\ TcpSndGap(u) = u /\ OtherGap(u) = u /\ TcpRcvGap(u) = u
  /\ TcpRcvBarrier(u) = u /\ TcpSndBarrier(u) = u
  /\ Bar(u, "dgramrcvbuf") >= 32 * 1024 /\ Bar(u, "othersockbuf") >= 32 * 1024
  /\ NumfileLimit(u) = u

\* parse_twoul_sfx(): what is above LONG_MAX in the file is cut off.
Parsed(u) == [r \in DOMAIN u |-> <<Smaller(Bar(u, r), LongMax),
                                   Smaller(Lim(u, r), LongMax)>>]

-----------------------------------------------------------------------------

Init ==
  /\ host \in {h \in Hosts : Accepted(h)}
  /\ ub = Split(host) /\ edits = 0 /\ repairs = 0

\* New values for a limit; counts stay small enough for their products.
Values(v) == {<<v[1] \div 2, v[2]>>, <<v[1], 2 * Smaller(v[2], LongMax \div 2)>>,
              <<2 * v[1], 2 * v[1]>>, <<2 * v[1], v[2]>>}

\* The file is edited by hand, or AVNUMPROC is taken out.
Edit ==
  /\ edits < MaxEdits /\ edits' = edits + 1 /\ repairs' = 0
  /\ \/ \E r \in DOMAIN ub \ {"physpages"}, v \in UNION {Values(ub[s]) : s \in DOMAIN ub} :
          v \in Values(ub[r]) /\ ub' = [ub EXCEPT ![r] = v]
     \/ \E r \in Ordered : ub' = [ub EXCEPT ![r] = <<0, LongMax>>]
     \/ ub' = [r \in DOMAIN ub \ {"avnumproc"} |-> ub[r]]
  /\ UNCHANGED host

\* vzcfgvalidate -r
Repair ==
  /\ repairs < 2 /\ repairs' = repairs + 1
  /\ ub' = Parsed(Repaired(ub))
  /\ UNCHANGED <<host, edits>>

Next == Edit \/ Repair
Spec == Init /\ [][Next]_vars

-----------------------------------------------------------------------------

(* Types: every limit is there and fits a long.                            *)
TypeOK ==
  /\ host \in Hosts /\ edits \in 0..MaxEdits /\ repairs \in 0..2
  /\ DOMAIN ub \subseteq DOMAIN Split(host)
  /\ \A r \in DOMAIN ub : ub[r] \in (0..LongMax) \X (0..LongMax)

(* What vzsplit makes passes vzcfgvalidate, though the two share no code:  *)
(* short of memory the buffer for receiving may be too small, no more.     *)
SplitIsValid ==
  edits = 0 /\ repairs = 0 =>
    Valid(IF Shortage(host) THEN TcpRcvGap(ub) ELSE ub)

(* vzcfgvalidate -r repairs for good, the second time at the latest.       *)
RepairSettles == repairs = 2 => Valid(ub)

(* vzcfgvalidate accepts what vzsplit makes and what it has repaired.      *)
LimitsAccepted == SplitIsValid /\ RepairSettles

(* "Repair mode (corrects configfile)": it does so the first time.         *)
RepairCorrects == repairs = 1 => Valid(ub)
=============================================================================
