------------------------------- MODULE Listing -------------------------------
(***************************************************************************)
(* vzlist, which takes no lock: src/vzlist.c.                              *)
(*                                                                         *)
(* It reads one source after another - the configuration files, the kernel *)
(* by ioctl() or /proc/vz/veinfo, the beancounters, the files of each      *)
(* container, the mounts - while other commands change the containers, and *)
(* puts one status together from what it has seen at different times.      *)
(***************************************************************************)
EXTENDS FiniteSets, Naturals

CONSTANTS
  Cts,
  Faults      \* "open": /dev/vzctl; "ips": an error of VZCTL_GET_VEIPS

VARIABLES
  conf, priv, \* containers that have a configuration file, a private area
  run, mnt, dump,
  opt,        \* the options: "run" (none), "all", "stopped", "ids"
  ids,        \* g_ve_list: the containers asked for
  pc, todo, cur,
  veinfo,     \* the elements for each container
  seen,       \* ghost: what each container was since vzlist began
  steady,     \* ghost: containers that have run since then
  broken      \* ghost: VZCTL_GET_VEIPS has failed

world == <<conf, priv, run, mnt, dump>>
reader == <<opt, ids, pc, todo, cur, veinfo>>
vars == <<world, reader, seen, steady, broken>>

Fault(f) == f \in Faults
NoElem == [n |-> 0, status |-> "stopped", hide |-> FALSE,
           ubc |-> "none"]

Init ==
  /\ conf = {} /\ priv = {} /\ run = {} /\ mnt = {} /\ dump = {}
  /\ opt = "run" /\ ids = Cts /\ pc = "idle" /\ todo = {} /\ cur = {}
  /\ veinfo = [c \in Cts |-> NoElem]
  /\ seen = [c \in Cts |-> {}] /\ steady = {} /\ broken = FALSE

-----------------------------------------------------------------------------
(* What the other commands do to a container *)

Is(c) == {IF c \in run THEN "running" ELSE IF c \in mnt THEN "mounted"
          ELSE "unmounted"}
         \union (IF c \in dump THEN {"dump"} ELSE {})

\* The ghosts follow every change of the containers.
Changed ==
  /\ seen' = IF pc = "idle" THEN seen ELSE [c \in Cts |-> seen[c] \union Is(c)']
  /\ steady' = steady \intersect run'
  /\ UNCHANGED <<reader, broken>>

Create(c) ==
  /\ c \notin conf /\ c \notin priv
  /\ conf' = conf \union {c} /\ priv' = priv \union {c}
  /\ UNCHANGED <<run, mnt, dump>> /\ Changed

Mount(c) ==
  /\ c \in conf \intersect priv /\ c \notin mnt
  /\ mnt' = mnt \union {c}
  /\ UNCHANGED <<conf, priv, run, dump>> /\ Changed

\* A container that has a dump is restored and the dump removed later.
Start(c) ==
  /\ c \in mnt \ run
  /\ run' = run \union {c}
  /\ UNCHANGED <<conf, priv, mnt, dump>> /\ Changed

Suspend(c) ==
  /\ c \in run \ dump
  /\ dump' = dump \union {c}
  /\ UNCHANGED <<conf, priv, run, mnt>> /\ Changed

DropDump(c) ==
  /\ c \in dump
  /\ dump' = dump \ {c}
  /\ UNCHANGED <<conf, priv, run, mnt>> /\ Changed

Halt(c) ==
  /\ c \in run
  /\ run' = run \ {c}
  /\ UNCHANGED <<conf, priv, mnt, dump>> /\ Changed

Umount(c) ==
  /\ c \in mnt \ run
  /\ mnt' = mnt \ {c}
  /\ UNCHANGED <<conf, priv, run, dump>> /\ Changed

\* vzctl destroy: the private area, then the configuration file
Destroy(c) ==
  /\ c \notin mnt
  /\ \/ c \in priv /\ priv' = priv \ {c} /\ UNCHANGED conf
     \/ c \in conf \ priv /\ conf' = conf \ {c} /\ UNCHANGED priv
  /\ UNCHANGED <<run, mnt, dump>> /\ Changed

World(c) == \/ Create(c) \/ Mount(c) \/ Start(c) \/ Suspend(c)
            \/ DropDump(c) \/ Halt(c) \/ Umount(c) \/ Destroy(c)

-----------------------------------------------------------------------------
(* collect() *)

Elem(c) == veinfo[c]
Listed == {c \in Cts : Elem(c).n > 0}
Update == opt # "run"              \* the elements are those of get_ve_list()

Goto(from, to, list) ==
  pc = from /\ pc' = to /\ todo' = list /\ UNCHANGED cur
Take(at, c) ==
  pc = at /\ c \in todo /\ todo' = todo \ {c} /\ UNCHANGED <<pc, cur>>
Set(c, e) == veinfo' = [veinfo EXCEPT ![c] = e]
Same == UNCHANGED <<world, opt, ids, seen, steady>>
Keep == Same /\ UNCHANGED broken

Begin ==
  /\ pc = "idle"
  /\ \/ opt' \in {"run", "all", "stopped"} /\ ids' = Cts
     \/ opt' = "ids" /\ \E c \in Cts : ids' = {c}
  /\ IF opt' = "run" THEN Goto("idle", "veids", {}) ELSE Goto("idle", "conf", Cts)
  /\ seen' = [c \in Cts |-> Is(c)] /\ steady' = run
  /\ UNCHANGED <<world, veinfo, broken>>

\* get_ve_list(): readdir() comes to each name once.
ReadConf(c) ==
  /\ Take("conf", c)
  /\ IF c \in conf /\ c \in ids THEN Set(c, [NoElem EXCEPT !.n = 1])
     ELSE UNCHANGED veinfo
  /\ Keep

ReadConfEnds == todo = {} /\ Goto("conf", "veids", {}) /\ UNCHANGED veinfo /\ Keep

(* add_elem() or update_ve(): with -a and the like an element that is      *)
(* there is updated; otherwise each call adds one.                         *)
Running(c) ==
  Set(c, [Elem(c) EXCEPT !.status = "running",
                         !.n = IF Update /\ @ > 0 THEN @ ELSE @ + 1])

\* VZCTL_GET_VEIDS of get_run_ve_ioctl(), or else get_run_ve_proc()
GetVeids ==
  /\ \/ Goto("veids", "ips", run \intersect ids)
     \/ Fault("open") /\ Goto("veids", "proc", run \intersect ids)
  /\ UNCHANGED veinfo /\ Keep

\* get_ve_ips(): ESRCH for a container that has stopped meanwhile
GetIps(c) ==
  /\ Take("ips", c)
  /\ IF c \in run THEN Running(c) ELSE UNCHANGED veinfo
  /\ Keep

(* Any other error ends the loop, and get_run_ve_proc() adds what it finds *)
(* to what is there.                                                       *)
GetIpsFails ==
  /\ Fault("ips") /\ todo # {}
  /\ Goto("ips", "proc", run \intersect ids)
  /\ broken' = TRUE
  /\ UNCHANGED veinfo /\ Same

\* get_run_ve_proc(): a line of /proc/vz/veinfo for each that still runs
ReadProc(c) ==
  /\ Take("proc", c)
  /\ IF c \in run THEN Running(c) ELSE UNCHANGED veinfo
  /\ Keep

Ub == IF opt = "stopped" THEN {} ELSE ids

GotRun ==
  /\ todo = {}
  /\ Goto("ips", "ub", Ub) \/ Goto("proc", "ub", Ub)
  /\ UNCHANGED veinfo /\ Keep

\* get_ub(), update_ubc(): for what is taken for running
ReadUb(c) ==
  /\ Take("ub", c)
  /\ IF c \in run /\ c \in Listed /\ Elem(c).status = "running"
     THEN Set(c, [Elem(c) EXCEPT !.ubc = "kernel"]) ELSE UNCHANGED veinfo
  /\ Keep

\* "Container(s) not found" ends vzlist.
GotUb ==
  /\ todo = {}
  /\ Goto("ub", IF Listed = {} THEN "print" ELSE "param", Listed)
  /\ UNCHANGED veinfo /\ Keep

\* read_ves_param(), merge_conf(): the file fills what the kernel left open.
ReadParam(c) ==
  /\ Take("param", c)
  /\ Set(c, [Elem(c) EXCEPT !.ubc = IF @ = "none" THEN "conf" ELSE @])
  /\ Keep

GotParam == todo = {} /\ Goto("param", "private", Listed) /\ UNCHANGED veinfo /\ Keep

MutReadPrivate(c) ==
  /\ pc = "private" /\ c \in todo /\ todo' = todo \ {c}
  /\ IF c \notin priv
     THEN Set(c, [Elem(c) EXCEPT !.hide = TRUE]) /\ UNCHANGED <<pc, cur>>
     ELSE pc' = "dump" /\ cur' = {c} /\ UNCHANGED veinfo
  /\ Keep

(* get_mounted_status(), for one container after another: a container that *)
(* runs stays so; one without a private area is hidden.                    *)
ReadPrivate(c) ==
  /\ pc = "private" /\ c \in todo /\ todo' = todo \ {c}
  /\ IF Elem(c).status = "running" \/ c \notin priv
     THEN /\ Set(c, [Elem(c) EXCEPT !.hide = Elem(c).status # "running"])
          /\ UNCHANGED <<pc, cur>>
     ELSE pc' = "dump" /\ cur' = {c} /\ UNCHANGED veinfo
  /\ Keep

ReadDump(c) ==
  /\ pc = "dump" /\ c \in cur
  /\ pc' = "mounted" /\ UNCHANGED <<todo, cur>>
  /\ Set(c, [Elem(c) EXCEPT !.status = IF c \in dump THEN "suspended" ELSE @])
  /\ Keep

ReadMounted(c) ==
  /\ pc = "mounted" /\ c \in cur
  /\ pc' = "private" /\ cur' = {} /\ UNCHANGED todo
  /\ Set(c, [Elem(c) EXCEPT !.status = IF c \in mnt THEN "mounted" ELSE @])
  /\ Keep

GotStatus == todo = {} /\ Goto("private", "print", {}) /\ UNCHANGED veinfo /\ Keep

\* print_ve()
Printed(c) ==
  c \in Listed /\ ~Elem(c).hide /\ ~(opt = "stopped" /\ Elem(c).status = "running")

PrintVe ==
  /\ Goto("print", "idle", {})
  /\ veinfo' = [c \in Cts |-> NoElem] /\ opt' = "run" /\ ids' = Cts
  /\ seen' = [c \in Cts |-> {}] /\ steady' = {} /\ broken' = FALSE
  /\ UNCHANGED world

Next ==
  \/ Begin \/ ReadConfEnds \/ GetVeids \/ GetIpsFails \/ GotRun \/ GotUb \/ GotParam \/ GotStatus \/ PrintVe
  \/ \E c \in Cts :
       \/ World(c) \/ ReadConf(c) \/ GetIps(c) \/ ReadProc(c) \/ ReadUb(c)
       \/ ReadParam(c) \/ ReadPrivate(c) \/ ReadDump(c)
       \/ ReadMounted(c)

Spec == Init /\ [][Next]_vars

-----------------------------------------------------------------------------
TypeOK ==
  /\ run \subseteq mnt /\ mnt \subseteq priv
  /\ conf \subseteq Cts /\ priv \subseteq Cts /\ dump \subseteq Cts
  /\ todo \subseteq Cts
  /\ \A c \in Cts : /\ Elem(c).n \in 0..2
                    /\ Elem(c).ubc \in {"none", "kernel", "conf"}
                    /\ Elem(c).status \in {"running", "mounted", "suspended", "stopped"}

(* No status is made up: a container listed as running or as mounted was   *)
(* so at a moment while vzlist ran - mounted without running - and one     *)
(* listed as suspended or stopped was not mounted at one, whatever the     *)
(* other commands did between the reads.                                   *)
StatusWasTrue ==
  pc = "print" =>
    \A c \in Cts : Printed(c) =>
      CASE Elem(c).status = "running"   -> "running" \in seen[c]
        [] Elem(c).status = "mounted"   -> "mounted" \in seen[c]
        [] Elem(c).status = "suspended" -> {"unmounted", "dump"} \subseteq seen[c]
        [] OTHER                        -> "unmounted" \in seen[c]

(* A container that runs all the time is listed as running, with the       *)
(* beancounters of the kernel, and once, even if others stop between       *)
(* VZCTL_GET_VEIDS and VZCTL_GET_VEIPS; only an error of the latter,       *)
(* without -a, may list it twice.                                          *)
RunningListedOnce ==
  pc = "print" =>
    \A c \in steady \intersect ids :
      /\ Elem(c).n = 1 \/ (broken /\ opt = "run")
      /\ Elem(c).status = "running" /\ ~Elem(c).hide
      /\ Elem(c).ubc = "kernel" \/ opt = "stopped"

(* What vzlist prints of each container was so while it ran, and no        *)
(* container that runs throughout is missed or listed twice.               *)
ListingIsTrue == StatusWasTrue /\ RunningListedOnce
=============================================================================
