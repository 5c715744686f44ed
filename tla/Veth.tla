-------------------------------- MODULE Veth ---------------------------------
(***************************************************************************)
(* The virtual Ethernet devices of a container: src/lib/veth.c, the        *)
(* parsers and the writer of NETIF in src/lib/config.c and the calls of    *)
(* both kernels, as vzctl set and vzctl start use them.                    *)
(*                                                                         *)
(* A list of devices is a function from their names in the container.  An  *)
(* address is a token that tells where it comes from; what the code leaves *)
(* empty is None.  The bridge and the MAC filter of a device are left out, *)
(* but any device may have them.  main() reads the file before the lock is *)
(* taken, so what a vzctl works with may be older than the last save.  The *)
(* container may halt and vzctl may be killed between any two calls.       *)
(***************************************************************************)
EXTENDS FiniteSets, Functions

CONSTANTS
  Devs,     \* ifname: the names inside of the container
  None,
  Forms,    \* what --netif_add gives: sets of "mac", "host", "hmac", "bridge"
  Faults,   \* what fails: "create", "filter", "netcfg", "del", "rest"
  Overlaps  \* a second vzctl reads the file while the first one works

VARIABLES
  vzkernel, \* the kernel is OpenVZ's (hooks_vz.c), not upstream (hooks_ct.c)
  conf,     \* NETIF of the configuration file
  early,    \* what a vzctl that has no lock yet has read of it
  kern,     \* the devices of the container
  running,
  pc,       \* where vzctl is
  cmd,      \* add, del, delall: the lists of the command line
  seen,     \* what vzctl has read of the file
  old,      \* veth_old: what /proc/vz/veth had
  todo,     \* what the loop of veth_ctl() has not come to
  flagged,  \* devices of the list with flags = 1
  was,      \* ghost: the devices when vzctl came
  synced,   \* ghost: they were those of the file, which vzctl has read
  kept      \* ghost: those that it was to remove, and that the kernel kept

input == <<cmd, seen, old>>
ghost == <<was, synced, kept>>
vars == <<vzkernel, conf, early, kern, running, pc, input, todo, flagged, ghost>>

Fault(f) == f \in Faults
Fields == {"host", "mac", "hmac"}
Empty == [d \in {} |-> None]
\* add_veth_param(): a device that the list does not have
With(list, d, dev) ==
  [e \in DOMAIN list \union {d} |-> IF e = d THEN dev ELSE list[e]]
NoCmd == [add |-> Empty, del |-> {}, delall |-> FALSE, op |-> "none"]

-----------------------------------------------------------------------------
(* Parsing, merging and storing *)

\* parse_netif_str_cmd(): what is not given is generated.
ParseCmd(given) ==
  LET mac == IF "mac" \in given THEN "given mac" ELSE "new mac" IN
  [host |-> IF "host" \in given THEN "given" ELSE "vethN",
   mac  |-> mac,
   hmac |-> IF "hmac" \in given THEN "given hmac"
              ELSE IF given = {} \/ "bridge" \in given THEN "new hmac"
              ELSE mac]

\* add_netif_param(): --ifname and the options that go with it
ParseOptions(given) ==
  [host |-> IF "host" \in given THEN "given" ELSE None,
   mac  |-> IF "mac" \in given THEN "given mac" ELSE None,
   hmac |-> IF "hmac" \in given THEN "given hmac" ELSE None]

\* parse_netif_str(): a device of NETIF
ParseConf(text) ==
  LET mac == IF text.mac = None THEN "read mac" ELSE text.mac IN
  [text EXCEPT !.host = IF @ = None THEN "vethN" ELSE @,
               !.mac = mac,
               !.hmac = IF @ = None THEN mac ELSE @]

ConfDevs(list) == [d \in DOMAIN list |-> ParseConf(list[d])]

\* fill_veth_dev()
Fill(dst, src) == [f \in Fields |-> IF src[f] = None THEN dst[f] ELSE src[f]]

MutMerge(prev, add, del) ==
  [d \in (DOMAIN prev \ del) \union DOMAIN add |->
     IF d \in DOMAIN prev
     THEN IF d \in DOMAIN add THEN Fill(prev[d], add[d]) ELSE prev[d]
     ELSE add[d]]

(* merge_veth_list(): an old device that is removed is skipped, and one    *)
(* that is also old is not new.                                            *)
Merge(prev, add, del) ==
  [d \in (DOMAIN prev \ del) \union (DOMAIN add \ DOMAIN prev) |->
     IF d \in DOMAIN prev
     THEN IF d \in DOMAIN add THEN Fill(prev[d], add[d]) ELSE prev[d]
     ELSE add[d]]

\* store_netif(), with the list that was read
Store ==
  IF DOMAIN cmd.add = {} /\ cmd.del = {} /\ ~cmd.delall THEN conf
  ELSE Merge(IF cmd.delall THEN Empty ELSE ConfDevs(seen), cmd.add, cmd.del)

(* check_veth_param(): the device of --ifname is one that --netif_add adds, *)
(* whose values win, or one of the configuration file.                     *)
Checked(add, ifname, options) ==
  IF ifname \in DOMAIN add
  THEN [add EXCEPT ![ifname] = Fill(options, @)]
  ELSE With(add, ifname, options)

-----------------------------------------------------------------------------
Init ==
  /\ vzkernel \in BOOLEAN
  /\ conf = Empty /\ early = {} /\ kern = Empty /\ running = FALSE
  /\ pc = "idle" /\ cmd = NoCmd /\ seen = Empty /\ old = Empty
  /\ todo = {} /\ flagged = {} /\ was = {} /\ synced = TRUE /\ kept = {}

(* main(): a second vzctl reads the file just before the first one saves.  *)
(* Reading it any earlier gives the same, since it changes in Save only.   *)
(* It locks next or, since vps_lock() does not wait, never.                *)
Parse ==
  /\ Overlaps
  /\ pc = "save"
  /\ early' = {conf}
  /\ UNCHANGED <<vzkernel, conf, kern, running, pc, input, todo, flagged, ghost>>

\* vps_lock(): the list was read then, or just now.
Lock ==
  /\ pc = "idle"
  /\ seen' \in early \union {conf} /\ early' = {}
  /\ was' = DOMAIN kern /\ kept' = {}
  /\ synced' = (seen' = conf /\ DOMAIN conf = DOMAIN kern)

Request(add, del, delall, op) ==
  cmd' = [add |-> add, del |-> del, delall |-> delall, op |-> op]

(* vzctl set --save: the lists of the command line.  A container that does *)
(* not run gets them when it starts.                                       *)
Set ==
  /\ Lock
  /\ \E names, del \in SUBSET Devs, form \in Forms, delall \in BOOLEAN :
       LET add == [d \in names |-> ParseCmd(form)] IN
       \/ /\ names \union del # {} \/ delall
          /\ Request(add, del, delall, "set")
       \/ \E ifname \in names \union DOMAIN seen' :
            Request(Checked(add, ifname, ParseOptions(form)), del, delall, "set")
  /\ pc' = IF running THEN "read" ELSE "save"
  /\ UNCHANGED <<vzkernel, conf, kern, running, old, todo, flagged>>

\* vzctl start, and restore, which asks for CFG and gets ADD as well
Start ==
  /\ Lock /\ ~running
  /\ running' = TRUE
  /\ Request(ConfDevs(seen'), {}, FALSE, "start")
  /\ pc' = "read"
  /\ UNCHANGED <<vzkernel, conf, kern, old, todo, flagged>>

(* vps_setup_veth(): /proc/vz/veth is read before anything is done, and    *)
(* there is none on an upstream kernel.                                    *)
Read ==
  /\ pc = "read"
  /\ old' = IF cmd.op = "start" \/ ~vzkernel THEN Empty ELSE kern
  /\ IF cmd.delall
     THEN todo' = DOMAIN old' /\ pc' = "del"
     ELSE todo' = cmd.del /\ pc' = "del"
  /\ UNCHANGED <<vzkernel, conf, early, kern, running, cmd, seen, flagged, ghost>>

(* fill_veth_dev_name(): known devices are active; nothing is looked for   *)
(* when none is known.                                                     *)
Active(d) == d \in DOMAIN old

\* The name on the host that the kernel is told.
HostName(d) ==
  IF cmd.add[d].host = None /\ Active(d) THEN old[d].host ELSE cmd.add[d].host

\* veth_ctl(DEL): it ends with the first device that cannot be removed, and
\* vps_setup_veth() ignores what it returns.
DelDevice(d) ==
  /\ pc = "del" /\ d \in todo
  /\ \/ /\ running /\ (Active(d) \/ ~vzkernel)
        /\ kern' = Restrict(kern, DOMAIN kern \ {d})
        /\ todo' = todo \ {d} /\ UNCHANGED kept
     \/ /\ running /\ ~Active(d) /\ vzkernel
        /\ todo' = todo \ {d} /\ UNCHANGED <<kern, kept>>
     \/ /\ ~running \/ Fault("del")
        /\ todo' = {} /\ kept' = kept \union (todo \intersect DOMAIN kern)
        /\ UNCHANGED kern
  /\ UNCHANGED <<vzkernel, conf, early, running, pc, input, flagged, was, synced>>

\* The list that --netif_del all has read is freed and nothing is known then.
DelDone ==
  /\ pc = "del" /\ todo = {}
  /\ old' = IF cmd.delall THEN Empty ELSE old
  /\ todo' = DOMAIN cmd.add /\ flagged' = {}
  /\ pc' = IF running \/ DOMAIN cmd.add = {} THEN "add" ELSE "failed"
  /\ UNCHANGED <<vzkernel, conf, early, kern, running, cmd, seen, ghost>>

-----------------------------------------------------------------------------
(* veth_ctl(ADD) *)

\* veth_dev_create() of vz_veth_ctl(), or vps-netns_dev_add; the container may
\* have halted meanwhile.
CanCreate(d) ==
  running /\ HostName(d) # None /\ d \notin DOMAIN kern

Create(d) ==
  IF vzkernel /\ Active(d) THEN UNCHANGED kern
  ELSE /\ CanCreate(d)
       /\ kern' = With(kern, d, [cmd.add[d] EXCEPT !.host = HostName(d)])

\* flags = 1 comes before the MAC filter, whether the device is new or not.
Flag(d) == flagged' = IF vzkernel THEN flagged \union {d} ELSE flagged

AddDevice(d) ==
  /\ pc = "add" /\ d \in todo
  /\ Create(d) /\ Flag(d)
  /\ todo' = todo \ {d}
  /\ UNCHANGED <<vzkernel, conf, early, running, pc, input, ghost>>

CreateFails(d) ==
  /\ pc = "add" /\ d \in todo
  /\ ~(vzkernel /\ Active(d)) /\ (~CanCreate(d) \/ Fault("create"))
  /\ pc' = "rollback" /\ todo' = {}
  /\ UNCHANGED <<vzkernel, conf, early, kern, running, input, flagged, ghost>>

\* The MAC filter of the new device, or vznetcfg after it
SetUpFails(d) ==
  /\ pc = "add" /\ d \in todo
  /\ \/ Fault("filter") /\ vzkernel
     \/ Fault("netcfg")
  /\ Create(d) /\ Flag(d)
  /\ pc' = "rollback" /\ todo' = {}
  /\ UNCHANGED <<vzkernel, conf, early, running, input, ghost>>

(* DEL for the devices of the list with flags = 1; vz_veth_ctl() does      *)
(* nothing for those that were not active before.                          *)
Rollback ==
  /\ pc = "rollback"
  /\ kern' = Restrict(kern, DOMAIN kern \ {d \in flagged : Active(d)})
  /\ pc' = "failed" /\ flagged' = {}
  /\ UNCHANGED <<vzkernel, conf, early, running, input, todo, ghost>>

-----------------------------------------------------------------------------
\* What vps_setup_res() does next may fail: mod_setup().
Added ==
  /\ pc = "add" /\ todo = {} /\ flagged' = {}
  /\ \/ pc' = IF cmd.op = "set" THEN "save" ELSE "done"
     \/ Fault("rest") /\ pc' = "failed"
  /\ UNCHANGED <<vzkernel, conf, early, kern, running, input, todo, ghost>>

\* vps_save_config()
Save ==
  /\ pc = "save"
  /\ conf' = Store
  /\ pc' = "done"
  /\ UNCHANGED <<vzkernel, early, kern, running, input, todo, flagged, ghost>>

\* vzctl ends; a container whose start has failed is stopped.
End ==
  /\ pc \in {"done", "failed"}
  /\ running' = (running /\ ~(pc = "failed" /\ cmd.op = "start"))
  /\ kern' = IF running' THEN kern ELSE Empty
  /\ pc' = "idle" /\ cmd' = NoCmd /\ seen' = Empty
  /\ old' = Empty /\ todo' = {} /\ flagged' = {}
  /\ was' = {} /\ synced' = TRUE /\ kept' = {}
  /\ UNCHANGED <<vzkernel, conf, early>>

\* The container stops; its devices go with it.
Halt ==
  /\ running
  /\ running' = FALSE /\ kern' = Empty
  /\ UNCHANGED <<vzkernel, conf, early, pc, input, todo, flagged, ghost>>

Killed ==
  /\ pc # "idle"
  /\ pc' = "idle" /\ cmd' = NoCmd /\ seen' = Empty
  /\ old' = Empty /\ todo' = {} /\ flagged' = {}
  /\ was' = {} /\ synced' = TRUE /\ kept' = {}
  /\ UNCHANGED <<vzkernel, conf, early, kern, running>>

Next ==
  \/ Parse \/ Set \/ Start \/ Read \/ DelDone \/ Rollback \/ Added \/ Save \/ End
  \/ Halt \/ Killed
  \/ \E d \in Devs : DelDevice(d) \/ AddDevice(d) \/ CreateFails(d) \/ SetUpFails(d)

Spec == Init /\ [][Next]_vars

-----------------------------------------------------------------------------
TypeOK ==
  /\ DOMAIN conf \union DOMAIN kern \union DOMAIN seen \subseteq Devs
  /\ \A list \in early : DOMAIN list \subseteq Devs
  /\ ~running => kern = Empty
  /\ pc \in {"idle", "read", "del", "add", "rollback", "save", "done", "failed"}
  /\ todo \subseteq Devs /\ flagged \subseteq Devs
  /\ was \subseteq Devs /\ kept \subseteq Devs

\* vzctl set has saved its lists and the container runs.
Saved == pc = "done" /\ cmd.op = "set" /\ running
Disjoint == cmd.del \intersect DOMAIN cmd.add = {}

(* The devices of the container are then those of the configuration file,  *)
(* and those that it was to remove and the kernel has kept, if they were   *)
(* those of the file before and nobody saved between reading the file and  *)
(* the lock: whatever combination of additions, removals and --ifname was  *)
(* given, and though vps_setup_veth() and merge_veth_list() work out the   *)
(* result separately.  A new device has the addresses that will be read    *)
(* from the file at the next start.  (An upstream kernel is not asked what *)
(* it has: --netif_del all removes nothing there, and a device both        *)
(* removed and added exists without being saved.)                          *)
AllDevicesMatch ==
  Saved /\ synced /\ (vzkernel \/ (~cmd.delall /\ Disjoint)) =>
    /\ DOMAIN kern = DOMAIN conf \union kept
    /\ \A d \in DOMAIN kern \ was :
         \A f \in {"host", "mac", "hmac"} : kern[d][f] = ParseConf(conf[d])[f]

(* However old the list is that vzctl has read, and wherever the container *)
(* and its file had been apart before: the devices of the command line     *)
(* that it adds are in both, and those that it removes are in neither but  *)
(* for what the kernel has kept.                                           *)
OwnDevicesMatch ==
  Saved /\ Disjoint =>
    /\ DOMAIN cmd.add \subseteq DOMAIN kern \intersect DOMAIN conf
    /\ cmd.del \intersect DOMAIN conf = {}
    /\ ~cmd.delall => cmd.del \intersect DOMAIN kern \subseteq kept

SavedDevicesMatch == AllDevicesMatch /\ OwnDevicesMatch

(* A vzctl set whose devices cannot be set up removes those that it has    *)
(* added, and no other.                                                    *)
RollbackRemovesAdded ==
  pc = "failed" /\ running /\ cmd.op = "set" /\ ~cmd.delall =>
    DOMAIN kern = was \ cmd.del
=============================================================================
