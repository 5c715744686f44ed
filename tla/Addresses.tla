------------------------------ MODULE Addresses ------------------------------
(***************************************************************************)
(* The addresses of containers: src/lib/net.c with set(), vps_set() and    *)
(* fix_ip_param() of src/vzctl-actions.c, on an OpenVZ kernel.             *)
(*                                                                         *)
(* An address is in the configuration file, in the kernel, which gives it  *)
(* to one container only, and in the routes of the host, which the network *)
(* scripts keep by address.  Every container has a lock of its own, so the *)
(* vzctl of two containers may work on one address at a time.  main()      *)
(* reads the file before the lock is taken, so what a vzctl works with may *)
(* be older than the last save.  An address with another mask is the same  *)
(* address.                                                                *)
(***************************************************************************)
EXTENDS FiniteSets

CONSTANTS
  Cts, None,
  Ips,
  Requests,   \* what vzctl set may be asked: records of add, del, all, save
  Faults,     \* "kernel", "route" and "rest" fail
  Overlaps    \* a second vzctl reads the file while the first one works

VARIABLES
  conf,       \* IP_ADDRESS of each configuration file
  early,      \* what a vzctl that has no lock yet has read of it
  kern,       \* the container to which the kernel gives each address
  routes,     \* addresses for which the host has a route
  running,
  pc, cmd,    \* where the vzctl of each container is, and its lists
  todo,       \* what its present loop has not come to
  gone,       \* addresses that get_vps_ip() has found for vzctl stop
  synced,     \* ghost: what it has read was in the file and in the kernel
  foreign     \* ghost: routes removed while another container had the address

proc == <<pc, cmd, todo, gone>>
vars == <<conf, early, kern, routes, running, proc, synced, foreign>>

Fault(f) == f \in Faults
NoCmd == [add |-> {}, del |-> {}, all |-> FALSE, save |-> FALSE, seen |-> {},
          op |-> "none"]

\* get_vps_ip()
IpsOf(c) == {i \in Ips : kern[i] = c}

Goto(c, from, to) == pc[c] = from /\ pc' = [pc EXCEPT ![c] = to]
Turn(c, to, list) == /\ pc' = [pc EXCEPT ![c] = to]
                     /\ todo' = [todo EXCEPT ![c] = list]

\* One address of a loop; after the last one the loop `to' begins.
Tick(c, at, i, to, list) ==
  /\ pc[c] = at /\ i \in todo[c]
  /\ IF todo[c] = {i} THEN Turn(c, to, list)
     ELSE todo' = [todo EXCEPT ![c] = @ \ {i}] /\ UNCHANGED pc

\* vps_net_ctl() does nothing for an empty list.
AddLoop(add) == IF add = {} THEN "rest" ELSE "add"

Init ==
  /\ conf = [c \in Cts |-> {}] /\ early = [c \in Cts |-> {}]
  /\ kern = [i \in Ips |-> None]
  /\ routes = {} /\ running = {}
  /\ pc = [c \in Cts |-> "idle"] /\ cmd = [c \in Cts |-> NoCmd]
  /\ todo = [c \in Cts |-> {}] /\ gone = [c \in Cts |-> {}]
  /\ synced = [c \in Cts |-> TRUE] /\ foreign = {}

-----------------------------------------------------------------------------
(* main() *)

(* A second vzctl reads the file just before the first one saves.  Reading *)
(* it any earlier gives the same, since a file changes in Save only.  One  *)
(* vzctl at a time is in this place, and it locks next or, since           *)
(* vps_lock() does not wait, never.                                        *)
Parse(c) ==
  /\ Overlaps
  /\ pc[c] = "save" /\ \A b \in Cts : early[b] = {}
  /\ early' = [early EXCEPT ![c] = {conf[c]}]
  /\ UNCHANGED <<conf, kern, routes, running, proc, synced, foreign>>

\* vps_lock(): `seen' was read then, or just now.
Lock(c, seen) ==
  /\ pc[c] = "idle"
  /\ seen \in early[c] \union {conf[c]}
  /\ early' = [early EXCEPT ![c] = {}]

-----------------------------------------------------------------------------
(* vzctl set *)

(* fix_ip_param(): an address that is added again is first removed.  A     *)
(* container that does not run gets its addresses when it starts.          *)
Fixed(r, seen) == r.del \union (r.add \intersect seen)

Invoke(c) ==
  \E r \in Requests, seen \in SUBSET Ips :
    LET del == Fixed(r, seen)
        list == del \union (IF r.all THEN IpsOf(c) ELSE {})
    IN
    /\ Lock(c, seen)
    /\ r.save \/ c \in running
    /\ cmd' = [cmd EXCEPT ![c] = [add |-> r.add, del |-> del, all |-> r.all,
                                  save |-> r.save, seen |-> seen, op |-> "set"]]
    /\ IF c \notin running THEN Turn(c, "save", {})
       ELSE IF list # {} THEN Turn(c, "del", list)
       ELSE Turn(c, AddLoop(r.add), r.add)
    /\ gone' = [gone EXCEPT ![c] = list]
    /\ synced' = [synced EXCEPT ![c] = seen = conf[c] /\ IpsOf(c) = conf[c]]
    /\ UNCHANGED <<conf, kern, routes, running, foreign>>

(* vps_ip_ctl(DEL): the kernel does not know the address of another        *)
(* container (EADDRNOTAVAIL), which is no error.                           *)
DelKernel(c, i) ==
  /\ Tick(c, "del", i, "unroute", gone[c])
  /\ kern' = [kern EXCEPT ![i] = IF @ = c THEN None ELSE @]
  /\ UNCHANGED <<conf, early, routes, running, cmd, gone, synced, foreign>>

\* What was removed is added again, that is, the whole list is.
DelFails(c) ==
  /\ Fault("kernel")
  /\ pc[c] = "del"
  /\ kern' = [i \in Ips |-> IF i \in gone[c] /\ kern[i] = None /\ c \in running
                            THEN c ELSE kern[i]]
  /\ Turn(c, "failed", {})
  /\ UNCHANGED <<conf, early, routes, running, cmd, gone, synced, foreign>>

\* vps-net_del: whoever has the address
Unroute(c, i) ==
  /\ \/ Tick(c, "unroute", i, AddLoop(cmd[c].add), cmd[c].add)
     \/ Tick(c, "stopped", i, "done", {})
  /\ routes' = routes \ {i}
  /\ foreign' = IF kern[i] \in {None, c} THEN foreign ELSE foreign \union {i}
  /\ UNCHANGED <<conf, early, kern, running, cmd, gone, synced>>

-----------------------------------------------------------------------------
(* vps_add_ip() of vzctl set and vzctl start *)

AddKernel(c, i) ==
  /\ Tick(c, "add", i, "route", cmd[c].add)
  /\ kern[i] = None /\ c \in running
  /\ kern' = [kern EXCEPT ![i] = c]
  /\ UNCHANGED <<conf, early, routes, running, cmd, gone, synced, foreign>>

MutAddFails(c, i) ==
  /\ pc[c] = "add" /\ i \in todo[c]
  /\ kern[i] # None \/ c \notin running \/ Fault("kernel")
  /\ kern' = [j \in Ips |-> IF j \in cmd[c].add /\ kern[j] = c
                            THEN None ELSE kern[j]]
  /\ Turn(c, "route", cmd[c].add)
  /\ UNCHANGED <<conf, early, routes, running, cmd, gone, synced, foreign>>

\* EADDRINUSE, whoever uses it; vps_ip_ctl() then removes the whole list.
AddFails(c, i) ==
  /\ pc[c] = "add" /\ i \in todo[c]
  /\ kern[i] # None \/ c \notin running \/ Fault("kernel")
  /\ kern' = [j \in Ips |-> IF j \in cmd[c].add /\ kern[j] = c
                            THEN None ELSE kern[j]]
  /\ Turn(c, "failed", {})
  /\ UNCHANGED <<conf, early, routes, running, cmd, gone, synced, foreign>>

\* vps-net_add: nothing is done for an address that has a route.
Route(c, i) ==
  /\ Tick(c, "route", i, "rest", {})
  /\ routes' = routes \union {i}
  /\ foreign' = foreign \ {i}
  /\ UNCHANGED <<conf, early, kern, running, cmd, gone, synced>>

\* The script stops; routes that it has made stay.
RouteFails(c) ==
  /\ Fault("route")
  /\ pc[c] = "route"
  /\ kern' = [i \in Ips |-> IF i \in cmd[c].add /\ kern[i] = c
                            THEN None ELSE kern[i]]
  /\ Turn(c, "failed", {})
  /\ UNCHANGED <<conf, early, routes, running, cmd, gone, synced, foreign>>

\* What else vps_setup_res() does, from vps_set_netdev() to mod_setup().
Rest(c) ==
  /\ \/ Goto(c, "rest", IF cmd[c].save THEN "save" ELSE "done")
     \/ Fault("rest") /\ Goto(c, "rest", "failed")
  /\ UNCHANGED <<conf, early, kern, routes, running, cmd, todo, gone, synced, foreign>>

-----------------------------------------------------------------------------
\* merge_ip_list(), store_ip() and vps_set(), with the list that was read
Merged(c) ==
  LET k == cmd[c] IN
  IF k.all THEN k.add
  ELSE IF k.add \union k.del = {} THEN conf[c]
  ELSE (k.seen \ (k.add \union k.del)) \union k.add

Save(c) ==
  /\ Goto(c, "save", "done")
  /\ conf' = [conf EXCEPT ![c] = Merged(c)]
  /\ UNCHANGED <<early, kern, routes, running, cmd, todo, gone, synced, foreign>>

\* vzctl ends; a start that has failed stops the container.
End(c) ==
  /\ pc[c] \in {"done", "failed"}
  /\ IF pc[c] = "failed" /\ cmd[c].op = "start"
     THEN /\ running' = running \ {c}
          /\ kern' = [i \in Ips |-> IF kern[i] = c THEN None ELSE kern[i]]
     ELSE UNCHANGED <<running, kern>>
  /\ pc' = [pc EXCEPT ![c] = "idle"] /\ cmd' = [cmd EXCEPT ![c] = NoCmd]
  /\ gone' = [gone EXCEPT ![c] = {}] /\ synced' = [synced EXCEPT ![c] = TRUE]
  /\ UNCHANGED <<conf, early, routes, todo, foreign>>

\* vzctl start: vps_setup_res()
Start(c) ==
  \E seen \in SUBSET Ips :
    /\ Lock(c, seen) /\ c \notin running
    /\ running' = running \union {c}
    /\ cmd' = [cmd EXCEPT ![c] = [NoCmd EXCEPT !.add = seen, !.op = "start"]]
    /\ Turn(c, AddLoop(seen), seen)
    /\ UNCHANGED <<conf, kern, routes, gone, synced, foreign>>

(* vps_stop(): the addresses are read from the kernel before the container *)
(* stops, and their routes are removed after.                              *)
GetIps(c) ==
  /\ c \in running
  /\ Goto(c, "idle", "halt")
  /\ gone' = [gone EXCEPT ![c] = IpsOf(c)]
  /\ early' = [early EXCEPT ![c] = {}]
  /\ UNCHANGED <<conf, kern, routes, running, cmd, todo, synced, foreign>>

Stop(c) ==
  /\ pc[c] = "halt"
  /\ running' = running \ {c}
  /\ kern' = [i \in Ips |-> IF kern[i] = c THEN None ELSE kern[i]]
  /\ Turn(c, IF gone[c] = {} THEN "done" ELSE "stopped", gone[c])
  /\ UNCHANGED <<conf, early, routes, cmd, gone, synced, foreign>>

\* vzctl is killed wherever it is.
Killed(c) ==
  /\ pc[c] # "idle"
  /\ pc' = [pc EXCEPT ![c] = "idle"] /\ cmd' = [cmd EXCEPT ![c] = NoCmd]
  /\ todo' = [todo EXCEPT ![c] = {}] /\ gone' = [gone EXCEPT ![c] = {}]
  /\ synced' = [synced EXCEPT ![c] = TRUE]
  /\ UNCHANGED <<conf, early, kern, routes, running, foreign>>

Next ==
  \E c \in Cts :
    \/ Parse(c) \/ Invoke(c) \/ DelFails(c) \/ RouteFails(c) \/ Rest(c) \/ Save(c)
    \/ End(c) \/ Start(c) \/ GetIps(c) \/ Stop(c) \/ Killed(c)
    \/ \E i \in Ips : \/ DelKernel(c, i) \/ Unroute(c, i) \/ AddKernel(c, i)
                      \/ AddFails(c, i) \/ Route(c, i)

Spec == Init /\ [][Next]_vars

-----------------------------------------------------------------------------
TypeOK ==
  /\ conf \in [Cts -> SUBSET Ips] /\ early \in [Cts -> SUBSET SUBSET Ips]
  /\ kern \in [Ips -> Cts \union {None}]
  /\ routes \subseteq Ips /\ foreign \subseteq Ips /\ running \subseteq Cts
  /\ \A c \in Cts :
       /\ pc[c] \in {"idle", "del", "unroute", "add", "route", "rest", "save",
                     "done", "failed", "halt", "stopped"}
       /\ todo[c] \union gone[c] \subseteq Ips
  /\ \A i \in Ips : kern[i] \in running \union {None}

(* A vzctl set that has saved leaves a running container with just the     *)
(* addresses of its configuration file, if it had just those before and    *)
(* nobody saved between reading the file and the lock, whatever the vzctl  *)
(* of other containers do with these addresses.                            *)
SavedAddressesApplied ==
  \A c \in running :
    pc[c] = "done" /\ cmd[c].save /\ synced[c] => IpsOf(c) = conf[c]

(* However old the list is that it has read, and wherever the container    *)
(* and its file had apart before: what a vzctl set adds is then in both,   *)
(* and what it only removes is in neither.                                 *)
OwnAddressesApplied ==
  \A c \in running :
    pc[c] = "done" /\ cmd[c].save =>
      /\ cmd[c].add \subseteq IpsOf(c) \intersect conf[c]
      /\ (cmd[c].del \ cmd[c].add) \intersect (IpsOf(c) \union conf[c]) = {}

(* When vzctl set or start ends well the addresses that it added have      *)
(* routes, even if they were removed first; a route is lost only to the    *)
(* vzctl of another container, whose script asks for no owner.             *)
AddedAddressesRouted ==
  \A c \in Cts :
    pc[c] = "done" /\ cmd[c].op \in {"set", "start"} /\ c \in running =>
      cmd[c].add \subseteq routes \union foreign

(* A command that ends well leaves the container with the addresses it     *)
(* asked for, and these with their routes.                                 *)
AddressesApplied ==
  SavedAddressesApplied /\ OwnAddressesApplied /\ AddedAddressesRouted

(* --ipadd and --ipdel are incremental: saving them drops no address but   *)
(* those that the command removes.                                         *)
SaveIsIncremental ==
  [][\A c \in Cts :
       Save(c) => cmd[c].all \/ conf[c] \ cmd[c].del \subseteq conf'[c]]_vars

(* vps_ip_ctl() that fails to add restores the original state: it takes no *)
(* address that the container has without this loop.                       *)
AddRestores ==
  [][\A c \in Cts, i, j \in Ips :
       AddFails(c, i) /\ kern[j] = c /\ j \notin cmd[c].add \ todo[c] => kern'[j] = c]_vars
=============================================================================
