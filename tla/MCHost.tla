-------------------------------- MODULE MCHost --------------------------------
(***************************************************************************)
(* What vzctl gives to containers and tells of them, in a few runs: the    *)
(* snapshots while nothing crashes, though calls may fail, the devices and *)
(* the addresses, and the list that vzlist prints.  The parts share no     *)
(* state: `focus' chooses one of `Parts' that runs, the others stay in an  *)
(* initial state.  "turns" and "alone" are the addresses again, each with  *)
(* fewer states than "addr": no vzctl reads the file of a container while  *)
(* another one works on it, or vzctl works on one container only.          *)
(***************************************************************************)
EXTENDS MCSnapshots

CONSTANTS
  Parts,                   \* those of the run, of AllParts
  Cts,                     \* of Addresses and Listing
  Names,                   \* devices for Veth, addresses for Addresses
  None,
  DevForms, IpRequests,    \* what vzctl set may be asked
  DevFaults, AddrFaults, ListFaults,
  Overlaps                 \* vzctl set beside another one, in Veth and Addresses

AddrParts == {"addr", "turns", "alone"}
AllParts == {"snap", "veth", "list"} \union AddrParts

ASSUME PartsAssumption == Parts \subseteq AllParts

ASSUME CtsAssumption == None \notin Cts

\* What is left empty is not a name or an address.
ASSUME AbsentAssumption ==
  None \notin {"given", "vethN", "given mac", "new mac", "read mac", "given hmac", "new hmac"}

ASSUME RequestsAssumption ==
  \A r \in IpRequests :
    r = [add |-> r.add, del |-> r.del, all |-> r.all, save |-> r.save]
      /\ r.add \subseteq Names /\ r.del \subseteq Names /\ {r.all, r.save} \subseteq BOOLEAN

VARIABLES
  focus,
  vzkernel, vethConf, vethEarly, vethKern, vethRunning, vethPc, vethCmd,
  vethSeen, old, vethTodo, flagged, was, vethSynced, kept,
  addrConf, addrEarly, addrKern, routes, addrRunning, addrPc, addrCmd, addrTodo, gone,
  addrSynced, foreign,
  listConf, priv, run, mnt, dump, opt, ids, listPc, listTodo, cur, veinfo,
  seen, steady, broken

snapVars == <<tree, images, dumps, confs, env, mounted, suspended, job, lost>>
vethVars == <<vzkernel, vethConf, vethEarly, vethKern, vethRunning, vethPc,
              vethCmd, vethSeen, old, vethTodo, flagged, was, vethSynced,
              kept>>
addrVars == <<addrConf, addrEarly, addrKern, routes, addrRunning, addrPc,
              addrCmd, addrTodo, gone, addrSynced, foreign>>
listVars == <<listConf, priv, run, mnt, dump, opt, ids, listPc, listTodo,
              cur, veinfo, seen, steady, broken>>
allVars == <<focus, snapVars, vethVars, addrVars, listVars>>

\* --ipadd, --ipdel and --ipdel all, with --save.
IpRequest(add, del, all) == [add |-> add, del |-> del, all |-> all, save |-> TRUE]
SingleRequests == {IpRequest({i}, {}, FALSE) : i \in Names}
                  \union {IpRequest({}, {i}, FALSE) : i \in Names}
                  \union {IpRequest({}, {}, TRUE)}

Symmetry == GuidSymmetry \union Permutations(Names) \union Permutations(Cts)

Dev == INSTANCE Veth
  WITH Devs <- Names, Forms <- DevForms, Faults <- DevFaults, conf <- vethConf,
       early <- vethEarly, seen <- vethSeen, kern <- vethKern, running <- vethRunning, pc <- vethPc,
       cmd <- vethCmd, todo <- vethTodo, synced <- vethSynced

Addr == INSTANCE Addresses
  WITH Ips <- Names, Requests <- IpRequests, Faults <- AddrFaults, conf <- addrConf,
       early <- addrEarly, kern <- addrKern, running <- addrRunning, pc <- addrPc,
       cmd <- addrCmd, todo <- addrTodo, synced <- addrSynced

List == INSTANCE Listing
  WITH Faults <- ListFaults, conf <- listConf,
       pc <- listPc, todo <- listTodo

-----------------------------------------------------------------------------

SnapNext == /\ focus = "snap" /\ Next
            /\ UNCHANGED <<focus, vethVars, addrVars, listVars>>

DevNext == /\ focus = "veth" /\ Dev!Next
           /\ UNCHANGED <<focus, snapVars, addrVars, listVars>>

Unused(c) == addrPc[c] = "idle" /\ addrConf[c] = {} /\ c \notin addrRunning

AddrNext == /\ focus \in AddrParts /\ Addr!Next
            /\ focus = "turns" => UNCHANGED addrEarly
            /\ focus = "alone" => \E c \in Cts : \A b \in Cts \ {c} : Unused(b)'
            /\ UNCHANGED <<focus, snapVars, vethVars, listVars>>

ListNext == /\ focus = "list" /\ List!Next
            /\ UNCHANGED <<focus, snapVars, vethVars, addrVars>>

HostNext == SnapNext \/ DevNext \/ AddrNext \/ ListNext

HostInit ==
  /\ focus \in Parts
  /\ Init /\ Dev!Init /\ Addr!Init /\ List!Init
  /\ focus # "veth" => vzkernel

HostSpec == HostInit /\ [][HostNext]_allVars

-----------------------------------------------------------------------------
(* The properties of Snapshots go without a prefix.                        *)

HostTypes ==
  /\ TypeOK
  /\ focus = "veth" => Dev!TypeOK
  /\ focus \in AddrParts => Addr!TypeOK
  /\ focus = "list" => List!TypeOK

SavedDevicesMatch == focus = "veth" => Dev!SavedDevicesMatch
AddressesApplied == focus \in AddrParts => Addr!AddressesApplied
ListingIsTrue == focus = "list" => List!ListingIsTrue
=============================================================================
