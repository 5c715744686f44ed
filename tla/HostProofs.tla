----------------------------- MODULE HostProofs -----------------------------
(***************************************************************************)
(* Proofs about the parts that MCHost brings together, for any containers, *)
(* devices, addresses, requests and failures.  Each has its own inductive  *)
(* invariant, which the steps of the other parts leave alone.              *)
(***************************************************************************)
EXTENDS MCHost, SnapshotsProofs

-----------------------------------------------------------------------------
(***************************************************************************)
(* Veth: the virtual Ethernet devices of a container.                      *)
(***************************************************************************)

Tokens == {"given", "vethN", "given mac", "new mac", "read mac", "given hmac", "new hmac"}
Infos == [Dev!Fields -> Tokens \union {None}]
DevSteps == {"idle", "read", "del", "add", "rollback", "save", "done", "failed"}

\* A list of devices, and a device of which nothing is left empty.
IsList(f) == DOMAIN f \subseteq Names /\ f \in [DOMAIN f -> Infos]
Complete(dev) == \A f \in Dev!Fields : dev[f] # None

\* The types of Veth, with those of the lists.
DevWorldTypes ==
  /\ vzkernel \in BOOLEAN /\ vethRunning \in BOOLEAN
  /\ IsList(vethConf) /\ IsList(vethKern) /\ \A list \in vethEarly : IsList(list)
  /\ ~vethRunning => vethKern = Dev!Empty
DevCmdTypes ==
  /\ IsList(vethCmd.add) /\ vethCmd.del \subseteq Names /\ IsList(vethSeen)
  /\ vethCmd.delall \in BOOLEAN /\ vethCmd.op \in {"none", "set", "start"}
DevLoopTypes ==
  /\ IsList(old) /\ vethPc \in DevSteps
  /\ vethTodo \subseteq Names /\ flagged \subseteq Names
  /\ was \subseteq Names /\ kept \subseteq Names
  /\ vethSynced \in BOOLEAN
  /\ vethPc = "idle" => vethCmd.op = "none"
DevTypes == DevWorldTypes /\ DevCmdTypes /\ DevLoopTypes

\* A set of a container whose devices were those of the configuration file
\* that vzctl has read.
Setting ==
  /\ vethCmd.op = "set" /\ vethRunning /\ vethSynced
  /\ vzkernel \/ (~vethCmd.delall /\ vethCmd.del \cap DOMAIN vethCmd.add = {})

\* What is removed, what is not created, and what the kernel has then.
Removed == IF vethCmd.delall THEN was ELSE vethCmd.del
Known == IF vzkernel /\ ~vethCmd.delall THEN was ELSE {}
Now(deleted, added) == (was \ (deleted \ kept)) \union (added \ Known)

(* The devices of the container are those it had, without those removed    *)
(* and not kept, and with those created so far, and a new one is as the    *)
(* list has it.                                                            *)
Devices ==
  Setting =>
    /\ vethPc \in {"read", "del", "add", "save"} =>
         /\ vethSeen = vethConf /\ DOMAIN vethConf = was /\ kept \subseteq was
         /\ \A d \in DOMAIN vethCmd.add \ was : Complete(vethCmd.add[d])
         /\ \A d \in DOMAIN vethKern \ was :
              d \in DOMAIN vethCmd.add /\ vethKern[d] = vethCmd.add[d]
    /\ vethPc = "read" => DOMAIN vethKern = was /\ kept = {}
    /\ vethPc = "del" => /\ DOMAIN old = IF vzkernel THEN was ELSE {}
                         /\ vethTodo \subseteq Removed /\ vethTodo \cap kept = {}
                         /\ DOMAIN vethKern = Now(Removed \ vethTodo, {})
    /\ vethPc = "add" => /\ DOMAIN old = Known
                         /\ vethTodo \subseteq DOMAIN vethCmd.add
                         /\ DOMAIN vethKern = Now(Removed, DOMAIN vethCmd.add \ vethTodo)
    /\ vethPc = "save" => DOMAIN vethKern = Now(Removed, DOMAIN vethCmd.add)
    /\ vethPc = "done" => Dev!AllDevicesMatch

\* Any set of a container, whatever vzctl has read: the devices of its lists.
Apart ==
  vethCmd.op = "set" /\ vethRunning /\ vethCmd.del \cap DOMAIN vethCmd.add = {}
OwnDevices ==
  Apart =>
    /\ vethPc = "del" /\ ~vethCmd.delall =>
         /\ vethTodo \subseteq vethCmd.del
         /\ (vethCmd.del \ vethTodo) \cap DOMAIN vethKern \subseteq kept
         /\ DOMAIN old \ vethCmd.del \subseteq DOMAIN vethKern
         /\ vzkernel => DOMAIN vethKern \subseteq DOMAIN old
    /\ vethPc = "add" =>
         /\ DOMAIN vethCmd.add \ vethTodo \subseteq DOMAIN vethKern
         /\ DOMAIN old \cap DOMAIN vethCmd.add \subseteq DOMAIN vethKern
    /\ vethPc \in {"add", "save"} /\ ~vethCmd.delall =>
         vethCmd.del \cap DOMAIN vethKern \subseteq kept
    /\ vethPc = "save" => DOMAIN vethCmd.add \subseteq DOMAIN vethKern
    /\ vethPc = "done" => Dev!OwnDevicesMatch

-----------------------------------------------------------------------------
(* What the operators on devices and on lists of devices give.             *)

LEMMA EmptyIs == IsList(Dev!Empty) /\ DOMAIN Dev!Empty = {}
BY DEF Dev!Empty, IsList

LEMMA WithIs ==
  ASSUME NEW f, IsList(f), NEW d \in Names, NEW x \in Infos
  PROVE  /\ IsList(Dev!With(f, d, x)) /\ DOMAIN Dev!With(f, d, x) = DOMAIN f \union {d}
         /\ Dev!With(f, d, x)[d] = x
         /\ \A e \in DOMAIN f : e # d => Dev!With(f, d, x)[e] = f[e]
<1> DEFINE g == [e \in DOMAIN f \union {d} |-> IF e = d THEN x ELSE f[e]]
<1>1. Dev!With(f, d, x) = g
  BY DEF Dev!With
<1>2. \A e \in DOMAIN f : f[e] \in Infos
  BY DEF IsList
<1>3. /\ DOMAIN g = DOMAIN f \union {d} /\ g[d] = x /\ \A e \in DOMAIN f : e # d => g[e] = f[e]
      /\ g \in [DOMAIN f \union {d} -> Infos]
  BY <1>2
<1> HIDE DEF g
<1> QED
  BY <1>1, <1>3 DEF IsList

LEMMA RestrictIs ==
  ASSUME NEW f, IsList(f), NEW S \in SUBSET DOMAIN f
  PROVE  /\ IsList(Dev!Restrict(f, S)) /\ DOMAIN Dev!Restrict(f, S) = S
         /\ \A e \in S : Dev!Restrict(f, S)[e] = f[e]
<1>1. \A e \in DOMAIN f : f[e] \in Infos
  BY DEF IsList
<1> QED
  BY <1>1 DEF Dev!Restrict, IsList

LEMMA DevOf ==
  ASSUME NEW T, NEW a \in T, NEW b \in T, NEW c \in T
  PROVE  [host |-> a, mac |-> b, hmac |-> c] \in [{"host", "mac", "hmac"} -> T]
OBVIOUS

LEMMA InfoIs ==
  ASSUME NEW a \in Tokens \union {None}, NEW b \in Tokens \union {None},
         NEW c \in Tokens \union {None}
  PROVE  /\ [host |-> a, mac |-> b, hmac |-> c] \in Infos
         /\ a # None /\ b # None /\ c # None => Complete([host |-> a, mac |-> b, hmac |-> c])
<1>1. [host |-> a, mac |-> b, hmac |-> c] \in Infos
  BY DevOf DEF Infos, Dev!Fields
<1>2. a # None /\ b # None /\ c # None => Complete([host |-> a, mac |-> b, hmac |-> c])
  BY DEF Complete, Dev!Fields
<1> QED
  BY <1>1, <1>2

LEMMA ParseCmdIs ==
  ASSUME NEW given
  PROVE  Dev!ParseCmd(given) \in Infos /\ Complete(Dev!ParseCmd(given))
BY InfoIs, AbsentAssumption DEF Dev!ParseCmd, Tokens

LEMMA ParseOptionsIs == \A given : Dev!ParseOptions(given) \in Infos
BY InfoIs DEF Dev!ParseOptions, Tokens

LEMMA ParseConfIs ==
  ASSUME NEW x \in Infos
  PROVE  /\ Dev!ParseConf(x) \in Infos
         /\ Complete(x) => \A f \in Dev!Fields : Dev!ParseConf(x)[f] = x[f]
BY DEF Dev!ParseConf, Infos, Complete, Tokens, Dev!Fields

LEMMA FillIs ==
  ASSUME NEW x \in Infos, NEW y \in Infos
  PROVE  Dev!Fill(x, y) \in Infos /\ (Complete(y) => Complete(Dev!Fill(x, y)))
BY DEF Dev!Fill, Infos, Complete

LEMMA ConfDevsIs ==
  ASSUME NEW list, IsList(list)
  PROVE  IsList(Dev!ConfDevs(list)) /\ DOMAIN Dev!ConfDevs(list) = DOMAIN list
BY ParseConfIs DEF Dev!ConfDevs, IsList

\* A list of the devices of p without those of del and with those of a.
IsMerged(m, p, a, del) ==
  /\ IsList(m) /\ DOMAIN m = (DOMAIN p \ del) \union (DOMAIN a \ DOMAIN p)
  /\ \A d \in DOMAIN a \ DOMAIN p : m[d] = a[d]

LEMMA MergeIs ==
  ASSUME NEW p, IsList(p), NEW a, IsList(a), NEW del
  PROVE  IsMerged(Dev!Merge(p, a, del), p, a, del)
<1> DEFINE D == (DOMAIN p \ del) \union (DOMAIN a \ DOMAIN p)
           val(d) == IF d \in DOMAIN p
                     THEN IF d \in DOMAIN a THEN Dev!Fill(p[d], a[d]) ELSE p[d]
                     ELSE a[d]
<1>1. Dev!Merge(p, a, del) = [d \in D |-> val(d)]
  BY DEF Dev!Merge
<1>2. (\A d \in DOMAIN p : p[d] \in Infos) /\ (\A d \in DOMAIN a : a[d] \in Infos)
  BY DEF IsList
<1>3. \A d \in D : val(d) \in Infos
  BY <1>2, FillIs
<1>4. D \subseteq Names
  BY DEF IsList
<1> HIDE DEF D
<1>5. [d \in D |-> val(d)] \in [D -> Infos] /\ DOMAIN [d \in D |-> val(d)] = D
  BY <1>3
<1>6. \A d \in DOMAIN a \ DOMAIN p : d \in D /\ val(d) = a[d]
  BY DEF D
<1> HIDE DEF val
<1> QED
  BY <1>1, <1>4, <1>5, <1>6 DEF IsList, IsMerged, D

LEMMA CheckedIs ==
  ASSUME NEW a, IsList(a), NEW d \in Names, NEW x \in Infos
  PROVE  /\ IsList(Dev!Checked(a, d, x)) /\ DOMAIN Dev!Checked(a, d, x) = DOMAIN a \union {d}
         /\ \A e \in DOMAIN a : Complete(a[e]) => Complete(Dev!Checked(a, d, x)[e])
<1>1. CASE d \in DOMAIN a
  <2> DEFINE g == [a EXCEPT ![d] = Dev!Fill(x, a[d])]
  <2>1. Dev!Checked(a, d, x) = g
    BY <1>1 DEF Dev!Checked
  <2>2. a[d] \in Infos /\ Dev!Fill(x, a[d]) \in Infos
        /\ (Complete(a[d]) => Complete(Dev!Fill(x, a[d])))
    BY <1>1, FillIs DEF IsList
  <2>3. /\ DOMAIN g = DOMAIN a /\ g[d] = Dev!Fill(x, a[d]) /\ \A e \in DOMAIN a : e # d => g[e] = a[e]
        /\ g \in [DOMAIN a -> Infos]
    BY <1>1, <2>2 DEF IsList
  <2> HIDE DEF g
  <2>4. IsList(g)
    BY <2>3 DEF IsList
  <2>5. \A e \in DOMAIN a : Complete(a[e]) => Complete(g[e])
    BY <2>2, <2>3
  <2> QED
    BY <1>1, <2>1, <2>3, <2>4, <2>5
<1>2. CASE d \notin DOMAIN a
  <2>1. Dev!Checked(a, d, x) = Dev!With(a, d, x)
    BY <1>2 DEF Dev!Checked
  <2>2. /\ IsList(Dev!With(a, d, x)) /\ DOMAIN Dev!With(a, d, x) = DOMAIN a \union {d}
        /\ \A e \in DOMAIN a : e # d => Dev!With(a, d, x)[e] = a[e]
    BY WithIs, Zenon
  <2> QED
    BY <1>2, <2>1, <2>2
<1> QED
  BY <1>1, <1>2

-----------------------------------------------------------------------------
(* What each action does to the lists.                                     *)

LEMMA LockGives ==
  ASSUME DevTypes, Dev!Lock
  PROVE  /\ IsList(vethSeen') /\ vethEarly' = {} /\ was' = DOMAIN vethKern
         /\ kept' = {} /\ vethSynced' \in BOOLEAN
         /\ vethSynced' => vethSeen' = vethConf /\ DOMAIN vethConf = DOMAIN vethKern
<1>1. vethSeen' \in vethEarly \union {vethConf}
  BY DEF Dev!Lock
<1>2. IsList(vethSeen')
  BY <1>1 DEF DevTypes, DevWorldTypes
<1>3. vethSynced' \in BOOLEAN
  BY Zenon DEF Dev!Lock
<1>4. vethSynced' => vethSeen' = vethConf /\ DOMAIN vethConf = DOMAIN vethKern
  BY Zenon DEF Dev!Lock
<1> QED
  BY <1>2, <1>3, <1>4 DEF Dev!Lock

LEMMA SetGives ==
  ASSUME DevTypes, Dev!Set
  PROVE  /\ IsList(vethCmd'.add) /\ vethCmd'.del \subseteq Names
         /\ vethCmd'.delall \in BOOLEAN /\ vethCmd'.op = "set"
         /\ \A d \in DOMAIN vethCmd'.add \ DOMAIN vethSeen' : Complete(vethCmd'.add[d])
<1>0. IsList(vethSeen')
  BY LockGives DEF Dev!Set
<1> DEFINE Given(names, form) == [d \in names |-> Dev!ParseCmd(form)]
<1>1. PICK names \in SUBSET Names, del \in SUBSET Names, form \in DevForms, delall \in BOOLEAN :
        \/ Dev!Request(Given(names, form), del, delall, "set")
        \/ \E ifname \in names \union DOMAIN vethSeen' :
             Dev!Request(Dev!Checked(Given(names, form), ifname, Dev!ParseOptions(form)),
                         del, delall, "set")
  BY DEF Dev!Set
<1> DEFINE given == Given(names, form)
<1>2. IsList(given) /\ DOMAIN given = names /\ \A d \in names : Complete(given[d])
  BY ParseCmdIs DEF IsList
<1> HIDE DEF Given, given
<1>3. PICK add : /\ vethCmd' = [add |-> add, del |-> del, delall |-> delall, op |-> "set"]
                 /\ \/ add = given
                    \/ \E ifname \in names \union DOMAIN vethSeen' :
                         add = Dev!Checked(given, ifname, Dev!ParseOptions(form))
  BY <1>1, Zenon DEF given, Dev!Request
<1>4. IsList(add) /\ \A d \in DOMAIN add \ DOMAIN vethSeen' : Complete(add[d])
  <2>1. CASE add = given
    BY <1>2, <2>1
  <2>2. ASSUME NEW ifname \in names \union DOMAIN vethSeen',
               add = Dev!Checked(given, ifname, Dev!ParseOptions(form))
        PROVE  IsList(add) /\ \A d \in DOMAIN add \ DOMAIN vethSeen' : Complete(add[d])
    <3>1. ifname \in Names /\ Dev!ParseOptions(form) \in Infos
      BY <1>0, ParseOptionsIs DEF IsList
    <3>2. /\ IsList(add) /\ DOMAIN add = DOMAIN given \union {ifname}
          /\ \A e \in DOMAIN given : Complete(given[e]) => Complete(add[e])
      BY <1>2, <2>2, <3>1, CheckedIs
    <3> QED
      BY <1>2, <3>2
  <2> QED
    BY <1>3, <2>1, <2>2
<1> HIDE DEF given
<1> QED
  BY <1>3, <1>4

LEMMA StoreIs ==
  ASSUME DevTypes
  PROVE  /\ IsList(Dev!Store)
         /\ DOMAIN Dev!Store =
              IF vethCmd.delall THEN DOMAIN vethCmd.add
              ELSE IF DOMAIN vethCmd.add = {} /\ vethCmd.del = {} THEN DOMAIN vethConf
              ELSE (DOMAIN vethSeen \ vethCmd.del) \union (DOMAIN vethCmd.add \ DOMAIN vethSeen)
         /\ \A d \in DOMAIN vethCmd.add \ DOMAIN vethSeen : Dev!Store[d] = vethCmd.add[d]
<1>1. IsList(vethConf) /\ IsList(vethCmd.add) /\ IsList(vethSeen)
  BY DEF DevTypes, DevWorldTypes, DevCmdTypes
<1>2. CASE DOMAIN vethCmd.add = {} /\ vethCmd.del = {} /\ ~vethCmd.delall
  BY <1>1, <1>2 DEF Dev!Store
<1>3. CASE vethCmd.delall
  <2>1. Dev!Store = Dev!Merge(Dev!Empty, vethCmd.add, vethCmd.del)
    BY <1>3 DEF Dev!Store
  <2>2. IsMerged(Dev!Merge(Dev!Empty, vethCmd.add, vethCmd.del), Dev!Empty, vethCmd.add, vethCmd.del)
    BY <1>1, EmptyIs, MergeIs
  <2>3. IsMerged(Dev!Store, Dev!Empty, vethCmd.add, vethCmd.del)
    BY <2>1, <2>2
  <2> QED
    BY <1>3, <2>3, EmptyIs DEF IsMerged
<1>4. CASE ~vethCmd.delall /\ ~(DOMAIN vethCmd.add = {} /\ vethCmd.del = {})
  <2> DEFINE prev == Dev!ConfDevs(vethSeen)
  <2>1. Dev!Store = Dev!Merge(prev, vethCmd.add, vethCmd.del)
    BY <1>4 DEF Dev!Store
  <2>2. IsList(prev) /\ DOMAIN prev = DOMAIN vethSeen
    BY <1>1, ConfDevsIs
  <2> HIDE DEF prev
  <2>3. IsMerged(Dev!Merge(prev, vethCmd.add, vethCmd.del), prev, vethCmd.add, vethCmd.del)
    BY <1>1, <2>2, MergeIs
  <2>4. IsMerged(Dev!Store, prev, vethCmd.add, vethCmd.del)
    BY <2>1, <2>3
  <2> QED
    BY <1>4, <2>2, <2>4 DEF IsMerged
<1> QED
  BY <1>2, <1>3, <1>4

\* A device of the list is created as it is there, but for its name on the host.
Created(d) == [vethCmd.add[d] EXCEPT !.host = Dev!HostName(d)]

LEMMA CreatedIs ==
  ASSUME DevTypes, NEW d \in DOMAIN vethCmd.add
  PROVE  Created(d) \in Infos /\ (d \notin DOMAIN old => Created(d) = vethCmd.add[d])
<1>1. vethCmd.add[d] \in Infos /\ \A e \in DOMAIN old : old[e] \in Infos
  BY DEF DevTypes, DevCmdTypes, DevLoopTypes, IsList
<1>2. Dev!HostName(d) \in Tokens \union {None}
  BY <1>1 DEF Dev!HostName, Dev!Active, Infos, Dev!Fields
<1>3. Created(d) \in Infos
  BY <1>1, <1>2 DEF Created, Infos, Dev!Fields
<1>4. d \notin DOMAIN old => Dev!HostName(d) = vethCmd.add[d].host
  BY DEF Dev!HostName, Dev!Active
<1> QED
  BY <1>1, <1>3, <1>4 DEF Created, Infos, Dev!Fields

LEMMA CreateGives ==
  ASSUME DevTypes, NEW d \in DOMAIN vethCmd.add, Dev!Create(d)
  PROVE  /\ IsList(vethKern')
         /\ IF vzkernel /\ d \in DOMAIN old THEN vethKern' = vethKern
            ELSE /\ vethRunning /\ DOMAIN vethKern' = DOMAIN vethKern \union {d}
                 /\ d \notin DOMAIN vethKern /\ vethKern'[d] = Created(d)
                 /\ \A e \in DOMAIN vethKern : vethKern'[e] = vethKern[e]
<1>1. IsList(vethKern) /\ d \in Names /\ Created(d) \in Infos
  BY CreatedIs DEF DevTypes, DevWorldTypes, DevCmdTypes, IsList
<1>2. CASE vzkernel /\ d \in DOMAIN old
  BY <1>1, <1>2 DEF Dev!Create, Dev!Active
<1>3. CASE ~(vzkernel /\ d \in DOMAIN old)
  <2>1. /\ vethRunning /\ d \notin DOMAIN vethKern
        /\ vethKern' = Dev!With(vethKern, d, Created(d))
    BY <1>3 DEF Dev!Create, Dev!Active, Dev!CanCreate, Created
  <2>2. /\ IsList(Dev!With(vethKern, d, Created(d)))
        /\ DOMAIN Dev!With(vethKern, d, Created(d)) = DOMAIN vethKern \union {d}
        /\ Dev!With(vethKern, d, Created(d))[d] = Created(d)
        /\ \A e \in DOMAIN vethKern : e # d => Dev!With(vethKern, d, Created(d))[e] = vethKern[e]
    BY <1>1, WithIs, Zenon
  <2> QED
    BY <1>3, <2>1, <2>2
<1> QED
  BY <1>2, <1>3

LEMMA DevTypes0 ==
  ASSUME DevTypes,
         Dev!Parse \/ Dev!Set \/ Dev!Start \/ Dev!Read \/ Dev!DelDone \/ Dev!Rollback
          \/ Dev!Added \/ Dev!Save \/ Dev!End \/ Dev!Halt \/ Dev!Killed
  PROVE  DevTypes'
<1> USE DEF DevTypes, DevWorldTypes, DevCmdTypes, DevLoopTypes, DevSteps, Dev!input,
            Dev!ghost
<1>0. CASE Dev!Parse
  BY <1>0 DEF Dev!Parse
<1>1. CASE Dev!Set
  <2>1. /\ UNCHANGED <<vzkernel, vethRunning, vethConf, vethKern, old, vethTodo, flagged>>
        /\ vethPc' \in {"read", "save"}
    BY <1>1 DEF Dev!Set
  <2>2. /\ IsList(vethSeen') /\ vethEarly' = {} /\ was' = DOMAIN vethKern
        /\ kept' = {} /\ vethSynced' \in BOOLEAN
    BY <1>1, LockGives DEF Dev!Set
  <2>3. IsList(vethKern) => DOMAIN vethKern \subseteq Names
    BY DEF IsList
  <2> QED
    BY <1>1, <2>1, <2>2, <2>3, SetGives
<1>2. CASE Dev!Start
  <2>1. /\ UNCHANGED <<vzkernel, vethConf, vethKern, old, vethTodo, flagged>>
        /\ vethRunning' = TRUE /\ vethPc' = "read"
        /\ vethCmd' = [add |-> Dev!ConfDevs(vethSeen'), del |-> {}, delall |-> FALSE,
                       op |-> "start"]
    BY <1>2 DEF Dev!Start, Dev!Request
  <2>2. /\ IsList(vethSeen') /\ vethEarly' = {} /\ was' = DOMAIN vethKern
        /\ kept' = {} /\ vethSynced' \in BOOLEAN
    BY <1>2, LockGives DEF Dev!Start
  <2>3. IsList(vethKern) => DOMAIN vethKern \subseteq Names
    BY DEF IsList
  <2> QED
    BY <2>1, <2>2, <2>3, ConfDevsIs
<1>3. CASE Dev!Read
  <2>1. IsList(old') /\ DOMAIN old' \subseteq Names
    BY <1>3, EmptyIs DEF Dev!Read, IsList
  <2> QED
    BY <1>3, <2>1 DEF Dev!Read
<1>4. CASE Dev!DelDone
  <2>1. IsList(old') /\ DOMAIN vethCmd.add \subseteq Names
    BY <1>4, EmptyIs DEF Dev!DelDone, IsList
  <2> QED
    BY <1>4, <2>1 DEF Dev!DelDone
<1>5. CASE Dev!Rollback
  <2>1. IsList(vethKern') /\ (vethKern = Dev!Empty => vethKern' = Dev!Empty)
    <3> DEFINE S == DOMAIN vethKern \ {d \in flagged : Dev!Active(d)}
    <3>1. vethKern' = Dev!Restrict(vethKern, S) /\ S \in SUBSET DOMAIN vethKern
      BY <1>5 DEF Dev!Rollback
    <3>2. vethKern = Dev!Empty => Dev!Restrict(vethKern, S) = Dev!Empty
      BY DEF Dev!Restrict, Dev!Empty
    <3> HIDE DEF S
    <3> QED
      BY <3>1, <3>2, RestrictIs
  <2> QED
    BY <1>5, <2>1 DEF Dev!Rollback
<1>6. CASE Dev!Added
  BY <1>6 DEF Dev!Added
<1>7. CASE Dev!Save
  BY <1>7, StoreIs DEF Dev!Save
<1>8. CASE Dev!End
  <2>1. /\ IsList(vethKern') /\ vethRunning' \in BOOLEAN
        /\ ~vethRunning' => vethKern' = Dev!Empty
    BY <1>8, EmptyIs DEF Dev!End
  <2>2. DevCmdTypes' /\ vethCmd'.op = "none"
    BY <1>8, EmptyIs DEF Dev!End, Dev!NoCmd
  <2> QED
    BY <1>8, <2>1, <2>2, EmptyIs DEF Dev!End
<1>9. CASE Dev!Halt
  BY <1>9, EmptyIs DEF Dev!Halt
<1>10. CASE Dev!Killed
  <2>1. DevCmdTypes' /\ vethCmd'.op = "none"
    BY <1>10, EmptyIs DEF Dev!Killed, Dev!NoCmd
  <2> QED
    BY <1>10, <2>1, EmptyIs DEF Dev!Killed
<1> QED
  BY <1>0, <1>1, <1>2, <1>3, <1>4, <1>5, <1>6, <1>7, <1>8, <1>9, <1>10

\* What is still to be created is in the list.
ToAdd == vethPc = "add" => vethTodo \subseteq DOMAIN vethCmd.add

LEMMA ToAdd0 ==
  ASSUME ToAdd, DevTypes,
         Dev!Parse \/ Dev!Set \/ Dev!Start \/ Dev!Read \/ Dev!DelDone \/ Dev!Rollback
          \/ Dev!Added \/ Dev!Save \/ Dev!End \/ Dev!Halt \/ Dev!Killed
  PROVE  ToAdd'
<1> USE DEF ToAdd, DevTypes, DevLoopTypes, Dev!input, Dev!ghost
<1>0. CASE Dev!Parse
  BY <1>0 DEF Dev!Parse
<1>1. CASE Dev!Set
  BY <1>1 DEF Dev!Set
<1>2. CASE Dev!Start
  BY <1>2 DEF Dev!Start
<1>3. CASE Dev!Read
  BY <1>3 DEF Dev!Read
<1>4. CASE Dev!DelDone
  BY <1>4 DEF Dev!DelDone
<1>5. CASE Dev!Rollback
  BY <1>5 DEF Dev!Rollback
<1>6. CASE Dev!Added
  BY <1>6 DEF Dev!Added
<1>7. CASE Dev!Save
  BY <1>7 DEF Dev!Save
<1>8. CASE Dev!End
  BY <1>8 DEF Dev!End
<1>9. CASE Dev!Halt
  BY <1>9 DEF Dev!Halt
<1>10. CASE Dev!Killed
  BY <1>10 DEF Dev!Killed
<1> QED
  BY <1>0, <1>1, <1>2, <1>3, <1>4, <1>5, <1>6, <1>7, <1>8, <1>9, <1>10

LEMMA DevTypesD ==
  ASSUME ToAdd, DevTypes, NEW d \in Names,
         Dev!DelDevice(d) \/ Dev!AddDevice(d) \/ Dev!CreateFails(d) \/ Dev!SetUpFails(d)
  PROVE  DevTypes' /\ ToAdd'
<1> USE DEF DevTypes, DevWorldTypes, DevCmdTypes, DevLoopTypes, DevSteps, Dev!input,
            Dev!ghost
<1> USE DEF ToAdd
<1>1. CASE Dev!DelDevice(d)
  <2>1. CASE UNCHANGED vethKern
    BY <1>1, <2>1 DEF Dev!DelDevice
  <2>2. CASE vethRunning /\ vethKern' = Dev!Restrict(vethKern, DOMAIN vethKern \ {d})
    <3>1. IsList(vethKern')
      BY <2>2, RestrictIs
    <3> QED
      BY <1>1, <2>2, <3>1 DEF Dev!DelDevice
  <2> QED
    BY <1>1, <2>1, <2>2 DEF Dev!DelDevice
<1>2. CASE Dev!AddDevice(d)
  <2>1. IsList(vethKern') /\ (vethRunning \/ vethKern' = vethKern)
    BY <1>2, CreateGives DEF Dev!AddDevice
  <2>2. flagged' \subseteq Names
    BY <1>2 DEF Dev!AddDevice, Dev!Flag
  <2> QED
    BY <1>2, <2>1, <2>2 DEF Dev!AddDevice
<1>3. CASE Dev!CreateFails(d)
  BY <1>3 DEF Dev!CreateFails
<1>4. CASE Dev!SetUpFails(d)
  <2>1. IsList(vethKern') /\ (vethRunning \/ vethKern' = vethKern)
    BY <1>4, CreateGives DEF Dev!SetUpFails
  <2>2. flagged' \subseteq Names
    BY <1>4 DEF Dev!SetUpFails, Dev!Flag
  <2> QED
    BY <1>4, <2>1, <2>2 DEF Dev!SetUpFails
<1> QED
  BY <1>1, <1>2, <1>3, <1>4

LEMMA Devices0 ==
  ASSUME DevTypes, DevTypes', ToAdd, Devices,
         Dev!Parse \/ Dev!Set \/ Dev!Start \/ Dev!Read \/ Dev!DelDone \/ Dev!Rollback
          \/ Dev!Added \/ Dev!Save \/ Dev!End \/ Dev!Halt \/ Dev!Killed
  PROVE  Devices'
<1> USE DEF Devices, Setting, Removed, Known, Now, Dev!input, Dev!ghost
<1>0. CASE Dev!Parse
  BY <1>0 DEF Dev!Parse, Complete
<1>1. CASE Dev!Set
  <2>1. /\ UNCHANGED <<vzkernel, vethRunning, vethConf, vethKern, old, vethTodo, flagged>>
        /\ vethPc' = (IF vethRunning THEN "read" ELSE "save")
    BY <1>1 DEF Dev!Set
  <2>2. /\ was' = DOMAIN vethKern /\ kept' = {}
        /\ vethSynced' => vethSeen' = vethConf /\ DOMAIN vethConf = DOMAIN vethKern
    BY <1>1, LockGives DEF Dev!Set
  <2>3. \A d \in DOMAIN vethCmd'.add \ DOMAIN vethSeen' : Complete(vethCmd'.add[d])
    BY <1>1, SetGives
  <2>4. \A d \in DOMAIN vethCmd'.add \ DOMAIN vethSeen' : Complete(vethCmd.add[d])'
    BY <2>3 DEF Complete
  <2> QED
    BY <2>1, <2>2, <2>4
<1>2. CASE Dev!Start
  BY <1>2 DEF Dev!Start, Dev!Request
<1>3. CASE Dev!Read
  <2>1. /\ vethPc = "read" /\ vethPc' = "del"
        /\ UNCHANGED <<vzkernel, vethConf, vethKern, vethRunning, vethCmd, vethSeen, flagged, was,
                       vethSynced, kept>>
        /\ old' = IF vethCmd.op = "start" \/ ~vzkernel THEN Dev!Empty ELSE vethKern
        /\ vethTodo' = IF vethCmd.delall THEN DOMAIN old' ELSE vethCmd.del
    BY <1>3 DEF Dev!Read
  <2>2. Complete(None)' = Complete(None)
    BY DEF Complete
  <2> QED
    BY <2>1, EmptyIs DEF Complete
<1>4. CASE Dev!DelDone
  <2>1. /\ vethPc = "del" /\ vethTodo = {} /\ vethTodo' = DOMAIN vethCmd.add
        /\ UNCHANGED <<vzkernel, vethConf, vethKern, vethRunning, vethCmd, vethSeen, was,
                       vethSynced, kept>>
        /\ vethPc' \in {"add", "failed"}
        /\ DOMAIN old' = IF vethCmd.delall THEN {} ELSE DOMAIN old
    BY <1>4, EmptyIs DEF Dev!DelDone
  <2> QED
    BY <2>1 DEF Complete
<1>5. CASE Dev!Rollback
  BY <1>5 DEF Dev!Rollback
<1>6. CASE Dev!Added
  BY <1>6 DEF Dev!Added
<1>7. CASE Dev!Save
  <2>1. SUFFICES ASSUME Setting PROVE Dev!AllDevicesMatch'
    BY <1>7 DEF Dev!Save
  <2>2. /\ vethPc = "save" /\ vethConf' = Dev!Store /\ UNCHANGED <<vethKern, was, kept>>
    BY <1>7 DEF Dev!Save
  <2>0. vethSeen = vethConf
    BY <2>1, <2>2
  <2>3. DOMAIN vethKern = DOMAIN Dev!Store \union kept
    BY <2>0, <2>1, <2>2, StoreIs DEF DevTypes, DevCmdTypes
  <2>4. ASSUME NEW d \in DOMAIN vethKern \ was, NEW f \in Dev!Fields
        PROVE  vethKern[d][f] = Dev!ParseConf(Dev!Store[d])[f]
    <3>1. /\ d \in DOMAIN vethCmd.add \ DOMAIN vethConf /\ vethKern[d] = vethCmd.add[d]
          /\ Complete(vethCmd.add[d])
      BY <2>1, <2>2
    <3>2. vethCmd.add[d] \in Infos /\ Dev!Store[d] = vethCmd.add[d]
      BY <2>0, <3>1, StoreIs DEF DevTypes, DevCmdTypes, IsList
    <3> QED
      BY <3>1, <3>2, ParseConfIs
  <2>5. \A x : Dev!ParseConf(x)' = Dev!ParseConf(x)
    BY DEF Dev!ParseConf
  <2> QED
    BY <2>2, <2>3, <2>4, <2>5 DEF Dev!AllDevicesMatch, Dev!Fields
<1>8. CASE Dev!End
  BY <1>8 DEF Dev!End
<1>9. CASE Dev!Halt
  BY <1>9 DEF Dev!Halt
<1>10. CASE Dev!Killed
  BY <1>10 DEF Dev!Killed
<1> QED
  BY <1>0, <1>1, <1>2, <1>3, <1>4, <1>5, <1>6, <1>7, <1>8, <1>9, <1>10

LEMMA DevicesD ==
  ASSUME DevTypes, DevTypes', ToAdd, Devices, NEW d \in Names,
         Dev!DelDevice(d) \/ Dev!AddDevice(d) \/ Dev!CreateFails(d) \/ Dev!SetUpFails(d)
  PROVE  Devices'
<1> USE DEF Devices, Setting, Removed, Known, Now, Dev!input, Dev!ghost
<1>1. CASE Dev!DelDevice(d)
  <2>1. /\ vethPc = "del" /\ vethPc' = "del" /\ d \in vethTodo
        /\ UNCHANGED <<vzkernel, vethConf, vethRunning, vethCmd, vethSeen, old, flagged, was,
                       vethSynced>>
    BY <1>1 DEF Dev!DelDevice
  <2>2. CASE ~vethRunning
    BY <2>1, <2>2
  <2>3. CASE /\ vethKern' = Dev!Restrict(vethKern, DOMAIN vethKern \ {d})
             /\ vethTodo' = vethTodo \ {d} /\ kept' = kept
    <3>1. /\ DOMAIN vethKern' = DOMAIN vethKern \ {d}
          /\ \A e \in DOMAIN vethKern \ {d} : vethKern'[e] = vethKern[e]
      BY <2>3, RestrictIs DEF DevTypes, DevWorldTypes
    <3> QED
      BY <2>1, <2>3, <3>1 DEF Complete
  <2>4. CASE /\ vethRunning /\ vzkernel /\ d \notin DOMAIN old
             /\ vethTodo' = vethTodo \ {d} /\ UNCHANGED <<vethKern, kept>>
    BY <2>1, <2>4 DEF Complete
  <2>5. CASE /\ vethTodo' = {} /\ kept' = kept \union (vethTodo \cap DOMAIN vethKern)
             /\ UNCHANGED vethKern
    BY <2>1, <2>5 DEF Complete
  <2> QED
    BY <1>1, <2>2, <2>3, <2>4, <2>5 DEF Dev!DelDevice, Dev!Active
<1>2. CASE Dev!AddDevice(d)
  <2>1. /\ vethPc = "add" /\ vethPc' = "add" /\ d \in vethTodo /\ vethTodo' = vethTodo \ {d}
        /\ UNCHANGED <<vzkernel, vethConf, vethRunning, vethCmd, vethSeen, old, was, vethSynced,
                       kept>>
        /\ Dev!Create(d) /\ d \in DOMAIN vethCmd.add
    BY <1>2 DEF Dev!AddDevice, ToAdd
  <2>2. CASE vzkernel /\ d \in DOMAIN old /\ vethKern' = vethKern
    BY <2>1, <2>2 DEF Complete
  <2>3. CASE ~(vzkernel /\ d \in DOMAIN old)
    <3>1. /\ DOMAIN vethKern' = DOMAIN vethKern \union {d} /\ vethKern'[d] = Created(d)
          /\ \A e \in DOMAIN vethKern : vethKern'[e] = vethKern[e]
          /\ d \notin DOMAIN vethKern
      BY <2>1, <2>3, CreateGives
    <3>2. d \notin DOMAIN old => Created(d) = vethCmd.add[d]
      BY <2>1, CreatedIs
    <3> QED
      BY <2>1, <2>3, <3>1, <3>2 DEF Complete
  <2> QED
    BY <2>1, <2>2, <2>3, CreateGives
<1>3. CASE Dev!CreateFails(d)
  BY <1>3 DEF Dev!CreateFails
<1>4. CASE Dev!SetUpFails(d)
  BY <1>4 DEF Dev!SetUpFails
<1> QED
  BY <1>1, <1>2, <1>3, <1>4

LEMMA DevTypesInit == Dev!Init => DevTypes /\ ToAdd
<1> SUFFICES ASSUME Dev!Init PROVE DevTypes /\ ToAdd
  OBVIOUS
<1>1. DevWorldTypes
  BY EmptyIs DEF Dev!Init, DevWorldTypes
<1>2. DevCmdTypes /\ vethCmd.op = "none"
  BY EmptyIs DEF Dev!Init, DevCmdTypes, Dev!NoCmd
<1>3. DevLoopTypes /\ ToAdd
  BY <1>2, EmptyIs DEF Dev!Init, DevLoopTypes, DevSteps, ToAdd
<1> QED
  BY <1>1, <1>2, <1>3 DEF DevTypes

LEMMA DevTypesStep ==
  ASSUME DevTypes, ToAdd, [Dev!Next]_vethVars
  PROVE  DevTypes' /\ ToAdd'
<1>1. CASE UNCHANGED vethVars
  BY <1>1 DEF vethVars, DevTypes, DevWorldTypes, DevCmdTypes, DevLoopTypes, ToAdd
<1>2. CASE Dev!Parse \/ Dev!Set \/ Dev!Start \/ Dev!Read \/ Dev!DelDone \/ Dev!Rollback
             \/ Dev!Added \/ Dev!Save \/ Dev!End \/ Dev!Halt \/ Dev!Killed
  BY <1>2, DevTypes0, ToAdd0
<1>3. ASSUME NEW d \in Names,
             Dev!DelDevice(d) \/ Dev!AddDevice(d) \/ Dev!CreateFails(d) \/ Dev!SetUpFails(d)
      PROVE  DevTypes' /\ ToAdd'
  BY <1>3, DevTypesD
<1> QED
  BY <1>1, <1>2, <1>3 DEF Dev!Next

LEMMA DevTypesPart == HostSpec => [](DevTypes /\ ToAdd)
<1>1. HostInit => DevTypes /\ ToAdd
  BY DevTypesInit DEF HostInit
<1>2. (DevTypes /\ ToAdd) /\ [HostNext]_allVars => (DevTypes /\ ToAdd)'
  <2>1. [HostNext]_allVars => [Dev!Next]_vethVars
    BY DEF HostNext, SnapNext, DevNext, AddrNext, ListNext, allVars, vethVars
  <2> QED
    BY <2>1, DevTypesStep
<1> QED
  BY <1>1, <1>2, PTL DEF HostSpec

LEMMA DevicesStep ==
  ASSUME DevTypes, DevTypes', ToAdd, Devices, [Dev!Next]_vethVars
  PROVE  Devices'
<1>1. CASE UNCHANGED vethVars
  <2>1. Dev!AllDevicesMatch' = Dev!AllDevicesMatch
    BY <1>1 DEF vethVars, Dev!AllDevicesMatch, Dev!Saved, Dev!Disjoint, Dev!ParseConf
  <2> QED
    BY <1>1, <2>1 DEF vethVars, Devices, Setting, Removed, Known, Now, Complete
<1>2. CASE Dev!Parse \/ Dev!Set \/ Dev!Start \/ Dev!Read \/ Dev!DelDone \/ Dev!Rollback
             \/ Dev!Added \/ Dev!Save \/ Dev!End \/ Dev!Halt \/ Dev!Killed
  BY <1>2, Devices0
<1>3. ASSUME NEW d \in Names,
             Dev!DelDevice(d) \/ Dev!AddDevice(d) \/ Dev!CreateFails(d) \/ Dev!SetUpFails(d)
      PROVE  Devices'
  BY <1>3, DevicesD
<1> QED
  BY <1>1, <1>2, <1>3 DEF Dev!Next

LEMMA OwnDevices0 ==
  ASSUME DevTypes, DevTypes', ToAdd, OwnDevices,
         Dev!Parse \/ Dev!Set \/ Dev!Start \/ Dev!Read \/ Dev!DelDone \/ Dev!Rollback
          \/ Dev!Added \/ Dev!Save \/ Dev!End \/ Dev!Halt \/ Dev!Killed
  PROVE  OwnDevices'
<1> USE DEF OwnDevices, Apart, Dev!input, Dev!ghost
<1>0. CASE Dev!Parse
  BY <1>0 DEF Dev!Parse
<1>1. CASE Dev!Set
  <2>1. vethRunning' = vethRunning /\ vethPc' = (IF vethRunning THEN "read" ELSE "save")
    BY <1>1 DEF Dev!Set
  <2> QED
    BY <2>1
<1>2. CASE Dev!Start
  BY <1>2 DEF Dev!Start, Dev!Request
<1>3. CASE Dev!Read
  <2>1. /\ vethPc = "read" /\ vethPc' = "del"
        /\ UNCHANGED <<vzkernel, vethKern, vethRunning, vethCmd>>
        /\ old' = IF vethCmd.op = "start" \/ ~vzkernel THEN Dev!Empty ELSE vethKern
        /\ vethTodo' = IF vethCmd.delall THEN DOMAIN old' ELSE vethCmd.del
    BY <1>3 DEF Dev!Read
  <2> QED
    BY <2>1, EmptyIs
<1>4. CASE Dev!DelDone
  <2>1. /\ vethPc = "del" /\ vethTodo = {} /\ vethTodo' = DOMAIN vethCmd.add
        /\ UNCHANGED <<vzkernel, vethKern, vethRunning, vethCmd, kept>>
        /\ vethPc' \in {"add", "failed"}
        /\ DOMAIN old' = IF vethCmd.delall THEN {} ELSE DOMAIN old
    BY <1>4, EmptyIs DEF Dev!DelDone
  <2> QED
    BY <2>1
<1>5. CASE Dev!Rollback
  BY <1>5 DEF Dev!Rollback
<1>6. CASE Dev!Added
  BY <1>6 DEF Dev!Added
<1>7. CASE Dev!Save
  <2>1. SUFFICES ASSUME Apart PROVE Dev!OwnDevicesMatch'
    BY <1>7 DEF Dev!Save
  <2>2. /\ vethPc = "save" /\ vethConf' = Dev!Store /\ UNCHANGED <<vethKern, vethCmd, kept>>
    BY <1>7 DEF Dev!Save
  <2>3. DOMAIN vethCmd.add \subseteq DOMAIN Dev!Store /\ vethCmd.del \cap DOMAIN Dev!Store = {}
    BY <2>1, StoreIs DEF DevTypes, DevCmdTypes
  <2> QED
    BY <2>1, <2>2, <2>3 DEF Dev!OwnDevicesMatch
<1>8. CASE Dev!End
  BY <1>8 DEF Dev!End
<1>9. CASE Dev!Halt
  BY <1>9 DEF Dev!Halt
<1>10. CASE Dev!Killed
  BY <1>10 DEF Dev!Killed
<1> QED
  BY <1>0, <1>1, <1>2, <1>3, <1>4, <1>5, <1>6, <1>7, <1>8, <1>9, <1>10

LEMMA OwnDevicesD ==
  ASSUME DevTypes, ToAdd, OwnDevices, NEW d \in Names,
         Dev!DelDevice(d) \/ Dev!AddDevice(d) \/ Dev!CreateFails(d) \/ Dev!SetUpFails(d)
  PROVE  OwnDevices'
<1> USE DEF OwnDevices, Apart, Dev!input, Dev!ghost
<1>1. CASE Dev!DelDevice(d)
  <2>1. /\ vethPc = "del" /\ vethPc' = "del" /\ d \in vethTodo
        /\ UNCHANGED <<vzkernel, vethRunning, vethCmd, old>>
    BY <1>1 DEF Dev!DelDevice
  <2>2. CASE ~vethRunning
    BY <2>1, <2>2
  <2>3. CASE /\ vethKern' = Dev!Restrict(vethKern, DOMAIN vethKern \ {d})
             /\ vethTodo' = vethTodo \ {d} /\ kept' = kept
    <3>1. DOMAIN vethKern' = DOMAIN vethKern \ {d}
      BY <2>3, RestrictIs DEF DevTypes, DevWorldTypes
    <3> QED
      BY <2>1, <2>3, <3>1
  <2>4. CASE /\ vethRunning /\ vzkernel /\ d \notin DOMAIN old
             /\ vethTodo' = vethTodo \ {d} /\ UNCHANGED <<vethKern, kept>>
    BY <2>1, <2>4
  <2>5. CASE /\ vethTodo' = {} /\ kept' = kept \union (vethTodo \cap DOMAIN vethKern)
             /\ UNCHANGED vethKern
    BY <2>1, <2>5
  <2> QED
    BY <1>1, <2>2, <2>3, <2>4, <2>5 DEF Dev!DelDevice, Dev!Active
<1>2. CASE Dev!AddDevice(d)
  <2>1. /\ vethPc = "add" /\ vethPc' = "add" /\ d \in vethTodo /\ vethTodo' = vethTodo \ {d}
        /\ UNCHANGED <<vzkernel, vethRunning, vethCmd, old, kept>>
        /\ Dev!Create(d) /\ d \in DOMAIN vethCmd.add
    BY <1>2 DEF Dev!AddDevice, ToAdd
  <2>2. CASE vzkernel /\ d \in DOMAIN old /\ vethKern' = vethKern
    BY <2>1, <2>2
  <2>3. CASE ~(vzkernel /\ d \in DOMAIN old)
    <3>1. DOMAIN vethKern' = DOMAIN vethKern \union {d}
      BY <2>1, <2>3, CreateGives
    <3> QED
      BY <2>1, <3>1
  <2> QED
    BY <2>1, <2>2, <2>3, CreateGives
<1>3. CASE Dev!CreateFails(d)
  BY <1>3 DEF Dev!CreateFails
<1>4. CASE Dev!SetUpFails(d)
  BY <1>4 DEF Dev!SetUpFails
<1> QED
  BY <1>1, <1>2, <1>3, <1>4

LEMMA OwnDevicesStep ==
  ASSUME DevTypes, DevTypes', ToAdd, OwnDevices, [Dev!Next]_vethVars
  PROVE  OwnDevices'
<1>1. CASE UNCHANGED vethVars
  <2>1. Dev!OwnDevicesMatch' = Dev!OwnDevicesMatch
    BY <1>1 DEF vethVars, Dev!OwnDevicesMatch, Dev!Saved, Dev!Disjoint
  <2> QED
    BY <1>1, <2>1 DEF vethVars, OwnDevices, Apart
<1>2. CASE Dev!Parse \/ Dev!Set \/ Dev!Start \/ Dev!Read \/ Dev!DelDone \/ Dev!Rollback
             \/ Dev!Added \/ Dev!Save \/ Dev!End \/ Dev!Halt \/ Dev!Killed
  BY <1>2, OwnDevices0
<1>3. ASSUME NEW d \in Names,
             Dev!DelDevice(d) \/ Dev!AddDevice(d) \/ Dev!CreateFails(d) \/ Dev!SetUpFails(d)
      PROVE  OwnDevices'
  BY <1>3, OwnDevicesD
<1> QED
  BY <1>1, <1>2, <1>3 DEF Dev!Next

(* What vzctl set saves is what the container has, for any devices and     *)
(* lists, on both kernels, and whatever other vzctl save between reading   *)
(* the file and the lock: vps_setup_veth() and merge_veth_list() agree on  *)
(* all devices if nobody does, and on those of the command in any case,    *)
(* but for those that were to be removed and that the kernel has kept      *)
(* (SavedDevicesMatch): vps_setup_veth() ignores what veth_ctl(DEL)        *)
(* returns.                                                                *)
THEOREM SavedDevicesAreThere == HostSpec => []SavedDevicesMatch
<1>1. HostInit => Devices /\ OwnDevices
  BY DEF HostInit, Dev!Init, Devices, Setting, OwnDevices
<1>2. DevTypes /\ ToAdd /\ DevTypes' /\ Devices /\ OwnDevices /\ [HostNext]_allVars =>
        Devices' /\ OwnDevices'
  <2>1. [HostNext]_allVars => [Dev!Next]_vethVars
    BY DEF HostNext, SnapNext, DevNext, AddrNext, ListNext, allVars, vethVars
  <2> QED
    BY <2>1, DevicesStep, OwnDevicesStep
<1>3. Devices /\ OwnDevices => SavedDevicesMatch
  <2>1. Devices => Dev!AllDevicesMatch
    BY DEF Devices, Setting, Dev!AllDevicesMatch, Dev!Saved, Dev!Disjoint
  <2>2. OwnDevices => Dev!OwnDevicesMatch
    BY DEF OwnDevices, Apart, Dev!OwnDevicesMatch, Dev!Saved, Dev!Disjoint
  <2> QED
    BY <2>1, <2>2 DEF SavedDevicesMatch, Dev!SavedDevicesMatch
<1> QED
  BY <1>1, <1>2, <1>3, DevTypesPart, PTL DEF HostSpec

-----------------------------------------------------------------------------
(***************************************************************************)
(* Addresses: the addresses of containers on an OpenVZ kernel.             *)
(***************************************************************************)

Ops == {"none", "set", "start"}
IpCommands ==
  [add : SUBSET Names, del : SUBSET Names, all : BOOLEAN, save : BOOLEAN,
   seen : SUBSET Names, op : Ops]
AddrSteps == {"idle", "del", "unroute", "add", "route", "rest", "save", "done", "failed",
              "halt", "stopped"}

\* The types of Addresses, with those of what a vzctl was asked.
KernTypes ==
  /\ addrConf \in [Cts -> SUBSET Names] /\ addrEarly \in [Cts -> SUBSET SUBSET Names]
  /\ addrKern \in [Names -> Cts \union {None}]
  /\ routes \subseteq Names /\ foreign \subseteq Names /\ addrRunning \subseteq Cts
  /\ \A i \in Names : addrKern[i] \in addrRunning \union {None}
LoopTypes ==
  /\ addrPc \in [Cts -> AddrSteps]
  /\ addrTodo \in [Cts -> SUBSET Names] /\ gone \in [Cts -> SUBSET Names]
CmdTypes == addrCmd \in [Cts -> IpCommands] /\ addrSynced \in [Cts -> BOOLEAN]
AddrTypes == KernTypes /\ LoopTypes /\ CmdTypes

\* What is done for c is done to a container that runs.
Changing(c) ==
  addrCmd[c].op = "set" /\ addrCmd[c].save /\ addrSynced[c] /\ c \in addrRunning
Adding(c) == addrCmd[c].op \in {"set", "start"} /\ c \in addrRunning

(* The loops.  Wherever the vzctl of a running container is, the kernel    *)
(* gives this container what it had, without what was removed so far and   *)
(* with what was added so far.                                             *)
LoopInvOf(c) ==
  /\ addrPc[c] \in {"idle", "halt", "stopped"} => addrCmd[c] = Addr!NoCmd
  /\ addrPc[c] \in {"del", "unroute"} \/ addrCmd[c].save => addrCmd[c].op = "set"
  /\ Changing(c) =>
       /\ addrPc[c] \in {"del", "unroute", "add", "route", "rest", "save"} =>
            /\ addrCmd[c].seen = addrConf[c]
            /\ gone[c] = addrCmd[c].del \union (IF addrCmd[c].all THEN addrConf[c] ELSE {})
            /\ addrCmd[c].add \cap addrConf[c] \subseteq addrCmd[c].del
       /\ addrPc[c] = "del" =>
            /\ addrTodo[c] \subseteq gone[c]
            /\ Addr!IpsOf(c) = addrConf[c] \ (gone[c] \ addrTodo[c])
       /\ addrPc[c] = "unroute" => Addr!IpsOf(c) = addrConf[c] \ gone[c]
       /\ addrPc[c] = "add" =>
            /\ addrTodo[c] \subseteq addrCmd[c].add
            /\ Addr!IpsOf(c) = (addrConf[c] \ gone[c]) \union (addrCmd[c].add \ addrTodo[c])
       /\ addrPc[c] \in {"route", "rest", "save"} =>
            Addr!IpsOf(c) = (addrConf[c] \ gone[c]) \union addrCmd[c].add
       /\ addrPc[c] = "done" => Addr!IpsOf(c) = addrConf[c]

(* The routes.  An address that was added stays with its container until   *)
(* vzctl ends, and what was routed has a route that no other vzctl takes   *)
(* away without notice.                                                    *)
RouteInvOf(c) ==
  Adding(c) =>
    /\ addrPc[c] = "add" => addrCmd[c].add \ addrTodo[c] \subseteq Addr!IpsOf(c)
    /\ addrPc[c] \in {"route", "rest", "save", "done"} => addrCmd[c].add \subseteq Addr!IpsOf(c)
    /\ addrPc[c] = "route" => addrCmd[c].add \ addrTodo[c] \subseteq routes \union foreign
    /\ addrPc[c] \in {"rest", "save", "done"} => addrCmd[c].add \subseteq routes \union foreign

(* The addresses of the command.  However old the list is that vzctl has   *)
(* read, what it removes leaves the kernel before anything is added.       *)
Saving(c) == addrCmd[c].op = "set" /\ addrCmd[c].save /\ c \in addrRunning
OwnInvOf(c) ==
  Saving(c) =>
    /\ addrPc[c] = "del" =>
         /\ addrTodo[c] \union addrCmd[c].del \subseteq gone[c]
         /\ (gone[c] \ addrTodo[c]) \cap Addr!IpsOf(c) = {}
    /\ addrPc[c] = "unroute" => addrCmd[c].del \cap Addr!IpsOf(c) = {}
    /\ addrPc[c] = "add" => addrTodo[c] \subseteq addrCmd[c].add
    /\ addrPc[c] \in {"add", "route", "rest", "save", "done"} =>
         (addrCmd[c].del \ addrCmd[c].add) \cap Addr!IpsOf(c) = {}
    /\ addrPc[c] = "done" =>
         /\ addrCmd[c].add \subseteq addrConf[c]
         /\ (addrCmd[c].del \ addrCmd[c].add) \cap addrConf[c] = {}

AddrInv == AddrTypes /\ \A c \in Cts : LoopInvOf(c) /\ RouteInvOf(c) /\ OwnInvOf(c)

\* How the vzctl of c moves on.
LEMMA TurnTypes ==
  ASSUME LoopTypes, NEW c \in Cts, NEW to \in AddrSteps, NEW list \in SUBSET Names,
         Addr!Turn(c, to, list), UNCHANGED gone
  PROVE  LoopTypes'
BY DEF LoopTypes, Addr!Turn

LEMMA TickTypes ==
  ASSUME LoopTypes, NEW c \in Cts, NEW at, NEW i, NEW to \in AddrSteps,
         NEW list \in SUBSET Names, Addr!Tick(c, at, i, to, list), UNCHANGED gone
  PROVE  LoopTypes'
BY DEF LoopTypes, Addr!Tick, Addr!Turn

LEMMA NoCmdType == Addr!NoCmd \in IpCommands
BY DEF Addr!NoCmd, IpCommands, Ops

LEMMA AddLoopStep == \A add : Addr!AddLoop(add) \in {"add", "rest"}
BY DEF Addr!AddLoop

LEMMA SyncedIs ==
  ASSUME CmdTypes, NEW c \in Cts, NEW p \in BOOLEAN,
         addrSynced' = [addrSynced EXCEPT ![c] = p], addrSynced'[c]
  PROVE  p
BY DEF CmdTypes

\* The addresses that a request removes, and what the request begins.
ToRemove(c, r, list) == Addr!Fixed(r, list) \union (IF r.all THEN Addr!IpsOf(c) ELSE {})
Command(r, list) ==
  [add |-> r.add, del |-> Addr!Fixed(r, list), all |-> r.all, save |-> r.save, seen |-> list,
   op |-> "set"]
Invokes(c, r, list) ==
  /\ addrCmd' = [addrCmd EXCEPT ![c] = Command(r, list)]
  /\ gone' = [gone EXCEPT ![c] = ToRemove(c, r, list)]
  /\ addrSynced' = [addrSynced EXCEPT ![c] = list = addrConf[c] /\ Addr!IpsOf(c) = addrConf[c]]
  /\ \/ c \notin addrRunning /\ Addr!Turn(c, "save", {})
     \/ c \in addrRunning /\ ToRemove(c, r, list) # {} /\ Addr!Turn(c, "del", ToRemove(c, r, list))
     \/ c \in addrRunning /\ ToRemove(c, r, list) = {} /\ Addr!Turn(c, Addr!AddLoop(r.add), r.add)

LEMMA AddrTypes1 ==
  ASSUME AddrTypes, NEW c \in Cts, 
         Addr!Parse(c) \/ Addr!Invoke(c) \/ Addr!DelFails(c) \/ Addr!RouteFails(c) \/ Addr!Rest(c)
          \/ Addr!Save(c) \/ Addr!End(c) \/ Addr!Start(c) \/ Addr!GetIps(c)
           \/ Addr!Stop(c) \/ Addr!Killed(c)
  PROVE  AddrTypes'
<1> USE DEF AddrTypes
<1>0. CASE Addr!Parse(c)
  <2>1. {addrConf[c]} \in SUBSET SUBSET Names
    BY DEF KernTypes
  <2>2. KernTypes'
    BY <1>0, <2>1 DEF Addr!Parse, KernTypes
  <2> QED
    BY <1>0, <2>2 DEF Addr!Parse, Addr!proc, LoopTypes, CmdTypes
<1>1. CASE Addr!Invoke(c)
  <2>1. KernTypes'
    BY <1>1 DEF Addr!Invoke, Addr!Lock, KernTypes
  <2>2. PICK r \in IpRequests, list \in SUBSET Names : Invokes(c, r, list)
    BY <1>1 DEF Addr!Invoke, Invokes, Command, ToRemove
  <2>3. /\ r.add \subseteq Names /\ r.del \subseteq Names
        /\ r.all \in BOOLEAN /\ r.save \in BOOLEAN
        /\ Addr!Fixed(r, list) \subseteq Names /\ ToRemove(c, r, list) \subseteq Names
    BY RequestsAssumption DEF Addr!Fixed, ToRemove, Addr!IpsOf, KernTypes
  <2>4. LoopTypes'
    <3>1. /\ gone' \in [Cts -> SUBSET Names]
          /\ \E to \in AddrSteps, left \in SUBSET Names : Addr!Turn(c, to, left)
      BY <2>2, <2>3, AddLoopStep DEF Invokes, AddrSteps, LoopTypes
    <3> QED
      BY <3>1 DEF Addr!Turn, LoopTypes
  <2>5. CmdTypes'
    <3>1. Command(r, list) \in IpCommands
      BY <2>3 DEF Command, IpCommands, Ops
    <3> QED
      BY <2>2, <3>1 DEF Invokes, CmdTypes
  <2> QED
    BY <2>1, <2>4, <2>5 DEF AddrTypes
<1>2. CASE Addr!DelFails(c)
  <2>1. KernTypes'
    BY <1>2, CtsAssumption DEF Addr!DelFails, KernTypes, Addr!IpsOf
  <2>2. LoopTypes'
    BY <1>2, TurnTypes DEF Addr!DelFails, AddrSteps, LoopTypes, CmdTypes, IpCommands
  <2>3. CmdTypes'
    BY <1>2 DEF Addr!DelFails, CmdTypes
  <2> QED
    BY <2>1, <2>2, <2>3 DEF AddrTypes
<1>3. CASE Addr!RouteFails(c)
  <2>1. KernTypes'
    BY <1>3, CtsAssumption DEF Addr!RouteFails, KernTypes, Addr!IpsOf
  <2>2. LoopTypes'
    BY <1>3, TurnTypes DEF Addr!RouteFails, AddrSteps, LoopTypes, CmdTypes, IpCommands
  <2>3. CmdTypes'
    BY <1>3 DEF Addr!RouteFails, CmdTypes
  <2> QED
    BY <2>1, <2>2, <2>3 DEF AddrTypes
<1>4. CASE Addr!Rest(c)
  <2>1. KernTypes'
    BY <1>4, CtsAssumption DEF Addr!Rest, KernTypes, Addr!IpsOf
  <2>2. LoopTypes'
    BY <1>4 DEF Addr!Rest, AddrSteps, LoopTypes, CmdTypes, IpCommands, Addr!Goto, Addr!IpsOf
  <2>3. CmdTypes'
    BY <1>4 DEF Addr!Rest, CmdTypes
  <2> QED
    BY <2>1, <2>2, <2>3 DEF AddrTypes
<1>5. CASE Addr!Save(c)
  <2>1. KernTypes'
    BY <1>5 DEF Addr!Save, Addr!Merged, KernTypes, CmdTypes, IpCommands
  <2>2. LoopTypes'
    BY <1>5 DEF Addr!Save, AddrSteps, LoopTypes, CmdTypes, IpCommands, Addr!Goto, Addr!IpsOf
  <2>3. CmdTypes'
    BY <1>5 DEF Addr!Save, CmdTypes
  <2> QED
    BY <2>1, <2>2, <2>3 DEF AddrTypes
<1>6. CASE Addr!End(c)
  <2>1. KernTypes'
    BY <1>6, CtsAssumption DEF Addr!End, KernTypes, Addr!IpsOf
  <2>2. LoopTypes'
    BY <1>6, NoCmdType DEF Addr!End, AddrSteps, LoopTypes, CmdTypes, IpCommands
  <2>3. CmdTypes'
    BY <1>6, NoCmdType DEF Addr!End, CmdTypes
  <2> QED
    BY <2>1, <2>2, <2>3 DEF AddrTypes
<1>7. CASE Addr!Start(c)
  <2>1. KernTypes'
    BY <1>7, CtsAssumption DEF Addr!Start, Addr!Lock, KernTypes, Addr!IpsOf
  <2>2. LoopTypes'
    <3>1. \A list \in SUBSET Names : Addr!AddLoop(list) \in AddrSteps
      BY AddLoopStep DEF AddrSteps
    <3>2. PICK list \in SUBSET Names : Addr!Turn(c, Addr!AddLoop(list), list) /\ UNCHANGED gone
      BY <1>7 DEF Addr!Start
    <3> QED
      BY <3>1, <3>2, TurnTypes
  <2>3. CmdTypes'
    <3>1. \A list \in SUBSET Names :
            [Addr!NoCmd EXCEPT !.add = list, !.op = "start"] \in IpCommands
      BY DEF Addr!NoCmd, IpCommands, Ops
    <3> QED
      BY <1>7, <3>1 DEF Addr!Start, CmdTypes
  <2> QED
    BY <2>1, <2>2, <2>3 DEF AddrTypes
<1>8. CASE Addr!GetIps(c)
  <2>1. KernTypes'
    BY <1>8, CtsAssumption DEF Addr!GetIps, KernTypes, Addr!IpsOf
  <2>2. LoopTypes'
    BY <1>8 DEF Addr!GetIps, AddrSteps, LoopTypes, CmdTypes, IpCommands, Addr!Goto,
       Addr!IpsOf
  <2>3. CmdTypes'
    BY <1>8 DEF Addr!GetIps, CmdTypes
  <2> QED
    BY <2>1, <2>2, <2>3 DEF AddrTypes
<1>9. CASE Addr!Stop(c)
  <2>1. KernTypes'
    BY <1>9, CtsAssumption DEF Addr!Stop, KernTypes, Addr!IpsOf
  <2>2. LoopTypes'
    BY <1>9, TurnTypes DEF Addr!Stop, AddrSteps, LoopTypes, CmdTypes, IpCommands
  <2>3. CmdTypes'
    BY <1>9 DEF Addr!Stop, CmdTypes
  <2> QED
    BY <2>1, <2>2, <2>3 DEF AddrTypes
<1>10. CASE Addr!Killed(c)
  <2>1. KernTypes'
    BY <1>10, CtsAssumption DEF Addr!Killed, KernTypes, Addr!IpsOf
  <2>2. LoopTypes'
    BY <1>10, NoCmdType DEF Addr!Killed, AddrSteps, LoopTypes, CmdTypes, IpCommands
  <2>3. CmdTypes'
    BY <1>10, NoCmdType DEF Addr!Killed, CmdTypes
  <2> QED
    BY <2>1, <2>2, <2>3 DEF AddrTypes
<1> QED
  BY <1>0, <1>1, <1>2, <1>3, <1>4, <1>5, <1>6, <1>7, <1>8, <1>9, <1>10

LEMMA AddrTypes2 ==
  ASSUME AddrTypes, NEW c \in Cts, NEW i \in Names,
         Addr!DelKernel(c, i) \/ Addr!Unroute(c, i) \/ Addr!AddKernel(c, i)
          \/ Addr!AddFails(c, i) \/ Addr!Route(c, i)
  PROVE  AddrTypes'
<1> USE DEF AddrTypes
<1>1. CASE Addr!DelKernel(c, i)
  <2>1. KernTypes'
    BY <1>1, CtsAssumption DEF Addr!DelKernel, KernTypes, Addr!IpsOf
  <2>2. LoopTypes'
    <3>1. "unroute" \in AddrSteps /\ gone[c] \in SUBSET Names
      BY DEF AddrSteps, LoopTypes, CmdTypes, IpCommands
    <3> QED
      BY <1>1, <3>1, TickTypes DEF Addr!DelKernel
  <2>3. CmdTypes'
    BY <1>1 DEF Addr!DelKernel, CmdTypes
  <2> QED
    BY <2>1, <2>2, <2>3 DEF AddrTypes
<1>2. CASE Addr!Unroute(c, i)
  <2>1. KernTypes'
    BY <1>2, CtsAssumption DEF Addr!Unroute, KernTypes, Addr!IpsOf
  <2>2. LoopTypes'
    <3>1. /\ Addr!AddLoop(addrCmd[c].add) \in AddrSteps /\ addrCmd[c].add \in SUBSET Names
          /\ "done" \in AddrSteps /\ {} \in SUBSET Names
      BY AddLoopStep DEF AddrSteps, CmdTypes, IpCommands
    <3> QED
      BY <1>2, <3>1, TickTypes DEF Addr!Unroute
  <2>3. CmdTypes'
    BY <1>2 DEF Addr!Unroute, CmdTypes
  <2> QED
    BY <2>1, <2>2, <2>3 DEF AddrTypes
<1>3. CASE Addr!AddKernel(c, i)
  <2>1. KernTypes'
    BY <1>3, CtsAssumption DEF Addr!AddKernel, KernTypes, Addr!IpsOf
  <2>2. LoopTypes'
    <3>1. "route" \in AddrSteps /\ addrCmd[c].add \in SUBSET Names
      BY DEF AddrSteps, LoopTypes, CmdTypes, IpCommands
    <3> QED
      BY <1>3, <3>1, TickTypes DEF Addr!AddKernel
  <2>3. CmdTypes'
    BY <1>3 DEF Addr!AddKernel, CmdTypes
  <2> QED
    BY <2>1, <2>2, <2>3 DEF AddrTypes
<1>4. CASE Addr!AddFails(c, i)
  <2>1. KernTypes'
    BY <1>4, CtsAssumption DEF Addr!AddFails, KernTypes, Addr!IpsOf
  <2>2. LoopTypes'
    BY <1>4, TurnTypes DEF Addr!AddFails, AddrSteps, LoopTypes, CmdTypes, IpCommands
  <2>3. CmdTypes'
    BY <1>4 DEF Addr!AddFails, CmdTypes
  <2> QED
    BY <2>1, <2>2, <2>3 DEF AddrTypes
<1>5. CASE Addr!Route(c, i)
  <2>1. KernTypes'
    BY <1>5, CtsAssumption DEF Addr!Route, KernTypes, Addr!IpsOf
  <2>2. LoopTypes'
    <3>1. "rest" \in AddrSteps /\ {} \in SUBSET Names
      BY DEF AddrSteps, LoopTypes, CmdTypes, IpCommands
    <3> QED
      BY <1>5, <3>1, TickTypes DEF Addr!Route
  <2>3. CmdTypes'
    BY <1>5 DEF Addr!Route, CmdTypes
  <2> QED
    BY <2>1, <2>2, <2>3 DEF AddrTypes
<1> QED
  BY <1>1, <1>2, <1>3, <1>4, <1>5

\* The vzctl of d does nothing, and the kernel gives d the same addresses.
Same(d) ==
  /\ addrPc'[d] = addrPc[d] /\ addrCmd'[d] = addrCmd[d] /\ addrTodo'[d] = addrTodo[d]
  /\ gone'[d] = gone[d] /\ addrSynced'[d] = addrSynced[d] /\ addrConf'[d] = addrConf[d]
  /\ d \in addrRunning' <=> d \in addrRunning
  /\ Addr!IpsOf(d)' = Addr!IpsOf(d)
  /\ (routes \union foreign) \cap Addr!IpsOf(d) \subseteq routes' \union foreign'

LEMMA SameInv ==
  ASSUME NEW d, Same(d), LoopInvOf(d), RouteInvOf(d), OwnInvOf(d)
  PROVE  LoopInvOf(d)' /\ RouteInvOf(d)' /\ OwnInvOf(d)'
<1>1. LoopInvOf(d)' /\ RouteInvOf(d)'
  BY DEF Same, LoopInvOf, RouteInvOf, Changing, Adding
<1>2. OwnInvOf(d)'
  BY DEF Same, OwnInvOf, Saving
<1> QED
  BY <1>1, <1>2

\* What Start gives.
Starting == [Addr!NoCmd EXCEPT !.op = "start"]
Started(c, list) ==
  /\ c \notin addrRunning /\ addrRunning' = addrRunning \union {c}
  /\ addrCmd' = [addrCmd EXCEPT ![c] = [Starting EXCEPT !.add = list]]
  /\ Addr!Turn(c, Addr!AddLoop(list), list)
  /\ UNCHANGED <<addrConf, addrKern, routes, foreign, gone, addrSynced>>

LEMMA StartIs ==
  ASSUME NEW c \in Cts, Addr!Start(c)
  PROVE  \E list \in SUBSET Names : Started(c, list)
<1>1. PICK list \in SUBSET Names :
        /\ c \notin addrRunning /\ addrRunning' = addrRunning \union {c}
        /\ addrCmd' = [addrCmd EXCEPT ![c] = [Addr!NoCmd EXCEPT !.add = list, !.op = "start"]]
        /\ Addr!Turn(c, Addr!AddLoop(list), list)
        /\ UNCHANGED <<addrConf, addrKern, routes, foreign, gone, addrSynced>>
  BY DEF Addr!Start
<1>2. [Addr!NoCmd EXCEPT !.add = list, !.op = "start"] = [Starting EXCEPT !.add = list]
  BY DEF Addr!NoCmd, Starting
<1> QED
  BY <1>1, <1>2, Zenon DEF Started

LEMMA AddrSame1 ==
  ASSUME AddrTypes, NEW c \in Cts, NEW d \in Cts, d # c,
         Addr!Parse(c) \/ Addr!Invoke(c) \/ Addr!DelFails(c) \/ Addr!RouteFails(c) \/ Addr!Rest(c)
          \/ Addr!Save(c) \/ Addr!End(c) \/ Addr!Start(c) \/ Addr!GetIps(c)
           \/ Addr!Stop(c) \/ Addr!Killed(c)
  PROVE  Same(d)
<1> USE CtsAssumption, RequestsAssumption
<1> USE DEF AddrTypes, KernTypes, LoopTypes, CmdTypes
<1> USE DEF Addr!Goto, Addr!Turn, Addr!Tick, Addr!AddLoop, Addr!IpsOf, Same
<1>0. CASE Addr!Parse(c)
  BY <1>0 DEF Addr!Parse, Addr!proc
<1>1. CASE Addr!Invoke(c)
  BY <1>1 DEF Addr!Invoke
<1>2. CASE Addr!DelFails(c)
  BY <1>2 DEF Addr!DelFails
<1>3. CASE Addr!RouteFails(c)
  BY <1>3 DEF Addr!RouteFails
<1>4. CASE Addr!Rest(c)
  BY <1>4 DEF Addr!Rest
<1>5. CASE Addr!Save(c)
  BY <1>5 DEF Addr!Save
<1>6. CASE Addr!End(c)
  BY <1>6 DEF Addr!End
<1>7. CASE Addr!Start(c)
  <2>1. PICK list \in SUBSET Names : Started(c, list)
    BY <1>7, StartIs
  <2> QED
    BY <2>1 DEF Started
<1>8. CASE Addr!GetIps(c)
  BY <1>8 DEF Addr!GetIps
<1>9. CASE Addr!Stop(c)
  BY <1>9 DEF Addr!Stop
<1>10. CASE Addr!Killed(c)
  BY <1>10 DEF Addr!Killed
<1> QED
  BY <1>0, <1>1, <1>2, <1>3, <1>4, <1>5, <1>6, <1>7, <1>8, <1>9, <1>10

LEMMA AddrSame2 ==
  ASSUME AddrTypes, NEW c \in Cts, NEW d \in Cts, d # c, NEW i \in Names,
         Addr!DelKernel(c, i) \/ Addr!Unroute(c, i) \/ Addr!AddKernel(c, i)
          \/ Addr!AddFails(c, i) \/ Addr!Route(c, i)
  PROVE  Same(d)
<1> USE CtsAssumption, RequestsAssumption
<1> USE DEF AddrTypes, KernTypes, LoopTypes, CmdTypes
<1> USE DEF Addr!Goto, Addr!Turn, Addr!Tick, Addr!AddLoop, Addr!IpsOf, Same
<1>1. CASE Addr!DelKernel(c, i)
  BY <1>1 DEF Addr!DelKernel
<1>2. CASE Addr!Unroute(c, i)
  BY <1>2 DEF Addr!Unroute
<1>3. CASE Addr!AddKernel(c, i)
  BY <1>3 DEF Addr!AddKernel
<1>4. CASE Addr!AddFails(c, i)
  BY <1>4 DEF Addr!AddFails
<1>5. CASE Addr!Route(c, i)
  BY <1>5 DEF Addr!Route
<1> QED
  BY <1>1, <1>2, <1>3, <1>4, <1>5

\* What Invoke gives for c.
Invoked(c, r, list) ==
  /\ addrSynced'[c] => list = addrConf[c] /\ Addr!IpsOf(c) = addrConf[c]
  /\ gone'[c] = ToRemove(c, r, list) /\ addrCmd'[c] = Command(r, list)
  /\ UNCHANGED <<addrConf, addrKern, addrRunning>>
  /\ \/ c \notin addrRunning /\ addrPc'[c] = "save"
     \/ addrPc'[c] = "del" /\ addrTodo'[c] = ToRemove(c, r, list)
     \/ addrPc'[c] = "add" /\ ToRemove(c, r, list) = {} /\ addrTodo'[c] = r.add
     \/ addrPc'[c] = "rest" /\ ToRemove(c, r, list) = {} /\ r.add = {}

LEMMA InvokeIs ==
  ASSUME AddrTypes, NEW c \in Cts, Addr!Invoke(c)
  PROVE  \E r \in IpRequests, list \in SUBSET Names : Invoked(c, r, list)
<1> USE DEF AddrTypes, LoopTypes, CmdTypes
<1>1. PICK r \in IpRequests, list \in SUBSET Names : Invokes(c, r, list)
  BY DEF Addr!Invoke, Invokes, Command, ToRemove
<1>2. addrSynced'[c] => list = addrConf[c] /\ Addr!IpsOf(c) = addrConf[c]
  BY <1>1, SyncedIs, Zenon DEF Invokes
<1>3. gone'[c] = ToRemove(c, r, list) /\ addrCmd'[c] = Command(r, list)
  BY <1>1 DEF Invokes
<1>4. UNCHANGED <<addrConf, addrKern, addrRunning>>
  BY DEF Addr!Invoke
<1>5. \/ c \notin addrRunning /\ addrPc'[c] = "save"
      \/ addrPc'[c] = "del" /\ addrTodo'[c] = ToRemove(c, r, list)
      \/ addrPc'[c] = "add" /\ ToRemove(c, r, list) = {} /\ addrTodo'[c] = r.add
      \/ addrPc'[c] = "rest" /\ ToRemove(c, r, list) = {} /\ r.add = {}
  BY <1>1 DEF Invokes, Addr!Turn, Addr!AddLoop
<1> QED
  BY <1>2, <1>3, <1>4, <1>5 DEF Invoked

LEMMA Loop1 ==
  ASSUME AddrTypes, AddrTypes', NEW c \in Cts, LoopInvOf(c),
         Addr!Parse(c) \/ Addr!Invoke(c) \/ Addr!DelFails(c) \/ Addr!RouteFails(c) \/ Addr!Rest(c)
          \/ Addr!Save(c) \/ Addr!End(c) \/ Addr!Start(c) \/ Addr!GetIps(c)
           \/ Addr!Stop(c) \/ Addr!Killed(c)
  PROVE  LoopInvOf(c)'
<1> USE CtsAssumption, RequestsAssumption
<1> USE DEF LoopInvOf, Changing, AddrTypes, KernTypes, LoopTypes, CmdTypes
<1> USE DEF Addr!Goto, Addr!Turn, Addr!Tick, Addr!AddLoop, Addr!IpsOf
<1>0. CASE Addr!Parse(c)
  BY <1>0 DEF Addr!Parse, Addr!proc
<1>1. CASE Addr!Invoke(c)
  <2>1. PICK r \in IpRequests, list \in SUBSET Names : Invoked(c, r, list)
    BY <1>1, InvokeIs
  <2> QED
    BY <2>1 DEF Invoked, Command, Addr!Fixed, ToRemove
<1>2. CASE Addr!DelFails(c)
  BY <1>2 DEF Addr!DelFails
<1>3. CASE Addr!RouteFails(c)
  BY <1>3 DEF Addr!RouteFails
<1>4. CASE Addr!Rest(c)
  BY <1>4 DEF Addr!Rest
<1>5. CASE Addr!Save(c)
  BY <1>5 DEF Addr!Save, Addr!Merged
<1>6. CASE Addr!End(c)
  BY <1>6 DEF Addr!End, Addr!NoCmd
<1>7. CASE Addr!Start(c)
  <2>1. PICK list \in SUBSET Names : Started(c, list)
    BY <1>7, StartIs
  <2> QED
    BY <2>1 DEF Started, Starting, Addr!NoCmd
<1>8. CASE Addr!GetIps(c)
  BY <1>8 DEF Addr!GetIps
<1>9. CASE Addr!Stop(c)
  BY <1>9 DEF Addr!Stop
<1>10. CASE Addr!Killed(c)
  BY <1>10 DEF Addr!Killed, Addr!NoCmd
<1> QED
  BY <1>0, <1>1, <1>2, <1>3, <1>4, <1>5, <1>6, <1>7, <1>8, <1>9, <1>10

LEMMA Loop2 ==
  ASSUME AddrTypes, AddrTypes', NEW c \in Cts, LoopInvOf(c), NEW i \in Names,
         Addr!DelKernel(c, i) \/ Addr!Unroute(c, i) \/ Addr!AddKernel(c, i)
          \/ Addr!AddFails(c, i) \/ Addr!Route(c, i)
  PROVE  LoopInvOf(c)'
<1> USE CtsAssumption, RequestsAssumption
<1> USE DEF LoopInvOf, Changing, AddrTypes, KernTypes, LoopTypes, CmdTypes
<1> USE DEF Addr!Goto, Addr!Turn, Addr!Tick, Addr!AddLoop, Addr!IpsOf
<1>1. CASE Addr!DelKernel(c, i)
  <2>1. /\ addrPc[c] = "del" /\ i \in addrTodo[c]
        /\ Addr!IpsOf(c)' = Addr!IpsOf(c) \ {i}
        /\ addrCmd'[c] = addrCmd[c] /\ gone'[c] = gone[c] /\ addrSynced'[c] = addrSynced[c]
        /\ addrConf'[c] = addrConf[c] /\ addrRunning' = addrRunning
    BY <1>1 DEF Addr!DelKernel
  <2>2. CASE addrTodo[c] = {i} /\ addrPc'[c] = "unroute"
    BY <2>1, <2>2
  <2>3. CASE addrTodo'[c] = addrTodo[c] \ {i} /\ addrPc'[c] = "del"
    BY <2>1, <2>3
  <2> QED
    BY <1>1, <2>2, <2>3 DEF Addr!DelKernel
<1>2. CASE Addr!Unroute(c, i)
  <2>1. /\ addrPc[c] \in {"unroute", "stopped"} /\ Addr!IpsOf(c)' = Addr!IpsOf(c)
        /\ addrCmd'[c] = addrCmd[c] /\ gone'[c] = gone[c] /\ addrSynced'[c] = addrSynced[c]
        /\ addrConf'[c] = addrConf[c] /\ addrRunning' = addrRunning
    BY <1>2 DEF Addr!Unroute
  <2>2. CASE addrPc[c] = "stopped"
    BY <1>2, <2>1, <2>2 DEF Addr!Unroute, Addr!NoCmd
  <2>3. CASE addrPc[c] = "unroute" /\ addrPc'[c] = "unroute"
    BY <2>1, <2>3
  <2>4. CASE addrPc[c] = "unroute" /\ addrPc'[c] = "add" /\ addrTodo'[c] = addrCmd[c].add
    BY <2>1, <2>4
  <2>5. CASE addrPc[c] = "unroute" /\ addrPc'[c] = "rest" /\ addrCmd[c].add = {}
    BY <2>1, <2>5
  <2> QED
    BY <1>2, <2>1, <2>2, <2>3, <2>4, <2>5 DEF Addr!Unroute
<1>3. CASE Addr!AddKernel(c, i)
  <2>1. /\ addrPc[c] = "add" /\ i \in addrTodo[c]
        /\ Addr!IpsOf(c)' = Addr!IpsOf(c) \union {i}
        /\ addrCmd'[c] = addrCmd[c] /\ gone'[c] = gone[c] /\ addrSynced'[c] = addrSynced[c]
        /\ addrConf'[c] = addrConf[c] /\ addrRunning' = addrRunning
    BY <1>3 DEF Addr!AddKernel
  <2>2. CASE addrTodo[c] = {i} /\ addrPc'[c] = "route"
    BY <2>1, <2>2
  <2>3. CASE addrTodo'[c] = addrTodo[c] \ {i} /\ addrPc'[c] = "add"
    BY <2>1, <2>3
  <2> QED
    BY <1>3, <2>2, <2>3 DEF Addr!AddKernel
<1>4. CASE Addr!AddFails(c, i)
  BY <1>4 DEF Addr!AddFails
<1>5. CASE Addr!Route(c, i)
  BY <1>5 DEF Addr!Route
<1> QED
  BY <1>1, <1>2, <1>3, <1>4, <1>5

LEMMA Route1 ==
  ASSUME AddrTypes, AddrTypes', NEW c \in Cts, LoopInvOf(c), RouteInvOf(c),
         Addr!Parse(c) \/ Addr!Invoke(c) \/ Addr!DelFails(c) \/ Addr!RouteFails(c) \/ Addr!Rest(c)
          \/ Addr!Save(c) \/ Addr!End(c) \/ Addr!Start(c) \/ Addr!GetIps(c)
           \/ Addr!Stop(c) \/ Addr!Killed(c)
  PROVE  RouteInvOf(c)'
<1> USE CtsAssumption, RequestsAssumption
<1> USE DEF RouteInvOf, Adding, AddrTypes, KernTypes, LoopTypes, CmdTypes
<1> USE DEF Addr!Goto, Addr!Turn, Addr!Tick, Addr!AddLoop, Addr!IpsOf
<1>0. CASE Addr!Parse(c)
  BY <1>0 DEF Addr!Parse, Addr!proc
<1>1. CASE Addr!Invoke(c)
  <2>1. PICK r \in IpRequests, list \in SUBSET Names : Invoked(c, r, list)
    BY <1>1, InvokeIs
  <2> QED
    BY <2>1 DEF Invoked, Command
<1>2. CASE Addr!DelFails(c)
  BY <1>2 DEF Addr!DelFails
<1>3. CASE Addr!RouteFails(c)
  BY <1>3 DEF Addr!RouteFails
<1>4. CASE Addr!Rest(c)
  BY <1>4 DEF Addr!Rest
<1>5. CASE Addr!Save(c)
  BY <1>5 DEF Addr!Save
<1>6. CASE Addr!End(c)
  BY <1>6 DEF Addr!End
<1>7. CASE Addr!Start(c)
  <2>1. PICK list \in SUBSET Names : Started(c, list)
    BY <1>7, StartIs
  <2> QED
    BY <2>1 DEF Started, Starting, Addr!NoCmd
<1>8. CASE Addr!GetIps(c)
  BY <1>8 DEF Addr!GetIps
<1>9. CASE Addr!Stop(c)
  BY <1>9 DEF Addr!Stop
<1>10. CASE Addr!Killed(c)
  BY <1>10 DEF Addr!Killed
<1> QED
  BY <1>0, <1>1, <1>2, <1>3, <1>4, <1>5, <1>6, <1>7, <1>8, <1>9, <1>10

LEMMA Route2 ==
  ASSUME AddrTypes, AddrTypes', NEW c \in Cts, LoopInvOf(c), RouteInvOf(c), NEW i \in Names,
         Addr!DelKernel(c, i) \/ Addr!Unroute(c, i) \/ Addr!AddKernel(c, i)
          \/ Addr!AddFails(c, i) \/ Addr!Route(c, i)
  PROVE  RouteInvOf(c)'
<1> USE CtsAssumption, RequestsAssumption
<1> USE DEF RouteInvOf, Adding, AddrTypes, KernTypes, LoopTypes, CmdTypes
<1> USE DEF Addr!Goto, Addr!Turn, Addr!Tick, Addr!AddLoop, Addr!IpsOf
<1>1. CASE Addr!DelKernel(c, i)
  BY <1>1 DEF Addr!DelKernel
<1>2. CASE Addr!Unroute(c, i)
  <2>1. /\ addrPc[c] \in {"unroute", "stopped"} /\ Addr!IpsOf(c)' = Addr!IpsOf(c)
        /\ addrCmd'[c] = addrCmd[c] /\ gone'[c] = gone[c] /\ addrSynced'[c] = addrSynced[c]
        /\ addrConf'[c] = addrConf[c] /\ addrRunning' = addrRunning
    BY <1>2 DEF Addr!Unroute
  <2>2. addrPc[c] = "stopped" => ~Adding(c)'
    BY <2>1 DEF LoopInvOf, Addr!NoCmd
  <2>3. addrPc[c] = "unroute" =>
          \/ addrPc'[c] = "unroute"
          \/ addrPc'[c] = "add" /\ addrTodo'[c] = addrCmd[c].add
          \/ addrPc'[c] = "rest" /\ addrCmd[c].add = {}
    BY <1>2 DEF Addr!Unroute
  <2> QED
    BY <2>1, <2>2, <2>3
<1>3. CASE Addr!AddKernel(c, i)
  BY <1>3 DEF Addr!AddKernel
<1>4. CASE Addr!AddFails(c, i)
  BY <1>4 DEF Addr!AddFails
<1>5. CASE Addr!Route(c, i)
  BY <1>5 DEF Addr!Route
<1> QED
  BY <1>1, <1>2, <1>3, <1>4, <1>5

LEMMA Own1 ==
  ASSUME AddrTypes, AddrTypes', NEW c \in Cts, LoopInvOf(c), OwnInvOf(c),
         Addr!Parse(c) \/ Addr!Invoke(c) \/ Addr!DelFails(c) \/ Addr!RouteFails(c) \/ Addr!Rest(c)
          \/ Addr!Save(c) \/ Addr!End(c) \/ Addr!Start(c) \/ Addr!GetIps(c)
           \/ Addr!Stop(c) \/ Addr!Killed(c)
  PROVE  OwnInvOf(c)'
<1> USE CtsAssumption, RequestsAssumption
<1> USE DEF OwnInvOf, Saving, AddrTypes, KernTypes, LoopTypes, CmdTypes
<1> USE DEF Addr!Goto, Addr!Turn, Addr!Tick, Addr!AddLoop, Addr!IpsOf
<1>0. CASE Addr!Parse(c)
  BY <1>0 DEF Addr!Parse, Addr!proc
<1>1. CASE Addr!Invoke(c)
  <2>1. PICK r \in IpRequests, list \in SUBSET Names : Invoked(c, r, list)
    BY <1>1, InvokeIs
  <2> QED
    BY <2>1 DEF Invoked, Command, ToRemove
<1>2. CASE Addr!DelFails(c)
  BY <1>2 DEF Addr!DelFails
<1>3. CASE Addr!RouteFails(c)
  BY <1>3 DEF Addr!RouteFails
<1>4. CASE Addr!Rest(c)
  BY <1>4 DEF Addr!Rest, LoopInvOf
<1>5. CASE Addr!Save(c)
  BY <1>5 DEF Addr!Save, Addr!Merged
<1>6. CASE Addr!End(c)
  BY <1>6 DEF Addr!End, Addr!NoCmd
<1>7. CASE Addr!Start(c)
  <2>1. PICK list \in SUBSET Names : Started(c, list)
    BY <1>7, StartIs
  <2> QED
    BY <2>1 DEF Started, Starting, Addr!NoCmd
<1>8. CASE Addr!GetIps(c)
  BY <1>8 DEF Addr!GetIps
<1>9. CASE Addr!Stop(c)
  BY <1>9 DEF Addr!Stop, LoopInvOf, Addr!NoCmd
<1>10. CASE Addr!Killed(c)
  BY <1>10 DEF Addr!Killed, Addr!NoCmd
<1> QED
  BY <1>0, <1>1, <1>2, <1>3, <1>4, <1>5, <1>6, <1>7, <1>8, <1>9, <1>10

LEMMA Own2 ==
  ASSUME AddrTypes, AddrTypes', NEW c \in Cts, LoopInvOf(c), OwnInvOf(c), NEW i \in Names,
         Addr!DelKernel(c, i) \/ Addr!Unroute(c, i) \/ Addr!AddKernel(c, i)
          \/ Addr!AddFails(c, i) \/ Addr!Route(c, i)
  PROVE  OwnInvOf(c)'
<1> USE CtsAssumption, RequestsAssumption
<1> USE DEF OwnInvOf, Saving, AddrTypes, KernTypes, LoopTypes, CmdTypes
<1> USE DEF Addr!Goto, Addr!Turn, Addr!Tick, Addr!AddLoop, Addr!IpsOf
<1>1. CASE Addr!DelKernel(c, i)
  <2>1. /\ addrPc[c] = "del" /\ i \in addrTodo[c]
        /\ Addr!IpsOf(c)' = Addr!IpsOf(c) \ {i}
        /\ addrCmd'[c] = addrCmd[c] /\ gone'[c] = gone[c] /\ addrRunning' = addrRunning
    BY <1>1 DEF Addr!DelKernel
  <2>2. CASE addrTodo[c] = {i} /\ addrPc'[c] = "unroute"
    BY <2>1, <2>2
  <2>3. CASE addrTodo'[c] = addrTodo[c] \ {i} /\ addrPc'[c] = "del"
    BY <2>1, <2>3
  <2> QED
    BY <1>1, <2>2, <2>3 DEF Addr!DelKernel
<1>2. CASE Addr!Unroute(c, i)
  <2>1. /\ addrPc[c] \in {"unroute", "stopped"} /\ Addr!IpsOf(c)' = Addr!IpsOf(c)
        /\ addrCmd'[c] = addrCmd[c] /\ gone'[c] = gone[c] /\ addrRunning' = addrRunning
    BY <1>2 DEF Addr!Unroute
  <2>2. addrPc[c] = "stopped" => ~Saving(c)'
    BY <2>1 DEF LoopInvOf, Addr!NoCmd
  <2>3. addrPc[c] = "unroute" =>
          \/ addrPc'[c] = "unroute"
          \/ addrPc'[c] = "add" /\ addrTodo'[c] = addrCmd[c].add
          \/ addrPc'[c] = "rest" /\ addrCmd[c].add = {}
    BY <1>2 DEF Addr!Unroute
  <2> QED
    BY <2>1, <2>2, <2>3
<1>3. CASE Addr!AddKernel(c, i)
  <2>1. /\ addrPc[c] = "add" /\ i \in addrTodo[c]
        /\ Addr!IpsOf(c)' = Addr!IpsOf(c) \union {i}
        /\ addrCmd'[c] = addrCmd[c] /\ gone'[c] = gone[c] /\ addrRunning' = addrRunning
    BY <1>3 DEF Addr!AddKernel
  <2>2. CASE addrTodo[c] = {i} /\ addrPc'[c] = "route"
    BY <2>1, <2>2
  <2>3. CASE addrTodo'[c] = addrTodo[c] \ {i} /\ addrPc'[c] = "add"
    BY <2>1, <2>3
  <2> QED
    BY <1>3, <2>2, <2>3 DEF Addr!AddKernel
<1>4. CASE Addr!AddFails(c, i)
  BY <1>4 DEF Addr!AddFails
<1>5. CASE Addr!Route(c, i)
  BY <1>5 DEF Addr!Route
<1> QED
  BY <1>1, <1>2, <1>3, <1>4, <1>5

LEMMA AddrInit == Addr!Init => AddrInv
BY CtsAssumption, NoCmdType
   DEF Addr!Init, AddrInv, AddrTypes, KernTypes, LoopTypes, CmdTypes, AddrSteps, LoopInvOf,
       RouteInvOf, OwnInvOf, Changing, Adding, Saving, Addr!NoCmd

LEMMA AddrStep == AddrInv /\ [Addr!Next]_addrVars => AddrInv'
<1> SUFFICES ASSUME AddrInv, [Addr!Next]_addrVars PROVE AddrInv'
  OBVIOUS
<1> USE DEF AddrInv
<1>1. CASE UNCHANGED addrVars
  <2>1. AddrTypes'
    BY <1>1 DEF addrVars, AddrTypes, KernTypes, LoopTypes, CmdTypes
  <2>2. \A d \in Cts : Same(d)
    BY <1>1 DEF addrVars, Same, Addr!IpsOf
  <2> QED
    BY <2>1, <2>2, SameInv
<1>2. ASSUME NEW c \in Cts,
             Addr!Parse(c) \/ Addr!Invoke(c) \/ Addr!DelFails(c) \/ Addr!RouteFails(c)
              \/ Addr!Rest(c) \/ Addr!Save(c) \/ Addr!End(c) \/ Addr!Start(c)
               \/ Addr!GetIps(c) \/ Addr!Stop(c) \/ Addr!Killed(c)
      PROVE  AddrInv'
  <2>1. AddrTypes'
    BY <1>2, AddrTypes1
  <2>2. LoopInvOf(c)' /\ RouteInvOf(c)'
    BY <1>2, <2>1, Loop1, Route1
  <2>4. OwnInvOf(c)'
    BY <1>2, <2>1, Own1
  <2>3. ASSUME NEW d \in Cts, d # c PROVE LoopInvOf(d)' /\ RouteInvOf(d)' /\ OwnInvOf(d)'
    BY <1>2, <2>3, AddrSame1, SameInv
  <2> QED
    BY <2>1, <2>2, <2>3, <2>4
<1>3. ASSUME NEW c \in Cts, NEW i \in Names,
             Addr!DelKernel(c, i) \/ Addr!Unroute(c, i) \/ Addr!AddKernel(c, i)
              \/ Addr!AddFails(c, i) \/ Addr!Route(c, i)
      PROVE  AddrInv'
  <2>1. AddrTypes'
    BY <1>3, AddrTypes2
  <2>2. LoopInvOf(c)' /\ RouteInvOf(c)'
    BY <1>3, <2>1, Loop2, Route2
  <2>4. OwnInvOf(c)'
    BY <1>3, <2>1, Own2
  <2>3. ASSUME NEW d \in Cts, d # c PROVE LoopInvOf(d)' /\ RouteInvOf(d)' /\ OwnInvOf(d)'
    BY <1>3, <2>3, AddrSame2, SameInv
  <2> QED
    BY <2>1, <2>2, <2>3, <2>4
<1> QED
  BY <1>1, <1>2, <1>3 DEF Addr!Next

\* HostSpec runs Addresses, or leaves it in its initial state.
LEMMA AddrPart == HostSpec => []AddrInv
<1>1. HostInit => AddrInv
  BY AddrInit DEF HostInit
<1>2. AddrInv /\ [HostNext]_allVars => AddrInv'
  <2>1. [HostNext]_allVars => [Addr!Next]_addrVars
    BY DEF HostNext, SnapNext, DevNext, AddrNext, ListNext, allVars, addrVars
  <2> QED
    BY <2>1, AddrStep
<1> QED
  BY <1>1, <1>2, PTL DEF HostSpec

(* What vzctl set saves is what the container has, and what it adds has    *)
(* its route, for any containers, addresses and requests, whatever the     *)
(* vzctl of other containers do with these addresses.  The command that    *)
(* works with a list older than the last save is still right about what it *)
(* adds and removes itself (AddressesApplied).                             *)
THEOREM AddressesAreApplied == HostSpec => []AddressesApplied
<1>1. AddrInv => AddressesApplied
  <2> SUFFICES ASSUME AddrInv PROVE Addr!AddressesApplied
    BY DEF AddressesApplied
  <2> USE DEF AddrInv, AddrTypes, KernTypes
  <2>1. Addr!SavedAddressesApplied
    BY DEF LoopInvOf, Changing, Addr!SavedAddressesApplied
  <2>2. Addr!OwnAddressesApplied
    BY DEF LoopInvOf, RouteInvOf, Adding, OwnInvOf, Saving, Addr!OwnAddressesApplied
  <2>3. Addr!AddedAddressesRouted
    BY DEF RouteInvOf, Adding, Addr!AddedAddressesRouted
  <2> QED
    BY <2>1, <2>2, <2>3 DEF Addr!AddressesApplied
<1> QED
  BY <1>1, AddrPart, PTL

-----------------------------------------------------------------------------
(***************************************************************************)
(* Listing: what vzlist tells of the containers.                           *)
(***************************************************************************)

ListSteps == {"idle", "conf", "veids", "ips", "proc", "ub", "param", "private", "dump",
              "mounted", "print"}
Statuses == {"running", "mounted", "suspended", "stopped"}
Elems == [n : 0..2, status : Statuses, hide : BOOLEAN, ubc : {"none", "kernel", "conf"}]
States == {"running", "mounted", "unmounted", "dump"}
BeforeVeids == {"idle", "conf", "veids"}
AfterVeids == {"ub", "param", "private", "dump", "mounted", "print"}
StatusSteps == {"private", "dump", "mounted"}

\* The types of Listing, with those of its ghosts.
WorldTypes ==
  /\ run \subseteq mnt /\ mnt \subseteq priv /\ priv \subseteq Cts
  /\ listConf \subseteq Cts /\ dump \subseteq Cts
  /\ seen \in [Cts -> SUBSET States] /\ steady \subseteq run /\ broken \in BOOLEAN
ReaderTypes ==
  /\ opt \in {"run", "all", "stopped", "ids"} /\ ids \subseteq Cts
  /\ listPc \in ListSteps /\ listTodo \subseteq Cts /\ cur \subseteq Cts
  /\ listPc \in {"ips", "proc"} => listTodo \subseteq ids
  /\ listPc = "conf" => opt # "run"
  /\ listPc = "print" => listTodo = {}
  /\ IF listPc \in {"dump", "mounted"} THEN \E c \in Cts : cur = {c} ELSE cur = {}
  /\ listPc \in BeforeVeids \union {"ips"} => ~broken
ElemTypes == veinfo \in [Cts -> Elems]

\* The container was at rest at a moment while vzlist ran.
AtRest(c) == seen[c] \cap {"mounted", "unmounted"} # {}

(* What is seen.  What a container is now has been seen, and one that was  *)
(* at rest and is mounted now was mounted without running in between: the  *)
(* mount precedes the start.  One that ran all the time was never at rest. *)
SeenOf(c) ==
  listPc # "idle" =>
    /\ List!Is(c) \subseteq seen[c]
    /\ AtRest(c) /\ c \in mnt => "mounted" \in seen[c]
    /\ AtRest(c) => c \notin steady

\* What is known of each element before vzlist looks at the files.
ElemOf(c) ==
  /\ listPc = "idle" => veinfo[c] = List!NoElem
  /\ listPc \in BeforeVeids => veinfo[c].status = "stopped" /\ veinfo[c].ubc = "none"
  /\ listPc \notin StatusSteps \union {"print"} =>
       veinfo[c].status \in {"stopped", "running"} /\ ~veinfo[c].hide
  /\ veinfo[c].n > 0 => c \in ids
  /\ veinfo[c].status = "running" =>
       veinfo[c].n > 0 /\ ~veinfo[c].hide /\ "running" \in seen[c]

\* Every container is added once, unless the second source repeats the first.
CountOf(c) ==
  /\ veinfo[c].n <= 1 \/ (broken /\ opt = "run")
  /\ listPc \in BeforeVeids /\ opt = "run" => veinfo[c].n = 0
  /\ listPc = "conf" /\ c \in listTodo => veinfo[c].n = 0
  /\ listPc \in {"ips", "proc"} /\ opt = "run" /\ c \in listTodo =>
       veinfo[c].n = 0 \/ (broken /\ veinfo[c].n = 1)

(* A container that is not taken for running was at rest when vzlist asked *)
(* for it; one that runs all the time is not missed.                       *)
RunOf(c) ==
  /\ listPc \in {"ips", "proc"} /\ c \in ids \ listTodo /\ veinfo[c].status # "running" =>
       AtRest(c)
  /\ listPc \in AfterVeids /\ c \in ids /\ veinfo[c].status # "running" => AtRest(c)
  /\ listPc \in AfterVeids /\ c \in steady \cap ids /\ opt # "stopped" =>
       veinfo[c].ubc = "kernel" \/ (listPc = "ub" /\ c \in listTodo)

\* The status of the element was that of the container at a moment.
TrueStatus(c) ==
  CASE veinfo[c].status = "running"   -> "running" \in seen[c]
    [] veinfo[c].status = "mounted"   -> "mounted" \in seen[c]
    [] veinfo[c].status = "suspended" -> {"unmounted", "dump"} \subseteq seen[c]
    [] OTHER                          -> "unmounted" \in seen[c]

\* get_mounted_status() goes from container to container, and reads two files of each.
StatusOf(c) ==
  /\ c \in cur => c \notin listTodo
  /\ listPc = "dump" /\ c \in cur => veinfo[c].status = "stopped"
  /\ listPc = "mounted" /\ c \in cur =>
       veinfo[c].status = "stopped"
        \/ (veinfo[c].status = "suspended" /\ "dump" \in seen[c])
  /\ listPc \in StatusSteps /\ c \in listTodo =>
       veinfo[c].status \in {"stopped", "running"} /\ ~veinfo[c].hide
  /\ listPc \in StatusSteps \union {"print"} /\ c \notin listTodo \union cur
       /\ veinfo[c].n > 0 => veinfo[c].hide \/ TrueStatus(c)

ListInvOf(c) == SeenOf(c) /\ ElemOf(c) /\ CountOf(c) /\ RunOf(c) /\ StatusOf(c)
ListInv == WorldTypes /\ ReaderTypes /\ ElemTypes /\ \A c \in Cts : ListInvOf(c)

\* While the containers change, more is seen and less of it is steady.
Grows(d) == seen[d] \subseteq seen'[d] /\ (d \in steady' => d \in steady)

LEMMA WorldChanges ==
  ASSUME WorldTypes, ReaderTypes, NEW c \in Cts,
         \A d \in Cts : SeenOf(d),
         List!Create(c) \/ List!Mount(c) \/ List!Start(c) \/ List!Suspend(c)
          \/ List!DropDump(c) \/ List!Halt(c) \/ List!Umount(c) \/ List!Destroy(c)
  PROVE  WorldTypes' /\ ReaderTypes' /\ UNCHANGED <<opt, ids, listPc, listTodo, cur, veinfo, broken>>
         /\ \A d \in Cts : SeenOf(d)' /\ Grows(d)
<1> USE DEF WorldTypes, ReaderTypes, States, SeenOf, AtRest, Grows
<1> USE DEF List!Is, List!Changed, List!world, List!reader
<1>1. CASE List!Create(c)
  BY <1>1 DEF List!Create
<1>2. CASE List!Mount(c)
  BY <1>2 DEF List!Mount
<1>3. CASE List!Start(c)
  BY <1>3 DEF List!Start
<1>4. CASE List!Suspend(c)
  BY <1>4 DEF List!Suspend
<1>5. CASE List!DropDump(c)
  BY <1>5 DEF List!DropDump
<1>6. CASE List!Halt(c)
  BY <1>6 DEF List!Halt
<1>7. CASE List!Umount(c)
  BY <1>7 DEF List!Umount
<1>8. CASE List!Destroy(c)
  BY <1>8 DEF List!Destroy
<1> QED
  BY <1>1, <1>2, <1>3, <1>4, <1>5, <1>6, <1>7, <1>8

LEMMA GrowingKeeps ==
  ASSUME NEW d, Grows(d), UNCHANGED <<opt, ids, listPc, listTodo, cur, veinfo, broken>>,
         ElemOf(d), CountOf(d), RunOf(d), StatusOf(d)
  PROVE  ElemOf(d)' /\ CountOf(d)' /\ RunOf(d)' /\ StatusOf(d)'
BY DEF Grows, ElemOf, CountOf, RunOf, StatusOf, AtRest, TrueStatus

LEMMA NewElem == [List!NoElem EXCEPT !.n = 1] \in Elems
<1>1. List!NoElem \in Elems
  BY DEF List!NoElem, Elems, Statuses
<1>2. \A e \in Elems : [e EXCEPT !.n = 1] \in Elems
  BY DEF Elems
<1> QED
  BY <1>1, <1>2

\* The element of c changes, and no other.
LEMMA SetIs ==
  ASSUME ElemTypes, NEW c \in Cts, NEW e, List!Set(c, e)
  PROVE  /\ veinfo'[c] = e /\ \A d \in Cts : d # c => veinfo'[d] = veinfo[d]
         /\ e \in Elems => ElemTypes'
BY DEF ElemTypes, List!Set

\* update_ve() and add_elem()
LEMMA RunningIs ==
  ASSUME ElemTypes, NEW c \in Cts, List!Running(c)
  PROVE  /\ \A d \in Cts : d # c => veinfo'[d] = veinfo[d]
         /\ veinfo'[c].status = "running"
         /\ veinfo'[c].hide = veinfo[c].hide /\ veinfo'[c].ubc = veinfo[c].ubc
         /\ veinfo'[c].n = IF opt # "run" /\ veinfo[c].n > 0 THEN veinfo[c].n
                            ELSE veinfo[c].n + 1
         /\ veinfo[c].n < 2 \/ opt # "run" => ElemTypes'
<1> DEFINE e == [List!Elem(c) EXCEPT !.status = "running",
                    !.n = IF List!Update /\ @ > 0 THEN @ ELSE @ + 1]
<1>1. List!Set(c, e)
  BY DEF List!Running
<1>2. veinfo[c] \in Elems
  BY DEF ElemTypes
<1>3. e = [veinfo[c] EXCEPT !.status = "running",
             !.n = IF opt # "run" /\ veinfo[c].n > 0 THEN veinfo[c].n ELSE veinfo[c].n + 1]
  BY DEF List!Elem, List!Update
<1>4. /\ e.status = "running" /\ e.hide = veinfo[c].hide /\ e.ubc = veinfo[c].ubc
      /\ e.n = IF opt # "run" /\ veinfo[c].n > 0 THEN veinfo[c].n ELSE veinfo[c].n + 1
  BY <1>2, <1>3 DEF Elems
<1>5. veinfo[c].n < 2 \/ opt # "run" => e \in Elems
  <2>1. veinfo[c].n \in 0..2
    BY <1>2 DEF Elems
  <2>2. veinfo[c].n < 2 \/ opt # "run" =>
          (IF opt # "run" /\ veinfo[c].n > 0 THEN veinfo[c].n ELSE veinfo[c].n + 1) \in 0..2
    BY <2>1
  <2> QED
    BY <1>2, <1>3, <2>2 DEF Elems, Statuses
<1> HIDE DEF e
<1> QED
  BY <1>1, <1>4, <1>5, SetIs

LEMMA ListTypes0 ==
  ASSUME WorldTypes, ReaderTypes, ElemTypes,
         \A d \in Cts : ListInvOf(d),
         List!Begin \/ List!ReadConfEnds \/ List!GetVeids \/ List!GetIpsFails
          \/ List!GotRun \/ List!GotUb \/ List!GotParam \/ List!GotStatus
          \/ List!PrintVe
  PROVE  WorldTypes' /\ ReaderTypes' /\ ElemTypes'
<1> USE DEF WorldTypes, ReaderTypes, ElemTypes, Elems, Statuses, States, ListSteps,
            BeforeVeids,
        AfterVeids, StatusSteps
<1> USE DEF List!Goto, List!Take, List!Set, List!Same, List!Keep, List!Elem, List!Listed,
            List!Update,
        List!Running, List!Ub, List!Fault, List!NoElem, List!world, List!reader
<1> USE DEF ListInvOf, CountOf, ElemOf
<1>1. CASE List!Begin
  <2>1. PICK k \in {"run", "all", "stopped", "ids"}, s \in SUBSET Cts :
          /\ opt' = k /\ ids' = s
          /\ listPc' = IF k = "run" THEN "veids" ELSE "conf"
          /\ listTodo' = IF k = "run" THEN {} ELSE Cts
    BY <1>1 DEF List!Begin
  <2>2. /\ listPc = "idle" /\ cur' = cur /\ steady' = run /\ seen' = [d \in Cts |-> List!Is(d)]
        /\ UNCHANGED <<listConf, priv, run, mnt, dump, veinfo, broken>>
    BY <1>1 DEF List!Begin
  <2>3. \A d \in Cts : List!Is(d) \subseteq States
    BY DEF List!Is
  <2>4. seen' \in [Cts -> SUBSET States]
    BY <2>2, <2>3
  <2>5. WorldTypes'
    BY <2>2, <2>4
  <2>6. ReaderTypes'
    BY <2>1, <2>2
  <2>7. ElemTypes'
    BY <2>2
  <2> QED
    BY <2>5, <2>6, <2>7
<1>2. CASE List!ReadConfEnds
  BY <1>2 DEF List!ReadConfEnds
<1>3. CASE List!GetVeids
  BY <1>3 DEF List!GetVeids
<1>4. CASE List!GetIpsFails
  BY <1>4 DEF List!GetIpsFails
<1>5. CASE List!GotRun
  BY <1>5 DEF List!GotRun
<1>6. CASE List!GotUb
  BY <1>6 DEF List!GotUb
<1>7. CASE List!GotParam
  BY <1>7 DEF List!GotParam
<1>8. CASE List!GotStatus
  BY <1>8 DEF List!GotStatus
<1>9. CASE List!PrintVe
  <2>1. WorldTypes'
    BY <1>9 DEF List!PrintVe
  <2>2. ReaderTypes'
    BY <1>9 DEF List!PrintVe
  <2>3. List!NoElem \in Elems /\ veinfo' = [d \in Cts |-> List!NoElem]
    BY <1>9 DEF List!PrintVe
  <2>4. ElemTypes'
    BY <2>3
  <2> QED
    BY <2>1, <2>2, <2>4
<1> QED
  BY <1>1, <1>2, <1>3, <1>4, <1>5, <1>6, <1>7, <1>8, <1>9

LEMMA ListTypesC ==
  ASSUME WorldTypes, ReaderTypes, ElemTypes, NEW c \in Cts,
         \A d \in Cts : ListInvOf(d),
         List!ReadConf(c) \/ List!GetIps(c) \/ List!ReadProc(c) \/ List!ReadUb(c)
          \/ List!ReadParam(c) \/ List!ReadPrivate(c) \/ List!ReadDump(c)
          \/ List!ReadMounted(c)
  PROVE  WorldTypes' /\ ReaderTypes' /\ ElemTypes'
<1> USE DEF WorldTypes, ReaderTypes, ElemTypes, Elems, Statuses, States, ListSteps,
            BeforeVeids,
        AfterVeids, StatusSteps
<1> USE DEF List!Goto, List!Take, List!Set, List!Same, List!Keep, List!Elem, List!Listed,
            List!Update,
        List!Running, List!Ub, List!Fault, List!NoElem, List!world, List!reader
<1> USE DEF ListInvOf, CountOf, ElemOf
<1>1. CASE List!ReadConf(c)
  <2>1. WorldTypes'
    BY <1>1 DEF List!ReadConf
  <2>2. ReaderTypes'
    BY <1>1 DEF List!ReadConf
  <2>3. [List!NoElem EXCEPT !.n = 1] \in Elems
    BY NewElem
  <2>4. List!Set(c, [List!NoElem EXCEPT !.n = 1]) \/ UNCHANGED veinfo
    BY <1>1 DEF List!ReadConf
  <2>5. ElemTypes'
    BY <2>3, <2>4, SetIs
  <2> QED
    BY <2>1, <2>2, <2>5
<1>2. CASE List!GetIps(c)
  <2>1. /\ listPc = "ips" /\ c \in listTodo /\ listTodo' = listTodo \ {c}
        /\ UNCHANGED <<listPc, cur, opt, ids>>
        /\ UNCHANGED <<run, mnt, priv, listConf, dump, seen, steady, broken>>
    BY <1>2 DEF List!GetIps
  <2>2. CASE c \in run /\ List!Running(c)
    <3>1. veinfo[c].n < 2 \/ opt # "run"
      BY <2>1
    <3>2. ElemTypes'
      BY <2>2, <3>1, RunningIs
    <3> QED
      BY <2>1, <3>2
  <2>3. CASE c \notin run /\ UNCHANGED veinfo
    BY <2>1, <2>3
  <2> QED
    BY <1>2, <2>2, <2>3 DEF List!GetIps
<1>3. CASE List!ReadProc(c)
  <2>1. /\ listPc = "proc" /\ c \in listTodo /\ listTodo' = listTodo \ {c}
        /\ UNCHANGED <<listPc, cur, opt, ids>>
        /\ UNCHANGED <<run, mnt, priv, listConf, dump, seen, steady, broken>>
    BY <1>3 DEF List!ReadProc
  <2>2. CASE c \in run /\ List!Running(c)
    <3>1. veinfo[c].n < 2 \/ opt # "run"
      BY <2>1
    <3>2. ElemTypes'
      BY <2>2, <3>1, RunningIs
    <3> QED
      BY <2>1, <3>2
  <2>3. CASE c \notin run /\ UNCHANGED veinfo
    BY <2>1, <2>3
  <2> QED
    BY <1>3, <2>2, <2>3 DEF List!ReadProc
<1>4. CASE List!ReadUb(c)
  BY <1>4 DEF List!ReadUb
<1>5. CASE List!ReadParam(c)
  BY <1>5 DEF List!ReadParam
<1>6. CASE List!ReadPrivate(c)
  <2>1. WorldTypes'
    BY <1>6 DEF List!ReadPrivate
  <2>2. ReaderTypes'
    BY <1>6 DEF List!ReadPrivate
  <2>3. [List!Elem(c) EXCEPT !.hide = veinfo[c].status # "running"] \in Elems
    <3>1. veinfo[c] \in Elems
      BY DEF ElemTypes
    <3> QED
      BY <3>1
  <2>4. List!Set(c, [List!Elem(c) EXCEPT !.hide = veinfo[c].status # "running"])
         \/ UNCHANGED veinfo
    BY <1>6 DEF List!ReadPrivate
  <2>5. ElemTypes'
    BY <2>3, <2>4, SetIs
  <2> QED
    BY <2>1, <2>2, <2>5
<1>7. CASE List!ReadDump(c)
  BY <1>7 DEF List!ReadDump
<1>8. CASE List!ReadMounted(c)
  BY <1>8 DEF List!ReadMounted
<1> QED
  BY <1>1, <1>2, <1>3, <1>4, <1>5, <1>6, <1>7, <1>8

LEMMA ListSeen0 ==
  ASSUME WorldTypes, ReaderTypes, ElemTypes,
         \A d \in Cts : ListInvOf(d),
         List!Begin \/ List!ReadConfEnds \/ List!GetVeids \/ List!GetIpsFails
          \/ List!GotRun \/ List!GotUb \/ List!GotParam \/ List!GotStatus
          \/ List!PrintVe
  PROVE  \A d \in Cts : SeenOf(d)'
<1> USE DEF WorldTypes, ReaderTypes, ElemTypes, Elems, Statuses, States, ListSteps,
            BeforeVeids,
        AfterVeids, StatusSteps
<1> USE DEF List!Goto, List!Take, List!Set, List!Same, List!Keep, List!Elem, List!Listed,
            List!Update,
        List!Running, List!Ub, List!Fault, List!NoElem, List!world, List!reader
<1> USE DEF ListInvOf, SeenOf, AtRest, List!Is
<1>1. CASE List!Begin
  BY <1>1 DEF List!Begin
<1>2. CASE List!ReadConfEnds
  BY <1>2 DEF List!ReadConfEnds
<1>3. CASE List!GetVeids
  BY <1>3 DEF List!GetVeids
<1>4. CASE List!GetIpsFails
  BY <1>4 DEF List!GetIpsFails
<1>5. CASE List!GotRun
  BY <1>5 DEF List!GotRun
<1>6. CASE List!GotUb
  BY <1>6 DEF List!GotUb
<1>7. CASE List!GotParam
  BY <1>7 DEF List!GotParam
<1>8. CASE List!GotStatus
  BY <1>8 DEF List!GotStatus
<1>9. CASE List!PrintVe
  BY <1>9 DEF List!PrintVe
<1> QED
  BY <1>1, <1>2, <1>3, <1>4, <1>5, <1>6, <1>7, <1>8, <1>9

LEMMA ListSeenC ==
  ASSUME WorldTypes, ReaderTypes, ElemTypes, NEW c \in Cts,
         \A d \in Cts : ListInvOf(d),
         List!ReadConf(c) \/ List!GetIps(c) \/ List!ReadProc(c) \/ List!ReadUb(c)
          \/ List!ReadParam(c) \/ List!ReadPrivate(c) \/ List!ReadDump(c)
          \/ List!ReadMounted(c)
  PROVE  \A d \in Cts : SeenOf(d)'
<1> USE DEF WorldTypes, ReaderTypes, ElemTypes, Elems, Statuses, States, ListSteps,
            BeforeVeids,
        AfterVeids, StatusSteps
<1> USE DEF List!Goto, List!Take, List!Set, List!Same, List!Keep, List!Elem, List!Listed,
            List!Update,
        List!Running, List!Ub, List!Fault, List!NoElem, List!world, List!reader
<1> USE DEF ListInvOf, SeenOf, AtRest, List!Is
<1>1. CASE List!ReadConf(c)
  BY <1>1 DEF List!ReadConf
<1>2. CASE List!GetIps(c)
  BY <1>2 DEF List!GetIps
<1>3. CASE List!ReadProc(c)
  BY <1>3 DEF List!ReadProc
<1>4. CASE List!ReadUb(c)
  BY <1>4 DEF List!ReadUb
<1>5. CASE List!ReadParam(c)
  BY <1>5 DEF List!ReadParam
<1>6. CASE List!ReadPrivate(c)
  BY <1>6 DEF List!ReadPrivate
<1>7. CASE List!ReadDump(c)
  BY <1>7 DEF List!ReadDump
<1>8. CASE List!ReadMounted(c)
  BY <1>8 DEF List!ReadMounted
<1> QED
  BY <1>1, <1>2, <1>3, <1>4, <1>5, <1>6, <1>7, <1>8

LEMMA ListElem0 ==
  ASSUME WorldTypes, ReaderTypes, ElemTypes,
         \A d \in Cts : ListInvOf(d),
         List!Begin \/ List!ReadConfEnds \/ List!GetVeids \/ List!GetIpsFails
          \/ List!GotRun \/ List!GotUb \/ List!GotParam \/ List!GotStatus
          \/ List!PrintVe
  PROVE  \A d \in Cts : ElemOf(d)'
<1> USE DEF WorldTypes, ReaderTypes, ElemTypes, Elems, Statuses, States, ListSteps,
            BeforeVeids,
        AfterVeids, StatusSteps
<1> USE DEF List!Goto, List!Take, List!Set, List!Same, List!Keep, List!Elem, List!Listed,
            List!Update,
        List!Running, List!Ub, List!Fault, List!NoElem, List!world, List!reader
<1> USE DEF ListInvOf, SeenOf, ElemOf, List!Is
<1>1. CASE List!Begin
  BY <1>1 DEF List!Begin
<1>2. CASE List!ReadConfEnds
  BY <1>2 DEF List!ReadConfEnds
<1>3. CASE List!GetVeids
  BY <1>3 DEF List!GetVeids
<1>4. CASE List!GetIpsFails
  BY <1>4 DEF List!GetIpsFails
<1>5. CASE List!GotRun
  BY <1>5 DEF List!GotRun
<1>6. CASE List!GotUb
  BY <1>6 DEF List!GotUb
<1>7. CASE List!GotParam
  BY <1>7 DEF List!GotParam
<1>8. CASE List!GotStatus
  BY <1>8 DEF List!GotStatus
<1>9. CASE List!PrintVe
  BY <1>9 DEF List!PrintVe
<1> QED
  BY <1>1, <1>2, <1>3, <1>4, <1>5, <1>6, <1>7, <1>8, <1>9

LEMMA ListElemC ==
  ASSUME WorldTypes, ReaderTypes, ElemTypes, NEW c \in Cts,
         \A d \in Cts : ListInvOf(d),
         List!ReadConf(c) \/ List!GetIps(c) \/ List!ReadProc(c) \/ List!ReadUb(c)
          \/ List!ReadParam(c) \/ List!ReadPrivate(c) \/ List!ReadDump(c)
          \/ List!ReadMounted(c)
  PROVE  \A d \in Cts : ElemOf(d)'
<1> USE DEF WorldTypes, ReaderTypes, ElemTypes, Elems, Statuses, States, ListSteps,
            BeforeVeids,
        AfterVeids, StatusSteps
<1> USE DEF List!Goto, List!Take, List!Set, List!Same, List!Keep, List!Elem, List!Listed,
            List!Update,
        List!Running, List!Ub, List!Fault, List!NoElem, List!world, List!reader
<1> USE DEF ListInvOf, SeenOf, ElemOf, List!Is
<1>1. CASE List!ReadConf(c)
  BY <1>1 DEF List!ReadConf
<1>2. CASE List!GetIps(c)
  <2>1. /\ listPc = "ips" /\ c \in listTodo /\ listTodo' = listTodo \ {c}
        /\ UNCHANGED <<listPc, cur, opt, ids>>
        /\ UNCHANGED <<run, mnt, priv, listConf, dump, seen, steady, broken>>
    BY <1>2 DEF List!GetIps
  <2>2. CASE c \in run /\ List!Running(c)
    <3>1. c \in run /\ veinfo'[c].status = "running" /\ \A d \in Cts : d # c => veinfo'[d] = veinfo[d]
      BY <2>2, RunningIs
    <3>2. /\ veinfo'[c].hide = veinfo[c].hide /\ veinfo'[c].ubc = veinfo[c].ubc
          /\ veinfo'[c].n = IF opt # "run" /\ veinfo[c].n > 0 THEN veinfo[c].n
                             ELSE veinfo[c].n + 1
      BY <2>2, RunningIs
    <3> QED
      BY <2>1, <3>1, <3>2
  <2>3. CASE c \notin run /\ UNCHANGED veinfo
    BY <2>1, <2>3
  <2> QED
    BY <1>2, <2>2, <2>3 DEF List!GetIps
<1>3. CASE List!ReadProc(c)
  <2>1. /\ listPc = "proc" /\ c \in listTodo /\ listTodo' = listTodo \ {c}
        /\ UNCHANGED <<listPc, cur, opt, ids>>
        /\ UNCHANGED <<run, mnt, priv, listConf, dump, seen, steady, broken>>
    BY <1>3 DEF List!ReadProc
  <2>2. CASE c \in run /\ List!Running(c)
    <3>1. c \in run /\ veinfo'[c].status = "running" /\ \A d \in Cts : d # c => veinfo'[d] = veinfo[d]
      BY <2>2, RunningIs
    <3>2. /\ veinfo'[c].hide = veinfo[c].hide /\ veinfo'[c].ubc = veinfo[c].ubc
          /\ veinfo'[c].n = IF opt # "run" /\ veinfo[c].n > 0 THEN veinfo[c].n
                             ELSE veinfo[c].n + 1
      BY <2>2, RunningIs
    <3> QED
      BY <2>1, <3>1, <3>2
  <2>3. CASE c \notin run /\ UNCHANGED veinfo
    BY <2>1, <2>3
  <2> QED
    BY <1>3, <2>2, <2>3 DEF List!ReadProc
<1>4. CASE List!ReadUb(c)
  BY <1>4 DEF List!ReadUb
<1>5. CASE List!ReadParam(c)
  BY <1>5 DEF List!ReadParam
<1>6. CASE List!ReadPrivate(c)
  BY <1>6 DEF List!ReadPrivate
<1>7. CASE List!ReadDump(c)
  BY <1>7 DEF List!ReadDump
<1>8. CASE List!ReadMounted(c)
  BY <1>8 DEF List!ReadMounted
<1> QED
  BY <1>1, <1>2, <1>3, <1>4, <1>5, <1>6, <1>7, <1>8

LEMMA ListCount0 ==
  ASSUME WorldTypes, ReaderTypes, ElemTypes,
         \A d \in Cts : ListInvOf(d),
         List!Begin \/ List!ReadConfEnds \/ List!GetVeids \/ List!GetIpsFails
          \/ List!GotRun \/ List!GotUb \/ List!GotParam \/ List!GotStatus
          \/ List!PrintVe
  PROVE  \A d \in Cts : CountOf(d)'
<1> USE DEF WorldTypes, ReaderTypes, ElemTypes, Elems, Statuses, States, ListSteps,
            BeforeVeids,
        AfterVeids, StatusSteps
<1> USE DEF List!Goto, List!Take, List!Set, List!Same, List!Keep, List!Elem, List!Listed,
            List!Update,
        List!Running, List!Ub, List!Fault, List!NoElem, List!world, List!reader
<1> USE DEF ListInvOf, ElemOf, CountOf
<1>1. CASE List!Begin
  BY <1>1 DEF List!Begin
<1>2. CASE List!ReadConfEnds
  BY <1>2 DEF List!ReadConfEnds
<1>3. CASE List!GetVeids
  BY <1>3 DEF List!GetVeids
<1>4. CASE List!GetIpsFails
  BY <1>4 DEF List!GetIpsFails
<1>5. CASE List!GotRun
  BY <1>5 DEF List!GotRun
<1>6. CASE List!GotUb
  BY <1>6 DEF List!GotUb
<1>7. CASE List!GotParam
  BY <1>7 DEF List!GotParam
<1>8. CASE List!GotStatus
  BY <1>8 DEF List!GotStatus
<1>9. CASE List!PrintVe
  BY <1>9 DEF List!PrintVe
<1> QED
  BY <1>1, <1>2, <1>3, <1>4, <1>5, <1>6, <1>7, <1>8, <1>9

LEMMA ListCountC ==
  ASSUME WorldTypes, ReaderTypes, ElemTypes, NEW c \in Cts,
         \A d \in Cts : ListInvOf(d),
         List!ReadConf(c) \/ List!GetIps(c) \/ List!ReadProc(c) \/ List!ReadUb(c)
          \/ List!ReadParam(c) \/ List!ReadPrivate(c) \/ List!ReadDump(c)
          \/ List!ReadMounted(c)
  PROVE  \A d \in Cts : CountOf(d)'
<1> USE DEF WorldTypes, ReaderTypes, ElemTypes, Elems, Statuses, States, ListSteps,
            BeforeVeids,
        AfterVeids, StatusSteps
<1> USE DEF List!Goto, List!Take, List!Set, List!Same, List!Keep, List!Elem, List!Listed,
            List!Update,
        List!Running, List!Ub, List!Fault, List!NoElem, List!world, List!reader
<1> USE DEF ListInvOf, ElemOf, CountOf
<1>1. CASE List!ReadConf(c)
  <2>1. /\ listPc = "conf" /\ listPc' = "conf" /\ listTodo' = listTodo \ {c} /\ c \in listTodo
        /\ UNCHANGED <<opt, broken>>
    BY <1>1 DEF List!ReadConf
  <2>2. CASE c \in listConf /\ c \in ids /\ List!Set(c, [List!NoElem EXCEPT !.n = 1])
    <3>1. veinfo'[c] = [List!NoElem EXCEPT !.n = 1]
      BY <2>2, SetIs
    <3>2. veinfo'[c].n = 1
      BY <3>1
    <3>3. \A d \in Cts : d # c => veinfo'[d] = veinfo[d]
      BY <2>2, SetIs
    <3> QED
      BY <2>1, <3>2, <3>3
  <2>3. CASE UNCHANGED veinfo
    BY <2>1, <2>3
  <2> QED
    BY <1>1, <2>2, <2>3 DEF List!ReadConf
<1>2. CASE List!GetIps(c)
  <2>1. /\ listPc = "ips" /\ c \in listTodo /\ listTodo' = listTodo \ {c}
        /\ UNCHANGED <<listPc, cur, opt, ids>>
        /\ UNCHANGED <<run, mnt, priv, listConf, dump, seen, steady, broken>>
    BY <1>2 DEF List!GetIps
  <2>2. CASE c \in run /\ List!Running(c)
    <3>1. c \in run /\ veinfo'[c].status = "running" /\ \A d \in Cts : d # c => veinfo'[d] = veinfo[d]
      BY <2>2, RunningIs
    <3>2. /\ veinfo'[c].hide = veinfo[c].hide /\ veinfo'[c].ubc = veinfo[c].ubc
          /\ veinfo'[c].n = IF opt # "run" /\ veinfo[c].n > 0 THEN veinfo[c].n
                             ELSE veinfo[c].n + 1
      BY <2>2, RunningIs
    <3> QED
      BY <2>1, <3>1, <3>2
  <2>3. CASE c \notin run /\ UNCHANGED veinfo
    BY <2>1, <2>3
  <2> QED
    BY <1>2, <2>2, <2>3 DEF List!GetIps
<1>3. CASE List!ReadProc(c)
  <2>1. /\ listPc = "proc" /\ c \in listTodo /\ listTodo' = listTodo \ {c}
        /\ UNCHANGED <<listPc, cur, opt, ids>>
        /\ UNCHANGED <<run, mnt, priv, listConf, dump, seen, steady, broken>>
    BY <1>3 DEF List!ReadProc
  <2>2. CASE c \in run /\ List!Running(c)
    <3>1. c \in run /\ veinfo'[c].status = "running" /\ \A d \in Cts : d # c => veinfo'[d] = veinfo[d]
      BY <2>2, RunningIs
    <3>2. /\ veinfo'[c].hide = veinfo[c].hide /\ veinfo'[c].ubc = veinfo[c].ubc
          /\ veinfo'[c].n = IF opt # "run" /\ veinfo[c].n > 0 THEN veinfo[c].n
                             ELSE veinfo[c].n + 1
      BY <2>2, RunningIs
    <3> QED
      BY <2>1, <3>1, <3>2
  <2>3. CASE c \notin run /\ UNCHANGED veinfo
    BY <2>1, <2>3
  <2> QED
    BY <1>3, <2>2, <2>3 DEF List!ReadProc
<1>4. CASE List!ReadUb(c)
  BY <1>4 DEF List!ReadUb
<1>5. CASE List!ReadParam(c)
  BY <1>5 DEF List!ReadParam
<1>6. CASE List!ReadPrivate(c)
  BY <1>6 DEF List!ReadPrivate
<1>7. CASE List!ReadDump(c)
  BY <1>7 DEF List!ReadDump
<1>8. CASE List!ReadMounted(c)
  BY <1>8 DEF List!ReadMounted
<1> QED
  BY <1>1, <1>2, <1>3, <1>4, <1>5, <1>6, <1>7, <1>8

LEMMA ListRun0 ==
  ASSUME WorldTypes, ReaderTypes, ElemTypes,
         \A d \in Cts : ListInvOf(d),
         List!Begin \/ List!ReadConfEnds \/ List!GetVeids \/ List!GetIpsFails
          \/ List!GotRun \/ List!GotUb \/ List!GotParam \/ List!GotStatus
          \/ List!PrintVe
  PROVE  \A d \in Cts : RunOf(d)'
<1> USE DEF WorldTypes, ReaderTypes, ElemTypes, Elems, Statuses, States, ListSteps,
            BeforeVeids,
        AfterVeids, StatusSteps
<1> USE DEF List!Goto, List!Take, List!Set, List!Same, List!Keep, List!Elem, List!Listed,
            List!Update,
        List!Running, List!Ub, List!Fault, List!NoElem, List!world, List!reader
<1> USE DEF ListInvOf, SeenOf, ElemOf, RunOf, StatusOf, AtRest, List!Is
<1>1. CASE List!Begin
  BY <1>1 DEF List!Begin
<1>2. CASE List!ReadConfEnds
  BY <1>2 DEF List!ReadConfEnds
<1>3. CASE List!GetVeids
  BY <1>3 DEF List!GetVeids
<1>4. CASE List!GetIpsFails
  BY <1>4 DEF List!GetIpsFails
<1>5. CASE List!GotRun
  BY <1>5 DEF List!GotRun
<1>6. CASE List!GotUb
  BY <1>6 DEF List!GotUb
<1>7. CASE List!GotParam
  BY <1>7 DEF List!GotParam
<1>8. CASE List!GotStatus
  BY <1>8 DEF List!GotStatus
<1>9. CASE List!PrintVe
  BY <1>9 DEF List!PrintVe
<1> QED
  BY <1>1, <1>2, <1>3, <1>4, <1>5, <1>6, <1>7, <1>8, <1>9

LEMMA ListRunC ==
  ASSUME WorldTypes, ReaderTypes, ElemTypes, NEW c \in Cts,
         \A d \in Cts : ListInvOf(d),
         List!ReadConf(c) \/ List!GetIps(c) \/ List!ReadProc(c) \/ List!ReadUb(c)
          \/ List!ReadParam(c) \/ List!ReadPrivate(c) \/ List!ReadDump(c)
          \/ List!ReadMounted(c)
  PROVE  \A d \in Cts : RunOf(d)'
<1> USE DEF WorldTypes, ReaderTypes, ElemTypes, Elems, Statuses, States, ListSteps,
            BeforeVeids,
        AfterVeids, StatusSteps
<1> USE DEF List!Goto, List!Take, List!Set, List!Same, List!Keep, List!Elem, List!Listed,
            List!Update,
        List!Running, List!Ub, List!Fault, List!NoElem, List!world, List!reader
<1> USE DEF ListInvOf, SeenOf, ElemOf, RunOf, StatusOf, AtRest, List!Is
<1>1. CASE List!ReadConf(c)
  BY <1>1 DEF List!ReadConf
<1>2. CASE List!GetIps(c)
  <2>1. /\ listPc = "ips" /\ c \in listTodo /\ listTodo' = listTodo \ {c}
        /\ UNCHANGED <<listPc, cur, opt, ids>>
        /\ UNCHANGED <<run, mnt, priv, listConf, dump, seen, steady, broken>>
    BY <1>2 DEF List!GetIps
  <2>2. CASE c \in run /\ List!Running(c)
    <3>1. c \in run /\ veinfo'[c].status = "running" /\ \A d \in Cts : d # c => veinfo'[d] = veinfo[d]
      BY <2>2, RunningIs
    <3>2. /\ veinfo'[c].hide = veinfo[c].hide /\ veinfo'[c].ubc = veinfo[c].ubc
          /\ veinfo'[c].n = IF opt # "run" /\ veinfo[c].n > 0 THEN veinfo[c].n
                             ELSE veinfo[c].n + 1
      BY <2>2, RunningIs
    <3> QED
      BY <2>1, <3>1, <3>2
  <2>3. CASE c \notin run /\ UNCHANGED veinfo
    BY <2>1, <2>3
  <2> QED
    BY <1>2, <2>2, <2>3 DEF List!GetIps
<1>3. CASE List!ReadProc(c)
  <2>1. /\ listPc = "proc" /\ c \in listTodo /\ listTodo' = listTodo \ {c}
        /\ UNCHANGED <<listPc, cur, opt, ids>>
        /\ UNCHANGED <<run, mnt, priv, listConf, dump, seen, steady, broken>>
    BY <1>3 DEF List!ReadProc
  <2>2. CASE c \in run /\ List!Running(c)
    <3>1. c \in run /\ veinfo'[c].status = "running" /\ \A d \in Cts : d # c => veinfo'[d] = veinfo[d]
      BY <2>2, RunningIs
    <3>2. /\ veinfo'[c].hide = veinfo[c].hide /\ veinfo'[c].ubc = veinfo[c].ubc
          /\ veinfo'[c].n = IF opt # "run" /\ veinfo[c].n > 0 THEN veinfo[c].n
                             ELSE veinfo[c].n + 1
      BY <2>2, RunningIs
    <3> QED
      BY <2>1, <3>1, <3>2
  <2>3. CASE c \notin run /\ UNCHANGED veinfo
    BY <2>1, <2>3
  <2> QED
    BY <1>3, <2>2, <2>3 DEF List!ReadProc
<1>4. CASE List!ReadUb(c)
  BY <1>4 DEF List!ReadUb
<1>5. CASE List!ReadParam(c)
  BY <1>5 DEF List!ReadParam
<1>6. CASE List!ReadPrivate(c)
  BY <1>6 DEF List!ReadPrivate
<1>7. CASE List!ReadDump(c)
  <2>1. /\ listPc = "dump" /\ listPc' = "mounted" /\ c \in cur /\ UNCHANGED <<opt, ids, listTodo>>
        /\ UNCHANGED cur /\ UNCHANGED <<run, mnt, priv, dump, seen, steady>>
        /\ List!Set(c, [List!Elem(c) EXCEPT !.status = IF c \in dump THEN "suspended" ELSE @])
    BY <1>7 DEF List!ReadDump
  <2>2. /\ veinfo'[c] = [List!Elem(c) EXCEPT !.status = IF c \in dump THEN "suspended" ELSE @]
        /\ \A d \in Cts : d # c => veinfo'[d] = veinfo[d]
    BY <2>1, SetIs
  <2>3. /\ veinfo'[c].status = IF c \in dump THEN "suspended" ELSE veinfo[c].status
        /\ veinfo'[c].hide = veinfo[c].hide /\ veinfo'[c].n = veinfo[c].n
        /\ veinfo'[c].ubc = veinfo[c].ubc
    BY <2>2
  <2>4. cur = {c}
    BY <2>1
  <2>5. RunOf(c)'
    BY <2>1, <2>3, <2>4
  <2>6. ASSUME NEW d \in Cts, d # c PROVE RunOf(d)'
    BY <2>1, <2>2, <2>4, <2>6
  <2> QED
    BY <2>5, <2>6
<1>8. CASE List!ReadMounted(c)
  <2>1. /\ listPc = "mounted" /\ listPc' = "private" /\ c \in cur /\ UNCHANGED <<opt, ids, listTodo>>
        /\ cur' = {} /\ UNCHANGED <<run, mnt, priv, dump, seen, steady>>
        /\ List!Set(c, [List!Elem(c) EXCEPT !.status = IF c \in mnt THEN "mounted" ELSE @])
    BY <1>8 DEF List!ReadMounted
  <2>2. /\ veinfo'[c] = [List!Elem(c) EXCEPT !.status = IF c \in mnt THEN "mounted" ELSE @]
        /\ \A d \in Cts : d # c => veinfo'[d] = veinfo[d]
    BY <2>1, SetIs
  <2>3. /\ veinfo'[c].status = IF c \in mnt THEN "mounted" ELSE veinfo[c].status
        /\ veinfo'[c].hide = veinfo[c].hide /\ veinfo'[c].n = veinfo[c].n
        /\ veinfo'[c].ubc = veinfo[c].ubc
    BY <2>2
  <2>4. cur = {c}
    BY <2>1
  <2>5. RunOf(c)'
    BY <2>1, <2>3, <2>4
  <2>6. ASSUME NEW d \in Cts, d # c PROVE RunOf(d)'
    BY <2>1, <2>2, <2>4, <2>6
  <2> QED
    BY <2>5, <2>6
<1> QED
  BY <1>1, <1>2, <1>3, <1>4, <1>5, <1>6, <1>7, <1>8

LEMMA ListStat0 ==
  ASSUME WorldTypes, ReaderTypes, ElemTypes,
         \A d \in Cts : ListInvOf(d),
         List!Begin \/ List!ReadConfEnds \/ List!GetVeids \/ List!GetIpsFails
          \/ List!GotRun \/ List!GotUb \/ List!GotParam \/ List!GotStatus
          \/ List!PrintVe
  PROVE  \A d \in Cts : StatusOf(d)'
<1> USE DEF WorldTypes, ReaderTypes, ElemTypes, Elems, Statuses, States, ListSteps,
            BeforeVeids,
        AfterVeids, StatusSteps
<1> USE DEF List!Goto, List!Take, List!Set, List!Same, List!Keep, List!Elem, List!Listed,
            List!Update,
        List!Running, List!Ub, List!Fault, List!NoElem, List!world, List!reader
<1> USE DEF ListInvOf, SeenOf, ElemOf, RunOf, StatusOf, AtRest, TrueStatus, List!Is
<1>1. CASE List!Begin
  BY <1>1 DEF List!Begin
<1>2. CASE List!ReadConfEnds
  BY <1>2 DEF List!ReadConfEnds
<1>3. CASE List!GetVeids
  BY <1>3 DEF List!GetVeids
<1>4. CASE List!GetIpsFails
  BY <1>4 DEF List!GetIpsFails
<1>5. CASE List!GotRun
  BY <1>5 DEF List!GotRun
<1>6. CASE List!GotUb
  BY <1>6 DEF List!GotUb
<1>7. CASE List!GotParam
  BY <1>7 DEF List!GotParam
<1>8. CASE List!GotStatus
  BY <1>8 DEF List!GotStatus
<1>9. CASE List!PrintVe
  BY <1>9 DEF List!PrintVe
<1> QED
  BY <1>1, <1>2, <1>3, <1>4, <1>5, <1>6, <1>7, <1>8, <1>9

LEMMA ListStatC ==
  ASSUME WorldTypes, ReaderTypes, ElemTypes, NEW c \in Cts,
         \A d \in Cts : ListInvOf(d),
         List!ReadConf(c) \/ List!GetIps(c) \/ List!ReadProc(c) \/ List!ReadUb(c)
          \/ List!ReadParam(c) \/ List!ReadPrivate(c) \/ List!ReadDump(c)
          \/ List!ReadMounted(c)
  PROVE  \A d \in Cts : StatusOf(d)'
<1> USE DEF WorldTypes, ReaderTypes, ElemTypes, Elems, Statuses, States, ListSteps,
            BeforeVeids,
        AfterVeids, StatusSteps
<1> USE DEF List!Goto, List!Take, List!Set, List!Same, List!Keep, List!Elem, List!Listed,
            List!Update,
        List!Running, List!Ub, List!Fault, List!NoElem, List!world, List!reader
<1> USE DEF ListInvOf, SeenOf, ElemOf, RunOf, StatusOf, AtRest, TrueStatus, List!Is
<1>1. CASE List!ReadConf(c)
  BY <1>1 DEF List!ReadConf
<1>2. CASE List!GetIps(c)
  BY <1>2 DEF List!GetIps
<1>3. CASE List!ReadProc(c)
  BY <1>3 DEF List!ReadProc
<1>4. CASE List!ReadUb(c)
  BY <1>4 DEF List!ReadUb
<1>5. CASE List!ReadParam(c)
  BY <1>5 DEF List!ReadParam
<1>6. CASE List!ReadPrivate(c)
  BY <1>6 DEF List!ReadPrivate
<1>7. CASE List!ReadDump(c)
  <2>1. /\ listPc = "dump" /\ listPc' = "mounted" /\ c \in cur /\ UNCHANGED <<opt, ids, listTodo>>
        /\ UNCHANGED cur /\ UNCHANGED <<run, mnt, priv, dump, seen, steady>>
        /\ List!Set(c, [List!Elem(c) EXCEPT !.status = IF c \in dump THEN "suspended" ELSE @])
    BY <1>7 DEF List!ReadDump
  <2>2. /\ veinfo'[c] = [List!Elem(c) EXCEPT !.status = IF c \in dump THEN "suspended" ELSE @]
        /\ \A d \in Cts : d # c => veinfo'[d] = veinfo[d]
    BY <2>1, SetIs
  <2>3. /\ veinfo'[c].status = IF c \in dump THEN "suspended" ELSE veinfo[c].status
        /\ veinfo'[c].hide = veinfo[c].hide /\ veinfo'[c].n = veinfo[c].n
        /\ veinfo'[c].ubc = veinfo[c].ubc
    BY <2>2
  <2>4. cur = {c}
    BY <2>1
  <2>5. StatusOf(c)'
    BY <2>1, <2>3, <2>4
  <2>6. ASSUME NEW d \in Cts, d # c PROVE StatusOf(d)'
    BY <2>1, <2>2, <2>4, <2>6
  <2> QED
    BY <2>5, <2>6
<1>8. CASE List!ReadMounted(c)
  <2>1. /\ listPc = "mounted" /\ listPc' = "private" /\ c \in cur /\ UNCHANGED <<opt, ids, listTodo>>
        /\ cur' = {} /\ UNCHANGED <<run, mnt, priv, dump, seen, steady>>
        /\ List!Set(c, [List!Elem(c) EXCEPT !.status = IF c \in mnt THEN "mounted" ELSE @])
    BY <1>8 DEF List!ReadMounted
  <2>2. /\ veinfo'[c] = [List!Elem(c) EXCEPT !.status = IF c \in mnt THEN "mounted" ELSE @]
        /\ \A d \in Cts : d # c => veinfo'[d] = veinfo[d]
    BY <2>1, SetIs
  <2>3. /\ veinfo'[c].status = IF c \in mnt THEN "mounted" ELSE veinfo[c].status
        /\ veinfo'[c].hide = veinfo[c].hide /\ veinfo'[c].n = veinfo[c].n
        /\ veinfo'[c].ubc = veinfo[c].ubc
    BY <2>2
  <2>4. cur = {c}
    BY <2>1
  <2>5. StatusOf(c)'
    BY <2>1, <2>3, <2>4
  <2>6. ASSUME NEW d \in Cts, d # c PROVE StatusOf(d)'
    BY <2>1, <2>2, <2>4, <2>6
  <2> QED
    BY <2>5, <2>6
<1> QED
  BY <1>1, <1>2, <1>3, <1>4, <1>5, <1>6, <1>7, <1>8

LEMMA ListInit == List!Init => ListInv
<1>1. List!NoElem \in Elems
  BY DEF List!NoElem, Elems, Statuses
<1>2. ASSUME List!Init PROVE WorldTypes /\ ReaderTypes /\ ElemTypes
  BY <1>1, <1>2 DEF List!Init, WorldTypes, ReaderTypes, ElemTypes, ListSteps, BeforeVeids
<1>3. ASSUME List!Init PROVE \A c \in Cts : ListInvOf(c)
  BY <1>3 DEF List!Init, ListInvOf, SeenOf, ElemOf, CountOf, RunOf, StatusOf, List!NoElem,
              BeforeVeids, AfterVeids, StatusSteps
<1> QED
  BY <1>2, <1>3 DEF ListInv

LEMMA ListStep == ListInv /\ [List!Next]_listVars => ListInv'
<1> SUFFICES ASSUME ListInv, [List!Next]_listVars PROVE ListInv'
  OBVIOUS
<1> USE DEF ListInv
<1>1. CASE UNCHANGED listVars
  BY <1>1 DEF listVars, WorldTypes, ReaderTypes, ElemTypes, ListInvOf, SeenOf, ElemOf,
     CountOf,
              RunOf, StatusOf, AtRest, TrueStatus, List!Is
<1>2. ASSUME NEW c \in Cts, List!World(c) PROVE ListInv'
  <2>1. \A d \in Cts : SeenOf(d) /\ ElemOf(d) /\ CountOf(d) /\ RunOf(d) /\ StatusOf(d)
    BY DEF ListInvOf
  <2>2. /\ WorldTypes' /\ ReaderTypes' /\ UNCHANGED <<opt, ids, listPc, listTodo, cur, veinfo, broken>>
        /\ \A d \in Cts : SeenOf(d)' /\ Grows(d)
    BY <1>2, <2>1, WorldChanges DEF List!World
  <2>3. ElemTypes'
    BY <2>2 DEF ElemTypes
  <2>4. \A d \in Cts : ElemOf(d)' /\ CountOf(d)' /\ RunOf(d)' /\ StatusOf(d)'
    BY <2>1, <2>2, GrowingKeeps
  <2> QED
    BY <2>2, <2>3, <2>4 DEF ListInvOf
<1>3. CASE List!Begin \/ List!ReadConfEnds \/ List!GetVeids \/ List!GetIpsFails
             \/ List!GotRun \/ List!GotUb \/ List!GotParam \/ List!GotStatus
             \/ List!PrintVe
  <2>1. \A d \in Cts : SeenOf(d)' /\ ElemOf(d)' /\ CountOf(d)' /\ RunOf(d)' /\ StatusOf(d)'
    BY <1>3, ListSeen0, ListElem0, ListCount0, ListRun0, ListStat0
  <2> QED
    BY <1>3, <2>1, ListTypes0 DEF ListInvOf
<1>4. ASSUME NEW c \in Cts,
             List!ReadConf(c) \/ List!GetIps(c) \/ List!ReadProc(c) \/ List!ReadUb(c)
              \/ List!ReadParam(c) \/ List!ReadPrivate(c) \/ List!ReadDump(c)
              \/ List!ReadMounted(c)
      PROVE  ListInv'
  <2>1. \A d \in Cts : SeenOf(d)' /\ ElemOf(d)' /\ CountOf(d)' /\ RunOf(d)' /\ StatusOf(d)'
    BY <1>4, ListSeenC, ListElemC, ListCountC, ListRunC, ListStatC
  <2> QED
    BY <1>4, <2>1, ListTypesC DEF ListInvOf
<1> QED
  BY <1>1, <1>2, <1>3, <1>4 DEF List!Next

LEMMA ListPart == HostSpec => []ListInv
<1>1. HostInit => ListInv
  BY ListInit DEF HostInit
<1>2. ListInv /\ [HostNext]_allVars => ListInv'
  <2>1. [HostNext]_allVars => [List!Next]_listVars
    BY DEF HostNext, SnapNext, DevNext, AddrNext, ListNext, allVars, listVars
  <2> QED
    BY <2>1, ListStep
<1> QED
  BY <1>1, <1>2, PTL DEF HostSpec

(* vzlist makes up no status, and misses no container that runs            *)
(* throughout nor lists it twice, for any number of containers, whatever   *)
(* the other commands do between its reads (ListingIsTrue).                *)
THEOREM ListsAreTrue == HostSpec => []ListingIsTrue
<1>1. ASSUME ListInv, listPc = "print" PROVE ListingIsTrue
  <2>1. ASSUME NEW c \in Cts, List!Printed(c) PROVE TrueStatus(c)
    BY <1>1, <2>1 DEF ListInv, ReaderTypes, ElemTypes, Elems, ListInvOf, StatusOf,
       StatusSteps,
                      ListSteps, List!Printed, List!Listed, List!Elem
  <2>2. List!StatusWasTrue
    BY <2>1, Zenon DEF TrueStatus, List!StatusWasTrue, List!Elem
  <2>3. ASSUME NEW c \in steady \cap ids
        PROVE  /\ veinfo[c].status = "running" /\ ~veinfo[c].hide /\ veinfo[c].n > 0
               /\ veinfo[c].ubc = "kernel" \/ opt = "stopped"
    BY <1>1, <2>3 DEF ListInv, WorldTypes, ReaderTypes, ListInvOf, SeenOf, ElemOf, RunOf,
                      AfterVeids, StatusSteps
  <2>4. ASSUME NEW c \in steady \cap ids
        PROVE  veinfo[c].n = 1 \/ (broken /\ opt = "run")
    <3>1. c \in Cts /\ veinfo[c].n \in 0..2
      BY <1>1, <2>4 DEF ListInv, ReaderTypes, ElemTypes, Elems
    <3>2. veinfo[c].n <= 1 \/ (broken /\ opt = "run")
      BY <1>1, <3>1 DEF ListInv, ListInvOf, CountOf
    <3> QED
      BY <2>3, <3>1, <3>2
  <2>5. List!RunningListedOnce
    BY <2>3, <2>4 DEF List!RunningListedOnce, List!Elem
  <2> QED
    BY <2>2, <2>5 DEF ListingIsTrue, List!ListingIsTrue
<1>2. listPc # "print" => ListingIsTrue
  BY DEF ListingIsTrue, List!ListingIsTrue, List!StatusWasTrue, List!RunningListedOnce
<1>3. ListInv => ListingIsTrue
  BY <1>1, <1>2
<1> QED
  BY <1>3, ListPart, PTL

-----------------------------------------------------------------------------
(***************************************************************************)
(* The types of the four parts.  Those of Snapshots are proved for its own *)
(* specification; HostSpec takes its steps or leaves it alone.             *)
(***************************************************************************)

LEMMA SnapPart == HostSpec => []TypeInv
<1>1. HostInit => TypeInv
  BY TypeInit DEF HostInit
<1>2. TypeInv /\ [HostNext]_allVars => TypeInv'
  <2>1. [HostNext]_allVars => [Next]_vars
    BY DEF HostNext, SnapNext, DevNext, AddrNext, ListNext, allVars, snapVars, vars,
       files, ct
  <2> QED
    BY <2>1, TypeStep
<1> QED
  BY <1>1, <1>2, PTL DEF HostSpec

(* Every part keeps to its types (HostTypes): among them, the container a  *)
(* kernel address belongs to runs, a container that does not run has no    *)
(* devices, and what vzlist has read of a container is one of the statuses *)
(* it can print.                                                           *)
THEOREM HostTypesHold == HostSpec => []HostTypes
<1>1. DevTypes => Dev!TypeOK
  BY DEF DevTypes, DevWorldTypes, DevCmdTypes, DevLoopTypes, DevSteps, IsList,
         Dev!TypeOK
<1>2. AddrInv => Addr!TypeOK
  BY DEF AddrInv, AddrTypes, KernTypes, LoopTypes, CmdTypes, AddrSteps, Addr!TypeOK
<1>3. ListInv => List!TypeOK
  BY DEF ListInv, WorldTypes, ReaderTypes, ElemTypes, Elems, Statuses, List!Elem,
     List!TypeOK
<1>4. TypeInv /\ DevTypes /\ AddrInv /\ ListInv => HostTypes
  BY <1>1, <1>2, <1>3, TypeInvTypes DEF HostTypes
<1> QED
  BY <1>4, SnapPart, DevTypesPart, AddrPart, ListPart, PTL
=============================================================================
