--------------------------- MODULE SnapshotsProofs ---------------------------
(* Proofs about Snapshots, for every set of guids and of failures.          *)
EXTENDS Snapshots, TLAPS, FiniteSetTheorems

-----------------------------------------------------------------------------
(***************************************************************************)
(* Lemmas about trees of snapshots and about what vzctl writes of them to  *)
(* Snapshots.xml.  Every set of snapshots of a tree has one whose parent   *)
(* is not in the set: this tells a tree from a list with a cycle without   *)
(* following its parents.                                                  *)
(***************************************************************************)

Rooted(t) ==
  \A S \in SUBSET Listed(t) : S # {} => \E g \in S : t.parent[g] \notin S

Tree(t) ==
  /\ t = [parent |-> t.parent, current |-> t.current]
  /\ Listed(t) \subseteq Guids
  /\ t.parent \in [Listed(t) -> Listed(t) \union {NoGuid}]
  /\ t.current \in Listed(t) \union {NoGuid}
  /\ Rooted(t)

LEMMA TreeNone == Tree(NoSnapshots)
BY DEF Tree, Rooted, NoSnapshots, Listed

LEMMA TreeAdd ==
  ASSUME NEW t, Tree(t), NEW g \in Guids \ Listed(t)
  PROVE  /\ Tree(Add(t, g))
         /\ Listed(Add(t, g)) = Listed(t) \union {g}
<1> DEFINE u == Add(t, g)
<1>1. /\ Listed(u) = Listed(t) \union {g} /\ u.current = g
      /\ u = [parent |-> u.parent, current |-> u.current]
      /\ u.parent \in [Listed(u) -> Listed(u) \union {NoGuid}]
      /\ u.parent[g] = t.current
      /\ \A h \in Listed(t) : u.parent[h] = t.parent[h]
  BY DEF Tree, Add, Listed
<1>2. ASSUME NEW S \in SUBSET Listed(u), S # {}
      PROVE  \E h \in S : u.parent[h] \notin S
  <2>1. CASE S = {g}
    BY <1>1, <2>1, NoGuidAssumption DEF Tree
  <2>2. CASE S # {g}
    <3>1. S \ {g} \in SUBSET Listed(t) /\ S \ {g} # {}
      BY <1>1, <1>2, <2>2
    <3>2. PICK h \in S \ {g} : t.parent[h] \notin S \ {g}
      BY <3>1 DEF Tree, Rooted
    <3>3. t.parent[h] # g
      BY <3>1, NoGuidAssumption DEF Tree
    <3> QED
      BY <1>1, <3>1, <3>2, <3>3
  <2> QED
    BY <2>1, <2>2
<1> HIDE DEF u
<1>3. Tree(u)
  BY <1>1, <1>2 DEF Tree, Rooted
<1> QED
  BY <1>1, <1>3 DEF u

LEMMA TreeSetCurrent ==
  ASSUME NEW t, Tree(t), NEW g \in Listed(t) \union {NoGuid}
  PROVE  /\ Tree(SetCurrent(t, g))
         /\ Listed(SetCurrent(t, g)) = Listed(t)
<1>1. /\ SetCurrent(t, g).parent = t.parent
      /\ SetCurrent(t, g).current = g
      /\ SetCurrent(t, g) = [parent |-> t.parent, current |-> g]
  BY DEF SetCurrent, Tree
<1> QED
  BY <1>1 DEF Tree, Rooted, Listed

LEMMA TreeRemove ==
  ASSUME NEW t, Tree(t), NEW g \in Listed(t)
  PROVE  /\ Tree(Remove(t, g))
         /\ Listed(Remove(t, g)) = Listed(t) \ {g}
<1> DEFINE u == Remove(t, g)
<1>0. t.parent[g] # g
  <2>1. \E h \in {g} : t.parent[h] \notin {g}
    BY DEF Tree, Rooted
  <2> QED
    BY <2>1
<1>1. /\ Listed(u) = Listed(t) \ {g}
      /\ u = [parent |-> u.parent, current |-> u.current]
      /\ u.current = IF t.current = g THEN t.parent[g] ELSE t.current
      /\ \A h \in Listed(u) :
           u.parent[h] = IF t.parent[h] = g THEN t.parent[g] ELSE t.parent[h]
      /\ u.parent = [h \in Listed(u) |-> u.parent[h]]
  BY DEF Remove, Listed
<1>2. /\ u.parent \in [Listed(u) -> Listed(u) \union {NoGuid}]
      /\ u.current \in Listed(u) \union {NoGuid}
  <2> HIDE DEF u
  <2> QED
    BY <1>0, <1>1 DEF Tree
<1>3. ASSUME NEW S \in SUBSET Listed(u), S # {}
      PROVE  \E h \in S : u.parent[h] \notin S
  <2> HIDE DEF u
  <2>1. PICK h \in S : t.parent[h] \notin S
    BY <1>1, <1>3 DEF Tree, Rooted
  <2>2. CASE t.parent[h] # g
    BY <1>1, <2>1, <2>2
  <2>3. CASE t.parent[h] = g
    <3>1. PICK k \in S \union {g} : t.parent[k] \notin S \union {g}
      BY <1>1, <1>3 DEF Tree, Rooted
    <3>2. CASE k = g
      BY <1>1, <2>1, <2>3, <3>1, <3>2
    <3>3. CASE k # g
      BY <1>1, <3>1, <3>3
    <3> QED
      BY <3>2, <3>3
  <2> QED
    BY <2>2, <2>3
<1> HIDE DEF u
<1>4. Tree(u)
  BY <1>1, <1>2, <1>3 DEF Tree, Rooted
<1> QED
  BY <1>1, <1>4 DEF u

\* Whatever is written to Snapshots.xml, a tree is read back.
LEMMA StoredIsTree ==
  ASSUME NEW t, Listed(t) \subseteq Guids
  PROVE  Tree(Stored(t)) /\ Listed(Stored(t)) \subseteq Listed(t)
<1> DEFINE U == Unrooted(t)
           kept == Listed(t) \ U
           Cut(S) == \A g \in S : t.parent[g] \notin {NoGuid} \union (Listed(t) \ S)
<1>1. \A S \in SUBSET Listed(t) : Cut(S) => S \subseteq U
  BY DEF Unrooted
<1>2. \A g \in U : \E S \in SUBSET Listed(t) : Cut(S) /\ g \in S
  BY DEF Unrooted
<1> HIDE DEF U
<1>3. ASSUME NEW h \in kept
      PROVE  t.parent[h] \in kept \union {NoGuid}
  <2>1. t.parent[h] \in Listed(t) \union {NoGuid}
    <3>1. CASE t.parent[h] \notin Listed(t) \union {NoGuid}
      <4>1. Cut({h})
        BY <3>1
      <4> QED
        BY <1>1, <4>1
    <3> QED
      BY <3>1
  <2>2. ASSUME t.parent[h] \in U
        PROVE  FALSE
    <3>1. PICK S \in SUBSET Listed(t) : Cut(S) /\ t.parent[h] \in S
      BY <1>2, <2>2
    <3>2. Cut(S \union {h})
      BY <3>1, NoGuidAssumption
    <3>3. S \union {h} \in SUBSET Listed(t)
      OBVIOUS
    <3>4. S \union {h} \subseteq U
      BY <1>1, <3>2, <3>3
    <3> QED
      BY <3>4
  <2> QED
    BY <2>1, <2>2
<1>4. ASSUME NEW S \in SUBSET kept, S # {}
      PROVE  \E g \in S : t.parent[g] \notin S
  <2>1. CASE \A g \in S : t.parent[g] \in S
    <3>1. Cut(S)
      BY <2>1, NoGuidAssumption
    <3> QED
      BY <1>1, <1>4, <3>1
  <2> QED
    BY <2>1
<1> DEFINE u == Stored(t)
<1>5. /\ Listed(u) = kept /\ u = [parent |-> u.parent, current |-> u.current]
      /\ u.parent = [g \in kept |-> t.parent[g]]
      /\ u.current \in kept \union {NoGuid}
  BY DEF Stored, Listed, U
<1> HIDE DEF u
<1>6. u.parent \in [kept -> kept \union {NoGuid}]
  BY <1>3, <1>5
<1>7. Rooted(u)
  BY <1>4, <1>5 DEF Rooted
<1> QED
  BY <1>5, <1>6, <1>7 DEF Tree, u

LEMMA TreeInTrees ==
  ASSUME NEW t, Tree(t)
  PROVE  t \in Trees
<1>1. t \in [parent : [Listed(t) -> Listed(t) \union {NoGuid}],
             current : Listed(t) \union {NoGuid}]
  BY DEF Tree
<1> QED
  BY <1>1 DEF Trees, Tree

\* Snapshots.xml reads back as it was.
LEMMA StoredTree ==
  ASSUME NEW t, Tree(t)
  PROVE  Stored(t) = t
<1>1. ASSUME NEW S \in SUBSET Listed(t),
             \A g \in S : t.parent[g] \notin {NoGuid} \union (Listed(t) \ S)
      PROVE  S = {}
  BY <1>1 DEF Tree, Rooted
<1>2. Unrooted(t) = {}
  BY <1>1 DEF Unrooted
<1>3. [g \in Listed(t) \ Unrooted(t) |-> t.parent[g]] = t.parent
  BY <1>2 DEF Tree
<1>4. Stored(t) = [parent |-> t.parent, current |-> t.current]
  BY <1>2, <1>3, NoGuidAssumption DEF Stored, Tree
<1> QED
  BY <1>4 DEF Tree

\* A new snapshot leaves no trace when it is merged back, wherever the mark.
LEMMA RemoveAdded ==
  ASSUME NEW t, Tree(t), NEW g \in Guids \ Listed(t),
         NEW c \in Listed(t) \union {NoGuid}
  PROVE  /\ Remove(Add(t, g), g) = t
         /\ Remove(SetCurrent(Add(t, g), c), g) = SetCurrent(t, c)
<1>1. /\ Listed(Add(t, g)) \ {g} = Listed(t)
      /\ Add(t, g).current = g /\ Add(t, g).parent[g] = t.current
      /\ \A h \in Listed(t) : Add(t, g).parent[h] = t.parent[h] /\ t.parent[h] # g
  BY NoGuidAssumption DEF Add, Listed, Tree
<1>2. Remove(Add(t, g), g) = [parent |-> t.parent, current |-> t.current]
  <2>1. [h \in Listed(t) |-> t.parent[h]] = t.parent
    BY DEF Tree
  <2> QED
    BY <1>1, <2>1 DEF Remove
<1>3. /\ SetCurrent(Add(t, g), c).parent = Add(t, g).parent
      /\ SetCurrent(Add(t, g), c).current = c
  BY DEF SetCurrent, Add
<1>4. c # g
  BY NoGuidAssumption DEF Tree
<1>5. Remove(SetCurrent(Add(t, g), c), g) = [parent |-> t.parent, current |-> c]
  <2>1. [h \in Listed(t) |-> t.parent[h]] = t.parent
    BY DEF Tree
  <2>2. Listed(SetCurrent(Add(t, g), c)) = Listed(Add(t, g))
    BY <1>3 DEF Listed
  <2> QED
    BY <1>1, <1>3, <1>4, <2>1, <2>2 DEF Remove
<1>6. SetCurrent(t, c) = [parent |-> t.parent, current |-> c]
  BY DEF SetCurrent, Tree
<1> QED
  BY <1>2, <1>5, <1>6 DEF Tree

\* Of a current snapshot with no other delta on it the mark is all to move.
LEMMA DelEntryRemoves ==
  ASSUME IsFiniteSet(Guids), NEW t, Tree(t), NEW g \in Listed(t),
         References(t, g) < 2
  PROVE  DelEntry(t, g) = Remove(t, g)
<1>1. CASE t.current # g
  BY <1>1 DEF DelEntry
<1>2. CASE t.current = g
  <2> DEFINE children == {h \in Listed(t) : t.parent[h] = g}
  <2>1. IsFiniteSet(children)
    BY FS_Subset DEF Tree
  <2>2. Cardinality(children) \in Nat
    BY <2>1, FS_CardinalityType
  <2>3. Cardinality(children) = 0
    BY <1>2, <2>2 DEF References
  <2>4. children = {}
    BY <2>1, <2>3, FS_EmptySet
  <2>5. \A h \in Listed(t) : t.parent[h] # g
    BY <2>4
  <2> HIDE DEF children
  <2> QED
    BY <1>2, <2>5 DEF DelEntry, Remove
<1> QED
  BY <1>1, <1>2

-----------------------------------------------------------------------------
(* What a step does to the job.                                            *)

LEMMA BeginJob ==
  ASSUME NEW op \in {"create", "switch", "delete", "start"}, NEW l \in Places,
         NEW g \in Guids \union {NoGuid}, Begin(op, l, g)
  PROVE  /\ job' \in Jobs /\ job'.pc = l
         /\ job'.op = op /\ job'.guid = g /\ job'.temp = NoGuid /\ ~job'.run
BY DEF Begin, Idle, Jobs, Places

LEMMA GotoJob ==
  ASSUME job \in Jobs, NEW l \in Places, Goto(l)
  PROVE  /\ job' \in Jobs /\ job'.pc = l
         /\ job'.op = job.op /\ job'.guid = job.guid /\ job'.temp = job.temp
         /\ job'.run = job.run
BY DEF Goto, Jobs

LEMMA ExitJob ==
  ASSUME Exit
  PROVE  /\ job' \in Jobs /\ job'.pc = "idle" /\ job'.op = "none"
         /\ job'.guid = NoGuid /\ job'.temp = NoGuid /\ ~job'.run
BY DEF Exit, Idle, Jobs, Places

SwitchPlaces == {"copyconf", "kill", "umountkilled", "undump", "switchback"}

-----------------------------------------------------------------------------
(* Types.  The images stay a tree because a job merges only an image that  *)
(* is there; and nothing is mounted away under a container because at the  *)
(* places that unmount it is known to be down.                             *)

DataInv ==
  /\ Tree(tree) /\ Tree(images)
  /\ dumps \in [Guids -> Files] /\ confs \in [Guids -> Files]
  /\ suspended \in {"none", "fresh", "stale"}

EnvInv ==
  /\ env \in {"down", "running", "frozen"} /\ mounted \in BOOLEAN
  /\ env # "down" => mounted
  /\ job.pc \in {"umount", "umountkilled", "undump"} => env = "down"
  /\ job.pc \in {"switch", "copyconf"} /\ ~job.run => env = "down"

OpInv ==
  /\ job \in Jobs
  /\ job.pc \in {"saveconf", "image", "dump", "resume", "merge"} => job.op = "create"
  /\ job.pc \in {"isrun", "freeze", "thaw"} => job.op \in {"create", "switch"}
  /\ job.pc \in {"umount", "switch", "deltemp"} \union SwitchPlaces => job.op = "switch"
  /\ job.pc \in {"remove", "unlink"} => job.op = "delete"
  /\ job.pc \in {"saveconf", "isrun", "umount"} => ~job.run
  /\ job.pc = "rename" => job.op \in {"create", "switch", "delete"}
  /\ job.op \in {"create", "switch", "delete"} => job.guid \in Guids
  /\ job.op # "switch" => job.temp = NoGuid
  /\ job.op = "switch" => (job.run <=> job.temp # NoGuid)
  /\ job.pc \in {"freeze", "deltemp", "kill", "umountkilled", "switchback"} => job.run

ImageInv ==
  /\ job.pc \in {"dump", "resume", "merge"} => job.guid \in Listed(images)
  /\ job.pc \in {"freeze", "switch"} /\ job.op = "switch" /\ job.run =>
       job.temp \in Guids \ Listed(images)
  /\ job.pc \in SwitchPlaces \union {"rename", "deltemp"} /\ job.op = "switch" /\ job.run =>
       job.temp \in Listed(images)

TypeInv == DataInv /\ EnvInv /\ OpInv /\ ImageInv

LEMMA TypeInit == Init => TypeInv
<1>1. Idle \in Jobs /\ Idle.pc = "idle" /\ Idle.op = "none" /\ Idle.temp = NoGuid
  BY DEF Idle, Jobs, Places
<1> QED
  BY <1>1, TreeNone DEF Init, TypeInv, DataInv, EnvInv, OpInv, ImageInv,
     SwitchPlaces, Files

LEMMA TypeInvTypes == TypeInv => TypeOK
BY TreeInTrees DEF TypeInv, DataInv, EnvInv, OpInv, TypeOK

LEMMA PutKept ==
  ASSUME NEW f \in [Guids -> Files], NEW g, NEW v \in Files
  PROVE  Put(f, g, v) \in [Guids -> Files]
BY DEF Put

LEMMA DisownKept ==
  ASSUME NEW f \in [Guids -> Files], NEW g
  PROVE  Disown(f, g) \in [Guids -> Files]
BY DEF Disown, Put, Files

LEMMA UnlinkedKept ==
  ASSUME NEW f \in [Guids -> Files], NEW g, NEW f2, Unlinked(f, f2, g)
  PROVE  f2 \in [Guids -> Files]
BY DEF Unlinked, Put, Files

LEMMA DataStep ==
  ASSUME TypeInv, [Next]_vars
  PROVE  DataInv'
<1> USE DEF TypeInv, DataInv, At, files, ct
<1>1. CASE \E g \in Guids : CreateSnapshot(g) \/ SwitchSnapshot(g) \/ DeleteSnapshot(g)
  BY <1>1 DEF CreateSnapshot, SwitchSnapshot, DeleteSnapshot
<1>2. CASE SaveConf
  BY <1>2, PutKept DEF SaveConf, Files
<1>3. CASE CreateImage
  <2>1. job.guid \in Guids
    BY <1>3 DEF CreateImage, OpInv
  <2>2. Tree(images')
    BY <1>3, <2>1, TreeAdd DEF CreateImage
  <2> QED
    BY <1>3, <2>2 DEF CreateImage
<1>4. CASE DumpSnapshot
  BY <1>4, PutKept DEF DumpSnapshot, Files
<1>5. CASE MergeBack
  BY <1>5, TreeRemove DEF MergeBack, ImageInv
<1>6. CASE SwitchImage
  <2>1. job.op = "switch" /\ (job.temp # NoGuid => job.temp \in Guids \ Listed(images))
    BY <1>6 DEF SwitchImage, OpInv, ImageInv
  <2>2. CASE job.guid \in Listed(images)
    <3>1. CASE job.temp = NoGuid
      <4>1. Tree(SetCurrent(images, job.guid))
        BY <2>2, TreeSetCurrent
      <4> QED
        BY <1>6, <3>1, <4>1 DEF SwitchImage, Outdated
    <3>2. CASE job.temp # NoGuid
      <4>1. Tree(Add(images, job.temp)) /\ job.guid \in Listed(Add(images, job.temp))
        BY <2>1, <2>2, <3>2, TreeAdd
      <4>2. Tree(SetCurrent(Add(images, job.temp), job.guid))
        BY <4>1, TreeSetCurrent
      <4> QED
        BY <1>6, <3>2, <4>2 DEF SwitchImage, Outdated
    <3> QED
      BY <3>1, <3>2
  <2>3. CASE job.guid \notin Listed(images)
    BY <1>6, <2>3 DEF SwitchImage
  <2> QED
    BY <2>2, <2>3
<1>7. CASE SwitchBack
  <2>1. job.temp \in Listed(images)
    BY <1>7 DEF SwitchBack, OpInv, ImageInv, SwitchPlaces
  <2>2. Tree(Remove(SetCurrent(images, job.temp), job.temp))
    BY <2>1, TreeSetCurrent, TreeRemove
  <2> QED
    BY <1>7, <2>2 DEF SwitchBack
<1>8. CASE DeleteTemp
  <2>1. job.temp \in Listed(images)
    BY <1>8 DEF DeleteTemp, OpInv, ImageInv
  <2> QED
    BY <1>8, <2>1, TreeRemove DEF DeleteTemp
<1>9. CASE RemoveImage
  <2>1. images' = images \/ (job.guid \in Listed(images) /\ images' = Remove(images, job.guid))
    BY <1>9 DEF RemoveImage
  <2>2. dumps' \in [Guids -> Files] /\ confs' \in [Guids -> Files]
    BY <1>9, DisownKept DEF RemoveImage
  <2> QED
    BY <1>9, <2>1, <2>2, TreeRemove DEF RemoveImage
<1>10. CASE UnlinkFiles
  <2>1. dumps' \in [Guids -> Files] /\ confs' \in [Guids -> Files]
    BY <1>10, UnlinkedKept DEF UnlinkFiles
  <2> QED
    BY <1>10, <2>1 DEF UnlinkFiles
<1>11. CASE Thaw
  <2>1. confs' \in [Guids -> Files]
    BY <1>11, DisownKept, UnlinkedKept DEF Thaw
  <2> QED
    BY <1>11, <2>1 DEF Thaw, Resumes, Outdated
<1>12. CASE RenameXml
  <2>1. job.op \in {"create", "switch", "delete"} /\ job.guid \in Guids
    BY <1>12 DEF RenameXml, OpInv
  <2>2. /\ Listed(Add(tree, job.guid)) = Listed(tree) \union {job.guid}
        /\ Listed(SetCurrent(tree, job.guid)) = Listed(tree)
        /\ Listed(DelEntry(tree, job.guid)) = Listed(tree) \ {job.guid}
    BY DEF Add, SetCurrent, DelEntry, Remove, Listed, Tree
  <2>3. Tree(Edited)
    BY <2>1, <2>2, StoredIsTree DEF Edited, Tree
  <2> QED
    BY <1>12, <2>3 DEF RenameXml
<1>13. CASE HostCrash
  BY <1>13, PutKept DEF HostCrash, Files
<1>14. CASE IsRun \/ Freeze \/ Resume \/ UmountDown \/ CopyConf \/ Kill
            \/ UmountKilled \/ Undump \/ RestoreSuspended
  BY <1>14 DEF IsRun, Freeze, Resume, Resumes, Outdated, UmountDown, CopyConf,
     Kill, UmountKilled, Undump, RestoreSuspended
<1>15. CASE Start \/ Suspend \/ Stop \/ ThawFrozen \/ SelfStops \/ VzctlKilled
            \/ UNCHANGED vars
  BY <1>15 DEF Start, Suspend, Stop, ThawFrozen, SelfStops, VzctlKilled, Outdated,
     vars
<1> QED
  BY <1>1, <1>2, <1>3, <1>4, <1>5, <1>6, <1>7, <1>8, <1>9, <1>10, <1>11, <1>12,
     <1>13, <1>14, <1>15
     DEF Next, JobStep, CreateStep, SwitchStep, DeleteStep

LEMMA EnvStep ==
  ASSUME TypeInv, [Next]_vars
  PROVE  EnvInv'
<1> USE DEF TypeInv, EnvInv, OpInv, At, ct
<1>0. \A l \in {"idle", "saveconf", "isrun", "freeze", "image", "dump", "resume",
                "merge", "umount", "switch", "copyconf", "kill", "umountkilled",
                "undump", "switchback", "thaw", "remove", "unlink", "rename",
                "deltemp", "start"} : l \in Places
  BY DEF Places
<1>1. CASE \E g \in Guids : CreateSnapshot(g) \/ SwitchSnapshot(g) \/ DeleteSnapshot(g)
  BY <1>0, <1>1, BeginJob DEF CreateSnapshot, SwitchSnapshot, DeleteSnapshot
<1>2. CASE SaveConf
  <2>1. job'.pc \in {"isrun", "thaw"} /\ UNCHANGED <<env, mounted>>
    BY <1>2, <1>0, GotoJob DEF SaveConf, Jobs
  <2> QED
    BY <2>1
<1>3. CASE IsRun
  <2>1. /\ UNCHANGED <<env, mounted>>
        /\ job'.pc \in {"freeze", "umount", "image"}
        /\ job'.pc = "umount" => env = "down"
    BY <1>3, <1>0, GotoJob DEF IsRun, Jobs
  <2> QED
    BY <2>1
<1>4. CASE Freeze
  <2>1. CASE Exit
    BY <1>4, <2>1, ExitJob DEF Freeze
  <2>2. CASE \E l \in {"image", "switch", "thaw"} : Goto(l)
    <3>1. job'.pc \in {"image", "switch", "thaw"} /\ job'.run
      BY <1>0, <1>4, <2>2, GotoJob DEF Freeze
    <3> QED
      BY <1>4, <3>1 DEF Freeze
  <2> QED
    BY <1>4, <2>1, <2>2 DEF Freeze
<1>5. CASE Thaw \/ DeleteTemp \/ RestoreSuspended \/ VzctlKilled \/ HostCrash
  BY <1>5, ExitJob DEF Thaw, Resumes, DeleteTemp, RestoreSuspended, VzctlKilled,
     HostCrash, Exit
<1>6. CASE CreateImage \/ DumpSnapshot \/ Resume \/ MergeBack \/ SwitchBack \/ UnlinkFiles
  <2>1. \E l \in {"dump", "rename", "thaw", "resume", "merge"} : Goto(l)
    BY <1>6 DEF CreateImage, DumpSnapshot, Resume, MergeBack, SwitchBack, UnlinkFiles
  <2>2. job'.pc \in {"dump", "rename", "thaw", "resume", "merge"}
    BY <1>0, <2>1, GotoJob
  <2> QED
    BY <1>6, <2>2 DEF CreateImage, DumpSnapshot, Resume, Resumes, MergeBack,
       SwitchBack, UnlinkFiles
<1>7. CASE UmountDown
  <2>1. CASE Exit
    BY <1>7, <2>1, ExitJob DEF UmountDown
  <2>2. CASE Goto("switch") /\ mounted' = FALSE
    BY <1>0, <1>7, <2>2, GotoJob DEF UmountDown
  <2> QED
    BY <1>7, <2>1, <2>2 DEF UmountDown
<1>8. CASE SwitchImage
  BY <1>0, <1>8, GotoJob DEF SwitchImage
<1>9. CASE CopyConf
  <2>1. CASE Goto("thaw")
    BY <1>0, <1>9, <2>1, GotoJob DEF CopyConf
  <2>2. CASE Goto("kill")
    BY <1>0, <1>9, <2>2, GotoJob DEF CopyConf
  <2>3. CASE ~job.run /\ Goto("undump")
    BY <1>0, <1>9, <2>3, GotoJob DEF CopyConf
  <2> QED
    BY <1>9, <2>1, <2>2, <2>3 DEF CopyConf
<1>10. CASE Kill
  BY <1>0, <1>10, GotoJob DEF Kill
<1>11. CASE UmountKilled
  BY <1>0, <1>11, GotoJob DEF UmountKilled
<1>12. CASE Undump
  BY <1>0, <1>12, GotoJob DEF Undump
<1>13. CASE RemoveImage
  <2>1. Exit \/ Goto("unlink")
    BY <1>13 DEF RemoveImage
  <2>2. job'.pc \in {"idle", "unlink"}
    BY <1>0, <2>1, ExitJob, GotoJob
  <2> QED
    BY <1>13, <2>2 DEF RemoveImage
<1>14. CASE RenameXml
  <2>1. Exit \/ Goto("deltemp")
    BY <1>14 DEF RenameXml
  <2>2. job'.pc \in {"idle", "deltemp"}
    BY <1>0, <2>1, ExitJob, GotoJob
  <2> QED
    BY <1>14, <2>2 DEF RenameXml
<1>15. CASE Start
  <2>1. CASE job' = job
    BY <1>15, <2>1 DEF Start
  <2>2. CASE Begin("start", "start", NoGuid)
    BY <1>0, <1>15, <2>2, BeginJob DEF Start
  <2> QED
    BY <1>15, <2>1, <2>2 DEF Start
<1>16. CASE Suspend \/ Stop \/ ThawFrozen \/ SelfStops \/ UNCHANGED vars
  BY <1>16 DEF Suspend, Stop, ThawFrozen, SelfStops, vars
<1> QED
  BY <1>1, <1>2, <1>3, <1>4, <1>5, <1>6, <1>7, <1>8, <1>9, <1>10, <1>11, <1>12,
     <1>13, <1>14, <1>15, <1>16
     DEF Next, JobStep, CreateStep, SwitchStep, DeleteStep

\* Steps that begin a job or end one.
LEMMA BeginTypes ==
  ASSUME TypeInv, NEW g \in Guids,
         CreateSnapshot(g) \/ SwitchSnapshot(g) \/ DeleteSnapshot(g)
  PROVE  OpInv' /\ ImageInv'
<1> USE DEF TypeInv, OpInv, ImageInv, SwitchPlaces, At
<1>0. {"saveconf", "isrun", "remove"} \subseteq Places
  BY DEF Places
<1>1. CASE CreateSnapshot(g)
  BY <1>0, <1>1, BeginJob DEF CreateSnapshot
<1>2. CASE SwitchSnapshot(g)
  BY <1>0, <1>2, BeginJob DEF SwitchSnapshot
<1>3. CASE DeleteSnapshot(g)
  BY <1>0, <1>3, BeginJob DEF DeleteSnapshot
<1> QED
  BY <1>1, <1>2, <1>3

LEMMA IdleTypes ==
  ASSUME job' \in Jobs, job'.pc = "idle", job'.op = "none", job'.temp = NoGuid
  PROVE  OpInv' /\ ImageInv'
BY DEF OpInv, ImageInv, SwitchPlaces

LEMMA JobTypes ==
  ASSUME TypeInv, JobStep
  PROVE  OpInv' /\ ImageInv'
<1> USE DEF TypeInv, OpInv, ImageInv, SwitchPlaces, At
<1>0. \A l \in {"idle", "saveconf", "isrun", "freeze", "image", "dump", "resume",
                "merge", "umount", "switch", "copyconf", "kill", "umountkilled",
                "undump", "switchback", "thaw", "remove", "unlink", "rename",
                "deltemp", "start"} : l \in Places
  BY DEF Places
<1>1. CASE SaveConf
  <2>1. /\ job' \in Jobs /\ job'.pc \in {"isrun", "thaw"}
        /\ job'.op = job.op /\ job'.guid = job.guid /\ job'.temp = job.temp
        /\ job'.run = job.run
    <3>1. CASE Goto("isrun")
      BY <1>0, <3>1, GotoJob
    <3>2. CASE job' = [job EXCEPT !.pc = "isrun", !.saved = TRUE]
      BY <1>0, <3>2 DEF Jobs
    <3>3. CASE job' = [job EXCEPT !.pc = "thaw", !.saved = TRUE]
      BY <1>0, <3>3 DEF Jobs
    <3> QED
      BY <1>1, <3>1, <3>2, <3>3 DEF SaveConf
  <2> QED
    BY <1>1, <2>1 DEF SaveConf
<1>2. CASE IsRun
  <2>1. CASE job.op = "switch" /\ Goto("umount")
    BY <1>0, <1>2, <2>1, GotoJob DEF IsRun
  <2>2. CASE job.op = "create" /\ Goto("image")
    BY <1>0, <1>2, <2>2, GotoJob DEF IsRun
  <2>3. ASSUME NEW t \in Guids \union {NoGuid},
               IF job.op = "switch"
                 THEN t \in Guids \ (Listed(images) \union Listed(tree))
                 ELSE t = NoGuid,
               job' = [job EXCEPT !.pc = "freeze", !.run = TRUE, !.temp = t]
        PROVE  OpInv' /\ ImageInv'
    <3>1. /\ job' \in Jobs /\ job'.pc = "freeze"
          /\ job'.op = job.op /\ job'.guid = job.guid /\ job'.temp = t
          /\ job'.run
      BY <1>0, <2>3 DEF Jobs
    <3> QED
      BY <1>2, <2>3, <3>1, NoGuidAssumption DEF IsRun
  <2> QED
    BY <1>2, <2>1, <2>2, <2>3 DEF IsRun
<1>3. CASE Freeze
  <2>1. CASE Exit
    BY <2>1, ExitJob, IdleTypes
  <2>2. CASE job.op = "create" /\ (Goto("image") \/ Goto("thaw"))
    BY <1>0, <1>3, <2>2, GotoJob DEF Freeze
  <2>3. CASE job.op # "create" /\ Goto("switch")
    BY <1>0, <1>3, <2>3, GotoJob DEF Freeze
  <2> QED
    BY <1>3, <2>1, <2>2, <2>3 DEF Freeze
<1>4. CASE Thaw \/ RestoreSuspended \/ DeleteTemp
  BY <1>4, ExitJob, IdleTypes DEF Thaw, RestoreSuspended, DeleteTemp
<1>5. CASE CreateImage
  <2>1. CASE Goto("thaw")
    BY <1>0, <1>5, <2>1, GotoJob DEF CreateImage
  <2>2. CASE /\ job.guid \notin Listed(images) /\ images' = Add(images, job.guid)
             /\ Goto(IF job.run THEN "dump" ELSE "rename")
    <3>1. job.guid \in Listed(images')
      BY <2>2 DEF Add, Listed
    <3> QED
      BY <1>0, <1>5, <2>2, <3>1, GotoJob DEF CreateImage
  <2> QED
    BY <1>5, <2>1, <2>2 DEF CreateImage
<1>6. CASE DumpSnapshot \/ Resume
  BY <1>0, <1>6, GotoJob DEF DumpSnapshot, Resume
<1>7. CASE MergeBack
  BY <1>0, <1>7, GotoJob DEF MergeBack
<1>8. CASE UmountDown
  <2>1. CASE Exit
    BY <2>1, ExitJob, IdleTypes
  <2>2. CASE Goto("switch")
    <3>1. ~job.run
      BY <1>8 DEF UmountDown
    <3> QED
      BY <1>0, <1>8, <2>2, <3>1, GotoJob DEF UmountDown
  <2> QED
    BY <1>8, <2>1, <2>2 DEF UmountDown
<1>9. CASE SwitchImage
  <2>1. CASE Goto("thaw")
    BY <1>0, <1>9, <2>1, GotoJob DEF SwitchImage
  <2>2. CASE /\ images' = SetCurrent(IF job.temp = NoGuid THEN images
                                     ELSE Add(images, job.temp), job.guid)
             /\ Goto("copyconf")
    <3>1. job.run => job.temp \in Listed(images')
      BY <1>9, <2>2 DEF SwitchImage, SetCurrent, Add, Listed
    <3> QED
      BY <1>0, <1>9, <2>2, <3>1, GotoJob DEF SwitchImage
  <2> QED
    BY <1>9, <2>1, <2>2 DEF SwitchImage
<1>10. CASE CopyConf
  BY <1>0, <1>10, GotoJob DEF CopyConf
<1>11. CASE Kill
  BY <1>0, <1>11, GotoJob DEF Kill
<1>12. CASE UmountKilled
  BY <1>0, <1>12, GotoJob DEF UmountKilled
<1>13. CASE Undump
  BY <1>0, <1>13, GotoJob DEF Undump
<1>14. CASE SwitchBack
  BY <1>0, <1>14, GotoJob DEF SwitchBack
<1>15. CASE RemoveImage
  <2>1. CASE Exit
    BY <2>1, ExitJob, IdleTypes
  <2>2. CASE Goto("unlink")
    BY <1>0, <1>15, <2>2, GotoJob DEF RemoveImage
  <2> QED
    BY <1>15, <2>1, <2>2 DEF RemoveImage
<1>16. CASE UnlinkFiles
  BY <1>0, <1>16, GotoJob DEF UnlinkFiles
<1>17. CASE RenameXml
  <2>1. CASE Exit
    BY <2>1, ExitJob, IdleTypes
  <2>2. CASE job.temp # NoGuid /\ Goto("deltemp")
    BY <1>0, <1>17, <2>2, GotoJob DEF RenameXml
  <2> QED
    BY <1>17, <2>1, <2>2 DEF RenameXml
<1> QED
  BY <1>1, <1>2, <1>3, <1>4, <1>5, <1>6, <1>7, <1>8, <1>9, <1>10, <1>11, <1>12,
     <1>13, <1>14, <1>15, <1>16, <1>17
     DEF JobStep, CreateStep, SwitchStep, DeleteStep

LEMMA TypeStep ==
  ASSUME TypeInv, [Next]_vars
  PROVE  TypeInv'
<1>1. OpInv' /\ ImageInv'
  <2>1. CASE \E g \in Guids : CreateSnapshot(g) \/ SwitchSnapshot(g) \/ DeleteSnapshot(g)
    BY <2>1, BeginTypes
  <2>2. CASE JobStep
    BY <2>2, JobTypes
  <2>3. CASE Start
    <3>1. "start" \in Places
      BY DEF Places
    <3>2. images' = images /\ (job' = job \/ Begin("start", "start", NoGuid))
      BY <2>3 DEF Start
    <3>3. CASE job' = job
      BY <3>2, <3>3 DEF TypeInv, OpInv, ImageInv
    <3>4. CASE Begin("start", "start", NoGuid)
      BY <3>1, <3>4, BeginJob DEF OpInv, ImageInv, SwitchPlaces
    <3> QED
      BY <3>2, <3>3, <3>4
  <2>4. CASE VzctlKilled \/ HostCrash
    <3>1. Exit
      BY <2>4 DEF VzctlKilled, HostCrash, Exit
    <3> QED
      BY <3>1, ExitJob, IdleTypes
  <2>5. CASE Suspend \/ Stop \/ ThawFrozen \/ SelfStops \/ UNCHANGED vars
    <3>1. UNCHANGED <<job, images>>
      BY <2>5 DEF Suspend, Stop, ThawFrozen, SelfStops, vars
    <3> QED
      BY <3>1 DEF TypeInv, OpInv, ImageInv
  <2> QED
    BY <2>1, <2>2, <2>3, <2>4, <2>5 DEF Next
<1> QED
  BY <1>1, DataStep, EnvStep DEF TypeInv

(* Whatever calls fail and whenever vzctl is killed or the host crashes,   *)
(* Snapshots.xml reads back as a tree, and a container that exists is      *)
(* mounted.                                                                *)
THEOREM TypeCorrect == Spec => []TypeOK
BY TypeInit, TypeStep, TypeInvTypes, PTL DEF Spec

-----------------------------------------------------------------------------
(* A frozen container.  That none is left behind is not inductive: one must *)
(* know at which places of a job the container may be frozen, and that the  *)
(* job remembers that it has frozen it, or it would not resume it.          *)

FrozenPlaces ==
  {"image", "dump", "resume", "merge", "switch", "copyconf", "kill",
   "switchback", "thaw"}

FrozenInv ==
  /\ job \in Jobs
  /\ env \in {"down", "running", "frozen"}
  /\ At("freeze") => job.run
  /\ env = "frozen" => job.run /\ job.pc \in FrozenPlaces

\* Every failure that is not one of the resume itself, and no killed vzctl.
ResumeWorks == "resume" \notin Faults /\ ~CanCrash

LEMMA CreateStepFrozen ==
  ASSUME FrozenInv, ResumeWorks, CreateStep
  PROVE  FrozenInv'
<1> USE DEF FrozenInv, FrozenPlaces, At, ct
<1>0. \A l \in FrozenPlaces \union {"isrun", "rename"} : l \in Places
  BY DEF Places
<1>1. CASE SaveConf
  <2>1. env' = env /\ env # "frozen"
    BY <1>1 DEF SaveConf
  <2>2. job' \in Jobs /\ job'.pc \in {"isrun", "thaw"}
    BY <1>0, <1>1, GotoJob DEF SaveConf, Jobs
  <2> QED
    BY <2>1, <2>2
<1>2. CASE CreateImage
  <2>1. env' = env
    BY <1>2 DEF CreateImage
  <2>2. CASE Goto(IF job.run THEN "dump" ELSE "rename")
    BY <1>0, <2>1, <2>2, GotoJob
  <2>3. CASE Goto("thaw")
    BY <1>0, <1>2, <2>1, <2>3, GotoJob DEF CreateImage
  <2> QED
    BY <1>2, <2>2, <2>3 DEF CreateImage
<1>3. CASE DumpSnapshot
  BY <1>0, <1>3, GotoJob DEF DumpSnapshot
<1>4. CASE Resume
  <2>1. env' \in {"down", "running"}
    BY <1>4 DEF Resume, Resumes, Fault, ResumeWorks
  <2> QED
    BY <1>0, <1>4, <2>1, GotoJob DEF Resume
<1>5. CASE MergeBack
  BY <1>0, <1>5, GotoJob DEF MergeBack
<1> QED
  BY <1>1, <1>2, <1>3, <1>4, <1>5 DEF CreateStep

LEMMA SwitchStepFrozen ==
  ASSUME FrozenInv, SwitchStep
  PROVE  FrozenInv'
<1> USE DEF FrozenInv, FrozenPlaces, At, ct
<1>0. \A l \in FrozenPlaces \union {"umountkilled", "undump", "rename"} : l \in Places
  BY DEF Places
<1>1. CASE UmountDown
  <2>1. env' = env /\ env # "frozen"
    BY <1>1 DEF UmountDown
  <2>2. job' \in Jobs /\ job'.pc \in {"switch", "idle"}
    BY <1>0, <1>1, GotoJob, ExitJob DEF UmountDown
  <2> QED
    BY <2>1, <2>2
<1>2. CASE SwitchImage
  <2>1. env' = env /\ job.pc = "switch"
    BY <1>2 DEF SwitchImage
  <2>2. job' \in Jobs /\ job'.run = job.run /\ job'.pc \in {"copyconf", "thaw"}
    BY <1>0, <1>2, GotoJob DEF SwitchImage
  <2> QED
    BY <2>1, <2>2
<1>3. CASE CopyConf
  <2>1. env' = env
    BY <1>3 DEF CopyConf
  <2>2. CASE Goto(IF job.run THEN "kill" ELSE "undump")
    BY <1>0, <2>1, <2>2, GotoJob
  <2>3. CASE Goto("thaw")
    BY <1>0, <1>3, <2>1, <2>3, GotoJob DEF CopyConf
  <2> QED
    BY <1>3, <2>2, <2>3 DEF CopyConf
<1>4. CASE Kill
  BY <1>0, <1>4, GotoJob DEF Kill
<1>5. CASE UmountKilled
  BY <1>0, <1>5, GotoJob DEF UmountKilled
<1>6. CASE Undump
  <2>1. env' \in {"down", "running"}
    BY <1>6 DEF Undump
  <2> QED
    BY <1>0, <1>6, <2>1, GotoJob DEF Undump
<1>7. CASE DeleteTemp
  BY <1>7, ExitJob DEF DeleteTemp
<1>8. CASE SwitchBack
  BY <1>0, <1>8, GotoJob DEF SwitchBack
<1> QED
  BY <1>1, <1>2, <1>3, <1>4, <1>5, <1>6, <1>7, <1>8 DEF SwitchStep

\* The steps that both commands take, the delete and the start.
LEMMA JobStepFrozen ==
  ASSUME FrozenInv, ResumeWorks, JobStep
  PROVE  FrozenInv'
<1> USE DEF FrozenInv, FrozenPlaces, At, ct
<1>0. {"freeze", "umount", "image", "switch", "thaw", "deltemp", "unlink", "rename"}
        \subseteq Places
  BY DEF Places
<1>1. CASE CreateStep \/ SwitchStep
  BY <1>1, CreateStepFrozen, SwitchStepFrozen
<1>2. CASE DeleteStep
  <2>1. env' = env /\ env # "frozen"
    BY <1>2 DEF DeleteStep, RemoveImage, UnlinkFiles
  <2>2. job' \in Jobs /\ job'.pc \in {"unlink", "rename", "idle"}
    BY <1>0, <1>2, GotoJob, ExitJob DEF DeleteStep, RemoveImage, UnlinkFiles
  <2> QED
    BY <2>1, <2>2
<1>3. CASE IsRun
  <2>1. env' = env /\ env # "frozen"
    BY <1>3 DEF IsRun
  <2>2. job' \in Jobs /\ job'.pc \in {"freeze", "umount", "image"}
    BY <1>0, <1>3, GotoJob DEF IsRun, Jobs
  <2>3. job'.pc = "freeze" => job'.run
    BY <1>0, <1>3, GotoJob DEF IsRun, Jobs
  <2> QED
    BY <2>1, <2>2, <2>3
<1>4. CASE Freeze
  <2>1. CASE env' = "frozen" /\ Goto(IF job.op = "create" THEN "image" ELSE "switch")
    BY <1>0, <1>4, <2>1, GotoJob DEF Freeze
  <2>2. CASE UNCHANGED env /\ (IF job.op = "create" THEN Goto("thaw") ELSE Exit)
    <3>1. env # "frozen"
      BY <1>4 DEF Freeze
    <3> QED
      BY <1>0, <2>2, <3>1, GotoJob, ExitJob
  <2> QED
    BY <1>4, <2>1, <2>2 DEF Freeze
<1>5. CASE Thaw
  <2>1. env' \in {"down", "running"}
    BY <1>5 DEF Thaw, Resumes, Fault, ResumeWorks
  <2> QED
    BY <1>5, <2>1, ExitJob DEF Thaw
<1>6. CASE RenameXml
  <2>1. env' = env /\ env # "frozen"
    BY <1>6 DEF RenameXml
  <2>2. job' \in Jobs /\ job'.pc \in {"deltemp", "idle"}
    BY <1>0, <1>6, GotoJob, ExitJob DEF RenameXml
  <2> QED
    BY <2>1, <2>2
<1>7. CASE RestoreSuspended
  BY <1>7, ExitJob DEF RestoreSuspended
<1> QED
  BY <1>1, <1>2, <1>3, <1>4, <1>5, <1>6, <1>7 DEF JobStep

LEMMA FrozenStep ==
  ASSUME FrozenInv, ResumeWorks, [Next]_vars
  PROVE  FrozenInv'
<1> USE DEF FrozenInv, FrozenPlaces, At, ct
<1>0. {"saveconf", "isrun", "remove", "start"} \subseteq Places
  BY DEF Places
<1>1. CASE \E g \in Guids : CreateSnapshot(g) \/ SwitchSnapshot(g) \/ DeleteSnapshot(g)
  <2>1. PICK g \in Guids : CreateSnapshot(g) \/ SwitchSnapshot(g) \/ DeleteSnapshot(g)
    BY <1>1
  <2>2. env' = env /\ env # "frozen"
    BY <2>1 DEF CreateSnapshot, SwitchSnapshot, DeleteSnapshot
  <2>3. job' \in Jobs /\ job'.pc \in {"saveconf", "isrun", "remove"}
    BY <1>0, <2>1, BeginJob DEF CreateSnapshot, SwitchSnapshot, DeleteSnapshot
  <2> QED
    BY <2>2, <2>3
<1>2. CASE JobStep
  BY <1>2, JobStepFrozen
<1>3. CASE Start
  <2>1. env' \in {"down", "running"}
    BY <1>3 DEF Start
  <2>2. job' = job \/ (job' \in Jobs /\ job'.pc = "start")
    BY <1>0, <1>3, BeginJob DEF Start
  <2> QED
    BY <1>3, <2>1, <2>2 DEF Start
<1>4. CASE Suspend \/ Stop \/ ThawFrozen \/ SelfStops
  BY <1>4 DEF Suspend, Stop, ThawFrozen, SelfStops
<1>5. CASE VzctlKilled \/ HostCrash
  BY <1>5 DEF VzctlKilled, HostCrash, ResumeWorks
<1>6. CASE UNCHANGED vars
  BY <1>6 DEF vars
<1> QED
  BY <1>1, <1>2, <1>3, <1>4, <1>5, <1>6 DEF Next

LEMMA FrozenInit == Init => FrozenInv
BY DEF Init, FrozenInv, Idle, Jobs, Places, At

(* However snapshot and snapshot-switch fail, a container that they have   *)
(* frozen runs again, or is down, when they end, as long as the kernel     *)
(* resumes it when told to and vzctl is not killed: each error path of     *)
(* src/snapshot.c that is taken after the freeze passes by the resume.     *)
THEOREM FrozenIsThawed ==
  ASSUME ResumeWorks
  PROVE  Spec => []NoneLeftFrozen
<1>1. FrozenInv => NoneLeftFrozen
  BY DEF FrozenInv, FrozenPlaces, NoneLeftFrozen, At
<1>2. FrozenInv /\ [Next]_vars => FrozenInv'
  BY ResumeWorks, FrozenStep
<1> QED
  BY <1>1, <1>2, FrozenInit, PTL DEF Spec

-----------------------------------------------------------------------------
(* Snapshots.xml and the images.  Between the call of libploop and the     *)
(* rename of Snapshots.xml they differ; the job knows by what.             *)

\* The failures that the commands handle, and no killed vzctl.
Handled ==
  /\ {"rename", "rollback", "copy"} \intersect Faults = {}
  /\ ~CanCrash /\ ~DeletesShared /\ IsFiniteSet(Guids)

\* snapshot has made its image.
CreateAhead ==
  /\ job.guid \in Guids \ Listed(tree) /\ job.temp = NoGuid
  /\ images = Add(tree, job.guid)

\* snapshot-switch has switched, and kept the old top delta of a running one.
SwitchAhead ==
  /\ job.guid \in Listed(tree)
  /\ job.run <=> job.temp # NoGuid
  /\ job.run => job.temp \in Guids \ Listed(tree)
  /\ images = SetCurrent(IF job.run THEN Add(tree, job.temp) ELSE tree, job.guid)

\* snapshot-delete has merged the image.
DeleteAhead ==
  /\ job.guid \in Listed(tree) /\ job.temp = NoGuid
  /\ images = Remove(tree, job.guid)
  /\ DelEntry(tree, job.guid) = Remove(tree, job.guid)

BeforePlaces == {"idle", "saveconf", "isrun", "freeze", "image", "umount",
                 "switch", "thaw", "remove", "start"}
CreatePlaces == {"dump", "resume", "merge"}

\* What a job that has not called libploop knows.
JobInv ==
  /\ job.pc \in {"saveconf", "image"} =>
       job.op = "create" /\ job.guid \in Guids \ Listed(tree) /\ job.temp = NoGuid
  /\ job.pc \in {"umount", "switch"} =>
       /\ job.op = "switch" /\ job.guid \in Listed(tree)
       /\ job.run <=> job.temp # NoGuid
       /\ job.run => job.temp \in Guids \ Listed(tree)
  /\ job.pc \in {"isrun", "freeze"} =>
       \/ job.op = "create" /\ job.guid \in Guids \ Listed(tree) /\ job.temp = NoGuid
       \/ /\ job.op = "switch" /\ job.guid \in Listed(tree)
          /\ job.run <=> job.temp # NoGuid
          /\ job.run => job.temp \in Guids \ Listed(tree)
  /\ job.pc = "remove" =>
       job.op = "delete" /\ job.guid \in Listed(tree) /\ job.temp = NoGuid
  /\ job.pc \in {"kill", "umountkilled", "switchback"} => job.run

AheadInv ==
  /\ job.pc \in BeforePlaces => images = tree
  /\ job.pc \in CreatePlaces => job.op = "create" /\ CreateAhead
  /\ job.pc \in SwitchPlaces => job.op = "switch" /\ SwitchAhead
  /\ job.pc = "unlink" => job.op = "delete" /\ DeleteAhead
  /\ job.pc = "rename" =>
       \/ job.op = "create" /\ CreateAhead
       \/ job.op = "switch" /\ SwitchAhead
       \/ job.op = "delete" /\ DeleteAhead
  /\ job.pc = "deltemp" =>
       Remove(images, job.temp) = tree

MatchInv ==
  /\ job \in Jobs /\ Tree(tree)
  /\ JobInv /\ AheadInv

LEMMA MatchInit == Init => MatchInv
<1>1. Idle \in Jobs /\ Idle.pc = "idle"
  BY DEF Idle, Jobs, Places
<1> QED
  BY <1>1, TreeNone DEF Init, MatchInv, JobInv, AheadInv, BeforePlaces,
     CreatePlaces, SwitchPlaces

LEMMA BeginMatch ==
  ASSUME MatchInv, NEW g \in Guids,
         CreateSnapshot(g) \/ SwitchSnapshot(g) \/ DeleteSnapshot(g)
  PROVE  MatchInv'
<1> USE DEF MatchInv, JobInv, AheadInv, BeforePlaces, CreatePlaces, SwitchPlaces, At
<1>0. {"saveconf", "isrun", "remove"} \subseteq Places
  BY DEF Places
<1>1. CASE CreateSnapshot(g)
  <2>1. Begin("create", "saveconf", g) /\ UNCHANGED <<tree, images>>
    BY <1>1 DEF CreateSnapshot
  <2> QED
    BY <1>0, <1>1, <2>1, BeginJob DEF CreateSnapshot
<1>2. CASE SwitchSnapshot(g)
  <2>1. Begin("switch", "isrun", g) /\ UNCHANGED <<tree, images>>
    BY <1>2 DEF SwitchSnapshot
  <2> QED
    BY <1>0, <1>2, <2>1, BeginJob DEF SwitchSnapshot
<1>3. CASE DeleteSnapshot(g)
  <2>1. Begin("delete", "remove", g) /\ UNCHANGED <<tree, images>>
    BY <1>3 DEF DeleteSnapshot
  <2> QED
    BY <1>0, <1>3, <2>1, BeginJob DEF DeleteSnapshot
<1> QED
  BY <1>1, <1>2, <1>3

\* Steps that leave the tree and the images alone.
LEMMA QuietMatch ==
  ASSUME MatchInv, Handled, UNCHANGED <<tree, images>>,
         SaveConf \/ IsRun \/ Freeze \/ Thaw \/ DumpSnapshot \/ Resume
         \/ UmountDown \/ CopyConf \/ Kill \/ UmountKilled \/ Undump
         \/ UnlinkFiles \/ RestoreSuspended \/ Start
  PROVE  MatchInv'
<1> USE DEF MatchInv, JobInv, AheadInv, BeforePlaces, CreatePlaces,
            SwitchPlaces, At, CreateAhead, SwitchAhead, DeleteAhead
<1>0. \A l \in {"idle", "saveconf", "isrun", "freeze", "image", "dump", "resume",
                "merge", "umount", "switch", "copyconf", "kill", "umountkilled",
                "undump", "switchback", "thaw", "unlink", "rename", "start"} :
        l \in Places
  BY DEF Places
<1>1. CASE SaveConf
  <2>1. Goto("isrun") \/ job' = [job EXCEPT !.pc = "isrun", !.saved = TRUE]
    BY <1>1 DEF SaveConf, Handled, Fault
  <2>2. CASE Goto("isrun")
    BY <1>0, <1>1, <2>2, GotoJob DEF SaveConf
  <2>3. CASE job' = [job EXCEPT !.pc = "isrun", !.saved = TRUE]
    <3>1. /\ job' \in Jobs /\ job'.pc = "isrun"
          /\ job'.op = job.op /\ job'.guid = job.guid /\ job'.temp = job.temp
          /\ job'.run = job.run
      BY <1>0, <2>3 DEF Jobs
    <3> QED
      BY <1>1, <3>1 DEF SaveConf
  <2> QED
    BY <2>1, <2>2, <2>3
<1>2. CASE IsRun
  <2>1. CASE Goto("umount") /\ job.op = "switch"
    BY <1>0, <1>2, <2>1, GotoJob DEF IsRun
  <2>2. CASE Goto("image") /\ job.op = "create"
    BY <1>0, <1>2, <2>2, GotoJob DEF IsRun
  <2>3. ASSUME NEW t \in Guids \union {NoGuid},
               IF job.op = "switch"
                 THEN t \in Guids \ (Listed(images) \union Listed(tree))
                 ELSE t = NoGuid,
               job' = [job EXCEPT !.pc = "freeze", !.run = TRUE, !.temp = t]
        PROVE  MatchInv'
    <3>1. /\ job' \in Jobs /\ job'.pc = "freeze"
          /\ job'.op = job.op /\ job'.guid = job.guid /\ job'.temp = t
          /\ job'.run
      BY <1>0, <2>3 DEF Jobs
    <3> QED
      BY <1>2, <2>3, <3>1, NoGuidAssumption DEF IsRun
  <2> QED
    BY <1>2, <2>1, <2>2, <2>3 DEF IsRun
<1>3. CASE Freeze
  <2>1. CASE Exit
    BY <1>3, <2>1, ExitJob DEF Freeze
  <2>2. CASE job.op = "create" /\ (Goto("image") \/ Goto("thaw"))
    BY <1>0, <1>3, <2>2, GotoJob DEF Freeze
  <2>3. CASE job.op # "create" /\ Goto("switch")
    BY <1>0, <1>3, <2>3, GotoJob DEF Freeze
  <2> QED
    BY <1>3, <2>1, <2>2, <2>3 DEF Freeze
<1>4. CASE Thaw \/ RestoreSuspended
  BY <1>4, ExitJob DEF Thaw, RestoreSuspended
<1>5. CASE DumpSnapshot
  BY <1>0, <1>5, GotoJob DEF DumpSnapshot
<1>6. CASE Resume
  BY <1>0, <1>6, GotoJob DEF Resume
<1>7. CASE UmountDown
  <2>1. CASE Exit
    BY <1>7, <2>1, ExitJob DEF UmountDown
  <2>2. CASE Goto("switch")
    BY <1>0, <1>7, <2>2, GotoJob DEF UmountDown
  <2> QED
    BY <1>7, <2>1, <2>2 DEF UmountDown
<1>8. CASE CopyConf
  <2>1. Goto(IF job.run THEN "kill" ELSE "undump")
    BY <1>8 DEF CopyConf, Handled, Fault
  <2> QED
    BY <1>0, <1>8, <2>1, GotoJob DEF CopyConf
<1>9. CASE Kill
  BY <1>0, <1>9, GotoJob DEF Kill
<1>10. CASE UmountKilled
  BY <1>0, <1>10, GotoJob DEF UmountKilled
<1>11. CASE Undump
  BY <1>0, <1>11, GotoJob DEF Undump
<1>12. CASE UnlinkFiles
  BY <1>0, <1>12, GotoJob DEF UnlinkFiles
<1>13. CASE Start
  <2>1. CASE job' = job
    BY <2>1
  <2>2. CASE Begin("start", "start", NoGuid)
    BY <1>0, <1>13, <2>2, BeginJob DEF Start
  <2> QED
    BY <1>13, <2>1, <2>2 DEF Start
<1> QED
  BY <1>1, <1>2, <1>3, <1>4, <1>5, <1>6, <1>7, <1>8, <1>9, <1>10, <1>11,
     <1>12, <1>13

\* Calls of libploop, from a state in which both agree and back to one.
LEMMA ImageMatch ==
  ASSUME MatchInv, Handled,
         CreateImage \/ MergeBack \/ SwitchImage \/ SwitchBack \/ DeleteTemp
         \/ RemoveImage
  PROVE  MatchInv'
<1> USE DEF MatchInv, JobInv, AheadInv, BeforePlaces, CreatePlaces,
            SwitchPlaces, At
<1>0. \A l \in {"dump", "thaw", "copyconf", "unlink", "rename"} : l \in Places
  BY DEF Places
<1>1. CASE CreateImage
  <2>1. CASE Goto("thaw") /\ images' = images
    BY <1>0, <1>1, <2>1, GotoJob DEF CreateImage
  <2>2. CASE /\ images' = Add(images, job.guid)
             /\ Goto(IF job.run THEN "dump" ELSE "rename")
    BY <1>0, <1>1, <2>2, GotoJob DEF CreateImage, CreateAhead
  <2> QED
    BY <1>1, <2>1, <2>2 DEF CreateImage
<1>2. CASE MergeBack
  <2>1. images' = Remove(images, job.guid) /\ Goto("thaw") /\ tree' = tree
    BY <1>2 DEF MergeBack, Handled, Fault
  <2>2. Remove(Add(tree, job.guid), job.guid) = tree
    BY <1>2, RemoveAdded DEF MergeBack, CreateAhead
  <2> QED
    BY <1>0, <1>2, <2>1, <2>2, GotoJob DEF MergeBack, CreateAhead
<1>3. CASE SwitchImage
  <2>1. CASE Goto("thaw") /\ images' = images
    BY <1>0, <1>3, <2>1, GotoJob DEF SwitchImage
  <2>2. CASE /\ images' = SetCurrent(IF job.temp = NoGuid THEN images
                                     ELSE Add(images, job.temp), job.guid)
             /\ Goto("copyconf")
    BY <1>0, <1>3, <2>2, GotoJob DEF SwitchImage, SwitchAhead
  <2> QED
    BY <1>3, <2>1, <2>2 DEF SwitchImage
<1>4. CASE SwitchBack
  <2>1. /\ images' = Remove(SetCurrent(images, job.temp), job.temp)
        /\ Goto("thaw") /\ tree' = tree /\ job.run
    BY <1>4 DEF SwitchBack, Handled, Fault
  <2>2. images = SetCurrent(Add(tree, job.temp), job.guid)
        /\ job.temp \in Guids \ Listed(tree)
    BY <1>4, <2>1 DEF SwitchBack, SwitchAhead
  <2>3. SetCurrent(images, job.temp) = Add(tree, job.temp)
    <3>1. /\ images.parent = Add(tree, job.temp).parent
          /\ images = [parent |-> images.parent, current |-> job.guid]
      BY <2>2 DEF SetCurrent, Add
    <3>2. SetCurrent(images, job.temp) = [parent |-> images.parent, current |-> job.temp]
      BY <3>1 DEF SetCurrent
    <3> QED
      BY <3>1, <3>2 DEF Add
  <2>4. images' = tree
    BY <2>1, <2>2, <2>3, RemoveAdded
  <2> QED
    BY <1>0, <2>1, <2>4, GotoJob
<1>5. CASE DeleteTemp
  <2>1. images' = Remove(images, job.temp) /\ Exit /\ tree' = tree
    BY <1>5 DEF DeleteTemp, Handled, Fault
  <2> QED
    BY <1>5, <2>1, ExitJob DEF DeleteTemp
<1>6. CASE RemoveImage
  <2>1. CASE Exit /\ images' = images
    BY <1>6, <2>1, ExitJob DEF RemoveImage
  <2>2. CASE /\ References(images, job.guid) < 2
             /\ images' = Remove(images, job.guid) /\ Goto("unlink")
    <3>1. DelEntry(tree, job.guid) = Remove(tree, job.guid)
      BY <1>6, <2>2, DelEntryRemoves DEF RemoveImage, Handled
    <3> QED
      BY <1>0, <1>6, <2>2, <3>1, GotoJob DEF RemoveImage, DeleteAhead
  <2> QED
    BY <1>6, <2>1, <2>2 DEF RemoveImage, Handled
<1> QED
  BY <1>1, <1>2, <1>3, <1>4, <1>5, <1>6

\* The rename does to the list what was asked for, and catches up.
LEMMA RenamePromise ==
  ASSUME MatchInv, Handled, RenameXml
  PROVE  /\ tree' = CASE job.op = "create" -> Add(tree, job.guid)
                      [] job.op = "switch" -> SetCurrent(tree, job.guid)
                      [] job.op = "delete" -> Remove(tree, job.guid)
         /\ job.op = "create" => CreateAhead
         /\ job.op = "switch" => SwitchAhead
         /\ job.op = "delete" => DeleteAhead
         /\ job.op \in {"create", "switch", "delete"}
         /\ Tree(tree')
<1>1. /\ job.op \in {"create", "switch", "delete"}
      /\ job.op = "create" => CreateAhead
      /\ job.op = "switch" => SwitchAhead
      /\ job.op = "delete" => DeleteAhead
  BY DEF RenameXml, At, MatchInv, AheadInv
<1>2. tree' = Edited
  BY DEF RenameXml, Handled, Fault
<1>3. CASE job.op = "create"
  <2>1. Tree(Add(tree, job.guid))
    BY <1>1, <1>3, TreeAdd DEF CreateAhead, MatchInv
  <2>2. Edited = Stored(Add(tree, job.guid))
    BY <1>3 DEF Edited
  <2> QED
    BY <1>1, <1>2, <1>3, <2>1, <2>2, StoredTree
<1>4. CASE job.op = "switch"
  <2>1. Tree(SetCurrent(tree, job.guid))
    BY <1>1, <1>4, TreeSetCurrent DEF SwitchAhead, MatchInv
  <2>2. Edited = Stored(SetCurrent(tree, job.guid))
    BY <1>4 DEF Edited
  <2> QED
    BY <1>1, <1>2, <1>4, <2>1, <2>2, StoredTree
<1>5. CASE job.op = "delete"
  <2>1. Tree(Remove(tree, job.guid)) /\ DelEntry(tree, job.guid) = Remove(tree, job.guid)
    BY <1>1, <1>5, TreeRemove DEF DeleteAhead, MatchInv
  <2>2. Edited = Stored(DelEntry(tree, job.guid))
    BY <1>5 DEF Edited
  <2> QED
    BY <1>1, <1>2, <1>5, <2>1, <2>2, StoredTree
<1> QED
  BY <1>1, <1>3, <1>4, <1>5

LEMMA RenameMatch ==
  ASSUME MatchInv, Handled, RenameXml
  PROVE  MatchInv'
<1> USE DEF MatchInv, JobInv, AheadInv, BeforePlaces, CreatePlaces,
            SwitchPlaces, At
<1>1. /\ images' = images /\ At("rename") /\ job \in Jobs
      /\ IF job.temp # NoGuid THEN Goto("deltemp") ELSE Exit
  BY DEF RenameXml
<1>2. CASE job.op = "create"
  <2>1. tree' = images /\ Exit /\ Tree(tree')
    BY <1>1, <1>2, RenamePromise DEF CreateAhead
  <2> QED
    BY <1>1, <2>1, ExitJob
<1>3. CASE job.op = "delete"
  <2>1. tree' = images /\ Exit /\ Tree(tree')
    BY <1>1, <1>3, RenamePromise DEF DeleteAhead
  <2> QED
    BY <1>1, <2>1, ExitJob
<1>4. CASE job.op = "switch" /\ ~job.run
  <2>1. tree' = images /\ Exit /\ Tree(tree')
    BY <1>1, <1>4, RenamePromise DEF SwitchAhead
  <2> QED
    BY <1>1, <2>1, ExitJob
<1>5. CASE job.op = "switch" /\ job.run
  <2>1. /\ tree' = SetCurrent(tree, job.guid) /\ Goto("deltemp") /\ Tree(tree')
        /\ images = SetCurrent(Add(tree, job.temp), job.guid)
        /\ job.temp \in Guids \ Listed(tree) /\ job.guid \in Listed(tree)
    BY <1>1, <1>5, RenamePromise DEF SwitchAhead
  <2>2. Remove(images', job.temp) = tree'
    BY <1>1, <2>1, RemoveAdded
  <2>3. "deltemp" \in Places
    BY DEF Places
  <2>4. job' \in Jobs /\ job'.pc = "deltemp" /\ job'.temp = job.temp
    BY <1>1, <2>1, <2>3, GotoJob
  <2> QED
    BY <2>1, <2>2, <2>4
<1> QED
  BY <1>2, <1>3, <1>4, <1>5, RenamePromise

LEMMA MatchStep ==
  ASSUME MatchInv, Handled, [Next]_vars
  PROVE  MatchInv'
<1>1. CASE \E g \in Guids : CreateSnapshot(g) \/ SwitchSnapshot(g) \/ DeleteSnapshot(g)
  BY <1>1, BeginMatch
<1>2. CASE SaveConf \/ IsRun \/ Freeze \/ Thaw \/ DumpSnapshot \/ Resume
           \/ UmountDown \/ CopyConf \/ Kill \/ UmountKilled \/ Undump
           \/ UnlinkFiles \/ RestoreSuspended \/ Start
  <2>1. UNCHANGED <<tree, images>>
    BY <1>2 DEF SaveConf, IsRun, Freeze, Thaw, DumpSnapshot, Resume, UmountDown,
       CopyConf, Kill, UmountKilled, Undump, UnlinkFiles, RestoreSuspended, Start
  <2> QED
    BY <1>2, <2>1, QuietMatch
<1>3. CASE CreateImage \/ MergeBack \/ SwitchImage \/ SwitchBack \/ DeleteTemp
           \/ RemoveImage
  BY <1>3, ImageMatch
<1>4. CASE RenameXml
  BY <1>4, RenameMatch
<1>5. CASE Suspend \/ Stop \/ ThawFrozen \/ SelfStops \/ UNCHANGED vars
  <2>1. UNCHANGED <<tree, images, job>>
    BY <1>5 DEF Suspend, Stop, ThawFrozen, SelfStops, vars
  <2> QED
    BY <2>1 DEF MatchInv, JobInv, AheadInv, CreateAhead, SwitchAhead, DeleteAhead
<1>6. CASE VzctlKilled \/ HostCrash
  BY <1>6 DEF VzctlKilled, HostCrash, Handled
<1> QED
  BY <1>1, <1>2, <1>3, <1>4, <1>5, <1>6
     DEF Next, JobStep, CreateStep, SwitchStep, DeleteStep

(* Snapshots.xml and libploop agree on the snapshots, their parents and    *)
(* the current one whenever no command is at work, as long as the rename   *)
(* of Snapshots.xml, the copy of a configuration and the calls that roll   *)
(* back succeed: every other failure is rolled back in libploop before the *)
(* command ends.                                                           *)
THEOREM XmlMatchesImages ==
  ASSUME Handled
  PROVE  Spec => []TreeMatchesImages
<1>1. MatchInv => TreeMatchesImages
  BY DEF MatchInv, AheadInv, BeforePlaces, TreeMatchesImages, At
<1>2. MatchInv /\ [Next]_vars => MatchInv'
  BY Handled, MatchStep
<1> QED
  BY <1>1, <1>2, MatchInit, PTL DEF Spec

-----------------------------------------------------------------------------
\* Only the rename of Snapshots.xml changes the list.
LEMMA PromiseStep ==
  ASSUME MatchInv, Handled, [Next]_vars
  PROVE  [Promise!Next]_tree
<1>1. CASE RenameXml
  <2> USE DEF Promise!Next, Promise!Create, Promise!Switch, Promise!Delete,
              Promise!Listed, Listed
  <2>1. CASE job.op = "create"
    <3>1. tree' = Add(tree, job.guid) /\ job.guid \in Guids \ Listed(tree)
      BY <1>1, <2>1, RenamePromise DEF CreateAhead
    <3> QED
      BY <3>1 DEF Promise!Add, Add
  <2>2. CASE job.op = "switch"
    <3>1. tree' = SetCurrent(tree, job.guid) /\ job.guid \in Listed(tree)
      BY <1>1, <2>2, RenamePromise DEF SwitchAhead
    <3>2. job.guid \in Guids
      BY <3>1 DEF MatchInv, Tree
    <3> QED
      BY <3>1, <3>2 DEF Promise!SetCurrent, SetCurrent
  <2>3. CASE job.op = "delete"
    <3>1. tree' = Remove(tree, job.guid) /\ job.guid \in Listed(tree)
      BY <1>1, <2>3, RenamePromise DEF DeleteAhead
    <3>2. job.guid \in Guids
      BY <3>1 DEF MatchInv, Tree
    <3> QED
      BY <3>1, <3>2 DEF Promise!Remove, Remove
  <2> QED
    BY <1>1, <2>1, <2>2, <2>3, RenamePromise
<1>2. CASE ~RenameXml
  <2>1. tree' = tree
    BY <1>2 DEF Next, JobStep, CreateStep, SwitchStep, DeleteStep, vars,
       CreateSnapshot, SwitchSnapshot, DeleteSnapshot,
       SaveConf, IsRun, Freeze, Thaw, DumpSnapshot, Resume, UmountDown,
       CopyConf, Kill, UmountKilled, Undump, UnlinkFiles, RestoreSuspended,
       Start, CreateImage, MergeBack, SwitchImage, SwitchBack, DeleteTemp,
       RemoveImage, Suspend, Stop, ThawFrozen, SelfStops, VzctlKilled, HostCrash
  <2> QED
    BY <2>1
<1> QED
  BY <1>1, <1>2

(* Under the same failures the commands of src/snapshot.c implement        *)
(* SnapshotPromise: each changes the list of snapshots at once, at its     *)
(* rename, and to what it was told, or leaves it as it was.                *)
THEOREM PromiseKept ==
  ASSUME Handled
  PROVE  Spec => KeepsPromise
<1>1. Init => Promise!Init
  BY DEF Init, Promise!Init, Promise!NoSnapshots, NoSnapshots
<1>2. MatchInv /\ [Next]_vars => MatchInv'
  BY Handled, MatchStep
<1>3. MatchInv /\ [Next]_vars => [Promise!Next]_tree
  BY Handled, PromiseStep
<1> QED
  BY <1>1, <1>2, <1>3, MatchInit, PTL DEF Spec, KeepsPromise, Promise!Spec

-----------------------------------------------------------------------------
(* The dump that a switch restores.  A file of an earlier snapshot may be  *)
(* left under a guid, but only while the guid has no image, or was lost    *)
(* from the list: and a switch has asked libploop for the image first.     *)

LeftInv ==
  \A g \in Guids :
    dumps[g] = "other" => g \in lost \/ g \in Listed(tree) \ Listed(images)

TargetInv ==
  /\ job.pc = "idle" => job.op = "none"
  /\ job.op = "create" => job.guid \notin Listed(tree)
  /\ job.op \in {"switch", "delete"} => job.guid \in Listed(tree)
  /\ job.pc \in {"freeze", "switch"} \union SwitchPlaces /\ job.op = "switch" =>
       job.temp \notin Listed(tree)
  /\ job.pc \in {"copyconf", "kill", "umountkilled", "undump"} =>
       job.guid \in Listed(images) /\ images.current = job.guid
  /\ job.pc = "unlink" => job.guid \notin Listed(images)
  /\ job.pc = "rename" /\ job.op = "delete" => dumps[job.guid] # "other"

OwnInv == LeftInv /\ (job.pc # "deltemp" => TargetInv)

LEMMA OwnBegin ==
  ASSUME TypeInv, OwnInv, NEW g \in Guids,
         CreateSnapshot(g) \/ SwitchSnapshot(g) \/ DeleteSnapshot(g)
  PROVE  OwnInv'
<1> USE DEF TypeInv, DataInv, OpInv, OwnInv, LeftInv, TargetInv, SwitchPlaces, At, files
<1>0. /\ {"saveconf", "isrun", "remove"} \subseteq Places
      /\ UNCHANGED <<tree, images, dumps, lost>>
  BY DEF Places, CreateSnapshot, SwitchSnapshot, DeleteSnapshot
<1>1. CASE CreateSnapshot(g)
  BY <1>0, <1>1, BeginJob DEF CreateSnapshot
<1>2. CASE SwitchSnapshot(g)
  BY <1>0, <1>2, BeginJob DEF SwitchSnapshot
<1>3. CASE DeleteSnapshot(g)
  BY <1>0, <1>3, BeginJob DEF DeleteSnapshot
<1> QED
  BY <1>1, <1>2, <1>3

\* A job that is over leaves nothing but the files to be said.
LEMMA OwnIdle ==
  ASSUME TypeInv, OwnInv, Exit, tree' = tree, lost' = lost,
         Listed(images') \subseteq Listed(images),
         \A g \in Guids : dumps'[g] = "other" => dumps[g] = "other"
  PROVE  OwnInv'
<1>1. job'.pc = "idle" /\ job'.op = "none"
  BY ExitJob
<1>2. LeftInv'
  BY DEF OwnInv, LeftInv
<1> QED
  BY <1>1, <1>2 DEF OwnInv, TargetInv, SwitchPlaces

LEMMA OwnRename ==
  ASSUME TypeInv, OwnInv, RenameXml
  PROVE  OwnInv'
<1> USE DEF TypeInv, OwnInv, At, files
<1>1. /\ job.op \in {"create", "switch", "delete"} /\ job.guid \in Guids
      /\ TargetInv /\ UNCHANGED <<images, dumps>>
      /\ lost' = lost \union (Listed(tree) \ (Listed(tree') \union {job.guid}))
      /\ tree' = Edited \/ tree' = tree
  BY DEF RenameXml, OpInv
<1>2. LeftInv'
  <2>1. SUFFICES ASSUME NEW g \in Guids, dumps[g] = "other"
                 PROVE  g \in lost' \/ g \in Listed(tree') \ Listed(images)
    BY <1>1 DEF LeftInv
  <2>2. CASE g # job.guid
    BY <1>1, <2>1, <2>2 DEF LeftInv
  <2>3. CASE g = job.guid /\ g \in lost
    BY <1>1, <2>3
  <2>4. CASE g = job.guid /\ g \in Listed(tree) \ Listed(images)
    <3>1. job.op = "switch"
      BY <1>1, <2>1, <2>4 DEF TargetInv, RenameXml
    <3>2. Listed(Stored(SetCurrent(tree, job.guid))) = Listed(tree)
      BY <1>1, <3>1, TreeSetCurrent, StoredTree DEF TargetInv, DataInv
    <3> QED
      BY <1>1, <2>4, <3>1, <3>2 DEF Edited
  <2> QED
    BY <2>1, <2>2, <2>3, <2>4 DEF LeftInv
<1>3. CASE Exit
  BY <1>2, <1>3, ExitJob DEF TargetInv, SwitchPlaces
<1>4. CASE Goto("deltemp")
  <2>1. "deltemp" \in Places
    BY DEF Places
  <2> QED
    BY <1>2, <1>4, <2>1, GotoJob DEF OpInv
<1> QED
  BY <1>3, <1>4 DEF RenameXml

LEMMA OwnJob ==
  ASSUME TypeInv, OwnInv, "unlink" \notin Faults, JobStep
  PROVE  OwnInv'
<1> USE DEF TypeInv, DataInv, OpInv, OwnInv, SwitchPlaces, At, files
<1>0. \A l \in {"idle", "saveconf", "isrun", "freeze", "image", "dump", "resume",
                "merge", "umount", "switch", "copyconf", "kill", "umountkilled",
                "undump", "switchback", "thaw", "remove", "unlink", "rename",
                "deltemp", "start"} : l \in Places
  BY DEF Places
<1>1. CASE RenameXml
  BY <1>1, OwnRename
<1>2. CASE Thaw \/ RestoreSuspended
  BY <1>2, OwnIdle DEF Thaw, RestoreSuspended
<1>3. CASE DeleteTemp
  <2>1. Listed(images') \subseteq Listed(images)
    BY <1>3, TreeRemove DEF DeleteTemp, ImageInv
  <2> QED
    BY <1>3, <2>1, OwnIdle DEF DeleteTemp
<1>4. CASE SaveConf
  <2>1. /\ UNCHANGED <<tree, images, dumps, lost>>
        /\ job'.op = job.op /\ job'.guid = job.guid /\ job'.pc \in {"isrun", "thaw"}
    BY <1>0, <1>4, GotoJob DEF SaveConf, Jobs
  <2> QED
    BY <1>4, <2>1 DEF SaveConf, LeftInv, TargetInv
<1>5. CASE IsRun
  <2>1. UNCHANGED <<tree, images, dumps, lost>>
    BY <1>5 DEF IsRun
  <2>2. CASE Goto("umount") \/ Goto("image")
    BY <1>0, <1>5, <2>1, <2>2, GotoJob DEF IsRun, LeftInv, TargetInv
  <2>3. ASSUME NEW t \in Guids \union {NoGuid},
               IF job.op = "switch"
                 THEN t \in Guids \ (Listed(images) \union Listed(tree))
                 ELSE t = NoGuid,
               job' = [job EXCEPT !.pc = "freeze", !.run = TRUE, !.temp = t]
        PROVE  OwnInv'
    <3>1. job'.pc = "freeze" /\ job'.op = job.op /\ job'.guid = job.guid /\ job'.temp = t
      BY <1>0, <2>3 DEF Jobs
    <3> QED
      BY <1>5, <2>1, <2>3, <3>1 DEF IsRun, LeftInv, TargetInv
  <2> QED
    BY <1>5, <2>2, <2>3 DEF IsRun
<1>6. CASE Freeze
  <2>1. UNCHANGED <<tree, images, dumps, lost>>
    BY <1>6 DEF Freeze
  <2>2. CASE Exit
    BY <2>1, <2>2, OwnIdle
  <2>3. CASE job.op = "create" /\ (Goto("image") \/ Goto("thaw"))
    BY <1>0, <1>6, <2>1, <2>3, GotoJob DEF Freeze, LeftInv, TargetInv
  <2>4. CASE job.op # "create" /\ Goto("switch")
    BY <1>0, <1>6, <2>1, <2>4, GotoJob DEF Freeze, LeftInv, TargetInv
  <2> QED
    BY <1>6, <2>2, <2>3, <2>4 DEF Freeze
<1>7. CASE CreateImage
  <2>1. UNCHANGED <<tree, dumps, lost>> /\ job.op = "create"
    BY <1>7 DEF CreateImage
  <2>2. Listed(images') \subseteq Listed(images) \union {job.guid}
    BY <1>7 DEF CreateImage, Add, Listed
  <2>3. LeftInv'
    BY <1>7, <2>1, <2>2 DEF CreateImage, LeftInv, TargetInv
  <2>4. job'.op = "create" /\ job'.guid = job.guid /\ job'.pc \in {"dump", "rename", "thaw"}
    BY <1>0, <1>7, <2>1, GotoJob DEF CreateImage
  <2> QED
    BY <1>7, <2>1, <2>3, <2>4 DEF CreateImage, TargetInv
<1>8. CASE DumpSnapshot
  <2>1. \A g \in Guids : dumps'[g] = "other" => dumps[g] = "other"
    BY <1>8 DEF DumpSnapshot, Put
  <2>2. UNCHANGED <<tree, images, lost>> /\ job.op = "create"
    BY <1>8 DEF DumpSnapshot
  <2>3. job'.op = job.op /\ job'.guid = job.guid /\ job'.pc \in {"resume", "merge"}
    BY <1>0, <1>8, GotoJob DEF DumpSnapshot
  <2> QED
    BY <1>8, <2>1, <2>2, <2>3 DEF DumpSnapshot, LeftInv, TargetInv
<1>9. CASE Resume
  BY <1>0, <1>9, GotoJob DEF Resume, LeftInv, TargetInv
<1>10. CASE MergeBack
  <2>1. Listed(images') \subseteq Listed(images)
    BY <1>10, TreeRemove DEF MergeBack, ImageInv
  <2> QED
    BY <1>0, <1>10, <2>1, GotoJob DEF MergeBack, LeftInv, TargetInv
<1>11. CASE UmountDown
  <2>1. UNCHANGED <<tree, images, dumps, lost>> /\ job.op = "switch" /\ ~job.run
    BY <1>11 DEF UmountDown
  <2>2. CASE Exit
    BY <2>1, <2>2, OwnIdle
  <2>3. CASE Goto("switch")
    <3>1. job.temp \notin Listed(tree)
      BY <2>1, NoGuidAssumption DEF Tree
    <3> QED
      BY <1>0, <1>11, <2>1, <2>3, <3>1, GotoJob DEF UmountDown, LeftInv, TargetInv
  <2> QED
    BY <1>11, <2>2, <2>3 DEF UmountDown
<1>12. CASE SwitchImage
  <2>1. /\ UNCHANGED <<tree, dumps, lost>> /\ job.op = "switch" /\ job.pc = "switch"
        /\ LeftInv /\ TargetInv /\ job.guid \in Guids
    BY <1>12 DEF SwitchImage
  <2>2. CASE Goto("thaw") /\ images' = images
    BY <1>0, <1>12, <2>1, <2>2, GotoJob DEF LeftInv, TargetInv
  <2>3. CASE /\ job.guid \in Listed(images) /\ Goto("copyconf")
             /\ images' = SetCurrent(IF job.temp = NoGuid THEN images
                                     ELSE Add(images, job.temp), job.guid)
    <3>1. /\ Listed(images') \subseteq Listed(images) \union {job.temp}
          /\ job.guid \in Listed(images') /\ images'.current = job.guid
      <4>1. CASE job.temp = NoGuid
        <5>1. images' = SetCurrent(images, job.guid)
          BY <2>3, <4>1
        <5> QED
          BY <2>3, <5>1, TreeSetCurrent DEF SetCurrent, Tree
      <4>2. CASE job.temp # NoGuid
        <5>1. images' = SetCurrent(Add(images, job.temp), job.guid)
          BY <2>3, <4>2
        <5> QED
          BY <2>3, <5>1 DEF SetCurrent, Add, Listed
      <4> QED
        BY <4>1, <4>2
    <3>2. LeftInv'
      BY <1>12, <2>1, <3>1 DEF LeftInv, TargetInv
    <3> QED
      BY <1>0, <1>12, <2>1, <2>3, <3>1, <3>2, GotoJob DEF TargetInv
  <2> QED
    BY <1>12, <2>2, <2>3 DEF SwitchImage
<1>13. CASE CopyConf
  <2>1. UNCHANGED <<tree, images, dumps, lost>>
    BY <1>13 DEF CopyConf
  <2>2. CASE Goto("thaw") \/ Goto("kill") \/ Goto("undump")
    BY <1>0, <1>13, <2>1, <2>2, GotoJob DEF CopyConf, LeftInv, TargetInv
  <2> QED
    BY <1>13, <2>2 DEF CopyConf
<1>14. CASE Kill \/ UmountKilled
  <2>1. UNCHANGED <<tree, images, dumps, lost>>
    BY <1>14 DEF Kill, UmountKilled
  <2> QED
    BY <1>0, <1>14, <2>1, GotoJob DEF Kill, UmountKilled, LeftInv, TargetInv
<1>15. CASE Undump
  BY <1>0, <1>15, GotoJob DEF Undump, LeftInv, TargetInv
<1>16. CASE SwitchBack
  <2>1. Listed(images') \subseteq Listed(images)
    <3>1. job.temp \in Listed(images)
      BY <1>16 DEF SwitchBack, ImageInv
    <3>2. Listed(Remove(SetCurrent(images, job.temp), job.temp)) \subseteq Listed(images)
      BY <3>1, TreeSetCurrent, TreeRemove
    <3> QED
      BY <1>16, <3>2 DEF SwitchBack
  <2> QED
    BY <1>0, <1>16, <2>1, GotoJob DEF SwitchBack, LeftInv, TargetInv
<1>17. CASE RemoveImage
  <2>1. UNCHANGED <<tree, lost>> /\ job.op = "delete" /\ job.guid \in Guids
    BY <1>17 DEF RemoveImage
  <2>2. CASE Exit /\ UNCHANGED <<images, dumps>>
    BY <2>1, <2>2, OwnIdle
  <2>3. CASE /\ job.guid \in Listed(images) /\ images' = Remove(images, job.guid)
             /\ dumps' = Disown(dumps, job.guid) /\ Goto("unlink")
    <3>1. Listed(images') = Listed(images) \ {job.guid}
      BY <2>3, TreeRemove
    <3>2. \A g \in Guids \ {job.guid} : dumps'[g] = dumps[g]
      BY <2>3 DEF Disown, Put
    <3>3. LeftInv'
      BY <1>17, <2>1, <3>1, <3>2 DEF RemoveImage, LeftInv, TargetInv
    <3> QED
      BY <1>0, <1>17, <2>1, <2>3, <3>1, <3>3, GotoJob DEF RemoveImage, TargetInv
  <2> QED
    BY <1>17, <2>2, <2>3 DEF RemoveImage
<1>18. CASE UnlinkFiles
  <2>1. dumps' = Put(dumps, job.guid, "none") /\ UNCHANGED <<tree, images, lost>>
    BY <1>18 DEF UnlinkFiles, Unlinked, Fault
  <2>2. /\ \A g \in Guids : dumps'[g] = "other" => dumps[g] = "other"
        /\ dumps'[job.guid] # "other"
    BY <1>18, <2>1 DEF UnlinkFiles, Put
  <2> QED
    BY <1>0, <1>18, <2>1, <2>2, GotoJob DEF UnlinkFiles, LeftInv, TargetInv
<1> QED
  BY <1>1, <1>2, <1>3, <1>4, <1>5, <1>6, <1>7, <1>8, <1>9, <1>10, <1>11, <1>12,
     <1>13, <1>14, <1>15, <1>16, <1>17, <1>18
     DEF JobStep, CreateStep, SwitchStep, DeleteStep

LEMMA OwnStep ==
  ASSUME TypeInv, OwnInv, "unlink" \notin Faults, [Next]_vars
  PROVE  OwnInv'
<1>1. CASE \E g \in Guids : CreateSnapshot(g) \/ SwitchSnapshot(g) \/ DeleteSnapshot(g)
  BY <1>1, OwnBegin
<1>2. CASE JobStep
  BY <1>2, OwnJob
<1>3. CASE Start
  <2>1. UNCHANGED <<tree, images, dumps, lost>> /\ At("idle")
    BY <1>3 DEF Start, files
  <2>2. "start" \in Places
    BY DEF Places
  <2>3. CASE job' = job
    BY <2>1, <2>3 DEF OwnInv, LeftInv, TargetInv
  <2>4. CASE Begin("start", "start", NoGuid)
    BY <2>1, <2>2, <2>4, BeginJob DEF OwnInv, LeftInv, TargetInv, SwitchPlaces, At
  <2> QED
    BY <1>3, <2>3, <2>4 DEF Start
<1>4. CASE VzctlKilled \/ HostCrash
  <2>1. UNCHANGED <<tree, images, lost>> /\ Exit
    BY <1>4 DEF VzctlKilled, HostCrash, Exit
  <2>2. \A g \in Guids : dumps'[g] = "other" => dumps[g] = "other"
    BY <1>4 DEF VzctlKilled, HostCrash, files, Put, TypeInv, DataInv
  <2> QED
    BY <2>1, <2>2, OwnIdle
<1>5. CASE Suspend \/ Stop \/ ThawFrozen \/ SelfStops \/ UNCHANGED vars
  <2>1. UNCHANGED <<tree, images, dumps, lost, job>>
    BY <1>5 DEF Suspend, Stop, ThawFrozen, SelfStops, vars, files
  <2> QED
    BY <2>1 DEF OwnInv, LeftInv, TargetInv
<1> QED
  BY <1>1, <1>2, <1>3, <1>4, <1>5 DEF Next

LEMMA OwnInit == Init => OwnInv
BY DEF Init, Idle, OwnInv, LeftInv, TargetInv, SwitchPlaces

(* As long as the dump of a deleted snapshot can be unlinked, a switch     *)
(* restores no dump but the one taken with the images it has switched to,  *)
(* however guids are used again, commands fail or are killed and the host  *)
(* crashes; the guids that a delete has lost from the list are excepted.   *)
THEOREM OwnDumpIsRestored ==
  ASSUME "unlink" \notin Faults
  PROVE  Spec => []RestoresOwnDump
<1>1. TypeInv /\ OwnInv => RestoresOwnDump
  BY DEF TypeInv, OpInv, SwitchPlaces, OwnInv, LeftInv, TargetInv, RestoresOwnDump, At
<1>2. TypeInv /\ OwnInv /\ [Next]_vars => (TypeInv /\ OwnInv)'
  BY TypeStep, OwnStep
<1> QED
  BY <1>1, <1>2, TypeInit, OwnInit, PTL DEF Spec
=============================================================================
