------------------------------ MODULE Snapshots ------------------------------
(***************************************************************************)
(* vzctl snapshot, snapshot-switch and snapshot-delete of a container on   *)
(* ploop: src/snapshot.c, src/lib/snapshot.c, src/lib/xml.c.               *)
(*                                                                         *)
(* The snapshots are recorded twice: libploop has the images, vzctl has    *)
(* Snapshots.xml (`tree').  A command edits the tree in memory, stores it  *)
(* as Snapshots.xml.tmp, changes the images and renames the file at the    *)
(* end.  With the lock held the tree does not change under the command, so *)
(* the temporary file needs no variable: it is `Edited'.                   *)
(*                                                                         *)
(* libploop is external: each call of it is one step that is done or fails *)
(* without effect.  The commands of VpsLifecycle that matter here (start,  *)
(* stop, suspend, ...) are one step each.                                  *)
(***************************************************************************)
EXTENDS SnapshotTrees

CONSTANTS
  Faults,         \* what may fail, see AllFaults
  DeletesShared,  \* libploop deletes an image that several deltas lie on
  CanCrash        \* vzctl may be killed, the host may lose power

AllFaults ==
  {"copy",      \* cp_file() of a configuration
   "cpt",       \* the suspend or the dump of the container
   "resume",    \* CPT_RESUME
   "kill", "umount",
   "restore",   \* vps_restore() from the dump of a snapshot
   "ploop",     \* a call of libploop
   "rollback",  \* a call of libploop that undoes an earlier one
   "unlink",    \* the removal of a dump or of a saved configuration
   "rename"}    \* Snapshots.xml.tmp keeps its name, which is only logged

ASSUME FaultsAssumption == Faults \subseteq AllFaults
ASSUME FlagAssumption == {DeletesShared, CanCrash} \subseteq BOOLEAN

VARIABLES
  tree,       \* Snapshots.xml
  images,     \* the images of libploop
  dumps,      \* $VE_PRIVATE/dump/<guid>
  confs,      \* $VE_PRIVATE/dump/<guid>.ve.conf
  env,        \* the container
  mounted,    \* VE_ROOT is mounted
  suspended,  \* the default dump file, written by `vzctl suspend'
  job,        \* the vzctl that holds the lock
  lost        \* ghost: snapshots that left the list and were not deleted

files == <<dumps, confs>>
ct == <<env, mounted, suspended>>
vars == <<tree, images, files, ct, job, lost>>

(* What a file belongs to: "own" to the snapshot that now has its guid,    *)
(* "other" to an earlier one; "partial" was cut off.                       *)
Files == {"none", "partial", "own", "other"}

Places ==
  {"idle", "saveconf", "isrun", "freeze", "image", "dump", "resume",
   "merge", "umount", "switch", "copyconf", "kill", "umountkilled", "undump",
   "deltemp", "switchback", "thaw", "remove", "unlink", "rename", "start"}

Jobs ==
  [op : {"none", "create", "switch", "delete", "start"}, pc : Places,
   guid : Guids \union {NoGuid},
   temp : Guids \union {NoGuid},  \* guid_tmp, the old top delta
   run : BOOLEAN,                 \* the container was found running
   saved : BOOLEAN]               \* the configuration was to be saved

Idle ==
  [op |-> "none", pc |-> "idle", guid |-> NoGuid, temp |-> NoGuid,
   run |-> FALSE, saved |-> FALSE]

Fault(f) == f \in Faults
At(l) == job.pc = l
Goto(l) == job' = [job EXCEPT !.pc = l]
Exit == job' = Idle
Begin(op, l, g) == job' = [Idle EXCEPT !.op = op, !.pc = l, !.guid = g]

Init ==
  /\ tree = NoSnapshots /\ images = NoSnapshots
  /\ dumps = [g \in Guids |-> "none"] /\ confs = [g \in Guids |-> "none"]
  /\ env = "down" /\ mounted = FALSE /\ suspended = "none"
  /\ job = Idle /\ lost = {}

Put(f, g, v) == [f EXCEPT ![g] = v]
Unlinked(f, f2, g) == f2 = Put(f, g, "none") \/ (Fault("unlink") /\ f2 = f)
\* What becomes of a file when the image of its guid goes.
Disown(f, g) == IF f[g] = "none" THEN f ELSE Put(f, g, "other")

\* The suspended state, once its file system has changed.
Outdated == IF suspended = "none" THEN "none" ELSE "stale"

-----------------------------------------------------------------------------
(* The tree: src/lib/snapshot.c, src/lib/xml.c. *)

\* Mutant: the children of a deleted snapshot keep its guid as their parent.
MutDelEntry(t, g) ==
  [parent |-> [h \in Listed(t) \ {g} |-> t.parent[h]],
   current |-> IF t.current = g THEN t.parent[g] ELSE t.current]

(* vzctl_del_snapshot_tree_entry(): of the current snapshot it moves the   *)
(* mark to the parent, of any other it moves the children to the parent.   *)
DelEntry(t, g) ==
  IF t.current = g
    THEN [parent |-> [h \in Listed(t) \ {g} |-> t.parent[h]],
          current |-> t.parent[g]]
    ELSE Remove(t, g)

\* Entries with no line of parents to the root of the file.
Unrooted(t) ==
  UNION {S \in SUBSET Listed(t) :
           \A g \in S : t.parent[g] \notin {NoGuid} \union (Listed(t) \ S)}

\* Mutant: entries are written as they come.
MutStored(t) == t

(* vzctl_store_snapshot_tree() writes what it reaches from the root "" and *)
(* vzctl_read_snapshot_tree() reads that back.                             *)
Stored(t) ==
  LET kept == Listed(t) \ Unrooted(t) IN
  [parent |-> [g \in kept |-> t.parent[g]],
   current |-> IF t.current \in kept THEN t.current ELSE NoGuid]

\* What the command has written to Snapshots.xml.tmp.
Edited ==
  Stored(CASE job.op = "create" -> Add(tree, job.guid)
           [] job.op = "switch" -> SetCurrent(tree, job.guid)
           [] job.op = "delete" -> DelEntry(tree, job.guid)
           [] OTHER -> tree)

\* rename() of the temporary file; a failure is only logged.
RenameXml ==
  /\ At("rename")
  /\ tree' = Edited \/ (Fault("rename") /\ UNCHANGED tree)
  /\ lost' = lost \union (Listed(tree) \ (Listed(tree') \union {job.guid}))
  /\ IF job.temp # NoGuid THEN Goto("deltemp") ELSE Exit
  /\ UNCHANGED <<images, files, ct>>

-----------------------------------------------------------------------------
(* Freezing and thawing, for snapshot and for snapshot-switch.             *)

(* vps_is_run(), and for a running container the name of the delta that    *)
(* snapshot-switch keeps; --skip-suspend is an option of snapshot only.    *)
IsRun ==
  /\ At("isrun")
  /\ \/ /\ env # "down"
        /\ \E t \in Guids \union {NoGuid} :
             /\ IF job.op = "switch"
                  THEN t \in Guids \ (Listed(images) \union Listed(tree))
                  ELSE t = NoGuid
             /\ job' = [job EXCEPT !.pc = "freeze", !.run = TRUE, !.temp = t]
     \/ env = "down" /\ job.op = "switch" /\ Goto("umount")
     \/ job.op = "create" /\ Goto("image")   \* --skip-suspend, or it is down
  /\ UNCHANGED <<tree, images, files, ct, lost>>

\* CPT_SUSPEND; a container that has been frozen before is not joined.
Freeze ==
  /\ At("freeze")
  /\ \/ /\ env = "running" /\ env' = "frozen"
        /\ Goto(IF job.op = "create" THEN "image" ELSE "switch")
     \/ /\ env # "running" \/ Fault("cpt")
        /\ UNCHANGED env
        /\ IF job.op = "create" THEN Goto("thaw") ELSE Exit
  /\ UNCHANGED <<tree, images, files, mounted, suspended, lost>>

\* cpt_cmd(CMD_RESUME): the container runs again, if it is there and frozen.
Resumes ==
  \/ env = "frozen" /\ env' = "running" /\ suspended' = Outdated
  \/ (env # "frozen" \/ Fault("resume")) /\ UNCHANGED <<env, suspended>>

\* Mutant: the error paths do not resume the container.
MutThaw ==
  /\ At("thaw")
  /\ \/ job.saved /\ Unlinked(Disown(confs, job.guid), confs', job.guid)
     \/ ~job.saved /\ UNCHANGED confs
  /\ Exit
  /\ UNCHANGED <<tree, images, dumps, ct, lost>>

(* err1 of snapshot and err2 of snapshot-switch; the former also removes   *)
(* the configuration that it has saved.                                    *)
Thaw ==
  /\ At("thaw")
  /\ IF job.run THEN Resumes ELSE UNCHANGED <<env, suspended>>
  /\ \/ job.saved /\ Unlinked(Disown(confs, job.guid), confs', job.guid)
     \/ ~job.saved /\ UNCHANGED confs
  /\ Exit
  /\ UNCHANGED <<tree, images, dumps, mounted, lost>>

-----------------------------------------------------------------------------
(* vzctl_env_create_snapshot() *)

CreateSnapshot(g) ==
  /\ At("idle")
  /\ g \notin Listed(tree)
  /\ Begin("create", "saveconf", g)
  /\ UNCHANGED <<tree, images, files, ct, lost>>

SaveConf ==
  /\ At("saveconf")
  /\ \/ Goto("isrun") /\ UNCHANGED confs      \* --skip-config
     \/ /\ confs' = Put(confs, job.guid, "own")
        /\ job' = [job EXCEPT !.pc = "isrun", !.saved = TRUE]
     \/ /\ Fault("copy")
        /\ confs' = Put(confs, job.guid, "partial")
        /\ job' = [job EXCEPT !.pc = "thaw", !.saved = TRUE]
  /\ UNCHANGED <<tree, images, dumps, ct, lost>>

\* ploop.create_snapshot(); a guid that libploop has is refused.
CreateImage ==
  /\ At("image")
  /\ \/ /\ job.guid \notin Listed(images)
        /\ images' = Add(images, job.guid)
        /\ Goto(IF job.run THEN "dump" ELSE "rename")
     \/ /\ job.guid \in Listed(images) \/ Fault("ploop")
        /\ Goto("thaw") /\ UNCHANGED images
  /\ UNCHANGED <<tree, files, ct, lost>>

\* vps_chkpnt(CMD_DUMP), which removes the dump if it fails.
DumpSnapshot ==
  /\ At("dump")
  /\ \/ env = "frozen" /\ dumps' = Put(dumps, job.guid, "own") /\ Goto("resume")
     \/ Fault("cpt") /\ dumps' = Put(dumps, job.guid, "none") /\ Goto("merge")
  /\ UNCHANGED <<tree, images, confs, ct, lost>>

Resume ==
  /\ At("resume")
  /\ Resumes
  /\ Goto("rename")
  /\ UNCHANGED <<tree, images, files, mounted, lost>>

\* Mutant: err2 falls through to err1 without a rollback.
MutMergeBack ==
  /\ At("merge")
  /\ Goto("thaw")
  /\ UNCHANGED <<tree, images, files, ct, lost>>

\* err2: the new image is merged back.
MergeBack ==
  /\ At("merge")
  /\ images' = Remove(images, job.guid) \/ (Fault("rollback") /\ UNCHANGED images)
  /\ Goto("thaw")
  /\ UNCHANGED <<tree, files, ct, lost>>

-----------------------------------------------------------------------------
(* vzctl_env_switch_snapshot() *)

SwitchSnapshot(g) ==
  /\ At("idle")
  /\ g \in Listed(tree)
  /\ Begin("switch", "isrun", g)
  /\ UNCHANGED <<tree, images, files, ct, lost>>

UmountDown ==
  /\ At("umount")
  /\ \/ mounted' = FALSE /\ Goto("switch")
     \/ mounted /\ Fault("umount") /\ Exit /\ UNCHANGED mounted
  /\ UNCHANGED <<tree, images, files, env, suspended, lost>>

(* ploop.switch_snapshot_ex(): the top delta is destroyed, or of a running *)
(* container kept as the snapshot `temp'; a new one lies on the snapshot.  *)
SwitchImage ==
  /\ At("switch")
  /\ \/ /\ job.guid \in Listed(images)
        /\ images' = SetCurrent(IF job.temp = NoGuid THEN images
                                ELSE Add(images, job.temp), job.guid)
        /\ suspended' = Outdated
        /\ Goto("copyconf")
     \/ /\ job.guid \notin Listed(images) \/ Fault("ploop")
        /\ Goto("thaw") /\ UNCHANGED <<images, suspended>>
  /\ UNCHANGED <<tree, files, env, mounted, lost>>

\* The saved configuration is copied; without it the images stay switched.
CopyConf ==
  /\ At("copyconf")
  /\ \/ Goto(IF job.run THEN "kill" ELSE "undump")
     \/ confs[job.guid] # "none" /\ Fault("copy") /\ Goto("thaw")
  /\ UNCHANGED <<tree, images, files, ct, lost>>

\* Mutant: a container that does not die is unmounted.
MutKill ==
  /\ At("kill")
  /\ env' = "down" \/ (Fault("kill") /\ UNCHANGED env)
  /\ Goto("umountkilled")
  /\ UNCHANGED <<tree, images, files, mounted, suspended, lost>>

Kill ==
  /\ At("kill")
  /\ \/ env' = "down" /\ Goto("umountkilled")
     \/ Fault("kill") /\ Goto("switchback") /\ UNCHANGED env
  /\ UNCHANGED <<tree, images, files, mounted, suspended, lost>>

UmountKilled ==
  /\ At("umountkilled")
  /\ \/ mounted' = FALSE /\ Goto("undump")
     \/ Fault("umount") /\ Goto("switchback") /\ UNCHANGED mounted
  /\ UNCHANGED <<tree, images, files, env, suspended, lost>>

\* vps_restore() from the dump of the snapshot, whose failure is ignored.
Undump ==
  /\ At("undump")
  /\ \/ /\ dumps[job.guid] \notin {"none", "partial"}
        /\ env' = "running" /\ mounted' = TRUE /\ suspended' = Outdated
     \/ /\ dumps[job.guid] = "none"
        /\ UNCHANGED ct
     \/ /\ dumps[job.guid] # "none"
        /\ dumps[job.guid] = "partial" \/ Fault("restore")
        /\ mounted' \in BOOLEAN /\ UNCHANGED <<env, suspended>>
  /\ Goto("rename")
  /\ UNCHANGED <<tree, images, files, lost>>

\* The old top delta goes; the result is not looked at.
DeleteTemp ==
  /\ At("deltemp")
  /\ images' = Remove(images, job.temp) \/ (Fault("rollback") /\ UNCHANGED images)
  /\ Exit
  /\ UNCHANGED <<tree, files, ct, lost>>

\* err3: the old top delta is the top delta again, and no snapshot any more.
SwitchBack ==
  /\ At("switchback")
  /\ \/ images' = Remove(SetCurrent(images, job.temp), job.temp)
     \/ Fault("rollback") /\ UNCHANGED images
  /\ Goto("thaw")
  /\ UNCHANGED <<tree, files, ct, lost>>

-----------------------------------------------------------------------------
(* vzctl_env_delete_snapshot() *)

DeleteSnapshot(g) ==
  /\ At("idle")
  /\ g \in Listed(tree)
  /\ Begin("delete", "remove", g)
  /\ UNCHANGED <<tree, images, files, ct, lost>>

\* vzctl_delete_snapshot(): libploop may refuse what several deltas lie on.
RemoveImage ==
  /\ At("remove")
  /\ \/ /\ job.guid \in Listed(images)
        /\ References(images, job.guid) < 2 \/ DeletesShared
        /\ images' = Remove(images, job.guid)
        /\ dumps' = Disown(dumps, job.guid)
        /\ confs' = Disown(confs, job.guid)
        /\ Goto("unlink")
     \/ /\ \/ job.guid \notin Listed(images)
           \/ References(images, job.guid) >= 2 /\ ~DeletesShared
           \/ Fault("ploop")
        /\ Exit /\ UNCHANGED <<images, files>>
  /\ UNCHANGED <<tree, ct, lost>>

\* Mutant: the dump of a deleted snapshot stays.
MutUnlinkFiles ==
  /\ At("unlink")
  /\ Unlinked(confs, confs', job.guid)
  /\ Goto("rename")
  /\ UNCHANGED <<tree, images, dumps, ct, lost>>

\* The dump and the saved configuration; failures are only logged.
UnlinkFiles ==
  /\ At("unlink")
  /\ Unlinked(dumps, dumps', job.guid)
  /\ Unlinked(confs, confs', job.guid)
  /\ Goto("rename")
  /\ UNCHANGED <<tree, images, ct, lost>>

-----------------------------------------------------------------------------
(* The rest of vzctl and the host. *)

\* start(): try_restore() finds the default dump file, or there is none.
Start ==
  /\ At("idle") /\ env = "down"
  /\ IF suspended = "none"
       THEN env' = "running" /\ mounted' = TRUE /\ UNCHANGED job
       ELSE Begin("start", "start", NoGuid) /\ UNCHANGED <<env, mounted>>
  /\ UNCHANGED <<tree, images, files, suspended, lost>>

\* It is restored, or started afresh after a failure; the file is removed.
RestoreSuspended ==
  /\ At("start")
  /\ env' = "running" /\ mounted' = TRUE /\ suspended' = "none"
  /\ Exit
  /\ UNCHANGED <<tree, images, files, lost>>

\* vzctl suspend: dumped to the default dump file, killed and unmounted.
Suspend ==
  /\ At("idle") /\ env = "running"
  /\ env' = "down" /\ mounted' = FALSE /\ suspended' = "fresh"
  /\ UNCHANGED <<tree, images, files, job, lost>>

\* vzctl stop or umount.
Stop ==
  /\ At("idle") /\ mounted
  /\ env' = "down" /\ mounted' = FALSE
  /\ UNCHANGED <<tree, images, files, suspended, job, lost>>

\* vzctl chkpnt --resume, for a container that was left frozen.
ThawFrozen ==
  /\ At("idle") /\ env = "frozen"
  /\ env' = "running" /\ suspended' = Outdated
  /\ UNCHANGED <<tree, images, files, mounted, job, lost>>

\* The container halts by itself.
SelfStops ==
  /\ env = "running"
  /\ env' = "down"
  /\ UNCHANGED <<tree, images, files, mounted, suspended, job, lost>>

VzctlKilled ==
  /\ CanCrash /\ ~At("idle")
  /\ job' = Idle
  /\ UNCHANGED <<tree, images, files, ct, lost>>

\* A file that is being written may be cut off.
HostCrash ==
  /\ CanCrash
  /\ env' = "down" /\ mounted' = FALSE
  /\ job' = Idle
  /\ dumps' = dumps \/ (At("dump") /\ dumps' = Put(dumps, job.guid, "partial"))
  /\ UNCHANGED <<tree, images, confs, suspended, lost>>

-----------------------------------------------------------------------------

CreateStep == SaveConf \/ CreateImage \/ DumpSnapshot \/ Resume \/ MergeBack
SwitchStep == UmountDown \/ SwitchImage \/ CopyConf \/ Kill \/ UmountKilled
              \/ Undump \/ DeleteTemp \/ SwitchBack
DeleteStep == RemoveImage \/ UnlinkFiles
JobStep == CreateStep \/ SwitchStep \/ DeleteStep
           \/ IsRun \/ Freeze \/ Thaw \/ RenameXml \/ RestoreSuspended

Next ==
  \/ \E g \in Guids : CreateSnapshot(g) \/ SwitchSnapshot(g) \/ DeleteSnapshot(g)
  \/ JobStep
  \/ Start \/ Suspend \/ Stop \/ ThawFrozen \/ SelfStops
  \/ VzctlKilled \/ HostCrash

Spec == Init /\ [][Next]_vars

-----------------------------------------------------------------------------

(* Types; what is in Snapshots.xml is a tree whose parents are all there,  *)
(* and a container that exists has its file system mounted.                *)
TypeOK ==
  /\ tree \in Trees /\ images \in Trees
  /\ dumps \in [Guids -> Files] /\ confs \in [Guids -> Files]
  /\ env \in {"down", "running", "frozen"}
  /\ mounted \in BOOLEAN
  /\ suspended \in {"none", "fresh", "stale"}
  /\ job \in Jobs
  /\ env # "down" => mounted

(* snapshot-switch restores the dump of a snapshot only over the images it *)
(* was taken with, even when a guid is used again by `snapshot --id' and   *)
(* commands were killed; but see OthersStayListed for the lost ones.       *)
RestoresOwnDump ==
  At("undump") =>
    images.current = job.guid /\ (dumps[job.guid] = "other" => job.guid \in lost)

(* Snapshots.xml and libploop agree on the snapshots, their parents and    *)
(* the current one whenever no command is at work, however commands failed *)
(* and rolled back before.                                                 *)
TreeMatchesImages == At("idle") => tree = images

(* A container that a command has frozen runs again, or is down, when the  *)
(* command is over, on its error paths too.                                *)
NoneLeftFrozen == At("idle") => env # "frozen"

Promise == INSTANCE SnapshotPromise
  WITH Guids <- Guids, NoGuid <- NoGuid, tree <- tree

(* The three commands do to the list of snapshots what vzctl(8) says.      *)
KeepsPromise == Promise!Spec

(* snapshot-delete "removes a specified snapshot": no other one leaves the *)
(* list while libploop still has its image.                                *)
OthersStayListed == lost \intersect Listed(images) = {}

(* A suspended container is restored only over the file system that it was *)
(* suspended with.                                                         *)
NoStaleRestore == At("start") => suspended # "stale"
=============================================================================
