---------------------------- MODULE VpsLifecycle ----------------------------
(***************************************************************************)
(* The life of one simfs container under vzctl: mount, umount, start,      *)
(* stop, restart, suspend, resume, the stages of chkpnt, create and        *)
(* destroy, each as the sequence of steps that run_action() makes of it,   *)
(* with the kernel's container (it may halt or reboot by itself, unlocked) *)
(* and the scripts that vzeventd runs when it has stopped.                 *)
(*                                                                         *)
(* One vzctl at a time holds the lock of the container and runs an action: *)
(* `job'.  (That the lock excludes others is VpsLock's subject.)  A vzctl  *)
(* that finds the lock taken exits at once and changes nothing; only the   *)
(* scripts' own vzctl calls notice, so only those are modelled.  A routine *)
(* that fails may do so at the step named by a member of Faults.           *)
(***************************************************************************)
EXTENDS Integers, FiniteSets

CONSTANTS
  Ops,       \* the commands that are given
  Faults,    \* what may fail, see AllFaults
  SelfStop,  \* how the container may end by itself: "stop", "reboot"
  CanCrash   \* vzctl may be killed, the host may lose power

AllOps ==
  {"create", "destroy", "mount", "umount", "start", "stop", "restart",
   "suspend", "resume", "freeze", "dumpto", "thaw", "cptkill"}

AllFaults ==
  {"script",   \* an action script of the administrator returns non-zero
   "quota",    \* vzquota(8)
   "mount", "umount",
   "config",   \* a check at the head of vps_start_custom()
   "pipe",     \* pipe() or the vswap computation, after the mount
   "create",   \* vz_env_create()
   "setup",    \* vps_setup_res(), before or after its network part
   "init",     \* the child reports that /sbin/init, or the undump, failed
   "wait",     \* start --wait: wait_on_fifo() fails or times out
   "kill",     \* the container does not die
   "cpt", "hardlink",   \* checkpoint ioctls, setup_hardlink_dir()
   "template", \* the OS template is missing, or vps-create fails
   "rename",   \* the private area cannot be moved to vztmp
   "unlink"}   \* destroy_dump() of vps_destroy(), only a warning

ASSUME OpsAssumption == Ops \subseteq AllOps
ASSUME FaultsAssumption == Faults \subseteq AllFaults
ASSUME SelfStopAssumption == SelfStop \subseteq {"stop", "reboot"}
ASSUME CrashAssumption == CanCrash \in BOOLEAN

VARIABLES
  env,       \* the kernel's container
  veips,     \* /proc/vz/veinfo shows its address
  mounted,   \* VE_ROOT is mounted
  quota,     \* disk quota is on
  private,   \* VE_PRIVATE exists
  conf,      \* the configuration file exists
  dump,      \* the default dump file
  routes,    \* the host has a route and an ARP entry for its address
  ipfile,    \* the file $VE_STATE_DIR/$VEID of the network scripts
  event,     \* events of the kernel that vzeventd has not read
  script,    \* the running vzevent-stop or vzevent-reboot script
  deferred,  \* ghost: a script left the cleaning to a vzctl, or met a new start
  job        \* the vzctl that holds the lock

fsvars == <<mounted, quota, private, conf>>
netvars == <<veips, routes, ipfile>>
evvars == <<event, script, deferred>>
vars == <<env, veips, mounted, quota, private, conf, dump, routes, ipfile,
          event, script, deferred, job>>

Envs == {"down", "created", "running", "frozen"}
(* "partial": being written, or cut off.  "fresh": agrees with the file    *)
(* system.  "stale": that was changed, or replaced, since it was written.   *)
Dumps == {"none", "partial", "fresh", "stale"}
IpFiles == {"none", "empty", "ip"}

Places ==
  {"idle", "exit",
   "mount", "quotaon", "fsmount", "mounted",
   "umount", "fsumount", "quotaoff",
   "start", "restore", "custom", "mountck", "early", "create", "setup", "go",
   "started", "fail", "failed",
   "stop", "getip", "halt", "stopnet", "stopped", "restart",
   "suspend", "freeze", "dump", "cptkill", "fsync", "cptnet", "unlinkdump",
   "cpt", "destroy", "destroydir", "destroyconf", "destroydump",
   "createct", "createfs", "createmove", "createsave"}

\* Where vps_mount() and vps_umount() return to.
Backs == {"exit", "early", "mountck", "failed", "stopped"}

(* The script: its kind and its place.  "fswait" and "startwait": its own  *)
(* vzctl is running.                                                       *)
ScriptPlaces ==
  {"none", "check", "poll", "fs", "fswait", "start", "startwait", "net", "clear",
   "rm"}
Scripts == [kind : {"stop", "reboot"}, at : ScriptPlaces]
NoScript == [kind |-> "stop", at |-> "none"]

Jobs ==
  [op : Ops \union {"none", "umount", "start"}, by : {"admin", "script"},
   pc : Places, back : Backs,
   ok : BOOLEAN,                    \* what the last routine returned
   restoring : BOOLEAN,             \* vps_start_custom() is called by vz_restore()
   skipRemount : BOOLEAN, skipUmount : BOOLEAN,
   haveip : BOOLEAN,                \* what get_vps_ip() found
   sample : BOOLEAN]                \* vps_create() has copied a sample config

Idle ==
  [op |-> "none", by |-> "admin", pc |-> "idle", back |-> "exit", ok |-> TRUE,
   restoring |-> FALSE, skipRemount |-> FALSE, skipUmount |-> FALSE,
   haveip |-> FALSE, sample |-> FALSE]

Fault(f) == f \in Faults
At(l) == job.pc = l
Goto(l) == job' = [job EXCEPT !.pc = l]
Call(l, back) == job' = [job EXCEPT !.pc = l, !.back = back]
\* The end of vps_mount() or vps_umount(), and of the action.
Return(ok) == job' = [job EXCEPT !.pc = job.back, !.ok = ok]
Exit(ok) == job' = [job EXCEPT !.pc = "exit", !.ok = ok]

Init ==
  /\ env = "down" /\ veips = FALSE
  /\ mounted = FALSE /\ quota = FALSE
  /\ private = TRUE /\ conf = TRUE
  /\ dump = "none"
  /\ routes = FALSE /\ ipfile = "none"
  /\ event = {} /\ script = NoScript /\ deferred = FALSE
  /\ job = Idle

-----------------------------------------------------------------------------
(* The kernel's side. *)

\* The container is gone, with its addresses; vzeventd is told.
EnvDies(why) ==
  /\ env' = "down"
  /\ veips' = FALSE
  /\ event' = event \union {why}

\* What a dump file becomes when the file system goes its own way.
Outdated == IF dump = "fresh" THEN "stale" ELSE dump

\* Processes of the container run, and write to its file system.
EnvRuns ==
  /\ env' = "running"
  /\ dump' = Outdated

\* halt, shutdown or reboot inside the container.
SelfStops(why) ==
  /\ env = "running"
  /\ EnvDies(why)
  /\ UNCHANGED <<fsvars, dump, routes, ipfile, script, deferred, job>>

\* Mutant: the child has kept the write end of the pipe and never reads EOF.
MutOrphanExits == FALSE

(* The child that waits for the go-ahead finds its pipe closed and exits:   *)
(* its vzctl has failed, or was killed.                                    *)
OrphanExits ==
  /\ env = "created"
  /\ job.pc \notin {"setup", "go"}
  /\ EnvDies("stop")
  /\ UNCHANGED <<fsvars, dump, routes, ipfile, script, deferred, job>>

-----------------------------------------------------------------------------
(* run_action(): a vzctl takes the lock and begins; it returns and unlocks. *)

Entry(op) ==
  CASE op \in {"freeze", "dumpto", "thaw", "cptkill"} -> "cpt"
    [] op = "create" -> "createct"
    [] op = "resume" -> "restore"
    [] OTHER -> op

Begin(op, by, nomount) ==
  job' = [Idle EXCEPT !.op = op, !.by = by, !.pc = Entry(op),
                      !.restoring = (op = "resume"), !.skipUmount = nomount]

\* A command is typed; all but create need the configuration file.
Invoke(op) ==
  /\ At("idle")
  /\ conf \/ op = "create"
  /\ \E nomount \in BOOLEAN :
       (nomount => op = "stop") /\ Begin(op, "admin", nomount)
  /\ UNCHANGED <<env, fsvars, dump, netvars, evvars>>

AfterFs(s) == [s EXCEPT !.at = IF s.kind = "stop" THEN "net" ELSE "start"]

\* The script whose vzctl has ended goes on, or ends with it.
Wakes ==
  CASE job.by = "admin" -> script
    [] job.by = "script" /\ script.at = "fswait" -> AfterFs(script)
    [] OTHER -> NoScript

Unlock ==
  /\ At("exit")
  /\ script' = Wakes
  /\ job' = Idle
  /\ UNCHANGED <<env, fsvars, dump, netvars, event, deferred>>

-----------------------------------------------------------------------------
(* vps_mount(), vps_umount(): src/lib/fs.c *)

MountCheck ==
  /\ At("mount")
  /\ \/ mounted /\ Return(TRUE)
     \/ ~mounted /\ (Fault("script") \/ ~private) /\ Return(FALSE)
     \/ ~mounted /\ private /\ Goto("quotaon")
  /\ UNCHANGED <<env, fsvars, dump, netvars, evvars>>

\* Mutant: fsmount() goes on although vps_quotaon() has failed.
MutQuotaOn ==
  /\ At("quotaon")
  /\ Goto("fsmount")
  /\ quota' = TRUE \/ (Fault("quota") /\ UNCHANGED quota)
  /\ UNCHANGED <<env, mounted, private, conf, dump, netvars, evvars>>

QuotaOn ==
  /\ At("quotaon")
  /\ \/ quota' = TRUE /\ Goto("fsmount")
     \/ Fault("quota") /\ Return(FALSE) /\ UNCHANGED quota
  /\ UNCHANGED <<env, mounted, private, conf, dump, netvars, evvars>>

FsMount ==
  /\ At("fsmount")
  /\ \/ mounted' = TRUE /\ Goto("mounted") /\ UNCHANGED quota
     \/ Fault("mount") /\ quota' = FALSE /\ Return(FALSE) /\ UNCHANGED mounted
  /\ UNCHANGED <<env, private, conf, dump, netvars, evvars>>

\* The mount scripts; if one fails the mount is undone.
MountScripts ==
  /\ At("mounted")
  /\ \/ Return(TRUE)
     \/ Fault("script") /\ job' = [job EXCEPT !.pc = "fsumount", !.ok = FALSE]
  /\ UNCHANGED <<env, fsvars, dump, netvars, evvars>>

UmountCheck ==
  /\ At("umount")
  /\ \/ ~mounted /\ Return(FALSE)
     \/ mounted /\ env # "down" /\ Return(TRUE)
     \/ mounted /\ env = "down" /\ Fault("script") /\ Return(FALSE)
     \/ mounted /\ env = "down" /\ job' = [job EXCEPT !.pc = "fsumount", !.ok = TRUE]
  /\ UNCHANGED <<env, fsvars, dump, netvars, evvars>>

\* umount(2) refuses a file system in use.
FsUmount ==
  /\ At("fsumount")
  /\ \/ env = "down" /\ mounted' = FALSE /\ Goto("quotaoff")
     \/ (Fault("umount") \/ env # "down") /\ Return(FALSE) /\ UNCHANGED mounted
  /\ UNCHANGED <<env, quota, private, conf, dump, netvars, evvars>>

\* quota_off() and the post-umount scripts.
QuotaOff ==
  /\ At("quotaoff")
  /\ \/ quota' = FALSE /\ Return(job.ok)
     \/ quota' = FALSE /\ Fault("script") /\ Return(FALSE)
     \/ Fault("quota") /\ Return(FALSE) /\ UNCHANGED quota
  /\ UNCHANGED <<env, mounted, private, conf, dump, netvars, evvars>>

-----------------------------------------------------------------------------
(* start(), try_restore(), vps_restore(), vps_start_custom():              *)
(* src/vzctl-actions.c, src/lib/cpt.c, src/lib/hooks_vz.c, src/lib/env.c    *)

\* Mutant: the fallback forgets that this is no restore any more.
MutRestoreFails ==
  IF job.op = "resume" THEN Exit(FALSE)
  ELSE job' = [job EXCEPT !.pc = "custom", !.skipRemount = TRUE,
                          !.skipUmount = FALSE]

\* vz_restore() returns an error: start() goes on with a plain start.
RestoreFails ==
  IF job.op = "resume" THEN Exit(FALSE)
  ELSE job' = [job EXCEPT !.pc = "custom", !.restoring = FALSE,
                          !.skipRemount = TRUE, !.skipUmount = FALSE]

\* vps_start_custom() returns an error.
CustomFails == IF job.restoring THEN RestoreFails ELSE Exit(FALSE)

\* start(): refusals, then a restore if there is a default dump file.
Start ==
  /\ At("start")
  /\ \/ (~private \/ env # "down") /\ Exit(FALSE)
     \/ /\ private /\ env = "down"
        /\ IF dump = "none"
             THEN job' = [job EXCEPT !.pc = "custom", !.skipRemount = FALSE,
                                     !.skipUmount = FALSE]
             ELSE job' = [job EXCEPT !.pc = "restore", !.restoring = TRUE,
                                     !.skipRemount = FALSE, !.skipUmount = TRUE]
  /\ UNCHANGED <<env, fsvars, dump, netvars, evvars>>

\* vps_restore() and the head of vz_restore(), which opens the dump file.
Restore ==
  /\ At("restore")
  /\ \/ (env # "down" \/ dump = "none" \/ Fault("cpt")) /\ RestoreFails
     \/ env = "down" /\ dump # "none" /\ Goto("custom")
  /\ UNCHANGED <<env, fsvars, dump, netvars, evvars>>

\* The head of vps_start_custom(); a mounted container is unmounted first.
StartCustom ==
  /\ At("custom")
  /\ \/ (env # "down" \/ Fault("config")) /\ CustomFails
     \/ /\ env = "down"
        /\ IF mounted /\ ~job.skipRemount
             THEN Call("umount", "mountck") ELSE Goto("mountck")
  /\ UNCHANGED <<env, fsvars, dump, netvars, evvars>>

\* It is mounted again, unless it still is (or the umount was refused).
MountForStart ==
  /\ At("mountck")
  /\ IF mounted THEN job' = [job EXCEPT !.pc = "early", !.ok = TRUE]
                ELSE Call("mount", "early")
  /\ UNCHANGED <<env, fsvars, dump, netvars, evvars>>

\* Errors between the mount and the label err: nothing is unmounted.
EarlyReturns ==
  /\ At("early")
  /\ \/ (~job.ok \/ Fault("pipe")) /\ CustomFails
     \/ job.ok /\ Goto("create")
  /\ UNCHANGED <<env, fsvars, dump, netvars, evvars>>

\* vz_env_create(): the container exists, its first process waits on a pipe.
EnvCreate ==
  /\ At("create")
  /\ \/ /\ env' = "created" /\ Goto("setup")
        /\ deferred' = (script # NoScript \/ (deferred /\ routes))
     \/ Fault("create") /\ Goto("fail") /\ UNCHANGED <<env, deferred>>
  /\ UNCHANGED <<fsvars, dump, netvars, event, script>>

\* vps_setup_res() and the start scripts; vps-net_add writes the address file.
SetupRes ==
  /\ At("setup")
  /\ \/ /\ veips' = TRUE /\ routes' = TRUE /\ ipfile' = "ip"
        /\ Goto("go") \/ (Fault("setup") /\ Goto("fail"))
     \/ Fault("setup") /\ Goto("fail") /\ UNCHANGED netvars
  /\ UNCHANGED <<env, fsvars, dump, evvars>>

(* The byte in the pipe: the child execs /sbin/init or resumes the         *)
(* container from the dump, and closes the error pipe or writes to it.     *)
ReleaseChild ==
  /\ At("go")
  /\ \/ /\ job.restoring => dump # "partial"
        /\ EnvRuns /\ Goto("started")
     \/ /\ Fault("init") \/ (job.restoring /\ dump = "partial")
        /\ Goto("fail") /\ UNCHANGED <<env, dump>>
  /\ UNCHANGED <<fsvars, netvars, evvars>>

\* start --wait (never while restoring): the container did not come up in time.
WaitFails ==
  /\ At("started") /\ Fault("wait") /\ ~job.restoring
  /\ Goto("fail")
  /\ UNCHANGED <<env, fsvars, dump, netvars, evvars>>

\* Mutant: the dump file survives a successful start.
MutStarted ==
  /\ At("started")
  /\ Exit(TRUE)
  /\ UNCHANGED <<env, fsvars, dump, netvars, evvars>>

\* vps_start(), vz_restore(): the dump file is removed after a success.
Started ==
  /\ At("started")
  /\ dump' = "none"
  /\ Exit(TRUE)
  /\ UNCHANGED <<env, fsvars, netvars, evvars>>

\* The end of vps_start_custom() with an error: kill what runs, then unmount.
StartFailed ==
  /\ At("fail")
  /\ \/ env # "down" /\ EnvDies("stop")
     \/ (env = "down" \/ Fault("kill")) /\ UNCHANGED <<env, veips, event>>
  /\ IF mounted /\ ~job.skipUmount THEN Call("umount", "failed") ELSE Goto("failed")
  /\ UNCHANGED <<fsvars, dump, routes, ipfile, script, deferred>>

\* Mutant: destroy_dump() is called whatever vps_start_custom() returned.
MutFailReturns ==
  /\ At("failed")
  /\ CustomFails
  /\ dump' = "none"
  /\ UNCHANGED <<env, fsvars, netvars, evvars>>

FailReturns ==
  /\ At("failed")
  /\ CustomFails
  /\ UNCHANGED <<env, fsvars, dump, netvars, evvars>>

-----------------------------------------------------------------------------
(* stop(), restart(), vps_stop(), env_stop() *)

\* vps_stop() returns; restart() goes on only after a success.
StopReturns(ok) == IF job.op = "restart" /\ ok THEN Goto("start") ELSE Exit(ok)

Restart ==
  /\ At("restart")
  /\ Goto(IF env = "down" THEN "start" ELSE "stop")
  /\ UNCHANGED <<env, fsvars, dump, netvars, evvars>>

\* A container that is down already is no error and is left as it is.
Stop ==
  /\ At("stop")
  /\ \/ env = "down" /\ StopReturns(TRUE)
     \/ env # "down" /\ Fault("script") /\ StopReturns(FALSE)
     \/ env # "down" /\ Goto("getip")
  /\ UNCHANGED <<env, fsvars, dump, netvars, evvars>>

GetVpsIp ==
  /\ At("getip")
  /\ job' = [job EXCEPT !.pc = "halt", !.haveip = veips]
  /\ UNCHANGED <<env, fsvars, dump, netvars, evvars>>

\* halt inside the container, a wait, then kill: it is down, or the stop fails.
EnvStop ==
  /\ At("halt")
  /\ \/ env # "down" /\ EnvDies("stop") /\ Goto("stopnet")
     \/ env = "down" /\ Goto("stopnet") /\ UNCHANGED <<env, veips, event>>
     \/ env # "down" /\ Fault("kill") /\ StopReturns(FALSE)
        /\ UNCHANGED <<env, veips, event>>
  /\ UNCHANGED <<fsvars, dump, routes, ipfile, script, deferred>>

\* vps-net_del with the addresses found before; without any it does nothing.
StopNet ==
  /\ At("stopnet")
  /\ routes' = (routes /\ ~job.haveip)
  /\ ipfile' = IF job.haveip THEN "none" ELSE ipfile
  /\ IF job.skipUmount THEN StopReturns(TRUE) ELSE Call("umount", "stopped")
  /\ UNCHANGED <<env, fsvars, dump, veips, evvars>>

Stopped ==
  /\ At("stopped")
  /\ StopReturns(job.ok)
  /\ UNCHANGED <<env, fsvars, dump, netvars, evvars>>

-----------------------------------------------------------------------------
(* chkpnt(): src/vzctl-actions.c; vz_chkpnt(), real_chkpnt(): hooks_vz.c    *)

\* The default dump file is created, or truncated, before anything is frozen.
Suspend ==
  /\ At("suspend")
  /\ \/ (env = "down" \/ Fault("cpt")) /\ Exit(FALSE) /\ UNCHANGED dump
     \/ env # "down" /\ dump' = "partial" /\ Goto("freeze")
  /\ UNCHANGED <<env, fsvars, netvars, evvars>>

CptSuspend ==
  /\ At("freeze")
  /\ \/ env = "running" /\ env' = "frozen" /\ Goto("dump")
     \/ (env # "running" \/ Fault("cpt")) /\ Goto("unlinkdump") /\ UNCHANGED env
  /\ UNCHANGED <<fsvars, dump, netvars, evvars>>

\* After setup_hardlink_dir() fails the container is not resumed.
CptDump ==
  /\ At("dump")
  /\ \/ dump' = "fresh" /\ Goto("cptkill") /\ UNCHANGED env
     \/ Fault("hardlink") /\ Goto("unlinkdump") /\ UNCHANGED <<env, dump>>
     \/ Fault("cpt") /\ EnvRuns /\ Goto("unlinkdump")
  /\ UNCHANGED <<fsvars, netvars, evvars>>

CptKill ==
  /\ At("cptkill")
  /\ \/ EnvDies("stop") /\ Goto("fsync")
     \/ Fault("kill") /\ Goto("unlinkdump") /\ UNCHANGED <<env, veips, event>>
  /\ UNCHANGED <<fsvars, dump, routes, ipfile, script, deferred>>

\* Only now is the dump file forced to the disk.
SyncDump ==
  /\ At("fsync")
  /\ Goto("cptnet")
  /\ UNCHANGED <<env, fsvars, dump, netvars, evvars>>

UnlinkDump ==
  /\ At("unlinkdump")
  /\ dump' = "none"
  /\ Exit(FALSE)
  /\ UNCHANGED <<env, fsvars, netvars, evvars>>

\* vps-net_del for a container that is said to run: it edits the address file.
NetDel ==
  /\ routes' = FALSE
  /\ ipfile' = IF ipfile = "ip" THEN "empty" ELSE ipfile

\* chkpnt() returns 0 whatever vps_umount() makes of it.
CptNet ==
  /\ At("cptnet")
  /\ NetDel
  /\ Call("umount", "exit")
  /\ UNCHANGED <<env, fsvars, dump, veips, evvars>>

(* The stages of chkpnt: --suspend, --dump to a named file, --resume and    *)
(* --kill.  Each is refused unless the container is there to be joined.     *)
CptStage ==
  /\ At("cpt")
  /\ \/ /\ env = "down" \/ Fault("cpt")
        /\ Exit(FALSE) /\ UNCHANGED <<env, dump, netvars, event>>
     \/ /\ job.op = "freeze" /\ env = "running"
        /\ env' = "frozen"
        /\ Exit(TRUE) /\ UNCHANGED <<dump, netvars, event>>
     \/ /\ job.op = "dumpto" /\ env = "frozen"
        /\ NetDel
        /\ Exit(TRUE) /\ UNCHANGED <<env, dump, veips, event>>
     \/ /\ job.op = "thaw" /\ env = "frozen"
        /\ EnvRuns /\ routes' = TRUE /\ ipfile' = "ip"
        /\ Exit(TRUE) /\ UNCHANGED <<veips, event>>
     \/ /\ job.op = "cptkill" /\ env = "frozen"
        /\ EnvDies("stop")
        /\ Exit(TRUE) /\ UNCHANGED <<dump, routes, ipfile>>
     \/ /\ env # "down" /\ (job.op = "freeze") # (env = "running")
        /\ Exit(FALSE) /\ UNCHANGED <<env, dump, netvars, event>>
  /\ UNCHANGED <<fsvars, script, deferred>>

-----------------------------------------------------------------------------
(* vps_create(), vps_destroy(): src/lib/create.c, src/lib/destroy.c          *)

(* The sample configuration is copied, unless there is a configuration or   *)
(* no sample is named.  Nothing looks for the dump file of an older         *)
(* container.                                                               *)
CreateCt ==
  /\ At("createct")
  /\ \/ private /\ Exit(FALSE) /\ UNCHANGED conf
     \/ ~private /\ Goto("createfs") /\ UNCHANGED conf
     \/ /\ ~private /\ ~conf /\ conf' = TRUE
        /\ job' = [job EXCEPT !.pc = "createfs", !.sample = TRUE]
  /\ UNCHANGED <<env, mounted, quota, private, dump, netvars, evvars>>

\* fs_create(): the quota is on while the private area is filled ...
CreateFs ==
  /\ At("createfs")
  /\ quota' = TRUE
  /\ Goto("createmove")
  /\ UNCHANGED <<env, mounted, private, conf, dump, netvars, evvars>>

\* ... and off when it gets its name.
CreateMove ==
  /\ At("createmove")
  /\ quota' = FALSE
  /\ \/ private' = TRUE /\ Goto("createsave") /\ UNCHANGED conf
     \/ /\ Fault("template")
        /\ conf' = (conf /\ ~job.sample)
        /\ Exit(FALSE) /\ UNCHANGED private
  /\ UNCHANGED <<env, mounted, dump, netvars, evvars>>

(* vps_save_config(), then the script of the user.  After its failure only  *)
(* a configuration made from a sample is removed.                           *)
CreateSave ==
  /\ At("createsave")
  /\ \/ conf' = TRUE /\ Exit(TRUE) /\ UNCHANGED private
     \/ Fault("script") /\ private' = FALSE /\ conf' = ~job.sample /\ Exit(FALSE)
  /\ UNCHANGED <<env, mounted, quota, dump, netvars, evvars>>

\* Mutant: only the mount table is looked at.
MutDestroyCheck ==
  /\ At("destroy")
  /\ Goto("destroydir")
  /\ UNCHANGED <<env, fsvars, dump, netvars, evvars>>

DestroyCheck ==
  /\ At("destroy")
  /\ \/ (env # "down" \/ mounted) /\ Exit(FALSE)
     \/ env = "down" /\ ~mounted /\ Goto("destroydir")
  /\ UNCHANGED <<env, fsvars, dump, netvars, evvars>>

(* vps_destroy_dir(): the quota, if it is still on, goes first.  The rename  *)
(* is the end of the private area, its removal is left to the background.   *)
DestroyDir ==
  /\ At("destroydir")
  /\ \/ quota' = FALSE /\ private' = FALSE /\ dump' = Outdated /\ Goto("destroyconf")
     \/ /\ Fault("rename") /\ quota' = FALSE
        /\ Exit(FALSE) /\ UNCHANGED <<private, dump>>
     \/ /\ Fault("quota") /\ quota
        /\ Exit(FALSE) /\ UNCHANGED <<quota, private, dump>>
  /\ UNCHANGED <<env, mounted, conf, netvars, evvars>>

DestroyConf ==
  /\ At("destroyconf")
  /\ conf' = FALSE
  /\ Goto("destroydump")
  /\ UNCHANGED <<env, mounted, quota, private, dump, netvars, evvars>>

DestroyDump ==
  /\ At("destroydump")
  /\ dump' = "none" \/ (Fault("unlink") /\ UNCHANGED dump)
  /\ Exit(TRUE)
  /\ UNCHANGED <<env, fsvars, netvars, evvars>>

-----------------------------------------------------------------------------
(* vzeventd and its scripts: src/vzeventd.c, scripts/vzevent-*.in           *)

ScriptAt(l) == script.at = l
ScriptGoto(l) == script' = [script EXCEPT !.at = l]
ScriptEnds == script' = NoScript

(* One script of the container runs at a time here; vzeventd would fork a  *)
(* second one for an event that comes meanwhile.                           *)
RunEventScript(e) ==
  /\ script = NoScript /\ e \in event
  /\ event' = event \ {e}
  /\ script' = [kind |-> e, at |-> IF e = "stop" THEN "check" ELSE "poll"]
  /\ UNCHANGED <<env, fsvars, dump, netvars, deferred, job>>

\* "If vzctl stop is running -- let it finish the job"
ScriptCheck ==
  /\ ScriptAt("check")
  /\ \/ /\ job.op \in {"stop", "restart", "suspend", "freeze", "dumpto", "thaw", "cptkill"}
        /\ ScriptEnds /\ deferred' = TRUE
     \/ /\ job.op \notin {"stop", "restart", "suspend", "freeze", "dumpto", "thaw", "cptkill"}
        /\ ScriptGoto("poll") /\ UNCHANGED deferred
  /\ UNCHANGED <<env, fsvars, dump, netvars, event, job>>

\* Up to ten polls of `vzctl status'; it never locks.
ScriptPoll ==
  /\ ScriptAt("poll")
  /\ \/ env = "down" /\ ScriptGoto("fs") /\ UNCHANGED deferred
     \/ env # "down" /\ ScriptEnds /\ deferred' = TRUE
  /\ UNCHANGED <<env, fsvars, dump, netvars, event, job>>

\* vzctl umount: it is refused at once when another vzctl has the lock.
ScriptUmount ==
  /\ ScriptAt("fs")
  /\ \/ mounted /\ At("idle") /\ conf
        /\ Begin("umount", "script", FALSE) /\ ScriptGoto("fswait")
     \/ ~(mounted /\ At("idle") /\ conf)
        /\ script' = AfterFs(script) /\ UNCHANGED job
  /\ UNCHANGED <<env, fsvars, dump, netvars, event, deferred>>

\* vzevent-reboot starts the container again, and leaves its network alone.
ScriptStart ==
  /\ ScriptAt("start")
  /\ \/ At("idle") /\ conf
        /\ Begin("start", "script", FALSE) /\ ScriptGoto("startwait")
        /\ UNCHANGED deferred
     \/ ~(At("idle") /\ conf) /\ ScriptEnds /\ deferred' = TRUE /\ UNCHANGED job
  /\ UNCHANGED <<env, fsvars, dump, netvars, event>>

\* clear_ve_net() reads veinfo and the address file, without the lock ...
ScriptReadNet ==
  /\ ScriptAt("net")
  /\ CASE ipfile = "none" -> ScriptEnds
       [] ipfile = "ip" /\ ~veips -> ScriptGoto("clear")
       [] OTHER -> ScriptGoto("rm")
  /\ UNCHANGED <<env, fsvars, dump, netvars, event, deferred, job>>

\* Mutant: the file is removed and its routes are not.
MutScriptClearNet ==
  /\ ScriptAt("clear") \/ ScriptAt("rm")
  /\ ipfile' = "none"
  /\ ScriptEnds
  /\ UNCHANGED <<env, fsvars, dump, veips, routes, event, deferred, job>>

\* ... and then deletes the routes of what was not in use, and the file.
ScriptClearNet ==
  /\ ScriptAt("clear") \/ ScriptAt("rm")
  /\ routes' = (routes /\ ~ScriptAt("clear"))
  /\ ipfile' = "none"
  /\ ScriptEnds
  /\ UNCHANGED <<env, fsvars, dump, veips, event, deferred, job>>

-----------------------------------------------------------------------------
(* Failures of the host. *)

(* vzctl is killed: its lock goes stale and counts as free.  The children  *)
(* that do the checkpoint itself are not killed with it and finish first.  *)
VzctlKilled ==
  /\ CanCrash
  /\ job.pc \notin {"idle", "freeze", "dump", "cptkill"}
  /\ script' = Wakes
  /\ job' = Idle
  /\ UNCHANGED <<env, fsvars, dump, netvars, event, deferred>>

(* The host loses power.  The kernel's state is gone; what was written is  *)
(* there, except a dump file that was not yet synced, which may be cut.    *)
HostCrash ==
  /\ CanCrash
  /\ env' = "down" /\ veips' = FALSE /\ mounted' = FALSE /\ quota' = FALSE
  /\ routes' = FALSE
  /\ event' = {} /\ script' = NoScript /\ deferred' = FALSE /\ job' = Idle
  /\ \/ UNCHANGED dump
     \/ job.pc \in {"cptkill", "fsync"} /\ dump' = "partial"
  /\ UNCHANGED <<private, conf, ipfile>>

-----------------------------------------------------------------------------

FsStep == MountCheck \/ QuotaOn \/ FsMount \/ MountScripts
          \/ UmountCheck \/ FsUmount \/ QuotaOff
StartStep == Start \/ Restore \/ StartCustom \/ MountForStart \/ EarlyReturns
             \/ EnvCreate \/ SetupRes \/ ReleaseChild \/ WaitFails \/ Started
             \/ StartFailed \/ FailReturns
StopStep == Restart \/ Stop \/ GetVpsIp \/ EnvStop \/ StopNet \/ Stopped
CptStep == Suspend \/ CptSuspend \/ CptDump \/ CptKill \/ SyncDump
           \/ UnlinkDump \/ CptNet \/ CptStage
DirStep == CreateCt \/ CreateFs \/ CreateMove \/ CreateSave
           \/ DestroyCheck \/ DestroyDir \/ DestroyConf \/ DestroyDump
JobStep == FsStep \/ StartStep \/ StopStep \/ CptStep \/ DirStep \/ Unlock

ScriptStep == ScriptCheck \/ ScriptPoll \/ ScriptUmount \/ ScriptStart
              \/ ScriptReadNet \/ ScriptClearNet

Next ==
  \/ \E op \in Ops : Invoke(op)
  \/ JobStep
  \/ \E why \in SelfStop : SelfStops(why)
  \/ OrphanExits
  \/ \E e \in {"stop", "reboot"} : RunEventScript(e)
  \/ ScriptStep
  \/ VzctlKilled \/ HostCrash

Spec == Init /\ [][Next]_vars

(* A running vzctl, a running script and an abandoned child are scheduled; *)
(* nothing makes a command be typed or a container stop.                   *)
FairSpec ==
  Spec /\ WF_vars(JobStep) /\ WF_vars(ScriptStep) /\ WF_vars(OrphanExits)

-----------------------------------------------------------------------------

(* Types; a free lock leaves no job, a script waits for a vzctl exactly     *)
(* while that vzctl works for it, and SKIP_REMOUNT is for the plain start   *)
(* after a failed restore only.                                             *)
TypeOK ==
  /\ env \in Envs /\ veips \in BOOLEAN
  /\ mounted \in BOOLEAN /\ quota \in BOOLEAN
  /\ private \in BOOLEAN /\ conf \in BOOLEAN
  /\ dump \in Dumps
  /\ routes \in BOOLEAN /\ ipfile \in IpFiles
  /\ event \subseteq {"stop", "reboot"}
  /\ script \in Scripts /\ deferred \in BOOLEAN
  /\ job \in Jobs
  /\ At("idle") => job = Idle
  /\ job.by = "script" <=> script.at \in {"fswait", "startwait"}
  /\ job.restoring => ~job.skipRemount

(* A container that exists in the kernel has its file system mounted and   *)
(* its private area in place, whatever failed or was killed before.        *)
RunningHasFs == env # "down" => mounted /\ private

(* The file system of a container is never mounted without its disk quota: *)
(* it is mounted after vzquota on and unmounted before vzquota off.        *)
MountedUnderQuota == mounted => quota

KeepsCheckpoint ==
  dump = "fresh" /\ dump' # "fresh" /\ env = "down" =>
    \/ env' = "running"
    \/ At("destroydir")
    \/ At("fsync") /\ job'.pc = "idle"

(* The dump file of a suspended container is the only copy of its state:   *)
(* while the container is down no command but destroy gives it up, and no  *)
(* failure on the way of a restore does.  (A power loss before the fsync   *)
(* of vz_chkpnt() does, and is left out here.)                             *)
CheckpointKept == [][KeepsCheckpoint]_vars

(* A container is restored only from a dump that agrees with its file      *)
(* system: a dump file is removed once the container has run without it.   *)
NoStaleRestore == At("go") /\ job.restoring => dump # "stale"

\* No vzctl, no event and no script is at work on the container.
Quiet == At("idle") /\ event = {} /\ script = NoScript

(* What vzeventd is for: a container that is down, with nobody at work on  *)
(* it any more, has no route and no ARP entry left on the host ...         *)
NoRoutesLeft == Quiet /\ env = "down" => ~routes

(* ... unless the script of its stop left the work to a vzctl it had seen, *)
(* gave up, or was still at work when the container was started again.     *)
RoutesLeftOnlyIfDeferred == Quiet /\ env = "down" /\ routes => deferred

(* Every action returns and gives the lock back, the fallback from restore *)
(* to start and the failure paths included.                                *)
ActionReturns == job.pc # "idle" ~> job.pc = "idle"

(* A container that was made but not released never stays: it is started,  *)
(* killed, or exits by itself when its vzctl has gone.                     *)
AbandonedEnvDies == env = "created" ~> env # "created"

Status == INSTANCE CtStatus
  WITH exist <- private, mounted <- mounted, run <- (env # "down")

(* However the commands, the scripts of vzeventd, failures, kills and power *)
(* losses interleave, the words of `vzctl status' change one at a time and *)
(* in the order that CtStatus has.                                         *)
StatusInOrder == Status!Spec
=============================================================================
