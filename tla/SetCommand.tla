------------------------------ MODULE SetCommand ------------------------------
(***************************************************************************)
(* vzctl set --save with its name, its password and its static parameters, *)
(* and the part of vzctl create, destroy and start that these meet:        *)
(* src/vzctl-actions.c, src/lib/create.c, set_name() of src/lib/config.c.  *)
(*                                                                         *)
(* A name is a symbolic link to a configuration file, in a directory that  *)
(* no lock protects.  vzctl reads the configuration before it takes the    *)
(* lock of the container.  Static parameters are what a container has when *)
(* it starts and keeps: `val' stands for one that is given as a whole      *)
(* (iptables, quota and mount options), `known' and `on' are the two masks *)
(* of the features; those of the capabilities are merged and stored alike. *)
(***************************************************************************)
EXTENDS Naturals

CONSTANTS
  Cts, Names, None,
  Vals,       \* of the parameter that is given as a whole
  Features,
  Vzctls,
  Requests,   \* records like NoCmd
  Faults      \* what fails: "symlink", "start", "restore", "stop", "setup",
              \* "sample", "area", "fs", "save", "script"

VARIABLES
  exists,     \* containers with a configuration file
  name, par,  \* NAME and the static parameters in it
  area,       \* containers with a private area
  dump,       \* what the container in the default dump file runs with
  live,       \* what a running container runs with
  link,       \* the container whose configuration file each name leads to
  lock,
  pc, cmd, ct,
  seen,       \* vps_p: what vzctl read before it locked
  sample,     \* a sample was copied: cleanup_destroy_file() is registered
  torn,       \* ghost: containers whose name was changed by a set or taken by
              \* a create that did not finish, or that two vzctl worked on
  matched     \* ghost: the container ran with what vzctl read

conf == <<exists, name, par>>
ctVars == <<area, dump, live>>
proc == <<pc, cmd, ct, seen, sample, matched>>
vars == <<conf, ctVars, link, lock, proc, torn>>

Fault(f) == f \in Faults
Sample == CHOOSE v \in Vals : TRUE       \* what a sample file has
Default == [val |-> Sample, known |-> {}, on |-> {}]
NoCmd == [op |-> "none", name |-> None, par |-> None, known |-> {}, on |-> {},
          mode |-> "none", pw |-> FALSE, config |-> "none"]
NoConf == [name |-> None, par |-> Default, run |-> FALSE]

\* get_veid_by_name(): a link that leads nowhere is no name.
VeidOf(n) == IF n # None /\ link[n] \in exists THEN link[n] ELSE None

Running(c) == live[c] # None

\* What a container runs with: a feature that is not known is not set.
LiveOf(r) == [val |-> r.val, on |-> r.on \intersect r.known]

Init ==
  /\ exists = {} /\ name = [c \in Cts |-> None]
  /\ par = [c \in Cts |-> Default]
  /\ area = {} /\ dump = [c \in Cts |-> None]
  /\ live = [c \in Cts |-> None] /\ link = [n \in Names |-> None]
  /\ lock = [c \in Cts |-> None]
  /\ pc = [p \in Vzctls |-> "idle"] /\ cmd = [p \in Vzctls |-> NoCmd]
  /\ ct = [p \in Vzctls |-> None]
  /\ seen = [p \in Vzctls |-> NoConf] /\ sample = [p \in Vzctls |-> FALSE]
  /\ torn = {} /\ matched = [p \in Vzctls |-> FALSE]

-----------------------------------------------------------------------------
(* The ghost *)

\* From its check of a name till vzctl ends; remove_names() is at all names.
AtName(p, n) ==
  \/ /\ cmd[p].name = n
     /\ pc[p] \notin {"lock", "copy", "check", "name", "refused", "undo", "err", "failed"}
  \/ pc[p] \in {"alias", "unalias"} /\ seen[p].name = n
  \/ pc[p] = "names"

Meet(p, q) == p # q /\ \E n \in Names : AtName(p, n) /\ AtName(q, n)

Watch(before) ==
  torn' = before \union {ct'[p] : p \in {v \in Vzctls : \E q \in Vzctls : Meet(v, q)'}}

Goto(p, from, to) == pc[p] = from /\ pc' = [pc EXCEPT ![p] = to]

Advance(p, from, to) ==
  Goto(p, from, to) /\ UNCHANGED <<lock, cmd, ct, seen, sample, matched>>

\* A step of p that changes no command
Step(p, from, to) == Advance(p, from, to) /\ Watch(torn)

-----------------------------------------------------------------------------
(* main() parses the configuration, run_action() locks. *)

Invoke(p) ==
  /\ \E c \in Cts, r \in Requests :
       /\ r.op \notin {"set", "create"} => c \in exists
       /\ ct' = [ct EXCEPT ![p] = c] /\ cmd' = [cmd EXCEPT ![p] = r]
       /\ seen' = [seen EXCEPT ![p] = [name |-> name[c], par |-> par[c], run |-> FALSE]]
  /\ Goto(p, "idle", "lock")
  /\ UNCHANGED <<conf, ctVars, link, lock, sample, matched>> /\ Watch(torn)

Free(c) == lock[c] = None

\* What vps_is_run() says is used till the end.
Lock(p) ==
  LET c == ct[p] IN
  /\ pc[p] = "lock" /\ Free(c) /\ lock' = [lock EXCEPT ![c] = p]
  /\ Goto(p, "lock", CASE cmd[p].op = "create"  -> "copy"
                       [] cmd[p].op = "destroy" -> "destroy"
                       [] cmd[p].op = "start"   -> "boot"
                       [] OTHER -> IF cmd[p].name # None THEN "name" ELSE "setup")
  /\ seen' = [seen EXCEPT ![p].run = Running(c)]
  /\ matched' = [matched EXCEPT ![p] =
       Running(c) /\ live[c] = LiveOf(par[c]) /\ par[c] = seen[p].par /\ dump[c] = None]
  /\ UNCHANGED <<conf, ctVars, link, cmd, ct, sample>> /\ Watch(torn)

-----------------------------------------------------------------------------
(* set_name() *)

After(p) == IF cmd[p].op = "create" THEN "fs" ELSE "setup"
OldName(p) == IF cmd[p].op = "create" THEN cmd[p].name ELSE seen[p].name
Unnamed(p) == IF cmd[p].op = "create" THEN "err" ELSE "failed"

\* A set --name that finishes mends what was torn.
CheckName(p) ==
  LET n == cmd[p].name  old == VeidOf(n) IN
  /\ pc[p] = "name"
  /\ IF old \notin {None, ct[p]}
     THEN Step(p, "name", IF cmd[p].op = "create" THEN "err" ELSE "refused")
     ELSE /\ Advance(p, "name", IF OldName(p) = n /\ old = ct[p] THEN After(p) ELSE "unlink")
          /\ Watch(IF cmd[p].op = "set" THEN torn \ {ct[p]} ELSE torn)
  /\ UNCHANGED <<conf, ctVars, link>>

Unlink(p) ==
  /\ Step(p, "unlink", "symlink")
  /\ link' = [link EXCEPT ![cmd[p].name] = None]
  /\ UNCHANGED <<conf, ctVars>>

\* EEXIST if another vzctl has made the link since
Symlink(p) ==
  LET n == cmd[p].name IN
  /\ pc[p] = "symlink"
  /\ \/ /\ link[n] = None
        /\ Step(p, "symlink", IF OldName(p) \in {None, n} THEN After(p) ELSE "alias")
        /\ link' = [link EXCEPT ![n] = ct[p]]
     \/ /\ link[n] # None \/ Fault("symlink")
        /\ Step(p, "symlink", Unnamed(p)) /\ UNCHANGED link
  /\ UNCHANGED <<conf, ctVars>>

MutAlias(p) ==
  /\ Step(p, "alias", "unalias")
  /\ UNCHANGED <<conf, ctVars, link>>

\* The old link is removed if it leads to this container.
Alias(p) ==
  /\ Step(p, "alias", IF VeidOf(seen[p].name) = ct[p] THEN "unalias" ELSE After(p))
  /\ UNCHANGED <<conf, ctVars, link>>

RemoveAlias(p) ==
  /\ Step(p, "unalias", After(p))
  /\ link' = [link EXCEPT ![seen[p].name] = None]
  /\ UNCHANGED <<conf, ctVars>>

-----------------------------------------------------------------------------
(* start(), vps_start() *)

\* vps_start() with what is asked removes the default dump when it succeeds.
Starts(c, r) ==
  /\ c \in area /\ live' = [live EXCEPT ![c] = LiveOf(r)]
  /\ dump' = [dump EXCEPT ![c] = None]

\* try_restore(): a container has what it had, or what it is asked to have.
Restores(c, r) ==
  /\ c \in area /\ dump[c] # None
  /\ \E l \in {dump[c], LiveOf(r)} : live' = [live EXCEPT ![c] = l]
  /\ dump' = [dump EXCEPT ![c] = None]

\* start(): if the restore fails, the container starts all the same.
Boots(c, r) ==
  \/ Restores(c, r)
  \/ (dump[c] = None \/ Fault("restore")) /\ Starts(c, r)

NoStart(c) == (Fault("start") \/ c \notin area) /\ UNCHANGED <<live, dump>>

-----------------------------------------------------------------------------
(* set() *)

\* A stopped container is started for its password.
StartForPassword(p) ==
  LET c == ct[p] IN
  /\ pc[p] = "setup" /\ cmd[p].pw
  /\ \/ ~seen[p].run /\ ~Running(c) /\ Starts(c, seen[p].par) /\ Step(p, "setup", "pw")
     \/ seen[p].run /\ Step(p, "setup", "pw") /\ UNCHANGED <<live, dump>>
     \/ ~seen[p].run /\ NoStart(c) /\ Step(p, "setup", "failed")
  /\ UNCHANGED <<conf, area, link>>

\* vps_pw_configure(), then vps_stop(), whose failure is ignored
SetPassword(p) ==
  LET c == ct[p] IN
  /\ pc[p] = "pw"
  /\ \/ Step(p, "pw", "mode")
     \/ (Fault("setup") \/ ~Running(c)) /\ Step(p, "pw", "failed")
  /\ \/ ~seen[p].run /\ live' = [live EXCEPT ![c] = None]
     \/ (seen[p].run \/ Fault("stop")) /\ UNCHANGED live
  /\ UNCHANGED <<conf, area, dump, link>>

NoPassword(p) ==
  /\ ~cmd[p].pw /\ Step(p, "setup", "mode")
  /\ UNCHANGED <<conf, ctVars, link>>

\* check_set_mode(): the value, and the mask, are compared with those that
\* vzctl read.
Differs(p) ==
  \/ cmd[p].par \notin {None, seen[p].par.val}
  \/ cmd[p].known # {} /\ cmd[p].on # seen[p].par.on

(* vps_setup_res() for a container that runs and is not to be restarted,   *)
(* mod_setup() for one that does not run                                   *)
Apply(p) ==
  /\ seen[p].run => ~Differs(p) \/ cmd[p].mode = "none"
  /\ \/ Step(p, "mode", "save")
     \/ (Fault("setup") \/ (seen[p].run /\ ~Running(ct[p]))) /\ Step(p, "mode", "failed")
  /\ UNCHANGED <<conf, ctVars, link>>

\* VZ_VE_RUNNING
Refuse(p) ==
  /\ seen[p].run /\ Differs(p) /\ cmd[p].mode = "ignore"
  /\ Step(p, "mode", "failed")
  /\ UNCHANGED <<conf, ctVars, link>>

StopForRestart(p) ==
  /\ seen[p].run /\ Differs(p) /\ cmd[p].mode = "restart"
  /\ \/ Step(p, "mode", "start") /\ live' = [live EXCEPT ![ct[p]] = None]
     \/ Fault("stop") /\ Running(ct[p]) /\ Step(p, "mode", "failed") /\ UNCHANGED live
  /\ UNCHANGED <<conf, area, dump, link>>

\* merge_vps_param(): a mask replaces the one of the file, and an empty one
\* does not (MERGE_INT).
Merged(p) ==
  LET k == cmd[p]  old == seen[p].par IN
  [val   |-> IF k.par = None THEN old.val ELSE k.par,
   known |-> IF k.known = {} THEN old.known ELSE k.known,
   on    |-> IF k.on = {} THEN old.on ELSE k.on]

MutRestart(p) ==
  /\ \/ Step(p, "start", "save") /\ Boots(ct[p], seen[p].par)
     \/ Step(p, "start", "failed") /\ NoStart(ct[p])
  /\ UNCHANGED <<conf, area, link>>

Restart(p) ==
  /\ \/ Step(p, "start", "save") /\ Boots(ct[p], Merged(p))
     \/ Step(p, "start", "failed") /\ NoStart(ct[p])
  /\ UNCHANGED <<conf, area, link>>

\* store_features(): feature by feature, from what vzctl read; a line that
\* was not asked for is not touched.
Stored(p) ==
  LET k == cmd[p]  c == ct[p]  old == seen[p].par IN
  [val   |-> IF k.par = None THEN par[c].val ELSE k.par,
   known |-> IF k.known = {} THEN par[c].known ELSE k.known \union old.known,
   on    |-> IF k.known = {} THEN par[c].on ELSE k.on \union (old.on \ k.known)]

\* vps_save_config(), which makes a file where there is none
Save(p) ==
  LET c == ct[p]  k == cmd[p] IN
  /\ \/ /\ Step(p, "save", IF k.op = "create" THEN "script" ELSE "done")
        /\ exists' = exists \union {c} /\ par' = [par EXCEPT ![c] = Stored(p)]
        /\ name' = [name EXCEPT ![c] = IF k.name = None THEN @ ELSE k.name]
     \/ /\ Fault("save") /\ UNCHANGED conf
        /\ Step(p, "save", IF k.op = "create" THEN "names" ELSE "failed")
  /\ UNCHANGED <<ctVars, link>>

-----------------------------------------------------------------------------
(* vps_create(), destroy() *)

RemoveFile(c) ==
  /\ exists' = exists \ {c}
  /\ name' = [name EXCEPT ![c] = None] /\ par' = [par EXCEPT ![c] = Default]

\* A sample that is asked for is not copied over a file, the default one is
\* left aside then; without one there may be no file yet.
CopySample(p) ==
  LET c == ct[p]  k == cmd[p] IN
  /\ pc[p] = "copy"
  /\ \/ /\ k.config # "none"
        /\ Fault("sample") \/ (k.config = "given" /\ c \in exists)
        /\ Step(p, "copy", "refused") /\ UNCHANGED exists
     \/ /\ k.config = "none" \/ (k.config = "default" /\ c \in exists)
        /\ Step(p, "copy", "check") /\ UNCHANGED exists
     \/ /\ k.config # "none" /\ c \notin exists
        /\ \/ Goto(p, "copy", "check")
           \/ Fault("sample") /\ Goto(p, "copy", "refused")
        /\ sample' = [sample EXCEPT ![p] = TRUE] /\ exists' = exists \union {c}
        /\ UNCHANGED <<lock, cmd, ct, seen, matched>> /\ Watch(torn \ {c})
  /\ UNCHANGED <<name, par, ctVars, link>>

CheckArea(p) ==
  /\ Step(p, "check", IF ct[p] \in area THEN "err"
                      ELSE IF cmd[p].name = None THEN "fs" ELSE "name")
  /\ UNCHANGED <<conf, ctVars, link>>

\* fs_create(), vps_postcreate()
CreateFs(p) ==
  /\ \/ Step(p, "fs", "save") /\ area' = area \union {ct[p]}
     \/ Fault("fs") /\ Step(p, "fs", "undo") /\ area' \in {area, area \union {ct[p]}}
  /\ UNCHANGED <<conf, live, dump, link>>

\* run_pre_script()
CreateScript(p) ==
  /\ \/ Step(p, "script", "done")
     \/ Fault("script") /\ Step(p, "script", "names")
  /\ UNCHANGED <<conf, ctVars, link>>

\* vps_destroy_dir(), which may fail after the area is gone
DestroyCt(p) ==
  LET c == ct[p] IN
  /\ pc[p] = "destroy"
  /\ \/ ~Running(c) /\ Step(p, "destroy", "backup") /\ area' = area \ {c}
     \/ /\ ~Running(c) /\ Fault("area") /\ Step(p, "destroy", "failed")
        /\ area' \in {area, area \ {c}}
     \/ Running(c) /\ Step(p, "destroy", "failed") /\ UNCHANGED area
  /\ UNCHANGED <<conf, live, dump, link>>

\* move_config(), destroy_dump()
BackUpConfig(p) ==
  /\ Step(p, "backup", "names")
  /\ RemoveFile(ct[p]) /\ dump' = [dump EXCEPT ![ct[p]] = None]
  /\ UNCHANGED <<area, live, link>>

\* remove_names(): one of the links that lead here, whoever makes it next
RemoveName(p) ==
  /\ Step(p, "names", "names")
  /\ \E n \in Names : link[n] = ct[p] /\ link' = [link EXCEPT ![n] = None]
  /\ UNCHANGED <<conf, ctVars>>

NamesRemoved(p) ==
  /\ pc[p] = "names" /\ \A n \in Names : link[n] # ct[p]
  /\ \/ cmd[p].op = "destroy" /\ Step(p, "names", "done")
     \/ cmd[p].op = "create" /\ Advance(p, "names", "undo") /\ Watch(torn \union {ct[p]})
  /\ UNCHANGED <<conf, ctVars, link>>

\* err_private: what vps_destroy_dir() returns is ignored.
RemoveArea(p) ==
  /\ Step(p, "undo", "err")
  /\ area' = area \ {ct[p]} \/ (Fault("area") /\ UNCHANGED area)
  /\ UNCHANGED <<conf, live, dump, link>>

\* err_cfg: a file that create has not made stays.
RemoveConfig(p) ==
  /\ Step(p, "err", "failed")
  /\ IF sample[p] THEN RemoveFile(ct[p]) ELSE UNCHANGED conf
  /\ UNCHANGED <<ctVars, link>>

\* SIGINT or SIGTERM: run_cleanup() unlinks the file, and vzctl goes on.
Interrupted(p) ==
  /\ sample[p] /\ pc[p] # "done" /\ RemoveFile(ct[p])
  /\ UNCHANGED <<ctVars, link, lock, proc, torn>>

-----------------------------------------------------------------------------
(* A vzctl that has the lock and leaves: a set whose link is changed and    *)
(* whose file is not, or a create while it removes names                   *)
Tears(p) ==
  \/ /\ cmd[p].op = "set" /\ cmd[p].name # None
     /\ pc[p] \notin {"lock", "name", "refused", "done"}
  \/ cmd[p].op = "create" /\ pc[p] = "names"

Leaves(p) ==
  /\ pc' = [pc EXCEPT ![p] = "idle"] /\ cmd' = [cmd EXCEPT ![p] = NoCmd]
  /\ seen' = [seen EXCEPT ![p] = NoConf] /\ sample' = [sample EXCEPT ![p] = FALSE]
  /\ matched' = [matched EXCEPT ![p] = FALSE] /\ ct' = [ct EXCEPT ![p] = None]
  /\ lock' = [c \in Cts |-> IF lock[c] = p THEN None ELSE lock[c]]
  /\ UNCHANGED <<conf, ctVars, link>>
  /\ Watch(IF Tears(p) THEN torn \union {ct[p]} ELSE torn)

Unlock(p) == pc[p] \in {"done", "refused", "failed"} /\ Leaves(p)

Killed(p) == pc[p] \notin {"idle", "done", "refused", "failed"} /\ Leaves(p)

\* vzctl start, with what was read before the lock
StartCt(p) ==
  /\ pc[p] = "boot"
  /\ \/ ~Running(ct[p]) /\ Step(p, "boot", "done") /\ Boots(ct[p], seen[p].par)
     \/ ~Running(ct[p]) /\ Step(p, "boot", "failed") /\ NoStart(ct[p])
     \/ Running(ct[p]) /\ Step(p, "boot", "failed") /\ UNCHANGED <<live, dump>>
  /\ UNCHANGED <<conf, area, link>>

Halt(c) ==
  /\ Running(c) /\ live' = [live EXCEPT ![c] = None]
  /\ UNCHANGED <<conf, area, dump, link, lock, proc, torn>>

\* vzctl chkpnt, done at once under the lock: the container goes or runs on.
Chkpnt(c) ==
  /\ Running(c) /\ Free(c)
  /\ dump' = [dump EXCEPT ![c] = live[c]]
  /\ \E l \in {None, live[c]} : live' = [live EXCEPT ![c] = l]
  /\ UNCHANGED <<conf, area, link, lock, proc, torn>>

Next ==
  \/ \E c \in Cts : Halt(c) \/ Chkpnt(c)
  \/ \E p \in Vzctls :
       \/ Invoke(p) \/ Lock(p) \/ CheckName(p) \/ Unlink(p) \/ Symlink(p)
       \/ Alias(p) \/ RemoveAlias(p) \/ StartForPassword(p) \/ SetPassword(p)
       \/ NoPassword(p) \/ Apply(p) \/ Refuse(p) \/ StopForRestart(p)
       \/ Restart(p) \/ Save(p) \/ CopySample(p) \/ CheckArea(p) \/ CreateFs(p)
       \/ CreateScript(p) \/ DestroyCt(p) \/ BackUpConfig(p) \/ RemoveName(p)
       \/ NamesRemoved(p) \/ RemoveArea(p) \/ RemoveConfig(p) \/ Interrupted(p)
       \/ StartCt(p) \/ Unlock(p) \/ Killed(p)

Spec == Init /\ [][Next]_vars

-----------------------------------------------------------------------------
Pars ==
  {r \in [val : Vals, known : SUBSET Features, on : SUBSET Features] : r.on \subseteq r.known}
Lives == [val : Vals, on : SUBSET Features]

TypeOK ==
  /\ exists \subseteq Cts /\ area \subseteq Cts
  /\ name \in [Cts -> Names \union {None}] /\ par \in [Cts -> Pars]
  /\ \A c \in Cts : live[c] \in Lives \union {None} /\ dump[c] \in Lives \union {None}
  /\ link \in [Names -> Cts \union {None}]
  /\ lock \in [Cts -> Vzctls \union {None}]
  /\ torn \subseteq Cts
  /\ \A p \in Vzctls : pc[p] \notin {"idle", "lock"} => lock[ct[p]] = p

(* The name in the configuration file of a container leads to it: no other *)
(* container takes it over, be it by set --name, create or destroy, and no *)
(* vzctl that has read the configuration too early.  What breaks it is     *)
(*   - a set --name that does not finish, since the link changes first,    *)
(*   - a create that fails and removes the names (err_names) of a          *)
(*     container whose file it has not made and leaves there, or is killed *)
(*     meanwhile,                                                          *)
(*   - two vzctl that work on one name at a time.                          *)
NameKept ==
  \A c \in exists \ torn :
    lock[c] = None /\ name[c] # None => link[name[c]] = c

\* The command names every feature that the file has, and turns one on if one
\* was on: then merge_vps_param() makes of the masks what store_features() does.
FeaturesGiven(p) ==
  cmd[p].known # {} =>
    seen[p].par.known \subseteq cmd[p].known /\ (cmd[p].on # {} \/ seen[p].par.on = {})

\* A set --setmode that has saved, for a container that ran with what vzctl read
Settled(p) ==
  /\ pc[p] = "done" /\ cmd[p].op = "set" /\ cmd[p].mode # "none"
  /\ matched[p] /\ Running(ct[p])

(* A vzctl set with --setmode that saves leaves no running container with  *)
(* static parameters that differ from those saved, if it was so before,    *)
(* vzctl has read it so and no dump file lay there to be restored: the     *)
(* value in any case, the features if they were given in full.             *)
SetModeHonoured ==
  \A p \in Vzctls :
    Settled(p) => LET c == ct[p] IN
      /\ live[c].val = par[c].val
      /\ FeaturesGiven(p) => live[c].on = LiveOf(par[c]).on

(* "A few parameters can only be applied by restarting the container": a   *)
(* set --setmode restart restarts it, and then it has the features saved.  *)
FeaturesTakeEffect ==
  \A p \in Vzctls : Settled(p) => live[ct[p]].on = LiveOf(par[ct[p]]).on

(* --setmode ignore suppresses the warning that some parameters need a     *)
(* restart: a vzctl set that has it, and whose calls all succeed, does not  *)
(* fail while the container runs on.                                       *)
IgnoreOnlySilences ==
  \A p \in Vzctls :
    pc[p] = "failed" /\ cmd[p].mode = "ignore" /\ seen[p].run => ~Running(ct[p])
=============================================================================
