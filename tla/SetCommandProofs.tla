--------------------------- MODULE SetCommandProofs ---------------------------
(***************************************************************************)
(* SetCommand keeps NameKept and SetModeHonoured, for any number of        *)
(* containers, names and vzctl, and whatever they are asked.               *)
(*                                                                         *)
(* NameInv is the inductive invariant for names.  The name in the file of  *)
(* a container leads to it (LinkInv) because nobody removes a name that a  *)
(* container has (OthersInv) unless the two meet (MeetInv), and because    *)
(* what a vzctl writes is a link that it has made (MadeInv), and one that  *)
(* a create makes is not the name in the file, or the container is torn    *)
(* (CreateInv).  A container is Torn from the first change of a link till  *)
(* the new name is in its file.                                            *)
(*                                                                         *)
(* ModeInv follows a vzctl set with --setmode from its lock to its save.   *)
(***************************************************************************)
EXTENDS SetCommand, TLAPS

Steps == {"idle", "lock", "copy", "check", "name", "unlink", "symlink", "alias", "unalias",
          "setup", "pw", "mode", "start", "save", "fs", "script", "destroy", "backup",
          "names", "undo", "err", "boot", "done", "refused", "failed"}
Commands ==
  {r \in [op : {"none", "set", "create", "destroy", "start"}, name : Names \union {None},
          par : Vals \union {None}, known : SUBSET Features, on : SUBSET Features,
          mode : {"none", "ignore", "restart"}, pw : BOOLEAN,
          config : {"none", "default", "given"}] : r.on \subseteq r.known}
Confs == [name : Names \union {None}, par : Pars, run : BOOLEAN]

\* Assumed of the constants: what is asked is meant, and only set and create
\* give names.
Sane ==
  /\ None \notin Cts /\ None \notin Names /\ None \notin Vals /\ None \notin Vzctls
  /\ Vals # {}
  /\ Requests \subseteq Commands
  /\ \A r \in Requests : r.op # "none" /\ (r.op \in {"destroy", "start"} => r.name = None)

\* The types, with those of what a vzctl is asked and has read.
FileTypes ==
  /\ exists \subseteq Cts /\ name \in [Cts -> Names \union {None}] /\ par \in [Cts -> Pars]
  /\ area \subseteq Cts /\ dump \in [Cts -> Lives \union {None}]
  /\ live \in [Cts -> Lives \union {None}] /\ link \in [Names -> Cts \union {None}]
  /\ torn \subseteq Cts
  /\ \A c \in Cts : name[c] # None => c \in exists
LockTypes ==
  /\ lock \in [Cts -> Vzctls \union {None}] /\ pc \in [Vzctls -> Steps]
  /\ ct \in [Vzctls -> Cts \union {None}]
  /\ \A p \in Vzctls : pc[p] # "idle" => ct[p] \in Cts
  /\ \A p \in Vzctls : pc[p] \notin {"idle", "lock"} => lock[ct[p]] = p
  /\ \A c \in Cts : lock[c] # None => ct[lock[c]] = c /\ pc[lock[c]] \notin {"idle", "lock"}

\* What a vzctl that is at l has been asked.
OpAt(p, l) ==
  /\ l # "idle" => cmd[p].op # "none"
  /\ l = "idle" \/ cmd[p].op \notin {"set", "create"} => cmd[p].name = None
  /\ l \in {"copy", "check", "fs", "script", "undo", "err"} => cmd[p].op = "create"
  /\ l \in {"name", "unlink", "symlink", "save"} => cmd[p].op \in {"set", "create"}
  /\ l \in {"alias", "unalias", "setup", "pw", "mode", "start"} => cmd[p].op = "set"
  /\ l \in {"name", "unlink", "symlink", "alias", "unalias"} => cmd[p].name # None
  /\ l \in {"alias", "unalias"} => seen[p].name \notin {None, cmd[p].name}
  /\ l = "names" => cmd[p].op \in {"create", "destroy"}
  /\ (l \in {"destroy", "backup"} => cmd[p].op = "destroy") /\ (l = "boot" => cmd[p].op = "start")
CmdTypes ==
  /\ cmd \in [Vzctls -> Commands] /\ seen \in [Vzctls -> Confs]
  /\ matched \in [Vzctls -> BOOLEAN] /\ sample \in [Vzctls -> BOOLEAN]
  /\ \A p \in Vzctls : OpAt(p, pc[p])
Types == FileTypes /\ LockTypes /\ CmdTypes

\* Two vzctl that work on one name tear their containers.
MeetInv == \A p, q \in Vzctls : Meet(p, q) => ct[p] \in torn

\* A container is torn, or would be if the vzctl that has its lock left now.
Torn(c) == c \in torn \/ (lock[c] # None /\ Tears(lock[c]))

\* The name of a container leads to it, unless it is torn.
LinkInv == \A c \in Cts : ~Torn(c) /\ name[c] # None => link[name[c]] = c

\* After its link is made, a vzctl has the name.
Linked == {"alias", "unalias", "setup", "pw", "mode", "start", "save", "fs", "script", "done"}
MadeInv == \A p \in Vzctls :
  pc[p] \in Linked /\ cmd[p].name # None /\ ct[p] \notin torn => link[cmd[p].name] = ct[p]

\* A name that a vzctl may remove is that of no other container.
Removes(p, n) ==
  \/ cmd[p].name = n /\ pc[p] \in {"unlink", "symlink"} \union Linked
  \/ pc[p] = "unalias" /\ seen[p].name = n
OthersInv == \A p \in Vzctls : \A n \in Names : \A c \in Cts :
  Removes(p, n) /\ c # ct[p] /\ ~Torn(c) => name[c] # n

\* A create makes a link that is not in the file, a destroy has removed the file.
Spares(p) ==
  /\ cmd[p].op = "create" /\ pc[p] \in {"unlink", "symlink"} =>
       name[ct[p]] # cmd[p].name \/ ct[p] \in torn
  /\ cmd[p].op = "destroy" /\ pc[p] = "names" => name[ct[p]] = None
CreateInv == \A p \in Vzctls : Spares(p)

NameInv == Types /\ MeetInv /\ LinkInv /\ MadeInv /\ OthersInv /\ CreateInv

\* A container that ran with what vzctl read runs with it till vzctl has saved.
Early == {"name", "unlink", "symlink", "alias", "unalias", "setup", "pw", "mode"}
\* What a container runs with is what r says, the features if they were given.
Agrees(p, l, r) == l.val = r.val /\ (FeaturesGiven(p) => l.on = LiveOf(r).on)
ModeInvOf(p) ==
  /\ sample[p] => cmd[p].op = "create" /\ pc[p] \notin {"idle", "lock"}
  /\ cmd[p].op = "set" /\ cmd[p].mode # "none" /\ matched[p] =>
    /\ pc[p] \in Early \union {"start"} =>
         seen[p].run /\ par[ct[p]] = seen[p].par /\ dump[ct[p]] = None
    /\ pc[p] \in Early => live[ct[p]] \in {None, LiveOf(par[ct[p]])}
    /\ pc[p] = "save" => live[ct[p]] = None \/ Agrees(p, live[ct[p]], Stored(p))
    /\ pc[p] = "done" => live[ct[p]] = None \/ Agrees(p, live[ct[p]], par[ct[p]])
ModeInv == \A p \in Vzctls : ModeInvOf(p)

-----------------------------------------------------------------------------
(* Types.                                                                  *)

LEMMA NoneIsIdle ==
  ASSUME Sane
  PROVE  /\ NoCmd.name = None /\ NoCmd.op = "none" /\ NoCmd \in Commands
         /\ Default \in Pars /\ NoConf \in Confs
<1>1. Default \in Pars
  BY DEF Default, Sample, Sane, Pars
<1> QED
  BY <1>1 DEF NoCmd, NoConf, Commands, Confs

\* What a container is started with is what one runs with.
LEMMA LiveOfLives ==
  ASSUME NEW r \in Pars
  PROVE  LiveOf(r) \in Lives
BY DEF LiveOf, Lives, Pars

LEMMA MergedPars ==
  ASSUME NEW p, cmd[p] \in Commands, seen[p] \in Confs, par[ct[p]] \in Pars
  PROVE  LiveOf(Merged(p)) \in Lives /\ Stored(p) \in Pars
<1>1. LiveOf(Merged(p)) \in Lives
  BY DEF Merged, LiveOf, Lives, Pars, Confs, Commands
<1>2. Stored(p) \in Pars
  BY DEF Stored, Pars, Confs, Commands
<1> QED
  BY <1>1, <1>2

LEMMA BootsTypes ==
  ASSUME NEW c \in Cts, NEW r, LiveOf(r) \in Lives, FileTypes,
         Boots(c, r) \/ Starts(c, r) \/ NoStart(c)
  PROVE  live' \in [Cts -> Lives \union {None}] /\ dump' \in [Cts -> Lives \union {None}]
BY DEF Boots, Starts, Restores, NoStart, FileTypes

\* Two vzctl that meet are at containers, and these are torn.
LEMMA WatchTears ==
  ASSUME Sane, LockTypes', CmdTypes', NEW before \in SUBSET Cts, Watch(before)
  PROVE  torn' \subseteq Cts /\ before \subseteq torn' /\ MeetInv'
<1>1. ASSUME NEW p \in Vzctls, NEW n \in Names, AtName(p, n)' PROVE ct'[p] \in Cts
  <2>1. pc'[p] # "idle"
    BY <1>1 DEF AtName, Sane, CmdTypes, OpAt
  <2> QED
    BY <2>1 DEF LockTypes
<1>2. torn' \subseteq Cts /\ before \subseteq torn'
  BY <1>1 DEF Watch, Meet
<1>3. MeetInv'
  BY DEF Watch, MeetInv
<1> QED
  BY <1>2, <1>3

\* A vzctl that has the lock moves on, to where it has been asked to go.
Walks(p) ==
  /\ pc[p] \notin {"idle", "lock"} /\ pc'[p] \in Steps \ {"idle", "lock"}
  /\ pc' = [pc EXCEPT ![p] = pc'[p]]
  /\ UNCHANGED <<lock, cmd, ct, seen, matched>> /\ OpAt(p, pc'[p])
  /\ sample' \in [Vzctls -> BOOLEAN]

LEMMA WalksTypes ==
  ASSUME LockTypes, CmdTypes, NEW p \in Vzctls, Walks(p)
  PROVE  LockTypes' /\ CmdTypes'
<1>1. \A q \in Vzctls : pc'[q] = IF q = p THEN pc'[p] ELSE pc[q]
  BY DEF LockTypes, Walks
<1>2. LockTypes'
  <2>1. pc' \in [Vzctls -> Steps]
    BY DEF LockTypes, Walks
  <2>2. \A q \in Vzctls : pc'[q] \in {"idle", "lock"} <=> pc[q] \in {"idle", "lock"}
    BY <1>1 DEF Walks
  <2>3. \A q \in Vzctls : pc'[q] = "idle" <=> pc[q] = "idle"
    BY <1>1 DEF Walks
  <2> QED
    BY <2>1, <2>2, <2>3 DEF LockTypes, Walks
<1>3. CmdTypes'
  BY <1>1 DEF CmdTypes, OpAt, Walks
<1> QED
  BY <1>2, <1>3

LEMMA GotoWalks ==
  ASSUME LockTypes, NEW p \in Vzctls, NEW from \in Steps \ {"idle", "lock"},
         NEW to \in Steps \ {"idle", "lock"}, Goto(p, from, to),
         UNCHANGED <<lock, cmd, ct, seen, matched>>, OpAt(p, to),
         sample' \in [Vzctls -> BOOLEAN]
  PROVE  Walks(p)
BY DEF LockTypes, Walks, Goto

\* The steps of set_name() and set(), of create and destroy.
Works(p) ==
  \/ CheckName(p) \/ Unlink(p) \/ Symlink(p) \/ Alias(p) \/ RemoveAlias(p)
  \/ StartForPassword(p) \/ SetPassword(p) \/ NoPassword(p) \/ Apply(p)
  \/ Refuse(p) \/ StopForRestart(p) \/ Restart(p) \/ Save(p) \/ CopySample(p)
  \/ CheckArea(p) \/ CreateFs(p) \/ CreateScript(p) \/ DestroyCt(p)
  \/ BackUpConfig(p) \/ RemoveName(p) \/ NamesRemoved(p) \/ RemoveArea(p)
  \/ RemoveConfig(p) \/ StartCt(p)

LEMMA WorksWalk ==
  ASSUME Sane, LockTypes, CmdTypes, NEW p \in Vzctls, Works(p)
  PROVE  Walks(p)
<1> DEFINE Goes(from, to) ==
             /\ Goto(p, from, to) /\ UNCHANGED <<lock, cmd, ct, seen, matched>>
             /\ OpAt(p, to) /\ sample' \in [Vzctls -> BOOLEAN]
<1> USE DEF Step, Advance, Steps, CmdTypes
<1>0. OpAt(p, pc[p])
  BY DEF CmdTypes
<1>1. CASE CheckName(p)
  <2>1. Goes("name", "refused") \/ Goes("name", "err") \/ Goes("name", "unlink") \/ Goes("name", "fs")
         \/ Goes("name", "setup")
    BY <1>0, <1>1 DEF CheckName, After, Goto, OpAt
  <2> QED
    BY <2>1, GotoWalks
<1>2. CASE Unlink(p)
  <2>1. Goes("unlink", "symlink")
    BY <1>0, <1>2 DEF Unlink, Goto, OpAt
  <2> QED
    BY <2>1, GotoWalks
<1>3. CASE Symlink(p)
  <2>1. Goes("symlink", "failed") \/ Goes("symlink", "err") \/ Goes("symlink", "alias")
         \/ Goes("symlink", "fs") \/ Goes("symlink", "setup")
    BY <1>0, <1>3 DEF Symlink, OldName, After, Unnamed, Goto, OpAt
  <2> QED
    BY <2>1, GotoWalks
<1>4. CASE Alias(p)
  <2>1. Goes("alias", "unalias") \/ Goes("alias", "setup")
    BY <1>0, <1>4 DEF Alias, After, Goto, OpAt
  <2> QED
    BY <2>1, GotoWalks
<1>5. CASE RemoveAlias(p)
  <2>1. Goes("unalias", "setup")
    BY <1>0, <1>5 DEF RemoveAlias, After, Goto, OpAt
  <2> QED
    BY <2>1, GotoWalks
<1>6. CASE StartForPassword(p)
  <2>1. Goes("setup", "pw") \/ Goes("setup", "failed")
    BY <1>0, <1>6 DEF StartForPassword, Goto, OpAt
  <2> QED
    BY <2>1, GotoWalks
<1>7. CASE SetPassword(p)
  <2>1. Goes("pw", "mode") \/ Goes("pw", "failed")
    BY <1>0, <1>7 DEF SetPassword, Goto, OpAt
  <2> QED
    BY <2>1, GotoWalks
<1>8. CASE NoPassword(p)
  <2>1. Goes("setup", "mode")
    BY <1>0, <1>8 DEF NoPassword, Goto, OpAt
  <2> QED
    BY <2>1, GotoWalks
<1>9. CASE Apply(p)
  <2>1. Goes("mode", "save") \/ Goes("mode", "failed")
    BY <1>0, <1>9 DEF Apply, Goto, OpAt
  <2> QED
    BY <2>1, GotoWalks
<1>10. CASE Refuse(p)
  <2>1. Goes("mode", "failed")
    BY <1>0, <1>10 DEF Refuse, Goto, OpAt
  <2> QED
    BY <2>1, GotoWalks
<1>11. CASE StopForRestart(p)
  <2>1. Goes("mode", "start") \/ Goes("mode", "failed")
    BY <1>0, <1>11 DEF StopForRestart, Goto, OpAt
  <2> QED
    BY <2>1, GotoWalks
<1>12. CASE Restart(p)
  <2>1. Goes("start", "save") \/ Goes("start", "failed")
    BY <1>0, <1>12 DEF Restart, Goto, OpAt
  <2> QED
    BY <2>1, GotoWalks
<1>13. CASE CopySample(p)
  <2>1. Goes("copy", "refused") \/ Goes("copy", "check")
    BY <1>0, <1>13 DEF CopySample, Goto, OpAt
  <2> QED
    BY <2>1, GotoWalks
<1>14. CASE CheckArea(p)
  <2>1. Goes("check", "err") \/ Goes("check", "fs")
         \/ Goes("check", "name")
    BY <1>0, <1>14 DEF CheckArea, Goto, OpAt
  <2> QED
    BY <2>1, GotoWalks
<1>15. CASE CreateFs(p)
  <2>1. Goes("fs", "save") \/ Goes("fs", "undo")
    BY <1>0, <1>15 DEF CreateFs, Goto, OpAt
  <2> QED
    BY <2>1, GotoWalks
<1>16. CASE CreateScript(p)
  <2>1. Goes("script", "done") \/ Goes("script", "names")
    BY <1>0, <1>16 DEF CreateScript, Goto, OpAt
  <2> QED
    BY <2>1, GotoWalks
<1>17. CASE DestroyCt(p)
  <2>1. Goes("destroy", "failed") \/ Goes("destroy", "backup")
    BY <1>0, <1>17 DEF DestroyCt, Goto, OpAt
  <2> QED
    BY <2>1, GotoWalks
<1>18. CASE BackUpConfig(p)
  <2>1. Goes("backup", "names")
    BY <1>0, <1>18 DEF BackUpConfig, Goto, OpAt
  <2> QED
    BY <2>1, GotoWalks
<1>19. CASE RemoveName(p)
  <2>1. Goes("names", "names")
    BY <1>0, <1>19 DEF RemoveName, Goto, OpAt
  <2> QED
    BY <2>1, GotoWalks
<1>20. CASE NamesRemoved(p)
  <2>1. Goes("names", "undo") \/ Goes("names", "done")
    BY <1>0, <1>20 DEF NamesRemoved, Goto, OpAt
  <2> QED
    BY <2>1, GotoWalks
<1>21. CASE RemoveArea(p)
  <2>1. Goes("undo", "err")
    BY <1>0, <1>21 DEF RemoveArea, Goto, OpAt
  <2> QED
    BY <2>1, GotoWalks
<1>22. CASE RemoveConfig(p)
  <2>1. Goes("err", "failed")
    BY <1>0, <1>22 DEF RemoveConfig, Goto, OpAt
  <2> QED
    BY <2>1, GotoWalks
<1>23. CASE StartCt(p)
  <2>1. Goes("boot", "failed") \/ Goes("boot", "done")
    BY <1>0, <1>23 DEF StartCt, Goto, OpAt
  <2> QED
    BY <2>1, GotoWalks
<1>24. CASE Save(p)
  <2>1. Goes("save", "script") \/ Goes("save", "done")
         \/ Goes("save", "names") \/ Goes("save", "failed")
    BY <1>0, <1>24 DEF Save, Goto, OpAt
  <2> QED
    BY <2>1, GotoWalks
<1> QED
  BY <1>1, <1>2, <1>3, <1>4, <1>5, <1>6, <1>7, <1>8, <1>9, <1>10, <1>11, <1>12, <1>13,
     <1>14, <1>15, <1>16, <1>17, <1>18, <1>19, <1>20, <1>21, <1>22, <1>23, <1>24 DEF Works

LEMMA WorksFiles ==
  ASSUME Sane, FileTypes, LockTypes, CmdTypes, NEW p \in Vzctls, Works(p), torn' \subseteq Cts
  PROVE  FileTypes'
<1>1. ct[p] \in Cts /\ cmd[p] \in Commands /\ seen[p] \in Confs /\ OpAt(p, pc[p])
  <2>1. pc[p] # "idle"
    BY WorksWalk DEF Walks
  <2> QED
    BY <2>1 DEF LockTypes, CmdTypes
<1>2. /\ Default \in Pars /\ Stored(p) \in Pars
      /\ LiveOf(Merged(p)) \in Lives /\ LiveOf(seen[p].par) \in Lives
  <2>1. seen[p].par \in Pars /\ par[ct[p]] \in Pars
    BY <1>1 DEF Confs, FileTypes
  <2> QED
    BY <1>1, <2>1, NoneIsIdle, MergedPars, LiveOfLives
<1>3. ASSUME UNCHANGED <<conf, ctVars>>, link' \in [Names -> Cts \union {None}]
      PROVE  FileTypes'
  BY <1>3 DEF FileTypes, conf, ctVars
<1>4. ASSUME UNCHANGED <<conf, area, link>>,
             live' \in [Cts -> Lives \union {None}] /\ dump' \in [Cts -> Lives \union {None}]
      PROVE  FileTypes'
  BY <1>4 DEF FileTypes, conf
<1>5. ASSUME UNCHANGED <<conf, live, dump, link>>, area' \subseteq Cts PROVE FileTypes'
  BY <1>5 DEF FileTypes, conf
<1>6. link \in [Names -> Cts \union {None}]
  BY DEF FileTypes
<1>7. CASE CheckName(p)
  BY <1>3, <1>6, <1>7 DEF CheckName, conf, ctVars
<1>8. CASE Unlink(p)
  <2>1. link' \in [Names -> Cts \union {None}]
    BY <1>1, <1>6, <1>8 DEF Unlink, Step, Advance, Goto, OpAt, Confs, Commands
  <2> QED
    BY <1>3, <1>8, <2>1 DEF Unlink
<1>9. CASE Symlink(p)
  <2>1. link' \in [Names -> Cts \union {None}]
    BY <1>1, <1>6, <1>9 DEF Symlink, Step, Advance, Goto, OpAt, Confs, Commands
  <2> QED
    BY <1>3, <1>9, <2>1 DEF Symlink
<1>10. CASE Alias(p)
  BY <1>3, <1>6, <1>10 DEF Alias, conf, ctVars
<1>11. CASE RemoveAlias(p)
  <2>1. link' \in [Names -> Cts \union {None}]
    BY <1>1, <1>6, <1>11 DEF RemoveAlias, Step, Advance, Goto, OpAt, Confs, Commands
  <2> QED
    BY <1>3, <1>11, <2>1 DEF RemoveAlias
<1>12. CASE NoPassword(p)
  BY <1>3, <1>6, <1>12 DEF NoPassword, conf, ctVars
<1>13. CASE Apply(p)
  BY <1>3, <1>6, <1>13 DEF Apply, conf, ctVars
<1>14. CASE Refuse(p)
  BY <1>3, <1>6, <1>14 DEF Refuse, conf, ctVars
<1>15. CASE CheckArea(p)
  BY <1>3, <1>6, <1>15 DEF CheckArea, conf, ctVars
<1>16. CASE CreateScript(p)
  BY <1>3, <1>6, <1>16 DEF CreateScript, conf, ctVars
<1>17. CASE RemoveName(p)
  <2>1. link' \in [Names -> Cts \union {None}]
    BY <1>1, <1>6, <1>17 DEF RemoveName, Step, Advance, Goto, OpAt, Confs, Commands
  <2> QED
    BY <1>3, <1>17, <2>1 DEF RemoveName
<1>18. CASE NamesRemoved(p)
  BY <1>3, <1>6, <1>18 DEF NamesRemoved, conf, ctVars
<1>19. CASE StartForPassword(p)
  <2>1. UNCHANGED <<conf, area, link>>
    BY <1>19 DEF StartForPassword
  <2>2. \/ Boots(ct[p], seen[p].par) \/ Starts(ct[p], seen[p].par) \/ NoStart(ct[p])
        \/ UNCHANGED <<live, dump>>
    BY <1>19 DEF StartForPassword
  <2>3. live' \in [Cts -> Lives \union {None}] /\ dump' \in [Cts -> Lives \union {None}]
    BY <1>1, <1>2, <2>2, BootsTypes DEF FileTypes
  <2> QED
    BY <1>4, <2>1, <2>3
<1>20. CASE StartCt(p)
  <2>1. UNCHANGED <<conf, area, link>>
    BY <1>20 DEF StartCt
  <2>2. \/ Boots(ct[p], seen[p].par) \/ Starts(ct[p], seen[p].par) \/ NoStart(ct[p])
        \/ UNCHANGED <<live, dump>>
    BY <1>20 DEF StartCt
  <2>3. live' \in [Cts -> Lives \union {None}] /\ dump' \in [Cts -> Lives \union {None}]
    BY <1>1, <1>2, <2>2, BootsTypes DEF FileTypes
  <2> QED
    BY <1>4, <2>1, <2>3
<1>21. CASE Restart(p)
  <2>1. UNCHANGED <<conf, area, link>>
    BY <1>21 DEF Restart
  <2>2. \/ Boots(ct[p], Merged(p)) \/ Starts(ct[p], Merged(p)) \/ NoStart(ct[p])
        \/ UNCHANGED <<live, dump>>
    BY <1>21 DEF Restart
  <2>3. live' \in [Cts -> Lives \union {None}] /\ dump' \in [Cts -> Lives \union {None}]
    BY <1>1, <1>2, <2>2, BootsTypes DEF FileTypes
  <2> QED
    BY <1>4, <2>1, <2>3
<1>22. CASE SetPassword(p)
  <2>1. UNCHANGED <<conf, area, link, dump>> /\ live' \in [Cts -> Lives \union {None}]
    BY <1>1, <1>22 DEF SetPassword, FileTypes
  <2> QED
    BY <1>4, <2>1 DEF FileTypes
<1>23. CASE StopForRestart(p)
  <2>1. UNCHANGED <<conf, area, link, dump>> /\ live' \in [Cts -> Lives \union {None}]
    BY <1>1, <1>23 DEF StopForRestart, FileTypes
  <2> QED
    BY <1>4, <2>1 DEF FileTypes
<1>24. CASE CreateFs(p)
  <2>1. UNCHANGED <<conf, live, dump, link>> /\ area' \subseteq Cts
    BY <1>1, <1>24 DEF CreateFs, FileTypes
  <2> QED
    BY <1>5, <2>1
<1>25. CASE DestroyCt(p)
  <2>1. UNCHANGED <<conf, live, dump, link>> /\ area' \subseteq Cts
    BY <1>1, <1>25 DEF DestroyCt, FileTypes
  <2> QED
    BY <1>5, <2>1
<1>26. CASE RemoveArea(p)
  <2>1. UNCHANGED <<conf, live, dump, link>> /\ area' \subseteq Cts
    BY <1>1, <1>26 DEF RemoveArea, FileTypes
  <2> QED
    BY <1>5, <2>1
<1>27. CASE BackUpConfig(p)
  BY <1>1, <1>2, <1>27 DEF BackUpConfig, RemoveFile, FileTypes
<1>28. CASE RemoveConfig(p)
  BY <1>1, <1>2, <1>28 DEF RemoveConfig, RemoveFile, FileTypes, conf, ctVars
<1>29. CASE CopySample(p)
  BY <1>1, <1>2, <1>29 DEF CopySample, FileTypes, ctVars
<1>30. CASE Save(p)
  <2>1. UNCHANGED <<ctVars, link>>
    BY <1>30 DEF Save
  <2>2. CASE UNCHANGED conf
    BY <1>3, <1>6, <2>1, <2>2 DEF conf, ctVars
  <2>3. CASE /\ exists' = exists \union {ct[p]} /\ par' = [par EXCEPT ![ct[p]] = Stored(p)]
             /\ name' = [name EXCEPT ![ct[p]] = IF cmd[p].name = None THEN @ ELSE cmd[p].name]
    <3>1. cmd[p].name \in Names \union {None}
      BY <1>1 DEF Commands
    <3> HIDE DEF Sane
    <3> QED
      BY <1>1, <1>2, <2>1, <2>3, <3>1 DEF FileTypes, ctVars
  <2> QED
    BY <1>30, <2>2, <2>3 DEF Save
<1> QED
  BY <1>7, <1>8, <1>9, <1>10, <1>11, <1>12, <1>13, <1>14, <1>15, <1>16, <1>17, <1>18, <1>19,
     <1>20, <1>21, <1>22, <1>23, <1>24, <1>25, <1>26, <1>27, <1>28, <1>29, <1>30 DEF Works

\* The others: Leaves is both Unlock and Killed.
LEMMA LeavesTypes ==
  ASSUME Sane, FileTypes, LockTypes, CmdTypes, NEW p \in Vzctls, pc[p] # "idle", Leaves(p)
  PROVE  LockTypes' /\ CmdTypes'
<1>1. \A q \in Vzctls : pc'[q] = IF q = p THEN "idle" ELSE pc[q]
  BY DEF LockTypes, Leaves
<1>2. \A q \in Vzctls : ct'[q] = IF q = p THEN None ELSE ct[q]
  BY DEF LockTypes, Leaves
<1>3. \A c \in Cts : lock'[c] = IF lock[c] = p THEN None ELSE lock[c]
  BY DEF Leaves
<1>4. LockTypes'
  <2>1. lock' \in [Cts -> Vzctls \union {None}]
    BY DEF LockTypes, Leaves
  <2>2. pc' \in [Vzctls -> Steps] /\ ct' \in [Vzctls -> Cts \union {None}]
    BY DEF LockTypes, Leaves, Steps
  <2>3. \A q \in Vzctls : pc'[q] # "idle" => ct'[q] \in Cts
    BY <1>1, <1>2 DEF LockTypes
  <2>4. ASSUME NEW q \in Vzctls, pc'[q] \notin {"idle", "lock"} PROVE lock'[ct'[q]] = q
    BY <1>1, <1>2, <1>3, <2>4 DEF LockTypes
  <2>5. ASSUME NEW c \in Cts, lock'[c] # None
        PROVE  ct'[lock'[c]] = c /\ pc'[lock'[c]] \notin {"idle", "lock"}
    <3>1. lock'[c] = lock[c] /\ lock[c] \in Vzctls /\ lock[c] # p
      BY <1>3, <2>5 DEF LockTypes
    <3> QED
      BY <1>1, <1>2, <3>1, <2>5 DEF LockTypes
  <2> QED
    BY <2>1, <2>2, <2>3, <2>4, <2>5 DEF LockTypes
<1>5. CmdTypes'
  <2>1. cmd' \in [Vzctls -> Commands] /\ seen' \in [Vzctls -> Confs]
    BY NoneIsIdle DEF CmdTypes, Leaves
  <2>2. matched' \in [Vzctls -> BOOLEAN] /\ sample' \in [Vzctls -> BOOLEAN]
    BY DEF CmdTypes, Leaves
  <2>3. ASSUME NEW q \in Vzctls PROVE OpAt(q, pc[q])' \/ q = p
    BY <1>1 DEF CmdTypes, Leaves, OpAt
  <2>4. OpAt(p, pc[p])'
    <3>1. pc'[p] = "idle" /\ cmd'[p] = NoCmd
      BY <1>1 DEF Leaves, CmdTypes
    <3> QED
      BY <3>1, NoneIsIdle DEF OpAt
  <2> QED
    BY <2>1, <2>2, <2>3, <2>4 DEF CmdTypes
<1> QED
  BY <1>4, <1>5

LEMMA InvokeTypes ==
  ASSUME Sane, FileTypes, LockTypes, CmdTypes, NEW p \in Vzctls, Invoke(p)
  PROVE  LockTypes' /\ CmdTypes'
<1>1. PICK c \in Cts, r \in Requests :
        /\ ct' = [ct EXCEPT ![p] = c] /\ cmd' = [cmd EXCEPT ![p] = r]
        /\ seen' = [seen EXCEPT ![p] = [name |-> name[c], par |-> par[c], run |-> FALSE]]
  BY DEF Invoke
<1>2. pc[p] = "idle" /\ pc' = [pc EXCEPT ![p] = "lock"] /\ UNCHANGED <<lock, sample, matched>>
  BY DEF Invoke, Goto
<1>3. r \in Commands /\ r.op # "none" /\ (r.op \in {"destroy", "start"} => r.name = None)
  BY DEF Sane
<1>4. [name |-> name[c], par |-> par[c], run |-> FALSE] \in Confs
  BY DEF FileTypes, Confs
<1>5. LockTypes'
  BY <1>1, <1>2 DEF LockTypes, Steps
<1>6. CmdTypes'
  <2>1. /\ cmd' \in [Vzctls -> Commands] /\ seen' \in [Vzctls -> Confs]
        /\ matched' \in [Vzctls -> BOOLEAN] /\ sample' \in [Vzctls -> BOOLEAN]
    BY <1>1, <1>2, <1>3, <1>4 DEF CmdTypes
  <2>2. cmd'[p] = r /\ pc'[p] = "lock"
    BY <1>1, <1>2 DEF CmdTypes, LockTypes
  <2>3. OpAt(p, pc[p])'
    BY <1>3, <2>2 DEF OpAt, Commands
  <2>4. ASSUME NEW q \in Vzctls, q # p PROVE OpAt(q, pc[q])'
    BY <1>1, <1>2, <2>4 DEF OpAt, CmdTypes, LockTypes
  <2> QED
    BY <2>1, <2>3, <2>4 DEF CmdTypes
<1> QED
  BY <1>5, <1>6

\* Where vzctl begins when it has the lock.
First(p) ==
  CASE cmd[p].op = "create"  -> "copy"
    [] cmd[p].op = "destroy" -> "destroy"
    [] cmd[p].op = "start"   -> "boot"
    [] OTHER -> IF cmd[p].name # None THEN "name" ELSE "setup"

LEMMA LockStepTypes ==
  ASSUME Sane, FileTypes, LockTypes, CmdTypes, NEW p \in Vzctls, Lock(p)
  PROVE  LockTypes' /\ CmdTypes'
<1>1. /\ pc[p] = "lock" /\ ct[p] \in Cts /\ lock[ct[p]] = None
      /\ lock' = [lock EXCEPT ![ct[p]] = p] /\ UNCHANGED <<cmd, ct>>
      /\ pc' = [pc EXCEPT ![p] = First(p)]
  BY DEF Lock, Free, Goto, First, LockTypes
<1>2. First(p) \in Steps \ {"idle", "lock"}
  BY DEF First, Steps
<1>3. LockTypes'
  BY <1>1, <1>2 DEF LockTypes, Sane
<1>4. CmdTypes'
  <2>1. seen' \in [Vzctls -> Confs] /\ \A q \in Vzctls : seen'[q].name = seen[q].name
    <3>1. Running(ct[p]) \in BOOLEAN
      BY DEF Running
    <3>2. seen' = [seen EXCEPT ![p].run = Running(ct[p])]
      BY DEF Lock
    <3> QED
      BY <3>1, <3>2 DEF CmdTypes, Confs
  <2>2. matched' \in [Vzctls -> BOOLEAN] /\ sample' \in [Vzctls -> BOOLEAN]
    <3> DEFINE m == Running(ct[p]) /\ live[ct[p]] = LiveOf(par[ct[p]])
                    /\ par[ct[p]] = seen[p].par /\ dump[ct[p]] = None
    <3>1. m \in BOOLEAN
      BY DEF Running
    <3>2. matched' = [matched EXCEPT ![p] = m] /\ sample' = sample
      BY DEF Lock
    <3> HIDE DEF m
    <3> QED
      BY <3>1, <3>2, Zenon DEF CmdTypes
  <2>3. OpAt(p, pc[p])'
    <3>1. pc'[p] = First(p) /\ cmd'[p] = cmd[p] /\ cmd[p] \in Commands
      BY <1>1 DEF LockTypes, CmdTypes
    <3>2. OpAt(p, "lock")
      BY <1>1 DEF CmdTypes
    <3> QED
      BY <3>1, <3>2 DEF OpAt, First, Commands
  <2>4. ASSUME NEW q \in Vzctls, q # p PROVE OpAt(q, pc[q])'
    BY <1>1, <2>1, <2>4 DEF OpAt, CmdTypes, LockTypes
  <2> QED
    BY <1>1, <2>1, <2>2, <2>3, <2>4 DEF CmdTypes
<1> QED
  BY <1>3, <1>4

LEMMA WorksWatch ==
  ASSUME Sane, FileTypes, LockTypes, CmdTypes, NEW p \in Vzctls, Works(p)
  PROVE  \E before \in SUBSET Cts : Watch(before)
<1>1. torn \in SUBSET Cts /\ torn \ {ct[p]} \in SUBSET Cts
      /\ (torn \union {ct[p]} \in SUBSET Cts \/ ct[p] \notin Cts)
  BY DEF FileTypes
<1>2. ct[p] \in Cts
  BY WorksWalk DEF Walks, LockTypes
<1>3. Watch(torn) \/ Watch(torn \ {ct[p]}) \/ Watch(torn \union {ct[p]})
  BY DEF Works, Step, CheckName, Unlink, Symlink, Alias, RemoveAlias, StartForPassword,
     SetPassword, NoPassword, Apply, Refuse, StopForRestart, Restart, Save, CopySample,
     CheckArea, CreateFs, CreateScript, DestroyCt, BackUpConfig, RemoveName, NamesRemoved,
     RemoveArea, RemoveConfig, StartCt
<1> QED
  BY <1>1, <1>2, <1>3

LEMMA WorksSample ==
  ASSUME NEW p, Works(p)
  PROVE  sample' = sample \/ (CopySample(p) /\ sample' = [sample EXCEPT ![p] = TRUE])
BY DEF Works, Step, Advance, CheckName, Unlink, Symlink, Alias, RemoveAlias, StartForPassword,
   SetPassword, NoPassword, Apply, Refuse, StopForRestart, Restart, Save, CopySample,
   CheckArea, CreateFs, CreateScript, DestroyCt, BackUpConfig, RemoveName, NamesRemoved,
   RemoveArea, RemoveConfig, StartCt

\* What every step gives.
LEMMA TypesStep ==
  ASSUME Sane, Types, MeetInv, [Next]_vars
  PROVE  Types' /\ MeetInv'
<1> USE DEF Types
<1>1. CASE UNCHANGED vars
  BY <1>1 DEF vars, conf, ctVars, proc, FileTypes, LockTypes, CmdTypes, OpAt, MeetInv, Meet,
              AtName
<1>2. ASSUME NEW c \in Cts, Halt(c) \/ Chkpnt(c) PROVE Types' /\ MeetInv'
  <2>1. FileTypes'
    BY <1>2 DEF Halt, Chkpnt, conf, FileTypes
  <2>2. LockTypes' /\ CmdTypes' /\ MeetInv'
    BY <1>2 DEF Halt, Chkpnt, proc, LockTypes, CmdTypes, OpAt, MeetInv, Meet, AtName
  <2> QED
    BY <2>1, <2>2
<1>3. ASSUME NEW p \in Vzctls, Works(p) PROVE Types' /\ MeetInv'
  <2>1. LockTypes' /\ CmdTypes'
    BY <1>3, WorksWalk, WalksTypes
  <2>2. \E before \in SUBSET Cts : Watch(before)
    BY <1>3, WorksWatch
  <2>3. torn' \subseteq Cts /\ MeetInv'
    BY <2>1, <2>2, WatchTears
  <2> QED
    BY <1>3, <2>1, <2>3, WorksFiles
<1>4. ASSUME NEW p \in Vzctls, Interrupted(p) PROVE Types' /\ MeetInv'
  <2>1. FileTypes'
    BY <1>4, NoneIsIdle DEF Interrupted, RemoveFile, ctVars, FileTypes
  <2>2. LockTypes' /\ CmdTypes' /\ MeetInv'
    BY <1>4 DEF Interrupted, proc, LockTypes, CmdTypes, OpAt, MeetInv, Meet, AtName
  <2> QED
    BY <2>1, <2>2
<1>5. ASSUME NEW p \in Vzctls, Invoke(p) PROVE Types' /\ MeetInv'
  <2>1. torn' \subseteq Cts /\ MeetInv'
    BY <1>5, InvokeTypes, WatchTears DEF Invoke, FileTypes
  <2> QED
    BY <1>5, <2>1, InvokeTypes DEF Invoke, conf, ctVars, FileTypes
<1>6. ASSUME NEW p \in Vzctls, Lock(p) PROVE Types' /\ MeetInv'
  <2>1. torn' \subseteq Cts /\ MeetInv'
    BY <1>6, LockStepTypes, WatchTears DEF Lock, FileTypes
  <2> QED
    BY <1>6, <2>1, LockStepTypes DEF Lock, conf, ctVars, FileTypes
<1>7. ASSUME NEW p \in Vzctls, Unlock(p) \/ Killed(p) PROVE Types' /\ MeetInv'
  <2>1. Leaves(p) /\ pc[p] # "idle"
    BY <1>7 DEF Unlock, Killed
  <2>2. \E before \in SUBSET Cts : Watch(before)
    BY <2>1 DEF Leaves, FileTypes, LockTypes
  <2>3. LockTypes' /\ CmdTypes'
    BY <2>1, LeavesTypes
  <2>4. torn' \subseteq Cts /\ MeetInv'
    BY <2>2, <2>3, WatchTears
  <2> QED
    BY <2>1, <2>3, <2>4 DEF Leaves, conf, ctVars, FileTypes
<1> QED
  BY <1>1, <1>2, <1>3, <1>4, <1>5, <1>6, <1>7 DEF Next, Works

-----------------------------------------------------------------------------
(* Names.                                                                  *)

Links == LinkInv /\ MadeInv /\ OthersInv /\ CreateInv

\* Only p moves, and what its container is torn for stays so, or it has no name.
Alone(p) ==
  /\ \A q \in Vzctls : q # p => pc'[q] = pc[q]
  /\ UNCHANGED <<lock, cmd, ct, seen>>
  /\ Tears(p) => Tears(p)' \/ name'[ct[p]] = None \/ ct[p] \in torn'
  /\ \A c \in Cts : name'[c] \in {None, name[c]}
  /\ Spares(p)'

\* It comes to no link by itself, nor to the removal of one.
Quiet(p) ==
  /\ pc'[p] \in Linked /\ cmd[p].name # None => pc[p] \in Linked
  /\ \A n \in Names : Removes(p, n)' => Removes(p, n)

LEMMA TornKept ==
  ASSUME LockTypes, NEW p \in Vzctls, Alone(p), torn \subseteq torn', NEW c \in Cts,
         Torn(c), name'[c] # None
  PROVE  Torn(c)'
<1>1. CASE c \in torn
  BY <1>1 DEF Torn
<1>2. CASE lock[c] # None /\ Tears(lock[c])
  <2>1. lock[c] \in Vzctls /\ ct[lock[c]] = c /\ lock'[c] = lock[c]
    BY <1>2 DEF LockTypes, Alone
  <2>2. CASE lock[c] = p
    BY <1>2, <2>1, <2>2 DEF Torn, Alone
  <2>3. CASE lock[c] # p
    BY <1>2, <2>1, <2>3 DEF Torn, Alone, Tears
  <2> QED
    BY <2>2, <2>3
<1> QED
  BY <1>1, <1>2 DEF Torn

\* The name of a container that is not torn was its name before.
LEMMA NameKeptBy ==
  ASSUME LockTypes, NEW p \in Vzctls, Alone(p), torn \subseteq torn', NEW c \in Cts,
         ~Torn(c)', name'[c] # None
  PROVE  ~Torn(c) /\ name'[c] = name[c]
BY TornKept DEF Alone

LEMMA AloneCreate ==
  ASSUME Sane, Types, CreateInv, NEW p \in Vzctls, Alone(p), torn \subseteq torn'
  PROVE  CreateInv'
<1> SUFFICES ASSUME NEW q \in Vzctls PROVE Spares(q)'
  BY DEF CreateInv
<1>1. CASE q = p
  BY <1>1 DEF Alone
<1>2. CASE q # p
  <2>1. pc'[q] = pc[q] /\ cmd'[q] = cmd[q] /\ ct'[q] = ct[q] /\ Spares(q) /\ OpAt(q, pc[q])
    BY <1>2 DEF Alone, CreateInv, Types, CmdTypes
  <2>2. pc[q] # "idle" => ct[q] \in Cts /\ name'[ct[q]] \in {None, name[ct[q]]}
    BY DEF Alone, Types, LockTypes
  <2> QED
    BY <2>1, <2>2 DEF Spares, OpAt
<1> QED
  BY <1>1, <1>2

LEMMA QuietLinks ==
  ASSUME Sane, Types, Links, NEW p \in Vzctls, Alone(p), torn \subseteq torn', Quiet(p),
         link' = link
  PROVE  Links'
<1> USE DEF Types
<1>1. LinkInv'
  BY NameKeptBy DEF LinkInv, Links
<1>2. MadeInv'
  BY DEF MadeInv, Links, Alone, Quiet
<1>3. OthersInv'
  <2> SUFFICES ASSUME NEW q \in Vzctls, NEW n \in Names, NEW c \in Cts,
                      Removes(q, n)', c # ct'[q], ~Torn(c)', name'[c] = n
               PROVE  FALSE
    BY DEF OthersInv
  <2>1. Removes(q, n)
    BY DEF Quiet, Alone, Removes
  <2>2. ~Torn(c) /\ name[c] = n
    BY NameKeptBy DEF Sane
  <2>3. ct'[q] = ct[q]
    BY DEF Alone
  <2> QED
    BY <2>1, <2>2, <2>3 DEF Links, OthersInv
<1> QED
  BY <1>1, <1>2, <1>3, AloneCreate DEF Links

\* p changes where n leads to, and n is the name of no container that is not torn.
LEMMA RelinkLinks ==
  ASSUME Sane, Types, MeetInv, Links, NEW p \in Vzctls, Alone(p), torn \subseteq torn',
         pc[p] \notin {"idle", "lock"},
         NEW n \in Names, Tears(p)' \/ name[ct[p]] # n \/ ct[p] \in torn, NEW to, link' = [link EXCEPT ![n] = to],
         link \in [Names -> Cts \union {None}],
         name \in [Cts -> Names \union {None}],
         AtName(p, n),
         \A c \in Cts : c # ct[p] /\ ~Torn(c) => name[c] # n,
         \A m \in Names : Removes(p, m)' => Removes(p, m),
         pc'[p] \in Linked /\ cmd[p].name # None =>
           link'[cmd[p].name] = ct[p] \/ ct[p] \in torn
  PROVE  Links'
<1>1. LinkInv'
  <2> SUFFICES ASSUME NEW c \in Cts, ~Torn(c)', name'[c] # None
               PROVE  link'[name'[c]] = c
    BY DEF LinkInv
  <2>1. ~Torn(c) /\ name'[c] = name[c]
    BY NameKeptBy DEF Types
  <2>2. link[name[c]] = c
    BY <2>1 DEF Links, LinkInv
  <2>3. c # ct[p] \/ name[c] # n
    <3>1. ct[p] \in Cts => lock'[ct[p]] = p
      BY DEF Types, LockTypes, Alone
    <3>2. c = ct[p] => ~Tears(p)' /\ c \notin torn
      BY <3>1 DEF Torn, Sane
    <3> QED
      BY <3>2
  <2> QED
    BY <2>1, <2>2, <2>3
<1>2. MadeInv'
  <2> SUFFICES ASSUME NEW q \in Vzctls, pc'[q] \in Linked, cmd'[q].name # None,
                      ct'[q] \notin torn'
               PROVE  link'[cmd'[q].name] = ct'[q]
    BY DEF MadeInv
  <2>1. CASE q = p
    BY <2>1 DEF Alone
  <2>2. CASE q # p
    <3>1. pc[q] \in Linked /\ cmd'[q] = cmd[q] /\ ct'[q] = ct[q] /\ ct[q] \notin torn
      BY <2>2 DEF Alone
    <3>2. link[cmd[q].name] = ct[q]
      BY <3>1 DEF Links, MadeInv, Alone
    <3>3. cmd[q].name # n
      <4>1. cmd[q].name = n => AtName(q, n)
        BY <3>1 DEF AtName, Linked
      <4>2. AtName(q, n) => Meet(q, p)
        BY <2>2 DEF Meet
      <4> QED
        BY <3>1, <4>1, <4>2 DEF MeetInv
    <3> QED
      BY <3>1, <3>2, <3>3
  <2> QED
    BY <2>1, <2>2
<1>3. OthersInv'
  <2> SUFFICES ASSUME NEW q \in Vzctls, NEW m \in Names, NEW c \in Cts,
                      Removes(q, m)', c # ct'[q], ~Torn(c)', name'[c] = m
               PROVE  FALSE
    BY DEF OthersInv
  <2>1. Removes(q, m)
    BY DEF Alone, Removes
  <2>2. ~Torn(c) /\ name[c] = m
    BY NameKeptBy DEF Sane, Types
  <2> QED
    BY <2>1, <2>2 DEF Links, OthersInv, Alone
<1> QED
  BY <1>1, <1>2, <1>3, AloneCreate DEF Links

\* The steps that change no link and settle no name.
Settles(p) ==
  \/ StartForPassword(p) \/ SetPassword(p) \/ NoPassword(p) \/ Apply(p)
  \/ Refuse(p) \/ StopForRestart(p) \/ Restart(p) \/ (CopySample(p) /\ UNCHANGED exists)
  \/ (Save(p) /\ pc'[p] \in {"names", "failed"}) \/ CheckArea(p) \/ CreateFs(p)
  \/ CreateScript(p) \/ DestroyCt(p) \/ BackUpConfig(p) \/ NamesRemoved(p)
  \/ RemoveArea(p) \/ RemoveConfig(p) \/ StartCt(p)

LEMMA SettlesQuiet ==
  ASSUME Sane, Types, NEW p \in Vzctls, Settles(p)
  PROVE  Alone(p) /\ Quiet(p) /\ torn \subseteq torn' /\ link' = link
<1>1. Walks(p)
  BY WorksWalk DEF Settles, Works, Types
<1>2. ct[p] \in Cts /\ OpAt(p, pc[p])
  BY <1>1 DEF Walks, Types, LockTypes, CmdTypes
<1>3. /\ (\A q \in Vzctls : q # p => pc'[q] = pc[q]) /\ UNCHANGED <<lock, cmd, ct, seen>>
      /\ pc \in [Vzctls -> Steps]
  BY <1>1 DEF Walks, Types, LockTypes
<1>4. torn \subseteq torn' /\ link' = link
  BY DEF Settles, Step, Watch, StartForPassword, SetPassword, NoPassword, Apply, Refuse,
     StopForRestart, Restart, CopySample, Save, CheckArea, CreateFs, CreateScript,
     DestroyCt, BackUpConfig, NamesRemoved, RemoveArea, RemoveConfig, StartCt
<1>5. name' = name \/ name' = [name EXCEPT ![ct[p]] = None]
  <2>1. CASE Save(p) /\ pc'[p] \in {"names", "failed"}
    BY <1>3, <2>1 DEF Save, Step, Advance, Goto, conf
  <2>2. CASE BackUpConfig(p) \/ RemoveConfig(p)
    BY <2>2 DEF BackUpConfig, RemoveConfig, RemoveFile, conf
  <2> QED
    BY <2>1, <2>2 DEF Settles, conf, StartForPassword, SetPassword, NoPassword, Apply,
       Refuse, StopForRestart, Restart, CopySample, CheckArea, CreateFs, CreateScript,
       DestroyCt, NamesRemoved, RemoveArea, StartCt
<1>6. name \in [Cts -> Names \union {None}]
  BY DEF Types, FileTypes
<1> DEFINE Calm(from, to, op) ==
             /\ pc[p] = from /\ pc'[p] = to /\ cmd[p].op = op
             /\ to \in Linked => from \in Linked \/ cmd[p].name = None
             /\ to \notin {"unlink", "symlink", "alias", "unalias"}
             /\ op = "set" => from # "name" /\ to \notin {"lock", "name", "refused", "done"}
             /\ op = "create" /\ from = "names" => ct[p] \in torn'
             /\ op = "destroy" /\ to = "names" => name'[ct[p]] = None
<1>7. \E from \in Steps, to \in Steps, op \in {"set", "create", "destroy", "start"} :
        Calm(from, to, op)
  <2> USE <1>1, <1>2, <1>3, <1>6 DEF Step, Advance, Goto, OpAt, Linked
  <2> HIDE DEF Sane, Types
  <2>1. CASE StartForPassword(p)
    <3>1. Calm("setup", "pw", "set") \/ Calm("setup", "failed", "set")
      BY <2>1 DEF StartForPassword
    <3> QED
      BY <3>1 DEF Steps
  <2>2. CASE SetPassword(p)
    <3>1. Calm("pw", "mode", "set") \/ Calm("pw", "failed", "set")
      BY <2>2 DEF SetPassword
    <3> QED
      BY <3>1 DEF Steps
  <2>3. CASE NoPassword(p)
    <3>1. Calm("setup", "mode", "set")
      BY <2>3 DEF NoPassword
    <3> QED
      BY <3>1 DEF Steps
  <2>4. CASE Apply(p)
    <3>1. Calm("mode", "save", "set") \/ Calm("mode", "failed", "set")
      BY <2>4 DEF Apply
    <3> QED
      BY <3>1 DEF Steps
  <2>5. CASE Refuse(p)
    <3>1. Calm("mode", "failed", "set")
      BY <2>5 DEF Refuse
    <3> QED
      BY <3>1 DEF Steps
  <2>6. CASE StopForRestart(p)
    <3>1. Calm("mode", "start", "set") \/ Calm("mode", "failed", "set")
      BY <2>6 DEF StopForRestart
    <3> QED
      BY <3>1 DEF Steps
  <2>7. CASE Restart(p)
    <3>1. Calm("start", "save", "set") \/ Calm("start", "failed", "set")
      BY <2>7 DEF Restart
    <3> QED
      BY <3>1 DEF Steps
  <2>8. CASE CopySample(p) /\ UNCHANGED exists
    <3>1. Calm("copy", "check", "create") \/ Calm("copy", "refused", "create")
      BY <2>8 DEF CopySample
    <3> QED
      BY <3>1 DEF Steps
  <2>9. CASE Save(p) /\ pc'[p] \in {"names", "failed"}
    <3>1. Calm("save", "names", "create") \/ Calm("save", "failed", "set")
      BY <2>9 DEF Save
    <3> QED
      BY <3>1 DEF Steps
  <2>10. CASE CheckArea(p)
    <3>1. Calm("check", "err", "create") \/ Calm("check", "fs", "create") \/ Calm("check", "name", "create")
      BY <2>10 DEF CheckArea
    <3> QED
      BY <3>1 DEF Steps
  <2>11. CASE CreateFs(p)
    <3>1. Calm("fs", "save", "create") \/ Calm("fs", "undo", "create")
      BY <2>11 DEF CreateFs
    <3> QED
      BY <3>1 DEF Steps
  <2>12. CASE CreateScript(p)
    <3>1. Calm("script", "done", "create") \/ Calm("script", "names", "create")
      BY <2>12 DEF CreateScript
    <3> QED
      BY <3>1 DEF Steps
  <2>13. CASE DestroyCt(p)
    <3>1. Calm("destroy", "backup", "destroy") \/ Calm("destroy", "failed", "destroy")
      BY <2>13 DEF DestroyCt
    <3> QED
      BY <3>1 DEF Steps
  <2>14. CASE BackUpConfig(p)
    <3>1. Calm("backup", "names", "destroy")
      BY <2>14 DEF BackUpConfig, RemoveFile
    <3> QED
      BY <3>1 DEF Steps
  <2>15. CASE NamesRemoved(p)
    <3>1. Calm("names", "done", "destroy") \/ Calm("names", "undo", "create")
      BY <2>15 DEF NamesRemoved, Watch
    <3> QED
      BY <3>1 DEF Steps
  <2>16. CASE RemoveArea(p)
    <3>1. Calm("undo", "err", "create")
      BY <2>16 DEF RemoveArea
    <3> QED
      BY <3>1 DEF Steps
  <2>17. CASE RemoveConfig(p)
    <3>1. Calm("err", "failed", "create")
      BY <2>17 DEF RemoveConfig
    <3> QED
      BY <3>1 DEF Steps
  <2>18. CASE StartCt(p)
    <3>1. Calm("boot", "done", "start") \/ Calm("boot", "failed", "start")
      BY <2>18 DEF StartCt
    <3> QED
      BY <3>1 DEF Steps
  <2> QED
    BY <2>1, <2>2, <2>3, <2>4, <2>5, <2>6, <2>7, <2>8, <2>9, <2>10, <2>11, <2>12, <2>13, <2>14, <2>15, <2>16, <2>17, <2>18 DEF
       Settles
<1>8. PICK from \in Steps, to \in Steps, op \in {"set", "create", "destroy", "start"} :
        Calm(from, to, op)
  BY <1>7
<1>9. Quiet(p)
  BY <1>3, <1>8 DEF Quiet, Removes, Linked, Sane
<1>10. /\ Tears(p) => Tears(p)' \/ name'[ct[p]] = None \/ ct[p] \in torn'
       /\ Spares(p)'
  BY <1>2, <1>3, <1>8 DEF Tears, Spares, Linked
<1> QED
  BY <1>2, <1>3, <1>4, <1>5, <1>6, <1>9, <1>10 DEF Alone

\* A signal takes a file away, and with it the name.
LEMMA InterruptedLinks ==
  ASSUME Sane, Types, Links, NEW p \in Vzctls, Interrupted(p)
  PROVE  Links'
<1>1. /\ UNCHANGED <<link, lock, pc, cmd, ct, seen, torn>>
      /\ name' = [name EXCEPT ![ct[p]] = None]
  BY DEF Interrupted, RemoveFile, proc
<1>2. name \in [Cts -> Names \union {None}] /\ Spares(p) /\ OpAt(p, pc[p])
  BY DEF Types, FileTypes, CmdTypes, Links, CreateInv
<1>3. \A c \in Cts : name'[c] \in {None, name[c]}
  BY <1>1, <1>2
<1>4. Spares(p)'
  <2>1. pc[p] # "idle" => name'[ct[p]] = None
    BY <1>1, <1>2 DEF Types, LockTypes
  <2> QED
    BY <1>1, <1>2, <2>1 DEF Spares, OpAt
<1>5. Alone(p) /\ Quiet(p)
  BY <1>1, <1>3, <1>4 DEF Alone, Quiet, Tears, Removes
<1> QED
  BY <1>1, <1>5, QuietLinks

\* A create that makes the file of a container, which has had no name
LEMMA CopyLinks ==
  ASSUME Sane, Types, Links, NEW p \in Vzctls, CopySample(p), exists' # exists
  PROVE  Links'
<1>1. Walks(p) /\ ct[p] \in Cts /\ lock[ct[p]] = p /\ pc[p] = "copy"
  <2>1. Walks(p) /\ pc[p] = "copy"
    BY WorksWalk DEF Works, Types, CopySample
  <2> QED
    BY <2>1 DEF Types, LockTypes, Walks
<1>2. /\ \A q \in Vzctls : q # p => pc'[q] = pc[q]
      /\ UNCHANGED <<lock, cmd, ct, seen, name, link>>
  BY <1>1 DEF Walks, Types, LockTypes, CopySample
<1>3. name[ct[p]] = None /\ torn \ {ct[p]} \subseteq torn' /\ pc'[p] \in {"check", "refused"}
  BY <1>1 DEF CopySample, Step, Advance, Goto, Watch, Types, FileTypes, LockTypes
<1>4. ASSUME NEW c \in Cts, ~Torn(c)', name[c] # None PROVE ~Torn(c)
  <2>1. c # ct[p] /\ c \notin torn
    BY <1>3, <1>4 DEF Torn
  <2>2. lock[c] # None => lock[c] \in Vzctls /\ lock[c] # p
    BY <2>1 DEF Types, LockTypes
  <2> QED
    BY <1>2, <1>4, <2>1, <2>2 DEF Torn, Tears
<1>5. ASSUME NEW q \in Vzctls, pc[q] \notin {"idle", "lock"}, q # p
      PROVE  ct[q] \in Cts /\ ct[q] # ct[p] /\ (ct[q] \in torn => ct[q] \in torn')
  BY <1>1, <1>3, <1>5 DEF Types, LockTypes
<1>6. LinkInv'
  BY <1>2, <1>4 DEF LinkInv, Links
<1>7. MadeInv'
  <2> SUFFICES ASSUME NEW q \in Vzctls, pc'[q] \in Linked, cmd'[q].name # None,
                      ct'[q] \notin torn'
               PROVE  link'[cmd'[q].name] = ct'[q]
    BY DEF MadeInv
  <2>1. q # p /\ pc[q] \in Linked /\ pc[q] \notin {"idle", "lock"}
    BY <1>2, <1>3 DEF Linked
  <2> QED
    BY <1>2, <1>5, <2>1 DEF Links, MadeInv
<1>8. OthersInv'
  <2> SUFFICES ASSUME NEW q \in Vzctls, NEW n \in Names, NEW c \in Cts,
                      Removes(q, n)', c # ct'[q], ~Torn(c)', name'[c] = n
               PROVE  FALSE
    BY DEF OthersInv
  <2>1. q # p /\ Removes(q, n)
    BY <1>2, <1>3 DEF Removes, Linked
  <2>2. ~Torn(c) /\ name[c] = n /\ c # ct[q]
    BY <1>2, <1>4 DEF Sane
  <2> QED
    BY <2>1, <2>2 DEF Links, OthersInv
<1>9. CreateInv'
  <2> SUFFICES ASSUME NEW q \in Vzctls PROVE Spares(q)'
    BY DEF CreateInv
  <2>1. CASE q = p
    BY <1>3, <2>1 DEF Spares
  <2>2. CASE q # p
    <3>1. Spares(q)
      BY DEF Links, CreateInv
    <3> QED
      BY <1>2, <1>5, <2>2, <3>1 DEF Spares
  <2> QED
    BY <2>1, <2>2
<1> QED
  BY <1>6, <1>7, <1>8, <1>9 DEF Links

\* The steps that change a link.
LEMMA RelinksLinks ==
  ASSUME Sane, Types, MeetInv, Links, NEW p \in Vzctls,
         Unlink(p) \/ Symlink(p) \/ RemoveAlias(p) \/ RemoveName(p)
  PROVE  Links'
<1>1. Walks(p) /\ Works(p)
  BY WorksWalk DEF Works, Types
<1>2. /\ ct[p] \in Cts /\ OpAt(p, pc[p]) /\ pc[p] \notin {"idle", "lock"}
      /\ LockTypes /\ cmd[p] \in Commands
      /\ seen[p] \in Confs
  BY <1>1 DEF Walks, Types, LockTypes, CmdTypes
<1>3. (\A q \in Vzctls : q # p => pc'[q] = pc[q]) /\ UNCHANGED <<lock, cmd, ct, seen>>
  BY <1>1 DEF Walks, Types, LockTypes
<1>4. torn \subseteq torn' /\ name' = name
  BY DEF Step, Watch, conf, Unlink, Symlink, RemoveAlias, RemoveName
<1>5. name \in [Cts -> Names \union {None}] /\ link \in [Names -> Cts \union {None}]
  BY DEF Types, FileTypes
<1>6. CreateInv /\ OthersInv /\ LinkInv
  BY DEF Links
<1> USE <1>2, <1>3, <1>4
<1>7. CASE Unlink(p)
  <2> DEFINE n == cmd[p].name
  <2>1. pc[p] = "unlink" /\ pc'[p] = "symlink" /\ link' = [link EXCEPT ![n] = None]
    BY <1>1, <1>7 DEF Unlink, Step, Advance, Goto, Types, LockTypes
  <2>2. n \in Names /\ n # None /\ cmd[p].op \in {"set", "create"}
    BY <2>1 DEF Commands, OpAt
  <2>3. AtName(p, n) /\ Removes(p, n)
    BY <2>1 DEF AtName, Removes
  <2>4. cmd[p].op = "create" => name[ct[p]] # n \/ ct[p] \in torn
    BY <1>6, <2>1 DEF CreateInv, Spares
  <2>5. /\ Tears(p)' \/ name[ct[p]] # n \/ ct[p] \in torn
        /\ \A m \in Names : Removes(p, m)' => Removes(p, m)
    BY <2>1, <2>2, <2>4 DEF Tears, Removes, Linked
  <2>6. Alone(p)
    BY <1>5, <2>1, <2>2, <2>4 DEF Alone, Tears, Spares
  <2>7. \A c \in Cts : c # ct[p] /\ ~Torn(c) => name[c] # n
    BY <1>6, <2>2, <2>3 DEF OthersInv
  <2>8. pc'[p] \notin Linked
    BY <2>1 DEF Linked
  <2> HIDE DEF n
  <2> QED
    BY <1>5, <2>1, <2>2, <2>3, <2>5, <2>6, <2>7, <2>8, RelinkLinks
<1>8. CASE Symlink(p)
  <2> DEFINE n == cmd[p].name
  <2>1. pc[p] = "symlink"
    BY <1>8 DEF Symlink
  <2>2. n \in Names /\ cmd[p].op \in {"set", "create"} /\ n # None
    BY <2>1 DEF Commands, OpAt
  <2>3. AtName(p, n) /\ Removes(p, n)
    BY <2>1 DEF AtName, Removes
  <2>4. cmd[p].op = "create" => name[ct[p]] # n \/ ct[p] \in torn
    BY <1>6, <2>1 DEF CreateInv, Spares
  <2>5. CASE pc'[p] \in {"err", "failed"} /\ link' = link
    <3>1. Quiet(p)
      BY <2>5, <2>1 DEF Quiet, Linked, Removes
    <3>2. Alone(p)
      BY <1>5, <2>1, <2>5 DEF Alone, Tears, Spares
    <3> QED
      BY <2>5, <3>1, <3>2, QuietLinks DEF Links
  <2>6. CASE /\ pc'[p] \in {"alias", "fs", "setup"} /\ link' = [link EXCEPT ![n] = ct[p]]
             /\ pc'[p] # "fs" => cmd[p].op = "set"
    <3>1. /\ Tears(p)' \/ name[ct[p]] # n \/ ct[p] \in torn
          /\ \A m \in Names : Removes(p, m)' => Removes(p, m)
      BY <2>1, <2>2, <2>4, <2>6 DEF Tears, Removes, Linked
    <3>2. Alone(p)
      BY <1>5, <2>1, <2>2, <2>6 DEF Alone, Tears, Spares
    <3>3. \A c \in Cts : c # ct[p] /\ ~Torn(c) => name[c] # n
      BY <1>6, <2>2, <2>3 DEF OthersInv
    <3>4. link'[cmd[p].name] = ct[p]
      BY <1>5, <2>2, <2>6
    <3> HIDE DEF n
    <3> QED
      BY <1>5, <2>1, <2>2, <2>3, <2>6, <3>1, <3>2, <3>3, <3>4, RelinkLinks
  <2> QED
    BY <1>1, <1>8, <2>2, <2>5, <2>6
       DEF Symlink, Step, Advance, Goto, OldName, After, Unnamed, Types, LockTypes
<1>9. CASE RemoveAlias(p)
  <2> DEFINE n == seen[p].name
  <2>1. pc[p] = "unalias" /\ pc'[p] = "setup" /\ link' = [link EXCEPT ![n] = None]
        /\ cmd[p].op = "set"
    BY <1>1, <1>9 DEF RemoveAlias, Step, Advance, Goto, Types, LockTypes, After, OpAt
  <2>2. n \in Names /\ cmd[p].name \in Names /\ cmd[p].name # n /\ cmd[p].name # None
    BY <2>1 DEF Confs, Commands, OpAt
  <2>3. AtName(p, n) /\ Removes(p, n)
    BY <2>1 DEF AtName, Removes
  <2>5. /\ Tears(p)'
        /\ \A m \in Names : Removes(p, m)' => Removes(p, m)
    BY <2>1, <2>2 DEF Tears, Removes, Linked
  <2>6. Alone(p)
    BY <1>5, <2>1, <2>5 DEF Alone, Spares
  <2>7. \A c \in Cts : c # ct[p] /\ ~Torn(c) => name[c] # n
    BY <1>6, <2>2, <2>3 DEF OthersInv
  <2>8. link'[cmd[p].name] = ct[p] \/ ct[p] \in torn
    BY <1>6, <2>1, <2>2, <1>5 DEF Links, MadeInv, Linked
  <2> HIDE DEF n
  <2> QED
    BY <1>5, <2>1, <2>2, <2>3, <2>5, <2>6, <2>7, <2>8, RelinkLinks
<1>10. CASE RemoveName(p)
  <2>1. PICK n \in Names : link[n] = ct[p] /\ link' = [link EXCEPT ![n] = None]
    BY <1>10 DEF RemoveName
  <2>2. pc[p] = "names" /\ pc'[p] = "names" /\ cmd[p].op \in {"create", "destroy"}
    BY <1>1, <1>10 DEF RemoveName, Step, Advance, Goto, Types, LockTypes, OpAt
  <2>3. AtName(p, n)
    BY <2>2 DEF AtName
  <2>4. cmd[p].op = "destroy" => name[ct[p]] = None
    BY <1>6, <2>2 DEF CreateInv, Spares
  <2>5. /\ Tears(p)' \/ name[ct[p]] # n \/ ct[p] \in torn
        /\ \A m \in Names : Removes(p, m)' => Removes(p, m)
    BY <2>2, <2>4 DEF Tears, Removes, Linked, Sane
  <2>6. Alone(p)
    BY <1>5, <2>2, <2>4 DEF Alone, Tears, Spares
  <2>7. \A c \in Cts : c # ct[p] /\ ~Torn(c) => name[c] # n
    BY <1>5, <1>6, <2>1, Sane DEF LinkInv, Sane
  <2>8. pc'[p] \notin Linked
    BY <2>2 DEF Linked
  <2> QED
    BY <1>5, <2>1, <2>2, <2>3, <2>5, <2>6, <2>7, <2>8, RelinkLinks
<1> QED
  BY <1>7, <1>8, <1>9, <1>10

\* The old link, if it leads here, is that of no other container that is not torn.
LEMMA AliasLinks ==
  ASSUME Sane, Types, MeetInv, Links, NEW p \in Vzctls, Alias(p)
  PROVE  Links'
<1>1. Walks(p) /\ ct[p] \in Cts /\ OpAt(p, pc[p]) /\ cmd[p] \in Commands /\ LockTypes
  BY WorksWalk DEF Works, Types, Walks, LockTypes, CmdTypes
<1>2. /\ \A q \in Vzctls : q # p => pc'[q] = pc[q]
      /\ UNCHANGED <<lock, cmd, ct, seen, name, link>> /\ torn \subseteq torn'
  BY <1>1 DEF Walks, Types, LockTypes, Alias, conf, Step, Advance, Watch
<1>3. /\ pc[p] = "alias" /\ cmd[p].op = "set" /\ cmd[p].name # None
      /\ pc'[p] = "setup" \/ (pc'[p] = "unalias" /\ VeidOf(seen[p].name) = ct[p])
  BY <1>1 DEF Alias, Step, Advance, Goto, Types, LockTypes, OpAt, After
<1>4. Alone(p)
  BY <1>2, <1>3 DEF Alone, Tears, Spares
<1>5. CASE Quiet(p)
  BY <1>1, <1>2, <1>4, <1>5, QuietLinks
<1>6. CASE pc'[p] = "setup"
  <2>1. Quiet(p)
    BY <1>2, <1>3, <1>6 DEF Quiet, Linked, Removes
  <2> QED
    BY <1>5, <2>1
<1>7. CASE pc'[p] = "unalias" /\ VeidOf(seen[p].name) = ct[p]
  <2> DEFINE s == seen[p].name
  <2>1. link[s] = ct[p]
    BY <1>1, <1>7 DEF VeidOf, Sane
  <2>2. LinkInv' /\ MadeInv' /\ CreateInv'
    <3>1. LinkInv'
      BY <1>1, <1>2, <1>4, NameKeptBy DEF LinkInv, Links
    <3>2. MadeInv'
      BY <1>2, <1>3 DEF MadeInv, Links, Linked
    <3> QED
      BY <1>2, <1>4, <3>1, <3>2, AloneCreate DEF Links
  <2>3. OthersInv'
    <3> SUFFICES ASSUME NEW q \in Vzctls, NEW n \in Names, NEW c \in Cts,
                        Removes(q, n)', c # ct'[q], ~Torn(c)', name'[c] = n
                 PROVE  FALSE
      BY DEF OthersInv
    <3>1. ~Torn(c) /\ name[c] = n /\ c # ct[q] /\ n # None
      BY <1>1, <1>2, <1>4, NameKeptBy DEF Sane
    <3>2. CASE Removes(q, n)
      BY <3>1, <3>2 DEF Links, OthersInv
    <3>3. CASE q = p /\ n = s
      BY <2>1, <3>1, <3>3 DEF Links, LinkInv
    <3>4. Removes(q, n) \/ (q = p /\ n = s)
      BY <1>2, <1>3, <1>7 DEF Removes, Linked
    <3> QED
      BY <3>2, <3>3, <3>4
  <2> QED
    BY <2>2, <2>3 DEF Links
<1> QED
  BY <1>3, <1>6, <1>7

\* A vzctl that has no link, and removes none, changes nothing for the others.
Apart(p) ==
  \A q \in Vzctls : q # p =>
    pc'[q] = pc[q] /\ cmd'[q] = cmd[q] /\ ct'[q] = ct[q] /\ seen'[q] = seen[q]
Inert(p) ==
  /\ pc'[p] \notin Linked \/ cmd'[p].name = None
  /\ \A n \in Names : ~Removes(p, n)'
  /\ pc'[p] \notin {"unlink", "symlink", "names"}

LEMMA InertLinks ==
  ASSUME Links, NEW p \in Vzctls, Apart(p), Inert(p), torn \subseteq torn',
         \A c \in Cts : Torn(c) => Torn(c)', UNCHANGED <<name, link>>
  PROVE  Links'
<1>1. LinkInv'
  BY DEF LinkInv, Links
<1>2. MadeInv'
  BY DEF MadeInv, Links, Apart, Inert
<1>3. OthersInv'
  <2> SUFFICES ASSUME NEW q \in Vzctls, NEW n \in Names, NEW c \in Cts,
                      Removes(q, n)', c # ct'[q], ~Torn(c)', name'[c] = n
               PROVE  FALSE
    BY DEF OthersInv
  <2>1. q # p
    BY DEF Inert
  <2>2. Removes(q, n) /\ ct'[q] = ct[q]
    BY <2>1 DEF Removes, Apart
  <2> QED
    BY <2>2 DEF Links, OthersInv
<1>4. CreateInv'
  <2> SUFFICES ASSUME NEW q \in Vzctls PROVE Spares(q)'
    BY DEF CreateInv
  <2>1. CASE q = p
    BY <2>1 DEF Inert, Spares
  <2>2. CASE q # p
    BY <2>2 DEF Links, CreateInv, Apart, Spares
  <2> QED
    BY <2>1, <2>2
<1> QED
  BY <1>1, <1>2, <1>3, <1>4 DEF Links

LEMMA InvokeLinks ==
  ASSUME Sane, Types, Links, NEW p \in Vzctls, Invoke(p)
  PROVE  Links'
<1>1. /\ pc[p] = "idle" /\ pc'[p] = "lock" /\ torn \subseteq torn'
      /\ UNCHANGED <<name, link, lock>>
  BY DEF Invoke, Goto, Types, LockTypes, Watch, conf
<1>2. Apart(p)
  BY DEF Invoke, Goto, Types, LockTypes, CmdTypes, Apart
<1>3. Inert(p)
  BY <1>1 DEF Inert, Linked, Removes
<1>4. ASSUME NEW c \in Cts, Torn(c) PROVE Torn(c)'
  BY <1>1, <1>2, <1>4 DEF Torn, Tears, Apart, Types, LockTypes
<1> QED
  BY <1>1, <1>2, <1>3, <1>4, InertLinks

LEMMA LockLinks ==
  ASSUME Sane, Types, Links, NEW p \in Vzctls, Lock(p)
  PROVE  Links'
<1>1. /\ pc[p] = "lock" /\ ct[p] \in Cts /\ lock[ct[p]] = None
      /\ lock' = [lock EXCEPT ![ct[p]] = p] /\ UNCHANGED <<cmd, ct, name, link>>
      /\ pc' = [pc EXCEPT ![p] = First(p)] /\ torn \subseteq torn'
      /\ seen' = [seen EXCEPT ![p].run = Running(ct[p])]
  BY DEF Lock, Free, Goto, First, Types, LockTypes, conf, Watch
<1>2. Apart(p) /\ pc'[p] = First(p)
  BY <1>1 DEF Apart, Types, LockTypes, CmdTypes
<1>3. Inert(p)
  <2>1. cmd[p] \in Commands /\ OpAt(p, "lock")
    BY <1>1 DEF Types, CmdTypes
  <2>2. \/ pc'[p] \in {"copy", "destroy", "boot"}
        \/ pc'[p] = "name" /\ cmd[p].op = "set"
        \/ pc'[p] = "setup" /\ cmd[p].op = "set" /\ cmd[p].name = None
    BY <1>2, <2>1 DEF First, Commands, OpAt
  <2> QED
    BY <1>1, <2>2 DEF Inert, Linked, Removes, Sane
<1>4. ASSUME NEW c \in Cts, Torn(c) PROVE Torn(c)'
  <2>1. CASE c \in torn
    BY <1>1, <2>1 DEF Torn
  <2>2. CASE lock[c] # None /\ Tears(lock[c])
    <3>1. c # ct[p] /\ lock'[c] = lock[c] /\ lock[c] \in Vzctls /\ lock[c] # p
      BY <1>1, <2>2 DEF Types, LockTypes
    <3> QED
      BY <1>1, <1>2, <2>2, <3>1 DEF Torn, Tears, Apart
  <2> QED
    BY <1>4, <2>1, <2>2 DEF Torn
<1> QED
  BY <1>1, <1>2, <1>3, <1>4, InertLinks

LEMMA LeavesLinks ==
  ASSUME Sane, Types, Links, NEW p \in Vzctls, pc[p] # "idle", Leaves(p)
  PROVE  Links'
<1>1. /\ pc'[p] = "idle" /\ cmd'[p] = NoCmd /\ seen'[p] = NoConf /\ UNCHANGED <<name, link>>
      /\ \A c \in Cts : lock'[c] = IF lock[c] = p THEN None ELSE lock[c]
  BY DEF Leaves, Types, LockTypes, CmdTypes, conf
<1>2. Apart(p)
  BY DEF Leaves, Types, LockTypes, CmdTypes, Apart
<1>3. Inert(p)
  BY <1>1, NoneIsIdle DEF Inert, Linked, Removes, Sane
<1>4. torn \subseteq torn'
  BY DEF Leaves, Watch
<1>5. Tears(p) => ct[p] \in torn'
  BY DEF Leaves, Watch, Tears
<1>6. ASSUME NEW c \in Cts, Torn(c) PROVE Torn(c)'
  <2>1. CASE c \in torn
    BY <1>4, <2>1 DEF Torn
  <2>2. CASE lock[c] # None /\ Tears(lock[c])
    <3>1. lock[c] \in Vzctls /\ ct[lock[c]] = c
      BY <2>2 DEF Types, LockTypes
    <3>2. CASE lock[c] = p
      BY <1>5, <2>2, <3>1, <3>2 DEF Torn
    <3>3. CASE lock[c] # p
      BY <1>1, <1>2, <2>2, <3>1, <3>3 DEF Torn, Tears, Apart
    <3> QED
      BY <3>2, <3>3
  <2> QED
    BY <1>6, <2>1, <2>2 DEF Torn
<1> QED
  BY <1>1, <1>2, <1>3, <1>4, <1>6, InertLinks

\* The check of a name: it leads to no other container.
LEMMA CheckNameLinks ==
  ASSUME Sane, Types, Links, NEW p \in Vzctls, CheckName(p)
  PROVE  Links'
<1> DEFINE n == cmd[p].name
<1>1. /\ Walks(p) /\ ct[p] \in Cts /\ pc[p] = "name" /\ OpAt(p, "name")
      /\ cmd[p] \in Commands /\ lock[ct[p]] = p
  <2>1. Walks(p) /\ pc[p] = "name"
    BY WorksWalk DEF Works, Types, CheckName
  <2> QED
    BY <2>1 DEF Types, LockTypes, CmdTypes
<1>2. /\ \A q \in Vzctls : q # p => pc'[q] = pc[q]
      /\ UNCHANGED <<lock, cmd, ct, seen, name, link>>
  BY <1>1 DEF Walks, Types, LockTypes, CheckName, conf
<1>3. n \in Names /\ n # None /\ cmd[p].op \in {"set", "create"}
  BY <1>1 DEF OpAt, Commands
<1>5. CASE VeidOf(n) \notin {None, ct[p]}
  <2>1. pc'[p] \in {"err", "refused"} /\ torn \subseteq torn'
    BY <1>1, <1>5 DEF CheckName, Step, Advance, Goto, Types, LockTypes, Watch
  <2>2. Alone(p)
    BY <1>1, <1>2, <2>1 DEF Alone, Tears, Spares
  <2>3. Quiet(p)
    BY <1>2, <2>1 DEF Quiet, Linked, Removes
  <2> QED
    BY <1>2, <2>1, <2>2, <2>3, QuietLinks
<1>6. CASE VeidOf(n) \in {None, ct[p]}
  <2>1. torn \ {ct[p]} \subseteq torn' /\ (cmd[p].op = "create" => torn \subseteq torn')
    BY <1>6 DEF CheckName, Watch
  <2>2. \/ pc'[p] = "unlink" /\ ~(OldName(p) = n /\ VeidOf(n) = ct[p])
        \/ /\ VeidOf(n) = ct[p]
           /\ \/ pc'[p] = "fs" /\ cmd[p].op = "create"
              \/ pc'[p] = "setup" /\ cmd[p].op = "set"
    BY <1>1, <1>3, <1>6 DEF CheckName, Advance, Goto, Types, LockTypes, After
  <2>3. Tears(p)' \/ cmd[p].op = "create"
    BY <1>2, <1>3, <2>2 DEF Tears
  <2>4. ASSUME NEW c \in Cts, ~Torn(c)' PROVE ~Torn(c)
    <3>1. c # ct[p] \/ cmd[p].op = "create"
      BY <1>1, <1>2, <2>3, <2>4 DEF Torn, Sane
    <3>2. c \notin torn
      BY <2>1, <2>4, <3>1 DEF Torn
    <3>3. lock[c] # None => lock[c] \in Vzctls
      BY DEF Types, LockTypes
    <3>4. lock[c] # None /\ lock[c] # p => ~Tears(lock[c])
      BY <1>2, <2>4, <3>3 DEF Torn, Tears
    <3>5. ~Tears(p)
      BY <1>1 DEF Tears
    <3> QED
      BY <3>2, <3>4, <3>5 DEF Torn
  <2>5. LinkInv'
    BY <1>2, <2>4 DEF LinkInv, Links
  <2>6. MadeInv'
    <3> SUFFICES ASSUME NEW q \in Vzctls, pc'[q] \in Linked, cmd'[q].name # None,
                        ct'[q] \notin torn'
                 PROVE  link'[cmd'[q].name] = ct'[q]
      BY DEF MadeInv
    <3>1. CASE q = p
      <4>1. VeidOf(n) = ct[p]
        BY <2>2, <3>1 DEF Linked
      <4>2. link[n] = ct[p]
        BY <1>1, <4>1 DEF VeidOf, Sane
      <4> QED
        BY <1>2, <3>1, <4>2
    <3>2. CASE q # p
      <4>1. pc[q] \in Linked /\ lock[ct[q]] = q
        BY <1>2, <3>2 DEF Linked, Types, LockTypes
      <4>2. ct[q] \notin torn
        BY <1>1, <1>2, <2>1, <3>2, <4>1
      <4> QED
        BY <1>2, <4>1, <4>2 DEF Links, MadeInv
    <3> QED
      BY <3>1, <3>2
  <2>7. OthersInv'
    <3> SUFFICES ASSUME NEW q \in Vzctls, NEW m \in Names, NEW c \in Cts,
                        Removes(q, m)', c # ct'[q], ~Torn(c)', name'[c] = m
                 PROVE  FALSE
      BY DEF OthersInv
    <3>1. c # ct[q] /\ ~Torn(c) /\ name[c] = m /\ m # None
      BY <1>2, <2>4 DEF Sane
    <3>2. CASE q = p
      <4>1. m = n
        BY <1>2, <2>2, <3>2 DEF Removes
      <4>2. link[n] = c /\ c \in exists
        BY <3>1, <4>1 DEF Links, LinkInv, Types, FileTypes
      <4> QED
        BY <1>3, <1>6, <3>1, <3>2, <4>2 DEF VeidOf, Sane
    <3>3. CASE q # p
      <4>1. Removes(q, m) /\ ct'[q] = ct[q]
        BY <1>2, <3>3 DEF Removes
      <4> QED
        BY <3>1, <4>1 DEF Links, OthersInv
    <3> QED
      BY <3>2, <3>3
  <2>8. CreateInv'
    <3> SUFFICES ASSUME NEW q \in Vzctls PROVE Spares(q)'
      BY DEF CreateInv
    <3>1. CASE q = p
      <4>1. ASSUME cmd[p].op = "create", pc'[p] = "unlink", ct[p] \notin torn', name[ct[p]] = n
            PROVE  FALSE
        <5>1. ~Torn(ct[p])
          BY <1>1, <2>1, <4>1 DEF Torn, Tears
        <5>2. link[n] = ct[p] /\ ct[p] \in exists
          BY <1>1, <1>3, <4>1, <5>1 DEF Links, LinkInv, Types, FileTypes
        <5>3. VeidOf(n) = ct[p] /\ OldName(p) = n
          BY <1>3, <4>1, <5>2 DEF VeidOf, OldName
        <5> QED
          BY <2>2, <4>1, <5>3
      <4> QED
        BY <1>2, <2>2, <3>1, <4>1 DEF Spares
    <3>2. CASE q # p
      <4>1. Spares(q) /\ (pc[q] \notin {"idle", "lock"} => ct[q] \in Cts /\ ct[q] # ct[p])
        BY <1>1, <3>2 DEF Links, CreateInv, Types, LockTypes
      <4> QED
        BY <1>2, <2>1, <3>2, <4>1 DEF Spares
    <3> QED
      BY <3>1, <3>2
  <2> QED
    BY <2>5, <2>6, <2>7, <2>8 DEF Links
<1> QED
  BY <1>5, <1>6

\* The name is written, and by then its link is made.
LEMMA SaveLinks ==
  ASSUME Sane, Types, Links, MeetInv', NEW p \in Vzctls, Save(p),
         pc'[p] \notin {"names", "failed"}
  PROVE  Links'
<1> DEFINE k == cmd[p].name
<1>1. /\ Walks(p) /\ ct[p] \in Cts /\ pc[p] = "save" /\ OpAt(p, "save")
      /\ cmd[p] \in Commands /\ lock[ct[p]] = p
  <2>1. Walks(p) /\ pc[p] = "save"
    BY WorksWalk DEF Works, Types, Save, Step, Advance, Goto
  <2> QED
    BY <2>1 DEF Types, LockTypes, CmdTypes
<1>2. /\ \A q \in Vzctls : q # p => pc'[q] = pc[q]
      /\ UNCHANGED <<lock, cmd, ct, seen, link>> /\ torn \subseteq torn'
      /\ pc'[p] \in {"script", "done"} /\ (pc'[p] = "script" => cmd[p].op = "create")
  BY <1>1 DEF Walks, Types, LockTypes, Save, Step, Advance, Goto, Watch
<1>3. \A c \in Cts : name'[c] = IF c = ct[p] /\ k # None THEN k ELSE name[c]
  <2>1. name' = [name EXCEPT ![ct[p]] = IF k = None THEN @ ELSE k]
    BY <1>1, <1>2 DEF Save, Step, Advance, Goto, Types, LockTypes
  <2> QED
    BY <1>1, <2>1 DEF Types, FileTypes
<1>4. cmd[p].op \in {"set", "create"} /\ (k = None => ~Tears(p))
  BY <1>1 DEF OpAt, Tears
<1>5. ASSUME NEW c \in Cts, ~Torn(c)', c # ct[p] \/ k = None PROVE ~Torn(c)
  <2>1. c \notin torn
    BY <1>2, <1>5 DEF Torn
  <2>2. lock[c] # None => lock[c] \in Vzctls /\ ct[lock[c]] = c
    BY DEF Types, LockTypes
  <2>3. lock[c] # None => ~Tears(lock[c])
    <3>1. CASE lock[c] = p
      BY <1>4, <1>5, <2>2, <3>1 DEF Sane
    <3>2. CASE lock[c] # p
      BY <1>2, <1>5, <2>2, <3>2 DEF Torn, Tears
    <3> QED
      BY <3>1, <3>2
  <2> QED
    BY <2>1, <2>3 DEF Torn
<1>6. LinkInv'
  <2> SUFFICES ASSUME NEW c \in Cts, ~Torn(c)', name'[c] # None
               PROVE  link'[name'[c]] = c
    BY DEF LinkInv
  <2>1. CASE c = ct[p] /\ k # None
    <3>1. ct[p] \notin torn
      BY <1>2, <2>1 DEF Torn
    <3>2. link[k] = ct[p]
      BY <1>1, <2>1, <3>1 DEF Links, MadeInv, Linked
    <3> QED
      BY <1>2, <1>3, <2>1, <3>2
  <2>2. CASE c # ct[p] \/ k = None
    BY <1>2, <1>3, <1>5, <2>2 DEF Links, LinkInv
  <2> QED
    BY <2>1, <2>2
<1>7. MadeInv'
  BY <1>1, <1>2 DEF MadeInv, Links, Linked
<1>8. OthersInv'
  <2> SUFFICES ASSUME NEW q \in Vzctls, NEW m \in Names, NEW c \in Cts,
                      Removes(q, m)', c # ct'[q], ~Torn(c)', name'[c] = m
               PROVE  FALSE
    BY DEF OthersInv
  <2>1. Removes(q, m)
    BY <1>1, <1>2 DEF Removes, Linked
  <2>2. CASE c = ct[p] /\ k # None
    <3>1. q # p /\ k = m
      BY <1>2, <1>3, <2>2
    <3>2. AtName(q, m)'
      BY <1>2, <2>1, <3>1 DEF Removes, AtName, Linked
    <3>3. AtName(p, m)'
      BY <1>2, <3>1 DEF AtName
    <3>4. Meet(p, q)'
      BY <3>1, <3>2, <3>3 DEF Meet
    <3> QED
      BY <1>2, <2>2, <3>4 DEF MeetInv, Torn
  <2>3. CASE c # ct[p] \/ k = None
    BY <1>2, <1>3, <1>5, <2>1, <2>3 DEF Links, OthersInv
  <2> QED
    BY <2>2, <2>3
<1>9. CreateInv'
  <2> SUFFICES ASSUME NEW q \in Vzctls PROVE Spares(q)'
    BY DEF CreateInv
  <2>1. CASE q = p
    BY <1>2, <2>1 DEF Spares
  <2>2. CASE q # p
    <3>1. Spares(q) /\ (pc[q] \notin {"idle", "lock"} => ct[q] \in Cts /\ ct[q] # ct[p])
      BY <1>1, <2>2 DEF Links, CreateInv, Types, LockTypes
    <3> QED
      BY <1>2, <1>3, <2>2, <3>1 DEF Spares
  <2> QED
    BY <2>1, <2>2
<1> QED
  BY <1>6, <1>7, <1>8, <1>9 DEF Links

LEMMA NameStep ==
  ASSUME Sane, NameInv, [Next]_vars
  PROVE  NameInv'
<1>1. Types /\ MeetInv /\ Links /\ Types' /\ MeetInv'
  BY TypesStep DEF NameInv, Links
<1> USE <1>1
<1>2. ASSUME UNCHANGED <<name, link, lock, proc, torn>> PROVE Links'
  BY <1>2 DEF proc, Links, LinkInv, MadeInv, OthersInv, CreateInv, Spares, Torn, Tears,
              Removes
<1>3. CASE UNCHANGED vars
  BY <1>2, <1>3 DEF vars, conf, NameInv, Links
<1>4. ASSUME NEW c \in Cts, Halt(c) \/ Chkpnt(c) PROVE Links'
  BY <1>2, <1>4 DEF Halt, Chkpnt, conf
<1>5. ASSUME NEW p \in Vzctls, Settles(p) PROVE Links'
  BY <1>5, SettlesQuiet, QuietLinks
<1>6. ASSUME NEW p \in Vzctls, Unlink(p) \/ Symlink(p) \/ RemoveAlias(p) \/ RemoveName(p)
      PROVE  Links'
  BY <1>6, RelinksLinks
<1>7. ASSUME NEW p \in Vzctls, Unlock(p) \/ Killed(p) PROVE Links'
  <2>1. Leaves(p) /\ pc[p] # "idle"
    BY <1>7 DEF Unlock, Killed
  <2> QED
    BY <2>1, LeavesLinks
<1>8. ASSUME NEW p \in Vzctls, CopySample(p) \/ Save(p) PROVE Links'
  BY <1>5, <1>8, CopyLinks, SaveLinks DEF Settles
<1> QED
  BY <1>3, <1>4, <1>5, <1>6, <1>7, <1>8, InvokeLinks, LockLinks, CheckNameLinks, AliasLinks,
     InterruptedLinks
     DEF Next, Settles, NameInv, Links

LEMMA NameInit ==
  ASSUME Sane, Init
  PROVE  NameInv
<1>2. Types
  <2>1. FileTypes
    BY NoneIsIdle DEF Init, FileTypes
  <2>2. LockTypes /\ CmdTypes
    BY NoneIsIdle DEF Init, LockTypes, CmdTypes, OpAt, Steps
  <2> QED
    BY <2>1, <2>2 DEF Types
<1>3. \A p \in Vzctls : \A n \in Names : ~AtName(p, n)
  BY NoneIsIdle DEF Init, AtName, Sane
<1>4. MeetInv
  BY <1>3 DEF MeetInv, Meet
<1>5. LinkInv /\ MadeInv /\ OthersInv /\ CreateInv
  BY DEF Init, LinkInv, MadeInv, OthersInv, CreateInv, Spares, Linked, Removes, Sane
<1> QED
  BY <1>2, <1>4, <1>5 DEF NameInv

LEMMA NameInvKept ==
  ASSUME NameInv
  PROVE  TypeOK /\ NameKept
<1>1. TypeOK
  BY DEF TypeOK, NameInv, Types, FileTypes, LockTypes
<1>2. NameKept
  BY DEF NameKept, NameInv, Types, FileTypes, LinkInv, Torn
<1> QED
  BY <1>1, <1>2

-----------------------------------------------------------------------------
(* --setmode.                                                              *)

\* Where the parameters of the container are those of p.
Guarded == Early \union {"start", "save", "done"}
Untouched(q) ==
  /\ pc'[q] = pc[q] /\ cmd'[q] = cmd[q] /\ ct'[q] = ct[q] /\ seen'[q] = seen[q]
  /\ matched'[q] = matched[q] /\ sample'[q] = sample[q]
  /\ pc[q] \in Guarded =>
       /\ live'[ct[q]] \in {None, live[ct[q]]} /\ par'[ct[q]] = par[ct[q]]
       /\ dump'[ct[q]] \in {None, dump[ct[q]]}

LEMMA UntouchedMode ==
  ASSUME NEW q \in Vzctls, ModeInvOf(q), Untouched(q)
  PROVE  ModeInvOf(q)'
<1>1. pc[q] \in Guarded => Stored(q)' = Stored(q)
  BY DEF Untouched, Stored
<1>2. FeaturesGiven(q)' <=> FeaturesGiven(q)
  BY DEF Untouched, FeaturesGiven
<1> QED
  BY <1>1, <1>2 DEF ModeInvOf, Untouched, Guarded, Early, Agrees, LiveOf

\* What p does to containers, it does to that which it has locked.
LEMMA WorksApart ==
  ASSUME Sane, Types, NEW p \in Vzctls, Works(p), NEW q \in Vzctls, q # p
  PROVE  Untouched(q)
<1>1. Walks(p) /\ ct[p] \in Cts /\ lock[ct[p]] = p
  BY WorksWalk DEF Types, Walks, LockTypes
<1>2. \A c \in Cts : c # ct[p] => live'[c] = live[c] /\ par'[c] = par[c] /\ dump'[c] = dump[c]
  <2> USE DEF Types, FileTypes, conf, ctVars
  <2>1. CASE Save(p)
    BY <2>1 DEF Save
  <2>2. CASE UNCHANGED <<live, par, dump>>
    BY <2>2
  <2>3. CASE StartForPassword(p)
    BY <2>3 DEF StartForPassword, Starts, NoStart
  <2>4. CASE SetPassword(p)
    BY <2>4 DEF SetPassword
  <2>5. CASE StopForRestart(p)
    BY <2>5 DEF StopForRestart
  <2>6. CASE Restart(p)
    BY <2>6 DEF Restart, Boots, Restores, Starts, NoStart
  <2>7. CASE StartCt(p)
    BY <2>7 DEF StartCt, Boots, Restores, Starts, NoStart
  <2>8. CASE BackUpConfig(p)
    BY <2>8 DEF BackUpConfig, RemoveFile
  <2>9. CASE RemoveConfig(p)
    BY <2>9 DEF RemoveConfig, RemoveFile
  <2> QED
    BY <2>1, <2>2, <2>3, <2>4, <2>5, <2>6, <2>7, <2>8, <2>9 DEF Works, CheckName, Unlink,
       Symlink, Alias, RemoveAlias, NoPassword, Apply, Refuse, CopySample, CheckArea,
       CreateFs, CreateScript, DestroyCt, RemoveName, NamesRemoved, RemoveArea
<1>3. /\ pc'[q] = pc[q] /\ cmd'[q] = cmd[q] /\ ct'[q] = ct[q] /\ seen'[q] = seen[q]
      /\ matched'[q] = matched[q]
  BY <1>1 DEF Walks, Types, LockTypes
<1>4. pc[q] \in Guarded => ct[q] \in Cts /\ ct[q] # ct[p]
  BY <1>1 DEF Types, LockTypes, Guarded, Early
<1>5. sample'[q] = sample[q]
  <2>1. sample' = sample \/ sample' = [sample EXCEPT ![p] = TRUE]
    BY WorksSample
  <2> QED
    BY <2>1 DEF Types, CmdTypes
<1> QED
  BY <1>2, <1>3, <1>4, <1>5 DEF Untouched

\* What a set with --setmode saves is what it starts the container with, or
\* what the container has if nothing differs.
LEMMA StoredAgrees ==
  ASSUME NEW p, cmd[p] \in Commands, seen[p] \in Confs, par[ct[p]] = seen[p].par
  PROVE  /\ Agrees(p, LiveOf(Merged(p)), Stored(p))
         /\ ~Differs(p) => Agrees(p, LiveOf(par[ct[p]]), Stored(p))
<1> DEFINE k == cmd[p]  old == seen[p].par
<1>1. k.on \subseteq k.known /\ old.on \subseteq old.known
  BY DEF Commands, Confs, Pars
<1>2. LiveOf(Merged(p)).val = Stored(p).val
  BY DEF LiveOf, Merged, Stored
<1>3. ~Differs(p) => LiveOf(old).val = Stored(p).val
  BY DEF LiveOf, Stored, Differs
<1>4. ASSUME FeaturesGiven(p)
      PROVE  /\ LiveOf(Merged(p)).on = LiveOf(Stored(p)).on
             /\ ~Differs(p) => LiveOf(old).on = LiveOf(Stored(p)).on
  <2>1. CASE k.known = {}
    <3>1. k.on = {}
      BY <1>1, <2>1
    <3> QED
      BY <2>1, <3>1 DEF LiveOf, Merged, Stored
  <2>2. CASE k.known # {}
    <3>1. old.known \subseteq k.known /\ (k.on # {} \/ old.on = {})
      BY <1>4, <2>2 DEF FeaturesGiven
    <3>2. LiveOf(Stored(p)).on = k.on
      BY <1>1, <2>2, <3>1 DEF LiveOf, Stored
    <3>3. LiveOf(Merged(p)).on = k.on
      BY <1>1, <2>2, <3>1 DEF LiveOf, Merged
    <3>4. ~Differs(p) => LiveOf(old).on = k.on
      BY <1>1, <2>2 DEF LiveOf, Differs
    <3> QED
      BY <3>2, <3>3, <3>4
  <2> QED
    BY <2>1, <2>2
<1> QED
  BY <1>2, <1>3, <1>4 DEF Agrees

LEMMA WorksMode ==
  ASSUME Sane, Types, NEW p \in Vzctls, ModeInvOf(p), Works(p)
  PROVE  ModeInvOf(p)'
<1>1. Walks(p) /\ ct[p] \in Cts /\ OpAt(p, pc[p]) /\ cmd[p] \in Commands /\ seen[p] \in Confs
  BY WorksWalk DEF Types, Walks, LockTypes, CmdTypes
<1>2. UNCHANGED <<cmd, ct, seen, matched>> /\ OpAt(p, pc'[p])
  BY <1>1 DEF Walks
<1>3. /\ live \in [Cts -> Lives \union {None}] /\ par \in [Cts -> Pars]
      /\ dump \in [Cts -> Lives \union {None}] /\ pc \in [Vzctls -> Steps]
  BY DEF Types, FileTypes, LockTypes
<1>4. sample'[p] => cmd'[p].op = "create" /\ pc'[p] \notin {"idle", "lock"}
  <2>1. sample' = sample \/ CopySample(p)
    BY WorksSample
  <2> QED
    BY <1>1, <1>2, <2>1 DEF CopySample, OpAt, ModeInvOf, Walks
<1>5. SUFFICES ASSUME cmd[p].op = "set", cmd[p].mode # "none", matched[p]
               PROVE  ModeInvOf(p)'
  BY <1>2, <1>4 DEF ModeInvOf
<1> DEFINE Same == UNCHANGED <<live, par, dump>>
<1>6. ASSUME Same, pc[p] \in Early, pc'[p] \in Early \union {"failed", "refused"}
      PROVE  ModeInvOf(p)'
  BY <1>2, <1>4, <1>5, <1>6 DEF ModeInvOf, Early
<1> HIDE DEF Same
<1>7. ASSUME pc'[p] \notin Guarded PROVE ModeInvOf(p)'
  BY <1>4, <1>7 DEF ModeInvOf, Guarded
<1>8. ASSUME pc[p] \in {"setup", "pw"} PROVE seen[p].run
  BY <1>5, <1>8 DEF ModeInvOf, Early
<1> USE DEF Step, Advance, Goto
<1>9. CASE CheckName(p)
  <2>1. Same
    BY <1>9 DEF CheckName, conf, ctVars, Same
  <2>2. pc[p] \in Early /\ pc'[p] \in Early \union {"failed", "refused"}
    BY <1>1, <1>3, <1>5, <1>9 DEF CheckName, Early, After
  <2> QED
    BY <1>6, <2>1, <2>2
<1>10. CASE Unlink(p)
  <2>1. Same
    BY <1>10 DEF Unlink, conf, ctVars, Same
  <2>2. pc[p] \in Early /\ pc'[p] \in Early \union {"failed", "refused"}
    BY <1>1, <1>3, <1>5, <1>10 DEF Unlink, Early
  <2> QED
    BY <1>6, <2>1, <2>2
<1>11. CASE Symlink(p)
  <2>1. Same
    BY <1>11 DEF Symlink, conf, ctVars, Same
  <2>2. pc[p] \in Early /\ pc'[p] \in Early \union {"failed", "refused"}
    BY <1>1, <1>3, <1>5, <1>11 DEF Symlink, Early, After, OldName, Unnamed
  <2> QED
    BY <1>6, <2>1, <2>2
<1>12. CASE Alias(p)
  <2>1. Same
    BY <1>12 DEF Alias, conf, ctVars, Same
  <2>2. pc[p] \in Early /\ pc'[p] \in Early \union {"failed", "refused"}
    BY <1>1, <1>3, <1>5, <1>12 DEF Alias, Early, After
  <2> QED
    BY <1>6, <2>1, <2>2
<1>13. CASE RemoveAlias(p)
  <2>1. Same
    BY <1>13 DEF RemoveAlias, conf, ctVars, Same
  <2>2. pc[p] \in Early /\ pc'[p] \in Early \union {"failed", "refused"}
    BY <1>1, <1>3, <1>5, <1>13 DEF RemoveAlias, Early, After
  <2> QED
    BY <1>6, <2>1, <2>2
<1>14. CASE StartForPassword(p)
  <2>1. pc[p] = "setup" /\ pc'[p] \in Early \union {"failed", "refused"}
    BY <1>1, <1>3, <1>5, <1>14 DEF StartForPassword, Early
  <2>2. Same
    BY <1>8, <1>14, <2>1 DEF StartForPassword, conf, Same
  <2> QED
    BY <1>6, <2>1, <2>2 DEF Early
<1>15. CASE SetPassword(p)
  <2>1. pc[p] = "pw" /\ pc'[p] \in Early \union {"failed", "refused"}
    BY <1>1, <1>3, <1>5, <1>15 DEF SetPassword, Early
  <2>2. Same
    BY <1>8, <1>15, <2>1 DEF SetPassword, conf, Same
  <2> QED
    BY <1>6, <2>1, <2>2 DEF Early
<1>16. CASE NoPassword(p)
  <2>1. Same
    BY <1>16 DEF NoPassword, conf, ctVars, Same
  <2>2. pc[p] \in Early /\ pc'[p] \in Early \union {"failed", "refused"}
    BY <1>1, <1>3, <1>5, <1>16 DEF NoPassword, Early
  <2> QED
    BY <1>6, <2>1, <2>2
<1>17. CASE Apply(p)
  <2>1. pc[p] = "mode" /\ pc'[p] \in {"save", "failed"} /\ UNCHANGED <<live, par>>
    BY <1>3, <1>17 DEF Apply, conf, ctVars
  <2>2. /\ seen[p].run /\ par[ct[p]] = seen[p].par
        /\ live[ct[p]] \in {None, LiveOf(par[ct[p]])}
    BY <1>5, <2>1 DEF ModeInvOf, Early
  <2>3. ~Differs(p)
    BY <1>5, <1>17, <2>2 DEF Apply
  <2>4. live[ct[p]] = None \/ Agrees(p, live[ct[p]], Stored(p))
    BY <1>1, <2>2, <2>3, StoredAgrees
  <2>5. pc'[p] = "save" => live'[ct'[p]] = None \/ Agrees(p, live[ct[p]], Stored(p))'
    BY <1>2, <2>1, <2>4 DEF Agrees, Stored, LiveOf, FeaturesGiven
  <2> QED
    BY <1>4, <2>1, <2>5 DEF ModeInvOf, Early
<1>18. CASE Refuse(p)
  BY <1>3, <1>7, <1>18 DEF Refuse, Guarded, Early
<1>19. CASE StopForRestart(p)
  <2>1. pc[p] = "mode" /\ pc'[p] \in {"start", "failed"} /\ UNCHANGED <<par, dump>>
    BY <1>3, <1>19 DEF StopForRestart, conf
  <2>2. seen[p].run /\ par[ct[p]] = seen[p].par /\ dump[ct[p]] = None
    BY <1>5, <2>1 DEF ModeInvOf, Early
  <2> QED
    BY <1>2, <1>4, <2>1, <2>2 DEF ModeInvOf, Early
<1>20. CASE Restart(p)
  <2>1. pc[p] = "start" /\ pc'[p] \in {"save", "failed"} /\ UNCHANGED par
    BY <1>3, <1>20 DEF Restart, conf
  <2>2. par[ct[p]] = seen[p].par /\ dump[ct[p]] = None
    BY <1>5, <2>1 DEF ModeInvOf
  <2>3. pc'[p] = "save" => live'[ct[p]] = LiveOf(Merged(p))
    <3>1. pc'[p] = "save" => Starts(ct[p], Merged(p))
      BY <1>3, <1>20, <2>1, <2>2 DEF Restart, Boots, Restores
    <3> QED
      BY <1>1, <1>3, <3>1 DEF Starts
  <2>4. Agrees(p, LiveOf(Merged(p)), Stored(p))
    BY <1>1, <2>2, StoredAgrees
  <2>5. Stored(p)' = Stored(p) /\ (FeaturesGiven(p)' <=> FeaturesGiven(p))
    BY <1>2, <2>1 DEF Stored, FeaturesGiven
  <2>6. pc'[p] = "save" => Agrees(p, live[ct[p]], Stored(p))'
    BY <1>2, <2>3, <2>4, <2>5 DEF Agrees, LiveOf
  <2> QED
    BY <1>4, <2>1, <2>6 DEF ModeInvOf, Early
<1>21. CASE Save(p)
  <2>1. /\ pc[p] = "save" /\ pc'[p] \in {"done", "failed"} /\ UNCHANGED live
        /\ pc'[p] = "done" => par' = [par EXCEPT ![ct[p]] = Stored(p)]
    BY <1>3, <1>5, <1>21 DEF Save, ctVars
  <2>2. live[ct[p]] = None \/ Agrees(p, live[ct[p]], Stored(p))
    BY <1>5, <2>1 DEF ModeInvOf
  <2>3. pc'[p] = "done" => par'[ct[p]] = Stored(p)
    BY <1>1, <1>3, <2>1
  <2>4. pc'[p] = "done" => live'[ct'[p]] = None \/ Agrees(p, live[ct[p]], par[ct[p]])'
    BY <1>2, <2>1, <2>2, <2>3 DEF Agrees, LiveOf, FeaturesGiven
  <2> QED
    BY <1>4, <2>1, <2>4 DEF ModeInvOf, Early
<1>22. CASE CopySample(p) \/ CheckArea(p) \/ CreateFs(p) \/ CreateScript(p) \/ DestroyCt(p)
            \/ BackUpConfig(p) \/ RemoveName(p) \/ NamesRemoved(p) \/ RemoveArea(p)
            \/ RemoveConfig(p) \/ StartCt(p)
  BY <1>1, <1>5, <1>22 DEF CopySample, CheckArea, CreateFs, CreateScript, DestroyCt,
     BackUpConfig, RemoveName, NamesRemoved, RemoveArea, RemoveConfig, StartCt, OpAt
<1> QED
  BY <1>9, <1>10, <1>11, <1>12, <1>13, <1>14, <1>15, <1>16, <1>17, <1>18, <1>19, <1>20, <1>21,
     <1>22 DEF Works

LEMMA LockMode ==
  ASSUME Sane, Types, NEW p \in Vzctls, ModeInvOf(p), Lock(p)
  PROVE  ModeInvOf(p)'
<1>1. ct[p] \in Cts /\ UNCHANGED <<cmd, ct, live, par, dump, sample>> /\ pc'[p] = First(p)
      /\ pc[p] = "lock"
  BY DEF Lock, Goto, First, Types, LockTypes, conf, ctVars
<1>2. matched'[p] <=> /\ Running(ct[p]) /\ live[ct[p]] = LiveOf(par[ct[p]])
                      /\ par[ct[p]] = seen[p].par /\ dump[ct[p]] = None
  BY DEF Lock, Types, CmdTypes
<1>3. seen'[p].run = Running(ct[p]) /\ seen'[p].par = seen[p].par
  BY DEF Lock, Types, CmdTypes, Confs
<1>4. cmd[p].op = "set" => pc'[p] \in {"name", "setup"}
  BY <1>1 DEF First
<1>5. ~sample'[p]
  BY <1>1 DEF ModeInvOf
<1>6. LiveOf(par[ct[p]])' = LiveOf(par[ct[p]])
  BY <1>1 DEF LiveOf
<1> QED
  BY <1>1, <1>2, <1>3, <1>4, <1>5, <1>6 DEF ModeInvOf, Early

LEMMA ModeStep ==
  ASSUME Sane, Types, ModeInv, [Next]_vars
  PROVE  ModeInv'
<1> SUFFICES ASSUME NEW q \in Vzctls PROVE ModeInvOf(q)'
  BY DEF ModeInv
<1>0. ModeInvOf(q) /\ (pc[q] \in Guarded => ct[q] \in Cts /\ lock[ct[q]] = q)
  BY DEF ModeInv, Types, LockTypes, Guarded, Early
<1> USE <1>0
<1>1. CASE UNCHANGED vars
  BY <1>1, UntouchedMode DEF vars, conf, ctVars, proc, Untouched
<1>2. ASSUME NEW c \in Cts, Halt(c) \/ Chkpnt(c) PROVE ModeInvOf(q)'
  <2>1. pc[q] \in Guarded => live'[ct[q]] \in {None, live[ct[q]]}
    BY <1>2 DEF Halt, Chkpnt, Types, FileTypes
  <2>2. pc[q] \in Guarded => dump'[ct[q]] = dump[ct[q]]
    BY <1>2 DEF Halt, Chkpnt, Free, Types, FileTypes, Sane
  <2>3. Untouched(q)
    BY <1>2, <2>1, <2>2 DEF Halt, Chkpnt, conf, proc, Untouched
  <2> QED
    BY <2>3, UntouchedMode
<1>3. ASSUME NEW p \in Vzctls, Works(p) PROVE ModeInvOf(q)'
  <2>1. CASE q = p
    BY <1>3, <2>1, WorksMode
  <2>2. CASE q # p
    BY <1>3, <2>2, WorksApart, UntouchedMode
  <2> QED
    BY <2>1, <2>2
<1>4. ASSUME NEW p \in Vzctls, Interrupted(p) PROVE ModeInvOf(q)'
  <2>1. /\ UNCHANGED <<live, dump, proc>> /\ sample[p]
        /\ par' = [par EXCEPT ![ct[p]] = Default]
    BY <1>4 DEF Interrupted, RemoveFile, ctVars
  <2>2. cmd[p].op = "create" /\ pc[p] \notin {"idle", "lock"}
    BY <2>1 DEF ModeInv, ModeInvOf
  <2>3. CASE q = p
    BY <2>1, <2>2, <2>3 DEF ModeInvOf, proc
  <2>4. CASE q # p
    <3>1. pc[q] \in Guarded => ct[q] # ct[p]
      BY <2>2, <2>4 DEF Types, LockTypes
    <3>2. Untouched(q)
      BY <2>1, <3>1 DEF Untouched, proc, Types, FileTypes
    <3> QED
      BY <3>2, UntouchedMode
  <2> QED
    BY <2>3, <2>4
<1>5. ASSUME NEW p \in Vzctls, Invoke(p) PROVE ModeInvOf(q)'
  <2>1. CASE q = p
    <3>1. pc[q] = "idle" /\ pc'[q] = "lock" /\ sample' = sample
      BY <1>5, <2>1 DEF Invoke, Goto, Types, LockTypes
    <3> QED
      BY <3>1 DEF ModeInvOf, Early
  <2>2. CASE q # p
    <3>1. Untouched(q)
      BY <1>5, <2>2 DEF Invoke, Goto, Types, LockTypes, CmdTypes, conf, ctVars, Untouched
    <3> QED
      BY <3>1, UntouchedMode
  <2> QED
    BY <2>1, <2>2
<1>6. ASSUME NEW p \in Vzctls, Lock(p) PROVE ModeInvOf(q)'
  <2>1. CASE q = p
    BY <1>6, <2>1, LockMode
  <2>2. CASE q # p
    <3>1. Untouched(q)
      BY <1>6, <2>2 DEF Lock, Goto, Types, LockTypes, CmdTypes, conf, ctVars, Untouched
    <3> QED
      BY <3>1, UntouchedMode
  <2> QED
    BY <2>1, <2>2
<1>7. ASSUME NEW p \in Vzctls, Leaves(p) PROVE ModeInvOf(q)'
  <2>1. CASE q = p
    <3>1. pc'[q] = "idle" /\ ~sample'[q]
      BY <1>7, <2>1 DEF Leaves, Types, LockTypes, CmdTypes
    <3> QED
      BY <3>1 DEF ModeInvOf, Early
  <2>2. CASE q # p
    <3>1. Untouched(q)
      BY <1>7, <2>2 DEF Leaves, Types, LockTypes, CmdTypes, conf, ctVars, Untouched
    <3> QED
      BY <3>1, UntouchedMode
  <2> QED
    BY <2>1, <2>2
<1> QED
  BY <1>1, <1>2, <1>3, <1>4, <1>5, <1>6, <1>7 DEF Next, Works, Unlock, Killed

LEMMA ModeInit ==
  ASSUME Init
  PROVE  ModeInv
BY DEF Init, ModeInv, ModeInvOf, NoCmd

LEMMA ModeInvHonoured ==
  ASSUME ModeInv
  PROVE  SetModeHonoured
BY DEF ModeInv, ModeInvOf, Agrees, Settled, SetModeHonoured, Running

-----------------------------------------------------------------------------
(* What holds of every behaviour of vzctl set, create, destroy and start.  *)

(* The name in the configuration file of a container that is not torn      *)
(* leads to it (set_name(), remove_names(), vps_save_config()), however    *)
(* the set, the create and the destroy commands of any number of vzctl     *)
(* interleave, whatever fails and wherever they are interrupted or killed. *)
THEOREM NamesAreKept ==
  ASSUME Sane
  PROVE  Spec => []NameKept
<1>1. Init => NameInv
  BY NameInit
<1>2. NameInv /\ [Next]_vars => NameInv'
  BY NameStep
<1>3. NameInv => NameKept
  BY NameInvKept
<1> QED
  BY <1>1, <1>2, <1>3, PTL DEF Spec

(* A vzctl set that has --setmode and saves leaves no running container    *)
(* with another value than it has saved, nor with other features if it was *)
(* given all of them, provided that the container ran before with what     *)
(* vzctl has read and no dump lay there (check_set_mode(),                 *)
(* merge_vps_param(), store_features(), set()).                            *)
THEOREM ModesAreHonoured ==
  ASSUME Sane
  PROVE  Spec => []SetModeHonoured
<1>1. Init => NameInv /\ ModeInv
  BY NameInit, ModeInit
<1>2. NameInv /\ ModeInv /\ [Next]_vars => (NameInv /\ ModeInv)'
  BY NameStep, ModeStep DEF NameInv
<1>3. ModeInv => SetModeHonoured
  BY ModeInvHonoured
<1> QED
  BY <1>1, <1>2, <1>3, PTL DEF Spec
=============================================================================
