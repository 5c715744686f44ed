------------------------- MODULE VpsLifecycleProofs -------------------------
(* Proofs about VpsLifecycle, for every set of commands and of failures.    *)
EXTENDS VpsLifecycle, TLAPS

-----------------------------------------------------------------------------
(* The ways a job moves on. *)

\* The job stays well formed and keeps working for whom it works.
KeepsRole ==
  /\ job' \in Jobs
  /\ job'.pc # "idle"
  /\ job'.by = job.by
  /\ job'.restoring => ~job'.skipRemount

LEMMA GotoRole ==
  ASSUME TypeOK, NEW l \in Places \ {"idle"}, Goto(l)
  PROVE  KeepsRole
BY DEF TypeOK, Jobs, Goto, KeepsRole

LEMMA GotoOkRole ==
  ASSUME TypeOK, NEW l \in Places \ {"idle"}, NEW ok \in BOOLEAN,
         job' = [job EXCEPT !.pc = l, !.ok = ok]
  PROVE  KeepsRole
BY DEF TypeOK, Jobs, KeepsRole

LEMMA CallRole ==
  ASSUME TypeOK, NEW l \in Places \ {"idle"}, NEW m \in Backs, Call(l, m)
  PROVE  KeepsRole
BY DEF TypeOK, Jobs, Call, KeepsRole

LEMMA ReturnRole ==
  ASSUME TypeOK, NEW ok \in BOOLEAN, Return(ok)
  PROVE  KeepsRole
BY DEF TypeOK, Jobs, Return, KeepsRole, Places, Backs

LEMMA ExitRole ==
  ASSUME TypeOK, NEW ok \in BOOLEAN, Exit(ok)
  PROVE  KeepsRole
BY DEF TypeOK, Jobs, Exit, KeepsRole, Places

LEMMA RestoreFailsRole ==
  ASSUME TypeOK, RestoreFails
  PROVE  KeepsRole
<1>1. CASE job.op = "resume"
  BY <1>1, ExitRole DEF RestoreFails
<1>2. CASE job.op # "resume"
  <2>1. "custom" \in Places
    BY DEF Places
  <2>2. job' = [job EXCEPT !.pc = "custom", !.restoring = FALSE,
                           !.skipRemount = TRUE, !.skipUmount = FALSE]
    BY <1>2 DEF RestoreFails
  <2> QED
    BY <2>1, <2>2 DEF TypeOK, Jobs, KeepsRole
<1> QED
  BY <1>1, <1>2

LEMMA CustomFailsRole ==
  ASSUME TypeOK, CustomFails
  PROVE  KeepsRole
BY RestoreFailsRole, ExitRole DEF CustomFails

LEMMA StopReturnsRole ==
  ASSUME TypeOK, NEW ok \in BOOLEAN, StopReturns(ok)
  PROVE  KeepsRole
BY GotoRole, ExitRole DEF StopReturns, Places

LEMMA EntryIsPlace ==
  ASSUME NEW op \in AllOps
  PROVE  Entry(op) \in Places \ {"idle"}
BY DEF Entry, AllOps, Places

LEMMA BeginTypes ==
  ASSUME NEW op \in Ops \union {"umount", "start"}, NEW by \in {"admin", "script"},
         NEW nomount \in BOOLEAN, Begin(op, by, nomount)
  PROVE  /\ job' \in Jobs
         /\ job'.pc # "idle"
         /\ job'.by = by
         /\ ~job'.skipRemount
<1>1. Entry(op) \in Places \ {"idle"}
  BY EntryIsPlace, OpsAssumption DEF AllOps
<1>2. Idle \in Jobs /\ ~Idle.skipRemount
  BY DEF Idle, Jobs, Places, Backs
<1>3. (op = "resume") \in BOOLEAN
  OBVIOUS
<1> QED
  BY <1>1, <1>2, <1>3 DEF Begin, Idle, Jobs

\* The script that waits is the one that the ending vzctl worked for.
LEMMA WakesTypes ==
  ASSUME TypeOK
  PROVE  Wakes \in Scripts /\ Wakes.at \notin {"fswait", "startwait"}
BY DEF TypeOK, Wakes, Scripts, ScriptPlaces, AfterFs, NoScript, Jobs

-----------------------------------------------------------------------------
(* Type correctness. *)

LEMMA FsTypes ==
  ASSUME TypeOK, FsStep
  PROVE  TypeOK'
<1>1. CASE MountCheck
  <2>1. KeepsRole
    BY <1>1, GotoRole, ReturnRole DEF TypeOK, MountCheck, Places, Backs, Jobs
  <2> QED
    BY <1>1, <2>1
       DEF TypeOK, MountCheck, KeepsRole, At, fsvars, netvars, evvars, Envs, Dumps, IpFiles
<1>2. CASE QuotaOn
  <2>1. KeepsRole
    BY <1>2, GotoRole, ReturnRole DEF TypeOK, QuotaOn, Places, Backs, Jobs
  <2>2. quota' \in BOOLEAN
    BY <1>2, Zenon DEF TypeOK, QuotaOn
  <2>3. UNCHANGED <<env, mounted, private, conf, dump, netvars, evvars>>
    BY <1>2 DEF QuotaOn
  <2> QED
    BY <2>1, <2>2, <2>3 DEF TypeOK, KeepsRole, At, netvars, evvars
<1>3. CASE FsMount
  <2>1. KeepsRole
    BY <1>3, GotoRole, ReturnRole DEF TypeOK, FsMount, Places, Backs, Jobs
  <2> QED
    BY <1>3, <2>1, ZenonT(30)
       DEF TypeOK, FsMount, KeepsRole, At, fsvars, netvars, evvars, Envs, Dumps, IpFiles
<1>4. CASE MountScripts
  <2>1. KeepsRole
    BY <1>4, ReturnRole, GotoOkRole DEF TypeOK, MountScripts, Places, Backs, Jobs
  <2> QED
    BY <1>4, <2>1
       DEF TypeOK, MountScripts, KeepsRole, At, fsvars, netvars, evvars, Envs, Dumps, IpFiles
<1>5. CASE UmountCheck
  <2>1. KeepsRole
    BY <1>5, ReturnRole, GotoOkRole DEF TypeOK, UmountCheck, Places, Backs, Jobs
  <2> QED
    BY <1>5, <2>1
       DEF TypeOK, UmountCheck, KeepsRole, At, fsvars, netvars, evvars, Envs, Dumps, IpFiles
<1>6. CASE FsUmount
  <2>1. KeepsRole
    BY <1>6, GotoRole, ReturnRole DEF TypeOK, FsUmount, Places, Backs, Jobs
  <2> QED
    BY <1>6, <2>1, ZenonT(30)
       DEF TypeOK, FsUmount, KeepsRole, At, fsvars, netvars, evvars, Envs, Dumps, IpFiles
<1>7. CASE QuotaOff
  <2>1. KeepsRole
    BY <1>7, ReturnRole DEF TypeOK, QuotaOff, Places, Backs, Jobs
  <2>2. quota' \in BOOLEAN
    BY <1>7, Zenon DEF TypeOK, QuotaOff
  <2>3. UNCHANGED <<env, mounted, private, conf, dump, netvars, evvars>>
    BY <1>7 DEF QuotaOff
  <2> QED
    BY <2>1, <2>2, <2>3 DEF TypeOK, KeepsRole, At, netvars, evvars
<1> QED
  BY <1>1, <1>2, <1>3, <1>4, <1>5, <1>6, <1>7 DEF FsStep

LEMMA StartTypes ==
  ASSUME TypeOK, StartStep
  PROVE  TypeOK'
<1>1. CASE Start
  <2>1. KeepsRole
    <3>1. CASE Exit(FALSE)
      BY <3>1, ExitRole
    <3>2. CASE job' = [job EXCEPT !.pc = "custom", !.skipRemount = FALSE,
                                  !.skipUmount = FALSE]
      <4>1. "custom" \in Places
        BY DEF Places
      <4> QED
        BY <3>2, <4>1 DEF TypeOK, Jobs, KeepsRole
    <3>3. CASE job' = [job EXCEPT !.pc = "restore", !.restoring = TRUE,
                                  !.skipRemount = FALSE, !.skipUmount = TRUE]
      <4>1. "restore" \in Places
        BY DEF Places
      <4> QED
        BY <3>3, <4>1 DEF TypeOK, Jobs, KeepsRole
    <3> QED
      BY <1>1, <3>1, <3>2, <3>3 DEF Start
  <2> QED
    BY <1>1, <2>1
       DEF TypeOK, Start, KeepsRole, At, fsvars, netvars, evvars, Envs, Dumps, IpFiles
<1>2. CASE Restore
  <2>1. KeepsRole
    BY <1>2, GotoRole, RestoreFailsRole DEF TypeOK, Restore, Places, Backs, Jobs
  <2> QED
    BY <1>2, <2>1
       DEF TypeOK, Restore, KeepsRole, At, fsvars, netvars, evvars, Envs, Dumps, IpFiles
<1>3. CASE StartCustom
  <2>1. KeepsRole
    BY <1>3, CustomFailsRole, CallRole, GotoRole DEF TypeOK, StartCustom, Places, Backs, Jobs
  <2> QED
    BY <1>3, <2>1
       DEF TypeOK, StartCustom, KeepsRole, At, fsvars, netvars, evvars, Envs, Dumps, IpFiles
<1>4. CASE MountForStart
  <2>1. KeepsRole
    BY <1>4, CallRole, GotoOkRole DEF TypeOK, MountForStart, Places, Backs, Jobs
  <2> QED
    BY <1>4, <2>1
       DEF TypeOK, MountForStart, KeepsRole, At, fsvars, netvars, evvars, Envs, Dumps, IpFiles
<1>5. CASE EarlyReturns
  <2>1. KeepsRole
    BY <1>5, CustomFailsRole, GotoRole DEF TypeOK, EarlyReturns, Places, Backs, Jobs
  <2> QED
    BY <1>5, <2>1
       DEF TypeOK, EarlyReturns, KeepsRole, At, fsvars, netvars, evvars, Envs, Dumps, IpFiles
<1>6. CASE EnvCreate
  <2>1. KeepsRole
    BY <1>6, GotoRole DEF TypeOK, EnvCreate, Places, Backs, Jobs
  <2> QED
    BY <1>6, <2>1, ZenonT(30)
       DEF TypeOK, EnvCreate, KeepsRole, At, fsvars, netvars, evvars, Envs, Dumps, IpFiles
<1>7. CASE SetupRes
  <2>1. KeepsRole
    BY <1>7, GotoRole DEF TypeOK, SetupRes, Places, Backs, Jobs
  <2> QED
    BY <1>7, <2>1, ZenonT(30)
       DEF TypeOK, SetupRes, KeepsRole, At, fsvars, netvars, evvars, Envs, Dumps, IpFiles
<1>8. CASE ReleaseChild
  <2>1. KeepsRole
    BY <1>8, GotoRole DEF TypeOK, ReleaseChild, Places, Backs, Jobs
  <2> QED
    BY <1>8, <2>1
       DEF TypeOK, ReleaseChild, KeepsRole, At, fsvars, netvars, evvars, Envs, Dumps, IpFiles, EnvRuns, Outdated
<1>9. CASE WaitFails
  <2>1. KeepsRole
    BY <1>9, GotoRole DEF TypeOK, WaitFails, Places, Backs, Jobs
  <2> QED
    BY <1>9, <2>1
       DEF TypeOK, WaitFails, KeepsRole, At, fsvars, netvars, evvars, Envs, Dumps, IpFiles
<1>10. CASE Started
  <2>1. KeepsRole
    BY <1>10, ExitRole DEF TypeOK, Started, Places, Backs, Jobs
  <2> QED
    BY <1>10, <2>1
       DEF TypeOK, Started, KeepsRole, At, fsvars, netvars, evvars, Envs, Dumps, IpFiles
<1>11. CASE StartFailed
  <2>1. KeepsRole
    BY <1>11, CallRole, GotoRole DEF TypeOK, StartFailed, Places, Backs, Jobs
  <2> QED
    BY <1>11, <2>1, ZenonT(30)
       DEF TypeOK, StartFailed, KeepsRole, At, fsvars, netvars, evvars, Envs, Dumps, IpFiles, EnvDies
<1>12. CASE FailReturns
  <2>1. KeepsRole
    BY <1>12, CustomFailsRole DEF TypeOK, FailReturns, Places, Backs, Jobs
  <2> QED
    BY <1>12, <2>1
       DEF TypeOK, FailReturns, KeepsRole, At, fsvars, netvars, evvars, Envs, Dumps, IpFiles
<1> QED
  BY <1>1, <1>2, <1>3, <1>4, <1>5, <1>6, <1>7, <1>8, <1>9, <1>10, <1>11, <1>12 DEF StartStep

LEMMA StopTypes ==
  ASSUME TypeOK, StopStep
  PROVE  TypeOK'
<1>1. CASE Restart
  <2>1. KeepsRole
    BY <1>1, GotoRole DEF TypeOK, Restart, Places, Backs, Jobs
  <2> QED
    BY <1>1, <2>1
       DEF TypeOK, Restart, KeepsRole, At, fsvars, netvars, evvars, Envs, Dumps, IpFiles
<1>2. CASE Stop
  <2>1. KeepsRole
    BY <1>2, StopReturnsRole, GotoRole DEF TypeOK, Stop, Places, Backs, Jobs
  <2> QED
    BY <1>2, <2>1
       DEF TypeOK, Stop, KeepsRole, At, fsvars, netvars, evvars, Envs, Dumps, IpFiles
<1>3. CASE GetVpsIp
  <2>1. KeepsRole
    BY <1>3 DEF TypeOK, GetVpsIp, Places, Backs, Jobs, KeepsRole
  <2> QED
    BY <1>3, <2>1
       DEF TypeOK, GetVpsIp, KeepsRole, At, fsvars, netvars, evvars, Envs, Dumps, IpFiles
<1>4. CASE EnvStop
  <2>1. KeepsRole
    BY <1>4, GotoRole, StopReturnsRole DEF TypeOK, EnvStop, Places, Backs, Jobs
  <2> QED
    BY <1>4, <2>1, ZenonT(30)
       DEF TypeOK, EnvStop, KeepsRole, At, fsvars, netvars, evvars, Envs, Dumps, IpFiles, EnvDies
<1>5. CASE StopNet
  <2>1. KeepsRole
    BY <1>5, StopReturnsRole, CallRole DEF TypeOK, StopNet, Places, Backs, Jobs
  <2> QED
    BY <1>5, <2>1
       DEF TypeOK, StopNet, KeepsRole, At, fsvars, netvars, evvars, Envs, Dumps, IpFiles
<1>6. CASE Stopped
  <2>1. KeepsRole
    BY <1>6, StopReturnsRole DEF TypeOK, Stopped, Places, Backs, Jobs
  <2> QED
    BY <1>6, <2>1
       DEF TypeOK, Stopped, KeepsRole, At, fsvars, netvars, evvars, Envs, Dumps, IpFiles
<1> QED
  BY <1>1, <1>2, <1>3, <1>4, <1>5, <1>6 DEF StopStep

LEMMA CptTypes ==
  ASSUME TypeOK, CptStep
  PROVE  TypeOK'
<1>1. CASE Suspend
  <2>1. KeepsRole
    BY <1>1, ExitRole, GotoRole DEF TypeOK, Suspend, Places, Backs, Jobs
  <2> QED
    <3>1. dump' \in Dumps
      BY <1>1 DEF TypeOK, Suspend, Dumps
    <3>2. UNCHANGED <<env, fsvars, netvars, evvars>>
      BY <1>1 DEF Suspend
    <3> QED
      BY <2>1, <3>1, <3>2 DEF TypeOK, KeepsRole, At, fsvars, netvars, evvars
<1>2. CASE CptSuspend
  <2>1. KeepsRole
    BY <1>2, GotoRole DEF TypeOK, CptSuspend, Places, Backs, Jobs
  <2> QED
    BY <1>2, <2>1
       DEF TypeOK, CptSuspend, KeepsRole, At, fsvars, netvars, evvars, Envs, Dumps, IpFiles
<1>3. CASE CptDump
  <2>1. KeepsRole
    BY <1>3, GotoRole DEF TypeOK, CptDump, Places, Backs, Jobs
  <2> QED
    BY <1>3, <2>1
       DEF TypeOK, CptDump, KeepsRole, At, fsvars, netvars, evvars, Envs, Dumps, IpFiles, EnvRuns, Outdated
<1>4. CASE CptKill
  <2>1. KeepsRole
    BY <1>4, GotoRole DEF TypeOK, CptKill, Places, Backs, Jobs
  <2> QED
    BY <1>4, <2>1, ZenonT(30)
       DEF TypeOK, CptKill, KeepsRole, At, fsvars, netvars, evvars, Envs, Dumps, IpFiles, EnvDies
<1>5. CASE SyncDump
  <2>1. KeepsRole
    BY <1>5, GotoRole DEF TypeOK, SyncDump, Places, Backs, Jobs
  <2> QED
    BY <1>5, <2>1
       DEF TypeOK, SyncDump, KeepsRole, At, fsvars, netvars, evvars, Envs, Dumps, IpFiles
<1>6. CASE UnlinkDump
  <2>1. KeepsRole
    BY <1>6, ExitRole DEF TypeOK, UnlinkDump, Places, Backs, Jobs
  <2> QED
    BY <1>6, <2>1
       DEF TypeOK, UnlinkDump, KeepsRole, At, fsvars, netvars, evvars, Envs, Dumps, IpFiles
<1>7. CASE CptNet
  <2>1. KeepsRole
    BY <1>7, CallRole DEF TypeOK, CptNet, Places, Backs, Jobs
  <2> QED
    BY <1>7, <2>1
       DEF TypeOK, CptNet, KeepsRole, At, fsvars, netvars, evvars, Envs, Dumps, IpFiles, NetDel
<1>8. CASE CptStage
  <2>1. KeepsRole
    BY <1>8, ExitRole DEF TypeOK, CptStage, Places, Backs, Jobs
  <2> QED
    BY <1>8, <2>1, ZenonT(30)
       DEF TypeOK, CptStage, KeepsRole, At, fsvars, netvars, evvars, Envs, Dumps, IpFiles, EnvRuns, EnvDies, Outdated, NetDel
<1> QED
  BY <1>1, <1>2, <1>3, <1>4, <1>5, <1>6, <1>7, <1>8 DEF CptStep

LEMMA DirTypes ==
  ASSUME TypeOK, DirStep
  PROVE  TypeOK'
<1>1. CASE CreateCt
  <2>1. KeepsRole
    <3>1. CASE Exit(FALSE)
      BY <3>1, ExitRole
    <3>2. CASE Goto("createfs")
      BY <3>2, GotoRole DEF Places
    <3>3. CASE job' = [job EXCEPT !.pc = "createfs", !.sample = TRUE]
      <4>1. "createfs" \in Places
        BY DEF Places
      <4> QED
        BY <3>3, <4>1 DEF TypeOK, Jobs, KeepsRole
    <3> QED
      BY <1>1, <3>1, <3>2, <3>3 DEF CreateCt
  <2>2. conf' \in BOOLEAN
    BY <1>1, Zenon DEF TypeOK, CreateCt
  <2>3. UNCHANGED <<env, mounted, quota, private, dump, netvars, evvars>>
    BY <1>1 DEF CreateCt, fsvars
  <2> QED
    BY <2>1, <2>2, <2>3 DEF TypeOK, KeepsRole, At, netvars, evvars
<1>2. CASE CreateFs
  <2>1. KeepsRole
    BY <1>2, GotoRole DEF CreateFs, Places
  <2>2. quota' \in BOOLEAN
    BY <1>2, Zenon DEF TypeOK, CreateFs
  <2>3. UNCHANGED <<env, mounted, private, conf, dump, netvars, evvars>>
    BY <1>2 DEF CreateFs, fsvars
  <2> QED
    BY <2>1, <2>2, <2>3 DEF TypeOK, KeepsRole, At, netvars, evvars
<1>3. CASE CreateMove
  <2>1. KeepsRole
    BY <1>3, GotoRole, ExitRole DEF CreateMove, Places
  <2>2. quota' \in BOOLEAN /\ private' \in BOOLEAN /\ conf' \in BOOLEAN
    BY <1>3, Zenon DEF TypeOK, CreateMove
  <2>3. UNCHANGED <<env, mounted, dump, netvars, evvars>>
    BY <1>3 DEF CreateMove, fsvars
  <2> QED
    BY <2>1, <2>2, <2>3 DEF TypeOK, KeepsRole, At, netvars, evvars
<1>4. CASE CreateSave
  <2>1. KeepsRole
    BY <1>4, ExitRole DEF CreateSave, Places
  <2>2. private' \in BOOLEAN /\ conf' \in BOOLEAN
    BY <1>4, Zenon DEF TypeOK, CreateSave
  <2>3. UNCHANGED <<env, mounted, quota, dump, netvars, evvars>>
    BY <1>4 DEF CreateSave, fsvars
  <2> QED
    BY <2>1, <2>2, <2>3 DEF TypeOK, KeepsRole, At, netvars, evvars
<1>5. CASE DestroyCheck
  <2>1. KeepsRole
    BY <1>5, GotoRole, ExitRole DEF DestroyCheck, Places
  <2>2. UNCHANGED <<env, mounted, quota, private, conf, dump, netvars, evvars>>
    BY <1>5 DEF DestroyCheck, fsvars
  <2> QED
    BY <2>1, <2>2 DEF TypeOK, KeepsRole, At, netvars, evvars
<1>6. CASE DestroyDir
  <2>1. KeepsRole
    BY <1>6, GotoRole, ExitRole DEF DestroyDir, Places
  <2>2. quota' \in BOOLEAN /\ private' \in BOOLEAN
    BY <1>6, Zenon DEF TypeOK, DestroyDir
  <2>3. dump' \in Dumps
    BY <1>6 DEF TypeOK, DestroyDir, Outdated, Dumps
  <2>4. UNCHANGED <<env, mounted, conf, netvars, evvars>>
    BY <1>6 DEF DestroyDir, fsvars
  <2> QED
    BY <2>1, <2>2, <2>3, <2>4 DEF TypeOK, KeepsRole, At, netvars, evvars
<1>7. CASE DestroyConf
  <2>1. KeepsRole
    BY <1>7, GotoRole DEF DestroyConf, Places
  <2>2. conf' \in BOOLEAN
    BY <1>7, Zenon DEF TypeOK, DestroyConf
  <2>3. UNCHANGED <<env, mounted, quota, private, dump, netvars, evvars>>
    BY <1>7 DEF DestroyConf, fsvars
  <2> QED
    BY <2>1, <2>2, <2>3 DEF TypeOK, KeepsRole, At, netvars, evvars
<1>8. CASE DestroyDump
  <2>1. KeepsRole
    BY <1>8, ExitRole DEF DestroyDump, Places
  <2>2. dump' \in Dumps
    BY <1>8 DEF TypeOK, DestroyDump, Outdated, Dumps
  <2>3. UNCHANGED <<env, mounted, quota, private, conf, netvars, evvars>>
    BY <1>8 DEF DestroyDump, fsvars
  <2> QED
    BY <2>1, <2>2, <2>3 DEF TypeOK, KeepsRole, At, netvars, evvars
<1> QED
  BY <1>1, <1>2, <1>3, <1>4, <1>5, <1>6, <1>7, <1>8 DEF DirStep

LEMMA ScriptTypes ==
  ASSUME TypeOK, ScriptStep
  PROVE  TypeOK'
<1> USE DEF netvars, evvars, fsvars, At
<1>1. CASE ScriptCheck
  <2>1. script' \in Scripts /\ script'.at \notin {"fswait", "startwait"}
    BY <1>1 DEF TypeOK, ScriptCheck, ScriptEnds, ScriptGoto, NoScript, Scripts, ScriptPlaces
  <2>2. job.by # "script"
    BY <1>1 DEF ScriptCheck, ScriptAt, TypeOK
  <2>3. deferred' \in BOOLEAN
    BY <1>1, Zenon DEF ScriptCheck, TypeOK
  <2> QED
    BY <1>1, <2>1, <2>2, <2>3 DEF TypeOK, ScriptCheck
<1>2. CASE ScriptPoll
  <2>1. script' \in Scripts /\ script'.at \notin {"fswait", "startwait"}
    BY <1>2 DEF TypeOK, ScriptPoll, ScriptEnds, ScriptGoto, NoScript, Scripts, ScriptPlaces
  <2>2. job.by # "script"
    BY <1>2 DEF ScriptPoll, ScriptAt, TypeOK
  <2>3. deferred' \in BOOLEAN
    BY <1>2, Zenon DEF ScriptPoll, TypeOK
  <2> QED
    BY <1>2, <2>1, <2>2, <2>3 DEF TypeOK, ScriptPoll
<1>3. CASE ScriptUmount
  <2>1. CASE mounted /\ At("idle") /\ conf
    <3>1. Begin("umount", "script", FALSE) /\ ScriptGoto("fswait")
      BY <1>3, <2>1 DEF ScriptUmount
    <3>2. job' \in Jobs /\ job'.pc # "idle" /\ job'.by = "script" /\ ~job'.skipRemount
      BY <3>1, BeginTypes
    <3>3. script' \in Scripts /\ script'.at = "fswait"
      BY <3>1 DEF TypeOK, ScriptGoto, Scripts, ScriptPlaces
    <3> QED
      BY <1>3, <3>2, <3>3 DEF TypeOK, ScriptUmount
  <2>2. CASE ~(mounted /\ At("idle") /\ conf)
    <3>1. script' \in Scripts /\ script'.at \notin {"fswait", "startwait"}
      BY <1>3, <2>2 DEF TypeOK, ScriptUmount, AfterFs, Scripts, ScriptPlaces
    <3>2. job.by # "script" /\ UNCHANGED job
      BY <1>3, <2>2 DEF ScriptUmount, ScriptAt, TypeOK
    <3> QED
      BY <1>3, <3>1, <3>2 DEF TypeOK, ScriptUmount
  <2> QED BY <2>1, <2>2
<1>4. CASE ScriptStart
  <2>1. CASE At("idle") /\ conf
    <3>1. Begin("start", "script", FALSE) /\ ScriptGoto("startwait")
      BY <1>4, <2>1 DEF ScriptStart
    <3>2. job' \in Jobs /\ job'.pc # "idle" /\ job'.by = "script" /\ ~job'.skipRemount
      BY <3>1, BeginTypes
    <3>3. script' \in Scripts /\ script'.at = "startwait"
      BY <3>1 DEF TypeOK, ScriptGoto, Scripts, ScriptPlaces
    <3>4. UNCHANGED deferred
      BY <1>4, <2>1 DEF ScriptStart
    <3> QED
      BY <1>4, <3>2, <3>3, <3>4 DEF TypeOK, ScriptStart
  <2>2. CASE ~(At("idle") /\ conf)
    <3>1. ScriptEnds /\ deferred' = TRUE /\ UNCHANGED job
      BY <1>4, <2>2, Zenon DEF ScriptStart
    <3>2. script' \in Scripts /\ script'.at \notin {"fswait", "startwait"}
      BY <3>1 DEF ScriptEnds, NoScript, Scripts, ScriptPlaces
    <3>3. job.by # "script"
      BY <1>4 DEF ScriptStart, ScriptAt, TypeOK
    <3> QED
      BY <1>4, <3>1, <3>2, <3>3 DEF TypeOK, ScriptStart
  <2> QED BY <2>1, <2>2
<1>5. CASE ScriptReadNet
  <2>1. script' \in Scripts /\ script'.at \notin {"fswait", "startwait"}
    BY <1>5 DEF TypeOK, ScriptReadNet, ScriptEnds, ScriptGoto, NoScript, Scripts, ScriptPlaces
  <2>2. job.by # "script"
    BY <1>5 DEF ScriptReadNet, ScriptAt, TypeOK
  <2> QED
    BY <1>5, <2>1, <2>2 DEF TypeOK, ScriptReadNet
<1>6. CASE ScriptClearNet
  <2>1. script' \in Scripts /\ script'.at \notin {"fswait", "startwait"}
    BY <1>6 DEF TypeOK, ScriptClearNet, ScriptEnds, NoScript, Scripts, ScriptPlaces
  <2>2. job.by # "script"
    BY <1>6 DEF ScriptClearNet, ScriptAt, TypeOK
  <2>3. routes' \in BOOLEAN
    BY <1>6, Zenon DEF ScriptClearNet
  <2> QED
    BY <1>6, <2>1, <2>2, <2>3 DEF TypeOK, ScriptClearNet, IpFiles
<1> QED
  BY <1>1, <1>2, <1>3, <1>4, <1>5, <1>6 DEF ScriptStep

LEMMA UnlockTypes ==
  ASSUME TypeOK, Unlock \/ VzctlKilled
  PROVE  TypeOK'
<1>1. script' = Wakes /\ job' = Idle
  BY DEF Unlock, VzctlKilled
<1>2. Idle \in Jobs /\ Idle.by = "admin" /\ ~Idle.restoring
  BY DEF Idle, Jobs, Places, Backs
<1>3. UNCHANGED <<env, fsvars, dump, netvars, event, deferred>>
  BY DEF Unlock, VzctlKilled
<1> QED
  BY <1>1, <1>2, <1>3, WakesTypes DEF TypeOK, fsvars, netvars, At

LEMMA TypeStep ==
  ASSUME TypeOK, [Next]_vars
  PROVE  TypeOK'
<1>1. ASSUME NEW op \in Ops, Invoke(op) PROVE TypeOK'
  <2>1. PICK nomount \in BOOLEAN : Begin(op, "admin", nomount)
    BY <1>1 DEF Invoke
  <2>2. job' \in Jobs /\ job'.pc # "idle" /\ job'.by = "admin" /\ ~job'.skipRemount
    BY <2>1, BeginTypes
  <2>3. job.by = "admin"
    BY <1>1 DEF Invoke, TypeOK, Idle
  <2> QED
    BY <1>1, <2>2, <2>3 DEF Invoke, TypeOK, At, fsvars, netvars, evvars
<1>2. CASE JobStep
  BY <1>2, FsTypes, StartTypes, StopTypes, CptTypes, DirTypes, UnlockTypes
     DEF JobStep
<1>3. ASSUME NEW why \in SelfStop, SelfStops(why) PROVE TypeOK'
  BY <1>3, SelfStopAssumption
     DEF SelfStops, EnvDies, TypeOK, Envs, At, fsvars
<1>4. CASE OrphanExits
  BY <1>4 DEF OrphanExits, EnvDies, TypeOK, Envs, At, fsvars
<1>5. ASSUME NEW e \in {"stop", "reboot"}, RunEventScript(e) PROVE TypeOK'
  <2>1. script' \in Scripts /\ script'.at \notin {"fswait", "startwait"}
    BY <1>5 DEF RunEventScript, Scripts, ScriptPlaces
  <2>2. job.by # "script"
    BY <1>5 DEF RunEventScript, NoScript, TypeOK
  <2> QED
    BY <1>5, <2>1, <2>2 DEF RunEventScript, TypeOK, At, fsvars, netvars
<1>6. CASE ScriptStep
  BY <1>6, ScriptTypes
<1>7. CASE VzctlKilled
  BY <1>7, UnlockTypes
<1>8. CASE HostCrash
  <2>1. dump' \in Dumps
    BY <1>8 DEF HostCrash, TypeOK, Dumps
  <2>2. job' \in Jobs /\ job' = Idle /\ job'.by = "admin" /\ ~job'.restoring
    BY <1>8 DEF HostCrash, Idle, Jobs, Places, Backs
  <2>3. script' \in Scripts /\ script'.at \notin {"fswait", "startwait"}
    BY <1>8 DEF HostCrash, NoScript, Scripts, ScriptPlaces
  <2> QED
    BY <1>8, <2>1, <2>2, <2>3 DEF HostCrash, TypeOK, Envs, At
<1>9. CASE UNCHANGED vars
  BY <1>9 DEF vars, TypeOK, At
<1> QED
  BY <1>1, <1>2, <1>3, <1>4, <1>5, <1>6, <1>7, <1>8, <1>9 DEF Next

LEMMA TypeInit == Init => TypeOK
<1> SUFFICES ASSUME Init PROVE TypeOK
  OBVIOUS
<1>1. job \in Jobs /\ job = Idle /\ job.by = "admin" /\ ~job.restoring
  BY DEF Init, Idle, Jobs, Places, Backs
<1>2. script \in Scripts /\ script.at = "none"
  BY DEF Init, NoScript, Scripts, ScriptPlaces
<1>3. /\ veips \in BOOLEAN /\ mounted \in BOOLEAN /\ quota \in BOOLEAN
      /\ private \in BOOLEAN /\ conf \in BOOLEAN /\ routes \in BOOLEAN
      /\ deferred \in BOOLEAN
  BY Zenon DEF Init
<1>4. /\ env \in Envs /\ dump \in Dumps /\ ipfile \in IpFiles
      /\ event \subseteq {"stop", "reboot"}
  BY DEF Init, Envs, Dumps, IpFiles
<1> QED
  BY <1>1, <1>2, <1>3, <1>4 DEF TypeOK

(* Type correctness: whatever fails, is killed or comes in between, the    *)
(* records of the running vzctl and of the script agree with each other.   *)
THEOREM TypeCorrect == Spec => []TypeOK
BY TypeInit, TypeStep, PTL DEF Spec

-----------------------------------------------------------------------------
(* Safety.  A state that the next step depends on is named for each place  *)
(* of the job: who is about to mount has found nothing mounted, who is     *)
(* about to create the container has it mounted, and so on.                *)

FsInv ==
  /\ env # "down" => mounted
  /\ mounted => quota /\ private
  /\ At("quotaon") => ~mounted /\ private
  /\ At("fsmount") => ~mounted /\ private /\ quota
  /\ At("mounted") => mounted
  /\ At("umount") => job.back # "early"
  /\ At("quotaoff") => ~mounted
  /\ (At("fsumount") \/ At("quotaoff")) /\ job.back = "early" => ~job.ok
  /\ At("early") /\ job.ok => mounted
  /\ At("create") => mounted
  /\ At("destroydir") \/ At("createsave") => ~mounted
  /\ At("createfs") \/ At("createmove") => ~private

EnvInv ==
  /\ At("setup") \/ At("go") => env = "created"
  /\ At("dump") \/ At("cptkill") => env = "frozen"

IInv == TypeOK /\ FsInv /\ EnvInv

LEMMA FsStepInv ==
  ASSUME IInv, FsStep
  PROVE  FsInv' /\ EnvInv'
<1> USE DEF IInv, TypeOK, FsInv, EnvInv, Jobs, Backs, Envs, At, Goto, Call, Return, Exit, fsvars
<1>1. CASE MountCheck
  BY <1>1 DEF MountCheck
<1>2. CASE QuotaOn
  BY <1>2 DEF QuotaOn
<1>3. CASE FsMount
  <2>1. CASE mounted' = TRUE /\ Goto("mounted") /\ UNCHANGED quota
    BY <1>3, <2>1 DEF FsMount
  <2>2. CASE quota' = FALSE /\ Return(FALSE) /\ UNCHANGED mounted
    BY <1>3, <2>2 DEF FsMount
  <2> QED
    BY <1>3, <2>1, <2>2, Zenon DEF FsMount
<1>4. CASE MountScripts
  BY <1>4 DEF MountScripts
<1>5. CASE UmountCheck
  BY <1>5 DEF UmountCheck
<1>6. CASE FsUmount
  <2>1. CASE env = "down" /\ mounted' = FALSE /\ Goto("quotaoff")
    BY <1>6, <2>1 DEF FsUmount
  <2>2. CASE Return(FALSE) /\ UNCHANGED mounted
    BY <1>6, <2>2 DEF FsUmount
  <2> QED
    BY <1>6, <2>1, <2>2, Zenon DEF FsUmount
<1>7. CASE QuotaOff
  BY <1>7 DEF QuotaOff
<1> QED
  BY <1>1, <1>2, <1>3, <1>4, <1>5, <1>6, <1>7 DEF FsStep

LEMMA StartStepInv ==
  ASSUME IInv, StartStep
  PROVE  FsInv' /\ EnvInv'
<1> USE DEF IInv, TypeOK, FsInv, EnvInv, Jobs, Backs, Envs, At, Goto, Call, Return, Exit, fsvars
<1>1. CASE Start
  BY <1>1 DEF Start
<1>2. CASE Restore
  BY <1>2 DEF Restore, RestoreFails
<1>3. CASE StartCustom
  <2>1. UNCHANGED <<env, mounted, quota, private>>
    BY <1>3 DEF StartCustom
  <2>2. CASE CustomFails
    BY <2>1, <2>2 DEF CustomFails, RestoreFails
  <2>3. CASE Call("umount", "mountck")
    BY <2>1, <2>3
  <2>4. CASE Goto("mountck")
    BY <2>1, <2>4
  <2> QED
    BY <1>3, <2>2, <2>3, <2>4, Zenon DEF StartCustom
<1>4. CASE MountForStart
  BY <1>4 DEF MountForStart
<1>5. CASE EarlyReturns
  <2>1. UNCHANGED <<env, mounted, quota, private>>
    BY <1>5 DEF EarlyReturns
  <2>2. CASE CustomFails
    BY <2>1, <2>2 DEF CustomFails, RestoreFails
  <2>3. CASE At("early") /\ job.ok /\ Goto("create")
    BY <2>1, <2>3
  <2> QED
    BY <1>5, <2>2, <2>3, Zenon DEF EarlyReturns
<1>6. CASE EnvCreate
  BY <1>6 DEF EnvCreate
<1>7. CASE SetupRes
  BY <1>7 DEF SetupRes
<1>8. CASE ReleaseChild
  BY <1>8 DEF ReleaseChild, EnvRuns
<1>9. CASE WaitFails
  BY <1>9 DEF WaitFails
<1>10. CASE Started
  BY <1>10 DEF Started
<1>11. CASE StartFailed
  BY <1>11 DEF StartFailed, EnvDies
<1>12. CASE FailReturns
  <2>1. UNCHANGED <<env, mounted, quota, private>> /\ CustomFails
    BY <1>12 DEF FailReturns
  <2> QED
    BY <2>1 DEF CustomFails, RestoreFails
<1> QED
  BY <1>1, <1>2, <1>3, <1>4, <1>5, <1>6, <1>7, <1>8, <1>9, <1>10, <1>11, <1>12 DEF StartStep

LEMMA StopStepInv ==
  ASSUME IInv, StopStep
  PROVE  FsInv' /\ EnvInv'
<1> USE DEF IInv, TypeOK, FsInv, EnvInv, Jobs, Backs, Envs, At, Goto, Call, Return, Exit, fsvars
<1>1. CASE Restart
  BY <1>1 DEF Restart
<1>2. CASE Stop
  BY <1>2 DEF Stop, StopReturns
<1>3. CASE GetVpsIp
  BY <1>3 DEF GetVpsIp
<1>4. CASE EnvStop
  BY <1>4 DEF EnvStop, EnvDies, StopReturns
<1>5. CASE StopNet
  BY <1>5 DEF StopNet, StopReturns
<1>6. CASE Stopped
  BY <1>6 DEF Stopped, StopReturns
<1> QED
  BY <1>1, <1>2, <1>3, <1>4, <1>5, <1>6 DEF StopStep

LEMMA CptStepInv ==
  ASSUME IInv, CptStep
  PROVE  FsInv' /\ EnvInv'
<1> USE DEF IInv, TypeOK, FsInv, EnvInv, Jobs, Backs, Envs, At, Goto, Call, Return, Exit, fsvars
<1>1. CASE Suspend
  BY <1>1 DEF Suspend
<1>2. CASE CptSuspend
  BY <1>2 DEF CptSuspend
<1>3. CASE CptDump
  BY <1>3 DEF CptDump, EnvRuns
<1>4. CASE CptKill
  BY <1>4 DEF CptKill, EnvDies
<1>5. CASE SyncDump
  BY <1>5 DEF SyncDump
<1>6. CASE UnlinkDump
  BY <1>6 DEF UnlinkDump
<1>7. CASE CptNet
  BY <1>7 DEF CptNet
<1>8. CASE CptStage
  BY <1>8 DEF CptStage, EnvRuns, EnvDies
<1> QED
  BY <1>1, <1>2, <1>3, <1>4, <1>5, <1>6, <1>7, <1>8 DEF CptStep

LEMMA DirStepInv ==
  ASSUME IInv, DirStep
  PROVE  FsInv' /\ EnvInv'
<1> USE DEF IInv, TypeOK, FsInv, EnvInv, Jobs, Backs, Envs, At, Goto, Call, Return, Exit, fsvars
<1>1. CASE CreateCt
  BY <1>1 DEF CreateCt
<1>2. CASE CreateFs
  BY <1>2 DEF CreateFs
<1>3. CASE CreateMove
  BY <1>3 DEF CreateMove
<1>4. CASE CreateSave
  BY <1>4 DEF CreateSave
<1>5. CASE DestroyCheck
  BY <1>5 DEF DestroyCheck
<1>6. CASE DestroyDir
  BY <1>6 DEF DestroyDir
<1>7. CASE DestroyConf
  BY <1>7 DEF DestroyConf
<1>8. CASE DestroyDump
  BY <1>8 DEF DestroyDump
<1> QED
  BY <1>1, <1>2, <1>3, <1>4, <1>5, <1>6, <1>7, <1>8 DEF DirStep

\* A vzctl that begins is at the entry of its command, where nothing is claimed.
LEMMA BeginInv ==
  ASSUME NEW op \in Ops \union {"umount", "start"}, NEW by, NEW nomount,
         Begin(op, by, nomount)
  PROVE  /\ job'.pc \in {"cpt", "createct", "restore", "suspend", "destroy", "mount",
                         "umount", "start", "stop", "restart"}
         /\ job'.back = "exit"
<1>1. Entry(op) \in {"cpt", "createct", "restore", "suspend", "destroy", "mount",
                     "umount", "start", "stop", "restart"}
  BY OpsAssumption DEF Entry, AllOps
<1> QED
  BY <1>1 DEF Begin, Idle

\* The scripts touch nothing that is claimed, unless their vzctl begins.
LEMMA ScriptStepInv ==
  ASSUME IInv, ScriptStep
  PROVE  FsInv' /\ EnvInv'
<1>1. UNCHANGED <<env, mounted, quota, private>>
  BY DEF ScriptStep, ScriptCheck, ScriptPoll, ScriptUmount, ScriptStart,
         ScriptReadNet, ScriptClearNet, fsvars
<1>2. CASE UNCHANGED job
  BY <1>1, <1>2 DEF IInv, FsInv, EnvInv, At
<1>3. CASE \E op \in {"umount", "start"} : Begin(op, "script", FALSE)
  BY <1>1, <1>3, BeginInv DEF IInv, FsInv, EnvInv, At
<1> QED
  BY <1>2, <1>3, Zenon
     DEF ScriptStep, ScriptCheck, ScriptPoll, ScriptUmount, ScriptStart,
         ScriptReadNet, ScriptClearNet

LEMMA InvStep ==
  ASSUME IInv, [Next]_vars
  PROVE  FsInv' /\ EnvInv'
<1> USE DEF IInv, FsInv, EnvInv, At
<1>1. ASSUME NEW op \in Ops, Invoke(op) PROVE FsInv' /\ EnvInv'
  <2>1. PICK nomount \in BOOLEAN : Begin(op, "admin", nomount)
    BY <1>1 DEF Invoke
  <2>2. UNCHANGED <<env, mounted, quota, private>>
    BY <1>1 DEF Invoke, fsvars
  <2> QED
    BY <2>1, <2>2, BeginInv
<1>2. CASE FsStep \/ StartStep \/ StopStep \/ CptStep \/ DirStep
  BY <1>2, FsStepInv, StartStepInv, StopStepInv, CptStepInv, DirStepInv
<1>3. CASE Unlock \/ VzctlKilled
  BY <1>3 DEF Unlock, VzctlKilled, Idle, fsvars
<1>4. ASSUME NEW why \in SelfStop, SelfStops(why) PROVE FsInv' /\ EnvInv'
  BY <1>4 DEF SelfStops, EnvDies, fsvars
<1>5. CASE OrphanExits
  BY <1>5 DEF OrphanExits, EnvDies, fsvars
<1>6. ASSUME NEW e \in {"stop", "reboot"}, RunEventScript(e) PROVE FsInv' /\ EnvInv'
  BY <1>6 DEF RunEventScript, fsvars
<1>7. CASE ScriptStep
  BY <1>7, ScriptStepInv
<1>8. CASE HostCrash
  BY <1>8 DEF HostCrash, Idle
<1>9. CASE UNCHANGED vars
  BY <1>9 DEF vars
<1> QED
  BY <1>1, <1>2, <1>3, <1>4, <1>5, <1>6, <1>7, <1>8, <1>9 DEF Next, JobStep

LEMMA InvInductive == Spec => []IInv
<1>1. Init => IInv
  BY TypeInit DEF Init, IInv, FsInv, EnvInv, At, Idle
<1>2. IInv /\ [Next]_vars => IInv'
  BY TypeStep, InvStep DEF IInv
<1> QED
  BY <1>1, <1>2, PTL DEF Spec

(* Wherever a vzctl fails or is killed and whatever scripts run meanwhile,  *)
(* a container that exists has its root mounted over its private area.      *)
THEOREM RunningKeepsFs == Spec => []RunningHasFs
<1>1. IInv => RunningHasFs
  BY DEF IInv, FsInv, RunningHasFs
<1> QED
  BY <1>1, InvInductive, PTL

(* The quota of a container is on as long as its file system is mounted.    *)
THEOREM QuotaCoversMount == Spec => []MountedUnderQuota
<1>1. IInv => MountedUnderQuota
  BY DEF IInv, FsInv, MountedUnderQuota
<1> QED
  BY <1>1, InvInductive, PTL

-----------------------------------------------------------------------------
(* The checkpoint.  Its file is given up by the step that removes it, which *)
(* must know, at its place, that the file is no longer the only copy: the  *)
(* container has run since, is still there, or has no file system any more. *)

DumpInv ==
  /\ At("started") => dump # "fresh"
  /\ At("freeze") \/ At("dump") => dump = "partial"
  /\ At("unlinkdump") /\ dump = "fresh" => env = "frozen"
  /\ At("destroyconf") \/ At("destroydump") => dump # "fresh"

\* Mounts, unmounts and stops leave the dump file alone.
LEMMA OtherStepDump ==
  ASSUME IInv, DumpInv, FsStep \/ StopStep
  PROVE  DumpInv' /\ KeepsCheckpoint
<1>1. UNCHANGED dump
  BY DEF FsStep, StopStep, MountCheck, QuotaOn, FsMount, MountScripts, UmountCheck,
         FsUmount, QuotaOff, Restart, Stop, GetVpsIp, EnvStop, StopNet, Stopped
<1>2. job'.pc \in {"quotaon", "fsmount", "mounted", "fsumount", "quotaoff", "umount",
                   "start", "stop", "getip", "halt", "stopnet"} \union Backs
  <2> USE DEF IInv, TypeOK, Jobs, Backs, Goto, Call, Return, Exit, StopReturns
  <2>1. CASE FsStep
    BY <2>1 DEF FsStep, MountCheck, QuotaOn, FsMount, MountScripts, UmountCheck,
                FsUmount, QuotaOff
  <2>2. CASE StopStep
    BY <2>2 DEF StopStep, Restart, Stop, GetVpsIp, EnvStop, StopNet, Stopped
  <2> QED BY <2>1, <2>2
<1> QED
  BY <1>1, <1>2 DEF DumpInv, KeepsCheckpoint, At, Backs

LEMMA StartStepDump ==
  ASSUME IInv, DumpInv, StartStep
  PROVE  DumpInv' /\ KeepsCheckpoint
<1> USE DEF IInv, TypeOK, EnvInv, DumpInv, KeepsCheckpoint, Jobs, Backs, At, Goto, Call, Return, Exit
<1>1. CASE Start
  BY <1>1 DEF Start
<1>2. CASE Restore
  BY <1>2 DEF Restore, RestoreFails
<1>3. CASE StartCustom
  BY <1>3 DEF StartCustom, CustomFails, RestoreFails
<1>4. CASE MountForStart
  BY <1>4 DEF MountForStart
<1>5. CASE EarlyReturns
  BY <1>5 DEF EarlyReturns, CustomFails, RestoreFails
<1>6. CASE EnvCreate
  BY <1>6 DEF EnvCreate
<1>7. CASE SetupRes
  BY <1>7 DEF SetupRes
<1>8. CASE ReleaseChild
  BY <1>8 DEF ReleaseChild, EnvRuns, Outdated
<1>9. CASE WaitFails
  BY <1>9 DEF WaitFails
<1>10. CASE Started
  BY <1>10 DEF Started
<1>11. CASE StartFailed
  BY <1>11 DEF StartFailed, EnvDies
<1>12. CASE FailReturns
  BY <1>12 DEF FailReturns, CustomFails, RestoreFails
<1> QED
  BY <1>1, <1>2, <1>3, <1>4, <1>5, <1>6, <1>7, <1>8, <1>9, <1>10, <1>11, <1>12 DEF StartStep

LEMMA CptStepDump ==
  ASSUME IInv, DumpInv, CptStep
  PROVE  DumpInv' /\ KeepsCheckpoint
<1> USE DEF IInv, TypeOK, EnvInv, DumpInv, KeepsCheckpoint, Jobs, Backs, At, Goto, Call, Return, Exit
<1>1. CASE Suspend
  BY <1>1 DEF Suspend
<1>2. CASE CptSuspend
  BY <1>2 DEF CptSuspend
<1>3. CASE CptDump
  BY <1>3 DEF CptDump, EnvRuns, Outdated
<1>4. CASE CptKill
  BY <1>4 DEF CptKill, EnvDies
<1>5. CASE SyncDump
  BY <1>5 DEF SyncDump
<1>6. CASE UnlinkDump
  BY <1>6 DEF UnlinkDump
<1>7. CASE CptNet
  BY <1>7 DEF CptNet
<1>8. CASE CptStage
  BY <1>8 DEF CptStage, EnvRuns, EnvDies, Outdated
<1> QED
  BY <1>1, <1>2, <1>3, <1>4, <1>5, <1>6, <1>7, <1>8 DEF CptStep

LEMMA DirStepDump ==
  ASSUME IInv, DumpInv, DirStep
  PROVE  DumpInv' /\ KeepsCheckpoint
<1> USE DEF IInv, TypeOK, EnvInv, DumpInv, KeepsCheckpoint, Jobs, Backs, At, Goto, Call, Return, Exit
<1>1. CASE CreateCt
  BY <1>1 DEF CreateCt
<1>2. CASE CreateFs
  BY <1>2 DEF CreateFs
<1>3. CASE CreateMove
  BY <1>3 DEF CreateMove
<1>4. CASE CreateSave
  BY <1>4 DEF CreateSave
<1>5. CASE DestroyCheck
  BY <1>5 DEF DestroyCheck
<1>6. CASE DestroyDir
  BY <1>6 DEF DestroyDir, Outdated
<1>7. CASE DestroyConf
  BY <1>7 DEF DestroyConf
<1>8. CASE DestroyDump
  BY <1>8 DEF DestroyDump
<1> QED
  BY <1>1, <1>2, <1>3, <1>4, <1>5, <1>6, <1>7, <1>8 DEF DirStep

LEMMA ScriptStepDump ==
  ASSUME IInv, DumpInv, ScriptStep
  PROVE  DumpInv' /\ KeepsCheckpoint
<1>1. UNCHANGED <<env, dump>>
  BY DEF ScriptStep, ScriptCheck, ScriptPoll, ScriptUmount, ScriptStart,
         ScriptReadNet, ScriptClearNet
<1>2. CASE UNCHANGED job
  BY <1>1, <1>2 DEF DumpInv, KeepsCheckpoint, At
<1>3. CASE \E op \in {"umount", "start"} : Begin(op, "script", FALSE)
  BY <1>1, <1>3, BeginInv DEF DumpInv, KeepsCheckpoint, At
<1> QED
  BY <1>2, <1>3, Zenon
     DEF ScriptStep, ScriptCheck, ScriptPoll, ScriptUmount, ScriptStart,
         ScriptReadNet, ScriptClearNet

LEMMA DumpStep ==
  ASSUME IInv, DumpInv, [Next]_vars
  PROVE  DumpInv' /\ [KeepsCheckpoint]_vars
<1> USE DEF DumpInv, KeepsCheckpoint, At
<1>1. ASSUME NEW op \in Ops, Invoke(op) PROVE DumpInv' /\ KeepsCheckpoint
  <2>1. PICK nomount \in BOOLEAN : Begin(op, "admin", nomount)
    BY <1>1 DEF Invoke
  <2>2. UNCHANGED <<env, dump>>
    BY <1>1 DEF Invoke
  <2> QED
    BY <2>1, <2>2, BeginInv
<1>2. CASE FsStep \/ StartStep \/ StopStep \/ CptStep \/ DirStep
  BY <1>2, OtherStepDump, StartStepDump, CptStepDump, DirStepDump
<1>3. CASE Unlock \/ VzctlKilled
  BY <1>3 DEF Unlock, VzctlKilled, Idle
<1>4. ASSUME NEW why \in SelfStop, SelfStops(why) PROVE DumpInv' /\ KeepsCheckpoint
  BY <1>4 DEF SelfStops, EnvDies
<1>5. CASE OrphanExits
  BY <1>5 DEF OrphanExits, EnvDies
<1>6. ASSUME NEW e \in {"stop", "reboot"}, RunEventScript(e)
      PROVE DumpInv' /\ KeepsCheckpoint
  BY <1>6 DEF RunEventScript
<1>7. CASE ScriptStep
  BY <1>7, ScriptStepDump
<1>8. CASE HostCrash
  BY <1>8 DEF HostCrash, Idle, IInv, EnvInv
<1>9. CASE UNCHANGED vars
  BY <1>9 DEF vars
<1> QED
  BY <1>1, <1>2, <1>3, <1>4, <1>5, <1>6, <1>7, <1>8, <1>9 DEF Next, JobStep

(* No failure, kill or interleaving with the scripts makes vzctl throw away *)
(* the dump file of a container that is down, unless the container is just *)
(* resumed from it or destroyed, or the power fails before the file is     *)
(* synced.                                                                 *)
THEOREM CheckpointSurvives == Spec => CheckpointKept
<1>1. Init => DumpInv
  BY DEF Init, DumpInv, At, Idle
<1>2. IInv /\ DumpInv /\ [Next]_vars => DumpInv' /\ [KeepsCheckpoint]_vars
  BY DumpStep
<1> QED
  BY <1>1, <1>2, InvInductive, PTL DEF Spec, CheckpointKept
-----------------------------------------------------------------------------
(* The dump file and the file system.  A dump that the container has run   *)
(* past is in place only where the same vzctl is about to remove it, and   *)
(* so no restore finds one.  That holds as long as the vzctl of a          *)
(* successful start gets to its destroy_dump(): it is not killed, start    *)
(* --wait does not fail, and the unlink of vps_destroy() succeeds.         *)

Attended == ~CanCrash /\ "wait" \notin Faults /\ "unlink" \notin Faults

StaleInv ==
  /\ dump = "stale" => job.pc \in {"started", "destroyconf", "destroydump"}
  /\ env \in {"running", "frozen"} /\ dump # "none" =>
       job.pc \in {"started", "freeze", "dump", "cptkill", "unlinkdump"}

LEMMA StartStepStale ==
  ASSUME Attended, IInv, StaleInv, StartStep
  PROVE  StaleInv'
<1> USE DEF Attended, IInv, TypeOK, EnvInv, StaleInv, Fault,
            Jobs, Backs, At, Goto, Call, Return, Exit
<1>1. CASE Start
  BY <1>1 DEF Start
<1>2. CASE Restore
  BY <1>2 DEF Restore, RestoreFails
<1>3. CASE StartCustom
  BY <1>3 DEF StartCustom, CustomFails, RestoreFails
<1>4. CASE MountForStart
  BY <1>4 DEF MountForStart
<1>5. CASE EarlyReturns
  BY <1>5 DEF EarlyReturns, CustomFails, RestoreFails
<1>6. CASE EnvCreate
  BY <1>6 DEF EnvCreate
<1>7. CASE SetupRes
  BY <1>7 DEF SetupRes
<1>8. CASE ReleaseChild
  BY <1>8 DEF ReleaseChild, EnvRuns, Outdated
<1>9. CASE WaitFails
  BY <1>9 DEF WaitFails
<1>10. CASE Started
  BY <1>10 DEF Started
<1>11. CASE StartFailed
  BY <1>11 DEF StartFailed, EnvDies
<1>12. CASE FailReturns
  BY <1>12 DEF FailReturns, CustomFails, RestoreFails
<1> QED
  BY <1>1, <1>2, <1>3, <1>4, <1>5, <1>6, <1>7, <1>8, <1>9, <1>10, <1>11, <1>12 DEF StartStep

LEMMA CptStepStale ==
  ASSUME IInv, DumpInv, StaleInv, CptStep
  PROVE  StaleInv'
<1> USE DEF IInv, TypeOK, EnvInv, DumpInv, StaleInv,
            Jobs, Backs, At, Goto, Call, Return, Exit
<1>1. CASE Suspend
  BY <1>1 DEF Suspend
<1>2. CASE CptSuspend
  BY <1>2 DEF CptSuspend
\* The container that runs on after a failed dump leaves a partial file.
<1>3. CASE CptDump
  BY <1>3 DEF CptDump, EnvRuns, Outdated
<1>4. CASE CptKill
  BY <1>4 DEF CptKill, EnvDies
<1>5. CASE SyncDump
  BY <1>5 DEF SyncDump
<1>6. CASE UnlinkDump
  BY <1>6 DEF UnlinkDump
<1>7. CASE CptNet
  BY <1>7 DEF CptNet
\* A container that was frozen without a dump file has none to outdate.
<1>8. CASE CptStage
  BY <1>8 DEF CptStage, EnvRuns, EnvDies, Outdated
<1> QED
  BY <1>1, <1>2, <1>3, <1>4, <1>5, <1>6, <1>7, <1>8 DEF CptStep

LEMMA DirStepStale ==
  ASSUME Attended, IInv, StaleInv, DirStep
  PROVE  StaleInv'
<1> USE DEF Attended, IInv, TypeOK, StaleInv, Fault, Jobs, At, Goto, Exit
<1>1. CASE CreateCt \/ CreateFs \/ CreateMove \/ CreateSave \/ DestroyCheck
  BY <1>1 DEF CreateCt, CreateFs, CreateMove, CreateSave, DestroyCheck
<1>2. CASE DestroyDir
  BY <1>2 DEF DestroyDir, Outdated
<1>3. CASE DestroyConf
  BY <1>3 DEF DestroyConf
<1>4. CASE DestroyDump
  BY <1>4 DEF DestroyDump
<1> QED
  BY <1>1, <1>2, <1>3, <1>4 DEF DirStep

LEMMA StaleStep ==
  ASSUME Attended, IInv, DumpInv, StaleInv, [Next]_vars
  PROVE  StaleInv'
<1> USE DEF StaleInv, At
\* Who is at none of the places that StaleInv names has nothing to lose.
<1>1. CASE /\ env' = env \/ env' = "down"
           /\ UNCHANGED dump
           /\ job.pc \notin {"started", "destroyconf", "destroydump",
                             "freeze", "dump", "cptkill", "unlinkdump"}
  BY <1>1
<1>2. CASE FsStep
  BY <1>2, <1>1 DEF FsStep, MountCheck, QuotaOn, FsMount, MountScripts, UmountCheck,
                    FsUmount, QuotaOff
<1>3. CASE StopStep
  BY <1>3, <1>1 DEF StopStep, Restart, Stop, GetVpsIp, EnvStop, StopNet, Stopped, EnvDies
<1>4. CASE StartStep \/ CptStep \/ DirStep
  BY <1>4, StartStepStale, CptStepStale, DirStepStale
<1>5. CASE Unlock
  BY <1>5, <1>1 DEF Unlock
<1>6. ASSUME NEW op \in Ops, Invoke(op) PROVE StaleInv'
  BY <1>6, <1>1 DEF Invoke
<1>7. ASSUME NEW why \in SelfStop, SelfStops(why) PROVE StaleInv'
  BY <1>7 DEF SelfStops, EnvDies
<1>8. CASE OrphanExits
  BY <1>8 DEF OrphanExits, EnvDies
<1>9. CASE UNCHANGED <<env, dump, job>>
  BY <1>9
<1>10. ASSUME NEW e \in {"stop", "reboot"}, RunEventScript(e) PROVE StaleInv'
  BY <1>10, <1>9 DEF RunEventScript
<1>11. CASE ScriptUmount \/ ScriptStart
  <2>1. UNCHANGED <<env, dump>> /\ (At("idle") \/ UNCHANGED job)
    BY <1>11 DEF ScriptUmount, ScriptStart
  <2> QED
    BY <2>1, <1>1, <1>9
<1>12. CASE ScriptCheck \/ ScriptPoll \/ ScriptReadNet \/ ScriptClearNet
  BY <1>12, <1>9 DEF ScriptCheck, ScriptPoll, ScriptReadNet, ScriptClearNet
<1>13. ~VzctlKilled /\ ~HostCrash
  BY DEF Attended, VzctlKilled, HostCrash
<1>14. CASE UNCHANGED vars
  BY <1>14, <1>9 DEF vars
<1> QED
  BY <1>2, <1>3, <1>4, <1>5, <1>6, <1>7, <1>8, <1>10, <1>11, <1>12, <1>13, <1>14
     DEF Next, JobStep, ScriptStep

(* No sequence of commands, self-stops and scripts restores a container    *)
(* from a dump that its file system has gone past, as long as no vzctl is  *)
(* killed, no start --wait fails and vps_destroy() can unlink the dump.    *)
(* (Without the middle condition it does: see the run lifecycle_wait.)     *)
THEOREM NeverRestoresStale ==
  ASSUME Attended
  PROVE  Spec => []NoStaleRestore
<1>1. Init => DumpInv /\ StaleInv
  BY DEF Init, DumpInv, StaleInv, At, Idle
<1>2. IInv /\ DumpInv /\ StaleInv /\ [Next]_vars => (DumpInv /\ StaleInv)'
  BY DumpStep, StaleStep
<1>3. StaleInv => NoStaleRestore
  BY DEF StaleInv, NoStaleRestore, At
<1> QED
  BY <1>1, <1>2, <1>3, InvInductive, PTL DEF Spec

-----------------------------------------------------------------------------
(* The routes.  As long as a container is up its routes may be there; when *)
(* it goes down the event of its stop is queued, and from then on the duty *)
(* of removing them is somebody's: of the event, of the script that was    *)
(* run for it, or of whom that script has left it to (`deferred').  What   *)
(* the script finds in the address file then tells it the truth, unless    *)
(* the container was started again behind its back, which is `deferred'.   *)
(* vzevent-reboot, which leaves the network alone, is kept out by SelfStop.*)

\* The script has seen the container down.
PastPoll == script.at \in {"fs", "fswait", "net", "clear", "rm"}

\* The script will still look at the address file, or has and found routes.
WillClear == script.at \in {"check", "poll", "fs", "fswait", "net", "clear"}

RoutesInv ==
  /\ event \subseteq {"stop"}
  /\ script.kind = "stop" /\ script.at \notin {"start", "startwait"}
  /\ veips => env # "down"
  /\ routes => ipfile = "ip" \/ deferred
  /\ PastPoll /\ env # "down" => deferred
  /\ script.at = "rm" /\ routes => deferred
  /\ routes /\ env = "down" => deferred \/ "stop" \in event \/ WillClear

NoReboot == ~CanCrash /\ SelfStop \subseteq {"stop"}

LEMMA SameRoutes ==
  ASSUME RoutesInv, UNCHANGED <<netvars, evvars>>,
         env' = env \/ (env # "down" /\ env' # "down")
  PROVE  RoutesInv'
BY DEF RoutesInv, PastPoll, WillClear, netvars, evvars

LEMMA StopsRoutes ==
  ASSUME RoutesInv, EnvDies("stop"), UNCHANGED <<routes, ipfile, script, deferred>>
  PROVE  RoutesInv'
BY DEF RoutesInv, PastPoll, WillClear, EnvDies

LEMMA ClearsRoutes ==
  ASSUME RoutesInv, UNCHANGED <<env, veips, evvars>>, routes' = FALSE
  PROVE  RoutesInv'
BY DEF RoutesInv, PastPoll, WillClear, evvars

LEMMA StartStepRoutes ==
  ASSUME IInv, RoutesInv, StartStep
  PROVE  RoutesInv'
<1>1. CASE Start \/ Restore \/ StartCustom \/ MountForStart \/ EarlyReturns
           \/ WaitFails \/ Started \/ FailReturns
  BY <1>1, SameRoutes
     DEF Start, Restore, StartCustom, MountForStart, EarlyReturns, WaitFails,
         Started, FailReturns
\* A script that is at work when the container is made has lost its duty.
<1>2. CASE EnvCreate
  <2>1. CASE UNCHANGED <<env, deferred>>
    BY <1>2, <2>1, SameRoutes DEF EnvCreate, evvars
  <2>2. CASE env' = "created" /\ deferred' = (script # NoScript \/ (deferred /\ routes))
    <3>1. UNCHANGED <<netvars, event, script>>
      BY <1>2 DEF EnvCreate
    <3>2. PastPoll => deferred'
      <4>1. PastPoll => script # NoScript
        BY DEF PastPoll, NoScript
      <4> QED
        BY <2>2, <4>1, Zenon
    <3>3. deferred /\ routes => deferred'
      BY <2>2, Zenon
    <3> QED
      BY <2>2, <3>1, <3>2, <3>3 DEF RoutesInv, PastPoll, WillClear, netvars
  <2> QED
    BY <1>2, <2>1, <2>2, Zenon DEF EnvCreate
<1>3. CASE SetupRes
  <2>1. CASE UNCHANGED netvars
    BY <1>3, <2>1, SameRoutes DEF SetupRes
  <2>2. CASE veips' = TRUE /\ routes' = TRUE /\ ipfile' = "ip"
    <3>1. env = "created" /\ UNCHANGED <<env, evvars>>
      BY <1>3 DEF SetupRes, IInv, EnvInv, At
    <3> QED
      BY <2>2, <3>1 DEF RoutesInv, PastPoll, WillClear, evvars
  <2> QED
    BY <1>3, <2>1, <2>2, Zenon DEF SetupRes
<1>4. CASE ReleaseChild
  BY <1>4, SameRoutes DEF ReleaseChild, EnvRuns, IInv, EnvInv, At
<1>5. CASE StartFailed
  <2>1. CASE EnvDies("stop")
    BY <1>5, <2>1, StopsRoutes DEF StartFailed
  <2>2. CASE UNCHANGED <<env, veips, event>>
    BY <1>5, <2>2, SameRoutes DEF StartFailed, netvars, evvars
  <2> QED
    BY <1>5, <2>1, <2>2, Zenon DEF StartFailed
<1> QED
  BY <1>1, <1>2, <1>3, <1>4, <1>5 DEF StartStep

LEMMA StopStepRoutes ==
  ASSUME RoutesInv, StopStep
  PROVE  RoutesInv'
<1>1. CASE Restart \/ Stop \/ GetVpsIp \/ Stopped
  BY <1>1, SameRoutes DEF Restart, Stop, GetVpsIp, Stopped
<1>2. CASE EnvStop
  <2>1. CASE EnvDies("stop")
    BY <1>2, <2>1, StopsRoutes DEF EnvStop
  <2>2. CASE UNCHANGED <<env, veips, event>>
    BY <1>2, <2>2, SameRoutes DEF EnvStop, netvars, evvars
  <2> QED
    BY <1>2, <2>1, <2>2, Zenon DEF EnvStop
<1>3. CASE StopNet
  <2>1. UNCHANGED <<env, veips, evvars>>
    BY <1>3 DEF StopNet
  <2>2. CASE job.haveip
    BY <1>3, <2>1, <2>2, ClearsRoutes, Zenon DEF StopNet
  <2>3. CASE ~job.haveip
    <3>1. ipfile' = ipfile /\ (routes' => routes)
      BY <1>3, <2>3, Zenon DEF StopNet
    <3> QED
      BY <2>1, <3>1 DEF RoutesInv, PastPoll, WillClear, evvars
  <2> QED
    BY <2>2, <2>3
<1> QED
  BY <1>1, <1>2, <1>3 DEF StopStep

LEMMA CptStepRoutes ==
  ASSUME IInv, RoutesInv, CptStep
  PROVE  RoutesInv'
<1>1. CASE Suspend \/ CptSuspend \/ SyncDump \/ UnlinkDump
  BY <1>1, SameRoutes DEF Suspend, CptSuspend, SyncDump, UnlinkDump
<1>2. CASE CptDump
  BY <1>2, SameRoutes DEF CptDump, EnvRuns, IInv, EnvInv, At
<1>3. CASE CptKill
  <2>1. CASE EnvDies("stop")
    BY <1>3, <2>1, StopsRoutes DEF CptKill
  <2>2. CASE UNCHANGED <<env, veips, event>>
    BY <1>3, <2>2, SameRoutes DEF CptKill, netvars, evvars
  <2> QED
    BY <1>3, <2>1, <2>2, Zenon DEF CptKill
<1>4. CASE CptNet
  BY <1>4, ClearsRoutes DEF CptNet, NetDel
<1>5. CASE CptStage
  <2>1. UNCHANGED <<script, deferred>>
    BY <1>5 DEF CptStage
  <2>2. CASE UNCHANGED <<netvars, event>> /\ (env' = env \/ (env # "down" /\ env' # "down"))
    BY <2>1, <2>2, SameRoutes DEF evvars
  <2>3. CASE NetDel /\ UNCHANGED <<env, veips, event>>
    BY <2>1, <2>3, ClearsRoutes DEF NetDel, evvars
  <2>4. CASE /\ env # "down" /\ env' = "running" /\ routes' = TRUE /\ ipfile' = "ip"
             /\ UNCHANGED <<veips, event>>
    BY <2>1, <2>4 DEF RoutesInv, PastPoll, WillClear
  <2>5. CASE EnvDies("stop") /\ UNCHANGED <<routes, ipfile>>
    BY <2>1, <2>5, StopsRoutes
  <2> QED
    BY <1>5, <2>2, <2>3, <2>4, <2>5 DEF CptStage, EnvRuns, netvars
<1> QED
  BY <1>1, <1>2, <1>3, <1>4, <1>5 DEF CptStep

LEMMA ScriptStepRoutes ==
  ASSUME IInv, RoutesInv, ScriptStep
  PROVE  RoutesInv'
<1> USE DEF RoutesInv, PastPoll, WillClear, ScriptAt, ScriptGoto, ScriptEnds, NoScript
<1>0. script \in Scripts
  BY DEF IInv, TypeOK
<1>1. CASE ScriptCheck
  BY <1>0, <1>1 DEF ScriptCheck, Scripts, netvars
<1>2. CASE ScriptPoll
  BY <1>0, <1>2 DEF ScriptPoll, Scripts, netvars
<1>3. CASE ScriptUmount
  BY <1>0, <1>3 DEF ScriptUmount, AfterFs, Scripts, netvars
<1>4. CASE ScriptStart
  BY <1>4 DEF ScriptStart
<1>5. CASE ScriptReadNet
  <2>1. CASE ipfile = "none"
    BY <1>0, <1>5, <2>1 DEF ScriptReadNet, Scripts, netvars
  <2>2. CASE ipfile = "ip" /\ ~veips
    BY <1>0, <1>5, <2>2 DEF ScriptReadNet, Scripts, netvars
  <2>3. CASE ipfile # "none" /\ ~(ipfile = "ip" /\ ~veips)
    <3>1. ScriptAt("net") /\ ScriptGoto("rm") /\ UNCHANGED <<env, netvars, event, deferred>>
      BY <1>5, <2>3 DEF ScriptReadNet
    <3>2. routes => deferred
      BY <1>5, <2>3 DEF ScriptReadNet
    <3> QED
      BY <1>0, <3>1, <3>2 DEF Scripts, netvars
  <2> QED
    BY <2>1, <2>2, <2>3
<1>6. CASE ScriptClearNet
  <2>1. CASE ScriptAt("clear")
    <3>1. ~routes' /\ UNCHANGED <<env, veips, event, deferred>> /\ script' = NoScript
      BY <1>6, <2>1 DEF ScriptClearNet
    <3> QED
      BY <3>1
  <2>2. CASE ScriptAt("rm")
    <3>1. (routes' => routes) /\ UNCHANGED <<env, veips, event, deferred>> /\ script' = NoScript
      BY <1>6, <2>2 DEF ScriptClearNet
    <3> QED
      BY <2>2, <3>1
  <2> QED
    BY <1>6, <2>1, <2>2 DEF ScriptClearNet
<1> QED
  BY <1>1, <1>2, <1>3, <1>4, <1>5, <1>6 DEF ScriptStep

LEMMA RoutesStep ==
  ASSUME NoReboot, IInv, RoutesInv, [Next]_vars
  PROVE  RoutesInv'
<1>1. CASE FsStep \/ DirStep
  BY <1>1, SameRoutes
     DEF FsStep, MountCheck, QuotaOn, FsMount, MountScripts, UmountCheck, FsUmount, QuotaOff,
         DirStep, CreateCt, CreateFs, CreateMove, CreateSave, DestroyCheck, DestroyDir,
         DestroyConf, DestroyDump
<1>2. CASE StartStep \/ StopStep \/ CptStep
  BY <1>2, StartStepRoutes, StopStepRoutes, CptStepRoutes
\* The vzctl of a script ends: the script goes on to the network.
<1>3. CASE Unlock
  <2>1. script' = script \/ (script.at = "fswait" /\ script' = AfterFs(script))
    BY <1>3 DEF Unlock, Wakes, IInv, TypeOK, RoutesInv, Jobs
  <2>2. UNCHANGED <<env, netvars, event, deferred>>
    BY <1>3 DEF Unlock
  <2> QED
    BY <2>1, <2>2 DEF RoutesInv, PastPoll, WillClear, AfterFs, netvars, IInv, TypeOK, Scripts
<1>4. ASSUME NEW op \in Ops, Invoke(op) PROVE RoutesInv'
  BY <1>4, SameRoutes DEF Invoke
<1>5. ASSUME NEW why \in SelfStop, SelfStops(why) PROVE RoutesInv'
  BY <1>5, StopsRoutes DEF SelfStops, NoReboot
<1>6. CASE OrphanExits
  BY <1>6, StopsRoutes DEF OrphanExits
<1>7. ASSUME NEW e \in {"stop", "reboot"}, RunEventScript(e) PROVE RoutesInv'
  BY <1>7 DEF RunEventScript, RoutesInv, PastPoll, WillClear, NoScript, netvars
<1>8. CASE ScriptStep
  BY <1>8, ScriptStepRoutes
<1>9. ~VzctlKilled /\ ~HostCrash
  BY DEF NoReboot, VzctlKilled, HostCrash
<1>10. CASE UNCHANGED vars
  BY <1>10, SameRoutes DEF vars, netvars, evvars
<1> QED
  BY <1>1, <1>2, <1>3, <1>4, <1>5, <1>6, <1>7, <1>8, <1>9, <1>10 DEF Next, JobStep

(* Whatever fails and however vzctl and the scripts interleave, the routes *)
(* of a container that is down outlive its script only when that left them *)
(* to a vzctl, gave up, or met a new start.  (vzctl is not killed and the  *)
(* container does not reboot by itself: the reboot script leaves them.)    *)
THEOREM RoutesCleared ==
  ASSUME NoReboot
  PROVE  Spec => []RoutesLeftOnlyIfDeferred
<1>1. Init => RoutesInv
  BY DEF Init, RoutesInv, PastPoll, WillClear, NoScript
<1>2. IInv /\ RoutesInv /\ [Next]_vars => RoutesInv'
  BY RoutesStep
<1>3. RoutesInv => RoutesLeftOnlyIfDeferred
  BY DEF RoutesInv, RoutesLeftOnlyIfDeferred, Quiet, WillClear, NoScript
<1> QED
  BY <1>1, <1>2, <1>3, InvInductive, PTL DEF Spec

-----------------------------------------------------------------------------
(* The refinement of CtStatus.  Most steps change none of the three words; *)
(* the others find the words that the place of the job promises.           *)

StatusStep == Status!Next \/ UNCHANGED Status!vars

LEMMA QuietStep ==
  ASSUME UNCHANGED <<private, mounted>>, env' = "down" <=> env = "down"
  PROVE  StatusStep
BY DEF StatusStep, Status!vars

LEMMA StopsStep ==
  ASSUME UNCHANGED <<private, mounted>>, env # "down", env' = "down"
  PROVE  StatusStep
BY DEF StatusStep, Status!Next, Status!Stop

LEMMA FsStepStatus ==
  ASSUME IInv, FsStep
  PROVE  StatusStep
<1> USE DEF IInv, TypeOK, FsInv, At, fsvars
<1>1. CASE MountCheck \/ QuotaOn \/ MountScripts \/ UmountCheck \/ QuotaOff
  BY <1>1, QuietStep DEF MountCheck, QuotaOn, MountScripts, UmountCheck, QuotaOff
<1>2. CASE FsMount
  <2>1. UNCHANGED <<env, private>> /\ At("fsmount") /\ mounted' \in BOOLEAN
    BY <1>2 DEF FsMount
  <2>2. CASE mounted' = TRUE
    BY <2>1, <2>2 DEF StatusStep, Status!Next, Status!Mount
  <2>3. CASE mounted' = FALSE
    BY <2>1, <2>3, QuietStep
  <2> QED
    BY <2>1, <2>2, <2>3
<1>3. CASE FsUmount
  <2>1. UNCHANGED <<env, private>>
    BY <1>3 DEF FsUmount
  <2>2. CASE mounted' = mounted
    BY <2>1, <2>2, QuietStep
  <2>3. CASE mounted' = FALSE /\ env = "down" /\ mounted = TRUE
    BY <2>1, <2>3 DEF StatusStep, Status!Next, Status!Umount
  <2> QED
    BY <1>3, <2>2, <2>3 DEF FsUmount
<1> QED
  BY <1>1, <1>2, <1>3 DEF FsStep

LEMMA StartStepStatus ==
  ASSUME IInv, StartStep
  PROVE  StatusStep
<1> USE DEF IInv, TypeOK, FsInv, EnvInv, At, fsvars
<1>1. UNCHANGED <<private, mounted>>
  BY DEF StartStep, Start, Restore, StartCustom, MountForStart, EarlyReturns, EnvCreate,
         SetupRes, ReleaseChild, WaitFails, Started, StartFailed, FailReturns
<1>2. CASE Start \/ Restore \/ StartCustom \/ MountForStart \/ EarlyReturns
           \/ SetupRes \/ WaitFails \/ Started \/ FailReturns
  BY <1>1, <1>2, QuietStep
     DEF Start, Restore, StartCustom, MountForStart, EarlyReturns, SetupRes,
         WaitFails, Started, FailReturns
<1>3. CASE EnvCreate
  <2>1. mounted = TRUE
    BY <1>3 DEF EnvCreate
  <2>2. CASE env' = "created" /\ env = "down"
    BY <1>1, <2>1, <2>2 DEF StatusStep, Status!Next, Status!Start
  <2>3. CASE (env' = "created" /\ env # "down") \/ env' = env
    BY <1>1, <2>3, QuietStep
  <2> QED
    BY <1>3, <2>2, <2>3 DEF EnvCreate
<1>4. CASE ReleaseChild
  BY <1>1, <1>4, QuietStep DEF ReleaseChild, EnvRuns
<1>5. CASE StartFailed
  <2>1. (env # "down" /\ env' = "down") \/ env' = env
    BY <1>5 DEF StartFailed, EnvDies
  <2> QED
    BY <1>1, <2>1, QuietStep, StopsStep
<1> QED
  BY <1>2, <1>3, <1>4, <1>5 DEF StartStep

LEMMA StopCptStepStatus ==
  ASSUME IInv, StopStep \/ CptStep
  PROVE  StatusStep
<1> USE DEF IInv, TypeOK, FsInv, EnvInv, At, fsvars
<1>1. UNCHANGED <<private, mounted>>
  BY DEF StopStep, CptStep, Restart, Stop, GetVpsIp, EnvStop, StopNet, Stopped, Suspend,
         CptSuspend, CptDump, CptKill, SyncDump, UnlinkDump, CptNet, CptStage
<1>2. (env # "down" /\ env' = "down") \/ (env' = "down" <=> env = "down")
  BY DEF StopStep, CptStep, Restart, Stop, GetVpsIp, EnvStop, StopNet, Stopped, Suspend,
         CptSuspend, CptDump, CptKill, SyncDump, UnlinkDump, CptNet, CptStage,
         EnvDies, EnvRuns
<1> QED
  BY <1>1, <1>2, QuietStep, StopsStep

LEMMA DirStepStatus ==
  ASSUME IInv, DirStep
  PROVE  StatusStep
<1> USE DEF IInv, TypeOK, FsInv, At, fsvars
<1>1. UNCHANGED <<env, mounted>>
  BY DEF DirStep, CreateCt, CreateFs, CreateMove, CreateSave, DestroyCheck, DestroyDir,
         DestroyConf, DestroyDump
<1>2. CASE private' = private
  BY <1>1, <1>2, QuietStep
<1>3. CASE private = TRUE /\ private' = FALSE
  <2>1. mounted = FALSE /\ env = "down"
    BY <1>3 DEF DirStep, CreateCt, CreateFs, CreateMove, CreateSave, DestroyCheck, DestroyDir,
                DestroyConf, DestroyDump
  <2> QED
    BY <1>1, <1>3, <2>1 DEF StatusStep, Status!Next, Status!Destroy
<1>4. CASE private = FALSE /\ private' = TRUE
  BY <1>1, <1>4 DEF StatusStep, Status!Next, Status!Create
<1>5. private' \in BOOLEAN
  BY DEF DirStep, CreateCt, CreateFs, CreateMove, CreateSave, DestroyCheck, DestroyDir,
         DestroyConf, DestroyDump
<1> QED
  BY <1>2, <1>3, <1>4, <1>5

LEMMA NextStatus ==
  ASSUME IInv, [Next]_vars
  PROVE  StatusStep
<1>1. CASE FsStep \/ StartStep \/ StopStep \/ CptStep \/ DirStep
  BY <1>1, FsStepStatus, StartStepStatus, StopCptStepStatus, DirStepStatus
<1>2. CASE Unlock \/ VzctlKilled \/ ScriptStep
  <2>1. UNCHANGED <<private, mounted, env>>
    BY <1>2 DEF Unlock, VzctlKilled, ScriptStep, ScriptCheck, ScriptPoll, ScriptUmount,
                ScriptStart, ScriptReadNet, ScriptClearNet, fsvars
  <2> QED
    BY <2>1, QuietStep
<1>3. ASSUME NEW op \in Ops, Invoke(op) PROVE StatusStep
  BY <1>3, QuietStep DEF Invoke, fsvars
<1>4. ASSUME NEW why \in SelfStop, SelfStops(why) PROVE StatusStep
  BY <1>4, StopsStep DEF SelfStops, EnvDies, fsvars
<1>5. CASE OrphanExits
  BY <1>5, StopsStep DEF OrphanExits, EnvDies, fsvars
<1>6. ASSUME NEW e \in {"stop", "reboot"}, RunEventScript(e) PROVE StatusStep
  BY <1>6, QuietStep DEF RunEventScript, fsvars
<1>7. CASE HostCrash
  BY <1>7 DEF HostCrash, StatusStep, Status!Next, Status!PowerLoss
<1>8. CASE UNCHANGED vars
  BY <1>8, QuietStep DEF vars, fsvars
<1> QED
  BY <1>1, <1>2, <1>3, <1>4, <1>5, <1>6, <1>7, <1>8 DEF Next, JobStep

(* VpsLifecycle implements CtStatus: whatever fails or is killed, the words *)
(* of `vzctl status' change one at a time, and no container is started on  *)
(* an unmounted root, unmounted while it runs, or destroyed while mounted. *)
THEOREM StatusImplemented == Spec => StatusInOrder
<1>1. Init => Status!Init
  BY DEF Init, Status!Init
<1>2. IInv /\ [Next]_vars => [Status!Next]_Status!vars
  BY NextStatus DEF StatusStep
<1> QED
  BY <1>1, <1>2, InvInductive, PTL DEF Spec, StatusInOrder, Status!Spec
=============================================================================
