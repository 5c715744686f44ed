------------------------------- MODULE CtEnv -------------------------------
(***************************************************************************)
(* A container on a kernel without the OpenVZ patches                      *)
(* (src/lib/hooks_ct.c, cgroup.c, and the part of env.c that starts and    *)
(* kills it).  Four kinds of processes meet here:                          *)
(*                                                                         *)
(*   vzctl     starts or kills the container, holding its lock;            *)
(*   creator   the child of vzctl that makes the cgroup, joins it and      *)
(*             clones the container's init into new namespaces;            *)
(*   init      waits for its user mapping, then for vzctl to set the       *)
(*             container up, then executes /sbin/init;                     *)
(*   entrants  `vzctl exec' and `vzctl enter': they take no lock, find any *)
(*             task of the cgroup, and join the cgroup and its namespaces. *)
(*                                                                         *)
(* They are tied together by pipes: a status pipe that is read until every *)
(* writer has closed it, a wait pipe whose end of file means "give up", a  *)
(* user-namespace pipe, and an error pipe that the exec of init closes.    *)
(***************************************************************************)
EXTENDS FiniteSets

CONSTANTS Inits,      \* the init processes that may be cloned, one per start
          Entrants,   \* the processes of `vzctl exec' and `vzctl enter'
          Faults      \* the steps that may fail

VARIABLES
  pc,         \* the step of the vzctl that holds the lock
  ret,        \* how its last command ended
  userns,     \* the container has a LOCAL_UID and the kernel user namespaces
  creator,    \* the step of the creator
  init,       \* the step of each init
  cur,        \* the init that the current start has cloned
  cgroup,     \* the cgroup of the container exists
  tasks,      \* the processes in it
  statefile,  \* the pid in the state file, "empty" or "absent"
  link,       \* the init whose network namespace NETNS_RUN_DIR/CTID names
  status,     \* an error code waits in the status pipe
  waitp,      \* what vzctl did with the wait pipe: "open", "go" or "closed"
  mapped,     \* the inits whose user-namespace pipe has been written to
  err,        \* init has reported that it could not be executed
  ent         \* each entrant: its step, the task it found, what it joined

vars == <<pc, ret, userns, creator, init, cur, cgroup, tasks, statefile, link,
          status, waitp, mapped, err, ent>>

filevars == <<statefile, link>>
pipevars == <<status, waitp, mapped, err>>

Nothing == "none"
Gone == {"none", "gone"}
(* A process that exits has closed its files before it leaves its cgroup.  *)
Closed == Gone \cup {"exiting"}

Idle == [st |-> "idle", ref |-> Nothing, ns |-> Nothing]

Init ==
  /\ pc = "idle" /\ ret = Nothing
  /\ userns \in BOOLEAN
  /\ creator = "gone" /\ cur = Nothing
  /\ init = [i \in Inits |-> "none"]
  /\ cgroup = FALSE /\ tasks = {}
  /\ statefile = "absent" /\ link = "absent"
  /\ status = FALSE /\ waitp = "open" /\ mapped = {} /\ err = FALSE
  /\ ent = [e \in Entrants |-> Idle]

----------------------------------------------------------------------------
(* The cgroup.                                                             *)

(* The container runs when its cgroup holds a task, whoever that is.       *)
IsRunning == tasks # {}

(* Every task of the cgroup is sent SIGKILL.                               *)
KillTasks ==
  /\ init' = [i \in Inits |-> IF i \in tasks THEN "exiting" ELSE init[i]]
  /\ ent' = [e \in Entrants |-> IF e \in tasks THEN [ent[e] EXCEPT !.st = "exiting"]
                                               ELSE ent[e]]

(* libcgroup deletes a cgroup after it has moved the tasks to the parent.  *)
DestroyContainer == cgroup' = FALSE /\ tasks' = {}

----------------------------------------------------------------------------
(* vzctl: start.                                                           *)

Start ==
  /\ pc = "idle" /\ creator = "gone"
  /\ \E i \in Inits : init[i] = "none"
  /\ IF IsRunning
       THEN ret' = "running" /\ UNCHANGED <<pc, creator, cur, pipevars>>
       ELSE /\ pc' = "status" /\ ret' = Nothing
            /\ creator' = "sweep" /\ cur' = Nothing
            /\ status' = FALSE /\ waitp' = "open" /\ err' = FALSE
            /\ UNCHANGED mapped
  /\ UNCHANGED <<userns, init, cgroup, tasks, filevars, ent>>

(* The creator has closed its end of the status pipe after the clone.     *)
MutStatusClosed ==
  /\ cur \in Inits
  /\ init[cur] \in Closed \cup {"waiting"}

(* Everybody who holds the write end of the status pipe has closed it.     *)
StatusClosed ==
  /\ creator \in Closed
  /\ cur \in Inits => init[cur] \in Closed \cup {"waiting"}

ReadStatus ==
  /\ pc = "status"
  /\ \/ status /\ pc' = "fail"
     \/ ~status /\ StatusClosed /\ pc' = "setup"
  /\ UNCHANGED <<ret, userns, creator, init, cur, cgroup, tasks, filevars, pipevars, ent>>

(* The CPU settings, which are always given, need a running container.     *)
SetupRes ==
  /\ pc = "setup"
  /\ \/ IsRunning /\ pc' = "release"
     \/ ~IsRunning /\ pc' = "fail"
     \/ "setup" \in Faults /\ pc' = "fail"
  /\ UNCHANGED <<ret, userns, creator, init, cur, cgroup, tasks, filevars, pipevars, ent>>

ReleaseInit ==
  /\ pc = "release"
  /\ pc' = "err" /\ waitp' = "go"
  /\ UNCHANGED <<ret, userns, creator, init, cur, cgroup, tasks, filevars,
                 status, mapped, err, ent>>

(* init closes the error pipe by executing /sbin/init or by exiting.       *)
ReadErr ==
  /\ pc = "err"
  /\ \/ err /\ pc' = "fail" /\ UNCHANGED ret
     \/ /\ ~err /\ creator \in Closed
        /\ init[cur] \in Closed \cup {"running"}
        /\ pc' = "idle" /\ ret' = "ok"
  /\ UNCHANGED <<userns, creator, init, cur, cgroup, tasks, filevars, pipevars, ent>>

StartFails ==
  /\ pc = "fail"
  /\ waitp' = IF waitp = "open" THEN "closed" ELSE waitp
  /\ IF IsRunning THEN pc' = "kill" /\ ret' = "error"
                  ELSE pc' = "idle" /\ ret' = "error"
  /\ UNCHANGED <<userns, creator, init, cur, cgroup, tasks, filevars,
                 status, mapped, err, ent>>

----------------------------------------------------------------------------
(* vzctl: stop --fast, and the end of a start that failed.                 *)

Stop ==
  /\ pc = "idle"
  /\ ret' = "stopped"
  /\ pc' = IF IsRunning THEN "kill" ELSE "idle"
  /\ UNCHANGED <<userns, creator, init, cur, cgroup, tasks, filevars, pipevars, ent>>

Kill ==
  /\ pc = "kill"
  /\ pc' = "empty" /\ KillTasks
  /\ UNCHANGED <<ret, userns, creator, cur, cgroup, tasks, filevars, pipevars>>

(* hackish_empty_container() waits for the tasks to die; when it gives up, *)
(* ct_destroy() leaves the files and the cgroup, and env_stop() goes on.   *)
Destroy ==
  /\ pc = "empty"
  /\ \/ /\ ~IsRunning
        /\ statefile' = "absent" /\ link' = "absent" /\ DestroyContainer
     \/ IsRunning /\ UNCHANGED <<filevars, cgroup, tasks>>
  /\ pc' = "wait"
  /\ UNCHANGED <<ret, userns, creator, init, cur, pipevars, ent>>

WaitStopped ==
  /\ pc = "wait"
  /\ pc' = "idle"
  /\ ret' = IF IsRunning /\ ret = "stopped" THEN "timeout" ELSE ret
  /\ UNCHANGED <<userns, creator, init, cur, cgroup, tasks, filevars, pipevars, ent>>

----------------------------------------------------------------------------
(* The creator.                                                            *)

CreatorAt(from, to) == creator = from /\ creator' = to

(* What an earlier run of the container left is killed and removed; the    *)
(* failure of that is not fatal.                                           *)
Sweep ==
  /\ CreatorAt("sweep", "cleanup") /\ KillTasks
  /\ UNCHANGED <<pc, ret, userns, cur, cgroup, tasks, filevars, pipevars>>

Cleanup ==
  /\ CreatorAt("cleanup", "create")
  /\ \/ ~IsRunning /\ DestroyContainer /\ statefile' = "absent"
     \/ IsRunning /\ UNCHANGED <<cgroup, tasks, statefile>>
  /\ link' = "absent"
  /\ UNCHANGED <<pc, ret, userns, init, cur, pipevars, ent>>

CreateContainer ==
  /\ \/ CreatorAt("create", "join") /\ cgroup' = TRUE
     \/ "create" \in Faults /\ CreatorAt("create", "report") /\ UNCHANGED cgroup
  /\ UNCHANGED <<pc, ret, userns, init, cur, tasks, filevars, pipevars, ent>>

AddCreator ==
  /\ CreatorAt("join", "open")
  /\ tasks' = tasks \cup {"creator"}
  /\ UNCHANGED <<pc, ret, userns, init, cur, cgroup, filevars, pipevars, ent>>

OpenStateFile ==
  /\ \/ CreatorAt("open", "clone") /\ statefile' = "empty"
     \/ "open" \in Faults /\ CreatorAt("open", "report") /\ UNCHANGED statefile
  /\ UNCHANGED <<pc, ret, userns, init, cur, cgroup, tasks, link, pipevars, ent>>

Clone ==
  /\ \/ /\ CreatorAt("clone", "pid")
        /\ \E i \in Inits :
             /\ init[i] = "none" /\ cur' = i
             /\ init' = [init EXCEPT ![i] = IF userns THEN "mapping" ELSE "setup"]
             /\ tasks' = IF "creator" \in tasks THEN tasks \cup {i} ELSE tasks
        /\ UNCHANGED cgroup
     \/ /\ "clone" \in Faults /\ CreatorAt("clone", "report")
        /\ DestroyContainer /\ UNCHANGED <<cur, init>>
  /\ UNCHANGED <<pc, ret, userns, filevars, pipevars, ent>>

WritePid ==
  /\ CreatorAt("pid", IF userns THEN "map" ELSE "link")
  /\ statefile' = cur
  /\ UNCHANGED <<pc, ret, userns, init, cur, cgroup, tasks, link, pipevars, ent>>

(* The user mapping is written, and init is told so.                       *)
MapUsers ==
  /\ \/ /\ CreatorAt("map", "link") /\ mapped' = mapped \cup {cur}
        /\ UNCHANGED <<cgroup, tasks>>
     \/ /\ "mapping" \in Faults
        /\ CreatorAt("map", "report") /\ DestroyContainer /\ UNCHANGED mapped
  /\ UNCHANGED <<pc, ret, userns, init, cur, filevars, status, waitp, err, ent>>

LinkNetns ==
  /\ \/ /\ link = "absent" /\ link' = cur
        /\ CreatorAt("link", "exiting") /\ UNCHANGED <<cgroup, tasks>>
     \/ /\ "link" \in Faults \/ link # "absent"
        /\ CreatorAt("link", "report") /\ DestroyContainer /\ UNCHANGED link
  /\ UNCHANGED <<pc, ret, userns, init, cur, statefile, pipevars, ent>>

Report ==
  /\ CreatorAt("report", "exiting")
  /\ status' = TRUE
  /\ UNCHANGED <<pc, ret, userns, init, cur, cgroup, tasks, filevars,
                 waitp, mapped, err, ent>>

CreatorExits ==
  /\ CreatorAt("exiting", "gone")
  /\ tasks' = tasks \ {"creator"}
  /\ UNCHANGED <<pc, ret, userns, init, cur, cgroup, filevars, pipevars, ent>>

----------------------------------------------------------------------------
(* init.                                                                   *)

InitAt(i, from, to) == init[i] = from /\ init' = [init EXCEPT ![i] = to]

OthersUnchanged ==
  UNCHANGED <<pc, ret, userns, creator, cur, cgroup, filevars, ent>>

(* The mapping: init itself holds a write end of the pipe it reads, so the *)
(* read never ends with the end of the file.                               *)
ReadUserns(i) ==
  /\ i \in mapped /\ InitAt(i, "mapping", "setup")
  /\ UNCHANGED <<tasks, pipevars>> /\ OthersUnchanged

SetupInit(i) ==
  /\ \/ InitAt(i, "setup", "waiting")
     \/ "root" \in Faults /\ InitAt(i, "setup", "exiting")
  /\ UNCHANGED <<tasks, pipevars>> /\ OthersUnchanged

(* The creator has left its write end of the wait pipe open.               *)
MutWaitEof(i) == FALSE

WaitEof(i) == i # cur \/ waitp = "closed"

(* The read is not tested for the end of the file.                         *)
MutReadWait(i) ==
  /\ WaitEof(i) \/ (i = cur /\ waitp = "go")
  /\ InitAt(i, "waiting", "exec")
  /\ UNCHANGED <<tasks, pipevars>> /\ OthersUnchanged

ReadWait(i) ==
  /\ \/ i = cur /\ waitp = "go" /\ InitAt(i, "waiting", "exec")
     \/ WaitEof(i) /\ InitAt(i, "waiting", "exiting")
  /\ UNCHANGED <<tasks, pipevars>> /\ OthersUnchanged

ExecInit(i) ==
  /\ \/ InitAt(i, "exec", "running") /\ UNCHANGED err
     \/ "template" \in Faults /\ InitAt(i, "exec", "exiting") /\ err' = TRUE
  /\ UNCHANGED <<tasks, status, waitp, mapped>> /\ OthersUnchanged

(* halt, from inside or by the `vzctl stop' that enters the container.     *)
Halts(i) ==
  /\ InitAt(i, "running", "exiting")
  /\ UNCHANGED <<tasks, pipevars>> /\ OthersUnchanged

InitExits(i) ==
  /\ InitAt(i, "exiting", "gone")
  /\ tasks' = tasks \ {i}
  /\ UNCHANGED pipevars /\ OthersUnchanged

----------------------------------------------------------------------------
(* Entrants.                                                               *)

EntAt(e, from, to) == ent[e].st = from /\ ent' = [ent EXCEPT ![e].st = to]

RestUnchanged == UNCHANGED <<pc, ret, userns, creator, init, cur, cgroup, filevars, pipevars>>

(* Any task of the cgroup is taken for one of the container.               *)
GetPid(e) ==
  /\ ent[e].st = "idle"
  /\ \E t \in tasks : ent' = [ent EXCEPT ![e] = [st |-> "join", ref |-> t, ns |-> Nothing]]
  /\ UNCHANGED tasks /\ RestUnchanged

JoinCgroup(e) ==
  /\ \/ cgroup /\ EntAt(e, "join", "setns") /\ tasks' = tasks \cup {e}
     \/ ~cgroup /\ EntAt(e, "join", "exiting") /\ UNCHANGED tasks
  /\ RestUnchanged

(* The namespaces a task lives in: those of its init, of the host, or, for *)
(* another entrant, all it has joined but the pid namespace.               *)
NamespacesOf(t) ==
  CASE t \in Inits /\ init[t] \notin Closed -> t
    [] t = "creator" /\ creator \notin Closed -> "host"
    [] t \in Entrants /\ ent[t].st = "setns" -> "host"
    [] t \in Entrants /\ ent[t].st = "in" -> "partly"
    [] OTHER -> Nothing

SetNs(e) ==
  LET ns == NamespacesOf(ent[e].ref)
  IN  /\ ent[e].st = "setns"
      /\ ent' = [ent EXCEPT ![e].st = IF ns = Nothing THEN "exiting" ELSE "in",
                            ![e].ns = ns]
      /\ UNCHANGED tasks /\ RestUnchanged

CommandEnds(e) ==
  /\ EntAt(e, "in", "exiting")
  /\ UNCHANGED tasks /\ RestUnchanged

EntrantExits(e) ==
  /\ ent[e].st = "exiting"
  /\ ent' = [ent EXCEPT ![e] = Idle]
  /\ tasks' = tasks \ {e}
  /\ RestUnchanged

----------------------------------------------------------------------------
VzctlStep == ReadStatus \/ SetupRes \/ ReleaseInit \/ ReadErr \/ StartFails
             \/ Kill \/ Destroy \/ WaitStopped

CreatorStep == Sweep \/ Cleanup \/ CreateContainer \/ AddCreator \/ OpenStateFile
               \/ Clone \/ WritePid \/ MapUsers \/ LinkNetns \/ Report \/ CreatorExits

InitStep(i) == ReadUserns(i) \/ SetupInit(i) \/ ReadWait(i) \/ ExecInit(i) \/ InitExits(i)

EntrantStep(e) == JoinCgroup(e) \/ SetNs(e) \/ CommandEnds(e) \/ EntrantExits(e)

Next == \/ Start \/ Stop \/ VzctlStep \/ CreatorStep
        \/ \E i \in Inits : InitStep(i) \/ Halts(i)
        \/ \E e \in Entrants : GetPid(e) \/ EntrantStep(e)

Spec == Init /\ [][Next]_vars

(* Every process runs until it blocks; a container need not halt and a     *)
(* command need not end.                                                   *)
Fairness ==
  /\ WF_vars(VzctlStep) /\ WF_vars(CreatorStep)
  /\ \A i \in Inits : WF_vars(InitStep(i))
  /\ \A e \in Entrants : WF_vars(JoinCgroup(e) \/ SetNs(e) \/ EntrantExits(e))

FairSpec == Spec /\ Fairness
----------------------------------------------------------------------------
InitSteps == {"none", "mapping", "setup", "waiting", "exec", "running", "exiting", "gone"}

(* Type correctness of the processes, the cgroup, the pipes and the files. *)
TypeOK ==
  /\ pc \in {"idle", "status", "setup", "release", "err", "fail", "kill", "empty", "wait"}
  /\ ret \in {Nothing, "ok", "error", "running", "stopped", "timeout"}
  /\ userns \in BOOLEAN /\ cgroup \in BOOLEAN
  /\ creator \in {"gone", "sweep", "cleanup", "create", "join", "open", "clone", "pid",
                   "map", "link", "report", "exiting"}
  /\ init \in [Inits -> InitSteps] /\ cur \in Inits \cup {Nothing}
  /\ tasks \subseteq Inits \cup Entrants \cup {"creator"}
  /\ statefile \in Inits \cup {"absent", "empty"} /\ link \in Inits \cup {"absent"}
  /\ status \in BOOLEAN /\ mapped \subseteq Inits /\ err \in BOOLEAN
  /\ waitp \in {"open", "go", "closed"}
  /\ \A e \in Entrants :
       /\ ent[e].st \in {"idle", "join", "setns", "in", "exiting"}
       /\ ent[e].ref \in Inits \cup Entrants \cup {Nothing, "creator"}
       /\ ent[e].ns \in Inits \cup {Nothing, "host", "partly"}

(* While no command is under way, the init that runs is in the cgroup, and *)
(* the state file, which the checkpoint reads, and the namespace link,     *)
(* which `ip netns' follows, both name it.                                 *)
RunningInitIsKnown ==
  \A i \in Inits : (init[i] = "running" /\ pc = "idle") =>
    i \in tasks /\ statefile = i /\ link = i

(* /sbin/init is executed in no container whose start was reported as      *)
(* failed, and no container runs on after a stop that was reported as done.*)
DownMeansDown ==
  \A i \in Inits : (pc = "idle" /\ ret \in {"error", "stopped"}) =>
    init[i] \notin {"exec", "running"}

\* _env_create() reads a pipe whose write end it holds itself, and nobody is
\* left to write to it.
Stranded(i) == init[i] = "mapping" /\ i \notin mapped

(* After a start that failed, at whatever step, the init that it cloned    *)
(* ends, but for one that is stranded since its user mapping could not be  *)
(* written: "not a problem because [...] if we fail, we'll exit", says the *)
(* comment in _env_create() on the pipes that it inherits, yet this one    *)
(* waits for ever, in no cgroup by which it would be killed.               *)
FailedStartEnds ==
  \A i \in Inits :
    (pc = "idle" /\ ret = "error" /\ init[i] # "none") ~> (init[i] = "gone" \/ Stranded(i))
=============================================================================
