----------------------------- MODULE DestroyDir ------------------------------
(***************************************************************************)
(* The removal of private areas in the background: destroydir() and        *)
(* _destroydir() of src/lib/destroy.c, with _lock() and _unlock().         *)
(*                                                                         *)
(* vzctl destroy moves the area to $root/vztmp under a name of its own,    *)
(* takes rm.lck there without waiting and forks a child that removes what  *)
(* it finds; whoever finds rm.lck taken leaves its area to that child.     *)
(* The containers have locks of their own, so any number of vzctl do this  *)
(* at once.                                                                *)
(*                                                                         *)
(* flock() locks an open file, not a name: parent and child share the open *)
(* file, so either unlocks it for both, and the name is removed by either. *)
(***************************************************************************)
EXTENDS FiniteSets

CONSTANTS
  Cts,      \* the containers; also names for their vzctl and its open file
  None,
  Faults    \* what may happen: "lock", "fork", "opendir", "rm" fail, "kill"

ASSUME NoneAssumption == None \notin Cts

VARIABLES
  live,     \* containers whose private area is in its place
  temp,     \* vztmp/vzctl-rm-me.XXXXXX of each container
  rmlck,    \* the inode that has the name rm.lck
  holder,   \* the open file that has the lock of each inode
  fd,       \* fd_lock: the inode that each vzctl has opened
  parent,   \* where each vzctl is
  child,    \* where its child is
  list,     \* what opendir() of the child has found and it has not tried yet
  del,      \* `del' of the child
  left      \* ghost: areas that no child has promised to remove

files == <<live, temp>>
lock == <<rmlck, holder, fd>>
scan == <<list, del>>
vars == <<files, lock, parent, child, scan, left>>

Fault(f) == f \in Faults

Init ==
  /\ live = Cts /\ temp = [c \in Cts |-> "none"]
  /\ rmlck = None /\ holder = [i \in Cts |-> None]
  /\ fd = [c \in Cts |-> None]
  /\ parent = [c \in Cts |-> "idle"] /\ child = [c \in Cts |-> "none"]
  /\ list = [c \in Cts |-> {}] /\ del = [c \in Cts |-> FALSE]
  /\ left = {}

Parent(c, from, to) == parent[c] = from /\ parent' = [parent EXCEPT ![c] = to]
Child(c, from, to) == child[c] = from /\ child' = [child EXCEPT ![c] = to]

\* Areas that wait in vztmp.
Waiting == {c \in Cts : temp[c] = "full"}

\* The name rm.lck goes, whatever file has it; an open file loses its lock.
Unlinked == rmlck' = None
Unlocked(c) == holder' = [i \in Cts |-> IF holder[i] = c THEN None ELSE holder[i]]

(* The open file is closed when neither the vzctl nor its child has it.    *)
Closes(c, other) == fd' = IF other THEN [fd EXCEPT ![c] = None] ELSE fd

-----------------------------------------------------------------------------
(* vzctl destroy *)

\* mkdtemp(); a private area that is a link or a file is unlinked instead.
Invoke(c) ==
  /\ c \in live /\ child[c] = "none"
  /\ \/ Parent(c, "idle", "move") /\ temp' = [temp EXCEPT ![c] = "empty"]
        /\ UNCHANGED live
     \/ parent[c] = "idle" /\ live' = live \ {c} /\ UNCHANGED <<temp, parent>>
  /\ UNCHANGED <<lock, child, scan, left>>

(* rename() to the temporary name, which a child may have removed.  On      *)
(* EXDEV the area is removed at once if rmdir() of the temporary directory *)
(* has left errno alone, that is, if it was there.                         *)
Move(c) ==
  /\ \/ /\ Parent(c, "move", "open")
        /\ temp' = [temp EXCEPT ![c] = "full"]
        /\ live' = live \ {c} /\ left' = left \union {c}
     \/ /\ Parent(c, "move", "idle")
        /\ temp' = [temp EXCEPT ![c] = "none"]
        /\ live' = live \ {c} \/ live' = live
        /\ live' = live \/ temp[c] = "empty"
        /\ UNCHANGED left
  /\ UNCHANGED <<lock, child, scan>>

\* open(O_CREAT) in _lock()
OpenLock(c) ==
  /\ \/ /\ rmlck # None /\ Parent(c, "open", "flock")
        /\ fd' = [fd EXCEPT ![c] = rmlck]
        /\ UNCHANGED rmlck
     \/ /\ rmlck = None /\ Parent(c, "open", "flock")
        /\ \E i \in Cts : /\ \A d \in Cts : fd[d] # i
                          /\ rmlck' = i
                          /\ fd' = [fd EXCEPT ![c] = i]
     \/ Fault("lock") /\ Parent(c, "open", "idle") /\ UNCHANGED <<rmlck, fd>>
  /\ UNCHANGED <<files, holder, child, scan, left>>

\* flock(LOCK_EX | LOCK_NB); "Already locked" is success.
Flock(c) ==
  /\ parent[c] = "flock"
  /\ \/ /\ holder[fd[c]] = None
        /\ holder' = [holder EXCEPT ![fd[c]] = c]
        /\ Parent(c, "flock", "fork") /\ UNCHANGED fd
     \/ /\ holder[fd[c]] # None \/ Fault("lock")
        /\ fd' = [fd EXCEPT ![c] = None]
        /\ Parent(c, "flock", "idle") /\ UNCHANGED holder
  /\ UNCHANGED <<files, rmlck, child, scan, left>>

Fork(c) ==
  /\ Parent(c, "fork", "sleep")
  /\ \/ Child(c, "none", "opendir") /\ left' = left \ {c}
     \/ Fault("fork") /\ UNCHANGED <<child, left>>
  /\ UNCHANGED <<files, lock, scan>>

\* After sleep(1): _unlock() of the parent, whether the child has ended or not.
ParentUnlinks(c) ==
  /\ Parent(c, "sleep", "unlock")
  /\ Unlinked
  /\ UNCHANGED <<files, holder, fd, child, scan, left>>

ParentUnlocks(c) ==
  /\ Parent(c, "unlock", "idle")
  /\ Unlocked(c) /\ Closes(c, child[c] = "none")
  /\ UNCHANGED <<files, rmlck, child, scan, left>>

-----------------------------------------------------------------------------
(* The child: _destroydir() *)

OpenDir(c) ==
  /\ Child(c, "opendir", "scan")
  /\ list' = [list EXCEPT ![c] = {d \in Cts : temp[d] # "none"}]
  /\ del' = [del EXCEPT ![c] = FALSE]
  /\ UNCHANGED <<files, lock, parent, left>>

\* The child returns, and what it was forked for is left.
OpenDirFails(c) ==
  /\ Fault("opendir")
  /\ Child(c, "opendir", "unlink")
  /\ left' = left \union (Waiting \intersect {c})
  /\ UNCHANGED <<files, lock, parent, scan>>

(* rm -rf of an entry; one that is gone is skipped.  readdir() may or may  *)
(* not return what came after opendir().                                   *)
RemoveEntry(c, d) ==
  /\ child[c] = "scan"
  /\ d \in list[c] \/ temp[d] # "none"
  /\ list' = [list EXCEPT ![c] = @ \ {d}]
  /\ del' = [del EXCEPT ![c] = @ \/ temp[d] # "none"]
  /\ temp' = [temp EXCEPT ![d] = "none"]
  /\ left' = left \ {d}
  /\ UNCHANGED <<live, lock, parent, child>>

\* rm(1) fails; the child sleeps and will look again.
RemoveFails(c, d) ==
  /\ Fault("rm")
  /\ child[c] = "scan" /\ d \in list[c]
  /\ list' = [list EXCEPT ![c] = @ \ {d}]
  /\ del' = [del EXCEPT ![c] = TRUE]
  /\ UNCHANGED <<files, lock, parent, child, left>>

\* Mutant: the directory is read once.
MutCloseDir(c) ==
  /\ list[c] = {} /\ Child(c, "scan", "unlink")
  /\ UNCHANGED <<files, lock, parent, scan, left>>

\* closedir(); the directory is read again if there was something to remove.
CloseDir(c) ==
  /\ list[c] = {}
  /\ Child(c, "scan", IF del[c] THEN "opendir" ELSE "unlink")
  /\ UNCHANGED <<files, lock, parent, scan, left>>

ChildUnlinks(c) ==
  /\ Child(c, "unlink", "unlock")
  /\ Unlinked
  /\ UNCHANGED <<files, holder, fd, parent, scan, left>>

ChildUnlocks(c) ==
  /\ Child(c, "unlock", "none")
  /\ Unlocked(c) /\ Closes(c, parent[c] \notin {"sleep", "unlock"})
  /\ UNCHANGED <<files, rmlck, parent, scan, left>>

-----------------------------------------------------------------------------
(* SIGKILL of a vzctl; its open file goes with it unless a child has it.   *)
Killed(c) ==
  /\ Fault("kill") /\ parent[c] # "idle"
  /\ parent' = [parent EXCEPT ![c] = "idle"]
  /\ Closes(c, child[c] = "none")
  /\ IF child[c] = "none" THEN Unlocked(c) ELSE UNCHANGED holder
  /\ UNCHANGED <<files, rmlck, child, scan, left>>

ParentStep(c) == Move(c) \/ OpenLock(c) \/ Flock(c) \/ Fork(c)
                 \/ ParentUnlinks(c) \/ ParentUnlocks(c)
ChildStep(c) == OpenDir(c) \/ OpenDirFails(c) \/ CloseDir(c)
                \/ ChildUnlinks(c) \/ ChildUnlocks(c)
ChildEntry(c, d) == RemoveEntry(c, d) \/ RemoveFails(c, d)

Next == \E c \in Cts : \/ Invoke(c) \/ ParentStep(c) \/ ChildStep(c) \/ Killed(c)
                       \/ \E d \in Cts : ChildEntry(c, d)

Spec == Init /\ [][Next]_vars

\* readdir() returns each entry of the list in the end.
Fairness ==
  \A c \in Cts : /\ WF_vars(ParentStep(c)) /\ WF_vars(ChildStep(c))
                 /\ \A d \in Cts : WF_vars(d \in list[c] /\ ChildEntry(c, d))

FairSpec == Spec /\ Fairness

-----------------------------------------------------------------------------

(* Types; who may hold rm.lck has it open, and an inode is held once.      *)
TypeOK ==
  /\ live \subseteq Cts /\ temp \in [Cts -> {"none", "empty", "full"}]
  /\ rmlck \in Cts \union {None}
  /\ holder \in [Cts -> Cts \union {None}] /\ fd \in [Cts -> Cts \union {None}]
  /\ parent \in [Cts -> {"idle", "move", "open", "flock", "fork", "sleep", "unlock"}]
  /\ child \in [Cts -> {"none", "opendir", "scan", "unlink", "unlock"}]
  /\ list \in [Cts -> SUBSET Cts] /\ del \in [Cts -> BOOLEAN]
  /\ left \subseteq Waiting
  /\ \A i \in Cts : holder[i] # None => fd[holder[i]] = i

Quiet == \A c \in Cts : parent[c] = "idle" /\ child[c] = "none"

(* When all is quiet, an area still waits in vztmp only if its vzctl found *)
(* rm.lck taken, could not lock or fork, or was killed before, or if the   *)
(* child that it forked could not open the directory.  The locks that      *)
(* parents and children take from one another lose no other area.          *)
RemovedUnlessLeft == Quiet => Waiting \subseteq left

(* What waits in vztmp when some child opens the directory is removed in   *)
(* the end, the areas that others have left there too, unless rm(1) goes   *)
(* on failing: if no child is killed or fails to open the directory.       *)
ChildRemovesAll ==
  \/ []<><<\E c, d \in Cts : RemoveFails(c, d)>>_vars
  \/ \A c \in Cts : (temp[c] = "full" /\ \E d \in Cts : child[d] = "opendir")
                      ~> temp[c] # "full"

(* "Container private area was destroyed": nothing stays in vztmp.         *)
NothingLeft == Quiet => Waiting = {}
=============================================================================
