------------------------------- MODULE VpsLock -------------------------------
(***************************************************************************)
(* The per-container lock file $LOCKDIR/$VEID.lck of vzctl:                *)
(* src/lib/lock.c (vps_lock, vps_unlock) as run_action() calls it.         *)
(*                                                                         *)
(* The lock is a file that holds the pid of its owner.  It is taken by     *)
(* link(2) of a private temporary file; a caller that finds it taken reads *)
(* the pid, probes /proc/<pid> and, when there is no such process, unlinks *)
(* the file and tries again, three times in all.  Every system call is a   *)
(* step of its own here: nothing in vps_lock() spans two of them.          *)
(*                                                                         *)
(* A pid is a slot of Pids; the slot of a process that has exited is free  *)
(* and the kernel may give it to another vzctl or to a foreign program.    *)
(***************************************************************************)
EXTENDS Integers, FiniteSets

CONSTANTS
  Pids,          \* process ids
  NoPid,         \* "no file" / "no owner"
  Garbage,       \* a lock file whose text is not a pid
  CanDie,        \* a vzctl may be killed (SIGKILL, power loss) at any step
  WriteMayFail,  \* write(2) of the temporary file may fail (its result is unused)
  Foreign        \* free pids may be taken by programs that are not vzctl

ASSUME NoPidAssumption == NoPid \notin Pids
ASSUME GarbageAssumption == Garbage \notin Pids /\ Garbage # NoPid
ASSUME FlagAssumption == {CanDie, WriteMayFail, Foreign} \subseteq BOOLEAN

\* Mutant: a bound that leaves no turn after the stale file is removed.
MutRetries == 1

Retries == 3     \* while (retry < 3)

VARIABLES
  pc,        \* where each pid is, see Locations
  text,      \* what the temporary file of each pid says
  seen,      \* the pid each caller has read from the lock file
  retry,     \* retry counter of each caller
  lockfile,  \* text of the lock file, NoPid when there is none
  owner,     \* ghost: the pid whose link(2) made the present lock file
  stolen,    \* ghost: a file was removed while its maker was in its action
  contended  \* ghost: another process was there during the call of this pid

vars == <<pc, text, seen, retry, lockfile, owner, stolen, contended>>

Locations ==
  {"gone", "foreign", "link", "read", "probe", "unlink", "action", "failed"}

(* "gone": the pid is free.  "foreign": a program that is not vzctl.       *)
Alive(p) == pc[p] # "gone"
Calling(p) == pc[p] \in {"link", "read", "probe", "unlink"}
Holding(p) == pc[p] = "action"

Goto(p, l) == pc' = [pc EXCEPT ![p] = l]

Init ==
  /\ pc = [p \in Pids |-> "gone"]
  /\ text = [p \in Pids |-> NoPid]
  /\ seen = [p \in Pids |-> NoPid]
  /\ retry = [p \in Pids |-> 0]
  /\ lockfile = NoPid
  /\ owner = NoPid
  /\ stolen = FALSE
  /\ contended = [p \in Pids |-> FALSE]

\* The process, or its call of vps_lock(), ends at l: its temporary file is
\* unlinked and its locals are out of scope.
Ends(p, l) ==
  /\ Goto(p, l)
  /\ text' = [text EXCEPT ![p] = NoPid]
  /\ seen' = [seen EXCEPT ![p] = NoPid]
  /\ retry' = [retry EXCEPT ![p] = 0]
  /\ contended' = [contended EXCEPT ![p] = FALSE]

\* Another program gets a free pid, or exits.
ForeignStarts(p) ==
  /\ Foreign /\ pc[p] = "gone"
  /\ Goto(p, "foreign")
  /\ contended' = [q \in Pids |-> contended[q] \/ Calling(q)]
  /\ UNCHANGED <<text, seen, retry, lockfile, owner, stolen>>

ForeignExits(p) ==
  /\ pc[p] = "foreign"
  /\ Goto(p, "gone")
  /\ UNCHANGED <<text, seen, retry, lockfile, owner, stolen, contended>>

(* A vzctl command is started under a free pid, enters vps_lock() and makes *)
(* its temporary file, which says its pid, or nothing when the unchecked    *)
(* write() failed.  No other process sees that file, so this is one step; a *)
(* call whose mkstemp() fails returns -1 and leaves no trace at all.        *)
Invoke(p) ==
  /\ pc[p] = "gone"
  /\ \/ text' = [text EXCEPT ![p] = p]
     \/ WriteMayFail /\ text' = [text EXCEPT ![p] = Garbage]
  /\ Goto(p, "link")
  /\ contended' = [q \in Pids |->
       IF q = p THEN \E r \in Pids \ {p} : Alive(r)
       ELSE contended[q] \/ Calling(q)]
  /\ retry' = [retry EXCEPT ![p] = 0]
  /\ UNCHANGED <<seen, lockfile, owner, stolen>>

\* Mutant: the file is renamed over an existing lock instead of linked.
MutLink(p) ==
  /\ pc[p] = "link"
  /\ lockfile' = text[p]
  /\ owner' = p
  /\ Ends(p, "action")
  /\ UNCHANGED stolen

\* link(tmp_file, lockfile): the only atomic test-and-set of the protocol.
Link(p) ==
  /\ pc[p] = "link"
  /\ \/ /\ lockfile = NoPid
        /\ lockfile' = text[p]
        /\ owner' = p
        /\ Ends(p, "action")
     \/ /\ lockfile # NoPid
        /\ Goto(p, "read")
        /\ UNCHANGED <<text, seen, retry, lockfile, owner, contended>>
  /\ UNCHANGED stolen

\* Mutant: `continue' reached without the retry++.
MutNextTry(p) ==
  /\ Goto(p, "link")
  /\ UNCHANGED retry

\* Mutant: the counter is tested before it is incremented, one turn too many.
MutNextTryLate(p) ==
  /\ retry' = [retry EXCEPT ![p] = @ + 1]
  /\ Goto(p, IF retry[p] < Retries THEN "link" ELSE "failed")

\* One more turn of the loop, or the end of it with ret still -1.
NextTry(p) ==
  /\ retry' = [retry EXCEPT ![p] = @ + 1]
  /\ Goto(p, IF retry[p] + 1 < Retries THEN "link" ELSE "failed")

\* getlockpid(): the file is gone (-1), is not a pid (0), or names a pid.
ReadPid(p) ==
  /\ pc[p] = "read"
  /\ \/ /\ lockfile = NoPid
        /\ NextTry(p)
        /\ UNCHANGED seen
     \/ /\ lockfile = Garbage
        /\ Goto(p, "unlink")
        /\ UNCHANGED <<retry, seen>>
     \/ /\ lockfile \in Pids
        /\ seen' = [seen EXCEPT ![p] = lockfile]
        /\ Goto(p, "probe")
        /\ UNCHANGED retry
  /\ UNCHANGED <<text, lockfile, owner, stolen, contended>>

\* stat("/proc/<pid>"): a live pid means "locked", a dead one a stale lock.
Probe(p) ==
  /\ pc[p] = "probe"
  /\ Goto(p, IF Alive(seen[p]) THEN "failed" ELSE "unlink")
  /\ UNCHANGED <<text, seen, retry, lockfile, owner, stolen, contended>>

\* unlink(lockfile) by p, whoever made the file that is there now.
RemoveFile(p) ==
  /\ lockfile' = NoPid
  /\ owner' = NoPid
  /\ stolen' = (stolen \/ (owner \in Pids \ {p} /\ Holding(owner)))

\* The stale, or unreadable, lock file is removed and the loop goes on.
RemoveStale(p) ==
  /\ pc[p] = "unlink"
  /\ RemoveFile(p)
  /\ NextTry(p)
  /\ seen' = [seen EXCEPT ![p] = NoPid]
  /\ UNCHANGED <<text, contended>>

\* run_action() is over: vps_unlock() unlinks the file by its name, vzctl exits.
Unlock(p) ==
  /\ pc[p] = "action"
  /\ RemoveFile(p)
  /\ Ends(p, "gone")

\* vps_lock() returned 1 or -1: the action is not run and nothing is unlocked.
GiveUp(p) ==
  /\ pc[p] = "failed"
  /\ Ends(p, "gone")
  /\ UNCHANGED <<lockfile, owner, stolen>>

\* The process dies: its lock file, if it has one, stays behind.
Die(p) ==
  /\ CanDie
  /\ pc[p] \notin {"gone", "foreign"}
  /\ Ends(p, "gone")
  /\ UNCHANGED <<lockfile, owner, stolen>>

Step(p) ==
  \/ Link(p) \/ ReadPid(p) \/ Probe(p) \/ RemoveStale(p)
  \/ Unlock(p) \/ GiveUp(p)

Next ==
  \E p \in Pids :
    \/ Invoke(p) \/ Step(p) \/ Die(p) \/ ForeignStarts(p) \/ ForeignExits(p)

Spec == Init /\ [][Next]_vars

(* A live process is scheduled; nothing makes an administrator type a     *)
(* command, a process die or a pid be reused.                              *)
FairSpec == Spec /\ \A p \in Pids : WF_vars(Step(p))

-----------------------------------------------------------------------------

\* Types; a caller inside its loop has a try left, a text and, to probe, a pid.
TypeOK ==
  /\ pc \in [Pids -> Locations]
  /\ text \in [Pids -> Pids \union {NoPid, Garbage}]
  /\ seen \in [Pids -> Pids \union {NoPid}]
  /\ retry \in [Pids -> 0..Retries]
  /\ lockfile \in Pids \union {NoPid, Garbage}
  /\ owner \in Pids \union {NoPid}
  /\ stolen \in BOOLEAN
  /\ contended \in [Pids -> BOOLEAN]
  /\ \A p \in Pids :
       /\ Calling(p) => retry[p] < Retries /\ text[p] # NoPid
       /\ pc[p] = "probe" => seen[p] \in Pids

(* What the lock is for: two vzctl never run an action on one container at *)
(* the same time ("1 - locked", "Container already locked").               *)
MutualExclusion == \A p, q \in Pids : Holding(p) /\ Holding(q) => p = q

(* link(2) itself is exclusive: two vzctl can be in their actions together *)
(* only after somebody has unlinked the lock file of a running one.        *)
ExclusiveUnlessStolen == stolen \/ MutualExclusion

(* As long as no file is stolen, the vzctl in its action is the one whose  *)
(* file is in place: its unlock cannot remove the lock of another one.     *)
HolderHasFile ==
  stolen \/ \A p \in Pids : Holding(p) => owner = p /\ lockfile # NoPid

(* A stale or unreadable lock never stops a vzctl that is alone: a call of *)
(* vps_lock() that shares the host with no other process does not run out  *)
(* of its three tries and does not report "locked".  The one exception is  *)
(* a file that a dead vzctl left with the very pid this caller has got.    *)
LoneCallerGetsLock ==
  \A p \in Pids : pc[p] = "failed" => contended[p] \/ seen[p] = p

(* Every call of vps_lock() comes to an end, whatever the others do with   *)
(* the file: it gets the lock, gives up, or its process dies.              *)
CallReturns ==
  \A p \in Pids : Calling(p) ~> ~Calling(p)
=============================================================================
