---------------------------- MODULE HelpersProofs ----------------------------
(* Proofs about the parts that MCHelpers puts together, for every value of *)
(* their constants.                                                        *)
EXTENDS MCHelpers, TLAPS, Sequences, FiniteSetTheorems

-----------------------------------------------------------------------------
(***************************************************************************)
(* DestroyDir: areas waiting for deletion, and the children that delete.   *)
(***************************************************************************)

Shape ==
  /\ live \subseteq Cts /\ temp \in [Cts -> {"none", "empty", "full"}]
  /\ rmlck \in Cts \union {None}
  /\ holder \in [Cts -> Cts \union {None}] /\ fd \in [Cts -> Cts \union {None}]
  /\ parent \in [Cts -> {"idle", "move", "open", "flock", "fork", "sleep", "unlock"}]
  /\ child \in [Cts -> {"none", "opendir", "scan", "unlink", "unlock"}]
  /\ list \in [Cts -> SUBSET Cts] /\ del \in [Cts -> BOOLEAN]

(* An area is moved once: what is in its place does not wait, and who is   *)
(* about to move it still has it.                                          *)
MoveInv ==
  /\ left \subseteq Waiting
  /\ live \intersect Waiting = {}
  /\ \A c \in Cts : parent[c] = "move" => c \in live

\* The child of d has found d, or will read the directory again.
Covered(d) ==
  child[d] = "opendir" \/ (child[d] = "scan" /\ (d \in list[d] \/ del[d]))

(* The child that was forked for an area looks after it until it is        *)
(* removed or left: the child of another vzctl may stop at any time.       *)
(* Without `del' this is not inductive, since rm(1) may fail.              *)
CoverInv == \A d \in Waiting \ left : Covered(d)

LEMMA InitShape == Init => Shape /\ MoveInv /\ CoverInv
BY DEF Init, Shape, MoveInv, CoverInv, Waiting

LEMMA ShapeStep ==
  ASSUME Shape, [Next]_vars
  PROVE  Shape'
<1> USE DEF Shape
<1>1. CASE UNCHANGED vars
  BY <1>1 DEF vars, files, lock, scan
<1>2. ASSUME NEW c \in Cts, Invoke(c)
      PROVE  Shape'
  BY <1>2 DEF Invoke, Parent, lock, scan
<1>3. ASSUME NEW c \in Cts, Move(c)
      PROVE  Shape'
  BY <1>3 DEF Move, Parent, lock, scan
<1>4. ASSUME NEW c \in Cts, OpenLock(c)
      PROVE  Shape'
  BY <1>4 DEF OpenLock, Parent, files, scan
<1>5. ASSUME NEW c \in Cts, Flock(c)
      PROVE  Shape'
  BY <1>5 DEF Flock, Parent, files, scan
<1>6. ASSUME NEW c \in Cts, Fork(c)
      PROVE  Shape'
  BY <1>6 DEF Fork, Parent, Child, files, lock, scan
<1>7. ASSUME NEW c \in Cts, ParentUnlinks(c) \/ ParentUnlocks(c)
      PROVE  Shape'
  BY <1>7 DEF ParentUnlinks, ParentUnlocks, Unlinked, Unlocked, Closes, Parent,
              files, scan
<1>8. ASSUME NEW c \in Cts, OpenDir(c) \/ OpenDirFails(c) \/ CloseDir(c)
      PROVE  Shape'
  <2>1. CASE OpenDir(c)
    <3>1. list' \in [Cts -> SUBSET Cts]
      BY <2>1 DEF OpenDir
    <3> QED
      BY <2>1, <3>1 DEF OpenDir, Child, files, lock
  <2>2. CASE CloseDir(c)
    <3>1. child' \in [Cts -> {"none", "opendir", "scan", "unlink", "unlock"}]
      BY <2>2 DEF CloseDir, Child
    <3> QED
      BY <2>2, <3>1 DEF CloseDir, files, lock, scan
  <2>3. CASE OpenDirFails(c)
    BY <2>3 DEF OpenDirFails, Child, files, lock, scan
  <2> QED
    BY <1>8, <2>1, <2>2, <2>3
<1>9. ASSUME NEW c \in Cts, ChildUnlinks(c) \/ ChildUnlocks(c)
      PROVE  Shape'
  BY <1>9 DEF ChildUnlinks, ChildUnlocks, Unlinked, Unlocked, Closes, Child,
              files, scan
<1>10. ASSUME NEW c \in Cts, NEW d \in Cts, ChildEntry(c, d)
       PROVE  Shape'
  <2>1. CASE RemoveEntry(c, d)
    <3>1. del' \in [Cts -> BOOLEAN]
      BY <2>1 DEF RemoveEntry
    <3> QED
      BY <2>1, <3>1 DEF RemoveEntry, lock
  <2>2. CASE RemoveFails(c, d)
    BY <2>2 DEF RemoveFails, files, lock
  <2> QED
    BY <1>10, <2>1, <2>2 DEF ChildEntry
<1>11. ASSUME NEW c \in Cts, Killed(c)
       PROVE  Shape'
  BY <1>11 DEF Killed, Unlocked, Closes, files, scan
<1> QED
  BY <1>1, <1>2, <1>3, <1>4, <1>5, <1>6, <1>7, <1>8, <1>9, <1>10, <1>11
     DEF Next, ParentStep, ChildStep

\* Only Invoke and Move touch what is moved, only children remove it.
LEMMA MoveStep ==
  ASSUME Shape, MoveInv, [Next]_vars
  PROVE  MoveInv'
<1> USE DEF Shape, MoveInv, Waiting
<1>1. CASE UNCHANGED vars
  BY <1>1 DEF vars, files, lock, scan
<1>2. ASSUME NEW c \in Cts, Invoke(c)
      PROVE  MoveInv'
  BY <1>2 DEF Invoke, Parent
<1>3. ASSUME NEW c \in Cts, Move(c)
      PROVE  MoveInv'
  BY <1>3 DEF Move, Parent
<1>4. ASSUME NEW c \in Cts, OpenLock(c) \/ Flock(c)
      PROVE  MoveInv'
  BY <1>4 DEF OpenLock, Flock, Parent, files
<1>5. ASSUME NEW c \in Cts, Fork(c) \/ ParentUnlinks(c) \/ ParentUnlocks(c)
      PROVE  MoveInv'
  BY <1>5 DEF Fork, ParentUnlinks, ParentUnlocks, Parent, files
<1>6. ASSUME NEW c \in Cts, ChildStep(c)
      PROVE  MoveInv'
  BY <1>6 DEF ChildStep, OpenDir, OpenDirFails, CloseDir, ChildUnlinks, ChildUnlocks, files
<1>7. ASSUME NEW c \in Cts, NEW d \in Cts, ChildEntry(c, d)
      PROVE  MoveInv'
  BY <1>7 DEF ChildEntry, RemoveEntry, RemoveFails, files
<1>8. ASSUME NEW c \in Cts, Killed(c)
      PROVE  MoveInv'
  BY <1>8 DEF Killed, files
<1> QED
  BY <1>1, <1>2, <1>3, <1>4, <1>5, <1>6, <1>7, <1>8 DEF Next, ParentStep

\* A step that takes no container's children back and adds no area.
LEMMA CoverKept ==
  ASSUME CoverInv, Waiting' \ left' \subseteq Waiting \ left,
         UNCHANGED <<child, scan>>
  PROVE  CoverInv'
BY DEF CoverInv, Covered, scan

LEMMA CoverStep ==
  ASSUME Shape, MoveInv, CoverInv, [Next]_vars
  PROVE  CoverInv'
<1>1. CASE UNCHANGED vars
  BY <1>1, CoverKept DEF vars, files, Waiting
<1>2. ASSUME NEW c \in Cts, Invoke(c)
      PROVE  CoverInv'
  <2>1. Waiting' \ left' \subseteq Waiting \ left
    BY <1>2 DEF Invoke, Parent, Waiting, Shape
  <2> QED
    BY <1>2, <2>1, CoverKept DEF Invoke
<1>3. ASSUME NEW c \in Cts, Move(c)
      PROVE  CoverInv'
  <2>1. Waiting' \ left' \subseteq Waiting \ left
    BY <1>3 DEF Move, Parent, Waiting, Shape
  <2> QED
    BY <1>3, <2>1, CoverKept DEF Move
<1>4. ASSUME NEW c \in Cts, OpenLock(c) \/ Flock(c) \/ ParentUnlinks(c)
                            \/ ParentUnlocks(c) \/ Killed(c)
      PROVE  CoverInv'
  <2>1. UNCHANGED <<files, left, child, scan>>
    BY <1>4 DEF OpenLock, Flock, ParentUnlinks, ParentUnlocks, Killed
  <2> QED
    BY <2>1, CoverKept DEF Waiting, files
<1>5. ASSUME NEW c \in Cts, Fork(c)
      PROVE  CoverInv'
  BY <1>5 DEF Fork, Child, CoverInv, Covered, Waiting, files, scan, Shape
<1>6. ASSUME NEW c \in Cts, OpenDir(c)
      PROVE  CoverInv'
  BY <1>6 DEF OpenDir, Child, CoverInv, Covered, Waiting, files, Shape
<1>7. ASSUME NEW c \in Cts, CloseDir(c)
      PROVE  CoverInv'
  BY <1>7 DEF CloseDir, Child, CoverInv, Covered, Waiting, files, scan, Shape
<1>8. ASSUME NEW c \in Cts, ChildUnlinks(c) \/ ChildUnlocks(c)
      PROVE  CoverInv'
  BY <1>8 DEF ChildUnlinks, ChildUnlocks, Child, CoverInv, Covered, Waiting,
              files, scan, Shape
<1>9. ASSUME NEW c \in Cts, NEW d \in Cts, RemoveEntry(c, d)
      PROVE  CoverInv'
  BY <1>9 DEF RemoveEntry, CoverInv, Covered, Waiting, Shape
<1>10. ASSUME NEW c \in Cts, NEW d \in Cts, RemoveFails(c, d)
       PROVE  CoverInv'
  BY <1>10 DEF RemoveFails, CoverInv, Covered, Waiting, files, Shape
<1>11. ASSUME NEW c \in Cts, OpenDirFails(c)
       PROVE  CoverInv'
  BY <1>11 DEF OpenDirFails, Child, CoverInv, Covered, Waiting, files, scan, Shape
<1> QED
  BY <1>1, <1>2, <1>3, <1>4, <1>5, <1>6, <1>7, <1>8, <1>9, <1>10, <1>11
     DEF Next, ParentStep, ChildStep, ChildEntry

(* When all vzctl and their children have ended, what still waits in vztmp *)
(* was left there by a vzctl that found rm.lck taken, failed or died, or   *)
(* by its child that could not open the directory: destroydir() and        *)
(* _destroydir() lose no other area, whoever unlocks rm.lck.               *)
THEOREM NoAreaIsLost == Spec => []RemovedUnlessLeft
<1>1. Init => Shape /\ MoveInv /\ CoverInv
  BY InitShape
<1>2. Shape /\ MoveInv /\ CoverInv /\ [Next]_vars => (Shape /\ MoveInv /\ CoverInv)'
  BY ShapeStep, MoveStep, CoverStep
<1>3. CoverInv => RemovedUnlessLeft
  BY DEF CoverInv, Covered, RemovedUnlessLeft, Quiet, Waiting
<1> QED
  BY <1>1, <1>2, <1>3, PTL DEF Spec

(* rm.lck.  Who holds an inode has it open.  The open file is gone when    *)
(* neither a vzctl nor its child needs it any more, so that the next one   *)
(* that vzctl opens is not held yet.                                       *)
HeldInv ==
  /\ \A i \in Cts : holder[i] # None => fd[holder[i]] = i
  /\ \A c \in Cts :
       /\ child[c] # "none" => parent[c] \in {"sleep", "unlock", "idle"}
       /\ child[c] = "none" /\ parent[c] \in {"idle", "move", "open"} => fd[c] = None
       /\ parent[c] = "flock" => fd[c] \in Cts /\ \A i \in Cts : holder[i] # c

LEMMA HeldStep ==
  ASSUME Shape, HeldInv, [Next]_vars
  PROVE  HeldInv'
<1> USE NoneAssumption
<1> USE DEF Shape, HeldInv, Unlocked, Closes, Parent, Child, lock
<1>1. CASE UNCHANGED vars
  BY <1>1 DEF vars
<1>2. ASSUME NEW c \in Cts, Invoke(c) \/ Move(c)
      PROVE  HeldInv'
  BY <1>2 DEF Invoke, Move
<1>3. ASSUME NEW c \in Cts, OpenLock(c)
      PROVE  HeldInv'
  BY <1>3 DEF OpenLock
<1>4. ASSUME NEW c \in Cts, Flock(c)
      PROVE  HeldInv'
  BY <1>4 DEF Flock
<1>5. ASSUME NEW c \in Cts, Fork(c) \/ ParentUnlinks(c)
      PROVE  HeldInv'
  BY <1>5 DEF Fork, ParentUnlinks
<1>6. ASSUME NEW c \in Cts, ParentUnlocks(c)
      PROVE  HeldInv'
  BY <1>6 DEF ParentUnlocks
<1>7. ASSUME NEW c \in Cts, OpenDir(c) \/ OpenDirFails(c) \/ CloseDir(c)
                            \/ ChildUnlinks(c)
      PROVE  HeldInv'
  BY <1>7 DEF OpenDir, OpenDirFails, CloseDir, ChildUnlinks
<1>8. ASSUME NEW c \in Cts, ChildUnlocks(c)
      PROVE  HeldInv'
  BY <1>8 DEF ChildUnlocks
<1>9. ASSUME NEW c \in Cts, NEW d \in Cts, ChildEntry(c, d)
      PROVE  HeldInv'
  BY <1>9 DEF ChildEntry, RemoveEntry, RemoveFails
<1>10. ASSUME NEW c \in Cts, Killed(c)
       PROVE  HeldInv'
  BY <1>10 DEF Killed
<1> QED
  BY <1>1, <1>2, <1>3, <1>4, <1>5, <1>6, <1>7, <1>8, <1>9, <1>10
     DEF Next, ParentStep, ChildStep

(* Type correctness; an inode that the name rm.lck has, or had, is locked  *)
(* only by who has it open.                                                *)
THEOREM LockedIsOpen == Spec => []TypeOK
<1>1. Init => Shape /\ MoveInv /\ HeldInv
  BY InitShape, NoneAssumption DEF Init, HeldInv
<1>2. Shape /\ MoveInv /\ HeldInv /\ [Next]_vars => (Shape /\ MoveInv /\ HeldInv)'
  BY ShapeStep, MoveStep, HeldStep
<1>3. Shape /\ MoveInv /\ HeldInv => TypeOK
  BY DEF Shape, MoveInv, HeldInv, TypeOK
<1> QED
  BY <1>1, <1>2, <1>3, PTL DEF Spec

-----------------------------------------------------------------------------
(***************************************************************************)
(* ExecLoop: a command in the container.                                   *)
(***************************************************************************)

\* The types of ExecLoop, with those of the functions and flags.
ExecTypes ==
  /\ Exec!TypeOK
  /\ holds \in [Exec!Streams -> SUBSET {"vzctl", "cmd", "heir"}]
  /\ pipe \in [Exec!Streams -> Nat] /\ execWritten \in [Exec!Streams -> Nat]
  /\ execShown \in [Exec!Streams -> Nat] /\ execDue \in [Exec!Streams -> Nat]
  /\ cut \subseteq Exec!Streams
  /\ execPc = "feed" => togo > 0

\* A stream that vzctl has closed, and the user's terminal did not refuse, is
\* at its end; what was due has been written.
StreamInv ==
  /\ \A s \in execFl \cap Exec!Streams : s \notin cut => pipe[s] = 0
  /\ \A s \in Exec!Streams : execDue[s] <= execWritten[s]

(* Nothing runs before the fork.  The loop ends when the command has       *)
(* ended, when it is killed or when nothing is open.  Once the pipes are   *)
(* emptied, what the command wrote is shown: nothing more is due, or       *)
(* nothing can be written any more.                                        *)
LoopInv ==
  /\ execPc = "fork" => execCmd = "none"
  /\ child_exited => Exec!Ended
  /\ execPc = "flush" /\ ~termed => Exec!Ended \/ Exec!Streams \subseteq execFl
  /\ execPc = "wait" /\ ~termed =>
       /\ Exec!Ended \/ Exec!Streams \subseteq execFl
       /\ \A s \in Exec!Streams \ cut : execShown[s] >= execDue[s]
  /\ execPc = "done" /\ result # "failed" /\ ~termed =>
       \A s \in Exec!Streams \ cut : execShown[s] >= execDue[s]

\* What one pass of the loop does to the streams; the user's terminal refuses c.
Carries(c) ==
  /\ cut' = cut \cup c
  /\ execFl' = execFl \cup c \cup {s \in Exec!Readable : pipe[s] = 0}
  /\ execShown' = [s \in Exec!Streams |-> execShown[s] +
                      IF s \in Exec!Readable \ c /\ pipe[s] > 0 THEN 1 ELSE 0]
  /\ pipe' = [s \in Exec!Streams |->
                      IF s \in Exec!Readable /\ pipe[s] > 0 THEN pipe[s] - 1 ELSE pipe[s]]

ExecInv == ExecTypes /\ StreamInv /\ LoopInv

LEMMA ExecVzctlTypes ==
  ASSUME ExecTypes, Exec!VzctlStep \/ Exec!Alarm
  PROVE  ExecTypes'
<1> USE BoundsAssumption
<1> USE DEF ExecTypes, Exec!TypeOK
<1> USE DEF Exec!Streams, Exec!run, Exec!data, Exec!input, Exec!signals, Exec!given,
            Exec!To, Exec!Done, Exec!Ended
<1> USE DEF Exec!Flushed, Exec!Readable, Exec!InReady, Exec!Reader, Exec!Interrupts
<1>1. CASE Exec!Fork
  BY <1>1 DEF Exec!Fork
<1>2. CASE Exec!CloseWriters
  BY <1>2 DEF Exec!CloseWriters
<1>3. CASE Exec!ReadStatus
  BY <1>3 DEF Exec!ReadStatus
<1>4. CASE Exec!WriteScript
  <2>1. UNCHANGED <<execCmd, execCode, execSt, holds, pipe, execWritten, execShown, execDue, cut>>
    BY <1>4 DEF Exec!WriteScript
  <2>2. togo' \in 0..Input /\ inp' \in 0..Cap
    BY <1>4 DEF Exec!WriteScript
  <2>3. execPc' \in {"script", "test", "abort"} /\ execFl' \subseteq Exec!Streams \cup {"in"}
    BY <1>4 DEF Exec!WriteScript
  <2> QED
    BY <2>1, <2>2, <2>3
<1>5. CASE Exec!Abort
  BY <1>5 DEF Exec!Abort
<1>6. CASE Exec!Test
  BY <1>6 DEF Exec!Test
<1>7. CASE Exec!Select
  <2>1. UNCHANGED <<execCmd, holds, execWritten, execDue, togo, inp>>
    BY <1>7 DEF Exec!Select
  <2>2. CASE execPc' = "blocked" /\ UNCHANGED <<cut, execFl, execShown, pipe>>
    BY <2>1, <2>2
  <2>3. ASSUME NEW c \in SUBSET {s \in Exec!Readable : pipe[s] > 0}, Carries(c),
               execPc' = IF Exec!InReady THEN "feed" ELSE "test"
        PROVE  ExecTypes'
    <3>1. c \subseteq Exec!Streams /\ cut' \subseteq Exec!Streams
      BY <2>3 DEF Carries
    <3>2. execFl' \subseteq Exec!Streams \cup {"in"}
      BY <2>3, <3>1 DEF Carries
    <3>3. pipe' \in [Exec!Streams -> Nat] /\ execShown' \in [Exec!Streams -> Nat]
      BY <2>3 DEF Carries
    <3>4. ASSUME NEW s \in Exec!Streams
          PROVE  /\ pipe'[s] \in 0..Cap
                 /\ execShown'[s] + pipe'[s] <= execWritten[s]
                 /\ s \notin cut' => execShown'[s] + pipe'[s] = execWritten[s]
      <4> HIDE DEF Exec!Streams, Exec!Readable
      <4> QED BY <2>3, <3>4 DEF Carries
    <3>5. execPc' \in {"feed", "test"} /\ (execPc' = "feed" => togo > 0)
      BY <2>3
    <3> HIDE DEF Exec!Readable, Exec!InReady
    <3> QED
      BY <2>1, <3>1, <3>2, <3>3, <3>4, <3>5
  <2> QED
    BY <1>7, <2>2, <2>3 DEF Exec!Select, Carries
<1>8. CASE Exec!Feed
  <2>1. UNCHANGED <<execCmd, execCode, execSt, holds, pipe, execWritten, execShown, execDue, cut>>
    BY <1>8 DEF Exec!Feed
  <2>2. togo' \in 0..Input /\ inp' \in 0..Cap
    BY <1>8 DEF Exec!Feed
  <2>3. execPc' = "test" /\ execFl' \subseteq Exec!Streams \cup {"in"}
    BY <1>8 DEF Exec!Feed
  <2> QED
    BY <2>1, <2>2, <2>3
<1>9. CASE Exec!Flush
  BY <1>9 DEF Exec!Flush
<1>10. CASE Exec!EnvWait
  BY <1>10 DEF Exec!EnvWait
<1>11. CASE Exec!Alarm
  BY <1>11 DEF Exec!Alarm
<1>12. CASE Exec!ChildHandler
  BY <1>12 DEF Exec!ChildHandler
<1> QED
  BY <1>1, <1>2, <1>3, <1>4, <1>5, <1>6, <1>7, <1>8, <1>9, <1>10, <1>11, <1>12
     DEF Exec!VzctlStep

LEMMA ExecCommandTypes ==
  ASSUME ExecTypes, Exec!CommandStep
  PROVE  ExecTypes'
<1> USE BoundsAssumption
<1> USE DEF ExecTypes, Exec!TypeOK
<1> USE DEF Exec!Streams, Exec!run, Exec!data, Exec!input, Exec!signals, Exec!given,
            Exec!To, Exec!Done, Exec!Ended
<1> USE DEF Exec!Flushed, Exec!Readable, Exec!InReady, Exec!Reader, Exec!Interrupts
<1>1. CASE Exec!Enter
  BY <1>1 DEF Exec!Enter
<1>2. CASE Exec!ReadIn
  BY <1>2 DEF Exec!ReadIn
<1>3. CASE Exec!Spawn
  BY <1>3 DEF Exec!Spawn
<1>4. CASE Exec!HeirExits
  BY <1>4 DEF Exec!HeirExits
<1>5. CASE Exec!Exit
  BY <1>5 DEF Exec!Exit
<1>6. CASE \E s \in Exec!Streams : Exec!WriteOut(s) \/ Exec!CloseOut(s)
  <2> SUFFICES ASSUME NEW s \in Exec!Streams, Exec!WriteOut(s) \/ Exec!CloseOut(s)
               PROVE  ExecTypes'
    BY <1>6
  <2>1. CASE Exec!WriteOut(s)
    <3>1. /\ pipe' = [pipe EXCEPT ![s] = @ + 1] /\ pipe[s] < Cap
          /\ execWritten' = [execWritten EXCEPT ![s] = @ + 1] /\ execWritten[s] < MaxOut
          /\ UNCHANGED <<execPc, execCmd, holds, execShown, execDue, cut, togo, inp, execFl>>
      BY <2>1 DEF Exec!WriteOut
    <3> HIDE DEF Exec!Streams
    <3> QED BY <3>1
  <2>2. CASE Exec!CloseOut(s)
    BY <2>2 DEF Exec!CloseOut
  <2> QED
    BY <2>1, <2>2
<1> QED
  BY <1>1, <1>2, <1>3, <1>4, <1>5, <1>6
     DEF Exec!CommandStep

LEMMA ExecVzctlInv ==
  ASSUME ExecInv, ExecTypes', Exec!VzctlStep \/ Exec!Alarm
  PROVE  StreamInv' /\ LoopInv'
<1> USE DEF ExecInv, StreamInv, LoopInv, ExecTypes, Exec!TypeOK
<1> USE DEF Exec!Streams, Exec!run, Exec!data, Exec!input, Exec!signals, Exec!given,
            Exec!To, Exec!Done, Exec!Ended
<1> USE DEF Exec!Flushed, Exec!Readable, Exec!InReady, Exec!Reader, Exec!Interrupts
<1>1. CASE Exec!Fork
  BY <1>1 DEF Exec!Fork
<1>2. CASE Exec!CloseWriters
  BY <1>2 DEF Exec!CloseWriters
<1>3. CASE Exec!ReadStatus
  BY <1>3 DEF Exec!ReadStatus
<1>4. CASE Exec!WriteScript
  BY <1>4 DEF Exec!WriteScript
<1>5. CASE Exec!Abort
  BY <1>5 DEF Exec!Abort
<1>6. CASE Exec!Test
  BY <1>6 DEF Exec!Test
<1>7. CASE Exec!Select
  BY <1>7 DEF Exec!Select
<1>8. CASE Exec!Feed
  BY <1>8 DEF Exec!Feed
<1>9. CASE Exec!Flush
  BY <1>9 DEF Exec!Flush
<1>10. CASE Exec!EnvWait
  BY <1>10 DEF Exec!EnvWait
<1>11. CASE Exec!Alarm
  BY <1>11 DEF Exec!Alarm
<1>12. CASE Exec!ChildHandler
  BY <1>12 DEF Exec!ChildHandler
<1> QED
  BY <1>1, <1>2, <1>3, <1>4, <1>5, <1>6, <1>7, <1>8, <1>9, <1>10, <1>11, <1>12
     DEF Exec!VzctlStep

LEMMA ExecCommandInv ==
  ASSUME ExecInv, ExecTypes', execPc # "done", Exec!CommandStep
  PROVE  StreamInv' /\ LoopInv'
<1> USE DEF ExecInv, StreamInv, LoopInv, ExecTypes, Exec!TypeOK
<1> USE DEF Exec!Streams, Exec!run, Exec!data, Exec!input, Exec!signals, Exec!given,
            Exec!To, Exec!Done, Exec!Ended
<1> USE DEF Exec!Flushed, Exec!Readable, Exec!InReady, Exec!Reader, Exec!Interrupts
<1>1. CASE Exec!Enter
  BY <1>1 DEF Exec!Enter
<1>2. CASE Exec!ReadIn
  BY <1>2 DEF Exec!ReadIn
<1>3. CASE Exec!Spawn
  BY <1>3 DEF Exec!Spawn
<1>4. CASE Exec!HeirExits
  BY <1>4 DEF Exec!HeirExits
<1>5. CASE Exec!Exit
  BY <1>5 DEF Exec!Exit
<1>6. CASE \E s \in Exec!Streams : Exec!WriteOut(s) \/ Exec!CloseOut(s)
  BY <1>6 DEF Exec!WriteOut, Exec!CloseOut
<1> QED
  BY <1>1, <1>2, <1>3, <1>4, <1>5, <1>6
     DEF Exec!CommandStep

LEMMA ExecInit == Exec!Init => ExecInv
BY BoundsAssumption
   DEF Exec!Init, ExecInv, StreamInv, LoopInv, ExecTypes, Exec!TypeOK, Exec!Streams,
      Exec!Ended

LEMMA ExecStep ==
  ASSUME ExecInv, [Exec!Next]_Exec!vars
  PROVE  ExecInv'
<1>1. CASE Exec!VzctlStep \/ Exec!Alarm
  BY <1>1, ExecVzctlTypes, ExecVzctlInv DEF ExecInv
<1>2. CASE execPc # "done" /\ Exec!CommandStep
  BY <1>2, ExecCommandTypes, ExecCommandInv DEF ExecInv
<1>3. CASE UNCHANGED Exec!vars
  BY <1>3
     DEF Exec!vars, Exec!run, Exec!data, Exec!input, Exec!signals, Exec!given, ExecInv,
         ExecTypes, Exec!TypeOK, StreamInv, LoopInv, Exec!Ended, Exec!Streams
<1> QED
  BY <1>1, <1>2, <1>3 DEF Exec!Next

\* Whichever part MCHelpers runs, `vzctl exec' does what ExecLoop says.
LEMMA ExecPart == HelpersSpec => Exec!Spec
<1>1. HelpersInit => Exec!Init
  BY DEF HelpersInit
<1>2. [HelpersNext]_allVars => [Exec!Next]_Exec!vars
  BY DEF HelpersNext, DestroyNext, ExecNext, EnterNext, EnvNext, ArpNext, allVars, execVars,
         Exec!vars, Exec!run, Exec!data, Exec!input, Exec!signals, Exec!given
<1> QED
  BY <1>1, <1>2, PTL DEF HelpersSpec, Exec!Spec

LEMMA ExecInductive == Exec!Spec => []ExecInv
BY ExecInit, ExecStep, PTL DEF Exec!Spec

(* Whatever the command and the processes it leaves behind write, and      *)
(* whenever it ends, what it had written is shown when vzctl exec returns  *)
(* its result.                                                             *)
THEOREM OutputIsDelivered == HelpersSpec => []OutputDelivered
<1>1. ExecInv => OutputDelivered
  BY DEF ExecInv, LoopInv, OutputDelivered, Exec!OutputDelivered
<1> QED
  BY <1>1, ExecPart, ExecInductive, PTL

-----------------------------------------------------------------------------
(***************************************************************************)
(* EnterRelay: a session in the container.                                 *)
(***************************************************************************)

\* The types of EnterRelay, with those of the counters and flags.
EnterTypes ==
  /\ Enter!TypeOK
  /\ {in, tin, tout, out, enterWritten, enterShown, enterDue} \subseteq Nat
  /\ child_term \in [Enter!Procs -> BOOLEAN]
  /\ heir \in BOOLEAN

(* What select() has found readable is still so, or is at its end: the     *)
(* process that asked is the only one that reads it.                       *)
ReadyInv ==
  /\ "in" \in ready["inner"] /\ in = 0 => "in" \in closed
  /\ "out" \in ready["inner"] /\ tout = 0 => Enter!SlaveClosed
  /\ "out" \in ready["outer"] /\ out = 0 => enterPc["inner"] = "done"
  /\ enterPc["inner"] # "move" => ready["inner"] = {}
  /\ enterPc["outer"] # "move" => ready["outer"] = {}

\* Why an end is closed, and what a signal has told.
CloseInv ==
  /\ "in" \in closed => "in" \in enterFl["outer"]
  /\ "master" \in closed => "in" \in enterFl["outer"] \/ enterPc["inner"] = "done"
  /\ child_term["inner"] => shell = "exit"
  /\ child_term["outer"] => enterPc["inner"] = "done"
  /\ enterDue <= enterWritten

\* The inner process has passed on what the shell wrote before it ended.
PassedOn == shell = "exit" /\ enterShown + out >= enterDue

(* The inner process leaves its loop when the shell has ended and all it   *)
(* wrote is in `out', the outer one when the inner one is gone and `out'   *)
(* is empty; an outer process that failed leaves at once.                  *)
LeaveInv ==
  /\ enterRet = "ok" => enterSt = "closed"
  /\ enterPc["outer"] \notin {"status", "wait", "done"} => enterRet = "ok"
  /\ enterPc["outer"] = "status" => enterRet = "none"
  /\ enterPc["inner"] = "enter" => enterSt = "open" /\ shell = "none"
  /\ enterSt = "error" => enterPc["inner"] = "done"
  /\ enterPc["inner"] = "flush" => "in" \in enterFl["outer"] \/ shell = "exit"
  /\ enterPc["inner"] \in {"wait", "done"} /\ enterSt = "closed" /\ "in" \notin enterFl["outer"]
       => PassedOn
  /\ enterPc["outer"] = "flush" => enterPc["inner"] = "done"
  /\ enterPc["outer"] \in {"wait", "done"} /\ enterRet = "ok" =>
       enterPc["inner"] = "done" /\ out = 0

\* The terminal is in raw mode only in a session that was entered.
RawInv == (raw => enterRet = "ok") /\ Enter!TerminalRestored

EnterInv == EnterTypes /\ ReadyInv /\ CloseInv /\ LeaveInv /\ RawInv

LEMMA EnterEndsTypes ==
  ASSUME EnterTypes, Enter!EnterCt \/ Enter!ReadStatus \/ Enter!InnerEnds \/ Enter!OuterEnds
  PROVE  EnterTypes'
<1> USE BoundsAssumption
<1> USE DEF EnterTypes, Enter!TypeOK
<1> USE DEF Enter!Procs, Enter!loop, Enter!term, Enter!pipes, Enter!typing, Enter!session,
            Enter!Goes, Enter!SlaveClosed
<1>1. CASE Enter!EnterCt
  BY <1>1 DEF Enter!EnterCt
<1>2. CASE Enter!ReadStatus
  BY <1>2 DEF Enter!ReadStatus
<1>3. CASE Enter!InnerEnds
  BY <1>3 DEF Enter!InnerEnds
<1>4. CASE Enter!OuterEnds
  BY <1>4 DEF Enter!OuterEnds
<1> QED
  BY <1>1, <1>2, <1>3, <1>4
     DEF Enter!VzctlStep

LEMMA EnterLoopTypes ==
  ASSUME EnterTypes, NEW p \in Enter!Procs, Enter!LoopStep(p)
  PROVE  EnterTypes'
<1> USE BoundsAssumption
<1> USE DEF EnterTypes, Enter!TypeOK
<1> USE DEF Enter!Procs, Enter!loop, Enter!term, Enter!pipes, Enter!typing, Enter!session,
            Enter!Goes, Enter!SlaveClosed
<1> USE DEF Enter!TypedMoves, Enter!InMoves, Enter!InEnds, Enter!OutMoves, Enter!ShellMoves,
            Enter!OutShown, Enter!OutIsOver, Enter!InReadable, Enter!OutReadable
<1>1. CASE Enter!Test(p)
  BY <1>1 DEF Enter!Test
<1>2. CASE Enter!Select(p)
  BY <1>2 DEF Enter!Select
<1>3. CASE Enter!MoveIn(p)
  BY <1>3 DEF Enter!MoveIn
<1>4. CASE Enter!MoveOut(p)
  BY <1>4 DEF Enter!MoveOut
<1>5. CASE Enter!Flush(p)
  BY <1>5 DEF Enter!Flush
<1>6. CASE Enter!ChildHandler(p)
  BY <1>6 DEF Enter!ChildHandler
<1> QED
  BY <1>1, <1>2, <1>3, <1>4, <1>5, <1>6
     DEF Enter!LoopStep

LEMMA ShellTypes ==
  ASSUME EnterTypes, Enter!ShellStep
  PROVE  EnterTypes'
<1> USE BoundsAssumption
<1> USE DEF EnterTypes, Enter!TypeOK
<1> USE DEF Enter!Procs, Enter!loop, Enter!term, Enter!pipes, Enter!typing, Enter!session,
            Enter!Goes, Enter!SlaveClosed
<1>1. CASE Enter!ShellReads
  BY <1>1 DEF Enter!ShellReads
<1>2. CASE Enter!ShellWrites
  BY <1>2 DEF Enter!ShellWrites
<1>3. CASE Enter!ShellEnds
  BY <1>3 DEF Enter!ShellEnds
<1>4. CASE Enter!HeirEnds
  BY <1>4 DEF Enter!HeirEnds
<1> QED
  BY <1>1, <1>2, <1>3, <1>4
     DEF Enter!ShellStep

LEMMA EnterEndsInv ==
  ASSUME EnterInv, Enter!EnterCt \/ Enter!ReadStatus \/ Enter!InnerEnds \/ Enter!OuterEnds
  PROVE  ReadyInv' /\ CloseInv' /\ LeaveInv' /\ RawInv'
<1> USE DEF EnterInv, EnterTypes, Enter!TypeOK, ReadyInv, CloseInv, LeaveInv, RawInv,
            PassedOn, Enter!TerminalRestored
<1> USE DEF Enter!Procs, Enter!loop, Enter!term, Enter!pipes, Enter!typing, Enter!session,
            Enter!Goes, Enter!SlaveClosed
<1>1. CASE Enter!EnterCt
  BY <1>1 DEF Enter!EnterCt
<1>2. CASE Enter!ReadStatus
  BY <1>2 DEF Enter!ReadStatus
<1>3. CASE Enter!InnerEnds
  BY <1>3 DEF Enter!InnerEnds
<1>4. CASE Enter!OuterEnds
  BY <1>4 DEF Enter!OuterEnds
<1> QED
  BY <1>1, <1>2, <1>3, <1>4
     DEF Enter!VzctlStep

LEMMA OuterLoopInv ==
  ASSUME EnterInv, Enter!LoopStep("outer")
  PROVE  ReadyInv' /\ CloseInv' /\ LeaveInv' /\ RawInv'
<1> USE DEF EnterInv, EnterTypes, Enter!TypeOK, ReadyInv, CloseInv, LeaveInv, RawInv,
            PassedOn, Enter!TerminalRestored
<1> USE DEF Enter!Procs, Enter!loop, Enter!term, Enter!pipes, Enter!typing, Enter!session,
            Enter!Goes, Enter!SlaveClosed
<1> USE DEF Enter!TypedMoves, Enter!InMoves, Enter!InEnds, Enter!OutMoves, Enter!ShellMoves,
            Enter!OutShown, Enter!OutIsOver, Enter!InReadable, Enter!OutReadable
<1>1. CASE Enter!Test("outer")
  BY <1>1 DEF Enter!Test
<1>2. CASE Enter!Select("outer")
  BY <1>2 DEF Enter!Select
<1>3. CASE Enter!MoveIn("outer")
  BY <1>3 DEF Enter!MoveIn
<1>4. CASE Enter!MoveOut("outer")
  BY <1>4 DEF Enter!MoveOut
<1>5. CASE Enter!Flush("outer")
  BY <1>5 DEF Enter!Flush
<1>6. CASE Enter!ChildHandler("outer")
  BY <1>6 DEF Enter!ChildHandler
<1> QED
  BY <1>1, <1>2, <1>3, <1>4, <1>5, <1>6
     DEF Enter!LoopStep

LEMMA InnerLoopInv ==
  ASSUME EnterInv, Enter!LoopStep("inner")
  PROVE  ReadyInv' /\ CloseInv' /\ LeaveInv' /\ RawInv'
<1> USE DEF EnterInv, EnterTypes, Enter!TypeOK, ReadyInv, CloseInv, LeaveInv, RawInv,
            PassedOn, Enter!TerminalRestored
<1> USE DEF Enter!Procs, Enter!loop, Enter!term, Enter!pipes, Enter!typing, Enter!session,
            Enter!Goes, Enter!SlaveClosed
<1> USE DEF Enter!TypedMoves, Enter!InMoves, Enter!InEnds, Enter!OutMoves, Enter!ShellMoves,
            Enter!OutShown, Enter!OutIsOver, Enter!InReadable, Enter!OutReadable
<1>1. CASE Enter!Test("inner")
  BY <1>1 DEF Enter!Test
<1>2. CASE Enter!Select("inner")
  BY <1>2 DEF Enter!Select
<1>3. CASE Enter!MoveIn("inner")
  BY <1>3 DEF Enter!MoveIn
<1>4. CASE Enter!MoveOut("inner")
  BY <1>4 DEF Enter!MoveOut
<1>5. CASE Enter!Flush("inner")
  BY <1>5 DEF Enter!Flush
<1>6. CASE Enter!ChildHandler("inner")
  BY <1>6 DEF Enter!ChildHandler
<1> QED
  BY <1>1, <1>2, <1>3, <1>4, <1>5, <1>6
     DEF Enter!LoopStep

LEMMA ShellInv ==
  ASSUME EnterInv, Enter!ShellStep
  PROVE  ReadyInv' /\ CloseInv' /\ LeaveInv' /\ RawInv'
<1> USE DEF EnterInv, EnterTypes, Enter!TypeOK, ReadyInv, CloseInv, LeaveInv, RawInv,
            PassedOn, Enter!TerminalRestored
<1> USE DEF Enter!Procs, Enter!loop, Enter!term, Enter!pipes, Enter!typing, Enter!session,
            Enter!Goes, Enter!SlaveClosed
<1>1. CASE Enter!ShellReads
  BY <1>1 DEF Enter!ShellReads
<1>2. CASE Enter!ShellWrites
  BY <1>2 DEF Enter!ShellWrites
<1>3. CASE Enter!ShellEnds
  BY <1>3 DEF Enter!ShellEnds
<1>4. CASE Enter!HeirEnds
  BY <1>4 DEF Enter!HeirEnds
<1> QED
  BY <1>1, <1>2, <1>3, <1>4
     DEF Enter!ShellStep

LEMMA EnterInit == Enter!Init => EnterInv
<1> SUFFICES ASSUME Enter!Init PROVE EnterInv
  OBVIOUS
<1>1. enterPc = [p \in Enter!Procs |-> IF p = "outer" THEN "status" ELSE "enter"]
  BY DEF Enter!Init, Enter!Procs
<1>2. enterPc["outer"] = "status" /\ enterPc["inner"] = "enter"
  BY <1>1 DEF Enter!Procs
<1>3. EnterTypes
  <2>1. enterPc \in [Enter!Procs -> {"status", "enter", "test", "select", "blocked", "move",
                                   "flush", "wait", "done"}]
    BY <1>1 DEF Enter!Procs
  <2>2. /\ enterFl \in [Enter!Procs -> SUBSET {"in", "out"}]
        /\ ready \in [Enter!Procs -> SUBSET {"in", "out"}]
        /\ child_term \in [Enter!Procs -> BOOLEAN] /\ heir \in BOOLEAN
    BY DEF Enter!Init
  <2>3. /\ {in, tin, tout, out} \subseteq 0..Cap /\ user \in 0..Typed
        /\ enterWritten = tout + out + enterShown
        /\ {in, tin, tout, out, enterWritten, enterShown, enterDue} \subseteq Nat
    BY BoundsAssumption DEF Enter!Init
  <2> QED
    BY <2>1, <2>2, <2>3 DEF EnterTypes, Enter!TypeOK
<1>4. ReadyInv /\ CloseInv /\ LeaveInv /\ RawInv
  BY <1>2
     DEF Enter!Init, ReadyInv, CloseInv, LeaveInv, RawInv, Enter!TerminalRestored,
        Enter!Procs
<1> QED
  BY <1>3, <1>4 DEF EnterInv

LEMMA EnterStep ==
  ASSUME EnterInv, [Enter!Next]_Enter!vars
  PROVE  EnterInv'
<1>1. CASE Enter!EnterCt \/ Enter!ReadStatus \/ Enter!InnerEnds \/ Enter!OuterEnds
  BY <1>1, EnterEndsTypes, EnterEndsInv DEF EnterInv
<1>2. ASSUME NEW p \in Enter!Procs, Enter!LoopStep(p)
      PROVE  EnterInv'
  BY <1>2, EnterLoopTypes, OuterLoopInv, InnerLoopInv DEF EnterInv, Enter!Procs
<1>3. CASE Enter!ShellStep
  BY <1>3, ShellTypes, ShellInv DEF EnterInv
<1>4. CASE UNCHANGED Enter!vars
  BY <1>4
     DEF Enter!vars, Enter!loop, Enter!term, Enter!pipes, Enter!typing, Enter!session,
        EnterInv,
         EnterTypes, Enter!TypeOK, ReadyInv, CloseInv, LeaveInv, PassedOn, RawInv,
         Enter!TerminalRestored, Enter!SlaveClosed
<1> QED
  BY <1>1, <1>2, <1>3, <1>4 DEF Enter!Next, Enter!VzctlStep

\* Whichever part MCHelpers runs, `vzctl enter' does what EnterRelay says.
LEMMA EnterPart == HelpersSpec => Enter!Spec
<1>1. HelpersInit => Enter!Init
  BY DEF HelpersInit
<1>2. [HelpersNext]_allVars => [Enter!Next]_Enter!vars
  BY DEF HelpersNext, DestroyNext, ExecNext, EnterNext, EnvNext, ArpNext, allVars,
     enterVars,
         Enter!vars, Enter!loop, Enter!term, Enter!pipes, Enter!typing, Enter!session
<1> QED
  BY <1>1, <1>2, PTL DEF HelpersSpec, Enter!Spec

LEMMA EnterInductive == Enter!Spec => []EnterInv
BY EnterInit, EnterStep, PTL DEF Enter!Spec

(* However the two processes, the signals and the shell interleave: when   *)
(* vzctl enter returns from a session the user has seen what the shell     *)
(* wrote before it ended, unless the user's own input has ended, and the   *)
(* terminal is as it was.                                                  *)
THEOREM SessionsEndWell == HelpersSpec => []SessionEndsWell
<1>1. EnterInv => SessionEndsWell
  BY DEF EnterInv, EnterTypes, LeaveInv, RawInv, PassedOn, SessionEndsWell,
         Enter!SessionEndsWell, Enter!AllShown
<1> QED
  BY <1>1, EnterPart, EnterInductive, PTL

-----------------------------------------------------------------------------
(***************************************************************************)
(* CtEnv: a container on an upstream kernel.                               *)
(***************************************************************************)

\* The types of CtEnv, with the shape of the entrants' records.
FlagTypes ==
  /\ userns \in BOOLEAN /\ cgroup \in BOOLEAN /\ status \in BOOLEAN /\ err \in BOOLEAN

EntSteps == {"idle", "join", "setns", "in", "exiting"}
Spaces == Inits \cup {"none", "host", "partly"}
EntRecords ==
  [st : EntSteps, ref : Inits \cup Entrants \cup {"none", "creator"}, ns : Spaces]
EntTypes == ent \in [Entrants -> EntRecords]

StepTypes ==
  /\ envPc \in {"idle", "status", "setup", "release", "err", "fail", "kill", "empty", "wait"}
  /\ envRet \in {"none", "ok", "error", "running", "stopped", "timeout"}
  /\ creator \in {"gone", "sweep", "cleanup", "create", "join", "open", "clone", "pid",
                   "map", "link", "report", "exiting"}
  /\ waitp \in {"open", "go", "closed"}
  /\ init \in [Inits -> Env!InitSteps] /\ cur \in Inits \cup {"none"}
  /\ tasks \subseteq Inits \cup Entrants \cup {"creator"}
  /\ statefile \in Inits \cup {"absent", "empty"} /\ link \in Inits \cup {"absent"}
  /\ mapped \subseteq Inits

EnvTypes == FlagTypes /\ StepTypes /\ EntTypes

LEMMA EnvTypesOK == EnvTypes => Env!TypeOK
BY DEF EnvTypes, FlagTypes, StepTypes, EntTypes, EntRecords, EntSteps, Spaces,
       Env!TypeOK, Env!Nothing

\* What an entrant does to its record.
LEMMA EntMoves ==
  ASSUME EntTypes, NEW e \in Entrants, NEW st \in EntSteps, NEW ns \in Spaces
  PROVE  /\ [ent EXCEPT ![e].st = st] \in [Entrants -> EntRecords]
         /\ [ent EXCEPT ![e].st = st, ![e].ns = ns] \in [Entrants -> EntRecords]
BY DEF EntTypes, EntRecords

CreatorBusy == creator \notin {"gone", "exiting"}

\* The init that executes, or has executed, /sbin/init.
Up(i) == init[i] \in {"exec", "running"}

Ended(i) == init[i] \in {"none", "exiting", "gone"}

\* The creator has told of no failure, and will tell of none.
Made ==
  \/ envPc = "status" /\ ~CreatorBusy /\ ~status
  \/ envPc \in {"setup", "release", "err"}

(* The start.  The creator works only while vzctl reads the status pipe,   *)
(* and from its own place in the cgroup; when it has left without a report *)
(* the init it cloned is in the cgroup, and both files name it.            *)
StartInv ==
  /\ CreatorBusy => envPc = "status" /\ ~status
  /\ creator \in {"open", "clone", "pid", "map", "link"} => "creator" \in tasks
  /\ creator \in {"pid", "map", "link"} \/ Made =>
       cur \in Inits /\ (cur \in tasks \/ init[cur] = "gone")
  /\ creator \in {"map", "link"} => statefile = cur
  /\ Made => statefile = cur /\ link = cur
  /\ envPc \in {"setup", "release"} => Ended(cur) \/ init[cur] = "waiting"

(* The release.  No byte is in the wait pipe before the container is set   *)
(* up; once the start is over, the init that the byte was for has executed *)
(* /sbin/init or has ended.                                                *)
ReleaseInv ==
  /\ envPc \in {"status", "setup", "release"} => waitp = "open" /\ ~err
  /\ waitp = "go" => cur \in Inits
  /\ waitp = "go" /\ envPc # "err" => Ended(cur) \/ init[cur] = "running"
  /\ err /\ envPc \in {"err", "fail"} => Ended(cur)

(* The init that is up is the one of the last start, is in the cgroup and  *)
(* is known to both files; none is up while vzctl starts or has killed.    *)
UpInv ==
  /\ \A i \in Inits : Up(i) => i = cur /\ i \in tasks /\ statefile = i /\ link = i
  /\ envPc \notin {"err", "idle", "kill"} => \A i \in Inits : ~Up(i)
  /\ envPc = "idle" /\ envRet \in {"error", "stopped"} => \A i \in Inits : ~Up(i)

EnvInv == EnvTypes /\ StartInv /\ ReleaseInv /\ UpInv

LEMMA VzctlTypes ==
  ASSUME EnvTypes, Env!Start \/ Env!Stop \/ Env!VzctlStep
  PROVE  EnvTypes'
<1> USE ProcessesAssumption
<1> USE DEF EnvTypes, FlagTypes, StepTypes, EntTypes, EntRecords, EntSteps, Spaces,
            Env!InitSteps, Env!Nothing, Env!pipevars, Env!filevars
<1> USE DEF Env!KillTasks, Env!DestroyContainer
<1>1. CASE Env!Start
  BY <1>1 DEF Env!Start
<1>2. CASE Env!ReadStatus
  BY <1>2 DEF Env!ReadStatus
<1>3. CASE Env!SetupRes
  BY <1>3 DEF Env!SetupRes
<1>4. CASE Env!ReleaseInit
  BY <1>4 DEF Env!ReleaseInit
<1>5. CASE Env!ReadErr
  BY <1>5 DEF Env!ReadErr
<1>6. CASE Env!StartFails
  BY <1>6 DEF Env!StartFails
<1>7. CASE Env!Stop
  BY <1>7 DEF Env!Stop
<1>8. CASE Env!Kill
  BY <1>8 DEF Env!Kill
<1>9. CASE Env!Destroy
  <2>1. FlagTypes'
    BY <1>9, Zenon DEF Env!Destroy
  <2>2. StepTypes' /\ EntTypes'
    BY <1>9 DEF Env!Destroy
  <2> QED BY <2>1, <2>2
<1>10. CASE Env!WaitStopped
  BY <1>10 DEF Env!WaitStopped
<1> QED
  BY <1>1, <1>2, <1>3, <1>4, <1>5, <1>6, <1>7, <1>8, <1>9, <1>10 DEF Env!VzctlStep

LEMMA CreatorTypes ==
  ASSUME EnvTypes, StartInv, Env!CreatorStep
  PROVE  EnvTypes'
<1> USE ProcessesAssumption
<1> USE DEF EnvTypes, FlagTypes, StepTypes, EntTypes, EntRecords, EntSteps, Spaces,
            Env!InitSteps, Env!Nothing, Env!pipevars, Env!filevars
<1> USE DEF Env!KillTasks, Env!DestroyContainer, Env!CreatorAt
<1>1. CASE Env!Sweep
  BY <1>1 DEF Env!Sweep
<1>2. CASE Env!Cleanup
  <2>1. FlagTypes'
    BY <1>2, Zenon DEF Env!Cleanup
  <2>2. StepTypes' /\ EntTypes'
    BY <1>2 DEF Env!Cleanup
  <2> QED BY <2>1, <2>2
<1>3. CASE Env!CreateContainer
  <2>1. FlagTypes'
    BY <1>3, Zenon DEF Env!CreateContainer
  <2>2. StepTypes' /\ EntTypes'
    BY <1>3 DEF Env!CreateContainer
  <2> QED BY <2>1, <2>2
<1>4. CASE Env!AddCreator
  BY <1>4 DEF Env!AddCreator
<1>5. CASE Env!OpenStateFile
  BY <1>5 DEF Env!OpenStateFile
<1>6. CASE Env!Clone
  <2>1. FlagTypes'
    BY <1>6, Zenon DEF Env!Clone
  <2>2. StepTypes' /\ EntTypes'
    BY <1>6 DEF Env!Clone
  <2> QED BY <2>1, <2>2
<1>7. CASE Env!WritePid
  <2>1. FlagTypes'
    BY <1>7, Zenon DEF Env!WritePid
  <2>2. StepTypes' /\ EntTypes'
    BY <1>7 DEF Env!WritePid, StartInv
  <2> QED BY <2>1, <2>2
<1>8. CASE Env!MapUsers
  <2>1. FlagTypes'
    BY <1>8, Zenon DEF Env!MapUsers
  <2>2. StepTypes' /\ EntTypes'
    BY <1>8 DEF Env!MapUsers, StartInv
  <2> QED BY <2>1, <2>2
<1>9. CASE Env!LinkNetns
  <2>1. FlagTypes'
    BY <1>9, Zenon DEF Env!LinkNetns
  <2>2. StepTypes' /\ EntTypes'
    BY <1>9 DEF Env!LinkNetns, StartInv
  <2> QED BY <2>1, <2>2
<1>10. CASE Env!Report
  BY <1>10 DEF Env!Report
<1>11. CASE Env!CreatorExits
  BY <1>11 DEF Env!CreatorExits
<1> QED
  BY <1>1, <1>2, <1>3, <1>4, <1>5, <1>6, <1>7, <1>8, <1>9, <1>10, <1>11 
     DEF Env!CreatorStep

LEMMA InitTypes ==
  ASSUME EnvTypes, NEW i \in Inits, Env!InitStep(i) \/ Env!Halts(i)
  PROVE  EnvTypes'
<1> USE ProcessesAssumption
<1> USE DEF EnvTypes, FlagTypes, StepTypes, EntTypes, EntRecords, EntSteps, Spaces,
            Env!InitSteps, Env!Nothing, Env!pipevars, Env!filevars
<1> USE DEF Env!InitAt, Env!OthersUnchanged
<1>1. CASE Env!ReadUserns(i)
  BY <1>1 DEF Env!ReadUserns
<1>2. CASE Env!SetupInit(i)
  <2>1. UNCHANGED <<envPc, envRet, userns, creator, cur, cgroup, tasks, statefile, link,
                    status, waitp, mapped, err, ent>>
    BY <1>2 DEF Env!SetupInit
  <2>2. init' \in [Inits -> Env!InitSteps]
    BY <1>2 DEF Env!SetupInit
  <2> HIDE DEF EntRecords, Env!InitSteps
  <2> QED
    BY <2>1, <2>2
<1>3. CASE Env!ReadWait(i)
  <2>1. UNCHANGED <<envPc, envRet, userns, creator, cur, cgroup, tasks, statefile, link,
                    status, waitp, mapped, err, ent>>
    BY <1>3 DEF Env!ReadWait
  <2>2. init' \in [Inits -> Env!InitSteps]
    BY <1>3 DEF Env!ReadWait
  <2> HIDE DEF EntRecords, Env!InitSteps
  <2> QED
    BY <2>1, <2>2
<1>4. CASE Env!ExecInit(i)
  <2>1. FlagTypes'
    BY <1>4, Zenon DEF Env!ExecInit
  <2>2. StepTypes' /\ EntTypes'
    BY <1>4 DEF Env!ExecInit
  <2> QED BY <2>1, <2>2
<1>5. CASE Env!InitExits(i)
  BY <1>5 DEF Env!InitExits
<1>6. CASE Env!Halts(i)
  BY <1>6 DEF Env!Halts
<1> QED
  BY <1>1, <1>2, <1>3, <1>4, <1>5, <1>6 DEF Env!InitStep

LEMMA EntrantTypes ==
  ASSUME EnvTypes, NEW e \in Entrants, Env!GetPid(e) \/ Env!EntrantStep(e)
  PROVE  EnvTypes'
<1> USE ProcessesAssumption
<1> USE DEF EnvTypes, FlagTypes, StepTypes, EntTypes, EntRecords, EntSteps, Spaces,
            Env!InitSteps, Env!Nothing, Env!pipevars, Env!filevars
<1> USE DEF Env!EntAt, Env!RestUnchanged
<1>1. CASE Env!GetPid(e)
  BY <1>1 DEF Env!GetPid
<1>2. CASE Env!JoinCgroup(e)
  BY <1>2 DEF Env!JoinCgroup
<1>3. CASE Env!SetNs(e)
  <2> HIDE DEF EntRecords, EntSteps, Spaces
  <2> DEFINE ns == Env!NamespacesOf(ent[e].ref)
             st == IF ns = "none" THEN "exiting" ELSE "in"
  <2>1. ns \in Spaces
    BY DEF Env!NamespacesOf, Spaces
  <2>2. st \in EntSteps
    BY DEF EntSteps
  <2>3. ent' = [ent EXCEPT ![e].st = st, ![e].ns = ns]
    BY <1>3 DEF Env!SetNs
  <2>4. UNCHANGED <<envPc, envRet, userns, creator, init, cur, cgroup, tasks, statefile,
                    link, status, waitp, mapped, err>>
    BY <1>3 DEF Env!SetNs
  <2> HIDE DEF ns, st
  <2>5. EntTypes'
    BY <2>1, <2>2, <2>3, EntMoves
  <2> QED BY <2>4, <2>5
<1>4. CASE Env!CommandEnds(e)
  BY <1>4 DEF Env!CommandEnds
<1>5. CASE Env!EntrantExits(e)
  BY <1>5 DEF Env!EntrantExits, Env!Idle
<1> QED
  BY <1>1, <1>2, <1>3, <1>4, <1>5 DEF Env!EntrantStep

LEMMA VzctlInv ==
  ASSUME EnvInv, Env!Start \/ Env!Stop \/ Env!VzctlStep
  PROVE  StartInv' /\ ReleaseInv' /\ UpInv'
<1> USE ProcessesAssumption
<1> USE DEF EnvInv, EnvTypes, StepTypes, StartInv, ReleaseInv, UpInv, Made, CreatorBusy, Up,
            Ended
<1> USE DEF Env!InitSteps, Env!Nothing, Env!pipevars, Env!filevars, Env!IsRunning
<1> USE DEF Env!KillTasks, Env!DestroyContainer, Env!StatusClosed, Env!Closed, Env!Gone
<1>1. CASE Env!Start
  BY <1>1 DEF Env!Start
<1>2. CASE Env!ReadStatus
  BY <1>2 DEF Env!ReadStatus
<1>3. CASE Env!SetupRes
  BY <1>3 DEF Env!SetupRes
<1>4. CASE Env!ReleaseInit
  BY <1>4 DEF Env!ReleaseInit
<1>5. CASE Env!ReadErr
  BY <1>5 DEF Env!ReadErr
<1>6. CASE Env!StartFails
  BY <1>6 DEF Env!StartFails
<1>7. CASE Env!Stop
  BY <1>7 DEF Env!Stop
<1>8. CASE Env!Kill
  BY <1>8 DEF Env!Kill
<1>9. CASE Env!Destroy
  BY <1>9 DEF Env!Destroy
<1>10. CASE Env!WaitStopped
  BY <1>10 DEF Env!WaitStopped
<1> QED
  BY <1>1, <1>2, <1>3, <1>4, <1>5, <1>6, <1>7, <1>8, <1>9, <1>10 DEF Env!VzctlStep

LEMMA CreatorInv ==
  ASSUME EnvInv, Env!CreatorStep
  PROVE  StartInv' /\ ReleaseInv' /\ UpInv'
<1> USE ProcessesAssumption
<1> USE DEF EnvInv, EnvTypes, StepTypes, StartInv, ReleaseInv, UpInv, Made, CreatorBusy, Up,
            Ended
<1> USE DEF Env!InitSteps, Env!Nothing, Env!pipevars, Env!filevars, Env!IsRunning
<1> USE DEF Env!KillTasks, Env!DestroyContainer, Env!CreatorAt
<1>1. CASE Env!Sweep
  BY <1>1 DEF Env!Sweep
<1>2. CASE Env!Cleanup
  BY <1>2 DEF Env!Cleanup
<1>3. CASE Env!CreateContainer
  BY <1>3 DEF Env!CreateContainer
<1>4. CASE Env!AddCreator
  BY <1>4 DEF Env!AddCreator
<1>5. CASE Env!OpenStateFile
  BY <1>5 DEF Env!OpenStateFile
<1>6. CASE Env!Clone
  BY <1>6 DEF Env!Clone
<1>7. CASE Env!WritePid
  BY <1>7 DEF Env!WritePid
<1>8. CASE Env!MapUsers
  BY <1>8 DEF Env!MapUsers
<1>9. CASE Env!LinkNetns
  BY <1>9 DEF Env!LinkNetns
<1>10. CASE Env!Report
  BY <1>10 DEF Env!Report
<1>11. CASE Env!CreatorExits
  BY <1>11 DEF Env!CreatorExits
<1> QED
  BY <1>1, <1>2, <1>3, <1>4, <1>5, <1>6, <1>7, <1>8, <1>9, <1>10, <1>11 
     DEF Env!CreatorStep

LEMMA InitInv ==
  ASSUME EnvInv, NEW i \in Inits, Env!InitStep(i) \/ Env!Halts(i)
  PROVE  StartInv' /\ ReleaseInv' /\ UpInv'
<1> USE ProcessesAssumption
<1> USE DEF EnvInv, EnvTypes, StepTypes, StartInv, ReleaseInv, UpInv, Made, CreatorBusy, Up,
            Ended
<1> USE DEF Env!InitSteps, Env!Nothing, Env!pipevars, Env!filevars, Env!IsRunning
<1> USE DEF Env!InitAt, Env!OthersUnchanged, Env!WaitEof
<1>1. CASE Env!ReadUserns(i)
  BY <1>1 DEF Env!ReadUserns
<1>2. CASE Env!SetupInit(i)
  <2>1. /\ UNCHANGED <<envPc, envRet, creator, cur, tasks, statefile, link, status, waitp, err>>
        /\ init[i] = "setup"
    BY <1>2 DEF Env!SetupInit
  <2>2. CASE init' = [init EXCEPT ![i] = "waiting"]
    BY <2>1, <2>2
  <2>3. CASE init' = [init EXCEPT ![i] = "exiting"]
    BY <2>1, <2>3
  <2> QED
    BY <1>2, <2>2, <2>3 DEF Env!SetupInit
<1>3. CASE Env!ReadWait(i)
  <2>1. UNCHANGED <<envPc, envRet, creator, cur, tasks, statefile, link, status, waitp, err>>
    BY <1>3 DEF Env!ReadWait
  \* The byte is read only while vzctl waits for the error pipe.
  <2>2. CASE i = cur /\ waitp = "go" /\ init[i] = "waiting" /\ init' = [init EXCEPT ![i] = "exec"]
    <3>1. envPc = "err"
      BY <2>2
    <3> QED
      BY <2>1, <2>2, <3>1
  <2>3. CASE init[i] = "waiting" /\ init' = [init EXCEPT ![i] = "exiting"]
    BY <2>1, <2>3
  <2> QED
    BY <1>3, <2>2, <2>3 DEF Env!ReadWait
<1>4. CASE Env!ExecInit(i)
  <2>1. /\ UNCHANGED <<envPc, envRet, creator, cur, tasks, statefile, link, status, waitp>>
        /\ init[i] = "exec"
    BY <1>4 DEF Env!ExecInit
  <2>2. i = cur /\ envPc \in {"err", "idle", "kill"}
    BY <2>1
  <2>3. CASE init' = [init EXCEPT ![i] = "running"] /\ UNCHANGED err
    BY <2>1, <2>2, <2>3
  <2>4. CASE init' = [init EXCEPT ![i] = "exiting"]
    BY <2>1, <2>2, <2>4
  <2> QED
    BY <1>4, <2>3, <2>4 DEF Env!ExecInit
<1>5. CASE Env!InitExits(i)
  BY <1>5 DEF Env!InitExits
<1>6. CASE Env!Halts(i)
  BY <1>6 DEF Env!Halts
<1> QED
  BY <1>1, <1>2, <1>3, <1>4, <1>5, <1>6 DEF Env!InitStep

LEMMA EntrantInv ==
  ASSUME EnvInv, NEW e \in Entrants, Env!GetPid(e) \/ Env!EntrantStep(e)
  PROVE  StartInv' /\ ReleaseInv' /\ UpInv'
<1> USE ProcessesAssumption
<1> USE DEF EnvInv, EnvTypes, StepTypes, StartInv, ReleaseInv, UpInv, Made, CreatorBusy, Up,
            Ended
<1> USE DEF Env!InitSteps, Env!Nothing, Env!pipevars, Env!filevars, Env!IsRunning
<1> USE DEF Env!EntAt, Env!RestUnchanged
<1>1. CASE Env!GetPid(e)
  BY <1>1 DEF Env!GetPid
<1>2. CASE Env!JoinCgroup(e)
  BY <1>2 DEF Env!JoinCgroup
<1>3. CASE Env!SetNs(e)
  BY <1>3 DEF Env!SetNs
<1>4. CASE Env!CommandEnds(e)
  BY <1>4 DEF Env!CommandEnds
<1>5. CASE Env!EntrantExits(e)
  BY <1>5 DEF Env!EntrantExits
<1> QED
  BY <1>1, <1>2, <1>3, <1>4, <1>5 DEF Env!EntrantStep

LEMMA EnvInit == Env!Init => EnvInv
<1> USE ProcessesAssumption
<1> SUFFICES ASSUME Env!Init PROVE EnvInv
  OBVIOUS
<1>1. FlagTypes
  BY Zenon DEF Env!Init, FlagTypes
<1>2. StepTypes
  BY DEF Env!Init, StepTypes, Env!InitSteps, Env!Nothing
<1>3. EntTypes
  BY DEF Env!Init, EntTypes, EntRecords, EntSteps, Spaces, Env!Idle, Env!Nothing
<1>4. StartInv /\ ReleaseInv /\ UpInv
  BY DEF Env!Init, StartInv, ReleaseInv, UpInv, Made, CreatorBusy, Up, Env!Nothing
<1> QED
  BY <1>1, <1>2, <1>3, <1>4 DEF EnvInv, EnvTypes

LEMMA EnvStep ==
  ASSUME EnvInv, [Env!Next]_Env!vars
  PROVE  EnvInv'
<1>1. CASE Env!Start \/ Env!Stop \/ Env!VzctlStep
  BY <1>1, VzctlTypes, VzctlInv DEF EnvInv
<1>2. CASE Env!CreatorStep
  BY <1>2, CreatorTypes, CreatorInv DEF EnvInv
<1>3. ASSUME NEW i \in Inits, Env!InitStep(i) \/ Env!Halts(i)
      PROVE  EnvInv'
  BY <1>3, InitTypes, InitInv DEF EnvInv
<1>4. ASSUME NEW e \in Entrants, Env!GetPid(e) \/ Env!EntrantStep(e)
      PROVE  EnvInv'
  BY <1>4, EntrantTypes, EntrantInv DEF EnvInv
<1>5. CASE UNCHANGED Env!vars
  BY <1>5
     DEF Env!vars, Env!filevars, Env!pipevars, EnvInv, EnvTypes, FlagTypes, StepTypes,
         EntTypes, EntRecords, EntSteps, Spaces, StartInv, ReleaseInv, UpInv, Made,
         CreatorBusy, Up, Ended
<1> QED
  BY <1>1, <1>2, <1>3, <1>4, <1>5 DEF Env!Next

\* Whichever part MCHelpers runs, the processes of CtEnv do what CtEnv says.
LEMMA EnvPart == HelpersSpec => Env!Spec
<1>1. HelpersInit => Env!Init
  BY DEF HelpersInit
<1>2. [HelpersNext]_allVars => [Env!Next]_Env!vars
  BY DEF HelpersNext, DestroyNext, ExecNext, EnterNext, EnvNext, ArpNext, allVars, envVars,
         Env!vars, Env!filevars, Env!pipevars
<1> QED
  BY <1>1, <1>2, PTL DEF HelpersSpec, Env!Spec

LEMMA EnvInductive == Env!Spec => []EnvInv
BY EnvInit, EnvStep, PTL DEF Env!Spec

(* No interleaving of vzctl, the creator, the inits and those who enter,   *)
(* and no failure, leaves /sbin/init executing after a start that was      *)
(* reported as failed or a stop that was reported as done.                 *)
THEOREM DownStaysDown == HelpersSpec => []DownMeansDown
<1>1. EnvInv => DownMeansDown
  BY DEF EnvInv, UpInv, Up, DownMeansDown, Env!DownMeansDown
<1> QED
  BY <1>1, EnvPart, EnvInductive, PTL

(* While no command is under way the init that runs is in its cgroup, and  *)
(* the state file and the link to its network namespace both name it.      *)
THEOREM RunningIsFound == HelpersSpec => []RunningInitIsKnown
<1>1. EnvInv => RunningInitIsKnown
  BY DEF EnvInv, UpInv, Up, RunningInitIsKnown, Env!RunningInitIsKnown
<1> QED
  BY <1>1, EnvPart, EnvInductive, PTL

-----------------------------------------------------------------------------
(***************************************************************************)
(* ArpSend: a detection.                                                   *)
(***************************************************************************)

Packets == [sndr : owners \cup {None}, rcpt : Addrs \cup {None}]

\* The options, and what main() has read: nothing before the first recvfrom() and between two.
ReadInv ==
  /\ arpCmd \in {"detect", "update", "request", "reply"}
  /\ owners \subseteq Addrs /\ trg_ipaddr \subseteq Addrs /\ recv_response \in Nat
  /\ socket \in Seq(Packets)
  /\ packet \in Packets \cup {None}
  /\ arpPc \in {"options", "device", "create", "first", "recv"} => packet = None
  /\ arpPc \in {"got", "handle", "handled"} => packet \in Packets

\* Where the packet that was read is not yet counted.
Pending == IF packet # None /\ arpPc \in {"got", "handle", "exit"} THEN {packet.sndr} ELSE {}

(* The answers counted come from targets that another host has; as long as *)
(* none is counted, no target has answered but in the packet at hand.      *)
CountInv ==
  /\ recv_response > 0 => trg_ipaddr \cap owners # {}
  /\ recv_response = 0 => taken \cap trg_ipaddr \subseteq Pending

\* The exit code tells whether an answer was counted.
CodeInv ==
  arpCmd = "detect" => /\ arpCode = "ok" => recv_response = 0
                       /\ arpCode = "recv" => recv_response > 0

ArpInv == Arp!TypeOK /\ ReadInv /\ CountInv /\ CodeInv

\* ArpSend counts with the Cardinality of its own instance of FiniteSets.
LEMMA SameCount ==
  ASSUME NEW S
  PROVE  Arp!Cardinality(S) = Cardinality(S)
BY Zenon DEF Arp!Cardinality, Cardinality

\* The targets that a packet comes from: the one that sent it, if it is one.
LEMMA MatchingCount ==
  ASSUME NEW p
  PROVE  /\ Cardinality(Arp!Matching(p)) \in Nat
         /\ Cardinality(Arp!Matching(p)) > 0 <=> p.sndr \in trg_ipaddr
<1>1. CASE p.sndr \in trg_ipaddr
  <2>1. Arp!Matching(p) = {p.sndr}
    BY <1>1 DEF Arp!Matching
  <2> QED
    BY <1>1, <2>1, FS_Singleton
<1>2. CASE p.sndr \notin trg_ipaddr
  <2>1. Arp!Matching(p) = {}
    BY <1>2 DEF Arp!Matching
  <2> QED
    BY <1>2, <2>1, FS_EmptySet
<1> QED
  BY <1>1, <1>2

\* The handler of SIGALRM sends, or ends the program.
LEMMA SenderMoves ==
  ASSUME ArpInv, arpCode = "none", NEW next, next # "exit", Arp!Sender(next)
  PROVE  /\ \/ arpPc' = next /\ arpCode' = "none"
            \/ arpPc' = "exit" /\ arpCode' \in {"ok", "recv", "norecv", "sys"}
         /\ alarm' \in {"off", "armed"}
         /\ arpCmd = "detect" /\ arpCode' = "ok" => recv_response = 0
         /\ arpCmd = "detect" /\ arpCode' = "recv" => recv_response > 0
BY DEF ArpInv, ReadInv, Arp!TypeOK, Arp!Sender, Arp!Exit, Arp!FinishCode, Arp!Finish,
   Arp!Fault

LEMMA ArpMoves ==
  ASSUME ArpInv, Arp!Next
  PROVE  ArpInv'
<1> USE PacketAssumption
<1> USE DEF ArpInv, ReadInv, CountInv, CodeInv, Arp!TypeOK, Packets, Pending
<1> USE DEF Arp!options, Arp!wire, Arp!Fault, Arp!Packet, Arp!Own, Arp!Exit, Arp!FinishCode,
            Arp!Finish
<1>1. CASE Arp!ParseOptions
  BY <1>1 DEF Arp!ParseOptions
<1>2. CASE Arp!Ipv6
  BY <1>2 DEF Arp!Ipv6
<1>3. CASE Arp!InitDevice
  BY <1>3 DEF Arp!InitDevice
<1>4. CASE Arp!CreatePacket
  BY <1>4 DEF Arp!CreatePacket
<1>5. CASE Arp!FirstSend
  <2>1. arpPc = "first" /\ arpCode = "none" /\ packet = None
    BY <1>5 DEF Arp!FirstSend
  <2>2. UNCHANGED <<arpCmd, trg_ipaddr, socket, owners, packet, recv_response, taken>>
    BY <1>5 DEF Arp!FirstSend
  <2> QED
    BY <1>5, <2>1, <2>2, SenderMoves DEF Arp!FirstSend
<1>6. CASE Arp!Alarm
  <2>1. arpPc \in {"recv", "got"} /\ arpCode = "none"
    BY <1>6 DEF Arp!Alarm
  <2>2. UNCHANGED <<arpCmd, trg_ipaddr, socket, owners, packet, recv_response, taken>>
    BY <1>6 DEF Arp!Alarm
  <2>3. Arp!Sender(arpPc)
    BY <1>6 DEF Arp!Alarm
  <2> QED
    BY <2>1, <2>2, <2>3, SenderMoves
<1>7. CASE Arp!Expire
  BY <1>7 DEF Arp!Expire
<1>8. CASE Arp!Recv
  <2>1. arpPc = "recv" /\ arpPc' = "got" /\ packet = None /\ packet' = Head(socket)
    BY <1>8 DEF Arp!Recv
  <2>2. UNCHANGED <<arpCmd, trg_ipaddr, alarm, owners, recv_response, arpCode>>
    BY <1>8 DEF Arp!Recv
  <2>3. packet' \in Packets /\ socket' \in Seq(Packets)
    <3>1. socket \in Seq(Packets) /\ socket # <<>> /\ packet' = Head(socket)
          /\ socket' = Tail(socket)
      BY <1>8 DEF Arp!Recv
    <3>2. UNCHANGED owners
      BY <1>8 DEF Arp!Recv
    <3> HIDE DEF Packets
    <3>3. Head(socket) \in Packets /\ Tail(socket) \in Seq(Packets)
      BY <3>1
    <3> QED
      BY <3>1, <3>3
  <2>4. taken' = IF packet'.sndr = None THEN taken ELSE taken \cup {packet'.sndr}
    BY <1>8 DEF Arp!Recv
  <2> QED
    BY <2>1, <2>2, <2>3, <2>4
<1>9. CASE Arp!Block
  BY <1>9 DEF Arp!Block
<1>10. CASE Arp!RecvPack
  <2> DEFINE n == Cardinality(Arp!Matching(packet))
  <2>1. /\ n \in Nat /\ (n > 0 <=> packet.sndr \in trg_ipaddr)
        /\ Arp!Matching(packet) # {} <=> packet.sndr \in trg_ipaddr
    BY MatchingCount DEF Arp!Matching
  <2>2. arpPc = "handle" /\ packet \in Packets /\ arpCode = "none"
    BY <1>10 DEF Arp!RecvPack
  <2>3. UNCHANGED <<arpCmd, trg_ipaddr, alarm, socket, owners, packet, taken>>
    BY <1>10 DEF Arp!RecvPack
  <2>4. recv_response' = recv_response + n
    <3> HIDE DEF ArpInv, Arp!Finish
    <3> QED BY <1>10, SameCount, Zenon DEF Arp!RecvPack
  <2>5. \/ arpPc' = "handled" /\ arpCode' = "none"
        \/ /\ arpPc' = "exit" /\ arpCode' \in {"ok", "recv", "norecv"}
           /\ arpCmd = "detect" => arpCode' = "recv" /\ recv_response' > 0
    <3> HIDE DEF n
    <3> QED BY <1>10, <2>1, <2>2, <2>4 DEF Arp!RecvPack
  <2> HIDE DEF n
  <2> QED
    BY <2>1, <2>2, <2>3, <2>4, <2>5
<1>11. CASE Arp!Unblock
  <2>1. arpPc = "handled" /\ arpCode = "none" /\ packet' = None
    BY <1>11 DEF Arp!Unblock
  <2>2. UNCHANGED <<arpCmd, trg_ipaddr, socket, owners, recv_response, taken>>
    BY <1>11 DEF Arp!Unblock
  <2>3. CASE Arp!Sender("recv")
    BY <2>1, <2>2, <2>3, SenderMoves
  <2>4. CASE arpPc' = "recv" /\ UNCHANGED <<alarm, arpCode>>
    BY <2>1, <2>2, <2>4
  <2> QED
    BY <1>11, <2>3, <2>4 DEF Arp!Unblock
<1>12. CASE \E x \in Addrs : Arp!Answer(x) \/ Arp!Question(x)
  <2>1. PICK p \in Packets : Arp!Arrive(p)
    BY <1>12 DEF Arp!Answer, Arp!Question
  <2>2. socket' \in Seq(Packets)
    BY <2>1 DEF Arp!Arrive
  <2>3. UNCHANGED <<arpCmd, trg_ipaddr, arpPc, alarm, owners, packet, recv_response, arpCode, taken>>
    BY <2>1 DEF Arp!Arrive
  <2> QED
    BY <2>2, <2>3
<1> QED
  BY <1>1, <1>2, <1>3, <1>4, <1>5, <1>6, <1>7, <1>8, <1>9, <1>10, <1>11, <1>12
     DEF Arp!Next, Arp!MainStep
LEMMA ArpInit == Arp!Init => ArpInv
BY DEF Arp!Init, ArpInv, ReadInv, CountInv, CodeInv, Arp!TypeOK, Pending

LEMMA ArpStep ==
  ASSUME ArpInv, [Arp!Next]_Arp!vars
  PROVE  ArpInv'
<1>1. CASE Arp!Next
  BY <1>1, ArpMoves
<1>2. CASE UNCHANGED Arp!vars
  BY <1>2
     DEF Arp!vars, Arp!options, Arp!wire, ArpInv, ReadInv, CountInv, CodeInv, Arp!TypeOK,
        Packets,
         Pending
<1> QED
  BY <1>1, <1>2

\* Whichever part MCHelpers runs, arpsend does what ArpSend says.
LEMMA ArpPart == HelpersSpec => Arp!Spec
<1>1. HelpersInit => Arp!Init
  BY DEF HelpersInit
<1>2. [HelpersNext]_allVars => [Arp!Next]_Arp!vars
  BY DEF HelpersNext, DestroyNext, ExecNext, EnterNext, EnvNext, ArpNext, allVars, arpVars,
         Arp!vars, Arp!options, Arp!wire
<1> QED
  BY <1>1, <1>2, PTL DEF HelpersSpec, Arp!Spec

LEMMA ArpInductive == Arp!Spec => []ArpInv
BY ArpInit, ArpStep, PTL DEF Arp!Spec

(* Whenever SIGALRM comes, arpsend -D succeeds only if no target has       *)
(* answered but in the packet it was about to look at, and fails only for  *)
(* a target that another host has.                                         *)
THEOREM DetectionIsRight == HelpersSpec => []DetectsTaken
<1>1. ArpInv => DetectsTaken
  BY DEF ArpInv, ReadInv, CountInv, CodeInv, Pending, DetectsTaken, Arp!DetectsTaken
<1> QED
  BY <1>1, ArpPart, ArpInductive, PTL

-----------------------------------------------------------------------------
(***************************************************************************)
(* All of them.                                                            *)
(***************************************************************************)

LEMMA DestroyPart == HelpersSpec => Spec
<1>1. HelpersInit => Init
  BY DEF HelpersInit
<1>2. [HelpersNext]_allVars => [Next]_vars
  BY DEF HelpersNext, DestroyNext, ExecNext, EnterNext, EnvNext, ArpNext, allVars,
     destroyVars,
         vars, files, lock, scan
<1> QED
  BY <1>1, <1>2, PTL DEF HelpersSpec, Spec

(* Type correctness of the five parts, with what their type invariants say *)
(* beyond types: who locks rm.lck has it open, and no chunk of output is   *)
(* lost on its way.                                                        *)
THEOREM HelpersTypesHold == HelpersSpec => []HelpersTypes
<1>1. ExecInv => Exec!TypeOK
  BY DEF ExecInv, ExecTypes
<1>2. EnterInv => Enter!TypeOK
  BY DEF EnterInv, EnterTypes
<1>3. EnvInv => Env!TypeOK
  BY EnvTypesOK DEF EnvInv
<1>4. ArpInv => Arp!TypeOK
  BY DEF ArpInv
<1> QED
  BY <1>1, <1>2, <1>3, <1>4, DestroyPart, LockedIsOpen, ExecPart, ExecInductive,
     EnterPart, EnterInductive, EnvPart, EnvInductive, ArpPart, ArpInductive, PTL
     DEF HelpersTypes
=============================================================================
