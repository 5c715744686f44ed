---------------------------- MODULE VpsLockProofs ----------------------------
(* Proofs about VpsLock, for every set of pids and whatever may fail.       *)
EXTENDS VpsLock, TLAPS

LEMMA TypeStep ==
  ASSUME TypeOK, [Next]_vars
  PROVE  TypeOK'
<1> USE NoPidAssumption, GarbageAssumption, FlagAssumption
<1> USE DEF TypeOK, Locations, Retries, Calling
<1>1. ASSUME NEW p \in Pids, Invoke(p) PROVE TypeOK'
  <2>1. contended' \in [Pids -> BOOLEAN]
    BY <1>1, Zenon DEF Invoke, Alive
  <2>2. /\ pc' \in [Pids -> Locations]
        /\ text' \in [Pids -> Pids \union {NoPid, Garbage}]
        /\ retry' \in [Pids -> 0..Retries]
        /\ seen' \in [Pids -> Pids \union {NoPid}]
        /\ lockfile' \in Pids \union {NoPid, Garbage}
        /\ owner' \in Pids \union {NoPid}
        /\ stolen' \in BOOLEAN
    BY <1>1 DEF Invoke, Goto
  <2>3. \A q \in Pids :
          /\ Calling(q)' => retry'[q] < Retries /\ text'[q] # NoPid
          /\ pc'[q] = "probe" => seen'[q] \in Pids
    BY <1>1 DEF Invoke, Goto
  <2> QED BY <2>1, <2>2, <2>3, Zenon
<1>2. ASSUME NEW p \in Pids, Link(p) PROVE TypeOK'
  <2>1. CASE lockfile = NoPid
    <3>1. /\ lockfile' \in Pids \union {NoPid, Garbage}
          /\ owner' \in Pids \union {NoPid}
          /\ stolen' \in BOOLEAN
      BY <1>2, <2>1 DEF Link
    <3>2. Ends(p, "action")
      BY <1>2, <2>1 DEF Link
    <3> QED BY <3>1, <3>2 DEF Goto, Ends
  <2>2. CASE lockfile # NoPid
    BY <1>2, <2>2 DEF Link, Goto
  <2> QED BY <2>1, <2>2
<1>3. ASSUME NEW p \in Pids, ReadPid(p) PROVE TypeOK'
  <2>1. CASE lockfile = NoPid
    BY <1>3, <2>1 DEF ReadPid, NextTry, Goto
  <2>2. CASE lockfile # NoPid
    BY <1>3, <2>2 DEF ReadPid, NextTry, Goto
  <2> QED BY <2>1, <2>2
<1>4. ASSUME NEW p \in Pids, Probe(p) PROVE TypeOK'
  BY <1>4 DEF Probe, Goto, Alive
<1>5. ASSUME NEW p \in Pids, RemoveStale(p) PROVE TypeOK'
  BY <1>5 DEF RemoveStale, RemoveFile, NextTry, Goto, Holding
<1>6. ASSUME NEW p \in Pids, Unlock(p) PROVE TypeOK'
  BY <1>6 DEF Unlock, RemoveFile, Ends, Goto, Holding
<1>7. ASSUME NEW p \in Pids, GiveUp(p) PROVE TypeOK'
  BY <1>7 DEF GiveUp, Ends, Goto
<1>8. ASSUME NEW p \in Pids, Die(p) PROVE TypeOK'
  BY <1>8 DEF Die, Ends, Goto
<1>9. ASSUME NEW p \in Pids, ForeignStarts(p) \/ ForeignExits(p) PROVE TypeOK'
  BY <1>9 DEF ForeignStarts, ForeignExits, Goto
<1>10. CASE UNCHANGED vars
  BY <1>10 DEF vars
<1> QED
  BY <1>1, <1>2, <1>3, <1>4, <1>5, <1>6, <1>7, <1>8, <1>9, <1>10
     DEF Next, Step

LEMMA TypeInit == Init => TypeOK
<1> SUFFICES ASSUME Init PROVE TypeOK
  OBVIOUS
<1>1. contended \in [Pids -> BOOLEAN] /\ stolen \in BOOLEAN
  BY Zenon DEF Init
<1>2. /\ pc \in [Pids -> Locations]
      /\ text \in [Pids -> Pids \union {NoPid, Garbage}]
      /\ seen \in [Pids -> Pids \union {NoPid}]
      /\ retry \in [Pids -> 0..Retries]
  BY DEF Init, Locations, Retries
<1> QED
  BY <1>1, <1>2 DEF Init, TypeOK, Calling

(* Type correctness: the states of the lock protocol stay well formed, and *)
(* no caller of vps_lock() goes round its loop more often than it may.     *)
THEOREM TypeCorrect == Spec => []TypeOK
BY TypeInit, TypeStep, PTL DEF Spec

-----------------------------------------------------------------------------

(* The inductive invariant.  Mutual exclusion alone is not inductive: the  *)
(* link of a caller excludes the others only because a vzctl in its action *)
(* still has its own file in place.                                        *)
IInv == TypeOK /\ HolderHasFile

LEMMA HolderInit == Init => HolderHasFile
BY DEF Init, HolderHasFile, Holding

LEMMA HolderStep ==
  ASSUME IInv, [Next]_vars
  PROVE  HolderHasFile'
<1> USE NoPidAssumption, GarbageAssumption
<1> USE DEF IInv, TypeOK, HolderHasFile, Holding
<1>1. ASSUME NEW p \in Pids, Invoke(p) PROVE HolderHasFile'
  BY <1>1 DEF Invoke, Goto
\* The file is made only where there is none, so nobody was in an action.
<1>2. ASSUME NEW p \in Pids, Link(p) PROVE HolderHasFile'
  <2>1. CASE lockfile = NoPid
    <3>1. text[p] # NoPid
      BY <1>2 DEF Link, Calling
    <3>2. stolen \/ \A q \in Pids : pc[q] # "action"
      BY <2>1
    <3> QED
      BY <1>2, <2>1, <3>1, <3>2 DEF Link, Ends, Goto
  <2>2. CASE lockfile # NoPid
    BY <1>2, <2>2 DEF Link, Goto
  <2> QED BY <2>1, <2>2
<1>3. ASSUME NEW p \in Pids, ReadPid(p) PROVE HolderHasFile'
  BY <1>3 DEF ReadPid, NextTry, Goto
<1>4. ASSUME NEW p \in Pids, Probe(p) PROVE HolderHasFile'
  BY <1>4 DEF Probe, Goto
\* Removing the file of a vzctl in its action is what `stolen' records.
<1>5. ASSUME NEW p \in Pids, RemoveStale(p) PROVE HolderHasFile'
  BY <1>5 DEF RemoveStale, RemoveFile, NextTry, Goto
\* The vzctl that leaves owns the file, so no other one is in an action.
<1>6. ASSUME NEW p \in Pids, Unlock(p) PROVE HolderHasFile'
  BY <1>6 DEF Unlock, RemoveFile, Ends, Goto
<1>7. ASSUME NEW p \in Pids, GiveUp(p) \/ Die(p) PROVE HolderHasFile'
  BY <1>7 DEF GiveUp, Die, Ends, Goto
<1>8. ASSUME NEW p \in Pids, ForeignStarts(p) \/ ForeignExits(p)
      PROVE HolderHasFile'
  BY <1>8 DEF ForeignStarts, ForeignExits, Goto
<1>9. CASE UNCHANGED vars
  BY <1>9 DEF vars
<1> QED
  BY <1>1, <1>2, <1>3, <1>4, <1>5, <1>6, <1>7, <1>8, <1>9 DEF Next, Step

LEMMA InvInductive == Spec => []IInv
<1>1. Init => IInv
  BY TypeInit, HolderInit DEF IInv
<1>2. IInv /\ [Next]_vars => IInv'
  BY TypeStep, HolderStep DEF IInv
<1> QED
  BY <1>1, <1>2, PTL DEF Spec

(* A vzctl in its action has its own lock file in place unless a file of a *)
(* running vzctl has been unlinked: vps_unlock() removes no other's lock.  *)
THEOREM HolderOwnsFile == Spec => []HolderHasFile
<1>1. IInv => HolderHasFile
  BY DEF IInv
<1> QED
  BY <1>1, InvInductive, PTL

(* Two vzctl run their actions together only after such a theft: the link  *)
(* step is a correct test-and-set for any number of callers.               *)
THEOREM ExclusionUnlessStolen == Spec => []ExclusiveUnlessStolen
<1>1. IInv => ExclusiveUnlessStolen
  BY DEF IInv, HolderHasFile, ExclusiveUnlessStolen, MutualExclusion
<1> QED
  BY <1>1, InvInductive, PTL

-----------------------------------------------------------------------------

(* What a caller that shares the host with no other process can count on.  *)
(* Nobody else is there to touch the file, so it loses a link at most once *)
(* - to a file that is stale - and after it has removed that one the next  *)
(* link succeeds: it never spends a second of its three tries.             *)
Undisturbed(p) ==
  /\ \A q \in Pids \ {p} : pc[q] = "gone"
  /\ retry[p] = 0 \/ (pc[p] = "link" /\ lockfile = NoPid)
  /\ pc[p] = "read" => lockfile # NoPid

LoneInv ==
  \A p \in Pids : ~contended[p] =>
    /\ Calling(p) => Undisturbed(p)
    /\ pc[p] = "failed" => seen[p] = p

LEMMA LoneInit == Init => LoneInv
BY DEF Init, LoneInv, Calling

LEMMA LoneStep ==
  ASSUME TypeOK, LoneInv, [Next]_vars
  PROVE  LoneInv'
<1> USE NoPidAssumption, GarbageAssumption DEF TypeOK, Calling
\* A process that starts disturbs every caller; one that starts alone is alone.
<1>1. ASSUME NEW p \in Pids, Invoke(p) PROVE LoneInv'
  <2> SUFFICES ASSUME NEW q \in Pids, ~contended'[q]
               PROVE  /\ Calling(q)' => Undisturbed(q)'
                      /\ pc'[q] = "failed" => seen'[q] = q
    BY DEF LoneInv
  <2>1. CASE q = p
    <3>1. \A r \in Pids \ {p} : ~Alive(r)
      BY <1>1, <2>1, Zenon DEF Invoke
    <3> QED
      BY <1>1, <2>1, <3>1 DEF Invoke, Goto, Alive, Undisturbed
  <2>2. CASE q # p
    <3>1. ~contended[q] /\ ~Calling(q)
      BY <1>1, <2>2, Zenon DEF Invoke
    <3> QED
      BY <1>1, <2>2, <3>1 DEF Invoke, Goto, LoneInv
  <2> QED BY <2>1, <2>2
<1>2. ASSUME NEW p \in Pids, ForeignStarts(p) PROVE LoneInv'
  <2> SUFFICES ASSUME NEW q \in Pids, ~contended'[q]
               PROVE  /\ Calling(q)' => Undisturbed(q)'
                      /\ pc'[q] = "failed" => seen'[q] = q
    BY DEF LoneInv
  <2>1. ~contended[q] /\ ~Calling(q)
    BY <1>2, Zenon DEF ForeignStarts
  <2> QED
    BY <1>2, <2>1 DEF ForeignStarts, Goto, LoneInv
\* Every other step is one of a process that is there: of the lone caller
\* itself, or of one whose presence no undisturbed caller shares.
<1>3. ASSUME NEW p \in Pids, Link(p) PROVE LoneInv'
  <2>1. CASE lockfile = NoPid
    <3>1. Ends(p, "action")
      BY <1>3, <2>1 DEF Link
    <3>2. \A q \in Pids : ~contended[q] /\ q # p => ~Calling(q)
      BY <1>3 DEF Link, LoneInv, Undisturbed
    <3> QED
      BY <3>1, <3>2 DEF Ends, Goto, LoneInv
  <2>2. CASE lockfile # NoPid
    <3>1. \A q \in Pids : ~contended[q] /\ q # p => ~Calling(q)
      BY <1>3 DEF Link, LoneInv, Undisturbed
    <3> QED
      BY <1>3, <2>2, <3>1 DEF Link, Goto, LoneInv, Undisturbed
  <2> QED BY <2>1, <2>2
<1>4. ASSUME NEW p \in Pids, ReadPid(p) PROVE LoneInv'
  <2>1. \A q \in Pids : ~contended[q] /\ q # p => ~Calling(q)
    BY <1>4 DEF ReadPid, LoneInv, Undisturbed
  <2>2. ~contended[p] => Undisturbed(p) /\ lockfile # NoPid /\ retry[p] = 0
    BY <1>4 DEF ReadPid, LoneInv, Undisturbed
  <2> QED
    BY <1>4, <2>1, <2>2 DEF ReadPid, NextTry, Goto, LoneInv, Undisturbed
<1>5. ASSUME NEW p \in Pids, Probe(p) PROVE LoneInv'
  <2>1. \A q \in Pids : ~contended[q] /\ q # p => ~Calling(q)
    BY <1>5 DEF Probe, LoneInv, Undisturbed
  <2>2. ~contended[p] => Undisturbed(p) /\ (Alive(seen[p]) => seen[p] = p)
    BY <1>5 DEF Probe, LoneInv, Undisturbed, Alive
  <2> QED
    BY <1>5, <2>1, <2>2 DEF Probe, Goto, LoneInv, Undisturbed
<1>6. ASSUME NEW p \in Pids, RemoveStale(p) PROVE LoneInv'
  <2>1. \A q \in Pids : ~contended[q] /\ q # p => ~Calling(q)
    BY <1>6 DEF RemoveStale, LoneInv, Undisturbed
  <2>2. ~contended[p] => Undisturbed(p) /\ retry[p] = 0
    BY <1>6 DEF RemoveStale, LoneInv, Undisturbed
  <2> QED
    BY <1>6, <2>1, <2>2
       DEF RemoveStale, RemoveFile, NextTry, Retries, Goto, LoneInv, Undisturbed
<1>7. ASSUME NEW p \in Pids, Unlock(p) PROVE LoneInv'
  <2>1. \A q \in Pids : ~contended[q] /\ q # p => ~Calling(q)
    BY <1>7 DEF Unlock, LoneInv, Undisturbed
  <2> QED
    BY <1>7, <2>1 DEF Unlock, RemoveFile, Ends, Goto, LoneInv
<1>8. ASSUME NEW p \in Pids, GiveUp(p) \/ Die(p) PROVE LoneInv'
  BY <1>8 DEF GiveUp, Die, Ends, Goto, LoneInv, Undisturbed
<1>9. ASSUME NEW p \in Pids, ForeignExits(p) PROVE LoneInv'
  BY <1>9 DEF ForeignExits, Goto, LoneInv, Undisturbed
<1>10. CASE UNCHANGED vars
  BY <1>10 DEF vars, LoneInv, Undisturbed
<1> QED
  BY <1>1, <1>2, <1>3, <1>4, <1>5, <1>6, <1>7, <1>8, <1>9, <1>10
     DEF Next, Step

(* A caller of vps_lock() that no other process disturbs gets the lock,    *)
(* whatever a dead vzctl has left in the lock file, unless the pid written *)
(* there is its own.                                                       *)
THEOREM LoneCallerSucceeds == Spec => []LoneCallerGetsLock
<1>1. Init => TypeOK /\ LoneInv
  BY TypeInit, LoneInit
<1>2. TypeOK /\ LoneInv /\ [Next]_vars => (TypeOK /\ LoneInv)'
  BY TypeStep, LoneStep
<1>3. LoneInv => LoneCallerGetsLock
  BY DEF LoneInv, LoneCallerGetsLock
<1> QED
  BY <1>1, <1>2, <1>3, PTL DEF Spec
=============================================================================
