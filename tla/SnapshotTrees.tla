---------------------------- MODULE SnapshotTrees ----------------------------
(***************************************************************************)
(* Trees of snapshots, as Snapshots.xml keeps them and as libploop keeps   *)
(* its images: a parent for each snapshot, NoGuid (the "" of the file) for *)
(* a root, and the current one, on which the container's own delta lies.   *)
(***************************************************************************)
EXTENDS Integers, FiniteSets

CONSTANTS Guids, NoGuid

ASSUME NoGuidAssumption == NoGuid \notin Guids

Listed(t) == DOMAIN t.parent

Trees ==
  UNION {[parent : [S -> S \union {NoGuid}], current : S \union {NoGuid}] :
           S \in SUBSET Guids}

NoSnapshots == [parent |-> [g \in {} |-> NoGuid], current |-> NoGuid]

\* A new snapshot g under the current one, and current itself.
Add(t, g) ==
  [parent |-> [h \in Listed(t) \union {g} |->
                 IF h = g THEN t.current ELSE t.parent[h]],
   current |-> g]

SetCurrent(t, g) == [t EXCEPT !.current = g]

\* g is merged: what was based on it is based on its parent.
Remove(t, g) ==
  LET heir(h) == IF h = g THEN t.parent[g] ELSE h IN
  [parent |-> [h \in Listed(t) \ {g} |-> heir(t.parent[h])],
   current |-> heir(t.current)]

(* The deltas that lie on g, the container's own among them.               *)
References(t, g) ==
  Cardinality({h \in Listed(t) : t.parent[h] = g})
    + (IF t.current = g THEN 1 ELSE 0)
=============================================================================
