--------------------------- MODULE SnapshotPromise ---------------------------
(***************************************************************************)
(* What vzctl(8) promises of the snapshots of a container: `snapshot' adds *)
(* one, `snapshot-switch' makes one current, `snapshot-delete' removes the *)
(* one it is told to remove, each at once or not at all.                   *)
(***************************************************************************)
EXTENDS SnapshotTrees

VARIABLE tree

Init == tree = NoSnapshots

Create(g) == g \notin Listed(tree) /\ tree' = Add(tree, g)
Switch(g) == g \in Listed(tree) /\ tree' = SetCurrent(tree, g)
Delete(g) == g \in Listed(tree) /\ tree' = Remove(tree, g)

Next == \E g \in Guids : Create(g) \/ Switch(g) \/ Delete(g)

Spec == Init /\ [][Next]_tree
=============================================================================
