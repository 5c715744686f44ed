------------------------------ MODULE MCVpsLock ------------------------------
(* VpsLock for TLC: three pids, so that one vzctl can be caught between     *)
(* its probe and its unlink while a second one leaves and a third enters.   *)
EXTENDS VpsLock, TLC

PidSymmetry == Permutations(Pids)
=============================================================================
