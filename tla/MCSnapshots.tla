---------------------------- MODULE MCSnapshots ----------------------------
(* Snapshots for TLC: three guids, which are interchangeable.               *)
EXTENDS Snapshots, TLC

GuidSymmetry == Permutations(Guids)

\* An old dump that cannot be unlinked may be taken for a new one's.
NoUnlinkFaults == AllFaults \ {"unlink"}

\* Every failure that the commands handle.
CalmFaults == AllFaults \ {"unlink", "rename", "rollback", "copy", "resume"}
=============================================================================
