------------------------------ MODULE CtStatus -------------------------------
(***************************************************************************)
(* The life of a container as `vzctl status' tells it (show_status() of    *)
(* src/vzctl-actions.c): three words, of which one changes at a time.      *)
(* Only a container whose file system is mounted is started, only one that *)
(* is down is unmounted, and only one that is unmounted is destroyed.      *)
(***************************************************************************)
VARIABLES
  exist,    \* "exist" or "deleted": its private area
  mounted,  \* "mounted" or "unmounted"
  run       \* "running" or "down"

vars == <<exist, mounted, run>>

Init == exist = TRUE /\ mounted = FALSE /\ run = FALSE

Create  == ~exist /\ exist' = TRUE /\ UNCHANGED <<mounted, run>>
Destroy == exist /\ ~mounted /\ ~run /\ exist' = FALSE /\ UNCHANGED <<mounted, run>>
Mount   == exist /\ ~mounted /\ mounted' = TRUE /\ UNCHANGED <<exist, run>>
Umount  == mounted /\ ~run /\ mounted' = FALSE /\ UNCHANGED <<exist, run>>
Start   == mounted /\ ~run /\ run' = TRUE /\ UNCHANGED <<exist, mounted>>
Stop    == run /\ run' = FALSE /\ UNCHANGED <<exist, mounted>>

\* The host loses power.
PowerLoss == mounted' = FALSE /\ run' = FALSE /\ UNCHANGED exist

Next == Create \/ Destroy \/ Mount \/ Umount \/ Start \/ Stop \/ PowerLoss

Spec == Init /\ [][Next]_vars
=============================================================================
