---------------------------- MODULE ConvertPloop -----------------------------
(***************************************************************************)
(* vzctl convert: vzctl_env_convert_ploop() of src/lib/image.c copies a    *)
(* private area into a new image beside it and swaps the two by renaming.  *)
(* The container is locked and down.                                       *)
(***************************************************************************)
EXTENDS Naturals

CONSTANT Runs  \* bound: how often convert is called

ASSUME RunsAssumption == Runs \in Nat

VARIABLES
  private,  \* what has the name of the private area
  new,      \* private.ploop: none, dir, image (empty), part, ploop (complete)
  tmp,      \* what private.XXXXXX of an earlier step has: none, empty, old
  mounted,  \* an image is mounted at the root of the container
  pc, ret, runs

vars == <<private, new, tmp, mounted, pc, ret, runs>>

Init ==
  /\ private = "old" /\ new = "none" /\ tmp = "none" /\ mounted = FALSE
  /\ pc = "idle" /\ ret = 0 /\ runs = 0

At(here, next) == pc = here /\ pc' = next
Fails(here) == At(here, "err") /\ ret' = 1

\* The layout, root and status are checked; $private.ploop is made.
Invoke ==
  /\ runs < Runs /\ runs' = runs + 1
  /\ private # "ploop" /\ ~mounted
  /\ At("idle", "create") /\ ret' = 0
  /\ new' = IF new = "none" THEN "dir" ELSE new
  /\ UNCHANGED <<private, tmp, mounted>>

\* vzctl_create_image(); libploop refuses a file that exists.
CreateImage ==
  /\ \/ new = "dir" /\ At("create", "mount") /\ new' = "image" /\ UNCHANGED ret
     \/ Fails("create") /\ UNCHANGED new
  /\ UNCHANGED <<private, tmp, mounted, runs>>

MountImage ==
  /\ \/ At("mount", "copy") /\ mounted' = TRUE /\ UNCHANGED ret
     \/ Fails("mount") /\ UNCHANGED mounted
  /\ UNCHANGED <<private, new, tmp, runs>>

\* cp -ax; its result is looked at after the image is unmounted.
Copy ==
  /\ At("copy", "umount")
  /\ \/ private = "old" /\ new' = "ploop" /\ UNCHANGED ret
     \/ new' = "part" /\ ret' = 1
  /\ UNCHANGED <<private, tmp, mounted, runs>>

\* Mutant: a failure of the copy is forgotten once the image is unmounted.
MutUmountImage ==
  /\ At("umount", "mkdtemp") /\ mounted' = FALSE /\ ret' = 0
  /\ UNCHANGED <<private, new, tmp, runs>>

UmountImage ==
  /\ \/ At("umount", IF ret = 0 THEN "mkdtemp" ELSE "err")
        /\ mounted' = FALSE /\ UNCHANGED ret
     \/ Fails("umount") /\ UNCHANGED mounted
  /\ UNCHANGED <<private, new, tmp, runs>>

MakeTemp ==
  /\ \/ At("mkdtemp", "away") /\ tmp' = "empty" /\ UNCHANGED ret
     \/ Fails("mkdtemp") /\ UNCHANGED tmp
  /\ UNCHANGED <<private, new, mounted, runs>>

\* rename(private, tmp_private); unlink() does not remove the directory.
MoveAway ==
  /\ \/ At("away", "inplace") /\ tmp' = private /\ private' = "none" /\ UNCHANGED ret
     \/ Fails("away") /\ UNCHANGED <<private, tmp>>
  /\ UNCHANGED <<new, mounted, runs>>

\* rename(new_private, private), or the old area is renamed back.
MoveInPlace ==
  /\ \/ At("inplace", "remove") /\ private' = new /\ new' = "none" /\ UNCHANGED <<tmp, ret>>
     \/ /\ Fails("inplace") /\ UNCHANGED new
        /\ \/ private' = tmp /\ tmp' = "none"
           \/ UNCHANGED <<private, tmp>>
  /\ UNCHANGED <<mounted, runs>>

\* destroydir(tmp_private)
RemoveOld ==
  /\ At("remove", "idle") /\ tmp' = "none"
  /\ UNCHANGED <<private, new, mounted, ret, runs>>

\* The error path: destroydir(new_private)
RemoveNew ==
  /\ At("err", "idle") /\ new' = "none"
  /\ UNCHANGED <<private, tmp, mounted, ret, runs>>

\* vzctl is killed; a crash of the host also unmounts.
Crash ==
  /\ pc # "idle" /\ pc' = "idle"
  /\ mounted' \in {mounted, FALSE}
  /\ UNCHANGED <<private, new, tmp, ret, runs>>

Next == Invoke \/ CreateImage \/ MountImage \/ Copy \/ UmountImage \/ MakeTemp
        \/ MoveAway \/ MoveInPlace \/ RemoveOld \/ RemoveNew \/ Crash

Spec == Init /\ [][Next]_vars

-----------------------------------------------------------------------------

TypeOK ==
  /\ private \in {"none", "old", "part", "ploop"}
  /\ new \in {"none", "dir", "image", "part", "ploop"} /\ tmp \in {"none", "empty", "old"}
  /\ mounted \in BOOLEAN /\ ret \in {0, 1} /\ runs \in 0..Runs

(* At every instant, whatever fails or crashes and however often convert   *)
(* is called again, one complete copy of the container's files exists.     *)
CopySurvives == private \in {"old", "ploop"} \/ tmp = "old" \/ new = "ploop"

(* A private area in its place is complete, and its image is not in use.   *)
PlaceIsComplete == private # "part" /\ (private = "ploop" => ~mounted)

(* Both: the conversion loses no file and shows no half of them.           *)
ConversionKeepsFiles == CopySurvives /\ PlaceIsComplete
=============================================================================
