----------------------------- MODULE BootPromise -----------------------------
(***************************************************************************)
(* What the boot loop promises the person in front of the machine, without  *)
(* registers, buffers or packages: the machine listens to the keys, fetches *)
(* one system image from the source that was asked for, checks it, and      *)
(* either starts it or listens again. A ROM image that proves unusable       *)
(* makes the disk the wanted source.                                         *)
(***************************************************************************)

VARIABLES
  phase,     \* "init", "ask", "fetch", "check" or "live"
  source,    \* where the image in hand comes from: "none", "rom" or "disk"
  wantDisk,  \* the disk is the wanted source
  forced     \* a jumper forces the disk, whatever the keys say

vars == <<phase, source, wantDisk, forced>>

TypeOK ==
  /\ phase \in {"init", "ask", "fetch", "check", "live"}
  /\ source \in {"none", "rom", "disk"}
  /\ wantDisk \in BOOLEAN
  /\ forced \in BOOLEAN

Init ==
  /\ phase = "init"
  /\ source = "none"
  /\ wantDisk = FALSE
  /\ forced \in BOOLEAN

\* A reset or a power cycle, at any moment: the wish is forgotten.
Restart ==
  /\ phase' = "init"
  /\ source' = "none"
  /\ wantDisk' = FALSE
  /\ forced' \in BOOLEAN

\* The keys are read while the machine tests its memory and while it asks.
Listen ==
  /\ phase \in {"init", "ask"}
  /\ phase' \in {phase, "ask"}
  /\ wantDisk' \in BOOLEAN
  /\ UNCHANGED <<source, forced>>

\* One image is fetched, from the source that was asked for.
Fetch ==
  /\ phase = "ask"
  /\ phase' = "fetch"
  /\ source' = IF wantDisk \/ forced THEN "disk" ELSE "rom"
  /\ UNCHANGED <<wantDisk, forced>>

\* The read failed: nothing is started, the machine listens again.
FetchFails ==
  /\ phase = "fetch"
  /\ source = "disk"
  /\ phase' = "ask"
  /\ source' = "none"
  /\ UNCHANGED <<wantDisk, forced>>

Fetched ==
  /\ phase = "fetch"
  /\ phase' = "check"
  /\ UNCHANGED <<source, wantDisk, forced>>

\* The image is unusable. After a ROM image the disk is the wanted source.
Refuse ==
  /\ phase = "check"
  /\ phase' = "ask"
  /\ source' = "none"
  /\ wantDisk' = (wantDisk \/ source = "rom")
  /\ UNCHANGED forced

\* The ROM image does not unpack: the disk is tried at once.
FallBack ==
  /\ phase = "check"
  /\ source = "rom"
  /\ phase' = "fetch"
  /\ source' = "disk"
  /\ UNCHANGED <<wantDisk, forced>>

Start ==
  /\ phase = "check"
  /\ phase' = "live"
  /\ UNCHANGED <<source, wantDisk, forced>>

Next ==
  \/ Restart
  \/ Listen
  \/ Fetch
  \/ FetchFails
  \/ Fetched
  \/ Refuse
  \/ FallBack
  \/ Start

Spec == Init /\ [][Next]_vars
=============================================================================
