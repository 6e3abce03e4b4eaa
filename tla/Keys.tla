-------------------------------- MODULE Keys --------------------------------
(***************************************************************************)
(* The keys that steer the boot, and what CheckKeys (pmmu.c) makes of each. *)
(* GetKey delivers one make code per call, or 0 (NoKey) when the keyboard   *)
(* has nothing or delivers a break code; CheckKeys goes on until it sees 0. *)
(* Both the main boot loop and the memory test call CheckKeys.              *)
(***************************************************************************)

Key == {"F9", "ESC", "F10", "PAUSE", "SPACE", "other"}

\* DiskLoad after CheckKeys has seen key k: F9 asks for the TOS on disk, F10 takes it back.
DiskLoadAfter(k, old) == k = "F9" \/ (old /\ k # "F10")

\* fast_memtest after key k: F9 falls through to ESC, and nothing resets it.
FastAfter(k, old) == old \/ k \in {"F9", "ESC"}

\* PauseFlag after key k.
PauseAfter(k, old) == k = "PAUSE" \/ (old /\ k # "SPACE")
=============================================================================
