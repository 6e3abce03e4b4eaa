-------------------------------- MODULE Banks --------------------------------
(***************************************************************************)
(* How a bank type describes a 64 MB window: the 4 MB blocks that exist in   *)
(* it. Shared by the memory test (Memory) and the mapping (PageTables).      *)
(***************************************************************************)
EXTENDS Naturals

Blocks == 0..15

\* fill_tab: the 4 MB blocks that exist in a bank of type t.
FillTab(t) ==
  CASE t = 1 -> {0}
    [] t = 2 -> {0, 2}
    [] t = 3 -> 0..3
    [] t = 4 -> 0..3 \cup 8..11
    [] t = 5 -> Blocks
    [] t = 6 -> {0, 2, 8, 10}
    [] OTHER -> {}
=============================================================================
