---------------------------- MODULE MCPageTables ----------------------------
(***************************************************************************)
(* Small instances of PageTables, at the real addresses: a bank of 16 MB or  *)
(* 32 MB in slot 0, nothing or two pieces of 4 MB in slot 1.                   *)
(***************************************************************************)
EXTENDS PageTables

MCTypes == {[s \in Slots |-> IF s = 0 THEN first ELSE second] :
              first \in {3, 4}, second \in {0, 2}}
              \ {[s \in Slots |-> IF s = 0 THEN 4 ELSE 0]}
=============================================================================
