----------------------------- MODULE MCKeyboard -----------------------------
(***************************************************************************)
(* Keyboard with two keys: F9, and the arrow that E0 comes before.           *)
(***************************************************************************)
EXTENDS Keyboard

F9 == [code |-> 67, ext |-> FALSE]
Up == [code |-> 72, ext |-> TRUE]
MCKeys == {F9, Up}

=============================================================================
