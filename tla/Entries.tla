------------------------------ MODULE Entries ------------------------------
(***************************************************************************)
(* struct huft (inflate.c): an entry of the tables that huft_build makes and *)
(* inflate_codes looks codes up in.                                          *)
(***************************************************************************)

\* What decoding a code means (e): a literal, the end of the block, nothing; less is a number
\* of extra bits, and 16 + j leads to a table of j bits.
Literal == 16
EndOfBlock == 15
Invalid == 99

\* An entry that huft_build makes of memory nobody has written: its e, v and what it leads to
\* are anything (no e of one byte is 256).
Garbage == 256

Entry(e, b, v) == [e |-> e, b |-> b, v |-> v]
=============================================================================
