------------------------------- MODULE Nvram -------------------------------
(***************************************************************************)
(* nvram.c: the battery-backed bytes with the user's settings, and what the  *)
(* boot block makes of them when it starts.                                  *)
(*                                                                         *)
(* A content is the byte that fills the cells of no interest and a function  *)
(* from the cells of interest to theirs. The two banks through which the     *)
(* clock chip shows them are left out: either way the byte is read.          *)
(***************************************************************************)
EXTENDS Integers, FiniteSetsExt

Byte == 0..255

Language == 6                 \* _AKP language
IntCells == {49, 50}          \* $31, $32: ISA interrupts for PCI
LastData == 239               \* NVM_MAX-2-FIRST_ADR
NotSum == 240                 \* holds the complement of the sum
Sum8 == 241                   \* holds the sum

\* The cells a content tells apart; the one at the end of the data is a boundary of the loop.
Cells == {Language, LastData, NotSum, Sum8} \cup IntCells

Content == [fill : Byte, at : [Cells -> Byte]]

nv_defs == [adr \in 0..17 |-> CASE adr = 8 -> 17 [] adr = 9 -> 46 [] adr = 10 -> 32
                                [] adr \in 11..13 -> 255 [] adr = 16 -> 135 [] OTHER -> 0]

nvram_read(ok, nv, adr) ==
  IF ~ok THEN IF adr > 17 THEN 0 ELSE nv_defs[adr]
         ELSE IF adr \in Cells THEN nv.at[adr] ELSE nv.fill

\* The sum of the bytes below the two that guard them, four of which are cells, as an UBYTE.
DataSum(nv) ==
  ((LastData + 1 - 4) * nv.fill
     + nv.at[Language] + nv.at[49] + nv.at[50] + nv.at[LastData]) % 256

Complement(b) == 255 - b

\* A slip: the complement is not looked at.
nvram_ok_sum_only(nv) == DataSum(nv) = nvram_read(TRUE, nv, Sum8)

\* nvram_init: are the bytes believed?
nvram_ok(nv) ==
  /\ DataSum(nv) = nvram_read(TRUE, nv, Sum8)
  /\ DataSum(nv) = Complement(nvram_read(TRUE, nv, NotSum))

\* What it sets language to; was is what vgaprint.c began with.
LanguageOf(nv, was) ==
  IF ~nvram_ok(nv) THEN was ELSE IF nvram_read(TRUE, nv, Language) = 1 THEN 1 ELSE 0

\* A content as TOS leaves it, with the two bytes that guard it.
Guarded(nv) ==
  [nv EXCEPT !.at[Sum8] = DataSum(nv), !.at[NotSum] = Complement(DataSum(nv))]
=============================================================================
