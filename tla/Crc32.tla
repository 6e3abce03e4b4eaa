------------------------------- MODULE Crc32 -------------------------------
(***************************************************************************)
(* crc32.c. A word is the set of its bits that are one, so that an exclusive *)
(* or is what is in one of two sets alone.                                   *)
(***************************************************************************)
EXTENDS Integers, SequencesExt

Xor(a, b) == (a \ b) \cup (b \ a)
Shr(a, n) == {i - n : i \in {j \in a : j >= n}}
BitsOf(byte) == {i \in 0..7 : (byte \div 2^i) % 2 = 1}

\* The polynomial backwards: the term X^31 in the lowest bit.
Polynomial == {31 - term : term \in {26, 23, 22, 16, 12, 11, 10, 8, 7, 5, 4, 2, 1, 0}}

\* One step of the division; the table's entries are the results of eight.
Divide(word) == IF 0 \in word THEN Xor(Shr(word, 1), Polynomial) ELSE Shr(word, 1)
RECURSIVE Divided(_, _)
Divided(word, n) == IF n = 0 THEN word ELSE Divided(Divide(word), n - 1)
crc_32_tab == [octet \in SUBSET (0..7) |-> Divided(octet, 8)]

UPDC32(octet, crc) == Xor(crc_32_tab[Xor(crc, octet) \cap 0..7], Shr(crc, 8))

\* The loop over the bytes that are left.
RECURSIVE Loop(_)
Loop(s) ==
  IF s.buf = <<>> THEN s.crc
  ELSE Loop([crc |-> UPDC32(BitsOf(Head(s.buf)), s.crc), buf |-> Tail(s.buf)])

crc32buf(buf) == (0..31) \ Loop([crc |-> 0..31, buf |-> buf])
=============================================================================
