------------------------------ MODULE Inflate ------------------------------
(***************************************************************************)
(* inflate.c: decompressing one package. A step reads a block's header, one   *)
(* length of a code, one byte or symbol, or copies one piece of a match.     *)
(* How tables are made of lengths and what codes are found to mean in them is  *)
(* Huft's, the checksum Crc32's; here they are constants, so that what is       *)
(* proved of the rest holds for any.                                        *)
(*                                                                         *)
(* bb, bk and input_ptr together say which bit is next: `pos`. Bytes are       *)
(* fetched whole, so that dropping bk & 7 bits leads to the next byte.         *)
(***************************************************************************)
EXTENDS Integers, SequencesExt, Entries

CONSTANTS build(_, _, _, _, _, _),  \* huft_build
          decode(_, _),             \* the lookup in its tables
          checksum(_)               \* crc32buf

CONSTANTS WSIZE,        \* of the window
          HeapTop,      \* bytes from the load buffer's end to 0x01000000
          MaxOut        \* bound on the bytes put out for streams that do not end
ASSUME InflateAssumption ==
  WSIZE \in Nat \ {0} /\ HeapTop \in Nat /\ WSIZE <= HeapTop /\ MaxOut \in Nat

VARIABLES from,   \* the package's header, and as from.bits its data, bit by bit
          flip,   \* the bit of the stream that was read wrongly, 0 for none
          fill,   \* the byte found in memory nothing has been written to
          wild,   \* what is read as a table entry where none has been written
          pc, pos, last, tl, td, ll, size, todo, d, slide, wp, out, heap, saved, res

inputs == <<from, flip, fill, wild>>
tables == <<tl, td, ll, size>>
copying == <<todo, d>>
window == <<slide, wp, out>>
memory == <<heap, saved>>
inflate_vars == <<inputs, tables, copying, window, memory, pc, pos, last, res>>

border == <<16, 17, 18, 0, 8, 7, 9, 6, 10, 5, 11, 4, 12, 3, 13, 2, 14, 1, 15>>
cplens == <<3, 4, 5, 6, 7, 8, 9, 10, 11, 13, 15, 17, 19, 23, 27, 31,
            35, 43, 51, 59, 67, 83, 99, 115, 131, 163, 195, 227, 258, 0, 0>>
cplext == <<0, 0, 0, 0, 0, 0, 0, 0, 1, 1, 1, 1, 2, 2, 2, 2,
            3, 3, 3, 3, 4, 4, 4, 4, 5, 5, 5, 5, 0, 99, 99>>
cpdist == <<1, 2, 3, 4, 5, 7, 9, 13, 17, 25, 33, 49, 65, 97, 129, 193, 257, 385, 513, 769,
            1025, 1537, 2049, 3073, 4097, 6145, 8193, 12289, 16385, 24577>>
cpdext == <<0, 0, 0, 0, 1, 1, 2, 2, 3, 3, 4, 4, 5, 5, 6, 6, 7, 7, 8, 8, 9, 9, 10, 10,
            11, 11, 12, 12, 13, 13>>
lbits == 9
dbits == 6

MaxWord == 65535

\* What the lookup of any bits finds in tables that are complete: a byte, the end, nothing, a
\* length or distance with so many bits that follow, or garbage.
IsSymbol(r) ==
  /\ r.e \in 0..13 \cup {EndOfBlock, Literal, Invalid, Garbage}
  /\ r.v \in Nat /\ r.v <= 24577 /\ r.used \in Nat
  /\ r.e = Literal => r.v <= 255
Decodable(tree) == tree.tabs # <<>> => \A word \in 0..MaxWord : IsSymbol(decode(tree, word))

\* What huft_build may return: tables that can be used unless it reports an error.
IsTree(tree) ==
  /\ tree.ret \in 0..3 /\ tree.mem \in Nat
  /\ tree.ret <= 1 => Decodable(tree)

\* What it returns for the lengths b of an alphabet's codes, as often as it may be asked.
BuildsTrees(b) ==
  /\ Len(b) <= 288 => \A m \in {7, lbits} : IsTree(build(b, 257, cplens, cplext, m, HeapTop))
  /\ Len(b) <= 30 => \A m \in {5, dbits} : IsTree(build(b, 0, cpdist, cpdext, m, HeapTop))
  /\ Len(b) = 19 => IsTree(build(b, 19, <<>>, <<>>, 7, HeapTop))

NoTree == [ret |-> 0, l |-> 0, tabs |-> <<>>, mem |-> 0]

----------------------------------------------------------------------------
\* NEEDBITS and the mask: the next n bits from bit p on, the first one lowest.
Bit(p) ==
  IF p <= Len(from.bits) THEN IF p = flip THEN 1 - from.bits[p] ELSE from.bits[p]
  ELSE (fill \div 2^((p - 1) % 8)) % 2
Bits(p, n) ==
  LET value[i \in 0..n] == IF i = 0 THEN 0 ELSE Bit(p + n - i) + 2 * value[i - 1]
  IN value[n]

\* What the bits from p on are found to mean, and the bit after them. An empty alphabet has no
\* tables: its entry is read at address 0, and is garbage like those huft_build has made of
\* unwritten memory. inflate_codes follows a garbage entry to where it may lead.
Meaning(tree, p) ==
  LET r == IF tree.tabs = <<>> THEN [e |-> Garbage, used |-> 0] ELSE decode(tree, Bits(p, 16))
      more == IF tree.tabs = <<>> \/ pc = "codes" THEN wild.b ELSE 0
  IN IF r.e = Garbage THEN [e |-> wild.e, v |-> wild.v, next |-> p + r.used + more]
                      ELSE [e |-> r.e, v |-> r.v, next |-> p + r.used]

\* zipmalloc for tables, and what huft_build then returns.
Built(tree, h) == IF h + tree.mem > HeapTop THEN 3 ELSE tree.ret

\* A slip: what the block took from the heap is not given back.
ReturnKeepsHeap(r) ==
  /\ res' = r
  /\ heap' = heap
  /\ pc' = IF r # 0 THEN "result" ELSE IF last' THEN "flush" ELSE "block"

\* A block ends with code r: its memory is given back, and the next block begins.
Return(r) ==
  /\ res' = r
  /\ heap' = saved'
  /\ pc' = IF r # 0 THEN "result" ELSE IF last' THEN "flush" ELSE "block"

InBlock(stage) == pc = stage /\ UNCHANGED <<inputs, last, saved>>

\* The window holds w bytes: it is put out when it is full.
Filled(s, w) ==
  /\ slide' = s
  /\ IF w = WSIZE THEN wp' = 0 /\ out' = out \o [i \in 1..WSIZE |-> s[i - 1]]
                  ELSE wp' = w /\ out' = out
Put(byte) == Len(out) < MaxOut /\ Filled([slide EXCEPT ![wp] = byte], wp + 1)

----------------------------------------------------------------------------
BlockIs(t) ==
  /\ pc = "block" /\ Bits(pos + 1, 2) = t
  /\ last' = (Bit(pos) = 1)
  /\ saved' = heap
  /\ UNCHANGED <<inputs, d, window>>

BadBlock == BlockIs(3) /\ pos' = pos + 3 /\ Return(2) /\ UNCHANGED <<tables, todo>>

StoredBlock ==
  /\ BlockIs(0)
  /\ LET p == ((pos + 9) \div 8) * 8 + 1  \* the byte boundary after the three bits
         n == Bits(p, 16)
     IN IF n + Bits(p + 16, 16) = MaxWord
        THEN pos' = p + 32 /\ todo' = n /\ pc' = "stored" /\ UNCHANGED <<heap, res>>
        ELSE pos' = p + 16 /\ UNCHANGED todo /\ Return(1)
  /\ UNCHANGED tables

StoredByte ==
  /\ InBlock("stored") /\ todo > 0
  /\ Put(Bits(pos, 8))
  /\ pos' = pos + 8 /\ todo' = todo - 1
  /\ UNCHANGED <<tables, d, heap, pc, res>>

StoredEnd ==
  InBlock("stored") /\ todo = 0 /\ Return(0) /\ UNCHANGED <<tables, copying, window, pos>>

\* Both tables are there: the symbols follow.
Codes(litlen, dist, h) ==
  /\ tl' = litlen /\ td' = dist
  /\ heap' = h + litlen.mem + dist.mem
  /\ pc' = "codes"
  /\ UNCHANGED <<ll, size, res>>

\* Both tables have been asked for, the second one if there was a first; it may come back as
\* incomplete where `tolerated` is 1.
Build(litlen, dist, tolerated) ==
  LET r1 == Built(litlen, heap)
      r2 == Built(dist, heap + litlen.mem)
  IN IF r1 # 0 THEN Return(r1) /\ UNCHANGED tables
     ELSE IF r2 > tolerated THEN Return(r2) /\ UNCHANGED tables
     ELSE Codes(litlen, dist, heap)

FixedLengths == [i \in 1..288 |-> IF i <= 144 THEN 8 ELSE IF i <= 256 THEN 9
                                  ELSE IF i <= 280 THEN 7 ELSE 8]
FixedTl == build(FixedLengths, 257, cplens, cplext, 7, HeapTop)
FixedTd == build([i \in 1..30 |-> 5], 0, cpdist, cpdext, 5, HeapTop)

FixedBlock ==
  BlockIs(1) /\ pos' = pos + 3 /\ Build(FixedTl, FixedTd, 1) /\ UNCHANGED todo

\* The header of a block with codes of its own, and the lengths of the codes in which the
\* lengths of its codes are given.
DynamicBlock ==
  /\ BlockIs(2)
  /\ LET nl == 257 + Bits(pos + 3, 5)
         nd == 1 + Bits(pos + 8, 5)
         nb == 4 + Bits(pos + 13, 4)
         place(i) == CHOOSE j \in 1..19 : border[j] = i
     IN IF nl > 286 \/ nd > 30
        THEN pos' = pos + 17 /\ Return(1) /\ UNCHANGED tables
        ELSE /\ pos' = pos + 17 + 3 * nb
             /\ size' = <<nl, nd>>
             /\ ll' = [i \in 1..19 |-> IF place(i - 1) > nb THEN 0
                                       ELSE Bits(pos + 14 + 3 * place(i - 1), 3)]
             /\ pc' = "bitlengths"
             /\ UNCHANGED <<tl, td, heap, res>>
  /\ UNCHANGED todo

\* Their table: tl, for the time being.
LengthTable(tree, r) ==
  IF r # 0 THEN Return(r) /\ UNCHANGED tables
  ELSE /\ tl' = tree /\ ll' = <<>> /\ UNCHANGED <<td, size>>
       /\ heap' = heap + tree.mem
       /\ pc' = "lengths" /\ UNCHANGED res
BuildLengths ==
  /\ InBlock("bitlengths")
  /\ \E tree \in {build(ll, 19, <<>>, <<>>, 7, HeapTop)} :
       LengthTable(tree, Built(tree, heap))
  /\ UNCHANGED <<copying, window, pos>>

\* One of those codes: a length, or how often the last length or none is repeated.
LengthCode ==
  /\ InBlock("lengths") /\ Len(ll) < size[1] + size[2]
  /\ LET r == Meaning(tl, pos)
         bits == IF r.v < 16 THEN 0 ELSE IF r.v = 16 THEN 2 ELSE IF r.v = 17 THEN 3 ELSE 7
         times == IF r.v < 16 THEN 1
                  ELSE (IF r.v <= 17 THEN 3 ELSE 11) + Bits(r.next, bits)
         l == IF r.v < 16 THEN r.v ELSE IF r.v = 16 /\ ll # <<>> THEN Last(ll) ELSE 0
     IN /\ pos' = r.next + bits
        /\ IF Len(ll) + times > size[1] + size[2]
           THEN Return(1) /\ UNCHANGED ll
           ELSE ll' = ll \o [i \in 1..times |-> l] /\ UNCHANGED <<heap, pc, res>>
  /\ UNCHANGED <<tl, td, size, copying, window>>

\* All lengths are there: the tables they stand for.
BuildTables ==
  /\ InBlock("lengths") /\ Len(ll) = size[1] + size[2]
  /\ Build(build(SubSeq(ll, 1, size[1]), 257, cplens, cplext, lbits, HeapTop),
           build(SubSeq(ll, size[1] + 1, Len(ll)), 0, cpdist, cpdext, dbits, HeapTop),
           0)
  /\ UNCHANGED <<copying, window, pos>>

----------------------------------------------------------------------------
\* The next symbol of the block: a byte, the end, nothing or a length.
Symbol == Meaning(tl, pos)
Decode == InBlock("codes") /\ UNCHANGED tables

LiteralByte ==
  /\ Decode /\ Symbol.e = Literal
  /\ Put(Symbol.v % 256)
  /\ pos' = Symbol.next
  /\ UNCHANGED <<copying, heap, pc, res>>

BlockEnds ==
  Decode /\ Symbol.e = EndOfBlock /\ pos' = Symbol.next /\ Return(0)
    /\ UNCHANGED <<copying, window>>

BadCode ==
  Decode /\ Symbol.e = Invalid /\ pos' = Symbol.next /\ Return(1)
    /\ UNCHANGED <<copying, window>>

\* A length, of 16 bits, is followed by a distance: so many bytes back in the window.
Match ==
  /\ Decode /\ Symbol.e < EndOfBlock
  /\ LET length == Symbol
         back == Meaning(td, length.next + length.e)
     IN IF back.e = Invalid
        THEN pos' = back.next /\ Return(1) /\ UNCHANGED copying
        ELSE /\ pos' = back.next + back.e
             /\ todo' = (length.v + Bits(length.next, length.e)) % (MaxWord + 1)
             /\ d' = (wp - back.v - Bits(back.next, back.e)) % WSIZE
             /\ pc' = "copy" /\ UNCHANGED <<heap, res>>
  /\ UNCHANGED window

\* A slip: the piece is as long as the window allows, whatever is left of the match.
PieceWhole(from_, to) == WSIZE - (IF from_ > to THEN from_ ELSE to)

\* The bytes that can be copied before one end meets the window's.
Piece(from_, to) ==
  LET room == WSIZE - (IF from_ > to THEN from_ ELSE to) IN IF room > todo THEN todo ELSE room

\* The window with n bytes copied one by one: a match may overlap what it produces.
Copied(n) ==
  LET after[i \in 0..n] ==
        IF i = 0 THEN slide
        ELSE LET s == after[i - 1] IN [s EXCEPT ![wp + i - 1] = s[d + i - 1]]
  IN after[n]

\* One turn of the copying loop. A match of no bytes, which only garbage can be, copies none.
CopyPiece ==
  /\ InBlock("copy") /\ Len(out) < MaxOut
  /\ LET e == Piece(d, wp)
     IN /\ Filled(Copied(e), wp + e)
        /\ d' = (d + e) % WSIZE
        /\ todo' = todo - e
        /\ pc' = IF todo' = 0 THEN "codes" ELSE "copy"
  /\ UNCHANGED <<tables, heap, pos, res>>

----------------------------------------------------------------------------
\* A slip: the checksum is not looked at.
CheckedLength(bytes) == IF from.orig_len # Len(bytes) THEN 4 ELSE 0

\* Length and checksum of what was put out.
Checked(bytes) ==
  IF from.orig_len # Len(bytes) THEN 4
  ELSE IF checksum(bytes) # from.orig_crc THEN 5 ELSE 0

\* The last block is done: the rest of the window is put out, and all of it checked.
Finish ==
  /\ pc = "flush"
  /\ out' = out \o [i \in 1..wp |-> slide[i - 1]]
  /\ res' = Checked(out')
  /\ pc' = "result"
  /\ UNCHANGED <<inputs, tables, copying, slide, wp, memory, pos, last>>

\* uncompress_data begins: the window comes from the fresh heap.
uncompress_data ==
  /\ heap' = WSIZE
  /\ IF WSIZE > HeapTop THEN res' = 3 /\ pc' = "result" ELSE res' = 0 /\ pc' = "block"
  /\ UNCHANGED <<tables, copying, window, inputs, pos, last, saved>>

inflate ==
  \/ BadBlock \/ StoredBlock \/ StoredByte \/ StoredEnd \/ FixedBlock \/ DynamicBlock
  \/ BuildLengths \/ LengthCode \/ BuildTables
  \/ LiteralByte \/ BlockEnds \/ BadCode \/ Match \/ CopyPiece \/ Finish
=============================================================================
