------------------------------ MODULE MCUnpack ------------------------------
(***************************************************************************)
(* Small files: compressed data is put together block by block, by the codes *)
(* of the format and not by the tables of the program, and the bytes it       *)
(* stands for and their checksum are worked out beside it.                   *)
(***************************************************************************)
EXTENDS Unpack, Huft, Crc32

\* The lowest n bits of v.
Low(v, n) == [i \in 1..n |-> (v \div 2^(i - 1)) % 2]
Repeat(x, n) == [i \in 1..n |-> x]
RECURSIVE Concat(_)
Concat(seqs) == IF seqs = <<>> THEN <<>> ELSE Head(seqs) \o Concat(Tail(seqs))

\* What a block holds: a byte, or n bytes copied from `back` bytes before.
Lit(c) == [n |-> 0, c |-> c]
Copy(n, back) == [n |-> n, back |-> back]
Index(bases, v) == CHOOSE i \in 1..30 : bases[i] <= v /\ (i = 30 \/ v < bases[i + 1])
LenIndex(n) == IF n = 258 THEN 29 ELSE CHOOSE i \in 1..28 : cplens[i] <= n /\ n < cplens[i + 1]

Coded(l, dist, item) ==
  IF item.n = 0 THEN CodeBits(l, item.c)
  ELSE LET i == LenIndex(item.n)
           j == Index(cpdist, item.back)
       IN CodeBits(l, 256 + i) \o Low(item.n - cplens[i], cplext[i])
            \o CodeBits(dist, j - 1) \o Low(item.back - cpdist[j], cpdext[j])
Symbols(l, dist, items) ==
  Concat([i \in 1..Len(items) |-> Coded(l, dist, items[i])]) \o CodeBits(l, 256)

\* A block: its kind, the lengths of its codes and what it holds.
Stored(items) == [kind |-> 0, items |-> items]
Fixed(items) == [kind |-> 1, items |-> items]
Dynamic(runs, nl, items) == [kind |-> 2, runs |-> runs, nl |-> nl, items |-> items]

\* Lengths of codes as runs <<symbol, extra>>, themselves in codes of 4 and 5 bits.
RunBits == <<4, 4, 4, 4, 4, 4, 4, 4, 4, 4, 4, 4, 4, 5, 5, 5, 5, 5, 5>>
Extra(s) == IF s < 16 THEN 0 ELSE IF s = 16 THEN 2 ELSE IF s = 17 THEN 3 ELSE 7
Runs(runs) ==
  Concat([i \in 1..Len(runs) |-> CodeBits(RunBits, runs[i][1])
                                   \o Low(runs[i][2], Extra(runs[i][1]))])
RECURSIVE Lengths(_, _)
Lengths(ls, runs) ==
  IF runs = <<>> THEN ls
  ELSE LET r == Head(runs)
           more == CASE r[1] < 16 -> <<r[1]>>
                     [] r[1] = 16 -> Repeat(Last(ls), 3 + r[2])
                     [] r[1] = 17 -> Repeat(0, 3 + r[2])
                     [] OTHER -> Repeat(0, 11 + r[2])
       IN Lengths(ls \o more, Tail(runs))
Trees(b) ==
  LET ls == Lengths(<<>>, b.runs)
  IN <<SubSeq(ls, 1, b.nl), SubSeq(ls, b.nl + 1, Len(ls))>>

BlockBits(before, b) ==
  IF b.kind = 0
  THEN Repeat(0, (8 - (Len(before) % 8)) % 8) \o Low(Len(b.items), 16)
         \o Low(65535 - Len(b.items), 16)
         \o Concat([i \in 1..Len(b.items) |-> Low(b.items[i].c, 8)])
  ELSE IF b.kind = 1 THEN Symbols(FixedLengths, Repeat(5, 30), b.items)
  ELSE LET t == Trees(b)
       IN Low(b.nl - 257, 5) \o Low(Len(t[2]) - 1, 5) \o Low(15, 4)
            \o Concat([j \in 1..19 |-> Low(RunBits[border[j] + 1], 3)])
            \o Runs(b.runs) \o Symbols(t[1], t[2], b.items)

RECURSIVE Stream(_, _)
Stream(before, blocks) ==
  IF blocks = <<>> THEN before
  ELSE LET b == Head(blocks)
           head == before \o <<IF Len(blocks) = 1 THEN 1 ELSE 0>> \o Low(b.kind, 2)
       IN Stream(head \o BlockBits(head, b), Tail(blocks))

\* The bytes it stands for, and their checksum bit by bit.
RECURSIVE Expand(_, _)
Expand(s, items) ==
  IF items = <<>> THEN s
  ELSE LET item == Head(items)
           more == IF item.n = 0 THEN <<item.c>>
                   ELSE [i \in 1..item.n |-> s[Len(s) + 1 - item.back + ((i - 1) % item.back)]]
       IN Expand(s \o more, Tail(items))
Bytes(blocks) == Expand(<<>>, Concat([i \in 1..Len(blocks) |-> blocks[i].items]))

RECURSIVE Shift(_, _)
Shift(word, bits) ==
  IF bits = <<>> THEN word
  ELSE Shift(IF (0 \in word) # (Head(bits) = 1) THEN Xor(Shr(word, 1), Polynomial)
             ELSE Shr(word, 1), Tail(bits))
RECURSIVE Through(_)
Through(s) ==
  IF s.bytes = <<>> THEN s.word
  ELSE Through([word |-> Shift(s.word, Low(Head(s.bytes), 8)), bytes |-> Tail(s.bytes)])
Crc(bytes) == (0..31) \ Through([word |-> 0..31, bytes |-> bytes])

Lits(cs) == [i \in 1..Len(cs) |-> Lit(cs[i])]

----------------------------------------------------------------------------
\* Codes of 1, 2, 3 and 3 bits for bytes 1, 2, the end and copies of 3; two distances.
Short == <<<<0, 0>>, <<1, 0>>, <<2, 0>>, <<18, 127>>, <<18, 104>>, <<3, 0>>, <<3, 0>>,
           <<1, 0>>, <<1, 0>>>>
\* The same, but no distances.
Single == SubSeq(Short, 1, 7) \o <<<<0, 0>>>>
\* The same, with two distances only one of which has a code.
Lone == SubSeq(Short, 1, 7) \o <<<<1, 0>>, <<0, 0>>>>
\* Nothing but the end has a code.
Nothing == <<<<18, 127>>, <<18, 107>>, <<1, 0>>, <<0, 0>>>>
\* Codes of 1 to 15 bits, in tables of two levels, and distances in codes of up to 8 bits.
Deep == [i \in 1..14 |-> <<i, 0>>]
          \o <<<<18, 127>>, <<18, 93>>, <<15, 0>>, <<15, 0>>, <<0, 0>>>>
          \o [i \in 1..8 |-> <<i, 0>>] \o <<<<8, 0>>>>
\* Four codes of ten bits, in two tables behind the first; lengths up to 258.
Forked == <<<<1, 0>>, <<2, 0>>, <<3, 0>>, <<4, 0>>, <<5, 0>>, <<6, 0>>, <<8, 0>>,
            <<18, 127>>, <<18, 100>>, <<10, 0>>, <<10, 0>>, <<17, 3>>, <<10, 0>>, <<10, 0>>,
            <<18, 8>>, <<7, 0>>, <<2, 0>>, <<16, 0>>>>

\* No codes for the lengths of codes: the last block, of kind 2, and a header of zeros.
NoLengths == <<1, 0, 1>> \o Repeat(0, 10) \o Repeat(1, 4) \o Repeat(0, 57)
\* A code, of one bit, for the length 0 alone.
OneLength == [NoLengths EXCEPT ![27] = 1]

Good ==
  [stored |-> <<Stored(Lits(<<1, 2, 3>>))>>,
   window |-> <<Stored(Lits([i \in 1..20 |-> 7 * i])), Stored(Lits([i \in 1..12 |-> i]))>>,
   empty  |-> <<Fixed(<<>>)>>,
   fixed  |-> <<Fixed(<<Lit(65), Lit(200), Copy(3, 1), Copy(12, 2), Lit(0), Copy(4, 7)>>)>>,
   wrap   |-> <<Fixed(Lits([i \in 1..20 |-> i])
                        \o <<Copy(9, 16), Copy(20, 15), Copy(11, 3)>>)>>,
   short  |-> <<Dynamic(Short, 258, <<Lit(1), Lit(2), Copy(3, 2), Lit(2), Copy(3, 1)>>)>>,
   single |-> <<Dynamic(Single, 258, <<Lit(1), Lit(2), Lit(1)>>)>>,
   lone   |-> <<Dynamic(Lone, 258, <<Lit(1), Lit(2), Copy(3, 1), Lit(2)>>)>>,
   nothing |-> <<Dynamic(Nothing, 257, <<>>)>>,
   deep   |-> <<Dynamic(Deep, 258, Lits([i \in 1..14 |-> 14 - i]) \o
                                   <<Copy(3, 2), Copy(3, 13), Copy(3, 16), Copy(3, 4)>>)>>,
   forked |-> <<Dynamic(Forked, 286, <<Lit(6), Lit(0), Lit(5), Copy(258, 3), Copy(12, 4)>>)>>,
   blocks |-> <<Dynamic(Deep, 258, <<Lit(3)>>), Stored(Lits(<<9, 8>>)),
                Dynamic(Deep, 258, <<Lit(13), Copy(3, 2)>>), Fixed(<<Lit(255), Copy(5, 7)>>),
                Dynamic(Forked, 286, <<Lit(2)>>)>>]

Package(clen, len) ==
  [magic |-> TRUE, header_version |-> 1, pkg_type |-> 2, pkg_id |-> 0, compr_type |-> 1,
   compressed_len |-> clen, orig_len |-> len]
Tos(blocks) ==
  LET bits == Stream(<<>>, blocks)
      bytes == Bytes(blocks)
  IN [Package((Len(bits) + 7) \div 8, Len(bytes)) EXCEPT !.pkg_type = 1]
       @@ [bits |-> bits, orig_crc |-> Crc(bytes)]

File(blocks) ==
  [old |-> FALSE, raw |-> <<1, 2, 3>>, at |-> 0 :> Tos(blocks), original |-> Bytes(blocks),
   good |-> TRUE, faults |-> {0}, fills |-> {0, 255}, wild |-> {Entry(Invalid, 0, 0)}]
Damaged(file) == [file EXCEPT !.good = FALSE]

\* Files any bit of which, or one of the last n, may be read wrongly; where they give an
\* alphabet no codes, or only one of a single bit, what is then read as an entry is anything.
Fragile(file, fills) ==
  [file EXCEPT !.faults = {0} \cup DOMAIN file.at[0].bits, !.fills = fills]
FragileEnd(file, n, fills) ==
  LET l == Len(file.at[0].bits)
  IN [file EXCEPT !.faults = {0} \cup l - n..l, !.fills = fills]
Hollow(file) ==
  [file EXCEPT !.wild = {Entry(Invalid, 0, 0), Entry(Literal, 1, 0), Entry(EndOfBlock, 1, 0)}]
Stale(file) ==
  [file EXCEPT !.wild = {Entry(Invalid, 0, 17), Entry(Literal, 3, 700), Entry(0, 0, 0),
                         Entry(14, 0, 65535)}]

\* A header that is not what it should be.
Basic == File(Good.fixed)
Headers ==
  {[Damaged(Basic) EXCEPT !.at[0].magic = FALSE],
   [Damaged(Basic) EXCEPT !.at[0].header_version = 2],
   [Damaged(Basic) EXCEPT !.at[0].pkg_type = 2],
   [Damaged(Basic) EXCEPT !.at[0].compr_type = 3],
   [Damaged(Basic) EXCEPT !.at[0].orig_len = RomSize],
   [Damaged(Basic) EXCEPT !.at[0].orig_len = Word - 50],
   [Damaged(Basic) EXCEPT !.at[0].orig_len = @ + 1],
   [Damaged(Basic) EXCEPT !.at[0].orig_crc = {}],
   [Basic EXCEPT !.at[0].compr_type = 2],
   [Basic EXCEPT !.at[0].pkg_id = CompInd + 1],
   [Damaged(Basic) EXCEPT !.at[0].compr_type = COMPR_NONE, !.at[0].orig_len = 2],
   [Damaged(Basic) EXCEPT !.old = TRUE]}

\* Packages behind the TOS, each header on the next multiple of 16.
RECURSIVE Chain(_, _, _)
Chain(at, last_, pkgs) ==
  IF pkgs = <<>> THEN at
  ELSE LET next == RoundUp(last_ + HeaderSize + at[last_].compressed_len)
       IN Chain((next :> Head(pkgs)) @@ at, next, Tail(pkgs))
With(file, pkgs) == [file EXCEPT !.at = Chain(@, 0, pkgs)]

Chains ==
  {With(Basic, <<Package(5, 9), Package(33, 40)>>),
   With(Basic, <<Package(4, 4), Package(16, 64), Package(12, 12)>>),
   With(Basic, <<Package(5, 9), Package(7, Word - 100), Package(7, 90)>>),
   With(File(Good.forked), <<Package(20, 40), Package(60, 60), Package(10, 90)>>)}

\* For the packages behind the TOS alone.
ChainBuffers == Chains \cup {File(Good[n]) : n \in DOMAIN Good}

MCBuffers ==
  {File(Good[n]) :
     n \in DOMAIN Good \ {"stored", "fixed", "short", "single", "lone", "nothing"}}
    \cup {Fragile(File(Good[n]), {0, 255}) : n \in {"stored", "fixed"}}
    \cup {Fragile(File(Good.short), {255}), Fragile(Hollow(File(Good.single)), {0})}
    \cup {FragileEnd(Stale(File(Good.lone)), 28, {0, 255}),
          FragileEnd(Stale(File(Good.nothing)), 18, {0})}
    \cup {[Damaged(Hollow(Basic)) EXCEPT !.at[0].bits = NoLengths],
          [Damaged(Stale(Basic)) EXCEPT !.at[0].bits = OneLength]}
    \cup Headers \cup Chains

\* What huft_build returns for the alphabets of the files, complete or not, too long and empty.
MCAlphabets ==
  {FixedLengths, RunBits, Repeat(1, 3), <<0, 1>>, <<1>>, <<2, 0, 3>>, <<0>>,
   [i \in 1..19 |-> IF i = 1 THEN 1 ELSE 0], [i \in 1..257 |-> IF i = 257 THEN 1 ELSE 0]}
    \cup UNION {{Trees([runs |-> Short, nl |-> 258])[i], Trees([runs |-> Deep, nl |-> 258])[i],
                Trees([runs |-> Forked, nl |-> 286])[i]} : i \in {1, 2}}
ASSUME TreesAreTrees == \A b \in MCAlphabets : b \in Seq(0..15) /\ BuildsTrees(b)

\* huft_build: when the symbols of a block with codes of its own are about to be read, its
\* tables lead every code of both alphabets to its symbol, however many levels the code takes.
TablesDecode ==
  [][pc = "lengths" /\ pc' = "codes" =>
       /\ Decodes(tl', SubSeq(ll, 1, size[1]), 257, cplens, cplext)
       /\ Decodes(td', SubSeq(ll, size[1] + 1, Len(ll)), 0, cpdist, cpdext)]_vars

\* The checksum of "123456789" is CBF43926.
ASSUME CheckValue ==
  crc32buf([i \in 1..9 |-> 48 + i]) =
    {1, 2, 5, 8, 11, 12, 13, 18, 20, 21, 22, 23, 24, 25, 27, 30, 31}
=============================================================================
