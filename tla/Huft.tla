-------------------------------- MODULE Huft --------------------------------
(***************************************************************************)
(* huft_build (inflate.c): from the lengths of the codes of an alphabet, the *)
(* tables by which inflate_codes decodes them. Short codes are looked up at   *)
(* once, longer ones through further tables that the entries lead to.         *)
(*                                                                         *)
(* A code of k bits is held as in the bit buffer, its first bit lowest.       *)
(*                                                                         *)
(* (The loops are recursive operators: TLC keeps the value of a constant only *)
(* if no recursive function, and so no fold, is evaluated for it.)            *)
(***************************************************************************)
EXTENDS Integers, SequencesExt, Entries

\* The memory zipmalloc takes for a table of z entries of 6 bytes and the link before them.
TableSize(z) == ((6 * (z + 1) + 3) \div 4) * 4

\* How many codes there are of length k, when b[i + 1] is the length of symbol i's.
Count(b, k) == Cardinality({i \in DOMAIN b : b[i] = k})

\* Patterns of j bits left when the codes up to j bits have been dealt out.
RECURSIVE Left(_, _)
Left(b, j) == IF j = 0 THEN 1 ELSE 2 * Left(b, j - 1) - Count(b, j)

\* The symbols with codes of at most k bits, by the length of their codes.
RECURSIVE UpToLength(_, _)
UpToLength(b, k) ==
  IF k = 0 THEN <<>>
  ELSE UpToLength(b, k - 1) \o SelectSeq([i \in 1..Len(b) |-> i - 1], LAMBDA i : b[i + 1] = k)

\* The codes in the order in which they are dealt out: the symbols by the length of their
\* codes, then y codes of length g that stand for nothing. These count as symbols as long as
\* there are fewer codes than symbols, those without a code included: the value they are given
\* is read from a place of v[] that is unwritten.
InOrder(b, g, y) ==
  LET sorted == UpToLength(b, g)
  IN [n \in 1..Len(sorted) + y |->
        IF n <= Len(sorted)
        THEN [k |-> b[sorted[n] + 1], sym |-> sorted[n], is |-> "symbol"]
        ELSE [k |-> g, sym |-> 0, is |-> IF n <= Len(b) THEN "unwritten" ELSE "none"]]

\* The next code after i among those of k bits, counted with the lowest bit as the highest.
Increment(i, k) ==
  LET zeros == {j \in 0..k - 1 : (i \div 2^j) % 2 = 0}
  IN IF zeros = {} THEN 0 ELSE LET j == Max(zeros) IN (i % 2^j) + 2^j

\* Patterns of j bits left in a table when the codes from the n-th on that fit are dealt out;
\* j0 bits take the n-th.
RECURSIVE Unused(_, _, _, _, _)
Unused(codes, n, w, j0, j) ==
  LET fitting == Cardinality({m \in n..Len(codes) : codes[m].k = w + j})
  IN IF j = j0 THEN 2^j0 - fitting ELSE 2 * Unused(codes, n, w, j0, j - 1) - fitting

\* Bits of the table in which the n-th code is the first, w bits having been looked up before:
\* as few as the codes that follow use up, but not more than are worth while.
TableBits(codes, n, w, l, g) ==
  LET j0 == codes[n].k - w
      most == IF g - w > l THEN l ELSE g - w
      full == {j \in j0..most - 1 : Unused(codes, n, w, j0, j) <= 0}
  IN IF Unused(codes, n, w, j0, j0) <= 0 THEN j0
     ELSE IF full # {} THEN Min(full) ELSE IF j0 < most THEN most ELSE j0 + 1

\* A slip: the entry that leads to a table dumps the bits of that table.
LinkDumpsNext(j, l, table) == Entry(16 + j, j, table)

\* The entry that leads to a table of j bits, after the l bits looked up so far.
Link(j, l, table) == Entry(16 + j, l, table)

\* One table more for code i, of j bits, linked from the one above; no entry of it is set yet.
WithTable(st, j, l) ==
  LET h == st.h + 1
      new == Len(st.tabs) + 1
      r == Link(j, l, new)
  IN [st EXCEPT
        !.h = h, !.z = 2^j, !.u = [@ EXCEPT ![h] = new],
        !.x = IF h = 0 THEN @ ELSE [@ EXCEPT ![h] = st.i],
        !.r = IF h = 0 THEN @ ELSE r,
        !.mem = @ + TableSize(2^j),
        !.tabs = Append(IF h = 0 THEN @
                        ELSE [@ EXCEPT ![st.u[h - 1]] =
                                (st.i \div 2^(l * st.h) :> r) @@ @],
                        <<>>)]

NewTable(st, codes, n, l, g) ==
  WithTable(st, TableBits(codes, n, l * (st.h + 1), l, g), l)

\* Tables are made up to the level that code needs.
RECURSIVE NewTables(_, _, _, _, _)
NewTables(st, codes, n, l, g) ==
  IF codes[n].k <= l * (st.h + 1) THEN st
  ELSE NewTables(NewTable(st, codes, n, l, g), codes, n, l, g)

\* The entry for code c, w bits of which have been looked up before.
EntryOf(c, w, s, d, e, before) ==
  IF c.is = "none" THEN Entry(Invalid, c.k - w, before.v)
  ELSE IF c.is = "unwritten" THEN Entry(Garbage, c.k - w, 0)
  ELSE IF c.sym < s
    THEN Entry(IF c.sym < 256 THEN Literal ELSE EndOfBlock, c.k - w, c.sym)
  ELSE Entry(e[c.sym - s + 1], c.k - w, d[c.sym - s + 1])

\* Code c is entered into its table and counted on, and the finished tables are left.
Deal(st, c, s, d, e, l) ==
  LET w == l * st.h
      f == 2^(c.k - w)
      r == EntryOf(c, w, s, d, e, st.r)
      next == Increment(st.i, c.k)
  IN [st EXCEPT
        !.tabs[st.u[st.h]] =
          [idx \in {st.i \div 2^w + m * f : m \in 0..st.z \div f - 1} |-> r] @@ @,
        !.r = r, !.i = next,
        !.h = Max({h \in 0..st.h : next % 2^(l * h) = st.x[h]})]

\* The n-th code: its tables are made up to the level it needs, and it is dealt out.
Turn(st, codes, n, s, d, e, l, g) ==
  Deal(NewTables(st, codes, n, l, g), codes[n], s, d, e, l)

\* The codes from n to m, as long as there is memory (by halves: so TLC does not recurse deep).
RECURSIVE Turns(_, _, _, _, _, _, _, _, _, _)
Onward(st, codes, n, m, s, d, e, l, g, room) ==
  IF st.mem > room THEN st ELSE Turns(st, codes, n, m, s, d, e, l, g, room)
Turns(st, codes, n, m, s, d, e, l, g, room) ==
  IF n = m THEN Turn(st, codes, n, s, d, e, l, g)
  ELSE LET half == (n + m) \div 2
       IN Onward(Turns(st, codes, n, half, s, d, e, l, g, room),
                 codes, half + 1, m, s, d, e, l, g, room)

Start == [h |-> -1, z |-> 0, i |-> 0, mem |-> 0, r |-> Entry(0, 0, 0), tabs |-> <<>>,
          x |-> [h \in 0..15 |-> 0], u |-> [h \in 0..15 |-> 0]]

\* What is returned: ret as huft_build returns it, the bits l of the first table, the tables
\* and the memory they take, when y patterns are left over and g is the longest code.
Result(end, y, g, l, room) ==
  [ret |-> IF end.mem > room THEN 3 ELSE IF y # 0 /\ g # 1 THEN 1 ELSE 0,
   l |-> l, tabs |-> end.tabs, mem |-> end.mem]

Deals(codes, y, s, d, e, l, g, room) ==
  Result(Turns(Start, codes, 1, Len(codes), s, d, e, l, g, room), y, g, l, room)

\* All tables for an alphabet; there are `room` bytes of memory at most. No tables at all for
\* an empty alphabet.
huft_build(b, s, d, e, m, room) ==
  LET lengths == {b[i] : i \in DOMAIN b} \ {0}
      least == Min(lengths)
      g == Max(lengths)
      y == Left(b, g)
  IN IF lengths = {} THEN [ret |-> 0, l |-> 0, tabs |-> <<>>, mem |-> 0]
     ELSE IF \E j \in least..g : Left(b, j) < 0
       THEN [ret |-> 2, l |-> 0, tabs |-> <<>>, mem |-> 0]
     ELSE Deals(InOrder(b, g, y), y, s, d, e,
                IF m < least THEN least ELSE IF m > g THEN g ELSE m, g, room)

\* Looking a code up in the next bits of the input, the lowest of `word` first: from the first
\* table on to where there is no further one. `used` counts the bits of the code.
RECURSIVE Follow(_, _, _, _, _)
Follow(tabs, t, bits, word, used) ==
  LET r == tabs[t][word % 2^bits]
  IN IF r.e <= 16 \/ r.e \in {Invalid, Garbage}
     THEN [e |-> r.e, v |-> r.v, used |-> used + r.b]
     ELSE Follow(tabs, r.v, r.e - 16, word \div 2^r.b, used + r.b)
Lookup(tree, word) == Follow(tree.tabs, 1, tree.l, word, 0)

\* For comparison, the codes a set of lengths stands for: the codes of a length are consecutive
\* numbers in the order of their symbols, after those that continue shorter codes.
RECURSIVE FirstCode(_, _)
FirstCode(b, k) == IF k = 1 THEN 0 ELSE 2 * (FirstCode(b, k - 1) + Count(b, k - 1))
CodeNumber(b, i) ==
  FirstCode(b, b[i + 1]) + Cardinality({j \in 0..i - 1 : b[j + 1] = b[i + 1]})
CodeBits(b, i) ==
  LET number == CodeNumber(b, i) IN [n \in 1..b[i + 1] |-> (number \div 2^(b[i + 1] - n)) % 2]

RECURSIVE ValueOf(_)
ValueOf(bits) == IF bits = <<>> THEN 0 ELSE Head(bits) + 2 * ValueOf(Tail(bits))

\* The tables lead every code to its symbol, whatever bits follow it.
Decodes(tree, b, s, d, e) ==
  \A i \in {j \in 0..Len(b) - 1 : b[j + 1] # 0} :
    LET bits == CodeBits(b, i)
        word == ValueOf(bits)
        r == IF i < s THEN Entry(IF i < 256 THEN Literal ELSE EndOfBlock, Len(bits), i)
                      ELSE Entry(e[i - s + 1], Len(bits), d[i - s + 1])
    IN \A after \in {0, 2^Len(bits)} :
         LET found == Lookup(tree, word + after)
         IN found.e = r.e /\ found.v = r.v /\ (found.used = r.b \/ r.e = Invalid)
=============================================================================
