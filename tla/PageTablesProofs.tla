--------------------------- MODULE PageTablesProofs ---------------------------
(***************************************************************************)
(* Proofs about Init_PMMU (PageTables), for every number of banks, every     *)
(* set of bank types the detection may leave and every sequence of the PCI   *)
(* setup's allocations. Beside the types (ShapeInv), the inductive invariant  *)
(* says what the allocator has handed out (AllocInv) and how much room that    *)
(* leaves (RoomInv), where the mapping has come to (MapInv), which page tables *)
(* exist (DomainInv), and what stands in them (EntryInv, AliasInv, RamInv).    *)
(***************************************************************************)
EXTENDS PageTables, TLAPS, FiniteSetTheorems

-----------------------------------------------------------------------------
(* The invariant *)

\* The steps of Init_PMMU, in their order.
Stage ==
  CASE pc = "map" -> 0 [] pc = "tos" -> 1 [] pc = "port" -> 2 [] pc = "port_alias" -> 3
    [] pc = "emu" -> 4 [] pc = "io" -> 5 [] pc = "io_alias" -> 6 [] pc = "pci_io" -> 7
    [] pc = "pci_ack" -> 8 [] pc = "pci" -> 9 [] pc = "vme" -> 10 [] pc = "vme_ack" -> 11
    [] pc = "vme_dsp" -> 12 [] pc = "uncache" -> 13 [] pc = "done" -> 14
    [] pc = "locked" -> 15

\* The chunks that ever get a page table: memory, PCI, and the top of the addresses.
Chunks == (0..2111) \cup (12288..12352) \cup (16192..16383)
Descriptors == [at : Nat, mode : Mode \cup {"none"}]

ShapeInv ==
  /\ pc \in {"map", "tos", "port", "port_alias", "emu", "io", "io_alias", "pci_io",
             "pci_ack", "pci", "vme", "vme_ack", "vme_dsp", "uncache", "done", "locked"}
  /\ stram_end \in {1792, 1024, 512} /\ romport_emu \in BOOLEAN /\ types \in Types
  /\ log_phystop \in Int /\ phys_RootTbl \in Int
  /\ log_IOpage = (stram_end * PageSize) - PageSize
  /\ \A r \in DOMAIN pointerTbl : r \in 0..127 /\ pointerTbl[r] \in Int
  /\ \A c \in DOMAIN pageTbl :
       c \in Chunks /\ pageTbl[c] \in [at : Int, entry : [Entries -> Descriptors]]
  /\ \A k \in pci : k \in [at : Int, len : PciAmounts]

\* What the allocator has handed out so far.
Handed ==
  {[at |-> log_IOpage, len |-> PageSize]}
    \cup (IF phys_RootTbl = 0 THEN {} ELSE {[at |-> phys_RootTbl, len |-> 512]})
    \cup {[at |-> pointerTbl[r], len |-> 512] : r \in DOMAIN pointerTbl}
    \cup {[at |-> pageTbl[c].at, len |-> 128] : c \in DOMAIN pageTbl}
    \cup pci

\* The regions in set S lie between low and high, one beside the other.
Lies(S, low, high) ==
  /\ \A k \in S : k.at \in Int /\ k.len \in Nat /\ k.at >= low /\ k.at + k.len <= high
  /\ \A k, m \in S : k # m => k.at + k.len <= m.at \/ m.at + m.len <= k.at

AllocInv ==
  /\ Lies(Handed, log_phystop, stram_end * PageSize)
  /\ phys_RootTbl % 512 = 0 /\ \A r \in DOMAIN pointerTbl : pointerTbl[r] % 512 = 0
  /\ \A c \in DOMAIN pageTbl : pageTbl[c].at % 128 = 0
  /\ \A c, d \in DOMAIN pageTbl : c # d => pageTbl[c].at # pageTbl[d].at
  /\ phys_RootTbl = 0 => pc = "map" /\ PhysAdr = 0

\* How far the allocator can have come: so much for each table, with its alignment.
RoomInv ==
  /\ IsFiniteSet(DOMAIN pointerTbl) /\ IsFiniteSet(DOMAIN pageTbl) /\ IsFiniteSet(pci)
  /\ Cardinality(pci) <= MaxPci
  /\ log_phystop >= log_IOpage - (IF phys_RootTbl = 0 THEN 0 ELSE 1023)
                               - (1023 * Cardinality(DOMAIN pointerTbl))
                               - (255 * Cardinality(DOMAIN pageTbl))
                               - (1807 * Cardinality(pci))
                               - (IF Ready THEN 8191 ELSE 0)

\* Where the mapping of the memory has come to.
MapInv ==
  /\ LogAdr \in Nat /\ LogAdr % 32 = 0 /\ LogAdr <= 67072 /\ block \in 0..NSlots * 16 - 1
  /\ LogAdr < stram_end \/ LogAdr >= M16
  /\ PhysAdr \in Nat /\ PhysAdr % 32 = 0
  /\ log_ramtop = (IF pc = "map" THEN 0 ELSE LogAdr)
  /\ pc = "map" =>
       /\ Exists(block)
       /\ PhysAdr >= block * M4 /\ PhysAdr <= (block + 1) * M4
       /\ PhysAdr \notin {1792, 1824} /\ (romport_emu => PhysAdr # 2016)
       /\ LogAdr <= PhysAdr + 1536
       /\ LogAdr < stram_end => LogAdr = PhysAdr
  /\ pc # "map" => LogAdr >= M16
  /\ pc = "tos" => PhysAdr \in {1792, 1824}
  /\ pc = "vme" => PhysAdr < M16

\* The chunks of the memory mapped so far.
Memory(c) == c \in Nat /\ 32 * c < LogAdr /\ (32 * c < stram_end \/ 32 * c >= M16)

\* The windows that may have a page table.
Window(c) ==
  \/ c \in {56, 57} /\ (Stage > 1 \/ (Stage = 1 /\ 32 * c < PhysAdr))
  \/ c = 62 /\ Stage > 2
  \/ c = FFFA /\ Stage > 3
  \/ c = 63 /\ Stage > 4
  \/ c = FFFC /\ Stage > 5
  \/ c = C000 /\ Stage > 7
  \/ c = C100 /\ Stage > 8
  \/ c \in FE00..FE00 + 63 /\ (Stage > 10 \/ (Stage = 10 /\ 32 * (c - FE00) < PhysAdr))
  \/ c = FD00 /\ Stage > 11

DomainInv == /\ \A c \in DOMAIN pageTbl : Memory(c) \/ Window(c)
             /\ \A c \in Nat : Memory(c) => c \in DOMAIN pageTbl

\* What may stand in entry i of chunk c.
EntryOK(c, i, e) ==
  /\ 32 * c + i < stram_end =>
       e = Descriptor(32 * c + i,
             IF Ready /\ 32 * c + i >= log_phystop \div PageSize THEN "table" ELSE "ram")
  /\ c \in 64..2111 => e.mode = "ram"
  /\ c \in {56, 57} => e = Descriptor(32 * c + i, "tos")
  /\ e.mode \notin {"indirect", "none"} /\ e.at \in Tos..Tos + TosLen - 1 =>
       e = Descriptor(32 * c + i, "tos")
  /\ romport_emu /\ e.at \in RomPort..RomPort + RomPortLen - 1 =>
       e.mode \in {"port", "emu", "indirect"}
  /\ e.mode = "none" => e = None

EntryInv ==
  /\ \A c \in DOMAIN pageTbl : \A i \in Entries : EntryOK(c, i, pageTbl[c].entry[i])
  /\ Stage < 7 /\ 63 \in DOMAIN pageTbl => \A i \in 24..31 : pageTbl[63].entry[i] = None

\* The indirect descriptors point into the page tables they stand for.
AliasInv ==
  /\ Stage > 2 => 62 \in DOMAIN pageTbl
  /\ Stage > 5 => FFFC \in DOMAIN pageTbl
  /\ Stage > 3 => /\ FFFA \in DOMAIN pageTbl
                  /\ \A i \in 16..31 : pageTbl[FFFA].entry[i] =
                                         Descriptor(pageTbl[62].at + 4 * i, "indirect")
  /\ Stage > 6 => /\ 63 \in DOMAIN pageTbl
                  /\ \A i \in 24..31 : pageTbl[63].entry[i] =
                                         Descriptor(pageTbl[FFFC].at + 4 * i, "indirect")

\* The pages that exist and are to be main memory; the logical pages mapped so far.
Existing == {p \in 0..NSlots * 16 * M4 - 1 : Exists(p \div M4)}
Kept == Tos..Tos + TosLen - 1
          \cup IF romport_emu THEN RomPort..RomPort + RomPortLen - 1 ELSE {}
Ram == {l \in Nat : l < LogAdr /\ (l < stram_end \/ l >= M16)}

RamInv ==
  /\ \A l \in Ram : Entry(l).at \in Existing \ Kept
  /\ \A p \in Existing \ Kept : pc # "map" \/ p < PhysAdr => \E l \in Ram : Entry(l).at = p
  /\ pc = "map" => \A l \in Ram : Entry(l).at < PhysAdr
  /\ \A l, m \in Ram : l # m => Entry(l).at # Entry(m).at

Inv == /\ ShapeInv /\ AllocInv /\ RoomInv /\ MapInv
       /\ DomainInv /\ EntryInv /\ AliasInv /\ RamInv

-----------------------------------------------------------------------------
(* The allocator *)

LEMMA StageFacts ==
  /\ pc = "map" => Stage = 0
  /\ pc = "tos" => Stage = 1
  /\ pc = "port" => Stage = 2
  /\ pc = "port_alias" => Stage = 3
  /\ pc = "emu" => Stage = 4
  /\ pc = "io" => Stage = 5
  /\ pc = "io_alias" => Stage = 6
  /\ pc = "pci_io" => Stage = 7
  /\ pc = "pci_ack" => Stage = 8
  /\ pc = "pci" => Stage = 9
  /\ pc = "vme" => Stage = 10
  /\ pc = "vme_ack" => Stage = 11
  /\ pc = "vme_dsp" => Stage = 12
  /\ pc = "uncache" => Stage = 13
  /\ pc = "done" => Stage = 14
  /\ pc = "locked" => Stage = 15
BY DEF Stage

LEMMA ChunksAreNumbers == Chunks \subseteq Nat
BY DEF Chunks

\* kmalloc and its relatives: the region lies below top, at a multiple of the alignment,
\* and less than the alignment is lost.
LEMMA KmallocFacts ==
  ASSUME NEW top \in Int, NEW amount \in Nat, NEW align \in {4, 128, 512}
  PROVE  LET at == Kmalloc(top, amount, align)
         IN  /\ at \in Int /\ at % align = 0
             /\ at + amount <= top /\ at > top - amount - align
<1>1. align \in Nat /\ align > 0 /\ align # 0
  OBVIOUS
<1> DEFINE n == top - amount
           q == n \div align
<1>2. n \in Int
  OBVIOUS
<1>3. CASE align = 4
  BY <1>2, <1>3 DEF Kmalloc
<1>4. CASE align = 128
  BY <1>2, <1>4 DEF Kmalloc
<1>5. CASE align = 512
  BY <1>2, <1>5 DEF Kmalloc
<1>6. QED
  BY <1>3, <1>4, <1>5

\* A region below all that has been handed out shares nothing with it.
LEMMA LiesMore ==
  ASSUME NEW S, NEW low \in Int, NEW high \in Int, Lies(S, low, high), low <= high,
         NEW at \in Int, NEW len \in Nat, at + len <= low
  PROVE  Lies(S \cup {[at |-> at, len |-> len]}, at, high)
<1> DEFINE new == [at |-> at, len |-> len]
<1>1. new.at = at /\ new.len = len
  OBVIOUS
<1> HIDE DEF new
<1>2. \A k \in S : k.at \in Int /\ k.len \in Nat /\ k.at >= low /\ k.at + k.len <= high
  BY DEF Lies
<1>3. \A k \in S \cup {new} :
        k.at \in Int /\ k.len \in Nat /\ k.at >= at /\ k.at + k.len <= high
  BY <1>1, <1>2
<1>4. \A k, m \in S \cup {new} : k # m => k.at + k.len <= m.at \/ m.at + m.len <= k.at
  <2> SUFFICES ASSUME NEW k \in S \cup {new}, NEW m \in S \cup {new}, k # m
               PROVE  k.at + k.len <= m.at \/ m.at + m.len <= k.at
    OBVIOUS
  <2>1. CASE k \in S /\ m \in S
    BY <2>1 DEF Lies
  <2>2. CASE k = new /\ m \in S
    BY <1>1, <1>2, <2>2
  <2>3. CASE m = new /\ k \in S
    BY <1>1, <1>2, <2>3
  <2>4. QED
    BY <2>1, <2>2, <2>3
<1>5. QED
  BY <1>3, <1>4 DEF Lies, new

LEMMA LiesFewer ==
  ASSUME NEW S, NEW T, T \subseteq S, NEW low, NEW high, Lies(S, low, high)
  PROVE  Lies(T, low, high)
BY DEF Lies

LEMMA IntervalSize ==
  ASSUME NEW n \in Int, NEW m \in Int, NEW k, n <= m, k = m - n + 1
  PROVE  IsFiniteSet(n..m) /\ Cardinality(n..m) = k
<1>1. IsFiniteSet(n..m) /\ Cardinality(n..m) = IF n > m THEN 0 ELSE m - n + 1
  BY FS_Interval
<1>2. QED
  BY <1>1

\* The top of the allocator is below the ST-RAM's end, and above its first megabyte.
LEMMA RoomFacts ==
  ASSUME ShapeInv, AllocInv, RoomInv
  PROVE  /\ log_phystop <= stram_end * PageSize /\ stram_end * PageSize \in Int
         /\ log_phystop >= 1048576
<1>1. stram_end \in {1792, 1024, 512} /\ log_phystop \in Int
      /\ log_IOpage = (stram_end * PageSize) - PageSize
  BY DEF ShapeInv
<1>2. stram_end * PageSize \in Int /\ stram_end * PageSize >= 4194304
  BY <1>1 DEF PageSize
<1>3. log_phystop <= stram_end * PageSize
  <2>1. [at |-> log_IOpage, len |-> PageSize] \in Handed
    BY DEF Handed
  <2>2. log_IOpage >= log_phystop
    BY <2>1 DEF AllocInv, Lies
  <2>3. QED
    BY <1>1, <1>2, <2>2 DEF PageSize
<1>4. Cardinality(DOMAIN pointerTbl) \in Nat /\ Cardinality(DOMAIN pointerTbl) <= 128
  <2>1. DOMAIN pointerTbl \subseteq 0..127
    BY DEF ShapeInv
  <2>2. IsFiniteSet(0..127) /\ Cardinality(0..127) = 128
    <3> DEFINE n == 0
               m == 127
               k == 128
    <3>1. n \in Int /\ m \in Int /\ n <= m /\ k = m - n + 1
      OBVIOUS
    <3> HIDE DEF n, m, k
    <3>2. IsFiniteSet(n..m) /\ Cardinality(n..m) = k
      BY <3>1, IntervalSize
    <3>3. QED
      BY <3>2 DEF n, m, k
  <2>3. QED
    BY <2>1, <2>2, FS_Subset, FS_CardinalityType
<1>5. Cardinality(DOMAIN pageTbl) \in Nat /\ Cardinality(DOMAIN pageTbl) <= 2369
  <2>1. DOMAIN pageTbl \subseteq Chunks
    BY DEF ShapeInv
  <2>2. IsFiniteSet(0..2111) /\ Cardinality(0..2111) = 2112
    <3> DEFINE n == 0
               m == 2111
               k == 2112
    <3>1. n \in Int /\ m \in Int /\ n <= m /\ k = m - n + 1
      OBVIOUS
    <3> HIDE DEF n, m, k
    <3>2. IsFiniteSet(n..m) /\ Cardinality(n..m) = k
      BY <3>1, IntervalSize
    <3>3. QED
      BY <3>2 DEF n, m, k
  <2>3. IsFiniteSet(12288..12352) /\ Cardinality(12288..12352) = 65
    <3> DEFINE n == 12288
               m == 12352
               k == 65
    <3>1. n \in Int /\ m \in Int /\ n <= m /\ k = m - n + 1
      OBVIOUS
    <3> HIDE DEF n, m, k
    <3>2. IsFiniteSet(n..m) /\ Cardinality(n..m) = k
      BY <3>1, IntervalSize
    <3>3. QED
      BY <3>2 DEF n, m, k
  <2>4. IsFiniteSet(16192..16383) /\ Cardinality(16192..16383) = 192
    <3> DEFINE n == 16192
               m == 16383
               k == 192
    <3>1. n \in Int /\ m \in Int /\ n <= m /\ k = m - n + 1
      OBVIOUS
    <3> HIDE DEF n, m, k
    <3>2. IsFiniteSet(n..m) /\ Cardinality(n..m) = k
      BY <3>1, IntervalSize
    <3>3. QED
      BY <3>2 DEF n, m, k
  <2> DEFINE A == 0..2111
             B == 12288..12352
             C == 16192..16383
  <2> HIDE DEF A, B, C
  <2>5. \A X, Y : IsFiniteSet(X) /\ IsFiniteSet(Y) =>
          /\ IsFiniteSet(X \cup Y)
          /\ Cardinality(X \cup Y) <= Cardinality(X) + Cardinality(Y)
    <3> TAKE X, Y
    <3> HAVE IsFiniteSet(X) /\ IsFiniteSet(Y)
    <3>1. IsFiniteSet(X \cup Y) /\ IsFiniteSet(X \cap Y)
          /\ Cardinality(X \cup Y) = Cardinality(X) + Cardinality(Y) - Cardinality(X \cap Y)
      BY FS_Union, FS_Intersection
    <3>2. Cardinality(X) \in Nat /\ Cardinality(Y) \in Nat /\ Cardinality(X \cap Y) \in Nat
      BY <3>1, FS_CardinalityType
    <3>3. QED
      BY <3>1, <3>2
  <2>6. IsFiniteSet(A \cup B) /\ Cardinality(A \cup B) <= 2177
    <3>1. IsFiniteSet(A) /\ IsFiniteSet(B) /\ Cardinality(A) = 2112 /\ Cardinality(B) = 65
      BY <2>2, <2>3 DEF A, B
    <3>2. QED
      BY <2>5, <3>1
  <2>7. IsFiniteSet((A \cup B) \cup C) /\ Cardinality((A \cup B) \cup C)
                                            <= Cardinality(A \cup B) + 192
    BY <2>4, <2>5, <2>6 DEF C
  <2>8. Cardinality(A \cup B) \in Nat /\ Cardinality((A \cup B) \cup C) \in Nat
    BY <2>6, <2>7, FS_CardinalityType
  <2>9. IsFiniteSet(Chunks) /\ Cardinality(Chunks) <= 2369 /\ Cardinality(Chunks) \in Nat
    <3>1. Chunks = (A \cup B) \cup C
      BY DEF Chunks, A, B, C
    <3>2. QED
      BY <2>6, <2>7, <2>8, <3>1
  <2>10. Cardinality(DOMAIN pageTbl) <= Cardinality(Chunks)
         /\ Cardinality(DOMAIN pageTbl) \in Nat
    BY <2>1, <2>9, FS_Subset, FS_CardinalityType
  <2>11. QED
    BY <2>9, <2>10
<1>6. Cardinality(pci) \in Nat /\ Cardinality(pci) <= 41
  BY FS_CardinalityType, PciAssumption DEF RoomInv
<1>7. log_phystop >= log_IOpage - 1023 - (1023 * Cardinality(DOMAIN pointerTbl))
                     - (255 * Cardinality(DOMAIN pageTbl)) - (1807 * Cardinality(pci)) - 8191
  BY <1>1, <1>2, <1>4, <1>5, <1>6 DEF RoomInv, PageSize
<1>8. log_phystop >= 1048576
  BY <1>1, <1>2, <1>4, <1>5, <1>6, <1>7 DEF PageSize
<1>9. QED
  BY <1>2, <1>3, <1>8

\* The new descriptors of a page table.
NewEntries(new) ==
  \A i \in DOMAIN new : i \in Entries /\ new[i] \in Descriptors

\* The configuration does not change, and log_IOpage is taken only once.
SameConfig == UNCHANGED config /\ log_IOpage' = log_IOpage

\* GetPageTablePointer and the writing of descriptors: what is in the tables behind it.
LEMMA WriteIntoEntries ==
  ASSUME ShapeInv, NEW c \in Chunks, NEW new, NewEntries(new), WriteInto(c, new)
  PROVE  /\ DOMAIN pageTbl' = DOMAIN pageTbl \cup {c}
         /\ \A d \in DOMAIN pageTbl : pageTbl'[d].at = pageTbl[d].at
         /\ \A d \in DOMAIN pageTbl : d # c => pageTbl'[d] = pageTbl[d]
         /\ \A i \in Entries :
              pageTbl'[c].entry[i] = IF i \in DOMAIN new THEN new[i]
                                     ELSE IF c \in DOMAIN pageTbl THEN pageTbl[c].entry[i]
                                     ELSE None
         /\ pageTbl'[c].entry \in [Entries -> Descriptors]
         /\ pageTbl'[c] = [at |-> pageTbl'[c].at, entry |-> pageTbl'[c].entry]
         /\ c \notin DOMAIN pageTbl => pageTbl'[c].at = log_phystop'
<1> DEFINE fresh == [at |-> log_phystop', entry |-> [i \in Entries |-> None]]
           old == IF c \in DOMAIN pageTbl THEN pageTbl[c] ELSE fresh
           e == [i \in Entries |-> IF i \in DOMAIN new THEN new[i] ELSE old.entry[i]]
<1>1. pageTbl' = Put(pageTbl, c, [at |-> old.at, entry |-> e])
  BY DEF WriteInto
<1>2. None \in Descriptors
  BY DEF None, Descriptor, Descriptors
<1>3. old.entry \in [Entries -> Descriptors]
  BY <1>2 DEF ShapeInv
<1>4. e \in [Entries -> Descriptors]
  BY <1>3 DEF NewEntries
<1>5. \A i \in Entries :
        e[i] = IF i \in DOMAIN new THEN new[i]
               ELSE IF c \in DOMAIN pageTbl THEN pageTbl[c].entry[i] ELSE None
  OBVIOUS
<1>6. old.at = IF c \in DOMAIN pageTbl THEN pageTbl[c].at ELSE log_phystop'
  OBVIOUS
<1> HIDE DEF e, old
<1> DEFINE table == [at |-> old.at, entry |-> e]
<1>7. table.at = old.at /\ table.entry = e /\ pageTbl' = Put(pageTbl, c, table)
  BY <1>1
<1> HIDE DEF table
<1>8. /\ DOMAIN pageTbl' = DOMAIN pageTbl \cup {c} /\ pageTbl'[c] = table
      /\ \A d \in DOMAIN pageTbl : d # c => pageTbl'[d] = pageTbl[d]
  BY <1>7 DEF Put
<1>9. QED
  <2>1. \A d \in DOMAIN pageTbl : pageTbl'[d].at = pageTbl[d].at
    BY <1>6, <1>7, <1>8
  <2>2. pageTbl'[c] = [at |-> pageTbl'[c].at, entry |-> pageTbl'[c].entry]
    BY <1>7, <1>8 DEF table
  <2>3. QED
    BY <1>4, <1>5, <1>6, <1>7, <1>8, <2>1, <2>2

\* ... and what the allocator has handed out: at most a root table, a pointer table and a
\* page table, each below what there was before.
LEMMA WriteIntoAllocates ==
  ASSUME ShapeInv, AllocInv, RoomInv, ~Ready, SameConfig, pci' = pci,
         NEW c \in Chunks, NEW new, NewEntries(new), WriteInto(c, new)
  PROVE  /\ log_phystop' \in Int /\ phys_RootTbl' \in Int /\ phys_RootTbl' # 0
         /\ \A q \in DOMAIN pointerTbl' : q \in 0..127 /\ pointerTbl'[q] \in Int
         /\ \A d \in DOMAIN pageTbl' :
              d \in Chunks /\ pageTbl'[d] \in [at : Int, entry : [Entries -> Descriptors]]
         /\ Lies(Handed, log_phystop, stram_end * PageSize)'
         /\ phys_RootTbl' % 512 = 0 /\ \A q \in DOMAIN pointerTbl' : pointerTbl'[q] % 512 = 0
         /\ \A d \in DOMAIN pageTbl' : pageTbl'[d].at % 128 = 0
         /\ \A d, b \in DOMAIN pageTbl' : d # b => pageTbl'[d].at # pageTbl'[b].at
         /\ IsFiniteSet(DOMAIN pointerTbl)' /\ IsFiniteSet(DOMAIN pageTbl)'
         /\ log_phystop' >= log_IOpage - 1023 - (1023 * Cardinality(DOMAIN pointerTbl'))
                              - (255 * Cardinality(DOMAIN pageTbl'))
                              - (1807 * Cardinality(pci))
<1> DEFINE r == c \div 128
           high == stram_end * PageSize
           top1 == IF phys_RootTbl = 0 THEN Kmalloc(log_phystop, 512, 512) ELSE log_phystop
           top2 == IF r \in DOMAIN pointerTbl THEN top1 ELSE Kmalloc(top1, 512, 512)
           top3 == IF c \in DOMAIN pageTbl THEN top2 ELSE Kmalloc(top2, 128, 128)
           N1 == IF phys_RootTbl = 0 THEN {[at |-> top1, len |-> 512]} ELSE {}
           N2 == IF r \in DOMAIN pointerTbl THEN {} ELSE {[at |-> top2, len |-> 512]}
           N3 == IF c \in DOMAIN pageTbl THEN {} ELSE {[at |-> top3, len |-> 128]}
<1>1. /\ log_phystop \in Int /\ high \in Int /\ log_phystop <= high
      /\ log_phystop >= 1048576 /\ r \in 0..127 /\ phys_RootTbl \in Int
  <2>1. r \in 0..127
    BY DEF Chunks
  <2>2. QED
    BY <2>1, RoomFacts DEF ShapeInv
<1>2. /\ top1 \in Int /\ top1 <= log_phystop /\ Lies(Handed \cup N1, top1, high)
      /\ top1 >= log_phystop - (IF phys_RootTbl = 0 THEN 1023 ELSE 0)
      /\ phys_RootTbl = 0 => top1 % 512 = 0 /\ top1 # 0
  <2>1. CASE phys_RootTbl = 0
    <3> DEFINE t == Kmalloc(log_phystop, 512, 512)
    <3>1. t \in Int /\ t % 512 = 0 /\ t + 512 <= log_phystop /\ t > log_phystop - 512 - 512
      BY <1>1, KmallocFacts
    <3> HIDE DEF t
    <3>2. Lies(Handed \cup {[at |-> t, len |-> 512]}, t, high)
      BY <1>1, <3>1, LiesMore DEF AllocInv
    <3>3. top1 = t /\ N1 = {[at |-> t, len |-> 512]}
      BY <2>1 DEF t
    <3> HIDE DEF top1, N1
    <3>4. QED
      BY <1>1, <2>1, <3>1, <3>2, <3>3
  <2>2. CASE phys_RootTbl # 0
    <3>1. Handed \cup N1 = Handed
      BY <2>2
    <3>2. QED
      BY <1>1, <2>2, <3>1 DEF AllocInv
  <2>3. QED
    BY <2>1, <2>2
<1>3. phys_RootTbl' = IF phys_RootTbl = 0 THEN top1 ELSE phys_RootTbl
  BY DEF WriteInto
<1>4. pointerTbl' = IF r \in DOMAIN pointerTbl THEN pointerTbl ELSE Put(pointerTbl, r, top2)
  BY DEF WriteInto
<1>5. log_phystop' = top3
  BY DEF WriteInto
<1> HIDE DEF top1, N1, high
<1>6. /\ top2 \in Int /\ top2 <= top1 /\ Lies((Handed \cup N1) \cup N2, top2, high)
      /\ top2 >= top1 - (IF r \in DOMAIN pointerTbl THEN 0 ELSE 1023)
      /\ r \notin DOMAIN pointerTbl => top2 % 512 = 0
  <2>1. CASE r \notin DOMAIN pointerTbl
    <3> DEFINE t == Kmalloc(top1, 512, 512)
    <3>1. t \in Int /\ t % 512 = 0 /\ t + 512 <= top1 /\ t > top1 - 512 - 512
      BY <1>2, KmallocFacts
    <3> HIDE DEF t
    <3>2. top1 <= high
      BY <1>1, <1>2
    <3>3. Lies((Handed \cup N1) \cup {[at |-> t, len |-> 512]}, t, high)
      BY <1>1, <1>2, <3>1, <3>2, LiesMore
    <3>4. top2 = t /\ N2 = {[at |-> t, len |-> 512]}
      BY <2>1 DEF t
    <3> HIDE DEF top2, N2, r
    <3>5. QED
      BY <1>2, <2>1, <3>1, <3>3, <3>4
  <2>2. CASE r \in DOMAIN pointerTbl
    <3>1. (Handed \cup N1) \cup N2 = Handed \cup N1
      BY <2>2
    <3>2. QED
      BY <1>2, <2>2, <3>1
  <2>3. QED
    BY <2>1, <2>2
<1> HIDE DEF top2, N2, r
<1>7. /\ top3 \in Int /\ top3 <= top2 /\ Lies(((Handed \cup N1) \cup N2) \cup N3, top3, high)
      /\ top3 >= top2 - (IF c \in DOMAIN pageTbl THEN 0 ELSE 255)
      /\ c \notin DOMAIN pageTbl => top3 % 128 = 0 /\ top3 + 128 <= top2
  <2>1. CASE c \notin DOMAIN pageTbl
    <3> DEFINE t == Kmalloc(top2, 128, 128)
    <3>1. t \in Int /\ t % 128 = 0 /\ t + 128 <= top2 /\ t > top2 - 128 - 128
      BY <1>6, KmallocFacts
    <3> HIDE DEF t
    <3>2. top2 <= high
      BY <1>1, <1>2, <1>6
    <3>3. Lies(((Handed \cup N1) \cup N2) \cup {[at |-> t, len |-> 128]}, t, high)
      BY <1>1, <1>6, <3>1, <3>2, LiesMore
    <3>4. top3 = t /\ N3 = {[at |-> t, len |-> 128]}
      BY <2>1 DEF t
    <3> HIDE DEF top3, N3
    <3>5. QED
      BY <1>6, <2>1, <3>1, <3>3, <3>4
  <2>2. CASE c \in DOMAIN pageTbl
    <3>1. ((Handed \cup N1) \cup N2) \cup N3 = (Handed \cup N1) \cup N2
      BY <2>2
    <3>2. QED
      BY <1>6, <2>2, <3>1
  <2>3. QED
    BY <2>1, <2>2
<1> HIDE DEF top3
<1>8. /\ DOMAIN pageTbl' = DOMAIN pageTbl \cup {c}
      /\ \A d \in DOMAIN pageTbl : pageTbl'[d].at = pageTbl[d].at
      /\ \A d \in DOMAIN pageTbl : d # c => pageTbl'[d] = pageTbl[d]
      /\ pageTbl'[c].entry \in [Entries -> Descriptors]
      /\ c \notin DOMAIN pageTbl => pageTbl'[c].at = top3
  BY <1>5, WriteIntoEntries
<1>9. /\ DOMAIN pointerTbl' = DOMAIN pointerTbl \cup {r}
      /\ \A q \in DOMAIN pointerTbl : pointerTbl'[q] = pointerTbl[q]
      /\ r \notin DOMAIN pointerTbl => pointerTbl'[r] = top2
  <2>1. CASE r \in DOMAIN pointerTbl
    BY <1>4, <2>1
  <2>2. CASE r \notin DOMAIN pointerTbl
    BY <1>4, <2>2 DEF Put
  <2>3. QED
    BY <2>1, <2>2
<1>10. phys_RootTbl' \in Int /\ phys_RootTbl' # 0 /\ phys_RootTbl' % 512 = 0
  BY <1>1, <1>2, <1>3 DEF AllocInv
<1>11. \A q \in DOMAIN pointerTbl' :
         q \in 0..127 /\ pointerTbl'[q] \in Int /\ pointerTbl'[q] % 512 = 0
  <2>1. \A q \in DOMAIN pointerTbl :
          q \in 0..127 /\ pointerTbl[q] \in Int /\ pointerTbl[q] % 512 = 0
    BY DEF ShapeInv, AllocInv
  <2>2. r \notin DOMAIN pointerTbl => pointerTbl'[r] \in Int /\ pointerTbl'[r] % 512 = 0
    BY <1>6, <1>9
  <2>3. QED
    BY <1>1, <1>9, <2>1, <2>2
<1>12. \A d \in DOMAIN pageTbl' : d \in Chunks /\ pageTbl'[d].at \in Int
                                  /\ pageTbl'[d].at % 128 = 0
  <2>1. \A d \in DOMAIN pageTbl : d \in Chunks /\ pageTbl[d].at \in Int
                                  /\ pageTbl[d].at % 128 = 0
    BY DEF ShapeInv, AllocInv
  <2>2. c \notin DOMAIN pageTbl => pageTbl'[c].at \in Int /\ pageTbl'[c].at % 128 = 0
    BY <1>7, <1>8
  <2>3. QED
    BY <1>8, <2>1, <2>2
<1>13. \A d \in DOMAIN pageTbl' : pageTbl'[d] \in [at : Int, entry : [Entries -> Descriptors]]
  <2>1. \A d \in DOMAIN pageTbl : pageTbl[d] \in [at : Int, entry : [Entries -> Descriptors]]
    BY DEF ShapeInv
  <2>2. pageTbl'[c] \in [at : Int, entry : [Entries -> Descriptors]]
    <3>1. pageTbl'[c] = [at |-> pageTbl'[c].at, entry |-> pageTbl'[c].entry]
      BY WriteIntoEntries
    <3>2. pageTbl'[c].at \in Int /\ pageTbl'[c].entry \in [Entries -> Descriptors]
      BY <1>8, <1>12
    <3>3. QED
      BY <3>1, <3>2
  <2>3. QED
    BY <1>8, <2>1, <2>2
<1>14. \A d, b \in DOMAIN pageTbl' : d # b => pageTbl'[d].at # pageTbl'[b].at
  <2>1. \A d \in DOMAIN pageTbl : pageTbl[d].at >= log_phystop /\ pageTbl[d].at \in Int
    <3> SUFFICES ASSUME NEW d \in DOMAIN pageTbl
                 PROVE  pageTbl[d].at >= log_phystop /\ pageTbl[d].at \in Int
      OBVIOUS
    <3>1. [at |-> pageTbl[d].at, len |-> 128] \in Handed
      BY DEF Handed
    <3>2. QED
      BY <3>1 DEF AllocInv, Lies
  <2>2. c \notin DOMAIN pageTbl => \A d \in DOMAIN pageTbl : pageTbl'[c].at # pageTbl[d].at
    BY <1>1, <1>2, <1>6, <1>7, <1>8, <2>1
  <2>3. \A d, b \in DOMAIN pageTbl : d # b => pageTbl[d].at # pageTbl[b].at
    BY DEF AllocInv
  <2>4. QED
    BY <1>8, <2>2, <2>3
<1>15. log_phystop' \in Int
  BY <1>5, <1>7
<1>16. Lies(Handed', log_phystop', high)
  <2> DEFINE All == ((Handed \cup N1) \cup N2) \cup N3
  <2>1. ASSUME NEW k \in Handed' PROVE k \in All
    <3>1. [at |-> log_IOpage, len |-> PageSize] \in Handed /\ pci \subseteq Handed
      BY DEF Handed
    <3>2. [at |-> phys_RootTbl', len |-> 512] \in All
      BY <1>3 DEF Handed, N1
    <3>3. \A q \in DOMAIN pointerTbl' : [at |-> pointerTbl'[q], len |-> 512] \in All
      BY <1>9 DEF Handed, N2
    <3>4. \A d \in DOMAIN pageTbl' : [at |-> pageTbl'[d].at, len |-> 128] \in All
      BY <1>8 DEF Handed
    <3>5. \/ k = [at |-> log_IOpage, len |-> PageSize] \/ k \in pci
          \/ k = [at |-> phys_RootTbl', len |-> 512]
          \/ \E q \in DOMAIN pointerTbl' : k = [at |-> pointerTbl'[q], len |-> 512]
          \/ \E d \in DOMAIN pageTbl' : k = [at |-> pageTbl'[d].at, len |-> 128]
      BY <1>10, <2>1 DEF Handed, SameConfig
    <3>6. QED
      BY <3>1, <3>2, <3>3, <3>4, <3>5
  <2>2. Handed' \subseteq All
    BY <2>1
  <2>3. QED
    BY <1>5, <1>7, <2>2, LiesFewer
<1>17. Lies(Handed, log_phystop, stram_end * PageSize)'
  BY <1>16 DEF SameConfig, config, high
<1>18. /\ IsFiniteSet(DOMAIN pointerTbl') /\ IsFiniteSet(DOMAIN pageTbl')
       /\ Cardinality(DOMAIN pointerTbl') = IF r \in DOMAIN pointerTbl
                                            THEN Cardinality(DOMAIN pointerTbl)
                                            ELSE Cardinality(DOMAIN pointerTbl) + 1
       /\ Cardinality(DOMAIN pageTbl') = IF c \in DOMAIN pageTbl
                                         THEN Cardinality(DOMAIN pageTbl)
                                         ELSE Cardinality(DOMAIN pageTbl) + 1
  BY <1>8, <1>9, FS_AddElement DEF RoomInv
<1>19. log_phystop' >= log_IOpage - 1023 - (1023 * Cardinality(DOMAIN pointerTbl'))
                         - (255 * Cardinality(DOMAIN pageTbl')) - (1807 * Cardinality(pci))
  <2> DEFINE P == Cardinality(DOMAIN pointerTbl)
             T == Cardinality(DOMAIN pageTbl)
             K == Cardinality(pci)
             P1 == Cardinality(DOMAIN pointerTbl')
             T1 == Cardinality(DOMAIN pageTbl')
  <2>1. P \in Nat /\ T \in Nat /\ K \in Nat
    BY FS_CardinalityType DEF RoomInv
  <2>2. log_phystop >= log_IOpage - (IF phys_RootTbl = 0 THEN 0 ELSE 1023)
                         - (1023 * P) - (255 * T) - (1807 * K)
    <3>1. ~Ready
      OBVIOUS
    <3>2. log_phystop >= log_IOpage - (IF phys_RootTbl = 0 THEN 0 ELSE 1023)
                           - (1023 * P) - (255 * T) - (1807 * K) - 0
      BY <3>1 DEF RoomInv
    <3>3. QED
      BY <1>1, <2>1, <3>2 DEF ShapeInv, PageSize
  <2>3. P1 = IF r \in DOMAIN pointerTbl THEN P ELSE P + 1
    BY <1>18
  <2>4. T1 = IF c \in DOMAIN pageTbl THEN T ELSE T + 1
    BY <1>18
  <2>5. log_IOpage \in Int
    BY DEF ShapeInv, PageSize
  <2> HIDE DEF P, T, K, P1, T1
  <2>6. top3 >= log_IOpage - 1023 - (1023 * P1) - (255 * T1) - (1807 * K)
    BY <1>1, <1>2, <1>6, <1>7, <2>1, <2>2, <2>3, <2>4, <2>5
  <2>7. QED
    BY <1>5, <2>6 DEF P1, T1, K
<1>20. IsFiniteSet(DOMAIN pointerTbl)' /\ IsFiniteSet(DOMAIN pageTbl)'
  BY <1>18
<1>21. \A q \in DOMAIN pointerTbl' : q \in 0..127 /\ pointerTbl'[q] \in Int
  BY ONLY <1>11
<1>22. \A q \in DOMAIN pointerTbl' : pointerTbl'[q] % 512 = 0
  BY ONLY <1>11
<1>23. \A d \in DOMAIN pageTbl' :
         d \in Chunks /\ pageTbl'[d] \in [at : Int, entry : [Entries -> Descriptors]]
  BY ONLY <1>12, <1>13
<1>24. \A d \in DOMAIN pageTbl' : pageTbl'[d].at % 128 = 0
  BY ONLY <1>12
<1>25. QED
  BY ONLY <1>10, <1>14, <1>15, <1>17, <1>19, <1>20, <1>21, <1>22, <1>23, <1>24, PTL

\* A step that writes into one page table keeps the allocator's part of the invariant.
LEMMA TablesStep ==
  ASSUME ShapeInv, AllocInv, RoomInv, ~Ready, SameConfig, pci' = pci,
         NEW c \in Chunks, NEW new, NewEntries(new), WriteInto(c, new),
         pc' \in {"map", "tos", "port", "port_alias", "emu", "io", "io_alias", "pci_io",
                  "pci_ack", "pci", "vme", "vme_ack", "vme_dsp", "uncache"}
  PROVE  ShapeInv' /\ AllocInv' /\ RoomInv'
<1>1. /\ log_phystop' \in Int /\ phys_RootTbl' \in Int /\ phys_RootTbl' # 0
      /\ \A q \in DOMAIN pointerTbl' : q \in 0..127 /\ pointerTbl'[q] \in Int
      /\ \A d \in DOMAIN pageTbl' :
           d \in Chunks /\ pageTbl'[d] \in [at : Int, entry : [Entries -> Descriptors]]
  BY WriteIntoAllocates
<1>2. /\ Lies(Handed, log_phystop, stram_end * PageSize)'
      /\ phys_RootTbl' % 512 = 0 /\ \A q \in DOMAIN pointerTbl' : pointerTbl'[q] % 512 = 0
      /\ \A d \in DOMAIN pageTbl' : pageTbl'[d].at % 128 = 0
      /\ \A d, b \in DOMAIN pageTbl' : d # b => pageTbl'[d].at # pageTbl'[b].at
  BY WriteIntoAllocates
<1>3. /\ IsFiniteSet(DOMAIN pointerTbl)' /\ IsFiniteSet(DOMAIN pageTbl)'
      /\ log_phystop' >= log_IOpage - 1023 - (1023 * Cardinality(DOMAIN pointerTbl'))
                           - (255 * Cardinality(DOMAIN pageTbl'))
                           - (1807 * Cardinality(pci))
  BY WriteIntoAllocates
<1>4. ShapeInv'
  BY <1>1 DEF ShapeInv, SameConfig, config
<1>5. AllocInv'
  BY <1>1, <1>2 DEF AllocInv
<1>6. RoomInv'
  <2> DEFINE P == Cardinality(DOMAIN pointerTbl')
             T == Cardinality(DOMAIN pageTbl')
             K == Cardinality(pci')
  <2>1. P \in Nat /\ T \in Nat /\ K \in Nat /\ IsFiniteSet(pci') /\ K <= MaxPci
    BY <1>3, FS_CardinalityType DEF RoomInv
  <2>2. log_phystop' >= log_IOpage - 1023 - (1023 * P) - (255 * T) - (1807 * K)
    BY <1>3
  <2>3. ~Ready' /\ log_IOpage' = log_IOpage /\ log_IOpage \in Int
    BY DEF Ready, SameConfig, ShapeInv, PageSize
  <2>4. IsFiniteSet(DOMAIN pointerTbl') /\ IsFiniteSet(DOMAIN pageTbl')
    BY <1>3
  <2> HIDE DEF P, T, K
  <2>5. log_phystop' >= log_IOpage' - (IF phys_RootTbl' = 0 THEN 0 ELSE 1023)
                          - (1023 * P) - (255 * T) - (1807 * K)
                          - (IF Ready' THEN 8191 ELSE 0)
    BY <1>1, <2>1, <2>2, <2>3
  <2>6. QED
    BY <2>1, <2>4, <2>5 DEF RoomInv, P, T, K
<1>7. QED
  BY <1>4, <1>5, <1>6

\* A page entry keeps to its rules as long as the tables are not made uncached.
LEMMA EntryStays ==
  ASSUME ~Ready, ~Ready', SameConfig, NEW c, NEW i, NEW e, EntryOK(c, i, e)
  PROVE  EntryOK(c, i, e)'
BY DEF EntryOK, SameConfig, config

-----------------------------------------------------------------------------
(* The windows *)

\* A logical page of the memory lies in a chunk of the memory.
LEMMA RamChunk ==
  ASSUME ShapeInv, MapInv, NEW l \in Ram
  PROVE  Memory(l \div 32) /\ l % 32 \in Entries /\ l \div 32 \in Nat
<1>1. l \in Nat /\ l < LogAdr /\ (l < stram_end \/ l >= M16) /\ LogAdr \in Nat
      /\ stram_end \in Nat
  BY DEF Ram, ShapeInv, MapInv
<1> DEFINE q == l \div 32
<1>2. q \in Nat /\ 32 * q <= l /\ l < 32 * q + 32 /\ l % 32 \in Entries
  BY <1>1 DEF Entries
<1>3. l >= M16 => 32 * q >= M16
  BY <1>1, <1>2 DEF M16
<1> HIDE DEF q
<1>4. Memory(q)
  BY <1>1, <1>2, <1>3 DEF Memory
<1>5. QED
  BY <1>2, <1>4 DEF q

\* The number of a chunk of memory is below those of the windows; and the chunks of the
\* TOS and of the windows below it are not memory.
LEMMA MemoryChunks ==
  ASSUME ShapeInv, MapInv, NEW c, Memory(c)
  PROVE  c \in Nat /\ c < 2096 /\ c \notin 56..63 /\ (c < 56 \/ c >= 64)
BY DEF Memory, MapInv, ShapeInv, M16

\* The entries and the memory behind a step that writes into the page table of a window.
LEMMA WindowStep ==
  ASSUME Inv, pc # "map", pc' # "map", ~Ready, ~Ready', SameConfig, LogAdr' = LogAdr,
         NEW c \in Chunks, ~Memory(c), NEW new, NewEntries(new), WriteInto(c, new),
         \A i \in DOMAIN new : EntryOK(c, i, new[i]),
         c \notin DOMAIN pageTbl => \A i \in Entries \ DOMAIN new : EntryOK(c, i, None)
  PROVE  /\ (\A d \in DOMAIN pageTbl : \A i \in Entries : EntryOK(d, i, pageTbl[d].entry[i]))'
         /\ RamInv'
<1>1. ShapeInv /\ MapInv /\ DomainInv /\ EntryInv /\ RamInv
  BY DEF Inv
<1>2. /\ DOMAIN pageTbl' = DOMAIN pageTbl \cup {c}
      /\ \A d \in DOMAIN pageTbl : d # c => pageTbl'[d] = pageTbl[d]
      /\ \A i \in Entries :
           pageTbl'[c].entry[i] = IF i \in DOMAIN new THEN new[i]
                                  ELSE IF c \in DOMAIN pageTbl THEN pageTbl[c].entry[i]
                                  ELSE None
  BY <1>1, WriteIntoEntries
<1>3. \A d \in DOMAIN pageTbl' : \A i \in Entries : EntryOK(d, i, pageTbl'[d].entry[i])
  BY <1>1, <1>2 DEF EntryInv
<1>4. (\A d \in DOMAIN pageTbl : \A i \in Entries : EntryOK(d, i, pageTbl[d].entry[i]))'
  <2> SUFFICES ASSUME NEW d \in DOMAIN pageTbl', NEW i \in Entries
               PROVE  EntryOK(d, i, pageTbl[d].entry[i])'
    OBVIOUS
  <2>1. PICK e : e = pageTbl'[d].entry[i]
    OBVIOUS
  <2>2. EntryOK(d, i, e)
    BY <1>3, <2>1
  <2>3. EntryOK(d, i, e)'
    BY <2>2, EntryStays
  <2>4. QED
    BY <2>1, <2>3 DEF EntryOK
<1>5. Ram' = Ram /\ Existing' = Existing /\ Kept' = Kept
  BY DEF Ram, Existing, Exists, Kept, SameConfig, config
<1>6. ASSUME NEW l \in Ram PROVE Entry(l)' = Entry(l)
  <2>1. Memory(l \div 32) /\ l \div 32 \in Nat
    BY <1>1, RamChunk
  <2>2. l \div 32 \in DOMAIN pageTbl /\ l \div 32 # c
    BY <1>1, <2>1 DEF DomainInv
  <2>3. QED
    BY <1>2, <2>2 DEF Entry
<1>7. RamInv'
  <2>1. /\ \A l \in Ram : Entry(l).at \in Existing \ Kept
        /\ \A p \in Existing \ Kept : \E l \in Ram : Entry(l).at = p
        /\ \A l, m \in Ram : l # m => Entry(l).at # Entry(m).at
    BY <1>1 DEF RamInv
  <2>2. /\ \A l \in Ram' : Entry(l)'.at \in Existing' \ Kept'
        /\ \A p \in Existing' \ Kept' : \E l \in Ram' : Entry(l)'.at = p
        /\ \A l, m \in Ram' : l # m => Entry(l)'.at # Entry(m)'.at
    BY <1>5, <1>6, <2>1
  <2>3. QED
    BY <2>2 DEF RamInv
<1>8. QED
  BY <1>4, <1>7

\* The indirect descriptors behind a step that writes into one page table.
LEMMA AliasStep ==
  ASSUME ShapeInv, AliasInv, Stage \in Int, Stage' \in Int,
         NEW c \in Chunks, NEW new, NewEntries(new), WriteInto(c, new),
         Stage' > 2 => Stage > 2 \/ c = 62,
         Stage' > 5 => Stage > 5 \/ c = FFFC,
         Stage' > 3 => Stage > 3 \/ (c = FFFA /\ Stage > 2 /\ new = Aliases(16, 16, 62)),
         Stage' > 6 => Stage > 6 \/ (c = 63 /\ Stage > 5 /\ new = Aliases(24, 8, FFFC)),
         Stage > 3 => c # FFFA, Stage > 6 => c # 63
  PROVE  AliasInv'
<1>1. /\ DOMAIN pageTbl' = DOMAIN pageTbl \cup {c}
      /\ \A d \in DOMAIN pageTbl : pageTbl'[d].at = pageTbl[d].at
      /\ \A d \in DOMAIN pageTbl : d # c => pageTbl'[d] = pageTbl[d]
      /\ \A i \in Entries : i \in DOMAIN new => pageTbl'[c].entry[i] = new[i]
  BY WriteIntoEntries
<1>2. Stage' > 2 => 62 \in DOMAIN pageTbl'
  BY <1>1 DEF AliasInv
<1>3. Stage' > 5 => FFFC \in DOMAIN pageTbl'
  BY <1>1 DEF AliasInv
<1>4. ASSUME Stage' > 3
      PROVE  /\ FFFA \in DOMAIN pageTbl'
             /\ \A i \in 16..31 : pageTbl'[FFFA].entry[i] =
                                    Descriptor(pageTbl'[62].at + 4 * i, "indirect")
  <2>1. CASE Stage > 3
    BY <1>1, <2>1 DEF AliasInv
  <2>2. CASE c = FFFA /\ Stage > 2 /\ new = Aliases(16, 16, 62)
    <3>1. 62 \in DOMAIN pageTbl
      BY <2>2 DEF AliasInv
    <3>2. \A i \in 16..31 : i \in Entries /\ i \in DOMAIN new
                            /\ new[i] = Descriptor(pageTbl[62].at + 4 * i, "indirect")
      BY <2>2 DEF Aliases, Entries
    <3>3. QED
      BY <1>1, <2>2, <3>1, <3>2
  <2>3. QED
    BY <1>4, <2>1, <2>2
<1>5. ASSUME Stage' > 6
      PROVE  /\ 63 \in DOMAIN pageTbl'
             /\ \A i \in 24..31 : pageTbl'[63].entry[i] =
                                    Descriptor(pageTbl'[FFFC].at + 4 * i, "indirect")
  <2>1. CASE Stage > 6
    BY <1>1, <2>1 DEF AliasInv
  <2>2. CASE c = 63 /\ Stage > 5 /\ new = Aliases(24, 8, FFFC)
    <3>1. FFFC \in DOMAIN pageTbl
      BY <2>2 DEF AliasInv
    <3>2. \A i \in 24..31 : i \in Entries /\ i \in DOMAIN new
                            /\ new[i] = Descriptor(pageTbl[FFFC].at + 4 * i, "indirect")
      BY <2>2 DEF Aliases, Entries
    <3>3. QED
      BY <1>1, <2>2, <3>1, <3>2
  <2>3. QED
    BY <1>5, <2>1, <2>2
<1>6. QED
  BY <1>2, <1>3, <1>4, <1>5 DEF AliasInv

\* The steps between the memory and the end of the windows.
Opening == {"tos", "port", "port_alias", "emu", "io", "io_alias", "pci_io", "pci_ack", "pci",
            "vme", "vme_ack", "vme_dsp", "uncache"}

\* All of the invariant behind such a step.
LEMMA WindowKeeps ==
  ASSUME Inv, MapInv', SameConfig, pci' = pci, LogAdr' = LogAdr,
         pc \in Opening, pc' \in Opening, Stage \in Int, Stage' \in Int,
         NEW c \in Chunks, ~Memory(c), NEW new, NewEntries(new), WriteInto(c, new),
         \A i \in DOMAIN new : EntryOK(c, i, new[i]),
         c \notin DOMAIN pageTbl => \A i \in Entries \ DOMAIN new : EntryOK(c, i, None),
         \A d : Window(d) => Window(d)', Window(c)',
         Stage' < 7 => Stage < 7 /\ (c # 63 \/ \A i \in DOMAIN new : i < 24),
         Stage' > 2 => Stage > 2 \/ c = 62,
         Stage' > 5 => Stage > 5 \/ c = FFFC,
         Stage' > 3 => Stage > 3 \/ (c = FFFA /\ Stage > 2 /\ new = Aliases(16, 16, 62)),
         Stage' > 6 => Stage > 6 \/ (c = 63 /\ Stage > 5 /\ new = Aliases(24, 8, FFFC)),
         Stage > 3 => c # FFFA, Stage > 6 => c # 63
  PROVE  Inv'
<1>1. pc # "map" /\ pc' # "map" /\ ~Ready /\ ~Ready'
  BY DEF Opening, Ready
<1>2. ShapeInv /\ AllocInv /\ RoomInv /\ MapInv /\ DomainInv /\ EntryInv /\ AliasInv
  BY DEF Inv
<1>3. ShapeInv' /\ AllocInv' /\ RoomInv'
  BY <1>1, <1>2, TablesStep DEF Opening
<1>4. /\ (\A d \in DOMAIN pageTbl : \A i \in Entries : EntryOK(d, i, pageTbl[d].entry[i]))'
      /\ RamInv'
  BY <1>1, WindowStep
<1>5. AliasInv'
  BY <1>2, AliasStep
<1>6. /\ DOMAIN pageTbl' = DOMAIN pageTbl \cup {c}
      /\ \A d \in DOMAIN pageTbl : d # c => pageTbl'[d] = pageTbl[d]
      /\ \A i \in Entries :
           pageTbl'[c].entry[i] = IF i \in DOMAIN new THEN new[i]
                                  ELSE IF c \in DOMAIN pageTbl THEN pageTbl[c].entry[i]
                                  ELSE None
  BY ONLY <1>2, WriteIntoEntries, WriteInto(c, new), NewEntries(new), c \in Chunks
<1>7. DomainInv'
  <2>1. \A d : Memory(d)' <=> Memory(d)
    BY DEF Memory, SameConfig, config
  <2>2. QED
    BY <1>2, <1>6, <2>1 DEF DomainInv
<1>8. Stage' < 7 /\ 63 \in DOMAIN pageTbl' => \A i \in 24..31 : pageTbl'[63].entry[i] = None
  <2> SUFFICES ASSUME Stage' < 7, 63 \in DOMAIN pageTbl', NEW i \in 24..31
               PROVE  pageTbl'[63].entry[i] = None
    OBVIOUS
  <2>1. i \in Entries /\ (63 \in DOMAIN pageTbl => pageTbl[63].entry[i] = None)
    BY <1>2 DEF EntryInv, Entries
  <2>2. CASE c = 63
    BY <1>6, <2>1, <2>2
  <2>3. CASE c # 63
    BY <1>6, <2>1, <2>3
  <2>4. QED
    BY <2>2, <2>3
<1>9. EntryInv'
  BY <1>4, <1>8 DEF EntryInv
<1>10. QED
  BY <1>3, <1>4, <1>5, <1>7, <1>9 DEF Inv

\* What the address and the number of a window must be for its descriptors to be sound.
LEMMA WindowEntry ==
  ASSUME ShapeInv, NEW c \in Nat, NEW i \in Entries, c >= 62, c \notin 64..2111,
         NEW a \in Nat, NEW m \in {"port", "emu", "io", "indirect", "none"},
         a >= Tos + TosLen \/ m \in {"indirect", "none"},
         a \in RomPort..RomPort + RomPortLen - 1 =>
           m \in {"port", "emu", "indirect"} \/ ~romport_emu,
         m = "none" => a = 0
  PROVE  EntryOK(c, i, Descriptor(a, m))
BY DEF EntryOK, Descriptor, ShapeInv, Entries, Tos, TosLen, None

\* The windows that are one step each: one after the other they come to a chunk that has no
\* page table yet.
LEMMA NoneIsSound ==
  ASSUME ShapeInv, NEW c \in Nat, NEW i \in Entries, c >= 62, c \notin 64..2111
  PROVE  EntryOK(c, i, None)
<1>1. 0 \in Nat /\ 0 \notin RomPort..RomPort + RomPortLen - 1
  BY DEF RomPort
<1>2. EntryOK(c, i, Descriptor(0, "none"))
  BY <1>1, WindowEntry
<1>3. QED
  BY <1>2 DEF None

LEMMA WindowOrder ==
  ASSUME Stage \in Int, Stage' \in Int, Stage' > Stage
  PROVE  \A d : Window(d) => Window(d)'
BY DEF Window

LEMMA PortKeeps == Inv /\ MapRomPort => Inv'
<1> SUFFICES ASSUME Inv, MapRomPort PROVE Inv'
  OBVIOUS
<1>1. pc = "port" /\ pc' = "port_alias" /\ UNCHANGED windowFrame
  BY DEF MapRomPort
<1>2. Stage = 2 /\ Stage' = 3
  BY <1>1 DEF Stage
<1>3. MapInv' /\ SameConfig /\ pci' = pci /\ LogAdr' = LogAdr
  BY <1>1 DEF Inv, MapInv, windowFrame, config, cursor, SameConfig
<1> DEFINE p == IF romport_emu THEN RomPort ELSE 131088
           new == Pages(16, 16, p, "port")
<1>4. WriteInto(62, new)
  BY DEF MapRomPort
<1>5. p \in Nat /\ p >= RomPort
  BY DEF RomPort
<1> HIDE DEF p
<1>6. /\ NewEntries(new) /\ DOMAIN new = 16..31
      /\ \A i \in 16..31 : /\ i \in Entries /\ p + i - 16 \in Nat /\ p + i - 16 >= p
                            /\ new[i] = Descriptor(p + i - 16, "port")
  <2>1. new = [i \in 16..31 |-> Descriptor(p + i - 16, "port")]
    BY DEF Pages
  <2> HIDE DEF new
  <2>2. \A i \in 16..31 : i \in Entries /\ p + i - 16 \in Nat /\ p + i - 16 >= p
    BY <1>5 DEF Entries
  <2>3. NewEntries(new)
    BY <2>1, <2>2 DEF NewEntries, Descriptor, Descriptors, Mode
  <2>4. QED
    BY <2>1, <2>2, <2>3
<1> HIDE DEF new
<1>7. 62 \in Chunks /\ ~Memory(62) /\ ShapeInv
  BY MemoryChunks DEF Chunks, Inv
<1>8. \A i \in DOMAIN new : EntryOK(62, i, new[i])
  BY <1>5, <1>6, <1>7, WindowEntry DEF RomPort, Tos, TosLen
<1>9. \A i \in Entries : EntryOK(62, i, None)
  BY <1>7, NoneIsSound
<1>10. (\A d : Window(d) => Window(d)') /\ Window(62)'
  BY <1>2, WindowOrder DEF Window
<1>11. QED
  BY <1>1, <1>2, <1>3, <1>4, <1>6, <1>7, <1>8, <1>9, <1>10, WindowKeeps
     DEF Opening, FFFA, FFFC

LEMMA PortAliasKeeps == Inv /\ MapRomPortAlias => Inv'
<1> SUFFICES ASSUME Inv, MapRomPortAlias PROVE Inv'
  OBVIOUS
<1>1. pc = "port_alias" /\ pc' \in {"emu", "io"} /\ UNCHANGED windowFrame
  BY DEF MapRomPortAlias
<1>2. Stage = 3 /\ Stage' \in {4, 5}
  BY <1>1 DEF Stage
<1>3. MapInv' /\ SameConfig /\ pci' = pci /\ LogAdr' = LogAdr
  BY <1>1 DEF Inv, MapInv, windowFrame, config, cursor, SameConfig
<1>20. pageTbl[62].at \in Nat
  <2>1. 62 \in DOMAIN pageTbl
    BY <1>2 DEF Inv, AliasInv
  <2>2. [at |-> pageTbl[62].at, len |-> 128] \in Handed
    BY <2>1 DEF Handed
  <2>3. pageTbl[62].at \in Int /\ pageTbl[62].at >= log_phystop /\ log_phystop >= 1048576
        /\ log_phystop \in Int
    BY <2>2, RoomFacts DEF Inv, AllocInv, Lies, ShapeInv
  <2>4. QED
    BY <2>3
<1> DEFINE new == Aliases(16, 16, 62)
<1>4. WriteInto(FFFA, new) /\ new = Aliases(16, 16, 62)
  BY DEF MapRomPortAlias
<1>5. new = [i \in 16..31 |-> Descriptor(pageTbl[62].at + 4 * i, "indirect")]
  BY DEF Aliases
<1> HIDE DEF new
<1>6. \A i \in 16..31 : i \in Entries /\ pageTbl[62].at + 4 * i \in Nat
  BY <1>20 DEF Entries
<1>7. NewEntries(new) /\ DOMAIN new = 16..31
  BY <1>5, <1>6 DEF NewEntries, Descriptor, Descriptors, Mode
<1>8. FFFA \in Chunks /\ ~Memory(FFFA) /\ ShapeInv
  BY MemoryChunks DEF Chunks, Inv, FFFA
<1>9. \A i \in DOMAIN new : EntryOK(FFFA, i, new[i])
  <2>1. \A i \in DOMAIN new :
          i \in Entries /\ \E a \in Nat : new[i] = Descriptor(a, "indirect")
    BY <1>5, <1>6, <1>7
  <2>2. QED
    BY ONLY <1>8, <2>1, WindowEntry DEF FFFA
<1>10. \A i \in Entries : EntryOK(FFFA, i, None)
  BY <1>8, NoneIsSound DEF FFFA
<1>11. (\A d : Window(d) => Window(d)') /\ Window(FFFA)'
  BY <1>2, WindowOrder DEF Window
<1>12. QED
  BY <1>1, <1>2, <1>3, <1>4, <1>5, <1>7, <1>8, <1>9, <1>10, <1>11, WindowKeeps
     DEF Opening, FFFA, FFFC

LEMMA EmuKeeps == Inv /\ MapEmu => Inv'
<1> SUFFICES ASSUME Inv, MapEmu PROVE Inv'
  OBVIOUS
<1>1. pc = "emu" /\ pc' = "io" /\ UNCHANGED windowFrame
  BY DEF MapEmu
<1>2. Stage = 4 /\ Stage' = 5
  BY <1>1 DEF Stage
<1>3. MapInv' /\ SameConfig /\ pci' = pci /\ LogAdr' = LogAdr
  BY <1>1 DEF Inv, MapInv, windowFrame, config, cursor, SameConfig
<1> DEFINE new == Pages(8, 16, RomPort, "emu")
<1>4. WriteInto(63, new)
  BY DEF MapEmu
<1>5. new = [i \in 8..23 |-> Descriptor(RomPort + i - 8, "emu")]
  BY DEF Pages
<1> HIDE DEF new
<1>6. \A i \in 8..23 : i \in Entries /\ RomPort + i - 8 \in Nat /\ RomPort + i - 8 >= RomPort
  BY DEF Entries, RomPort
<1>7. NewEntries(new) /\ DOMAIN new = 8..23
  BY <1>5, <1>6 DEF NewEntries, Descriptor, Descriptors, Mode
<1>8. 63 \in Chunks /\ ~Memory(63) /\ ShapeInv
  BY MemoryChunks DEF Chunks, Inv
<1>9. \A i \in DOMAIN new : EntryOK(63, i, new[i])
  BY ONLY <1>5, <1>6, <1>7, <1>8, WindowEntry
     DEF RomPort, RomPortLen, Tos, TosLen
<1>10. \A i \in Entries : EntryOK(63, i, None)
  BY <1>8, NoneIsSound
<1>11. (\A d : Window(d) => Window(d)') /\ Window(63)'
  BY <1>2, WindowOrder DEF Window
<1>12. QED
  BY <1>1, <1>2, <1>3, <1>4, <1>5, <1>7, <1>8, <1>9, <1>10, <1>11, WindowKeeps
     DEF Opening, FFFA, FFFC

LEMMA IoKeeps == Inv /\ MapIo => Inv'
<1> SUFFICES ASSUME Inv, MapIo PROVE Inv'
  OBVIOUS
<1>1. pc = "io" /\ pc' = "io_alias" /\ UNCHANGED windowFrame
  BY DEF MapIo
<1>2. Stage = 5 /\ Stage' = 6
  BY <1>1 DEF Stage
<1>3. MapInv' /\ SameConfig /\ pci' = pci /\ LogAdr' = LogAdr
  BY <1>1 DEF Inv, MapInv, windowFrame, config, cursor, SameConfig
<1> DEFINE new == [i \in 24..31 |-> Descriptor(IF i = 30 THEN 524286 ELSE 524280, "io")]
<1>4. WriteInto(FFFC, new)
  BY DEF MapIo
<1>5. new = [i \in 24..31 |-> Descriptor((IF i = 30 THEN 524286 ELSE 524280), "io")]
  BY DEF Entries
<1> HIDE DEF new
<1>6. \A i \in 24..31 : i \in Entries /\ (IF i = 30 THEN 524286 ELSE 524280) \in Nat
  BY DEF Entries
<1>7. NewEntries(new) /\ DOMAIN new = 24..31
  BY <1>5, <1>6 DEF NewEntries, Descriptor, Descriptors, Mode
<1>8. FFFC \in Chunks /\ ~Memory(FFFC) /\ ShapeInv
  BY MemoryChunks DEF Chunks, Inv, FFFC
<1>9. \A i \in DOMAIN new : EntryOK(FFFC, i, new[i])
  BY ONLY <1>5, <1>6, <1>7, <1>8, WindowEntry
     DEF RomPort, RomPortLen, Tos, TosLen, FFFC
<1>10. \A i \in Entries : EntryOK(FFFC, i, None)
  BY <1>8, NoneIsSound DEF FFFC
<1>11. (\A d : Window(d) => Window(d)') /\ Window(FFFC)'
  BY <1>2, WindowOrder DEF Window
<1>12. QED
  BY <1>1, <1>2, <1>3, <1>4, <1>5, <1>7, <1>8, <1>9, <1>10, <1>11, WindowKeeps
     DEF Opening, FFFA, FFFC

LEMMA IoAliasKeeps == Inv /\ MapIoAlias => Inv'
<1> SUFFICES ASSUME Inv, MapIoAlias PROVE Inv'
  OBVIOUS
<1>1. pc = "io_alias" /\ pc' = "pci_io" /\ UNCHANGED windowFrame
  BY DEF MapIoAlias
<1>2. Stage = 6 /\ Stage' = 7
  BY <1>1 DEF Stage
<1>3. MapInv' /\ SameConfig /\ pci' = pci /\ LogAdr' = LogAdr
  BY <1>1 DEF Inv, MapInv, windowFrame, config, cursor, SameConfig
<1>20. pageTbl[FFFC].at \in Nat
  <2>1. FFFC \in DOMAIN pageTbl
    BY <1>2 DEF Inv, AliasInv
  <2>2. [at |-> pageTbl[FFFC].at, len |-> 128] \in Handed
    BY <2>1 DEF Handed
  <2>3. pageTbl[FFFC].at \in Int /\ pageTbl[FFFC].at >= log_phystop /\ log_phystop >= 1048576
        /\ log_phystop \in Int
    BY <2>2, RoomFacts DEF Inv, AllocInv, Lies, ShapeInv
  <2>4. QED
    BY <2>3
<1> DEFINE new == Aliases(24, 8, FFFC)
<1>4. WriteInto(63, new) /\ new = Aliases(24, 8, FFFC)
  BY DEF MapIoAlias
<1>5. new = [i \in 24..31 |-> Descriptor(pageTbl[FFFC].at + 4 * i, "indirect")]
  BY DEF Aliases
<1> HIDE DEF new
<1>6. \A i \in 24..31 : i \in Entries /\ pageTbl[FFFC].at + 4 * i \in Nat
  BY <1>20 DEF Entries
<1>7. NewEntries(new) /\ DOMAIN new = 24..31
  BY <1>5, <1>6 DEF NewEntries, Descriptor, Descriptors, Mode
<1>8. 63 \in Chunks /\ ~Memory(63) /\ ShapeInv
  BY MemoryChunks DEF Chunks, Inv
<1>9. \A i \in DOMAIN new : EntryOK(63, i, new[i])
  <2>1. \A i \in DOMAIN new :
          i \in Entries /\ \E a \in Nat : new[i] = Descriptor(a, "indirect")
    BY <1>5, <1>6, <1>7
  <2>2. QED
    BY ONLY <1>8, <2>1, WindowEntry
<1>10. \A i \in Entries : EntryOK(63, i, None)
  BY <1>8, NoneIsSound
<1>11. (\A d : Window(d) => Window(d)') /\ Window(63)'
  BY <1>2, WindowOrder DEF Window
<1>12. QED
  BY <1>1, <1>2, <1>3, <1>4, <1>5, <1>7, <1>8, <1>9, <1>10, <1>11, WindowKeeps
     DEF Opening, FFFA, FFFC

LEMMA PciIoKeeps == Inv /\ MapPciIo => Inv'
<1> SUFFICES ASSUME Inv, MapPciIo PROVE Inv'
  OBVIOUS
<1>1. pc = "pci_io" /\ pc' = "pci_ack" /\ UNCHANGED windowFrame
  BY DEF MapPciIo
<1>2. Stage = 7 /\ Stage' = 8
  BY <1>1 DEF Stage
<1>3. MapInv' /\ SameConfig /\ pci' = pci /\ LogAdr' = LogAdr
  BY <1>1 DEF Inv, MapInv, windowFrame, config, cursor, SameConfig
<1> DEFINE new == Pages(0, 16, 262144, "io")
<1>4. WriteInto(C000, new)
  BY DEF MapPciIo
<1>5. new = [i \in 0..15 |-> Descriptor(262144 + i - 0, "io")]
  BY DEF Pages
<1> HIDE DEF new
<1>6. \A i \in 0..15 : i \in Entries /\ 262144 + i - 0 \in Nat /\ 262144 + i - 0 >= 262144
  BY DEF Entries
<1>7. NewEntries(new) /\ DOMAIN new = 0..15
  BY <1>5, <1>6 DEF NewEntries, Descriptor, Descriptors, Mode
<1>8. C000 \in Chunks /\ ~Memory(C000) /\ ShapeInv
  BY MemoryChunks DEF Chunks, Inv, C000
<1>9. \A i \in DOMAIN new : EntryOK(C000, i, new[i])
  BY ONLY <1>5, <1>6, <1>7, <1>8, WindowEntry
     DEF RomPort, RomPortLen, Tos, TosLen, C000
<1>10. \A i \in Entries : EntryOK(C000, i, None)
  BY <1>8, NoneIsSound DEF C000
<1>11. (\A d : Window(d) => Window(d)') /\ Window(C000)'
  BY <1>2, WindowOrder DEF Window
<1>12. QED
  BY <1>1, <1>2, <1>3, <1>4, <1>5, <1>7, <1>8, <1>9, <1>10, <1>11, WindowKeeps
     DEF Opening, FFFA, FFFC, C000

LEMMA PciAckKeeps == Inv /\ MapPciAck => Inv'
<1> SUFFICES ASSUME Inv, MapPciAck PROVE Inv'
  OBVIOUS
<1>1. pc = "pci_ack" /\ pc' = "pci" /\ UNCHANGED windowFrame
  BY DEF MapPciAck
<1>2. Stage = 8 /\ Stage' = 9
  BY <1>1 DEF Stage
<1>3. MapInv' /\ SameConfig /\ pci' = pci /\ LogAdr' = LogAdr
  BY <1>1 DEF Inv, MapInv, windowFrame, config, cursor, SameConfig
<1> DEFINE new == Pages(0, 1, 131072, "io")
<1>4. WriteInto(C100, new)
  BY DEF MapPciAck
<1>5. new = [i \in 0..0 |-> Descriptor(131072 + i - 0, "io")]
  BY DEF Pages
<1> HIDE DEF new
<1>6. \A i \in 0..0 : i \in Entries /\ 131072 + i - 0 \in Nat /\ 131072 + i - 0 >= 131072
  BY DEF Entries
<1>7. NewEntries(new) /\ DOMAIN new = 0..0
  BY <1>5, <1>6 DEF NewEntries, Descriptor, Descriptors, Mode
<1>8. C100 \in Chunks /\ ~Memory(C100) /\ ShapeInv
  BY MemoryChunks DEF Chunks, Inv, C100
<1>9. \A i \in DOMAIN new : EntryOK(C100, i, new[i])
  BY ONLY <1>5, <1>6, <1>7, <1>8, WindowEntry
     DEF RomPort, RomPortLen, Tos, TosLen, C100
<1>10. \A i \in Entries : EntryOK(C100, i, None)
  BY <1>8, NoneIsSound DEF C100
<1>11. (\A d : Window(d) => Window(d)') /\ Window(C100)'
  BY <1>2, WindowOrder DEF Window
<1>12. QED
  BY <1>1, <1>2, <1>3, <1>4, <1>5, <1>7, <1>8, <1>9, <1>10, <1>11, WindowKeeps
     DEF Opening, FFFA, FFFC, C100

LEMMA VmeAckKeeps == Inv /\ MapVmeAck => Inv'
<1> SUFFICES ASSUME Inv, MapVmeAck PROVE Inv'
  OBVIOUS
<1>1. pc = "vme_ack" /\ pc' = "vme_dsp" /\ UNCHANGED windowFrame
  BY DEF MapVmeAck
<1>2. Stage = 11 /\ Stage' = 12
  BY <1>1 DEF Stage
<1>3. MapInv' /\ SameConfig /\ pci' = pci /\ LogAdr' = LogAdr
  BY <1>1 DEF Inv, MapInv, windowFrame, config, cursor, SameConfig
<1> DEFINE new == [i \in 0..8 |->
                   Descriptor(VmeBase + (IF i = 8 THEN M16 ELSE 4088 + i), "io")]
<1>4. WriteInto(FD00, new)
  BY DEF MapVmeAck
<1>5. new = [i \in 0..8 |-> Descriptor(VmeBase + (IF i = 8 THEN M16 ELSE 4088 + i), "io")]
  BY DEF Entries
<1> HIDE DEF new
<1>6. \A i \in 0..8 : i \in Entries /\ VmeBase + (IF i = 8 THEN M16 ELSE 4088 + i) \in Nat
         /\ VmeBase + (IF i = 8 THEN M16 ELSE 4088 + i) >= 2048
  BY VmeAssumption DEF Entries, M16
<1>7. NewEntries(new) /\ DOMAIN new = 0..8
  BY <1>5, <1>6 DEF NewEntries, Descriptor, Descriptors, Mode
<1>8. FD00 \in Chunks /\ ~Memory(FD00) /\ ShapeInv
  BY MemoryChunks DEF Chunks, Inv, FD00
<1>9. \A i \in DOMAIN new : EntryOK(FD00, i, new[i])
  BY ONLY <1>5, <1>6, <1>7, <1>8, WindowEntry
     DEF RomPort, RomPortLen, Tos, TosLen, FD00
<1>10. \A i \in Entries : EntryOK(FD00, i, None)
  BY <1>8, NoneIsSound DEF FD00
<1>11. (\A d : Window(d) => Window(d)') /\ Window(FD00)'
  BY <1>2, WindowOrder DEF Window
<1>12. QED
  BY <1>1, <1>2, <1>3, <1>4, <1>5, <1>7, <1>8, <1>9, <1>10, <1>11, WindowKeeps
     DEF Opening, FFFA, FFFC, FD00

LEMMA VmeDspKeeps == Inv /\ MapVmeDsp => Inv'
<1> SUFFICES ASSUME Inv, MapVmeDsp PROVE Inv'
  OBVIOUS
<1>1. pc = "vme_dsp" /\ pc' = "uncache" /\ UNCHANGED windowFrame
  BY DEF MapVmeDsp
<1>2. Stage = 12 /\ Stage' = 13
  BY <1>1 DEF Stage
<1>3. MapInv' /\ SameConfig /\ pci' = pci /\ LogAdr' = LogAdr
  BY <1>1 DEF Inv, MapInv, windowFrame, config, cursor, SameConfig
<1> DEFINE new == Pages(29, 1, VmeBase + 2041, "io")
<1>4. WriteInto(FFFC, new)
  BY DEF MapVmeDsp
<1>5. new = [i \in 29..29 |-> Descriptor(VmeBase + 2041 + i - 29, "io")]
  BY DEF Pages
<1> HIDE DEF new
<1>6. \A i \in 29..29 : i \in Entries /\ VmeBase + 2041 + i - 29 \in Nat
                        /\ VmeBase + 2041 + i - 29 >= 2041
  BY VmeAssumption DEF Entries
<1>7. NewEntries(new) /\ DOMAIN new = 29..29
  BY <1>5, <1>6 DEF NewEntries, Descriptor, Descriptors, Mode
<1>8. FFFC \in Chunks /\ ~Memory(FFFC) /\ ShapeInv
  BY MemoryChunks DEF Chunks, Inv, FFFC
<1>9. \A i \in DOMAIN new : EntryOK(FFFC, i, new[i])
  BY ONLY <1>5, <1>6, <1>7, <1>8, WindowEntry
     DEF RomPort, RomPortLen, Tos, TosLen, FFFC
<1>10. \A i \in Entries : EntryOK(FFFC, i, None)
  BY <1>8, NoneIsSound DEF FFFC
<1>11. (\A d : Window(d) => Window(d)') /\ Window(FFFC)'
  BY <1>2, WindowOrder DEF Window
<1>12. QED
  BY <1>1, <1>2, <1>3, <1>4, <1>5, <1>7, <1>8, <1>9, <1>10, <1>11, WindowKeeps
     DEF Opening, FFFA, FFFC

\* The two page tables of the TOS area.
LEMMA TosKeeps == Inv /\ MapTos => Inv'
<1> SUFFICES ASSUME Inv, MapTos PROVE Inv'
  OBVIOUS
<1>1. pc = "tos" /\ PhysAdr \in {1792, 1824} /\ PhysAdr' = PhysAdr + 32
      /\ UNCHANGED <<config, log_IOpage, pci, LogAdr, block, log_ramtop>>
  BY DEF MapTos, Inv, MapInv
<1>2. \/ PhysAdr = 1792 /\ pc' = "tos" /\ Stage = 1 /\ Stage' = 1
      \/ PhysAdr = 1824 /\ pc' = "port" /\ Stage = 1 /\ Stage' = 2
  BY <1>1 DEF MapTos, Stage, Tos, TosLen
<1>3. MapInv' /\ SameConfig /\ pci' = pci /\ LogAdr' = LogAdr
  BY <1>1, <1>2 DEF Inv, MapInv, config, SameConfig
<1>20. PICK c : c = PhysAdr \div 32
  OBVIOUS
<1> DEFINE new == Pages(0, 32, PhysAdr, "tos")
<1>4. WriteInto(c, new)
  BY <1>20 DEF MapTos
<1>5. c \in {56, 57} /\ 32 * c = PhysAdr
  BY <1>1, <1>20
<1>6. new = [i \in Entries |-> Descriptor(PhysAdr + i - 0, "tos")]
  BY DEF Pages, Entries
<1> HIDE DEF new
<1>7. \A i \in Entries : PhysAdr + i - 0 = 32 * c + i /\ PhysAdr + i - 0 \in Nat
                         /\ 32 * c + i >= 1792
  BY <1>1, <1>5 DEF Entries
<1>8. NewEntries(new) /\ DOMAIN new = Entries
  BY <1>6, <1>7 DEF NewEntries, Descriptor, Descriptors, Mode
<1>9. c \in Chunks /\ ~Memory(c) /\ ShapeInv
  BY <1>5, MemoryChunks DEF Chunks, Inv
<1>10. \A i \in DOMAIN new : EntryOK(c, i, new[i])
  <2> SUFFICES ASSUME NEW i \in Entries PROVE EntryOK(c, i, Descriptor(32 * c + i, "tos"))
    BY <1>6, <1>7, <1>8
  <2>1. 32 * c + i >= 1792 /\ 32 * c + i \in Nat /\ 32 * c + i < 1856
    BY <1>5, <1>7 DEF Entries
  <2>2. stram_end <= 1792 /\ stram_end \in Nat
    BY <1>9 DEF ShapeInv
  <2>3. QED
    <3> DEFINE l == 32 * c + i
               e == Descriptor(l, "tos")
    <3>1. l \in Nat /\ l >= 1792 /\ l < 1856 /\ ~(l < stram_end)
      BY <2>1, <2>2
    <3> HIDE DEF l
    <3>2. e.at = l /\ e.mode = "tos" /\ e.at \notin RomPort..RomPort + RomPortLen - 1
      BY <3>1 DEF Descriptor, RomPort
    <3> HIDE DEF e
    <3>3. c \notin 64..2111
      BY <1>5
    <3>4. e = Descriptor(32 * c + i, "tos") /\ ~(32 * c + i < stram_end)
      BY <3>1 DEF e, l
    <3>5. EntryOK(c, i, e)
      BY ONLY <3>2, <3>3, <3>4 DEF EntryOK
    <3>6. QED
      BY <3>4, <3>5
<1>11. (\A d : Window(d) => Window(d)') /\ Window(c)'
  <2>1. \A d : Window(d) => Window(d)'
    <3> SUFFICES ASSUME NEW d, Window(d) PROVE Window(d)'
      OBVIOUS
    <3>1. QED
      BY <1>1, <1>2 DEF Window
  <2>2. Window(c)'
    BY <1>1, <1>2, <1>5 DEF Window
  <2>3. QED
    BY <2>1, <2>2
<1>12. QED
  BY <1>1, <1>2, <1>3, <1>4, <1>5, <1>8, <1>9, <1>10, <1>11, WindowKeeps
     DEF Opening, FFFA, FFFC

\* The 64 page tables of the VME card.
LEMMA VmeKeeps == Inv /\ MapVme => Inv'
<1> SUFFICES ASSUME Inv, MapVme PROVE Inv'
  OBVIOUS
<1>1. pc = "vme" /\ PhysAdr \in Nat /\ PhysAdr < 2048 /\ PhysAdr % 32 = 0
      /\ PhysAdr' = PhysAdr + 32
      /\ UNCHANGED <<config, log_IOpage, pci, LogAdr, block, log_ramtop>>
  BY DEF MapVme, Inv, MapInv, M16
<1>2. \/ PhysAdr' < 2048 /\ pc' = "vme" /\ Stage = 10 /\ Stage' = 10
      \/ pc' = "vme_ack" /\ Stage = 10 /\ Stage' = 11
  BY <1>1 DEF MapVme, Stage, M16
<1>3. MapInv' /\ SameConfig /\ pci' = pci /\ LogAdr' = LogAdr
  BY <1>1, <1>2 DEF Inv, MapInv, config, SameConfig, M16
<1>20. PICK c : c = FE00 + PhysAdr \div 32
  OBVIOUS
<1> DEFINE new == Pages(0, 32, VmeBase + PhysAdr, "io")
<1>4. WriteInto(c, new)
  BY <1>20 DEF MapVme
<1>5. c \in FE00..FE00 + 63 /\ 32 * (c - FE00) = PhysAdr /\ c \in 16256..16319
  BY <1>1, <1>20 DEF FE00
<1>6. new = [i \in Entries |-> Descriptor(VmeBase + PhysAdr + i - 0, "io")]
  BY DEF Pages, Entries
<1> HIDE DEF new
<1>7. \A i \in Entries : /\ VmeBase + PhysAdr + i - 0 \in Nat
                         /\ VmeBase + PhysAdr + i - 0 >= 8192
  BY <1>1, VmeAssumption, NSlotsAssumption DEF Entries, M4
<1>8. NewEntries(new) /\ DOMAIN new = Entries
  BY <1>6, <1>7 DEF NewEntries, Descriptor, Descriptors, Mode
<1>9. c \in Chunks /\ ~Memory(c) /\ ShapeInv
  BY <1>5, MemoryChunks DEF Chunks, Inv
<1>10. \A i \in DOMAIN new : EntryOK(c, i, new[i])
  <2>1. \A i \in DOMAIN new :
          i \in Entries /\ \E a \in Nat : a >= 8192 /\ new[i] = Descriptor(a, "io")
    BY <1>6, <1>7, <1>8
  <2>2. c \in Nat /\ c >= 62 /\ c \notin 64..2111
    BY <1>5
  <2>3. \A a \in Nat : a >= 8192 => a >= Tos + TosLen
                                  /\ a \notin RomPort..RomPort + RomPortLen - 1
    BY DEF RomPort, RomPortLen, Tos, TosLen
  <2>4. QED
    BY ONLY <1>9, <2>1, <2>2, <2>3, WindowEntry
<1>11. (\A d : Window(d) => Window(d)') /\ Window(c)'
  <2>1. \A d : Window(d) => Window(d)'
    <3> SUFFICES ASSUME NEW d, Window(d) PROVE Window(d)'
      OBVIOUS
    <3>1. QED
      BY <1>1, <1>2 DEF Window, FE00
  <2>2. Window(c)'
    BY <1>1, <1>2, <1>5 DEF Window
  <2>3. QED
    BY <2>1, <2>2
<1>12. QED
  BY <1>1, <1>2, <1>3, <1>4, <1>5, <1>8, <1>9, <1>10, <1>11, WindowKeeps
     DEF Opening, FFFA, FFFC

-----------------------------------------------------------------------------
(* The memory the PCI setup takes *)

\* What stands in the page tables does not change with it.
LEMMA PciLeavesTables ==
  ASSUME Inv, MapInv', UNCHANGED <<config, pageTbl, LogAdr>>, pc = "pci",
         pc' \in {"pci", "vme", "uncache"}
  PROVE  DomainInv' /\ EntryInv' /\ AliasInv' /\ RamInv'
<1>1. Stage = 9 /\ Stage' \in {9, 10, 13} /\ ~Ready /\ ~Ready'
  BY DEF Stage, Ready
<1>2. \A c : Memory(c)' <=> Memory(c)
  BY DEF Memory, config
<1>3. \A c : Window(c) => Window(c)'
  BY <1>1 DEF Window
<1>4. DomainInv'
  BY <1>2, <1>3 DEF Inv, DomainInv
<1>5. EntryInv'
  BY <1>1 DEF Inv, EntryInv, EntryOK, config
<1>6. AliasInv'
  BY <1>1 DEF Inv, AliasInv
<1>7. Ram' = Ram /\ Existing' = Existing /\ Kept' = Kept
  BY DEF Ram, Existing, Exists, Kept, config
<1>8. \A l : Entry(l)' = Entry(l)
  BY DEF Entry
<1>9. RamInv'
  BY <1>7, <1>8 DEF Inv, RamInv
<1>10. QED
  BY <1>4, <1>5, <1>6, <1>9

LEMMA PciKmallocKeeps == Inv /\ PciKmalloc => Inv'
<1> SUFFICES ASSUME Inv, PciKmalloc PROVE Inv'
  OBVIOUS
<1>1. pc = "pci" /\ pc' = pc /\ UNCHANGED <<config, upper, pageTbl, cursor>>
      /\ Cardinality(pci) < MaxPci /\ ~Ready /\ ~Ready'
  BY DEF PciKmalloc, Ready
<1>2. ShapeInv /\ AllocInv /\ RoomInv /\ MapInv
  BY DEF Inv
<1>3. PICK amount \in PciAmounts :
        /\ log_phystop' = Kmalloc(log_phystop, amount, 4)
        /\ pci' = pci \cup {[at |-> log_phystop', len |-> amount]}
  BY DEF PciKmalloc
<1>4. amount \in Nat /\ amount <= 1804 /\ log_phystop \in Int
  <2>1. amount \in 0..41 * 44
    BY PciAssumption
  <2>2. amount \in Nat /\ amount <= 1804
    BY ONLY <2>1
  <2>3. QED
    BY <1>2, <2>2 DEF ShapeInv
<1>5. PICK t : t = Kmalloc(log_phystop, amount, 4)
  OBVIOUS
<1>6. t \in Int /\ t + amount <= log_phystop /\ t > log_phystop - amount - 4
  BY <1>4, <1>5, KmallocFacts
<1> DEFINE new == [at |-> t, len |-> amount]
<1>7. log_phystop' = t /\ pci' = pci \cup {new}
  BY <1>3, <1>5
<1>8. Lies(Handed \cup {new}, t, stram_end * PageSize)
  BY <1>2, <1>4, <1>6, RoomFacts, LiesMore DEF AllocInv
<1>9. new.at = t /\ new.len = amount /\ new \in [at : Int, len : PciAmounts]
  BY <1>6
<1> HIDE DEF new
<1>10. ShapeInv'
  BY <1>1, <1>2, <1>6, <1>7, <1>9 DEF ShapeInv, config, upper
<1>11. AllocInv'
  <2>1. Handed' = Handed \cup {new}
    BY <1>1, <1>7 DEF Handed, upper
  <2>2. Lies(Handed, log_phystop, stram_end * PageSize)'
    BY <1>1, <1>7, <1>8, <2>1 DEF config
  <2>3. QED
    BY <1>1, <1>2, <2>2 DEF AllocInv, upper
<1>12. RoomInv'
  <2> DEFINE P == Cardinality(DOMAIN pointerTbl)
             T == Cardinality(DOMAIN pageTbl)
             K == Cardinality(pci)
             K1 == Cardinality(pci')
  <2>1. P \in Nat /\ T \in Nat /\ K \in Nat /\ IsFiniteSet(pci)
    BY <1>2, FS_CardinalityType DEF RoomInv
  <2>2. IsFiniteSet(pci') /\ K1 = IF new \in pci THEN K ELSE K + 1
    BY <1>7, <2>1, FS_AddElement
  <2>3. new \in pci => t = log_phystop
    <3> SUFFICES ASSUME new \in pci PROVE t = log_phystop
      OBVIOUS
    <3>1. new \in Handed
      BY DEF Handed
    <3>2. new.at >= log_phystop
      BY <1>2, <3>1 DEF AllocInv, Lies
    <3>3. QED
      BY <1>4, <1>6, <1>9, <3>2
  <2>4. K1 <= MaxPci /\ K < MaxPci
    BY <1>1, <2>1, <2>2, PciAssumption
  <2>5. PICK root \in {0, 1023} : root = IF phys_RootTbl = 0 THEN 0 ELSE 1023
    OBVIOUS
  <2>6. log_phystop >= log_IOpage - root - (1023 * P) - (255 * T) - (1807 * K) - 0
    BY <1>1, <1>2, <2>5 DEF RoomInv
  <2>7. log_IOpage \in Int
    BY <1>2 DEF ShapeInv, PageSize
  <2> HIDE DEF P, T, K, K1
  <2>8. t >= log_IOpage - root - (1023 * P) - (255 * T) - (1807 * K1) - 0
    BY <1>4, <1>6, <2>1, <2>2, <2>3, <2>5, <2>6, <2>7
  <2>9. log_phystop' >= log_IOpage' - (IF phys_RootTbl' = 0 THEN 0 ELSE 1023) - (1023 * P)
                          - (255 * T) - (1807 * K1) - (IF Ready' THEN 8191 ELSE 0)
    BY <1>1, <1>7, <2>5, <2>8 DEF upper
  <2>10. IsFiniteSet(DOMAIN pointerTbl') /\ IsFiniteSet(DOMAIN pageTbl')
         /\ P = Cardinality(DOMAIN pointerTbl') /\ T = Cardinality(DOMAIN pageTbl')
    BY <1>1, <1>2 DEF RoomInv, P, T, upper
  <2>11. QED
    BY <2>2, <2>4, <2>9, <2>10 DEF RoomInv, K1
<1>13. MapInv'
  BY <1>1, <1>2 DEF MapInv, cursor, config
<1>14. DomainInv' /\ EntryInv' /\ AliasInv' /\ RamInv'
  BY <1>1, <1>13, PciLeavesTables DEF cursor
<1>15. QED
  BY <1>10, <1>11, <1>12, <1>13, <1>14 DEF Inv

LEMMA PciDoneKeeps == Inv /\ PciDone => Inv'
<1> SUFFICES ASSUME Inv, PciDone PROVE Inv'
  OBVIOUS
<1>1. /\ pc = "pci" /\ pc' \in {"vme", "uncache"} /\ PhysAdr' = 0 /\ ~Ready /\ ~Ready'
      /\ UNCHANGED <<config, log_phystop, upper, pageTbl, pci, LogAdr, block, log_ramtop>>
  BY DEF PciDone, Ready
<1>2. ShapeInv /\ AllocInv /\ RoomInv /\ MapInv
  BY DEF Inv
<1>3. ShapeInv'
  BY <1>1, <1>2 DEF ShapeInv, config, upper
<1>4. AllocInv'
  <2>1. Handed' = Handed
    BY <1>1 DEF Handed, upper
  <2>2. QED
    BY <1>1, <1>2, <2>1 DEF AllocInv, Lies, upper, config
<1>5. RoomInv'
  BY <1>1, <1>2 DEF RoomInv, upper
<1>6. MapInv'
  BY <1>1, <1>2 DEF MapInv, config, M16
<1>7. DomainInv' /\ EntryInv' /\ AliasInv' /\ RamInv'
  BY <1>1, <1>6, PciLeavesTables
<1>8. QED
  BY <1>3, <1>4, <1>5, <1>6, <1>7 DEF Inv

-----------------------------------------------------------------------------
(* The memory *)

\* Slot 0 holds the first 16 MB, whatever the detection found.
LEMMA FirstBlocks ==
  ASSUME ShapeInv, NEW b \in 0..3
  PROVE  Exists(b) /\ b \in 0..NSlots * 16 - 1
<1>1. types[0] \in {3, 4, 5}
  BY TypesAssumption DEF ShapeInv
<1>2. 0..3 \subseteq FillTab(types[0])
  <2>1. CASE types[0] = 3
    BY <2>1 DEF FillTab
  <2>2. CASE types[0] = 4
    BY <2>2 DEF FillTab
  <2>3. CASE types[0] = 5
    BY <2>3 DEF FillTab, Blocks
  <2>4. QED
    BY <1>1, <2>1, <2>2, <2>3
<1>3. b % 16 = b /\ b \div 16 = 0 /\ b \in 0..3
  OBVIOUS
<1>4. b \in 0..NSlots * 16 - 1
  BY NSlotsAssumption
<1>5. QED
  BY <1>2, <1>3, <1>4 DEF Exists

LEMMA NextBlockKeeps == Inv /\ NextBlock => Inv'
<1> SUFFICES ASSUME Inv, NextBlock PROVE Inv'
  OBVIOUS
<1> DEFINE later == {b \in block + 1..NSlots * 16 - 1 : Exists(b)}
<1>1. /\ pc = "map" /\ PhysAdr >= (block + 1) * M4 /\ ~Ready
      /\ UNCHANGED <<config, log_phystop, upper, pageTbl, pci, LogAdr>>
  BY DEF NextBlock, Ready
<1>2. \/ /\ later = {} /\ pc' = "tos" /\ PhysAdr' = Tos /\ log_ramtop' = LogAdr
         /\ block' = block
      \/ /\ later # {} /\ block' \in later /\ \A b \in later : block' <= b
         /\ PhysAdr' = block' * M4 /\ pc' = pc /\ log_ramtop' = log_ramtop
  BY DEF NextBlock
<1>3. ShapeInv /\ AllocInv /\ RoomInv /\ MapInv /\ DomainInv /\ EntryInv /\ RamInv
  BY DEF Inv
<1>4. /\ block \in Nat /\ PhysAdr = 512 * (block + 1) /\ PhysAdr \in Nat /\ LogAdr \in Nat
      /\ LogAdr <= PhysAdr + 1536 /\ LogAdr % 32 = 0 /\ LogAdr <= 67072
      /\ (LogAdr < stram_end => LogAdr = PhysAdr) /\ stram_end \in {1792, 1024, 512}
      /\ (LogAdr < stram_end \/ LogAdr >= 2048) /\ log_ramtop = 0
      /\ block \in 0..NSlots * 16 - 1
  <2>1. block \in Nat
    BY <1>3, NSlotsAssumption DEF MapInv
  <2>2. PhysAdr = 512 * (block + 1)
    BY <1>1, <1>3, <2>1 DEF MapInv, M4
  <2>3. QED
    BY <1>1, <1>3, <2>1, <2>2 DEF MapInv, ShapeInv, M16
<1>5. LogAdr < stram_end => block + 1 \in later
  <2> SUFFICES ASSUME LogAdr < stram_end PROVE block + 1 \in later
    OBVIOUS
  <2>1. block + 1 \in 0..3
    BY <1>4
  <2>2. QED
    BY <1>3, <1>4, <2>1, FirstBlocks
<1>6. \A b \in later : b \in Nat /\ b > block /\ Exists(b) /\ b \in 0..NSlots * 16 - 1
  BY <1>4, NSlotsAssumption
<1>7. \A p \in Existing \ Kept :
        p \in Nat /\ (p < PhysAdr \/ (p \div 512 \in later /\ p >= 512 * (p \div 512)))
  <2> SUFFICES ASSUME NEW p \in Existing, p >= PhysAdr
               PROVE  p \div 512 \in later /\ p >= 512 * (p \div 512)
    BY <1>4, NSlotsAssumption DEF Existing, M4
  <2>1. p \in 0..NSlots * 16 * 512 - 1 /\ Exists(p \div 512)
    BY DEF Existing, M4
  <2>2. p \div 512 \in block + 1..NSlots * 16 - 1 /\ p >= 512 * (p \div 512)
    <3> DEFINE q == p \div 512
    <3>1. p \in Nat /\ p < NSlots * 16 * 512 /\ NSlots \in Nat
      BY <2>1, NSlotsAssumption
    <3>2. q \in Nat /\ 512 * q <= p /\ p < 512 * q + 512
      BY <3>1
    <3> HIDE DEF q
    <3>3. q >= block + 1 /\ q < NSlots * 16
      BY <1>4, <3>1, <3>2
    <3>4. q \in block + 1..NSlots * 16 - 1
      BY <1>4, <3>1, <3>2, <3>3
    <3>5. QED
      BY <3>2, <3>4 DEF q
  <2>3. QED
    BY <2>1, <2>2
<1> HIDE DEF later
<1>8. Ram' = Ram /\ Existing' = Existing /\ Kept' = Kept /\ \A l : Entry(l)' = Entry(l)
  BY <1>1 DEF Ram, Existing, Exists, Kept, Entry, config
<1>9. \A c : Memory(c)' <=> Memory(c)
  BY <1>1 DEF Memory, config
<1>10. Stage = 0 /\ Stage' \in {0, 1} /\ ~Ready' /\ pc' \in {"map", "tos"}
  BY <1>1, <1>2 DEF Stage, Ready
<1>11. ShapeInv'
  BY <1>1, <1>3, <1>10 DEF ShapeInv, config, upper
<1>12. AllocInv'
  <2>1. Handed' = Handed
    BY <1>1 DEF Handed, upper
  <2>2. phys_RootTbl' # 0
    BY <1>1, <1>3, <1>4 DEF AllocInv, upper
  <2>3. QED
    BY <1>1, <1>3, <2>1, <2>2 DEF AllocInv, Lies, upper, config
<1>13. RoomInv'
  BY <1>1, <1>3, <1>10 DEF RoomInv, upper
<1>14. \A c : Window(c) => Window(c)'
  BY <1>10 DEF Window
<1>15. DomainInv'
  BY <1>1, <1>3, <1>9, <1>14 DEF DomainInv
<1>16. EntryInv'
  BY <1>1, <1>3, <1>10 DEF EntryInv, EntryOK, config
<1>17. AliasInv'
  BY <1>10 DEF AliasInv
<1>18. CASE later = {}
  <2>1. pc' = "tos" /\ PhysAdr' = 1792 /\ log_ramtop' = LogAdr /\ block' = block
    BY <1>2, <1>18 DEF Tos
  <2>2. LogAdr >= 2048
    BY <1>4, <1>5, <1>18
  <2>3. MapInv'
    BY <1>1, <1>4, <2>1, <2>2 DEF MapInv, M16, config
  <2>4. RamInv'
    BY <1>3, <1>7, <1>8, <1>18, <2>1 DEF RamInv
  <2>5. QED
    BY <1>11, <1>12, <1>13, <1>15, <1>16, <1>17, <2>3, <2>4 DEF Inv
<1>19. CASE later # {}
  <2>1. /\ block' \in later /\ \A b \in later : block' <= b
        /\ PhysAdr' = block' * 512 /\ pc' = "map" /\ log_ramtop' = 0
    BY <1>1, <1>2, <1>4, <1>19 DEF M4
  <2>2. block' \in Nat /\ block' > block /\ Exists(block') /\ block' \in 0..NSlots * 16 - 1
    BY <1>6, <2>1
  <2>3. LogAdr < stram_end => block' = block + 1
    BY <1>4, <1>5, <2>1, <2>2
  <2>20. PICK b \in Nat : b = block'
    BY <2>2
  <2>21. PICK a : a = PhysAdr'
    OBVIOUS
  <2>4. a \in Nat /\ a % 32 = 0 /\ a = 512 * b /\ a >= PhysAdr /\ b > block
    <3>1. a = b * 512 /\ b > block
      BY <2>1, <2>2, <2>20, <2>21
    <3>2. a = 512 * b /\ a \in Nat
      BY <3>1
    <3>3. a % 32 = 0
      BY <3>2
    <3>4. a >= PhysAdr
      BY <1>4, <3>1, <3>2
    <3>5. QED
      BY <3>1, <3>2, <3>3, <3>4
  <2>5. MapInv'
    <3>1. Exists(block)'
      BY <1>1, <2>2 DEF Exists, config
    <3>2. a \notin {1792, 1824, 2016}
      BY <2>4
    <3>3. LogAdr <= a + 1536 /\ (LogAdr < stram_end => LogAdr = a)
      <4>1. LogAdr < stram_end => b = block + 1
        BY <2>3, <2>20
      <4>2. QED
        BY <1>4, <2>4, <4>1
    <3>4. a >= b * 512 /\ a <= (b + 1) * 512
      BY <2>4
    <3>5. /\ LogAdr' = LogAdr /\ stram_end' = stram_end /\ romport_emu' = romport_emu
          /\ log_ramtop' = 0 /\ pc' = "map" /\ block' = b /\ PhysAdr' = a
          /\ b \in 0..NSlots * 16 - 1
      BY <1>1, <2>1, <2>2, <2>20, <2>21 DEF config
    <3>6. QED
      BY <1>4, <2>4, <3>1, <3>2, <3>3, <3>4, <3>5 DEF MapInv, M4, M16
  <2>6. \A p \in Existing \ Kept : p < PhysAdr' => p < PhysAdr
    <3> SUFFICES ASSUME NEW p \in Existing \ Kept, p < PhysAdr', ~(p < PhysAdr)
                 PROVE  FALSE
      OBVIOUS
    <3>1. p \in Nat /\ p \div 512 \in later /\ p >= 512 * (p \div 512)
      BY <1>7
    <3>2. PICK q : q = p \div 512
      OBVIOUS
    <3>3. q \in later /\ q \in Nat /\ b <= q /\ p >= 512 * q
      BY <1>6, <2>1, <2>20, <3>1, <3>2
    <3>4. p < a
      BY <2>21
    <3>5. QED
      BY <2>4, <3>1, <3>3, <3>4
  <2>7. \A l \in Ram : Entry(l).at < PhysAdr'
    <3>1. \A l \in Ram : Entry(l).at \in Nat /\ Entry(l).at < PhysAdr
      <4>1. \A l \in Ram : Entry(l).at \in Existing /\ Entry(l).at < PhysAdr
        BY <1>1, <1>3 DEF RamInv
      <4>2. Existing \subseteq Nat
        BY NSlotsAssumption DEF Existing
      <4>3. QED
        BY <4>1, <4>2
    <3>2. \A l \in Ram : Entry(l).at < a
      BY <1>4, <2>4, <3>1
    <3>3. QED
      BY <2>21, <3>2
  <2>8. RamInv'
    <3>1. /\ \A l \in Ram : Entry(l).at \in Existing \ Kept
          /\ \A p \in Existing \ Kept : p < PhysAdr => \E l \in Ram : Entry(l).at = p
          /\ \A l, m \in Ram : l # m => Entry(l).at # Entry(m).at
      BY <1>1, <1>3 DEF RamInv
    <3>2. \A p \in Existing \ Kept : p < PhysAdr' => \E l \in Ram : Entry(l).at = p
      BY ONLY <2>6, <3>1
    <3>3. /\ \A l \in Ram' : Entry(l)'.at \in Existing' \ Kept'
          /\ \A p \in Existing' \ Kept' : p < PhysAdr' => \E l \in Ram' : Entry(l)'.at = p
          /\ \A l \in Ram' : Entry(l)'.at < PhysAdr'
          /\ \A l, m \in Ram' : l # m => Entry(l)'.at # Entry(m)'.at
      BY ONLY <1>8, <2>7, <3>1, <3>2
    <3>4. pc' = "map"
      BY <2>1
    <3>5. QED
      BY ONLY <3>3, <3>4 DEF RamInv
  <2>9. QED
    BY <1>11, <1>12, <1>13, <1>15, <1>16, <1>17, <2>5, <2>8 DEF Inv
<1>20. QED
  BY <1>18, <1>19

\* The 32 pages that the loop maps when it stands at page a of block b, and where it goes on.
LEMMA ChunkPages ==
  ASSUME ShapeInv, NEW a \in Nat, a % 32 = 0, a \notin {1792, 1824},
         romport_emu => a # 2016,
         NEW b \in Nat, a >= 512 * b, a < 512 * b + 512,
         NEW n, n = PageOf(31, a) + 1, NEW q, q = IF n = Tos THEN n + TosLen ELSE n
  PROVE  /\ \A i \in Entries : /\ PageOf(i, a) \in Nat /\ PageOf(i, a) >= a
                               /\ PageOf(i, a) < q /\ PageOf(i, a) < 512 * b + 512
                               /\ PageOf(i, a) \notin Kept
                               /\ a < 1792 => PageOf(i, a) = a + i
                               /\ PageOf(i, a) \notin Tos..Tos + TosLen - 1
         /\ \A i, j \in Entries : i # j => PageOf(i, a) # PageOf(j, a)
         /\ \A p \in Nat : p >= a /\ p < q /\ p \notin Kept =>
              \E i \in Entries : PageOf(i, a) = p
         /\ q \in Nat /\ q % 32 = 0 /\ q >= a + 32 /\ q <= 512 * b + 512
         /\ q \notin {1792, 1824} /\ (romport_emu => q # 2016)
         /\ a < 1760 => q = a + 32
<1>1. romport_emu \in BOOLEAN
  BY DEF ShapeInv
<1>2. a < 1792 => a <= 1760
  OBVIOUS
<1>3. a >= 1792 => a >= 1856
  OBVIOUS
<1>4. a + 32 <= 512 * b + 512
  OBVIOUS
<1>5. CASE romport_emu /\ a = 1984
  <2>1. b = 3
    BY <1>5
  <2>2. \A i \in Entries : PageOf(i, a) = IF i < 16 THEN 1984 + i ELSE 2016 + i
    BY <1>5 DEF PageOf, RomPort, RomPortLen, Entries
  <2>3. n = 2048 /\ q = 2048
    <3>1. 31 \in Entries
      BY DEF Entries
    <3>2. n = 2048
      BY <2>2, <3>1
    <3>3. QED
      BY <3>2 DEF Tos
  <2>4. \A p : p \in Kept <=> p \in 1792..1855 \cup 2000..2031
    BY <1>5 DEF Kept, Tos, TosLen, RomPort, RomPortLen
  <2>5. \A i \in Entries : /\ PageOf(i, a) \in Nat /\ PageOf(i, a) >= a
                           /\ PageOf(i, a) < q /\ PageOf(i, a) < 512 * b + 512
                           /\ PageOf(i, a) \notin Kept
                           /\ PageOf(i, a) \notin Tos..Tos + TosLen - 1
    BY <1>5, <2>1, <2>2, <2>3, <2>4 DEF Entries, Tos, TosLen
  <2>6. \A i, j \in Entries : i # j => PageOf(i, a) # PageOf(j, a)
    BY <2>2 DEF Entries
  <2>7. ASSUME NEW p \in Nat, p >= a, p < q, p \notin Kept
        PROVE  \E i \in Entries : PageOf(i, a) = p
    <3>1. p \in 1984..1999 \/ p \in 2032..2047
      BY <1>5, <2>3, <2>4, <2>7
    <3>2. CASE p \in 1984..1999
      <4>1. p - 1984 \in Entries /\ PageOf(p - 1984, a) = p
        BY <2>2, <3>2 DEF Entries
      <4>2. QED
        BY <4>1
    <3>3. CASE p \in 2032..2047
      <4>1. p - 2016 \in Entries /\ PageOf(p - 2016, a) = p
        BY <2>2, <3>3 DEF Entries
      <4>2. QED
        BY <4>1
    <3>4. QED
      BY <3>1, <3>2, <3>3
  <2>8. QED
    BY <1>5, <2>1, <2>3, <2>5, <2>6, <2>7
<1>6. CASE ~(romport_emu /\ a = 1984)
  <2>1. \A i \in Entries : PageOf(i, a) = a + i
    <3> SUFFICES ASSUME NEW i \in Entries PROVE PageOf(i, a) = a + i
      OBVIOUS
    <3>1. i \in Nat /\ i < 32
      BY DEF Entries
    <3>2. ~(romport_emu /\ a <= 2000 /\ 2000 <= a + i)
      <4>1. a <= 2000 /\ 2000 <= a + i => a = 1984
        BY <3>1
      <4>2. QED
        BY <1>6, <4>1
    <3>3. QED
      BY <3>1, <3>2 DEF PageOf, RomPort
  <2>2. n = a + 32
    <3>1. 31 \in Entries
      BY DEF Entries
    <3>2. QED
      BY <2>1, <3>1
  <2>3. q = IF a = 1760 THEN 1856 ELSE a + 32
    BY <2>2 DEF Tos, TosLen
  <2>4. \A p : p \in Kept <=> p \in 1792..1855 \/ (romport_emu /\ p \in 2000..2031)
    BY <1>1 DEF Kept, Tos, TosLen, RomPort, RomPortLen
  <2>5. \A i \in Entries : i \in Nat /\ i < 32
    BY DEF Entries
  <2>6. romport_emu => a <= 1952 \/ a >= 2048
    BY <1>6
  <2>7. ASSUME NEW i \in Entries
        PROVE  /\ a + i \in Nat /\ a + i >= a /\ a + i < q /\ a + i < 512 * b + 512
               /\ a + i \notin Kept /\ a + i \notin Tos..Tos + TosLen - 1
    <3>1. i \in Nat /\ i < 32
      BY <2>5
    <3>2. a + i < 1792 \/ a + i >= 1856
      BY <1>2, <1>3, <3>1
    <3>3. romport_emu => a + i < 2000 \/ a + i >= 2032
      BY <2>6, <3>1
    <3>4. a + i \notin Kept /\ a + i \notin Tos..Tos + TosLen - 1
      BY <2>4, <3>1, <3>2, <3>3 DEF Tos, TosLen
    <3>5. QED
      BY <1>4, <2>3, <3>1, <3>4
  <2>8. \A i, j \in Entries : i # j => a + i # a + j
    BY <2>5
  <2>9. ASSUME NEW p \in Nat, p >= a, p < q, p \notin Kept
        PROVE  \E i \in Entries : a + i = p
    <3>1. p < a + 32
      BY <2>3, <2>4, <2>9
    <3>2. p - a \in Entries /\ a + (p - a) = p
      BY <2>9, <3>1 DEF Entries
    <3>3. QED
      BY <3>2
  <2>10. q \in Nat /\ q % 32 = 0 /\ q >= a + 32 /\ q <= 512 * b + 512
    <3>1. CASE a = 1760
      BY <2>3, <3>1
    <3>2. CASE a # 1760
      <4>1. q = a + 32
        BY <2>3, <3>2
      <4>2. QED
        BY <1>4, <4>1
    <3>3. QED
      BY <3>1, <3>2
  <2>11. q \notin {1792, 1824} /\ (romport_emu => q # 2016) /\ (a < 1760 => q = a + 32)
    BY <1>6, <2>3
  <2>12. QED
    BY <2>1, <2>7, <2>8, <2>9, <2>10, <2>11
<1>7. QED
  BY <1>5, <1>6

LEMMA MapChunkKeeps == Inv /\ MapChunk => Inv'
<1> SUFFICES ASSUME Inv, MapChunk PROVE Inv'
  OBVIOUS
<1>1. ShapeInv /\ AllocInv /\ RoomInv /\ MapInv /\ DomainInv /\ EntryInv /\ RamInv
  BY DEF Inv
<1>2. /\ pc = "map" /\ pc' = "map" /\ PhysAdr < (block + 1) * M4 /\ ~Ready /\ ~Ready'
      /\ UNCHANGED <<config, log_IOpage, pci, block, log_ramtop>> /\ SameConfig
      /\ stram_end' = stram_end /\ romport_emu' = romport_emu /\ types' = types
  BY DEF MapChunk, Ready, SameConfig, config
<1>3. PICK a : a = PhysAdr
  OBVIOUS
<1>4. PICK b : b = block
  OBVIOUS
<1>5. PICK n : n = PageOf(31, a) + 1
  OBVIOUS
<1>6. PICK q : q = IF n = Tos THEN n + TosLen ELSE n
  OBVIOUS
<1>7. PICK c : c = LogAdr \div 32
  OBVIOUS
<1>8. PICK top : top = LogAdr
  OBVIOUS
<1>9. /\ a \in Nat /\ a % 32 = 0 /\ a \notin {1792, 1824} /\ (romport_emu => a # 2016)
      /\ b \in Nat /\ b <= 127 /\ a >= 512 * b /\ a < 512 * b + 512
      /\ b \in 0..NSlots * 16 - 1
      /\ top \in Nat /\ top % 32 = 0 /\ (top < stram_end \/ top >= 2048)
      /\ top <= a + 1536 /\ (top < stram_end => top = a)
      /\ stram_end \in {1792, 1024, 512} /\ romport_emu \in BOOLEAN /\ log_ramtop = 0
  <2>1. b \in Nat /\ b <= 127 /\ b \in 0..NSlots * 16 - 1
    BY <1>1, <1>4, NSlotsAssumption DEF MapInv
  <2>2. a >= 512 * b /\ a < 512 * b + 512 /\ a \in Nat
    BY <1>1, <1>2, <1>3, <1>4, <2>1 DEF MapInv, M4
  <2>3. QED
    BY <1>1, <1>2, <1>3, <1>8, <2>1, <2>2 DEF MapInv, ShapeInv, M16
<1>10. top = 32 * c /\ c \in Nat /\ c \in Chunks /\ c \notin 56..63 /\ top <= 67040
  <2>1. top = 32 * c /\ c \in Nat
    BY <1>7, <1>8, <1>9
  <2>2. a <= 65504
    BY <1>9
  <2>3. QED
    BY <1>9, <2>1, <2>2 DEF Chunks
<1> DEFINE new == [i \in Entries |-> Descriptor(PageOf(i, a), "ram")]
<1>11. WriteInto(c, new)
  BY <1>3, <1>7 DEF MapChunk
<1>12. /\ \A i \in Entries : /\ PageOf(i, a) \in Nat /\ PageOf(i, a) >= a
                             /\ PageOf(i, a) < q /\ PageOf(i, a) < 512 * b + 512
                             /\ PageOf(i, a) \notin Kept
                             /\ a < 1792 => PageOf(i, a) = a + i
                             /\ PageOf(i, a) \notin Tos..Tos + TosLen - 1
       /\ \A i, j \in Entries : i # j => PageOf(i, a) # PageOf(j, a)
       /\ \A p \in Nat : p >= a /\ p < q /\ p \notin Kept =>
            \E i \in Entries : PageOf(i, a) = p
       /\ q \in Nat /\ q % 32 = 0 /\ q >= a + 32 /\ q <= 512 * b + 512
       /\ q \notin {1792, 1824} /\ (romport_emu => q # 2016)
       /\ a < 1760 => q = a + 32
  BY <1>1, <1>5, <1>6, <1>9, ChunkPages
<1>13. NewEntries(new) /\ DOMAIN new = Entries
       /\ \A i \in Entries : new[i] = Descriptor(PageOf(i, a), "ram")
  BY <1>12 DEF NewEntries, Descriptor, Descriptors, Mode
<1> HIDE DEF new
<1>14. PICK t : t = IF top + 32 = stram_end THEN 2048 ELSE top + 32
  OBVIOUS
<1>15. LogAdr' = t /\ PhysAdr' = q
  BY <1>3, <1>5, <1>6, <1>8, <1>14 DEF MapChunk, M16
<1>16. /\ t \in Nat /\ t % 32 = 0 /\ t <= 67072 /\ t <= q + 1536 /\ t > top
       /\ (t < stram_end \/ t >= 2048) /\ (t < stram_end => t = q /\ t = top + 32)
       /\ t = top + 32 \/ (t = 2048 /\ top + 32 = stram_end)
  <2>1. t \in Nat /\ t % 32 = 0 /\ t > top /\ t <= 67072
    BY <1>9, <1>10, <1>14
  <2>2. t <= q + 1536
    BY <1>9, <1>12, <1>14
  <2>3. t < stram_end => t = top + 32 /\ top < stram_end /\ top = a /\ a < 1760
    BY <1>9, <1>14
  <2>4. t < stram_end \/ t >= 2048
    BY <1>9, <1>14
  <2>5. QED
    BY <1>9, <1>12, <1>14, <2>1, <2>2, <2>3, <2>4
<1>17. ShapeInv' /\ AllocInv' /\ RoomInv'
  BY <1>1, <1>2, <1>10, <1>11, <1>13, TablesStep
<1>18. MapInv'
  <2>1. Exists(block)'
    BY <1>1, <1>2 DEF MapInv, Exists
  <2>2. q >= b * 512 /\ q <= (b + 1) * 512
    BY <1>9, <1>12
  <2>3. QED
    BY <1>2, <1>4, <1>9, <1>12, <1>15, <1>16, <2>1, <2>2 DEF MapInv, M4, M16
<1>19. Stage = 0 /\ Stage' = 0 /\ \A d : ~Window(d)
  <2>1. Stage = 0 /\ Stage' = 0
    BY <1>2 DEF Stage
  <2>2. QED
    BY <2>1 DEF Window
<1>20. ~Memory(c) /\ c \notin DOMAIN pageTbl
  <2>1. ~Memory(c)
    BY <1>8, <1>10 DEF Memory
  <2>2. QED
    BY <1>1, <1>19, <2>1 DEF DomainInv
<1>21. \A d \in Nat : Memory(d)' <=> Memory(d) \/ d = c
  <2> SUFFICES ASSUME NEW d \in Nat PROVE Memory(d)' <=> Memory(d) \/ d = c
    OBVIOUS
  <2>1. Memory(d)' <=> 32 * d < t /\ (32 * d < stram_end \/ 32 * d >= 2048)
    BY <1>2, <1>15 DEF Memory, M16
  <2>2. Memory(d) <=> 32 * d < top /\ (32 * d < stram_end \/ 32 * d >= 2048)
    BY <1>8 DEF Memory, M16
  <2>3. 32 * d < top + 32 <=> 32 * d < top \/ d = c
    BY <1>10
  <2>4. 32 * c < t /\ (32 * c < stram_end \/ 32 * c >= 2048)
    BY <1>9, <1>10, <1>16
  <2>5. CASE t = top + 32
    BY <2>1, <2>2, <2>3, <2>4, <2>5
  <2>6. CASE t = 2048 /\ top + 32 = stram_end
    <3>1. 32 * d < stram_end <=> 32 * d < top \/ d = c
      BY <2>3, <2>6
    <3>2. QED
      BY <1>9, <2>1, <2>2, <2>4, <2>6, <3>1
  <2>7. QED
    BY <1>16, <2>5, <2>6
<1>22. /\ DOMAIN pageTbl' = DOMAIN pageTbl \cup {c}
       /\ \A d \in DOMAIN pageTbl : d # c => pageTbl'[d] = pageTbl[d]
       /\ \A i \in Entries : pageTbl'[c].entry[i] = Descriptor(PageOf(i, a), "ram")
  <2>1. /\ DOMAIN pageTbl' = DOMAIN pageTbl \cup {c}
        /\ \A d \in DOMAIN pageTbl : d # c => pageTbl'[d] = pageTbl[d]
        /\ \A i \in Entries :
             pageTbl'[c].entry[i] = IF i \in DOMAIN new THEN new[i]
                                    ELSE IF c \in DOMAIN pageTbl THEN pageTbl[c].entry[i]
                                    ELSE None
    <3>1. PICK f : f = new
      OBVIOUS
    <3>2. ShapeInv /\ c \in Chunks /\ NewEntries(f) /\ WriteInto(c, f)
      BY <1>1, <1>10, <1>11, <1>13, <3>1
    <3>3. /\ DOMAIN pageTbl' = DOMAIN pageTbl \cup {c}
          /\ \A d \in DOMAIN pageTbl : d # c => pageTbl'[d] = pageTbl[d]
          /\ \A i \in Entries :
               pageTbl'[c].entry[i] = IF i \in DOMAIN f THEN f[i]
                                      ELSE IF c \in DOMAIN pageTbl THEN pageTbl[c].entry[i]
                                      ELSE None
      BY ONLY <3>2, WriteIntoEntries
    <3>4. QED
      BY <3>1, <3>3
  <2>2. QED
    BY <1>13, <2>1
<1>23. DomainInv'
  <2>1. \A d \in DOMAIN pageTbl : d \in Nat
    <3>1. \A d \in DOMAIN pageTbl : d \in Chunks
      BY <1>1 DEF ShapeInv
    <3>2. Chunks \subseteq Nat
      BY DEF Chunks
    <3>3. QED
      BY <3>1, <3>2
  <2>2. \A d \in DOMAIN pageTbl' : Memory(d)'
    BY <1>1, <1>10, <1>19, <1>21, <1>22, <2>1 DEF DomainInv
  <2>3. \A d \in Nat : Memory(d)' => d \in DOMAIN pageTbl'
    BY <1>1, <1>21, <1>22 DEF DomainInv
  <2>4. QED
    BY <2>2, <2>3 DEF DomainInv
<1>24. ASSUME NEW i \in Entries PROVE EntryOK(c, i, Descriptor(PageOf(i, a), "ram"))
  <2> DEFINE p == PageOf(i, a)
             e == Descriptor(p, "ram")
  <2>1. e.at = p /\ e.mode = "ram"
    BY DEF Descriptor
  <2>2. i \in Nat /\ i < 32
    BY DEF Entries
  <2>3. 32 * c + i < stram_end => p = 32 * c + i
    BY <1>9, <1>10, <1>12, <2>2
  <2>4. p \notin Tos..Tos + TosLen - 1
    BY <1>12
  <2>5. romport_emu => p \notin RomPort..RomPort + RomPortLen - 1
    BY <1>12 DEF Kept
  <2>6. c \notin {56, 57}
    BY <1>10
  <2> HIDE DEF p
  <2>7. 32 * c + i < stram_end => e = Descriptor(32 * c + i, "ram")
    BY <2>3
  <2> HIDE DEF e
  <2>8. EntryOK(c, i, e)
    BY ONLY <1>2, <2>1, <2>4, <2>5, <2>6, <2>7 DEF EntryOK
  <2>9. QED
    BY <2>8 DEF e, p
<1>25. EntryInv'
  <2>1. \A d \in DOMAIN pageTbl' : \A i \in Entries : EntryOK(d, i, pageTbl'[d].entry[i])
    BY <1>1, <1>22, <1>24 DEF EntryInv
  <2>2. (\A d \in DOMAIN pageTbl : \A i \in Entries : EntryOK(d, i, pageTbl[d].entry[i]))'
    <3> SUFFICES ASSUME NEW d \in DOMAIN pageTbl', NEW i \in Entries
                 PROVE  EntryOK(d, i, pageTbl[d].entry[i])'
      OBVIOUS
    <3>1. PICK e : e = pageTbl'[d].entry[i]
      OBVIOUS
    <3>2. EntryOK(d, i, e)
      BY <2>1, <3>1
    <3>3. EntryOK(d, i, e)'
      BY <1>2, <3>2, EntryStays
    <3>4. QED
      BY <3>1, <3>3 DEF EntryOK
  <2>3. 63 \notin DOMAIN pageTbl'
    <3>1. 63 \notin DOMAIN pageTbl
      BY <1>1, <1>19, MemoryChunks DEF DomainInv
    <3>2. QED
      BY <1>10, <1>22, <3>1
  <2>4. QED
    BY <2>2, <2>3 DEF EntryInv
<1>26. AliasInv'
  BY <1>19 DEF AliasInv
<1>27. RamInv'
  <2>1. Existing' = Existing /\ Kept' = Kept
    BY <1>2 DEF Existing, Exists, Kept
  <2>2. \A l : l \in Ram' <=> l \in Nat /\ l < t /\ (l < stram_end \/ l >= 2048)
    BY <1>2, <1>15 DEF Ram, M16
  <2>3. \A l : l \in Ram <=> l \in Nat /\ l < top /\ (l < stram_end \/ l >= 2048)
    BY <1>8 DEF Ram, M16
  <2>4. \A l \in Ram' : l \in Ram \/ \E i \in Entries : l = 32 * c + i
    <3> SUFFICES ASSUME NEW l \in Ram', l \notin Ram PROVE \E i \in Entries : l = 32 * c + i
      OBVIOUS
    <3>1. l \in Nat /\ l >= top /\ l < t /\ (l < stram_end \/ l >= 2048)
      BY <1>9, <2>2, <2>3
    <3>2. l < top + 32
      BY <1>9, <1>16, <3>1
    <3>3. l - top \in Entries /\ l = 32 * c + (l - top)
      BY <1>9, <1>10, <3>1, <3>2 DEF Entries
    <3>4. QED
      BY <3>3
  <2>5. \A i \in Entries : 32 * c + i \in Ram'
    <3> SUFFICES ASSUME NEW i \in Entries PROVE 32 * c + i \in Ram'
      OBVIOUS
    <3>1. i \in Nat /\ i < 32
      BY DEF Entries
    <3>2. top + i \in Nat /\ top + i < t /\ (top + i < stram_end \/ top + i >= 2048)
      BY <1>9, <1>16, <3>1
    <3>3. QED
      BY <1>10, <2>2, <3>2
  <2>6. Ram \subseteq Ram'
    BY <1>9, <1>16, <2>2, <2>3
  <2>7. \A l \in Ram : Entry(l)' = Entry(l)
    <3> SUFFICES ASSUME NEW l \in Ram PROVE Entry(l)' = Entry(l)
      OBVIOUS
    <3>1. Memory(l \div 32) /\ l \div 32 \in Nat
      BY <1>1, RamChunk
    <3>2. l \div 32 \in DOMAIN pageTbl /\ l \div 32 # c
      BY <1>1, <1>20, <3>1 DEF DomainInv
    <3>3. QED
      BY <1>22, <3>2 DEF Entry
  <2>8. \A i \in Entries : Entry(32 * c + i)' = Descriptor(PageOf(i, a), "ram")
    <3> SUFFICES ASSUME NEW i \in Entries
                 PROVE  Entry(32 * c + i)' = Descriptor(PageOf(i, a), "ram")
      OBVIOUS
    <3>1. i \in Nat /\ i < 32
      BY DEF Entries
    <3>2. (32 * c + i) \div 32 = c /\ (32 * c + i) % 32 = i
      BY <1>10, <3>1
    <3>3. QED
      BY <1>22, <3>2 DEF Entry
  <2>9. \A i \in Entries : Entry(32 * c + i)'.at = PageOf(i, a)
    <3> SUFFICES ASSUME NEW i \in Entries PROVE Entry(32 * c + i)'.at = PageOf(i, a)
      OBVIOUS
    <3>1. PICK p : p = PageOf(i, a)
      OBVIOUS
    <3>2. Descriptor(p, "ram").at = p
      BY DEF Descriptor
    <3>3. QED
      BY <2>8, <3>1, <3>2
  <2>10. /\ \A l \in Ram : Entry(l).at \in Existing \ Kept /\ Entry(l).at < a
         /\ \A p \in Existing \ Kept : p < a => \E l \in Ram : Entry(l).at = p
         /\ \A l, m \in Ram : l # m => Entry(l).at # Entry(m).at
    BY <1>1, <1>2, <1>3 DEF RamInv
  <2>11. Existing \subseteq Nat
    BY NSlotsAssumption DEF Existing
  <2>12. \A i \in Entries : PageOf(i, a) \in Existing \ Kept
    <3> SUFFICES ASSUME NEW i \in Entries PROVE PageOf(i, a) \in Existing
      BY <1>12
    <3> DEFINE p == PageOf(i, a)
    <3>1. p \in Nat /\ p >= 512 * b /\ p < 512 * b + 512
      BY <1>9, <1>12
    <3> HIDE DEF p
    <3>2. p \div 512 = b
      BY <1>9, <3>1
    <3>3. p \in 0..NSlots * 16 * 512 - 1
      BY <1>9, <3>1, NSlotsAssumption
    <3>4. Exists(b)
      BY <1>1, <1>2, <1>4 DEF MapInv
    <3>5. p \in Existing
      BY <3>2, <3>3, <3>4 DEF Existing, M4
    <3>6. QED
      BY <3>5 DEF p
  <2>13. \A l \in Ram' : Entry(l)'.at \in Existing \ Kept /\ Entry(l)'.at < q
    <3> SUFFICES ASSUME NEW l \in Ram'
                 PROVE  Entry(l)'.at \in Existing \ Kept /\ Entry(l)'.at < q
      OBVIOUS
    <3>1. CASE l \in Ram
      <4>1. Entry(l).at \in Existing \ Kept /\ Entry(l).at < a /\ Entry(l).at \in Nat
        BY <2>10, <2>11, <3>1
      <4>2. Entry(l).at < q
        BY <1>9, <1>12, <4>1
      <4>3. QED
        BY <2>7, <3>1, <4>1, <4>2
    <3>2. CASE \E i \in Entries : l = 32 * c + i
      BY <1>12, <2>9, <2>12, <3>2
    <3>3. QED
      BY <2>4, <3>1, <3>2
  <2>14. \A p \in Existing \ Kept : p < q => \E l \in Ram' : Entry(l)'.at = p
    <3> SUFFICES ASSUME NEW p \in Existing \ Kept, p < q
                 PROVE  \E l \in Ram' : Entry(l)'.at = p
      OBVIOUS
    <3>1. p \in Nat
      BY <2>11
    <3>2. CASE p < a
      <4>1. PICK l \in Ram : Entry(l).at = p
        BY <2>10, <3>2
      <4>2. l \in Ram' /\ Entry(l)'.at = p
        BY <2>6, <2>7, <4>1
      <4>3. QED
        BY <4>2
    <3>3. CASE p >= a
      <4>1. PICK i \in Entries : PageOf(i, a) = p
        BY <1>12, <3>1, <3>3
      <4>2. 32 * c + i \in Ram' /\ Entry(32 * c + i)'.at = p
        BY <2>5, <2>9, <4>1
      <4>3. QED
        BY <4>2
    <3>4. QED
      BY <1>9, <3>1, <3>2, <3>3
  <2>15. ASSUME NEW l \in Ram', NEW m \in Ram', l # m PROVE Entry(l)'.at # Entry(m)'.at
    <3>1. \A k \in Ram : Entry(k)'.at < a /\ Entry(k)'.at \in Nat
      BY <2>7, <2>10, <2>11
    <3>2. \A i \in Entries : Entry(32 * c + i)'.at >= a /\ Entry(32 * c + i)'.at \in Nat
      BY <1>12, <2>9
    <3>3. CASE l \in Ram /\ m \in Ram
      BY <2>7, <2>10, <2>15, <3>3
    <3>4. CASE l \in Ram /\ \E i \in Entries : m = 32 * c + i
      BY <1>9, <3>1, <3>2, <3>4
    <3>5. CASE m \in Ram /\ \E i \in Entries : l = 32 * c + i
      BY <1>9, <3>1, <3>2, <3>5
    <3>6. CASE (\E i \in Entries : l = 32 * c + i) /\ (\E i \in Entries : m = 32 * c + i)
      <4>1. PICK i \in Entries, j \in Entries : l = 32 * c + i /\ m = 32 * c + j
        BY <3>6
      <4>2. i # j
        BY <2>15, <4>1
      <4>3. QED
        BY <1>12, <2>9, <4>1, <4>2
    <3>7. QED
      BY <2>4, <3>3, <3>4, <3>5, <3>6
  <2>16. /\ \A l \in Ram' : Entry(l)'.at \in Existing' \ Kept'
         /\ \A p \in Existing' \ Kept' : p < PhysAdr' => \E l \in Ram' : Entry(l)'.at = p
         /\ \A l \in Ram' : Entry(l)'.at < PhysAdr'
         /\ \A l, m \in Ram' : l # m => Entry(l)'.at # Entry(m)'.at
    BY ONLY <1>15, <2>1, <2>13, <2>14, <2>15
  <2>17. QED
    BY ONLY <1>2, <2>16 DEF RamInv
<1>28. QED
  BY <1>17, <1>18, <1>23, <1>25, <1>26, <1>27 DEF Inv

-----------------------------------------------------------------------------
(* The passes over the finished page tables *)

LEMMA LiesLower ==
  ASSUME NEW S, NEW low \in Int, NEW high, Lies(S, low, high), NEW lower \in Int, lower <= low
  PROVE  Lies(S, lower, high)
<1>1. \A k \in S : k.at \in Int /\ k.len \in Nat /\ k.at >= low /\ k.at + k.len <= high
  BY DEF Lies
<1>2. \A k \in S : k.at \in Int /\ k.len \in Nat /\ k.at >= lower /\ k.at + k.len <= high
  BY <1>1
<1>3. QED
  BY <1>2 DEF Lies

\* A pass changes nothing but the mode of the pages it is for.
LEMMA RemodeFacts ==
  ASSUME ShapeInv, NEW pages, NEW m \in Mode, pageTbl' = Remode(pages, m)
  PROVE  /\ DOMAIN pageTbl' = DOMAIN pageTbl
         /\ \A c \in DOMAIN pageTbl :
              /\ pageTbl'[c].at = pageTbl[c].at
              /\ pageTbl'[c] \in [at : Int, entry : [Entries -> Descriptors]]
              /\ \A i \in Entries :
                   pageTbl'[c].entry[i] =
                     IF c * 32 + i \in pages THEN Descriptor(pageTbl[c].entry[i].at, m)
                                             ELSE pageTbl[c].entry[i]
<1>1. DOMAIN pageTbl' = DOMAIN pageTbl
  BY DEF Remode
<1>2. ASSUME NEW c \in DOMAIN pageTbl
      PROVE  /\ pageTbl'[c].at = pageTbl[c].at
             /\ pageTbl'[c] \in [at : Int, entry : [Entries -> Descriptors]]
             /\ \A i \in Entries :
                  pageTbl'[c].entry[i] =
                    IF c * 32 + i \in pages THEN Descriptor(pageTbl[c].entry[i].at, m)
                                            ELSE pageTbl[c].entry[i]
  <2> DEFINE old == pageTbl[c].entry
             e == [i \in Entries |-> IF c * 32 + i \in pages
                                     THEN [old[i] EXCEPT !.mode = m] ELSE old[i]]
  <2>1. pageTbl[c] \in [at : Int, entry : [Entries -> Descriptors]]
    BY DEF ShapeInv
  <2>2. old \in [Entries -> Descriptors] /\ pageTbl[c].at \in Int
    BY <2>1
  <2>3. pageTbl'[c] = [pageTbl[c] EXCEPT !.entry = e]
    BY DEF Remode
  <2> HIDE DEF old
  <2>4. ASSUME NEW i \in Entries
        PROVE  [old[i] EXCEPT !.mode = m] = Descriptor(old[i].at, m)
    <3>1. old[i] \in Descriptors
      BY <2>2
    <3>2. QED
      BY <3>1 DEF Descriptor, Descriptors
  <2>5. \A i \in Entries :
          e[i] = IF c * 32 + i \in pages THEN Descriptor(old[i].at, m) ELSE old[i]
    BY <2>4
  <2>6. e \in [Entries -> Descriptors]
    <3>1. \A i \in Entries : e[i] \in Descriptors
      BY <2>2, <2>5 DEF Descriptor, Descriptors
    <3>2. DOMAIN e = Entries /\ e = [i \in Entries |-> e[i]]
      OBVIOUS
    <3> HIDE DEF e
    <3>3. QED
      BY <3>1, <3>2
  <2> HIDE DEF e
  <2>7. pageTbl'[c].at = pageTbl[c].at /\ pageTbl'[c].entry = e
        /\ pageTbl'[c] \in [at : Int, entry : [Entries -> Descriptors]]
    BY <2>1, <2>3, <2>6
  <2>8. QED
    BY <2>5, <2>7 DEF old
<1>3. QED
  BY <1>1, <1>2

\* All of the invariant behind a pass over pages that lie below the windows, but for what
\* the entries are.
LEMMA RemodeKeeps ==
  ASSUME Inv, NEW pages, NEW m \in Mode, pageTbl' = Remode(pages, m),
         UNCHANGED <<config, upper, pci, cursor>>,
         (pc = "uncache" /\ pc' = "done") \/ (pc = "done" /\ pc' = "locked"),
         \A l \in pages : l \in Int /\ l < 1984,
         log_phystop' \in Int, log_phystop' <= log_phystop,
         log_phystop' >= log_phystop - (IF pc = "done" THEN 0 ELSE 8191)
  PROVE  /\ ShapeInv' /\ AllocInv' /\ RoomInv' /\ MapInv' /\ DomainInv' /\ AliasInv'
         /\ RamInv' /\ Stage' \in {14, 15}
<1>1. /\ ShapeInv /\ AllocInv /\ RoomInv /\ MapInv /\ DomainInv /\ AliasInv /\ RamInv
      /\ log_phystop \in Int
  BY DEF Inv, ShapeInv
<1>2. /\ Stage \in {13, 14} /\ Stage' \in {14, 15} /\ Ready' /\ (Ready <=> pc = "done")
      /\ pc # "map" /\ pc' # "map" /\ pc' # "tos" /\ pc' # "vme"
  BY DEF Stage, Ready
<1>3. /\ stram_end' = stram_end /\ romport_emu' = romport_emu /\ types' = types
      /\ log_IOpage' = log_IOpage /\ phys_RootTbl' = phys_RootTbl
      /\ pointerTbl' = pointerTbl /\ pci' = pci /\ LogAdr' = LogAdr /\ PhysAdr' = PhysAdr
      /\ block' = block /\ log_ramtop' = log_ramtop
  BY DEF config, upper, cursor
<1>4. /\ DOMAIN pageTbl' = DOMAIN pageTbl
      /\ \A c \in DOMAIN pageTbl :
           /\ pageTbl'[c].at = pageTbl[c].at
           /\ pageTbl'[c] \in [at : Int, entry : [Entries -> Descriptors]]
           /\ \A i \in Entries :
                pageTbl'[c].entry[i] =
                  IF c * 32 + i \in pages THEN Descriptor(pageTbl[c].entry[i].at, m)
                                          ELSE pageTbl[c].entry[i]
  BY <1>1, RemodeFacts
<1>5. ShapeInv'
  BY <1>1, <1>2, <1>3, <1>4 DEF ShapeInv
<1>6. AllocInv'
  <2>1. Handed' = Handed
    <3>1. {[at |-> pageTbl'[c].at, len |-> 128] : c \in DOMAIN pageTbl'}
            = {[at |-> pageTbl[c].at, len |-> 128] : c \in DOMAIN pageTbl}
      BY <1>4
    <3>2. QED
      BY <1>3, <3>1 DEF Handed
  <2>2. Lies(Handed, log_phystop', stram_end * PageSize)
    BY <1>1, LiesLower DEF AllocInv
  <2>3. Lies(Handed, log_phystop, stram_end * PageSize)'
    BY <1>3, <2>1, <2>2
  <2>4. phys_RootTbl' # 0
    BY <1>1, <1>2, <1>3 DEF AllocInv
  <2>5. QED
    BY <1>1, <1>3, <1>4, <2>3, <2>4 DEF AllocInv
<1>7. RoomInv'
  <2> DEFINE P == Cardinality(DOMAIN pointerTbl)
             T == Cardinality(DOMAIN pageTbl)
             K == Cardinality(pci)
  <2>1. P \in Nat /\ T \in Nat /\ K \in Nat
    BY <1>1, FS_CardinalityType DEF RoomInv
  <2>2. log_phystop >= log_IOpage - (IF phys_RootTbl = 0 THEN 0 ELSE 1023)
                         - (1023 * P) - (255 * T) - (1807 * K)
                         - (IF pc = "done" THEN 8191 ELSE 0)
    BY <1>1, <1>2 DEF RoomInv
  <2>3. log_IOpage \in Int
    BY <1>1 DEF ShapeInv, PageSize
  <2> HIDE DEF P, T, K
  <2>4. log_phystop' >= log_IOpage - (IF phys_RootTbl = 0 THEN 0 ELSE 1023)
                          - (1023 * P) - (255 * T) - (1807 * K) - 8191
    <3>1. CASE pc = "done"
      <4>1. log_phystop' >= log_phystop
        BY <3>1, <1>1
      <4>2. QED
        BY <1>1, <2>1, <2>2, <2>3, <3>1, <4>1
    <3>2. CASE pc # "done"
      <4>1. log_phystop' >= log_phystop - 8191
        BY <3>2
      <4>2. QED
        BY <1>1, <2>1, <2>2, <2>3, <3>2, <4>1
    <3>3. QED
      BY <3>1, <3>2
  <2>5. QED
    BY <1>1, <1>2, <1>3, <1>4, <2>4 DEF RoomInv, P, T, K
<1>8. MapInv'
  BY <1>1, <1>2, <1>3 DEF MapInv
<1>9. DomainInv'
  <2>1. \A c : Memory(c)' <=> Memory(c)
    BY <1>3 DEF Memory
  <2>2. \A c : Window(c) => Window(c)'
    BY <1>2 DEF Window
  <2>3. QED
    BY <1>1, <1>4, <2>1, <2>2 DEF DomainInv
<1>10. AliasInv'
  <2>1. /\ 62 \in DOMAIN pageTbl /\ FFFC \in DOMAIN pageTbl
        /\ FFFA \in DOMAIN pageTbl /\ 63 \in DOMAIN pageTbl
        /\ \A i \in 16..31 : pageTbl[FFFA].entry[i] =
                               Descriptor(pageTbl[62].at + 4 * i, "indirect")
        /\ \A i \in 24..31 : pageTbl[63].entry[i] =
                               Descriptor(pageTbl[FFFC].at + 4 * i, "indirect")
    BY <1>1, <1>2 DEF AliasInv
  <2>2. \A i \in Entries : FFFA * 32 + i \notin pages /\ 63 * 32 + i \notin pages
    BY DEF FFFA, Entries
  <2>3. \A i \in 16..31 : i \in Entries
    BY DEF Entries
  <2>4. \A i \in 24..31 : i \in Entries
    BY DEF Entries
  <2>5. \A i \in 16..31 : pageTbl'[FFFA].entry[i] =
                            Descriptor(pageTbl'[62].at + 4 * i, "indirect")
    BY <1>4, <2>1, <2>2, <2>3
  <2>6. \A i \in 24..31 : pageTbl'[63].entry[i] =
                            Descriptor(pageTbl'[FFFC].at + 4 * i, "indirect")
    BY <1>4, <2>1, <2>2, <2>4
  <2>7. QED
    BY <1>4, <2>1, <2>5, <2>6 DEF AliasInv
<1>11. RamInv'
  <2>1. Ram' = Ram /\ Existing' = Existing /\ Kept' = Kept
    BY <1>3 DEF Ram, Existing, Exists, Kept
  <2>2. ASSUME NEW l \in Ram PROVE Entry(l)'.at = Entry(l).at
    <3>1. Memory(l \div 32) /\ l \div 32 \in Nat /\ l % 32 \in Entries
      BY <1>1, RamChunk
    <3>2. l \div 32 \in DOMAIN pageTbl
      BY <1>1, <3>1 DEF DomainInv
    <3>3. \A e, f : f = Descriptor(e.at, m) => f.at = e.at
      BY DEF Descriptor
    <3>4. pageTbl'[l \div 32].entry[l % 32].at = pageTbl[l \div 32].entry[l % 32].at
      BY <1>4, <3>1, <3>2, <3>3
    <3>5. QED
      BY <3>4 DEF Entry
  <2>3. /\ \A l \in Ram : Entry(l).at \in Existing \ Kept
        /\ \A p \in Existing \ Kept : \E l \in Ram : Entry(l).at = p
        /\ \A l, k \in Ram : l # k => Entry(l).at # Entry(k).at
    BY <1>1, <1>2 DEF RamInv
  <2>4. /\ \A l \in Ram' : Entry(l)'.at \in Existing' \ Kept'
        /\ \A p \in Existing' \ Kept' : \E l \in Ram' : Entry(l)'.at = p
        /\ \A l, k \in Ram' : l # k => Entry(l)'.at # Entry(k)'.at
    BY ONLY <2>1, <2>2, <2>3
  <2>5. QED
    BY ONLY <1>2, <2>4 DEF RamInv
<1>12. QED
  BY <1>2, <1>5, <1>6, <1>7, <1>8, <1>9, <1>10, <1>11

LEMMA UncacheKeeps == Inv /\ Uncache => Inv'
<1> SUFFICES ASSUME Inv, Uncache PROVE Inv'
  OBVIOUS
<1>1. /\ pc = "uncache" /\ pc' = "done" /\ UNCHANGED <<config, upper, pci, cursor>>
      /\ log_phystop' = (log_phystop \div PageSize) * PageSize
      /\ stram_end' = stram_end /\ romport_emu' = romport_emu
  BY DEF Uncache, config
<1>2. /\ ShapeInv /\ EntryInv /\ log_phystop \in Int /\ stram_end \in {1792, 1024, 512}
      /\ romport_emu \in BOOLEAN
  BY DEF Inv, ShapeInv
<1>3. PICK low : low = log_phystop'
  OBVIOUS
<1>4. low \in Int /\ low <= log_phystop /\ low >= log_phystop - 8191 /\ low % 8192 = 0
  BY <1>1, <1>2, <1>3 DEF PageSize
<1>5. PICK first : first = low \div PageSize
  OBVIOUS
<1>6. first \in Int
  BY <1>4, <1>5 DEF PageSize
<1>7. PICK pages : pages = first..stram_end - 1
  OBVIOUS
<1>8. pageTbl' = Remode(pages, "table") /\ "table" \in Mode
  BY <1>3, <1>5, <1>7 DEF Uncache, Mode
<1>9. \A l : l \in pages <=> l \in Int /\ l >= first /\ l < stram_end
  BY <1>2, <1>6, <1>7
<1>10. \A l \in pages : l \in Int /\ l < 1984
  BY <1>2, <1>9
<1>11. /\ ShapeInv' /\ AllocInv' /\ RoomInv' /\ MapInv' /\ DomainInv' /\ AliasInv'
       /\ RamInv' /\ Stage' \in {14, 15}
  <2>1. log_phystop' \in Int /\ log_phystop' <= log_phystop
        /\ log_phystop' >= log_phystop - (IF pc = "done" THEN 0 ELSE 8191)
    BY <1>1, <1>3, <1>4
  <2>2. /\ UNCHANGED <<config, upper, pci, cursor>>
        /\ (pc = "uncache" /\ pc' = "done") \/ (pc = "done" /\ pc' = "locked")
    BY <1>1
  <2>3. QED
    BY ONLY Inv, <1>8, <1>10, <2>1, <2>2, RemodeKeeps
<1>12. /\ DOMAIN pageTbl' = DOMAIN pageTbl
       /\ \A c \in DOMAIN pageTbl : \A i \in Entries :
            pageTbl'[c].entry[i] =
              IF c * 32 + i \in pages THEN Descriptor(pageTbl[c].entry[i].at, "table")
                                      ELSE pageTbl[c].entry[i]
  BY <1>2, <1>8, RemodeFacts
<1>13. ASSUME NEW c \in DOMAIN pageTbl', NEW i \in Entries
       PROVE  EntryOK(c, i, pageTbl[c].entry[i])'
  <2>1. c \in DOMAIN pageTbl /\ c \in Nat /\ i \in Nat /\ i < 32
    <3>1. c \in DOMAIN pageTbl /\ c \in Chunks
      BY <1>2, <1>12 DEF ShapeInv
    <3>2. c \in Nat
      BY <3>1, ChunksAreNumbers
    <3>3. i \in 0..31
      BY DEF Entries
    <3>4. i \in Nat /\ i < 32
      BY ONLY <3>3
    <3>5. QED
      BY <3>1, <3>2, <3>4
  <2>2. PICK e : e = pageTbl[c].entry[i]
    OBVIOUS
  <2>3. PICK f : f = pageTbl'[c].entry[i]
    OBVIOUS
  <2>4. ~Ready /\ Ready'
    BY <1>1 DEF Ready
  <2>5. EntryOK(c, i, e)
    BY <1>2, <2>1, <2>2 DEF EntryInv
  <2>6. f = IF c * 32 + i \in pages THEN Descriptor(e.at, "table") ELSE e
    BY <1>12, <2>1, <2>2, <2>3
  <2>7. PICK l : l = 32 * c + i
    OBVIOUS
  <2>8. l \in Nat /\ c * 32 + i = l
    BY <2>1, <2>7
  <2>9. CASE l < stram_end
    <3>1. e = Descriptor(l, "ram")
      BY <2>4, <2>5, <2>7, <2>9 DEF EntryOK
    <3>2. f = Descriptor(l, IF l >= first THEN "table" ELSE "ram")
      <4>1. e.at = l
        BY <3>1 DEF Descriptor
      <4>2. l \in pages <=> l >= first
        BY <1>9, <2>8, <2>9
      <4>3. QED
        BY <2>6, <2>8, <3>1, <4>1, <4>2
    <3>3. f.at = l /\ f.mode # "none" /\ l \notin Tos..Tos + TosLen - 1
          /\ l \notin RomPort..RomPort + RomPortLen - 1
      BY <1>2, <2>8, <2>9, <3>2 DEF Descriptor, Tos, RomPort
    <3>4. c \notin 64..2111 /\ c \notin {56, 57}
      <4>1. 32 * c + i < 1792
        BY <1>2, <2>1, <2>7, <2>9
      <4>2. c \in Nat /\ i \in Nat
        BY <2>1
      <4>3. c < 56
        BY ONLY <4>1, <4>2
      <4>4. c \notin 64..2111
        BY ONLY <4>2, <4>3
      <4>5. c \notin {56, 57}
        BY ONLY <4>2, <4>3
      <4>6. QED
        BY ONLY <4>4, <4>5, PTL
    <3>5. EntryOK(c, i, f)'
      BY ONLY <1>3, <1>5, <2>4, <2>7, <3>2, <3>3, <3>4 DEF EntryOK
    <3>6. QED
      BY <2>3, <3>5 DEF EntryOK
  <2>10. CASE ~(l < stram_end)
    <3>1. f = e
      BY <1>9, <2>6, <2>8, <2>10
    <3>2. EntryOK(c, i, e)'
      BY <1>1, <2>5, <2>7, <2>10 DEF EntryOK
    <3>3. QED
      BY <2>3, <3>1, <3>2 DEF EntryOK
  <2>11. QED
    BY <2>9, <2>10
<1>14. EntryInv'
  BY <1>11, <1>13 DEF EntryInv
<1>15. QED
  BY <1>11, <1>14 DEF Inv

LEMMA LockTosKeeps == Inv /\ LockTos => Inv'
<1> SUFFICES ASSUME Inv, LockTos PROVE Inv'
  OBVIOUS
<1>1. /\ pc = "done" /\ pc' = "locked" /\ UNCHANGED <<config, upper, pci, cursor>>
      /\ log_phystop' = log_phystop /\ stram_end' = stram_end /\ romport_emu' = romport_emu
  BY DEF LockTos, config
<1>2. ShapeInv /\ EntryInv /\ log_phystop \in Int
  BY DEF Inv, ShapeInv
<1>3. PICK pages : pages = Tos..Tos + TosLen - 1
  OBVIOUS
<1>4. pageTbl' = Remode(pages, "tos") /\ "tos" \in Mode
  BY <1>3 DEF LockTos, Mode
<1>5. \A l \in pages : l \in Int /\ l < 1984 /\ l >= 1792 /\ l < 1856
  BY <1>3 DEF Tos, TosLen
<1>6. /\ ShapeInv' /\ AllocInv' /\ RoomInv' /\ MapInv' /\ DomainInv' /\ AliasInv'
      /\ RamInv' /\ Stage' \in {14, 15}
  <2>1. log_phystop' \in Int /\ log_phystop' <= log_phystop
        /\ log_phystop' >= log_phystop - (IF pc = "done" THEN 0 ELSE 8191)
    BY <1>1, <1>2
  <2>2. QED
    BY <1>1, <1>4, <1>5, <2>1, RemodeKeeps
<1>7. /\ DOMAIN pageTbl' = DOMAIN pageTbl
      /\ \A c \in DOMAIN pageTbl : \A i \in Entries :
           pageTbl'[c].entry[i] =
             IF c * 32 + i \in pages THEN Descriptor(pageTbl[c].entry[i].at, "tos")
                                     ELSE pageTbl[c].entry[i]
  BY <1>2, <1>4, RemodeFacts
<1>8. ASSUME NEW c \in DOMAIN pageTbl', NEW i \in Entries
      PROVE  EntryOK(c, i, pageTbl[c].entry[i])'
  <2>1. c \in DOMAIN pageTbl /\ c \in Nat /\ i \in Nat /\ i < 32
    <3>1. c \in DOMAIN pageTbl /\ c \in Chunks
      BY <1>2, <1>7 DEF ShapeInv
    <3>2. c \in Nat
      BY <3>1, ChunksAreNumbers
    <3>3. i \in 0..31
      BY DEF Entries
    <3>4. i \in Nat /\ i < 32
      BY ONLY <3>3
    <3>5. QED
      BY <3>1, <3>2, <3>4
  <2>2. PICK e : e = pageTbl[c].entry[i]
    OBVIOUS
  <2>3. EntryOK(c, i, e)
    BY <1>2, <2>1, <2>2 DEF EntryInv
  <2>4. pageTbl'[c].entry[i] = e
    <3>1. CASE c * 32 + i \in pages
      <4>1. c \in {56, 57} /\ 32 * c + i = c * 32 + i
        BY <1>5, <2>1, <3>1
      <4>2. e = Descriptor(32 * c + i, "tos")
        BY <2>3, <4>1 DEF EntryOK
      <4>3. Descriptor(e.at, "tos") = e
        BY <4>2 DEF Descriptor
      <4>4. QED
        BY <1>7, <2>1, <2>2, <3>1, <4>3
    <3>2. CASE c * 32 + i \notin pages
      BY <1>7, <2>1, <2>2, <3>2
    <3>3. QED
      BY <3>1, <3>2
  <2>5. EntryOK(c, i, e)'
    BY <1>1, <2>3 DEF EntryOK, Ready
  <2>6. QED
    BY <2>4, <2>5 DEF EntryOK
<1>9. EntryInv'
  BY <1>6, <1>8 DEF EntryInv
<1>10. QED
  BY <1>6, <1>9 DEF Inv

-----------------------------------------------------------------------------
(* The invariant holds *)

LEMMA InitHolds == Init => Inv
<1> SUFFICES ASSUME Init PROVE Inv
  OBVIOUS
<1>1. /\ pc = "map" /\ stram_end \in {1792, 1024, 512} /\ romport_emu \in BOOLEAN
      /\ types \in Types /\ phys_RootTbl = 0 /\ DOMAIN pointerTbl = {} /\ DOMAIN pageTbl = {}
      /\ pci = {} /\ LogAdr = 0 /\ PhysAdr = 0 /\ block = 0 /\ log_ramtop = 0
  BY DEF Init
<1>2. /\ log_IOpage = (stram_end * PageSize) - PageSize /\ log_phystop = log_IOpage
      /\ log_IOpage \in Int /\ stram_end * PageSize \in Int
      /\ log_IOpage + PageSize = stram_end * PageSize
  <2>1. log_IOpage = (((stram_end * 8192) - 8192 + 0) \div 8192) * 8192
        /\ log_phystop = log_IOpage
    BY <1>1 DEF Init, Kmalloc, PageSize
  <2>2. log_IOpage = (stram_end * 8192) - 8192
    <3>1. CASE stram_end = 1792
      BY <2>1, <3>1
    <3>2. CASE stram_end = 1024
      BY <2>1, <3>2
    <3>3. CASE stram_end = 512
      BY <2>1, <3>3
    <3>4. QED
      BY <1>1, <3>1, <3>2, <3>3
  <2>3. QED
    BY <1>1, <2>1, <2>2 DEF PageSize
<1>3. ShapeInv
  BY <1>1, <1>2 DEF ShapeInv
<1>4. Handed = {[at |-> log_IOpage, len |-> PageSize]}
  BY <1>1 DEF Handed
<1>5. AllocInv
  <2> DEFINE k == [at |-> log_IOpage, len |-> PageSize]
  <2>1. k.at = log_IOpage /\ k.len = PageSize /\ PageSize \in Nat
    BY DEF PageSize
  <2> HIDE DEF k
  <2>2. Handed = {k}
    BY <1>4 DEF k
  <2>3. Lies(Handed, log_phystop, stram_end * PageSize)
    BY <1>2, <2>1, <2>2 DEF Lies
  <2>4. QED
    BY <1>1, <2>3 DEF AllocInv
<1>6. RoomInv
  <2>1. IsFiniteSet({}) /\ Cardinality({}) = 0
    BY FS_EmptySet
  <2>2. 0 <= MaxPci
    BY PciAssumption
  <2>3. log_phystop >= log_IOpage - 0 - (1023 * 0) - (255 * 0) - (1807 * 0) - 0
    BY <1>2
  <2>4. ~Ready
    BY <1>1 DEF Ready
  <2>5. QED
    BY <1>1, <2>1, <2>2, <2>3, <2>4 DEF RoomInv
<1>7. MapInv
  <2>1. 0 \in 0..3
    OBVIOUS
  <2>2. Exists(0) /\ 0 \in 0..NSlots * 16 - 1
    BY <1>3, <2>1, FirstBlocks
  <2>3. QED
    BY <1>1, <2>2 DEF MapInv, M4
<1>8. Stage = 0
  BY <1>1 DEF Stage
<1>9. DomainInv
  BY <1>1 DEF DomainInv, Memory
<1>10. EntryInv /\ AliasInv
  BY <1>1, <1>8 DEF EntryInv, AliasInv
<1>11. RamInv
  <2>1. Ram = {}
    BY <1>1 DEF Ram
  <2>2. Existing \subseteq Nat
    BY NSlotsAssumption DEF Existing
  <2>3. \A p \in Existing : ~(p < PhysAdr)
    BY <1>1, <2>2
  <2>4. QED
    BY <1>1, <2>1, <2>3 DEF RamInv
<1>12. QED
  BY <1>3, <1>5, <1>6, <1>7, <1>9, <1>10, <1>11 DEF Inv

\* A step in which nothing happens.
LEMMA StutterKeeps == Inv /\ UNCHANGED vars => Inv'
<1> SUFFICES ASSUME Inv, UNCHANGED vars PROVE Inv'
  OBVIOUS
<1>1. /\ pc' = pc /\ stram_end' = stram_end /\ romport_emu' = romport_emu /\ types' = types
      /\ log_phystop' = log_phystop /\ log_IOpage' = log_IOpage
      /\ phys_RootTbl' = phys_RootTbl /\ pointerTbl' = pointerTbl /\ pageTbl' = pageTbl
      /\ pci' = pci /\ LogAdr' = LogAdr /\ PhysAdr' = PhysAdr /\ block' = block
      /\ log_ramtop' = log_ramtop
  BY DEF vars, config, upper, cursor
<1>2. ShapeInv' /\ AllocInv' /\ RoomInv' /\ MapInv'
  BY <1>1 DEF Inv, ShapeInv, AllocInv, RoomInv, MapInv, Handed, Ready, Exists
<1>3. DomainInv' /\ EntryInv' /\ AliasInv'
  <2>1. Stage' = Stage
    BY <1>1 DEF Stage
  <2>2. DomainInv'
    BY <1>1, <2>1 DEF Inv, DomainInv, Memory, Window
  <2>3. EntryInv'
    BY <1>1, <2>1 DEF Inv, EntryInv, EntryOK, Ready
  <2>4. AliasInv'
    BY <1>1, <2>1 DEF Inv, AliasInv
  <2>5. QED
    BY <2>2, <2>3, <2>4
<1>4. RamInv'
  BY <1>1 DEF Inv, RamInv, Ram, Existing, Kept, Exists, Entry
<1>5. QED
  BY <1>2, <1>3, <1>4 DEF Inv

\* Init_PMMU keeps the invariant of its allocator, of its mapping and of its page tables.
THEOREM Inductive == Spec => []Inv
<1>1. Init => Inv
  BY InitHolds
<1>2. Inv /\ [Next]_vars => Inv'
  <2> SUFFICES ASSUME Inv, [Next]_vars PROVE Inv'
    OBVIOUS
  <2>1. CASE MapChunk
    BY <2>1, MapChunkKeeps
  <2>2. CASE NextBlock
    BY <2>2, NextBlockKeeps
  <2>3. CASE MapTos
    BY <2>3, TosKeeps
  <2>4. CASE MapRomPort
    BY <2>4, PortKeeps
  <2>5. CASE MapRomPortAlias
    BY <2>5, PortAliasKeeps
  <2>6. CASE MapEmu
    BY <2>6, EmuKeeps
  <2>7. CASE MapIo
    BY <2>7, IoKeeps
  <2>8. CASE MapIoAlias
    BY <2>8, IoAliasKeeps
  <2>9. CASE MapPciIo
    BY <2>9, PciIoKeeps
  <2>10. CASE MapPciAck
    BY <2>10, PciAckKeeps
  <2>11. CASE PciKmalloc
    BY <2>11, PciKmallocKeeps
  <2>12. CASE PciDone
    BY <2>12, PciDoneKeeps
  <2>13. CASE MapVme
    BY <2>13, VmeKeeps
  <2>14. CASE MapVmeAck
    BY <2>14, VmeAckKeeps
  <2>15. CASE MapVmeDsp
    BY <2>15, VmeDspKeeps
  <2>16. CASE Uncache
    BY <2>16, UncacheKeeps
  <2>17. CASE LockTos
    BY <2>17, LockTosKeeps
  <2>18. CASE UNCHANGED vars
    BY <2>18, StutterKeeps
  <2>19. QED
    BY <2>1, <2>2, <2>3, <2>4, <2>5, <2>6, <2>7, <2>8, <2>9, <2>10, <2>11, <2>12, <2>13,
       <2>14, <2>15, <2>16, <2>17, <2>18 DEF Next
<1>3. QED
  BY <1>1, <1>2, PTL DEF Spec

-----------------------------------------------------------------------------
(* What follows from it *)

\* Behind the mapping there is a root table, and what was handed out are the regions.
LEMMA RegionsFacts ==
  ASSUME Inv, Ready
  PROVE  Regions = Handed /\ phys_RootTbl # 0 /\ pc # "map" /\ Stage \in {14, 15}
<1>1. pc # "map" /\ Stage \in {14, 15}
  BY DEF Ready, Stage
<1>2. phys_RootTbl # 0
  BY <1>1 DEF Inv, AllocInv
<1>3. Regions = Handed
  BY <1>2 DEF Regions, Handed
<1>4. QED
  BY <1>1, <1>2, <1>3

\* The addresses of what was handed out are above the first megabyte.
LEMMA HandedFacts ==
  ASSUME Inv, NEW k \in Handed
  PROVE  /\ k.at \in Nat /\ k.len \in Nat /\ k.at >= log_phystop
         /\ k.at + k.len <= stram_end * PageSize
<1>1. k.at \in Int /\ k.len \in Nat /\ k.at >= log_phystop
      /\ k.at + k.len <= stram_end * PageSize
  BY DEF Inv, AllocInv, Lies
<1>2. log_phystop >= 1048576 /\ log_phystop \in Int
  BY RoomFacts DEF Inv, ShapeInv
<1>3. QED
  BY <1>1, <1>2

\* Every table and every counter of Init_PMMU has its type, whatever banks there are; the
\* allocator never falls below the memory.
THEOREM TypeCorrect == Spec => []TypeOK
<1>1. ASSUME Inv PROVE TypeOK
  <2>1. ShapeInv /\ MapInv
    BY <1>1 DEF Inv
  <2>2. log_phystop \in Nat
    BY <1>1, RoomFacts DEF Inv, ShapeInv
  <2>3. log_IOpage \in Nat
    <3>1. [at |-> log_IOpage, len |-> PageSize] \in Handed
      BY DEF Handed
    <3>2. QED
      BY <1>1, <3>1, HandedFacts
  <2>4. phys_RootTbl \in Nat
    <3>1. phys_RootTbl # 0 => [at |-> phys_RootTbl, len |-> 512] \in Handed
      BY DEF Handed
    <3>2. QED
      BY <1>1, <3>1, HandedFacts
  <2>5. \A r \in DOMAIN pointerTbl : r \in 0..127 /\ pointerTbl[r] \in Nat
    <3>1. \A r \in DOMAIN pointerTbl : [at |-> pointerTbl[r], len |-> 512] \in Handed
      BY DEF Handed
    <3>2. ASSUME NEW r \in DOMAIN pointerTbl PROVE pointerTbl[r] \in Nat
      <4>1. PICK k \in Handed : k = [at |-> pointerTbl[r], len |-> 512]
        BY <3>1
      <4>2. k.at \in Nat
        BY <1>1, HandedFacts
      <4>3. QED
        BY <4>1, <4>2
    <3>3. QED
      BY <2>1, <3>2 DEF ShapeInv
  <2>6. ASSUME NEW c \in DOMAIN pageTbl
        PROVE  /\ c \in 0..16383 /\ pageTbl[c].at \in Nat
               /\ \A i \in Entries : /\ pageTbl[c].entry[i].at \in Nat
                                     /\ pageTbl[c].entry[i].mode \in Mode \cup {"none"}
    <3>1. [at |-> pageTbl[c].at, len |-> 128] \in Handed
      BY DEF Handed
    <3>2. pageTbl[c].at \in Nat
      BY <1>1, <3>1, HandedFacts
    <3>3. c \in Chunks /\ pageTbl[c] \in [at : Int, entry : [Entries -> Descriptors]]
      BY <2>1 DEF ShapeInv
    <3>4. c \in 0..16383
      BY <3>3 DEF Chunks
    <3>5. \A i \in Entries : pageTbl[c].entry[i] \in Descriptors
      BY <3>3
    <3>6. \A e \in Descriptors : e.at \in Nat /\ e.mode \in Mode \cup {"none"}
      BY DEF Descriptors
    <3>7. \A i \in Entries : /\ pageTbl[c].entry[i].at \in Nat
                             /\ pageTbl[c].entry[i].mode \in Mode \cup {"none"}
      BY ONLY <3>5, <3>6
    <3>8. QED
      BY ONLY <3>2, <3>4, <3>7, PTL
  <2>7. ASSUME NEW k \in pci PROVE k.at \in Nat /\ k.len \in PciAmounts
    <3>1. k \in Handed
      BY DEF Handed
    <3>2. k \in [at : Int, len : PciAmounts]
      BY <2>1 DEF ShapeInv
    <3>3. QED
      BY <1>1, <3>1, <3>2, HandedFacts
  <2>8. LogAdr \in Nat /\ PhysAdr \in Nat /\ block \in 0..NSlots * 16 - 1 /\ log_ramtop \in Nat
    BY <2>1 DEF MapInv
  <2>9. /\ pc \in {"map", "tos", "port", "port_alias", "emu", "io", "io_alias", "pci_io",
                   "pci_ack", "pci", "vme", "vme_ack", "vme_dsp", "uncache", "done", "locked"}
        /\ stram_end \in {1792, 1024, 512} /\ romport_emu \in BOOLEAN /\ types \in Types
    BY <2>1 DEF ShapeInv
  <2>10. QED
    BY <2>2, <2>3, <2>4, <2>5, <2>6, <2>7, <2>8, <2>9 DEF TypeOK
<1>2. QED
  BY <1>1, Inductive, PTL

\* The MMU's tables and the PCI setup's memory share no byte, whatever the banks and however
\* often the PCI setup asks for memory.
THEOREM TablesStayApart == Spec => []TablesApart
<1>1. ASSUME Inv PROVE TablesApart
  <2> SUFFICES ASSUME Ready
               PROVE  /\ \A k \in Regions : k.at >= log_phystop
                                            /\ k.at + k.len <= stram_end * PageSize
                      /\ \A k, m \in Regions :
                           k # m => k.at + k.len <= m.at \/ m.at + m.len <= k.at
                      /\ phys_RootTbl % 512 = 0
                      /\ \A r \in DOMAIN pointerTbl : pointerTbl[r] % 512 = 0
                      /\ \A c \in DOMAIN pageTbl : pageTbl[c].at % 128 = 0
    BY DEF TablesApart
  <2>1. Regions = Handed
    BY <1>1, RegionsFacts
  <2>2. QED
    BY <1>1, <2>1 DEF Inv, AllocInv, Lies
<1>2. QED
  BY <1>1, Inductive, PTL

\* When the MMU is switched on, nothing the allocator gave away is seen through the cache.
THEOREM TablesStayUncached == Spec => []TablesUncached
<1>1. ASSUME Inv PROVE TablesUncached
  <2> SUFFICES ASSUME Ready, NEW k \in Regions,
                      NEW l \in k.at \div PageSize..(k.at + k.len - 1) \div PageSize
               PROVE  Mapped(l) /\ Entry(l) = Descriptor(l, "table")
    BY DEF TablesUncached
  <2>1. k \in Handed /\ pc # "map"
    BY <1>1, RegionsFacts
  <2>2. PICK a, n, low : a = k.at /\ n = k.len /\ low = log_phystop
    OBVIOUS
  <2>3. /\ a \in Nat /\ n \in Nat /\ a >= low /\ a + n <= stram_end * 8192
        /\ stram_end \in {1792, 1024, 512} /\ low \in Int
    BY <1>1, <2>1, <2>2, HandedFacts DEF PageSize, Inv, ShapeInv
  <2>4. l \in a \div 8192..(a + n - 1) \div 8192
    BY <2>2 DEF PageSize
  <2>5. l \in Nat /\ l < stram_end /\ l >= low \div 8192
    <3>1. l \in Int /\ l >= a \div 8192 /\ l <= (a + n - 1) \div 8192
      BY <2>3, <2>4
    <3>2. (a + n - 1) \div 8192 < stram_end
      BY <2>3
    <3>3. a \div 8192 >= 0 /\ a \div 8192 >= low \div 8192
      BY <2>3
    <3>4. PICK x, y, z : x = a \div 8192 /\ y = (a + n - 1) \div 8192 /\ z = low \div 8192
      OBVIOUS
    <3>5. x \in Int /\ y \in Int /\ z \in Int
      BY <2>3, <3>4
    <3>6. QED
      BY <2>3, <3>1, <3>2, <3>3, <3>4, <3>5
  <2>6. LogAdr \in Nat /\ LogAdr >= 2048 /\ l \in Ram
    <3>1. LogAdr \in Nat /\ LogAdr >= 2048
      BY <1>1, <2>1 DEF Inv, MapInv, M16
    <3>2. QED
      BY <2>3, <2>5, <3>1 DEF Ram
  <2>7. l \div 32 \in DOMAIN pageTbl /\ l % 32 \in Entries
    <3>1. Memory(l \div 32) /\ l % 32 \in Entries /\ l \div 32 \in Nat
      BY <1>1, <2>6, RamChunk DEF Inv
    <3>2. QED
      BY <1>1, <3>1 DEF Inv, DomainInv
  <2>8. PICK c, i : c = l \div 32 /\ i = l % 32
    OBVIOUS
  <2>9. 32 * c + i = l
    BY <2>5, <2>8
  <2>10. EntryOK(c, i, pageTbl[c].entry[i])
    BY <1>1, <2>7, <2>8 DEF Inv, EntryInv
  <2>11. pageTbl[c].entry[i] = Descriptor(l, "table")
    <3>1. l < stram_end /\ l >= log_phystop \div PageSize
      BY <2>2, <2>5 DEF PageSize
    <3>2. QED
      BY <2>9, <2>10, <3>1 DEF EntryOK
  <2>12. Descriptor(l, "table") # None
    BY DEF Descriptor, None
  <2>13. QED
    BY <2>7, <2>8, <2>11, <2>12 DEF Mapped, Entry
<1>2. QED
  BY <1>1, Inductive, PTL

\* No window, no bank and no pass over the tables leaves the TOS or the ROM port's memory
\* writable anywhere.
THEOREM TosStaysProtected == Spec => []TosIsProtected
<1>1. ASSUME Inv PROVE TosIsProtected
  <2> SUFFICES ASSUME Ready, NEW c \in DOMAIN pageTbl, NEW i \in Entries
               PROVE  LET e == pageTbl[c].entry[i]
                      IN  /\ (e.mode # "indirect" /\ e # None
                                /\ e.at \in Tos..Tos + TosLen - 1) =>
                               e = Descriptor(c * 32 + i, "tos")
                          /\ (romport_emu /\ e.at \in RomPort..RomPort + RomPortLen - 1) =>
                               e.mode \in {"port", "emu", "indirect"}
    BY DEF TosIsProtected
  <2>1. PICK e : e = pageTbl[c].entry[i]
    OBVIOUS
  <2>2. EntryOK(c, i, e)
    BY <1>1, <2>1 DEF Inv, EntryInv
  <2>3. c * 32 + i = 32 * c + i
    <3>1. c \in Chunks
      BY <1>1 DEF Inv, ShapeInv
    <3>2. QED
      BY <3>1 DEF Chunks, Entries
  <2>4. QED
    BY <2>1, <2>2, <2>3 DEF EntryOK
<1>2. QED
  BY <1>1, Inductive, PTL

\* An indirect descriptor at entry i of a page table leads there and nowhere else.
LEMMA TargetFacts ==
  ASSUME Inv, NEW c \in DOMAIN pageTbl, NEW i \in Entries,
         NEW e, e = Descriptor(pageTbl[c].at + 4 * i, "indirect")
  PROVE  Target(e) = pageTbl[c].entry[i]
<1>1. \A d \in DOMAIN pageTbl : pageTbl[d].at \in Nat
                                /\ [at |-> pageTbl[d].at, len |-> 128] \in Handed
  <2> SUFFICES ASSUME NEW d \in DOMAIN pageTbl
               PROVE  pageTbl[d].at \in Nat /\ [at |-> pageTbl[d].at, len |-> 128] \in Handed
    OBVIOUS
  <2>1. [at |-> pageTbl[d].at, len |-> 128] \in Handed
    BY DEF Handed
  <2>2. QED
    BY <2>1, HandedFacts
<1>2. PICK a : a = pageTbl[c].at
  OBVIOUS
<1>3. a \in Nat /\ i \in Nat /\ i < 32 /\ e.at = a + 4 * i
  <2>1. a \in Nat /\ i \in Nat /\ i < 32
    <3>1. i \in 0..31
      BY DEF Entries
    <3>2. i \in Nat /\ i < 32
      BY <3>1
    <3>3. QED
      BY <1>1, <1>2, <3>2
  <2>2. e = Descriptor(a + 4 * i, "indirect")
    BY <1>2
  <2>3. QED
    BY <2>1, <2>2 DEF Descriptor
<1>4. e.at \in pageTbl[c].at..pageTbl[c].at + 127
  BY <1>2, <1>3
<1>5. ASSUME NEW d \in DOMAIN pageTbl, e.at \in pageTbl[d].at..pageTbl[d].at + 127
      PROVE  d = c
  <2> SUFFICES ASSUME d # c PROVE FALSE
    OBVIOUS
  <2>1. PICK b : b = pageTbl[d].at
    OBVIOUS
  <2>2. b \in Nat /\ a # b /\ e.at >= b /\ e.at <= b + 127
    <3>1. a # b
      BY <1>2, <2>1 DEF Inv, AllocInv
    <3>2. b \in Nat
      BY <1>1, <2>1
    <3>3. e.at \in b..b + 127
      BY <1>5, <2>1
    <3>4. QED
      BY <1>3, <3>1, <3>2, <3>3
  <2>3. PICK k \in Handed, m \in Handed : k = [at |-> a, len |-> 128]
                                         /\ m = [at |-> b, len |-> 128]
    BY <1>1, <1>2, <2>1
  <2>4. k.at = a /\ m.at = b /\ k.len = 128 /\ m.len = 128
    BY <2>3
  <2>5. k.at + k.len <= m.at \/ m.at + m.len <= k.at
    BY <2>2, <2>4 DEF Inv, AllocInv, Lies
  <2>6. QED
    BY <1>3, <2>2, <2>4, <2>5
<1>6. (CHOOSE d \in DOMAIN pageTbl : e.at \in pageTbl[d].at..pageTbl[d].at + 127) = c
  BY <1>4, <1>5
<1>7. (e.at - pageTbl[c].at) \div 4 = i
  BY <1>2, <1>3
<1>8. QED
  BY <1>6, <1>7 DEF Target

\* The short addresses of the I/O area and of the ROM port show what the long ones show, also
\* behind the changes for a VME card.
THEOREM AliasesStay == Spec => []AliasesAgree
<1>1. ASSUME Inv PROVE AliasesAgree
  <2> SUFFICES ASSUME Ready
        PROVE  /\ \A i \in 24..31 : Target(pageTbl[63].entry[i]) = pageTbl[FFFC].entry[i]
               /\ \A i \in 16..31 : Target(pageTbl[FFFA].entry[i]) = pageTbl[62].entry[i]
    BY DEF AliasesAgree
  <2>1. Stage \in {14, 15}
    BY <1>1, RegionsFacts
  <2>2. /\ 62 \in DOMAIN pageTbl /\ FFFC \in DOMAIN pageTbl
        /\ \A i \in 16..31 : pageTbl[FFFA].entry[i] =
                               Descriptor(pageTbl[62].at + 4 * i, "indirect")
        /\ \A i \in 24..31 : pageTbl[63].entry[i] =
                               Descriptor(pageTbl[FFFC].at + 4 * i, "indirect")
    BY <1>1, <2>1 DEF Inv, AliasInv
  <2>3. (\A i \in 24..31 : i \in Entries) /\ (\A i \in 16..31 : i \in Entries)
    BY DEF Entries
  <2>4. QED
    BY <1>1, <2>2, <2>3, TargetFacts
<1>2. QED
  BY <1>1, Inductive, PTL

\* Every page of every bank is main memory at one address, but for the TOS area and the ROM
\* port's memory, and the logical memory has no holes.
THEOREM RamStaysWhole == Spec => []RamIsWhole
<1>1. ASSUME Inv PROVE RamIsWhole
  <2> SUFFICES ASSUME Ready
               PROVE  /\ \A l \in RamPages : Mapped(l) /\ Entry(l).mode \in {"ram", "table"}
                      /\ \A l \in 0..stram_end - 1 : Entry(l).at = l
                      /\ {Entry(l).at : l \in RamPages} = Existing \ Kept
                      /\ Cardinality(RamPages) = Cardinality(Existing \ Kept)
    BY DEF RamIsWhole, Existing, Kept
  <2>1. pc # "map" /\ ShapeInv /\ MapInv
    BY <1>1, RegionsFacts DEF Inv
  <2>2. /\ stram_end \in {1792, 1024, 512} /\ LogAdr \in Nat /\ LogAdr >= 2048
        /\ log_ramtop = LogAdr /\ LogAdr <= 67072
    BY <2>1 DEF ShapeInv, MapInv, M16
  <2>3. RamPages = Ram
    <3>1. \A l : l \in RamPages <=> l \in 0..stram_end - 1 \/ l \in 2048..LogAdr - 1
      BY <2>2 DEF RamPages, M16
    <3>2. \A l : l \in Ram <=> l \in Nat /\ l < LogAdr /\ (l < stram_end \/ l >= 2048)
      BY DEF Ram, M16
    <3>3. \A l : l \in RamPages <=> l \in Ram
      BY <2>2, <3>1, <3>2
    <3>4. QED
      BY <3>3
  <2>4. ASSUME NEW l \in Ram
        PROVE  /\ Mapped(l) /\ Entry(l).mode \in {"ram", "table"}
               /\ l < stram_end => Entry(l).at = l
    <3>1. l \in Nat /\ l < LogAdr /\ (l < stram_end \/ l >= 2048)
      BY DEF Ram, M16
    <3>2. l \div 32 \in DOMAIN pageTbl /\ l % 32 \in Entries
      <4>1. Memory(l \div 32) /\ l % 32 \in Entries /\ l \div 32 \in Nat
        BY <2>1, RamChunk
      <4>2. QED
        BY <1>1, <4>1 DEF Inv, DomainInv
    <3>3. PICK c, i : c = l \div 32 /\ i = l % 32
      OBVIOUS
    <3>4. 32 * c + i = l /\ (l >= 2048 => c \in 64..2111)
      BY <2>2, <3>1, <3>3
    <3>5. PICK e : e = pageTbl[c].entry[i]
      OBVIOUS
    <3>6. EntryOK(c, i, e) /\ Entry(l) = e
      BY <1>1, <3>2, <3>3, <3>5 DEF Inv, EntryInv, Entry
    <3>7. e.mode \in {"ram", "table"} /\ (l < stram_end => e.at = l)
      <4>1. CASE l < stram_end
        BY <3>4, <3>6, <4>1 DEF EntryOK, Descriptor
      <4>2. CASE l >= 2048
        BY <2>2, <3>1, <3>4, <3>6, <4>2 DEF EntryOK
      <4>3. QED
        BY <3>1, <4>1, <4>2
    <3>8. e # None
      BY <3>7 DEF None, Descriptor
    <3>9. QED
      BY <3>2, <3>6, <3>7, <3>8 DEF Mapped
  <2>5. \A l \in 0..stram_end - 1 : Entry(l).at = l
    <3> SUFFICES ASSUME NEW l \in 0..stram_end - 1 PROVE Entry(l).at = l
      OBVIOUS
    <3>1. l \in Nat /\ l < stram_end /\ l < LogAdr
      BY <2>2
    <3>2. l \in Ram
      BY <3>1 DEF Ram
    <3>3. QED
      BY <2>4, <3>1, <3>2
  <2>6. /\ \A l \in Ram : Entry(l).at \in Existing \ Kept
        /\ \A p \in Existing \ Kept : \E l \in Ram : Entry(l).at = p
        /\ \A l, m \in Ram : l # m => Entry(l).at # Entry(m).at
    BY <1>1, <2>1 DEF Inv, RamInv
  <2>7. {Entry(l).at : l \in Ram} = Existing \ Kept
    BY <2>6
  <2>8. Cardinality(Ram) = Cardinality(Existing \ Kept)
    <3>1. IsFiniteSet(Ram)
      <4> DEFINE n == 0
                 m == LogAdr
                 k == m - n + 1
      <4>1. n \in Int /\ m \in Int /\ n <= m /\ k = m - n + 1
        BY <2>2
      <4>2. Ram \subseteq n..m
        <5>1. \A l \in Ram : l \in Nat /\ l < LogAdr
          BY DEF Ram
        <5>2. QED
          BY <2>2, <5>1
      <4> HIDE DEF n, m, k
      <4>3. IsFiniteSet(n..m)
        BY <4>1, IntervalSize
      <4>4. QED
        BY <4>2, <4>3, FS_Subset
    <3> DEFINE f == [l \in Ram |-> Entry(l).at]
    <3>2. f \in Bijection(Ram, Existing \ Kept)
      BY <2>6 DEF Bijection, Injection, Surjection, IsInjective
    <3>3. ExistsBijection(Ram, Existing \ Kept)
      BY <3>2 DEF ExistsBijection
    <3>4. QED
      BY <3>1, <3>3, FS_Bijection
  <2>9. QED
    BY <2>3, <2>4, <2>5, <2>7, <2>8
<1>2. QED
  BY <1>1, Inductive, PTL

-----------------------------------------------------------------------------
(* What a step may not do *)

\* A page that is mapped keeps its place, whatever is written next to it.
Stays ==
  \A c \in DOMAIN pageTbl : \A i \in Entries :
    pageTbl[c].entry[i] # None /\ <<c, i>> # <<FFFC, 29>> =>
      pageTbl'[c].entry[i].at = pageTbl[c].entry[i].at

\* A step that writes only where nothing is mapped yet.
LEMMA WriteIntoStays ==
  ASSUME NEW c, NEW new, WriteInto(c, new),
         c \in DOMAIN pageTbl =>
           \A i \in DOMAIN new : pageTbl[c].entry[i] = None \/ <<c, i>> = <<FFFC, 29>>
  PROVE  Stays
<1> DEFINE old == IF c \in DOMAIN pageTbl THEN pageTbl[c]
                  ELSE [at |-> log_phystop', entry |-> [i \in Entries |-> None]]
           e == [i \in Entries |-> IF i \in DOMAIN new THEN new[i] ELSE old.entry[i]]
           table == [at |-> old.at, entry |-> e]
<1>1. pageTbl' = Put(pageTbl, c, table)
  BY DEF WriteInto
<1>2. table.entry = e /\ \A i \in Entries :
        e[i] = IF i \in DOMAIN new THEN new[i] ELSE old.entry[i]
  OBVIOUS
<1>3. c \in DOMAIN pageTbl => old = pageTbl[c]
  OBVIOUS
<1> HIDE DEF table, e, old
<1>4. /\ \A d \in DOMAIN pageTbl : d # c => pageTbl'[d] = pageTbl[d]
      /\ pageTbl'[c] = table
  BY <1>1 DEF Put
<1>5. SUFFICES ASSUME NEW d \in DOMAIN pageTbl, NEW i \in Entries,
                      pageTbl[d].entry[i] # None, <<d, i>> # <<FFFC, 29>>
               PROVE  pageTbl'[d].entry[i].at = pageTbl[d].entry[i].at
  BY DEF Stays
<1>6. CASE d # c
  BY <1>4, <1>6
<1>7. CASE d = c
  <2>1. i \notin DOMAIN new
    BY <1>5, <1>7
  <2>2. QED
    BY <1>2, <1>3, <1>4, <1>7, <2>1
<1>8. QED
  BY <1>6, <1>7

\* Each window's chunk has no page table before, but for two: the I/O area at $FF0000 shares
\* one with the emulator's window, and the VME card takes the DSP's page.
LEMMA StepStays == Inv /\ Next => Stays
<1> SUFFICES ASSUME Inv, Next PROVE Stays
  OBVIOUS
<1>1. ShapeInv /\ MapInv /\ DomainInv /\ EntryInv
  BY DEF Inv
<1>2. \A c \in DOMAIN pageTbl : Memory(c) \/ Window(c)
  BY <1>1 DEF DomainInv
<1>3. \A c : Memory(c) => c \in Nat /\ c < 2096 /\ c \notin 56..63
  BY <1>1, MemoryChunks
<1>4. ASSUME UNCHANGED pageTbl PROVE Stays
  BY <1>4 DEF Stays
<1>5. ASSUME NEW pages, NEW m \in Mode, pageTbl' = Remode(pages, m) PROVE Stays
  <2>1. \A c \in DOMAIN pageTbl : \A i \in Entries :
          pageTbl'[c].entry[i] = IF c * 32 + i \in pages
                                 THEN Descriptor(pageTbl[c].entry[i].at, m)
                                 ELSE pageTbl[c].entry[i]
    BY <1>1, <1>5, RemodeFacts
  <2>2. \A a : Descriptor(a, m).at = a
    BY DEF Descriptor
  <2>3. QED
    BY <2>1, <2>2 DEF Stays
<1>6. CASE MapChunk
  <2>1. pc = "map"
    BY <1>6 DEF MapChunk
  <2>2. \A d : ~Window(d)
    BY <2>1, StageFacts DEF Window
  <2>3. PICK c : c = LogAdr \div 32
    OBVIOUS
  <2>4. 32 * c >= LogAdr
    BY <1>1, <2>3 DEF MapInv
  <2>5. ~Memory(c)
    BY <1>1, <2>4 DEF Memory, MapInv
  <2>6. \E new : WriteInto(c, new)
    BY <1>6, <2>3 DEF MapChunk
  <2>7. QED
    BY <1>2, <2>2, <2>5, <2>6, WriteIntoStays
<1>7. CASE NextBlock
  BY <1>4, <1>7 DEF NextBlock
<1>8. CASE MapTos
  <2>1. pc = "tos" /\ Stage = 1 /\ PhysAdr \in {1792, 1824}
    BY <1>1, <1>8 DEF MapTos, MapInv, Stage
  <2>2. PICK c : c = PhysAdr \div 32
    OBVIOUS
  <2>3. c \in {56, 57} /\ 32 * c = PhysAdr
    BY <2>1, <2>2
  <2>4. ~Window(c) /\ ~Memory(c)
    BY <1>3, <2>1, <2>3 DEF Window, FFFA, FFFC, C000, C100, FE00, FD00
  <2>5. \E new : WriteInto(c, new)
    BY <1>8, <2>2 DEF MapTos
  <2>6. QED
    BY <1>2, <2>4, <2>5, WriteIntoStays
<1>9. CASE MapRomPort
  <2>1. Stage = 2 /\ \E new : WriteInto(62, new)
    BY <1>9 DEF MapRomPort, Stage
  <2>2. ~Window(62) /\ ~Memory(62)
    BY <1>3, <2>1 DEF Window, FFFA, FFFC, C000, C100, FE00, FD00
  <2>3. QED
    BY <1>2, <2>1, <2>2, WriteIntoStays
<1>10. CASE MapRomPortAlias
  <2>1. Stage = 3 /\ \E new : WriteInto(FFFA, new)
    BY <1>10 DEF MapRomPortAlias, Stage
  <2>2. ~Window(FFFA) /\ ~Memory(FFFA)
    BY <1>3, <2>1 DEF Window, FFFA, FFFC, C000, C100, FE00, FD00
  <2>3. QED
    BY <1>2, <2>1, <2>2, WriteIntoStays
<1>11. CASE MapEmu
  <2>1. Stage = 4 /\ \E new : WriteInto(63, new)
    BY <1>11 DEF MapEmu, Stage
  <2>2. ~Window(63) /\ ~Memory(63)
    BY <1>3, <2>1 DEF Window, FFFA, FFFC, C000, C100, FE00, FD00
  <2>3. QED
    BY <1>2, <2>1, <2>2, WriteIntoStays
<1>12. CASE MapIo
  <2>1. Stage = 5 /\ \E new : WriteInto(FFFC, new)
    BY <1>12 DEF MapIo, Stage
  <2>2. ~Window(FFFC) /\ ~Memory(FFFC)
    BY <1>3, <2>1 DEF Window, FFFA, FFFC, C000, C100, FE00, FD00
  <2>3. QED
    BY <1>2, <2>1, <2>2, WriteIntoStays
<1>13. CASE MapIoAlias
  <2>1. Stage = 6 /\ WriteInto(63, Aliases(24, 8, FFFC))
    BY <1>13 DEF MapIoAlias, Stage
  <2>2. DOMAIN Aliases(24, 8, FFFC) = 24..31
    BY DEF Aliases
  <2>3. 63 \in DOMAIN pageTbl =>
          \A i \in DOMAIN Aliases(24, 8, FFFC) : pageTbl[63].entry[i] = None
    BY <1>1, <2>1, <2>2 DEF EntryInv
  <2>4. QED
    BY <2>1, <2>3, WriteIntoStays
<1>14. CASE MapPciIo
  <2>1. Stage = 7 /\ \E new : WriteInto(C000, new)
    BY <1>14 DEF MapPciIo, Stage
  <2>2. ~Window(C000) /\ ~Memory(C000)
    BY <1>3, <2>1 DEF Window, FFFA, FFFC, C000, C100, FE00, FD00
  <2>3. QED
    BY <1>2, <2>1, <2>2, WriteIntoStays
<1>15. CASE MapPciAck
  <2>1. Stage = 8 /\ \E new : WriteInto(C100, new)
    BY <1>15 DEF MapPciAck, Stage
  <2>2. ~Window(C100) /\ ~Memory(C100)
    BY <1>3, <2>1 DEF Window, FFFA, FFFC, C000, C100, FE00, FD00
  <2>3. QED
    BY <1>2, <2>1, <2>2, WriteIntoStays
<1>16. CASE PciKmalloc
  BY <1>4, <1>16 DEF PciKmalloc
<1>17. CASE PciDone
  BY <1>4, <1>17 DEF PciDone
<1>18. CASE MapVme
  <2>1. Stage = 10 /\ PhysAdr \in Nat /\ PhysAdr < 2048 /\ PhysAdr % 32 = 0
    BY <1>1, <1>18 DEF MapVme, MapInv, Stage, M16
  <2>2. PICK c : c = FE00 + PhysAdr \div 32
    OBVIOUS
  <2>3. c \in 16256..16319 /\ 32 * (c - FE00) = PhysAdr
    BY <2>1, <2>2 DEF FE00
  <2>4. ~Window(c) /\ ~Memory(c)
    BY <1>3, <2>1, <2>3 DEF Window, FFFA, FFFC, C000, C100, FE00, FD00
  <2>5. \E new : WriteInto(c, new)
    BY <1>18, <2>2 DEF MapVme
  <2>6. QED
    BY <1>2, <2>4, <2>5, WriteIntoStays
<1>19. CASE MapVmeAck
  <2>1. Stage = 11 /\ \E new : WriteInto(FD00, new)
    BY <1>19 DEF MapVmeAck, Stage
  <2>2. ~Window(FD00) /\ ~Memory(FD00)
    BY <1>3, <2>1 DEF Window, FFFA, FFFC, C000, C100, FE00, FD00
  <2>3. QED
    BY <1>2, <2>1, <2>2, WriteIntoStays
<1>20. CASE MapVmeDsp
  <2>1. WriteInto(FFFC, Pages(29, 1, VmeBase + 2041, "io"))
    BY <1>20 DEF MapVmeDsp
  <2>2. \A i \in DOMAIN Pages(29, 1, VmeBase + 2041, "io") : <<FFFC, i>> = <<FFFC, 29>>
    BY DEF Pages
  <2>3. QED
    BY <2>1, <2>2, WriteIntoStays
<1>21. CASE Uncache
  BY <1>5, <1>21 DEF Uncache, Mode
<1>22. CASE LockTos
  BY <1>5, <1>22 DEF LockTos, Mode
<1>23. QED
  BY <1>6, <1>7, <1>8, <1>9, <1>10, <1>11, <1>12, <1>13, <1>14, <1>15, <1>16, <1>17,
     <1>18, <1>19, <1>20, <1>21, <1>22 DEF Next

\* Nothing that is mapped is mapped to another place later, but for the DSP's page, which
\* the VME card gets.
THEOREM NothingIsDisplaced == Spec => MappingsStay
<1>1. Inv /\ [Next]_vars => [Stays]_vars
  BY StepStays
<1>2. Spec => [][Stays]_vars
  BY <1>1, Inductive, PTL DEF Spec
<1>3. QED
  BY <1>2 DEF MappingsStay, Stays

=============================================================================
