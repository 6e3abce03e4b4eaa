------------------------------ MODULE PageTables ------------------------------
(***************************************************************************)
(* Init_PMMU (pmmu.c): the allocator that takes the MMU's tables from the    *)
(* top of the ST-RAM downwards, the loop of SetPMMUTables that spreads the   *)
(* memory banks over the logical addresses, the windows for TOS, ROM port    *)
(* and I/O, the memory that the PCI setup takes in between, and the pass      *)
(* that makes the tables' own pages uncached.                               *)
(*                                                                         *)
(* Addresses of memory to be mapped are counted in pages of 8 KB, those that *)
(* the allocator hands out in bytes. A chunk is the 256 KB that one page      *)
(* table describes; 128 chunks (32 MB) share a pointer table.                *)
(***************************************************************************)
EXTENDS Integers, FiniteSets, Banks

CONSTANTS
  NSlots,      \* banks of 64 MB (8 in the code)
  Types,       \* the bank types, by slot, that the detection may have left
  PciAmounts,  \* sizes in bytes that the PCI setup asks kmalloc for
  MaxPci,      \* bound: how often it asks
  VmeBase      \* page at which the VME card's window begins

Slots == 0..NSlots - 1

ASSUME NSlotsAssumption == NSlots \in 1..8
ASSUME TypesAssumption ==
  /\ Types \subseteq [Slots -> 0..6]
  /\ \A t \in Types : t[0] \in {3, 4, 5}
\* enum_devs visits 5 slots with 8 functions: one table of up to 41 devices of 44 bytes, and
\* up to 7 resources of 20 bytes for each device.
ASSUME PciAssumption == PciAmounts \subseteq 0..41 * 44 /\ MaxPci \in 0..41

-----------------------------------------------------------------------------
(* Geometry, in pages *)

PageSize == 8192                 \* bytes
M4 == 512
M16 == 2048
Tos == 1792                      \* $00E00000
TosLen == 64                     \* 512 KB
RomPort == 2000                  \* $00FA0000, in the middle of chunk 62
RomPortLen == 32                 \* 256 KB

Entries == 0..31

\* The chunks of the windows above the memory.
FD00 == 16192
FE00 == 16256
FFFA == 16382
FFFC == 16383
C000 == 12288
C100 == 12352

ASSUME VmeAssumption == VmeBase \in Nat /\ VmeBase >= NSlots * 16 * M4

\* What a descriptor grants: main memory, read-only TOS, ROM port, the ROM port made
\* writable for the emulator, I/O, uncached memory of the tables; indirect: it is found at
\* another descriptor's address.
Mode == {"ram", "tos", "port", "emu", "io", "table", "indirect"}

\* A descriptor; at is a page, or the address (in bytes) of the other descriptor.
Descriptor(a, m) == [at |-> a, mode |-> m]
None == Descriptor(0, "none")

VARIABLES
  pc,
  stram_end, romport_emu, types,   \* from the NVRAM and the detection
  log_phystop,                     \* bytes: where the allocator has come to
  log_IOpage, phys_RootTbl,        \* bytes
  pointerTbl,                      \* the pointer tables' addresses, by 32 MB
  pageTbl,                         \* address and entries of the page tables, by chunk
  pci,                             \* what kmalloc gave to the PCI setup
  LogAdr, PhysAdr, block,          \* where the mapping has come to
  log_ramtop

config == <<stram_end, romport_emu, types>>
upper == <<log_IOpage, phys_RootTbl, pointerTbl>>
cursor == <<LogAdr, PhysAdr, block, log_ramtop>>
vars == <<pc, config, log_phystop, upper, pageTbl, pci, cursor>>

-----------------------------------------------------------------------------
(* The allocator *)

\* A slip: rounded up to the alignment.
KmallocRoundsUp(top, amount, align) == ((top - amount + align - 1) \div align) * align

\* kmalloc, kmalloc7, kmalloc9, kmallocPage: down from top, and down to the alignment.
Kmalloc(top, amount, align) == ((top - amount) \div align) * align

\* f with the value v at x.
Put(f, x, v) == [y \in DOMAIN f \cup {x} |-> IF y = x THEN v ELSE f[y]]

\* GetPageTablePointer with Create: root table, pointer table and page table of chunk c, as
\* far as they do not exist yet; then the entries in new's domain are written.
WriteInto(c, new) ==
  LET r == c \div 128
      top1 == IF phys_RootTbl = 0 THEN Kmalloc(log_phystop, 512, 512) ELSE log_phystop
      top2 == IF r \in DOMAIN pointerTbl THEN top1 ELSE Kmalloc(top1, 512, 512)
      top3 == IF c \in DOMAIN pageTbl THEN top2 ELSE Kmalloc(top2, 128, 128)
      old == IF c \in DOMAIN pageTbl THEN pageTbl[c]
                                     ELSE [at |-> top3, entry |-> [i \in Entries |-> None]]
  IN  /\ phys_RootTbl' = IF phys_RootTbl = 0 THEN top1 ELSE phys_RootTbl
      /\ pointerTbl' = IF r \in DOMAIN pointerTbl THEN pointerTbl ELSE Put(pointerTbl, r, top2)
      /\ pageTbl' = Put(pageTbl, c, [at |-> old.at, entry |->
                      [i \in Entries |-> IF i \in DOMAIN new THEN new[i] ELSE old.entry[i]]])
      /\ log_phystop' = top3

\* n entries from the one numbered from on, for consecutive pages from p on.
Pages(from, n, p, m) == [i \in from..from + n - 1 |-> Descriptor(p + i - from, m)]

\* The same, as indirect descriptors of the entries of chunk c with the same numbers.
Aliases(from, n, c) ==
  [i \in from..from + n - 1 |-> Descriptor(pageTbl[c].at + 4 * i, "indirect")]

-----------------------------------------------------------------------------

\* Init_PMMU up to the first mapping: log_IOpage is the first to be taken.
Init ==
  /\ pc = "map"
  /\ stram_end \in {1792, 1024, 512} /\ romport_emu \in BOOLEAN /\ types \in Types
  /\ log_IOpage = Kmalloc(stram_end * PageSize, 8192, 8192)
  /\ log_phystop = log_IOpage
  /\ phys_RootTbl = 0
  /\ pointerTbl = [r \in {} |-> 0]
  /\ pageTbl = [c \in {} |-> None]
  /\ pci = {}
  /\ LogAdr = 0 /\ PhysAdr = 0 /\ block = 0 /\ log_ramtop = 0

\* The 4 MB blocks of all banks, one after the other.
Exists(b) == b % 16 \in FillTab(types[b \div 16])

\* The page that entry i of a chunk gets when the chunk begins at p: from the ROM port on,
\* which the loop skips if the emulator is to have it, it is further up.
PageOf(i, p) ==
  p + i + IF romport_emu /\ p <= RomPort /\ RomPort <= p + i THEN RomPortLen ELSE 0

\* A slip: the TOS is skipped in the logical addresses alone.
MapChunkNoSkip ==
  /\ pc = "map" /\ PhysAdr < (block + 1) * M4
  /\ WriteInto(LogAdr \div 32, [i \in Entries |-> Descriptor(PageOf(i, PhysAdr), "ram")])
  /\ LogAdr' = IF LogAdr + 32 = stram_end THEN M16 ELSE LogAdr + 32
  /\ PhysAdr' = PageOf(31, PhysAdr) + 1
  /\ UNCHANGED <<pc, config, log_IOpage, pci, block, log_ramtop>>

\* A slip: behind the ST-RAM the logical addresses go on.
MapChunkNoJump ==
  /\ pc = "map" /\ PhysAdr < (block + 1) * M4
  /\ WriteInto(LogAdr \div 32, [i \in Entries |-> Descriptor(PageOf(i, PhysAdr), "ram")])
  /\ LogAdr' = LogAdr + 32
  /\ PhysAdr' = LET next == PageOf(31, PhysAdr) + 1
                IN  IF next = Tos THEN next + TosLen ELSE next
  /\ UNCHANGED <<pc, config, log_IOpage, pci, block, log_ramtop>>

\* 256 KB of a block. Behind the ST-RAM the mapping goes on at 16 MB, and the physical
\* address steps over the TOS.
MapChunk ==
  /\ pc = "map" /\ PhysAdr < (block + 1) * M4
  /\ WriteInto(LogAdr \div 32, [i \in Entries |-> Descriptor(PageOf(i, PhysAdr), "ram")])
  /\ LogAdr' = IF LogAdr + 32 = stram_end THEN M16 ELSE LogAdr + 32
  /\ PhysAdr' = LET next == PageOf(31, PhysAdr) + 1
                IN  IF next = Tos THEN next + TosLen ELSE next
  /\ UNCHANGED <<pc, config, log_IOpage, pci, block, log_ramtop>>

\* A slip: the block counter runs on behind the last block.
NextBlockRunsOn ==
  /\ pc = "map" /\ PhysAdr >= (block + 1) * M4
  /\ LET later == {b \in block + 1..NSlots * 16 - 1 : Exists(b)}
     IN  IF later = {}
           THEN /\ pc' = "tos" /\ PhysAdr' = Tos /\ log_ramtop' = LogAdr
                /\ block' = NSlots * 16
           ELSE /\ block' \in later /\ \A b \in later : block' <= b
                /\ PhysAdr' = block' * M4
                /\ UNCHANGED <<pc, log_ramtop>>
  /\ UNCHANGED <<config, log_phystop, upper, pageTbl, pci, LogAdr>>

\* The next block that exists, or, behind the last, the TOS with PhysAdr as its counter.
NextBlock ==
  /\ pc = "map" /\ PhysAdr >= (block + 1) * M4
  /\ LET later == {b \in block + 1..NSlots * 16 - 1 : Exists(b)}
     IN  IF later = {}
           THEN /\ pc' = "tos" /\ PhysAdr' = Tos /\ log_ramtop' = LogAdr
                /\ UNCHANGED block
           ELSE /\ block' \in later /\ \A b \in later : block' <= b
                /\ PhysAdr' = block' * M4
                /\ UNCHANGED <<pc, log_ramtop>>
  /\ UNCHANGED <<config, log_phystop, upper, pageTbl, pci, LogAdr>>

-----------------------------------------------------------------------------
(* The windows. Each step is one GetPageTablePointer and what is written there. *)

\* The TOS area, one page table at a time.
MapTos ==
  /\ pc = "tos"
  /\ WriteInto(PhysAdr \div 32, Pages(0, 32, PhysAdr, "tos"))
  /\ PhysAdr' = PhysAdr + 32
  /\ pc' = IF PhysAdr + 32 < Tos + TosLen THEN "tos" ELSE "port"
  /\ UNCHANGED <<config, log_IOpage, pci, LogAdr, block, log_ramtop>>

windowFrame == <<config, log_IOpage, pci, cursor>>

\* The ROM port at $FA0000: the memory there, or the slots at $40020000.
MapRomPort ==
  /\ pc = "port"
  /\ WriteInto(62, Pages(16, 16, IF romport_emu THEN RomPort ELSE 131088, "port"))
  /\ pc' = "port_alias"
  /\ UNCHANGED windowFrame

\* ... and at $FFFA0000, through indirect descriptors.
MapRomPortAlias ==
  /\ pc = "port_alias"
  /\ WriteInto(FFFA, Aliases(16, 16, 62))
  /\ pc' = IF romport_emu THEN "emu" ELSE "io"
  /\ UNCHANGED windowFrame

\* A slip: at $00FE0000, as the comment says.
MapEmuAtFE ==
  /\ pc = "emu"
  /\ WriteInto(63, Pages(16, 16, RomPort, "emu"))
  /\ pc' = "io"
  /\ UNCHANGED windowFrame

\* The memory behind the ROM port once more from $FD0000 on, writable.
MapEmu ==
  /\ pc = "emu"
  /\ WriteInto(63, Pages(8, 16, RomPort, "emu"))
  /\ pc' = "io"
  /\ UNCHANGED windowFrame

\* The Atari I/O area at $FFFF0000: every page the same, but for the Milan's own.
MapIo ==
  /\ pc = "io"
  /\ WriteInto(FFFC, [i \in 24..31 |-> Descriptor(IF i = 30 THEN 524286 ELSE 524280, "io")])
  /\ pc' = "io_alias"
  /\ UNCHANGED windowFrame

\* A slip: the address is taken before the pointer is moved to the 24th entry.
MapIoAliasEarly ==
  /\ pc = "io_alias"
  /\ WriteInto(63, [i \in 24..31 |->
       Descriptor(pageTbl[FFFC].at + 4 * (i - 24), "indirect")])
  /\ pc' = "pci_io"
  /\ UNCHANGED windowFrame

\* ... and at $00FF0000, through indirect descriptors.
MapIoAlias ==
  /\ pc = "io_alias"
  /\ WriteInto(63, Aliases(24, 8, FFFC))
  /\ pc' = "pci_io"
  /\ UNCHANGED windowFrame

\* The PCI I/O space at $C0000000, big endian.
MapPciIo ==
  /\ pc = "pci_io"
  /\ WriteInto(C000, Pages(0, 16, 262144, "io"))
  /\ pc' = "pci_ack"
  /\ UNCHANGED windowFrame

\* The interrupt acknowledge page at $C1000000.
MapPciAck ==
  /\ pc = "pci_ack"
  /\ WriteInto(C100, Pages(0, 1, 131072, "io"))
  /\ pc' = "pci"
  /\ UNCHANGED windowFrame

-----------------------------------------------------------------------------
(* The PCI setup, as far as memory goes *)

\* init_pcibus and init_BARs ask for the device table and the resources.
PciKmalloc ==
  /\ pc = "pci" /\ Cardinality(pci) < MaxPci
  /\ \E amount \in PciAmounts :
       /\ log_phystop' = Kmalloc(log_phystop, amount, 4)
       /\ pci' = pci \cup {[at |-> log_phystop', len |-> amount]}
  /\ UNCHANGED <<pc, config, upper, pageTbl, cursor>>

\* The devices are set up; with a VME card among them, init_vme_pmmu begins.
PciDone ==
  /\ pc = "pci"
  /\ pc' \in {"vme", "uncache"}
  /\ PhysAdr' = 0
  /\ UNCHANGED <<config, log_phystop, upper, pageTbl, pci, LogAdr, block, log_ramtop>>

\* 16 MB of the card at $FE000000, one page table at a time.
MapVme ==
  /\ pc = "vme"
  /\ WriteInto(FE00 + PhysAdr \div 32, Pages(0, 32, VmeBase + PhysAdr, "io"))
  /\ PhysAdr' = PhysAdr + 32
  /\ pc' = IF PhysAdr + 32 < M16 THEN "vme" ELSE "vme_ack"
  /\ UNCHANGED <<config, log_IOpage, pci, LogAdr, block, log_ramtop>>

\* Interrupt acknowledge at $FD000000, and the page with the interrupt number behind it.
MapVmeAck ==
  /\ pc = "vme_ack"
  /\ WriteInto(FD00, [i \in 0..8 |->
       Descriptor(VmeBase + (IF i = 8 THEN M16 ELSE 4088 + i), "io")])
  /\ pc' = "vme_dsp"
  /\ UNCHANGED windowFrame

\* The Falcon's DSP, in the middle of the Atari I/O area, becomes the card's.
MapVmeDsp ==
  /\ pc = "vme_dsp"
  /\ WriteInto(FFFC, Pages(29, 1, VmeBase + 2041, "io"))
  /\ pc' = "uncache"
  /\ UNCHANGED windowFrame

-----------------------------------------------------------------------------

\* Every logical page of set l gets mode m and keeps its physical page.
Remode(l, m) ==
  [c \in DOMAIN pageTbl |-> [pageTbl[c] EXCEPT !.entry =
     [i \in Entries |-> IF c * 32 + i \in l THEN [pageTbl[c].entry[i] EXCEPT !.mode = m]
                                            ELSE pageTbl[c].entry[i]]]]

\* A slip: rounded up to a page.
UncacheRoundsUp ==
  /\ pc = "uncache"
  /\ log_phystop' = ((log_phystop + PageSize - 1) \div PageSize) * PageSize
  /\ pageTbl' = Remode(log_phystop' \div PageSize..stram_end - 1, "table")
  /\ pc' = "done"
  /\ UNCHANGED <<config, upper, pci, cursor>>

\* All tables are there: down to a page boundary, and all pages from there to the end of
\* the ST-RAM uncached and for the supervisor only.
Uncache ==
  /\ pc = "uncache"
  /\ log_phystop' = (log_phystop \div PageSize) * PageSize
  /\ pageTbl' = Remode(log_phystop' \div PageSize..stram_end - 1, "table")
  /\ pc' = "done"
  /\ UNCHANGED <<config, upper, pci, cursor>>

\* Lock_TOS, before TOS is started.
LockTos ==
  /\ pc = "done"
  /\ pageTbl' = Remode(Tos..Tos + TosLen - 1, "tos")
  /\ pc' = "locked"
  /\ UNCHANGED <<config, log_phystop, upper, pci, cursor>>

Next ==
  \/ MapChunk \/ NextBlock
  \/ MapTos \/ MapRomPort \/ MapRomPortAlias \/ MapEmu \/ MapIo \/ MapIoAlias
  \/ MapPciIo \/ MapPciAck
  \/ PciKmalloc \/ PciDone \/ MapVme \/ MapVmeAck \/ MapVmeDsp
  \/ Uncache \/ LockTos

Spec == Init /\ [][Next]_vars

-----------------------------------------------------------------------------
(* Properties *)

TypeOK ==
  /\ pc \in {"map", "tos", "port", "port_alias", "emu", "io", "io_alias", "pci_io",
             "pci_ack", "pci", "vme", "vme_ack", "vme_dsp", "uncache", "done", "locked"}
  /\ stram_end \in {1792, 1024, 512} /\ romport_emu \in BOOLEAN /\ types \in Types
  /\ log_phystop \in Nat /\ log_IOpage \in Nat /\ phys_RootTbl \in Nat
  /\ \A r \in DOMAIN pointerTbl : r \in 0..127 /\ pointerTbl[r] \in Nat
  /\ \A c \in DOMAIN pageTbl :
       /\ c \in 0..16383
       /\ pageTbl[c].at \in Nat
       /\ \A i \in Entries : /\ pageTbl[c].entry[i].at \in Nat
                             /\ pageTbl[c].entry[i].mode \in Mode \cup {"none"}
  /\ \A k \in pci : k.at \in Nat /\ k.len \in PciAmounts
  /\ LogAdr \in Nat /\ PhysAdr \in Nat /\ block \in 0..NSlots * 16 - 1 /\ log_ramtop \in Nat

Ready == pc \in {"done", "locked"}

\* What the allocator has handed out.
Regions ==
  {[at |-> log_IOpage, len |-> PageSize], [at |-> phys_RootTbl, len |-> 512]}
    \cup {[at |-> pointerTbl[r], len |-> 512] : r \in DOMAIN pointerTbl}
    \cup {[at |-> pageTbl[c].at, len |-> 128] : c \in DOMAIN pageTbl}
    \cup pci

\* The logical pages of the main memory, and what maps them.
RamPages == 0..stram_end - 1 \cup M16..log_ramtop - 1
Entry(l) == pageTbl[l \div 32].entry[l % 32]
Mapped(l) == l \div 32 \in DOMAIN pageTbl /\ Entry(l) # None

\* The MMU's tables and the PCI setup's tables do not share a byte, none reaches below
\* log_phystop or above the ST-RAM, and each lies as the MMU needs it.
TablesApart ==
  Ready =>
    /\ \A k \in Regions : k.at >= log_phystop /\ k.at + k.len <= stram_end * PageSize
    /\ \A k, m \in Regions : k # m => k.at + k.len <= m.at \/ m.at + m.len <= k.at
    /\ phys_RootTbl % 512 = 0 /\ \A r \in DOMAIN pointerTbl : pointerTbl[r] % 512 = 0
    /\ \A c \in DOMAIN pageTbl : pageTbl[c].at % 128 = 0

\* Whatever the allocator has handed out is seen at its physical address, uncached and by
\* the supervisor only, when the MMU is switched on: the MMU does not look into the cache.
TablesUncached ==
  Ready => \A k \in Regions : \A l \in k.at \div PageSize..(k.at + k.len - 1) \div PageSize :
    Mapped(l) /\ Entry(l) = Descriptor(l, "table")

\* Every page that exists, but for the TOS area and the ROM port's memory, is main memory
\* at one logical address; the logical memory has no holes, and the ST-RAM lies where it
\* is physically.
RamIsWhole ==
  Ready =>
    /\ \A l \in RamPages : Mapped(l) /\ Entry(l).mode \in {"ram", "table"}
    /\ \A l \in 0..stram_end - 1 : Entry(l).at = l
    /\ LET existing == {p \in 0..NSlots * 16 * M4 - 1 : Exists(p \div M4)}
           kept == Tos..Tos + TosLen - 1
                     \cup IF romport_emu THEN RomPort..RomPort + RomPortLen - 1 ELSE {}
       IN  /\ {Entry(l).at : l \in RamPages} = existing \ kept
           /\ Cardinality(RamPages) = Cardinality(existing \ kept)

\* Nothing can write to the TOS: its pages are mapped in one place, read-only. The ROM
\* port's memory is written through the emulator's window alone.
TosIsProtected ==
  Ready =>
    \A c \in DOMAIN pageTbl : \A i \in Entries :
      LET e == pageTbl[c].entry[i]
      IN  /\ e.mode # "indirect" /\ e # None /\ e.at \in Tos..Tos + TosLen - 1 =>
               e = Descriptor(c * 32 + i, "tos")
          /\ romport_emu /\ e.at \in RomPort..RomPort + RomPortLen - 1 =>
               e.mode \in {"port", "emu", "indirect"}

\* A window does not take the place of anything that was mapped before; only the DSP's
\* page is given to the VME card.
MappingsStay ==
  [][\A c \in DOMAIN pageTbl : \A i \in Entries :
       pageTbl[c].entry[i] # None /\ <<c, i>> # <<FFFC, 29>> =>
         pageTbl'[c].entry[i].at = pageTbl[c].entry[i].at]_vars

\* What an indirect descriptor leads to.
Target(e) ==
  LET c == CHOOSE c \in DOMAIN pageTbl : e.at \in pageTbl[c].at..pageTbl[c].at + 127
  IN  pageTbl[c].entry[(e.at - pageTbl[c].at) \div 4]

\* The short addresses show what the long ones show, with a VME card or without: the Atari
\* I/O area at $FF0000 and $FFFF0000, the ROM port at $FA0000 and $FFFA0000.
AliasesAgree ==
  Ready =>
    /\ \A i \in 24..31 : Target(pageTbl[63].entry[i]) = pageTbl[FFFC].entry[i]
    /\ \A i \in 16..31 : Target(pageTbl[FFFA].entry[i]) = pageTbl[62].entry[i]
=============================================================================
