--------------------------- MODULE VgaSetupProofs ----------------------------
(***************************************************************************)
(* Proofs about the PCI setup with the VGA card's in between (SetupSpec), for *)
(* any machines.                                                           *)
(*                                                                         *)
(* init_BARs gives windows by rounding two counters up, and what it gives has *)
(* to stay right through what comes between and behind: all that is written   *)
(* of a window's register lies below the counters, and what a function has     *)
(* besides ends a page (WindowInv); what has been entered in a list of          *)
(* resources is what the registers hold (ListInv). Both rest on each function   *)
(* being set up once (OrderInv).                                             *)
(*                                                                         *)
(* The programs that are started afterwards find the settings of the NVRAM    *)
(* that were stored, the interrupts that the bridge is given, the windows of   *)
(* every function that answers, and the VGA card's registers as the tables     *)
(* have them. That no write of a table is lost is an induction over its        *)
(* entries (TableInduction): each register that locks others has been written   *)
(* by the entries before (Open, Unlocked), which the steps of init_s3_vga       *)
(* prepare (CardInv).                                                       *)
(***************************************************************************)
EXTENDS VgaSetup, TLAPS, FiniteSetTheorems, SequenceTheorems, NaturalsInduction,
        WellFoundedInduction

Entry == [reg : Regs \cup {Ids}, space : {"io", "mem"}, last : BOOLEAN, base : Nat, size : Nat]
Lists == [entries : Seq(Entry), blank : Int, before : BOOLEAN]
Device == [f : Fcts, resources : Lists, pci_interrupt : 0..4, isa_interrupt : valid_int]
Register == [space : {"ones", "io", "mem"}, addr : Nat]
Bits == {"io", "mem", "master"}
Locals == [f : Fcts, r : 0..Rom + 2, c : 0..Rom + 1, cmd : SUBSET {"io", "mem"},
           rsc : Seq(Entry)]

----------------------------------------------------------------------------
(* The types                                                                *)

BusInv == \E m \in Machines : Plugged(m)

LoopType ==
  /\ pc \in {"preinit", "vga_bars", "nvram", "config", "vme", "bars", "done"}
  /\ todo \in Seq(DOMAIN bus)
  /\ cur \in Locals
  /\ cur.c <= cur.r

RegisterType ==
  /\ io \in Nat /\ mem \in Nat
  /\ reg \in [Fcts -> [Regs -> Register]]
  /\ cmd \in [Fcts -> SUBSET Bits]
  /\ line \in [Fcts -> Byte]

TableType ==
  /\ vga \in {<<0, 0>>} \cup DOMAIN bus
  /\ vgaRsc \in Lists
  /\ devices \in Seq(Device) /\ \A i \in DOMAIN devices : devices[i].f \in DOMAIN bus
  /\ believed \in BOOLEAN /\ language \in 0..1
  /\ piix \in [1..4 -> valid_int]

\* The VGA card is set up while the PCI setup waits at nvram_init; the BIOS's program is one.
StageInv ==
  /\ stage \in {"off", "clocks", "test", "tables", "copy", "bios", "text", "ready"}
  /\ pc \in {"preinit", "vga_bars"} => stage = "off"
  /\ pc \in {"config", "vme", "bars", "done"} => stage = "ready"
  /\ stage \in {"copy", "bios"} => HasVga
  /\ stage \in {"off", "copy", "bios"} =>
       LET calls == Range(card.bios)
       IN card.bios \in Seq(calls) /\ \A call \in calls : IsCall(call)
  /\ own \in [1..4 -> Byte] /\ status \in SUBSET Errors

TypeInv == BusInv /\ LoopType /\ RegisterType /\ TableType /\ StageInv

----------------------------------------------------------------------------
(* The order: no function is set up twice                                    *)

InBars == pc \in {"vga_bars", "bars"}

\* The functions whose registers have been written.
Settled == (IF pc \in {"preinit", "vga_bars"} THEN {} ELSE {vga})
             \cup {devices[i].f : i \in DOMAIN devices}

OrderInv ==
  /\ \A i, j \in DOMAIN todo : todo[i] = todo[j] => i = j
  /\ \A i, j \in DOMAIN devices : devices[i].f = devices[j].f => i = j
  /\ \A i \in DOMAIN devices, j \in DOMAIN todo : devices[i].f # todo[j]
  /\ pc \in {"preinit", "vga_bars", "nvram"} => todo = <<>> /\ devices = <<>>
  /\ pc = "preinit" => vga = <<0, 0>>
  /\ pc = "vga_bars" => cur.f = vga
  /\ pc = "bars" => todo # <<>> /\ cur.f = Head(todo) /\ cur.f # vga
  /\ pc = "vme" => todo # <<>> /\ Head(todo) # vga
  /\ \A f \in Fcts \ Settled : ~SetUp(f) => cmd[f] = {}

----------------------------------------------------------------------------
(* The windows                                                              *)

Wants(f, r) == bus[f].kind[r].k \in {"io", "mem"}
Size(f, r) == bus[f].kind[r].size
Addr(f, r) == reg[f][r].addr

\* A function has no 64-bit register, or at least none that others lie behind.
Plain(f) == \A r \in Regs : bus[f].kind[r].k # "mem64"
Orderly(f) == \A r \in Regs : bus[f].kind[r].k = "mem64" => \A q \in r + 1..Rom : ~Wants(f, q)

\* The registers with a window that have been written.
Written == {w \in (DOMAIN bus) \X Regs :
              /\ Orderly(w[1]) /\ Wants(w[1], w[2]) /\ ~Shadowed(w[1], w[2])
              /\ w[1] \in Settled \/ (InBars /\ w[1] = cur.f /\ w[2] < cur.r)}

\* The answer in use belongs to the register that is written, or there is none to write.
Aligned == InBars /\ cur.f \in DOMAIN bus =>
             /\ Plain(cur.f) => cur.c = cur.r
             /\ Orderly(cur.f) => cur.c = cur.r \/ \A q \in cur.r..Rom : ~Wants(cur.f, q)

CounterInv ==
  /\ pc # "preinit" => io >= 32768 /\ mem >= 2^29
  /\ io % 1024 = 0
  /\ mem % 8192 = 0 \/ (InBars /\ Counted)

IsPlaced(f, r) ==
  /\ Addr(f, r) % Size(f, r) = 0
  /\ bus[f].kind[r].k = "io" =>
       /\ Addr(f, r) >= 32768 /\ Addr(f, r) % 1024 = 0
       /\ Addr(f, r) + Size(f, r) <= io
  /\ bus[f].kind[r].k = "mem" =>
       /\ Addr(f, r) >= 2^29 /\ Addr(f, r) + Size(f, r) <= mem
       /\ f \in Settled => ALIGN(Addr(f, r) + Size(f, r), 8192) <= mem

Before(v, w) == Addr(v[1], v[2]) + Size(v[1], v[2]) <= Addr(w[1], w[2])
PageBefore(v, w) == ALIGN(Addr(v[1], v[2]) + Size(v[1], v[2]), 8192)
                      <= Addr(w[1], w[2]) - (Addr(w[1], w[2]) % 8192)

AreApart(v, w) ==
  bus[v[1]].kind[v[2]].k = bus[w[1]].kind[w[2]].k =>
    /\ v # w => Before(v, w) \/ Before(w, v)
    /\ v[1] # w[1] /\ bus[v[1]].kind[v[2]].k = "mem" => PageBefore(v, w) \/ PageBefore(w, v)

WindowInv ==
  /\ Aligned
  /\ CounterInv
  /\ \A w \in Written : IsPlaced(w[1], w[2])
  /\ \A v, w \in Written : AreApart(v, w)

----------------------------------------------------------------------------
(* The lists of resources                                                    *)

\* A list tells of a function's first n registers.
Tells(rsc, f, n) ==
  /\ \A i \in DOMAIN rsc :
       /\ rsc[i].reg \in Regs /\ rsc[i].reg < n /\ Wants(f, rsc[i].reg)
       /\ rsc[i].space = bus[f].kind[rsc[i].reg].k /\ rsc[i].size = Size(f, rsc[i].reg)
       /\ ~Shadowed(f, rsc[i].reg) => rsc[i].base = Addr(f, rsc[i].reg)
  /\ \A r \in Regs : r < n /\ Wants(f, r) => \E i \in DOMAIN rsc : rsc[i].reg = r
  /\ bus[f].vme => IF n < 3 THEN Len(rsc) = n ELSE Len(rsc) >= 3 /\ rsc[3].reg = 2

Ends(rsc) == \A j \in DOMAIN rsc : rsc[j].last <=> j = Len(rsc)
TellsAll(list, f) ==
  /\ Tells(list.entries, f, Rom + 1) /\ Ends(list.entries)
  /\ list.entries = <<>> => (list.blank > 0 <=> f = vga \/ Low(f))
  /\ list.before <=> Windowless(f) /\ Low(f)

LoopList == InBars /\ cur.f \in DOMAIN bus /\ Plain(cur.f) => Tells(cur.rsc, cur.f, cur.r)
VgaList == pc \notin {"preinit", "vga_bars"} /\ vga \in DOMAIN bus /\ Plain(vga) =>
             TellsAll(vgaRsc, vga)
DeviceLists == \A i \in DOMAIN devices : Plain(devices[i].f) =>
                 TellsAll(devices[i].resources, devices[i].f)
ListInv == LoopList /\ VgaList /\ DeviceLists

Inv == TypeInv /\ OrderInv /\ WindowInv /\ ListInv

----------------------------------------------------------------------------
(* Rounding up                                                              *)

IoSizes == {4, 8, 16, 32, 64, 128, 256}

\* What ALIGN returns is the multiple at or behind a number.
LEMMA AlignUp ==
  ASSUME NEW v \in Nat, NEW al \in Nat \ {0}
  PROVE  ALIGN(v, al) \in Nat /\ ALIGN(v, al) >= v /\ ALIGN(v, al) % al = 0
<1> DEFINE q == v \div al
           m == v % al
<1>1. q \in Nat /\ m \in 0..al - 1 /\ v = al * q + m
  OBVIOUS
<1>2. CASE m = 0
  <2>1. (al - m) % al = 0
    BY <1>2
  <2> QED
    BY <1>1, <1>2, <2>1 DEF ALIGN
<1>3. CASE m # 0
  <2>1. (al - m) % al = al - m
    BY <1>1, <1>3
  <2>2. ALIGN(v, al) = al * (q + 1)
    BY <1>1, <1>3, <2>1 DEF ALIGN
  <2>3. (al * (q + 1)) % al = 0
    BY <1>1
  <2> QED
    BY <1>1, <2>1, <2>2, <2>3, <1>3 DEF ALIGN
<1> QED
  BY <1>2, <1>3

\* No multiple of the page's size lies between a number and its page's end.
LEMMA PageEnd ==
  ASSUME NEW v \in Nat
  PROVE  /\ ALIGN(v, 8192) \in Nat /\ ALIGN(v, 8192) >= v /\ ALIGN(v, 8192) % 8192 = 0
         /\ \A w \in Nat : w % 8192 = 0 /\ w >= v => w >= ALIGN(v, 8192)
  BY DEF ALIGN

\* A window in the I/O space begins where the counter stands.
LEMMA IoEnd ==
  ASSUME NEW v \in Nat, v % 1024 = 0, NEW n \in IoSizes
  PROVE  /\ ALIGN(v, n) = v /\ v % n = 0
         /\ ALIGN(v + n, 1024) \in Nat /\ ALIGN(v + n, 1024) >= v + n
         /\ ALIGN(v + n, 1024) % 1024 = 0
  BY DEF ALIGN, IoSizes

LEMMA IdsEnd ==
  ASSUME NEW v \in Nat
  PROVE  /\ ALIGN(v, 4) \in Nat
         /\ ALIGN(ALIGN(v, 4) + 4, 1024) \in Nat /\ ALIGN(ALIGN(v, 4) + 4, 1024) >= v
         /\ ALIGN(ALIGN(v, 4) + 4, 1024) % 1024 = 0
<1>1. ALIGN(v, 4) \in Nat /\ ALIGN(v, 4) >= v
  BY DEF ALIGN
<1>2. PICK a \in Nat : a = ALIGN(v, 4) /\ a >= v
  BY <1>1
<1>3. /\ ALIGN(a + 4, 1024) \in Nat /\ ALIGN(a + 4, 1024) >= a + 4
      /\ ALIGN(a + 4, 1024) % 1024 = 0
  BY <1>2 DEF ALIGN
<1>4. PICK e \in Nat : e = ALIGN(a + 4, 1024) /\ e >= a + 4 /\ e % 1024 = 0
  BY <1>3
<1>5. e >= v
  BY ONLY <1>2, <1>4
<1> QED
  BY <1>1, <1>2, <1>4, <1>5

----------------------------------------------------------------------------
(* What is plugged in                                                        *)

KindNames == {"none", "io", "mem", "mem64", "mem1m", "upper"}

\* The parts of MachinesAssumption, said of the bus.
LEMMA BusType ==
  ASSUME BusInv
  PROVE  /\ DOMAIN bus \subseteq Fcts /\ <<0, 0>> \notin DOMAIN bus
         /\ \A f \in DOMAIN bus : bus[f] \in Function /\ f[1] \in 1..5
         /\ nv \in Content /\ stored \in Content
<1>1. PICK m \in Machines : Plugged(m)
  BY DEF BusInv
<1>2. /\ DOMAIN bus \subseteq {f \in Fcts : f[1] # 0}
      /\ \A f \in DOMAIN bus : bus[f] \in Function
      /\ nv \in Content /\ stored \in Content
  BY <1>1, MachinesAssumption DEF Plugged
<1>3. \A f \in Fcts : f[1] \in 0..5
  BY DEF Fcts
<1> QED
  BY <1>2, <1>3

LEMMA KindType ==
  ASSUME BusInv, NEW f \in DOMAIN bus, NEW r \in Regs
  PROVE  /\ bus[f].kind \in [Regs -> Kind]
         /\ bus[f].kind[r].k \in KindNames /\ bus[f].kind[r].size \in Nat
         /\ bus[f].kind[r].k = "io" => r # Rom /\ bus[f].kind[r].size \in IoSizes
         /\ bus[f].kind[r].k = "mem" => bus[f].kind[r].size \in Nat \ {0}
         /\ bus[f].kind[r].k = "mem64" => r < 5
         /\ bus[f].kind[r].k = "upper" => r > 0 /\ r # Rom /\ bus[f].kind[r - 1].k = "mem64"
         /\ r = Rom => bus[f].kind[r].k \in {"none", "mem"}
         /\ bus[f].vme /\ r \in 0..2 => bus[f].kind[r].k \in {"io", "mem"}
<1>1. PICK m \in Machines : Plugged(m)
  BY DEF BusInv
<1> DEFINE kind == bus[f].kind
<1>2. /\ kind[r].k = "io" => r # Rom /\ kind[r].size \in {2^n : n \in 2..8}
      /\ kind[r].k \in {"mem", "mem64", "mem1m"} => kind[r].size \in {2^n : n \in 4..28}
      /\ kind[r].k = "mem64" <=> r < 5 /\ kind[r + 1].k = "upper"
      /\ r = Rom => kind[r].k \in {"none", "mem"}
      /\ kind[0].k # "upper"
      /\ bus[f].vme /\ r \in 0..2 => kind[r].k \in {"io", "mem"}
  BY <1>1, MachinesAssumption DEF Plugged
<1>3. kind \in [Regs -> Kind] /\ kind[r].k \in KindNames /\ kind[r].size \in Nat
  BY BusType DEF Function, Kind, KindNames
<1>4. \A x \in {2^n : n \in 2..8} : x \in IoSizes
  BY DEF IoSizes
<1>5. \A x \in {2^n : n \in 4..28} : x \in {16, 32, 64, 128, 256, 512, 1024, 2048, 4096, 8192,
        16384, 32768, 65536, 131072, 262144, 524288, 1048576, 2097152, 4194304, 8388608,
        16777216, 33554432, 67108864, 134217728, 268435456}
  OBVIOUS
<1>6. kind[r].k = "mem" => kind[r].size # 0
  BY <1>2, <1>5
<1>7. kind[r].k = "upper" => r > 0 /\ r # Rom /\ kind[r - 1].k = "mem64"
  <2> SUFFICES ASSUME kind[r].k = "upper"
               PROVE  r > 0 /\ r # Rom /\ kind[r - 1].k = "mem64"
    OBVIOUS
  <2>1. r # 0 /\ r # Rom
    BY <1>2
  <2>2. r - 1 \in Regs /\ r - 1 < 5 /\ (r - 1) + 1 = r
    BY <2>1 DEF Regs, Rom
  <2>3. kind[r - 1].k = "mem64" <=> r - 1 < 5 /\ kind[(r - 1) + 1].k = "upper"
    BY <1>1, <2>2, MachinesAssumption DEF Plugged
  <2> QED
    BY <2>1, <2>2, <2>3 DEF Regs
<1> QED
  BY <1>2, <1>3, <1>4, <1>6, <1>7

----------------------------------------------------------------------------
(* enum_devs                                                                *)

LEMMA NumberIs ==
  ASSUME NEW f \in Fcts, NEW g \in Fcts
  PROVE  Number(f) \in Nat /\ (Number(f) = Number(g) => f = g)
<1>1. f = <<f[1], f[2]>> /\ f[1] \in 0..5 /\ f[2] \in 0..7
  BY DEF Fcts
<1>2. g = <<g[1], g[2]>> /\ g[1] \in 0..5 /\ g[2] \in 0..7
  BY DEF Fcts
<1>3. Number(f) = Number(g) => f[1] = g[1] /\ f[2] = g[2]
  BY <1>1, <1>2 DEF Number
<1>4. Number(f) \in Nat
  BY <1>1 DEF Number
<1>5. f[1] = g[1] /\ f[2] = g[2] => f = g
  BY <1>1, <1>2
<1> QED
  BY <1>3, <1>4, <1>5

\* It finds functions that are there, each once.
LEMMA FoundIs ==
  ASSUME BusInv
  PROVE  /\ Found \in Seq(DOMAIN bus)
         /\ \A i, j \in DOMAIN Found : Found[i] = Found[j] => i = j
<1> DEFINE n == Cardinality(Seen)
           Below(f) == {g \in Seen : Number(g) < Number(f)}
<1>1. Seen \subseteq Fcts /\ Seen \subseteq DOMAIN bus
  BY BusType DEF Seen
<1>2. IsFiniteSet(Seen)
  <2>1. 0 \in Int /\ 5 \in Int /\ 7 \in Int
    OBVIOUS
  <2>2. IsFiniteSet(0..5) /\ IsFiniteSet(0..7)
    BY ONLY <2>1, FS_Interval
  <2>3. IsFiniteSet(Fcts)
    BY ONLY <2>2, FS_Product DEF Fcts
  <2> QED
    BY <1>1, <2>3, FS_Subset
<1>3. n \in Nat
  BY <1>2, FS_CardinalityType
<1>4. \A f \in Seen : Cardinality(Below(f)) \in Nat /\ Cardinality(Below(f)) < n
  <2> TAKE f \in Seen
  <2>1. Below(f) \in SUBSET Seen /\ Below(f) # Seen
    BY <1>1, NumberIs
  <2>2. IsFiniteSet(Below(f)) /\ Cardinality(Below(f)) <= n /\ Cardinality(Below(f)) # n
    BY <1>2, <2>1, FS_Subset
  <2>3. Cardinality(Below(f)) \in Nat
    BY <2>2, FS_CardinalityType
  <2> QED
    BY <1>3, <2>2, <2>3
<1>5. \A f, g \in Seen : Number(f) < Number(g) =>
        Cardinality(Below(f)) < Cardinality(Below(g))
  <2> SUFFICES ASSUME NEW f \in Seen, NEW g \in Seen, Number(f) < Number(g)
               PROVE  Cardinality(Below(f)) < Cardinality(Below(g))
    OBVIOUS
  <2>1. \A h \in Seen : Number(h) \in Nat
    BY <1>1, NumberIs
  <2>2. Below(f) \in SUBSET Below(g) /\ f \in Below(g) /\ f \notin Below(f)
    BY <2>1
  <2>3. IsFiniteSet(Below(g))
    BY <1>2, FS_Subset
  <2>4. Cardinality(Below(f)) <= Cardinality(Below(g))
        /\ Cardinality(Below(f)) # Cardinality(Below(g))
    BY <2>2, <2>3, FS_Subset
  <2> QED
    BY <1>4, <2>4
<1>6. \A f \in Seen : Place(f) \in 1..n /\ Place(f) = 1 + Cardinality(Below(f))
  BY <1>3, <1>4 DEF Place
<1>7. \A f, g \in Seen : Place(f) = Place(g) => f = g
  <2> SUFFICES ASSUME NEW f \in Seen, NEW g \in Seen, Place(f) = Place(g)
               PROVE  Number(f) = Number(g)
    BY <1>1, NumberIs
  <2>1. Cardinality(Below(f)) = Cardinality(Below(g))
    BY <1>4, <1>6
  <2> HIDE DEF Below
  <2>2. ~(Number(f) < Number(g)) /\ ~(Number(g) < Number(f))
    BY <1>4, <1>5, <2>1
  <2>3. Number(f) \in Nat /\ Number(g) \in Nat
    BY <1>1, NumberIs
  <2> QED
    BY <2>2, <2>3
<1>8. \A i \in 1..n : \E f \in Seen : Place(f) = i
  <2> DEFINE p == [f \in Seen |-> Place(f)]
  <2>1. p \in Injection(Seen, 1..n)
    BY <1>6, <1>7 DEF Injection, IsInjective
  <2>2. IsFiniteSet(1..n) /\ Cardinality(1..n) = n
    BY <1>3, FS_Interval
  <2>3. p \in Surjection(Seen, 1..n)
    BY <2>1, <2>2, FS_Injection
  <2> QED
    BY <2>3 DEF Surjection
<1>9. \A i \in 1..n : Found[i] \in Seen /\ Place(Found[i]) = i
  BY <1>8 DEF Found
<1>10. Found \in [1..n -> DOMAIN bus] /\ DOMAIN Found = 1..n
  BY <1>1, <1>9 DEF Found
<1> QED
  BY <1>3, <1>9, <1>10

\* The first VGA card is one of them, or there is none.
LEMMA FirstCard ==
  ASSUME BusInv, NEW cards, cards = {i \in DOMAIN Found : bus[Found[i]].vga}, cards # {}
  PROVE  Found[Min(cards)] \in DOMAIN bus
<1>1. DOMAIN Found \subseteq Nat /\ \A i \in DOMAIN Found : Found[i] \in DOMAIN bus
  BY FoundIs
<1>2. cards \subseteq Nat
  BY <1>1
<1>3. \E x \in cards : \A y \in cards : x <= y
  <2> DEFINE R == {p \in Nat \X Nat : p[1] < p[2]}
  <2>1. IsWellFoundedOn(R, Nat)
    BY NatLessThanWellFounded DEF OpToRel
  <2>2. \A x, y \in Nat : y < x => <<y, x>> \in R
    OBVIOUS
  <2> HIDE DEF R
  <2>3. PICK x \in cards : \A y \in cards : ~(<<y, x>> \in R)
    BY <1>2, <2>1, WFMin
  <2>4. \A y \in cards : ~(y < x)
    BY <1>2, <2>2, <2>3
  <2> QED
    BY <1>2, <2>4
<1>4. Min(cards) \in cards
  BY <1>3 DEF Min
<1> QED
  BY <1>1, <1>4

----------------------------------------------------------------------------
(* The types are kept: init_BARs                                             *)

\* What is ignored as a 64-bit register is one, or an I/O space in the ROM's place.
IsWide == \/ KindOf(cur.f, cur.c).k = "mem64" /\ cur.c < 5
          \/ KindOf(cur.f, cur.c).k = "io" /\ cur.r = Rom

LEMMA AtLeast == \A n \in Nat : Max({16, n}) \in Nat \ {0}
<1> TAKE n \in Nat
<1>1. \E x \in {16, n} : \A y \in {16, n} : x >= y
  <2>1. CASE n <= 16
    BY <2>1
  <2>2. CASE n >= 16
    BY <2>2
  <2> QED
    BY <2>1, <2>2
<1>2. Max({16, n}) \in {16, n} /\ \A y \in {16, n} : Max({16, n}) >= y
  BY <1>1 DEF Max
<1>3. PICK m \in {16, n} : m = Max({16, n}) /\ m >= 16
  BY <1>2
<1> QED
  BY <1>3

LEMMA TakenIs ==
  ASSUME BusInv, LoopType, cur.r <= Rom
  PROVE  /\ cur.f \in Fcts /\ cur.r \in Regs /\ cur.c \in Regs
         /\ Taken.size \in Nat /\ Taken.k \in KindNames \ {"upper"}
         /\ Taken.k = "io" => Taken.size \in IoSizes
         /\ Taken.k = "mem" => Taken.size \in Nat \ {0}
         /\ Taken.k # "none" => KindOf(cur.f, cur.c).k # "none"
         /\ Taken.k = "mem64" => IsWide
         /\ /\ cur.f \in DOMAIN bus /\ bus[cur.f].kind[cur.c].k # "upper"
            /\ bus[cur.f].kind[cur.c].k = "io" => cur.r # Rom
            => Taken = bus[cur.f].kind[cur.c]
<1>1. cur.f \in Fcts /\ cur.r \in Regs /\ cur.c \in Regs
  BY DEF LoopType, Locals, Regs, Rom
<1> DEFINE kind == KindOf(cur.f, cur.c)
<1>2. kind \in Kind /\ kind.k \in KindNames /\ kind.size \in Nat
  <2>1. CASE cur.f \in DOMAIN bus
    BY <1>1, <2>1, KindType DEF KindOf
  <2>2. CASE cur.f \notin DOMAIN bus
    BY <2>2 DEF KindOf, Kind, KindNames
  <2> QED
    BY <2>1, <2>2
<1>3. cur.f \in DOMAIN bus => kind = bus[cur.f].kind[cur.c]
  BY DEF KindOf
<1>4. cur.f \notin DOMAIN bus => kind.k = "upper"
  BY DEF KindOf
<1>5. /\ kind.k = "io" => kind.size \in IoSizes
      /\ kind.k = "mem" => kind.size \in Nat \ {0}
      /\ kind.k = "mem64" => cur.c < 5
  BY <1>1, <1>3, <1>4, KindType
<1> HIDE DEF kind
<1>6. Taken = IF kind.k \notin {"upper", "io"} THEN kind
              ELSE IF cur.r = Rom
                   THEN [k |-> IF kind.k = "io" /\ kind.size = 4 THEN "mem64" ELSE "mem",
                         size |-> Max({16, kind.size})]
              ELSE IF kind.k = "io" THEN kind ELSE [k |-> "io", size |-> 4]
  BY DEF Taken, kind
<1>7. /\ Taken.size \in Nat /\ Taken.k \in KindNames \ {"upper"}
      /\ Taken.k = "io" => Taken.size \in IoSizes
      /\ Taken.k = "mem" => Taken.size \in Nat \ {0}
      /\ Taken.k # "none" => kind.k # "none"
      /\ Taken.k = "mem64" => \/ kind.k = "mem64" /\ cur.c < 5
                              \/ kind.k = "io" /\ cur.r = Rom
      /\ kind.k # "upper" /\ (kind.k = "io" => cur.r # Rom) => Taken = kind
  <2>1. CASE kind.k \notin {"upper", "io"}
    BY <1>2, <1>5, <1>6, <2>1
  <2>2. CASE kind.k \in {"upper", "io"} /\ cur.r = Rom
    <3>1. Max({16, kind.size}) \in Nat \ {0}
      BY <1>2, AtLeast
    <3>2. PICK m \in Nat \ {0} : m = Max({16, kind.size})
      BY <3>1
    <3>3. Taken = [k |-> IF kind.k = "io" /\ kind.size = 4 THEN "mem64" ELSE "mem",
                   size |-> m]
      BY <1>6, <2>2, <3>2
    <3> QED
      BY <2>2, <3>2, <3>3 DEF KindNames
  <2>3. CASE kind.k = "io" /\ cur.r # Rom
    BY <1>2, <1>5, <1>6, <2>3
  <2>4. CASE kind.k = "upper" /\ cur.r # Rom
    <3>1. Taken = [k |-> "io", size |-> 4]
      BY <1>6, <2>4
    <3> QED
      BY <2>4, <3>1 DEF IoSizes, KindNames
  <2> QED
    BY <1>2, <2>1, <2>2, <2>3, <2>4
<1> QED
  BY <1>1, <1>3, <1>7 DEF IsWide, kind

LEMMA LocalsType ==
  ASSUME NEW old \in Locals, NEW r \in 0..Rom + 2, NEW c \in 0..Rom + 1,
         NEW bits \in SUBSET {"io", "mem"}, NEW rsc \in Seq(Entry)
  PROVE  /\ [old EXCEPT !.r = r, !.c = c, !.cmd = bits, !.rsc = rsc] \in Locals
         /\ [old EXCEPT !.r = r, !.c = c, !.cmd = bits] \in Locals
  BY DEF Locals

LEMMA SkipType ==
  ASSUME BusInv, LoopType, cur.r <= Rom, NEW regs \in {1, 2},
         NEW bits \in SUBSET {"io", "mem"}, Skip(regs, bits)
  PROVE  LoopType'
<1>1. cur \in Locals /\ cur.c <= cur.r
  BY DEF LoopType
<1>2. /\ cur.r + regs \in 0..Rom + 2 /\ cur.c + 1 \in 0..Rom + 1
      /\ cur.c + 1 <= cur.r + regs /\ cur.cmd \cup bits \in SUBSET {"io", "mem"}
  <2>1. cur.r \in 0..Rom + 2 /\ cur.c \in 0..Rom + 1 /\ cur.cmd \in SUBSET {"io", "mem"}
    BY <1>1 DEF Locals
  <2>2. cur.r + regs \in 0..Rom + 2 /\ cur.c + 1 \in 0..Rom + 1 /\ cur.c + 1 <= cur.r + regs
    BY <1>1, <2>1 DEF Rom
  <2>3. cur.cmd \cup bits \in SUBSET {"io", "mem"}
    BY <2>1
  <2> QED
    BY <2>2, <2>3
<1>3. cur' = [cur EXCEPT !.r = cur.r + regs, !.c = cur.c + 1, !.cmd = cur.cmd \cup bits]
  BY DEF Skip
<1>4. cur' \in Locals
  BY <1>1, <1>2, <1>3, LocalsType DEF Locals
<1>5. cur'.c <= cur'.r
  BY <1>1, <1>2, <1>3 DEF Locals
<1>6. UNCHANGED <<bus, pc, todo>>
  BY DEF Skip, hardware
<1> QED
  BY <1>4, <1>5, <1>6 DEF LoopType

\* What Assign does to the locals and to the registers.
NewEntry(val) == [reg |-> cur.r, space |-> val.space, last |-> FALSE, base |-> val.addr,
                  size |-> Taken.size]

LEMMA AssignType ==
  ASSUME BusInv, LoopType, RegisterType, cur.r <= Rom,
         NEW val \in [space : {"io", "mem"}, addr : Nat], Assign(val)
  PROVE  /\ LoopType'
         /\ reg' \in [Fcts -> [Regs -> Register]]
         /\ NewEntry(val) \in Entry
         /\ cur'.f = cur.f /\ cur'.r = cur.r + 1 /\ cur'.c = cur.c + 1
         /\ cur'.rsc = Append(cur.rsc, NewEntry(val))
         /\ cur'.cmd = cur.cmd \cup {val.space}
         /\ \A f \in Fcts, r \in Regs :
              reg'[f][r] = IF f = cur.f /\ r = cur.r THEN val ELSE reg[f][r]
<1>1. cur \in Locals /\ cur.c <= cur.r /\ cur.rsc \in Seq(Entry)
  BY DEF LoopType, Locals
<1>2. cur.f \in Fcts /\ cur.r \in Regs /\ cur.c \in Regs /\ Taken.size \in Nat
  BY TakenIs
<1>3. NewEntry(val) \in Entry
  BY <1>2 DEF NewEntry, Entry
<1>4. Append(cur.rsc, NewEntry(val)) \in Seq(Entry)
  BY <1>1, <1>3
<1>5. cur.r + 1 \in 0..Rom + 2 /\ cur.c + 1 \in 0..Rom + 1 /\ cur.c + 1 <= cur.r + 1
      /\ cur.cmd \cup {val.space} \in SUBSET {"io", "mem"}
  BY <1>1, <1>2 DEF Locals, Regs, Rom
<1>6. cur' = [cur EXCEPT !.r = cur.r + 1, !.c = cur.c + 1, !.cmd = cur.cmd \cup {val.space},
                         !.rsc = Append(cur.rsc, NewEntry(val))]
  BY DEF Assign, NewEntry
<1>7. cur' \in Locals
  BY <1>1, <1>4, <1>5, <1>6, LocalsType
<1>8. /\ cur'.f = cur.f /\ cur'.r = cur.r + 1 /\ cur'.c = cur.c + 1
      /\ cur'.rsc = Append(cur.rsc, NewEntry(val)) /\ cur'.cmd = cur.cmd \cup {val.space}
  BY <1>1, <1>6 DEF Locals
<1>9. UNCHANGED <<bus, pc, todo>>
  BY DEF Assign, hardware
<1>10. LoopType'
  BY <1>5, <1>7, <1>8, <1>9 DEF LoopType
<1>11. reg \in [Fcts -> [Regs -> Register]] /\ val \in Register
  BY DEF RegisterType, Register
<1>12. reg' = [reg EXCEPT ![cur.f] = [reg[cur.f] EXCEPT ![cur.r] = val]]
  BY <1>2, <1>11 DEF Assign
<1>13. reg' \in [Fcts -> [Regs -> Register]]
  BY <1>2, <1>11, <1>12
<1>14. \A f \in Fcts, r \in Regs :
         reg'[f][r] = IF f = cur.f /\ r = cur.r THEN val ELSE reg[f][r]
  BY <1>2, <1>11, <1>12
<1> QED
  BY <1>3, <1>8, <1>10, <1>13, <1>14

\* What the step to the subsystem's IDs does to them.
IdsEntry == [reg |-> Ids, space |-> "io", last |-> FALSE, base |-> ALIGN(io, 4), size |-> 4]

LEMMA IdsType ==
  ASSUME BusInv, LoopType, RegisterType, SkipToIds
  PROVE  /\ LoopType'
         /\ io' = ALIGN(ALIGN(io, 4) + 4, 1024) /\ io' \in Nat
         /\ KindOf(cur.f, cur.c).k = "mem64" /\ cur.c < 5 /\ cur.r = 5
         /\ cur'.f = cur.f /\ cur'.r = Rom /\ cur'.c = cur.c + 2
         /\ UNCHANGED <<bus, nv, stored, pc, todo, mem, reg, cmd, vga, vgaRsc, devices, line,
                        believed, language, piix>>
<1>1. cur \in Locals /\ cur.c <= cur.r /\ cur.rsc \in Seq(Entry)
      /\ cur.cmd \in SUBSET {"io", "mem"} /\ io \in Nat
  BY DEF LoopType, Locals, RegisterType
<1>2. cur.r = 5 /\ cur.r <= Rom /\ Taken.k = "mem64"
  BY DEF SkipToIds, InLoop, Rom
<1>3. KindOf(cur.f, cur.c).k = "mem64" /\ cur.c < 5 /\ cur.c \in Regs
  <2>1. IsWide /\ cur.c \in Regs
    BY <1>2, TakenIs
  <2> QED
    BY <1>2, <2>1 DEF IsWide, Rom
<1>4. ALIGN(io, 4) \in Nat
  <2>1. io \in Nat
    BY <1>1
  <2> QED
    BY <2>1, IdsEnd
<1>5. io' = ALIGN(ALIGN(io, 4) + 4, 1024)
  BY DEF SkipToIds
<1>6. io' \in Nat
  BY <1>1, <1>5, IdsEnd
<1>7. IdsEntry \in Entry
  BY <1>4 DEF IdsEntry, Entry
<1>8. PICK rsc : rsc = Append(cur.rsc, IdsEntry)
  OBVIOUS
<1>9. rsc \in Seq(Entry)
  BY <1>1, <1>7, <1>8
<1>10. PICK bits : bits = cur.cmd \cup {"io", "mem"}
  OBVIOUS
<1>11. bits \in SUBSET {"io", "mem"}
  BY <1>1, <1>10
<1>12. cur' = [cur EXCEPT !.r = Rom, !.c = cur.c + 2, !.cmd = bits, !.rsc = rsc]
  BY <1>8, <1>10 DEF SkipToIds, IdsEntry
<1>13. cur.c + 2 \in 0..Rom + 1 /\ cur.c + 2 <= Rom /\ Rom \in 0..Rom + 2
  BY <1>3 DEF Regs, Rom
<1>14. cur' \in Locals
  BY <1>1, <1>9, <1>11, <1>12, <1>13, LocalsType
<1>15. cur'.f = cur.f /\ cur'.r = Rom /\ cur'.c = cur.c + 2
  BY <1>1, <1>12 DEF Locals
<1>16. UNCHANGED <<bus, nv, stored, pc, todo, mem, reg, cmd, vga, vgaRsc, devices, line,
                   believed, language, piix>>
  BY DEF SkipToIds, hardware, tables, settings
<1>17. LoopType'
  BY <1>13, <1>14, <1>15, <1>16 DEF LoopType
<1> QED
  BY <1>2, <1>3, <1>5, <1>6, <1>15, <1>16, <1>17

LEMMA StartBarsType ==
  ASSUME reg \in [Fcts -> [Regs -> Register]], NEW f \in Fcts, StartBars(f)
  PROVE  /\ cur' \in Locals /\ cur'.c <= cur'.r
         /\ cur'.f = f /\ cur'.r = 0 /\ cur'.c = 0 /\ cur'.rsc = <<>> /\ cur'.cmd = {}
         /\ reg' \in [Fcts -> [Regs -> Register]]
         /\ \A g \in Fcts \ {f} : reg'[g] = reg[g]
<1>1. cur' = [f |-> f, r |-> 0, c |-> 0, cmd |-> {}, rsc |-> <<>>]
  BY DEF StartBars
<1>2. <<>> \in Seq(Entry) /\ 0 \in 0..Rom + 2 /\ 0 \in 0..Rom + 1
  BY DEF Rom
<1>3. cur' \in Locals
  BY <1>1, <1>2 DEF Locals
<1> DEFINE answers == [r \in Regs |-> IF KindOf(f, r).k = "none" THEN Zero ELSE Ones]
<1>4. Zero \in Register /\ Ones \in Register
  BY DEF Zero, Ones, Register
<1>5. answers \in [Regs -> Register]
  BY <1>4
<1>6. reg' = [reg EXCEPT ![f] = answers]
  BY DEF StartBars
<1> HIDE DEF answers
<1>7. reg' \in [Fcts -> [Regs -> Register]] /\ \A g \in Fcts \ {f} : reg'[g] = reg[g]
  BY <1>5, <1>6
<1> QED
  BY <1>1, <1>3, <1>7

----------------------------------------------------------------------------
(* The interrupts                                                            *)

IntBytes == <<nvram_read(believed, nv, 49) % 16, nvram_read(believed, nv, 49) \div 16,
              nvram_read(believed, nv, 50) % 16, nvram_read(believed, nv, 50) \div 16>>

LEMMA Until ==
  ASSUME NEW ints \in [1..4 -> Nat]
  PROVE  \E n \in 1..4 : (\A i \in 2..n : ints[i] # 0) /\ (n = 4 \/ ints[n + 1] = 0)
<1>1. CASE ints[2] = 0
  <2> WITNESS 1 \in 1..4
  <2> QED
    BY <1>1
<1>2. CASE ints[2] # 0 /\ ints[3] = 0
  <2> WITNESS 2 \in 1..4
  <2> QED
    BY <1>2
<1>3. CASE ints[2] # 0 /\ ints[3] # 0 /\ ints[4] = 0
  <2> WITNESS 3 \in 1..4
  <2> QED
    BY <1>3
<1>4. CASE ints[2] # 0 /\ ints[3] # 0 /\ ints[4] # 0
  <2> WITNESS 4 \in 1..4
  <2> QED
    BY <1>4
<1> QED
  BY <1>1, <1>2, <1>3, <1>4

\* There is always an interrupt for PCI, and each can be had.
LEMMA FreeIs ==
  ASSUME nv \in Content
  PROVE  free_isa_ints \in Seq(valid_int \ {0}) /\ Len(free_isa_ints) \in 1..4
<1>1. \A adr \in {49, 50} : nvram_read(believed, nv, adr) \in Byte
  <2>1. \A adr \in {49, 50} : adr \in Cells /\ nv.at[adr] \in Byte
    BY DEF Content, Cells, IntCells
  <2> QED
    BY <2>1 DEF nvram_read, Byte
<1>2. IntBytes \in [1..4 -> Nat]
  <2>1. \A b \in Byte : b % 16 \in Nat /\ b \div 16 \in Nat
    BY DEF Byte
  <2> QED
    BY <1>1, <2>1 DEF IntBytes
<1> DEFINE until == CHOOSE n \in 1..4 : /\ \A i \in 2..n : IntBytes[i] # 0
                                        /\ n = 4 \/ IntBytes[n + 1] = 0
<1>3. until \in 1..4 /\ \A i \in 2..until : IntBytes[i] # 0
  BY <1>2, Until
<1>4. free_isa_ints = IF IntBytes[1] = 0 \/ \E i \in 1..4 : IntBytes[i] \notin valid_int
                      THEN <<9, 11>> ELSE SubSeq(IntBytes, 1, until)
  BY DEF free_isa_ints, IntBytes
<1> HIDE DEF until
<1>5. CASE IntBytes[1] = 0 \/ \E i \in 1..4 : IntBytes[i] \notin valid_int
  <2>1. free_isa_ints = <<9, 11>>
    BY <1>4, <1>5
  <2>2. 9 \in valid_int \ {0} /\ 11 \in valid_int \ {0}
    BY DEF valid_int
  <2> HIDE DEF valid_int
  <2>3. <<9, 11>> \in Seq(valid_int \ {0}) /\ Len(<<9, 11>>) = 2
    BY ONLY <2>2
  <2> QED
    BY ONLY <2>1, <2>3
<1>6. CASE IntBytes[1] # 0 /\ \A i \in 1..4 : IntBytes[i] \in valid_int
  <2>1. free_isa_ints = SubSeq(IntBytes, 1, until)
    BY <1>4, <1>6
  <2>2. \A i \in 1..until : IntBytes[i] \in valid_int \ {0}
    BY <1>3, <1>6
  <2>3. PICK s \in Seq(Nat) : s = IntBytes /\ Len(s) = 4
    <3>1. \A b, c, d, e \in Nat : <<b, c, d, e>> \in Seq(Nat) /\ Len(<<b, c, d, e>>) = 4
      OBVIOUS
    <3>2. \A i \in 1..4 : IntBytes[i] \in Nat
      BY <1>2
    <3>3. IntBytes = <<IntBytes[1], IntBytes[2], IntBytes[3], IntBytes[4]>>
      BY DEF IntBytes
    <3>4. PICK b \in Nat, c \in Nat, d \in Nat, e \in Nat : IntBytes = <<b, c, d, e>>
      BY ONLY <3>2, <3>3
    <3> QED
      BY ONLY <3>1, <3>4
  <2>4. /\ Len(SubSeq(IntBytes, 1, until)) = until
        /\ \A i \in 1..until : SubSeq(IntBytes, 1, until)[i] = IntBytes[i]
        /\ SubSeq(IntBytes, 1, until) \in Seq(Nat)
    <3>1. /\ Len(SubSeq(s, 1, until)) = until
          /\ \A i \in 1..until : SubSeq(s, 1, until)[i] = s[i]
          /\ SubSeq(s, 1, until) \in Seq(Nat)
      <4>1. until \in 1..4
        BY ONLY <1>3
      <4>2. PICK u \in 1..4 : u = until
        BY ONLY <4>1
      <4>3. 1 \in Int /\ u \in Int /\ \A i \in 1..u : s[i] \in Nat
        BY ONLY <2>3, <4>2
      <4>4. /\ SubSeq(s, 1, u) \in Seq(Nat)
            /\ Len(SubSeq(s, 1, u)) = IF 1 <= u THEN u - 1 + 1 ELSE 0
            /\ \A i \in 1..u - 1 + 1 : SubSeq(s, 1, u)[i] = s[1 + i - 1]
        BY ONLY <4>3, SubSeqProperties
      <4>5. /\ Len(SubSeq(s, 1, u)) = u
            /\ \A i \in 1..u : SubSeq(s, 1, u)[i] = s[i]
        BY ONLY <4>2, <4>4
      <4> QED
        BY ONLY <4>2, <4>4, <4>5
    <3> QED
      BY ONLY <2>3, <3>1
  <2>5. PICK t \in Seq(Nat) : t = free_isa_ints
    BY ONLY <2>1, <2>4
  <2>6. Len(t) = until /\ \A i \in 1..until : t[i] \in valid_int \ {0}
    BY ONLY <2>1, <2>2, <2>4, <2>5
  <2>7. t \in Seq(valid_int \ {0}) /\ Len(t) \in 1..4
    BY ONLY <1>3, <2>6
  <2> QED
    BY ONLY <2>5, <2>7
<1> QED
  BY <1>5, <1>6

\* The lines in use have one each, and share one only for want of more.
LEMMA RoutingIs ==
  ASSUME nv \in Content, devices \in Seq(Device)
  PROVE  /\ Routing \in [1..4 -> valid_int] /\ LinesUsed \subseteq 1..4
         /\ \A l \in LinesUsed : Routing[l] \in valid_int \ {0}
         /\ \A k, l \in LinesUsed : k # l /\ Routing[k] = Routing[l] =>
              Len(free_isa_ints) < Cardinality(LinesUsed) \/ ~IsInjective(free_isa_ints)
<1>1. LinesUsed \subseteq 1..4
  <2>1. \A i \in DOMAIN devices : devices[i] \in Device
    OBVIOUS
  <2> QED
    BY <2>1 DEF LinesUsed, Device
<1>2. IsFiniteSet(LinesUsed) /\ Cardinality(LinesUsed) \in Nat
  <2>1. 1 \in Int /\ 4 \in Int
    OBVIOUS
  <2>2. IsFiniteSet(1..4)
    BY ONLY <2>1, FS_Interval
  <2> QED
    BY ONLY <1>1, <2>2, FS_Subset, FS_CardinalityType
<1> DEFINE Below(l) == {k \in LinesUsed : k < l}
           turn(l) == 1 + (Cardinality(Below(l)) % Len(free_isa_ints))
<1>3. \A l \in LinesUsed : /\ Cardinality(Below(l)) \in Nat
                           /\ Cardinality(Below(l)) < Cardinality(LinesUsed)
  <2> TAKE l \in LinesUsed
  <2>1. Below(l) \in SUBSET LinesUsed /\ Below(l) # LinesUsed
    BY <1>1
  <2> HIDE DEF Below
  <2>2. IsFiniteSet(Below(l)) /\ Cardinality(Below(l)) <= Cardinality(LinesUsed)
        /\ Cardinality(Below(l)) # Cardinality(LinesUsed)
    BY <1>2, <2>1, FS_Subset
  <2>3. Cardinality(Below(l)) \in Nat
    BY <2>2, FS_CardinalityType
  <2> QED
    BY <1>2, <2>2, <2>3
<1>4. \A k, l \in LinesUsed : k < l => Cardinality(Below(k)) # Cardinality(Below(l))
  <2> SUFFICES ASSUME NEW k \in LinesUsed, NEW l \in LinesUsed, k < l
               PROVE  Cardinality(Below(k)) # Cardinality(Below(l))
    OBVIOUS
  <2>0. \A j \in LinesUsed : j \in Nat
    BY <1>1
  <2>1. Below(k) \in SUBSET Below(l) /\ k \in Below(l) /\ k \notin Below(k)
    BY <2>0
  <2>2. IsFiniteSet(Below(l))
    BY <1>2, FS_Subset
  <2> HIDE DEF Below
  <2> QED
    BY <2>1, <2>2, FS_Subset
<1>5. /\ Len(free_isa_ints) \in 1..4
      /\ \A i \in 1..Len(free_isa_ints) : free_isa_ints[i] \in valid_int \ {0}
      /\ DOMAIN free_isa_ints = 1..Len(free_isa_ints)
  BY FreeIs
<1>6. Routing = [l \in 1..4 |-> IF l \in LinesUsed THEN free_isa_ints[turn(l)] ELSE 0]
  BY DEF Routing
<1> HIDE DEF Below
<1>7. \A l \in LinesUsed : turn(l) \in 1..Len(free_isa_ints)
  BY <1>3, <1>5
<1>8. \A l \in LinesUsed : Routing[l] = free_isa_ints[turn(l)]
                           /\ Routing[l] \in valid_int \ {0}
  BY <1>1, <1>5, <1>6, <1>7
<1>9. Routing \in [1..4 -> valid_int]
  <2>1. 0 \in valid_int
    BY DEF valid_int
  <2> QED
    BY <1>6, <1>8, <2>1
<1>10. ASSUME NEW k \in LinesUsed, NEW l \in LinesUsed, k # l, Routing[k] = Routing[l],
              ~(Len(free_isa_ints) < Cardinality(LinesUsed))
       PROVE  ~IsInjective(free_isa_ints)
  <2>1. turn(k) = 1 + Cardinality(Below(k)) /\ turn(l) = 1 + Cardinality(Below(l))
    <3>1. \A n \in 1..4 : \A c \in Nat : c < n => c % n = c
      OBVIOUS
    <3>2. Cardinality(Below(k)) < Len(free_isa_ints)
          /\ Cardinality(Below(l)) < Len(free_isa_ints)
      BY <1>2, <1>3, <1>5, <1>10
    <3> QED
      BY <1>3, <1>5, <3>1, <3>2
  <2>2. k \in 1..4 /\ l \in 1..4
    BY <1>1
  <2>3. Cardinality(Below(k)) # Cardinality(Below(l))
    BY <1>4, <1>10, <2>2
  <2>4. turn(k) # turn(l)
    BY <1>3, <2>1, <2>3
  <2>5. free_isa_ints[turn(k)] = free_isa_ints[turn(l)]
    BY <1>8, <1>10
  <2> HIDE DEF turn
  <2> QED
    BY <1>5, <1>7, <2>4, <2>5 DEF IsInjective
<1> QED
  BY <1>1, <1>8, <1>9, <1>10

----------------------------------------------------------------------------
(* The types are kept: the rest of the PCI setup                             *)

LEMMA ResourcesAre ==
  ASSUME LoopType, NEW room \in Int
  PROVE  /\ Resources(room) \in Lists
         /\ Len(Resources(room).entries) = Len(cur.rsc)
         /\ \A i \in 1..Len(cur.rsc) :
              Resources(room).entries[i] = [cur.rsc[i] EXCEPT !.last = (i = Len(cur.rsc))]
         /\ Resources(room).blank = room - Len(cur.rsc)
         /\ Resources(room).before <=> Counted /\ cur.rsc = <<>>
<1>1. cur.rsc \in Seq(Entry)
  BY DEF LoopType, Locals
<1>2. DOMAIN cur.rsc = 1..Len(cur.rsc) /\ Len(cur.rsc) \in Nat
      /\ \A i \in 1..Len(cur.rsc) : cur.rsc[i] \in Entry
  BY <1>1
<1>3. \A i \in 1..Len(cur.rsc) :
        [cur.rsc[i] EXCEPT !.last = (i = Len(cur.rsc))] \in Entry
  <2>1. ASSUME NEW e \in Entry, NEW b \in BOOLEAN PROVE [e EXCEPT !.last = b] \in Entry
    BY <2>1 DEF Entry
  <2> QED
    BY <1>2, <2>1
<1>4. PICK rsc : rsc = [i \in 1..Len(cur.rsc) |->
                          [cur.rsc[i] EXCEPT !.last = (i = Len(cur.rsc))]]
  OBVIOUS
<1>5. PICK before \in BOOLEAN : before = (Counted /\ cur.rsc = <<>>)
  OBVIOUS
<1>6. Resources(room) = [entries |-> rsc, blank |-> room - Len(cur.rsc), before |-> before]
  BY <1>2, <1>4, <1>5 DEF Resources, List
<1>7. rsc \in [1..Len(cur.rsc) -> Entry]
  BY <1>3, <1>4
<1>8. rsc \in Seq(Entry) /\ Len(rsc) = Len(cur.rsc)
  BY ONLY <1>2, <1>7
<1>9. room - Len(cur.rsc) \in Int
  BY <1>2
<1>10. Resources(room) \in Lists
  BY ONLY <1>5, <1>6, <1>8, <1>9 DEF Lists
<1>11. /\ Resources(room).entries = rsc /\ Resources(room).before = before
       /\ Resources(room).blank = room - Len(cur.rsc)
  BY ONLY <1>6
<1>12. \A i \in 1..Len(cur.rsc) : rsc[i] = [cur.rsc[i] EXCEPT !.last = (i = Len(cur.rsc))]
  BY <1>4
<1> QED
  BY <1>5, <1>8, <1>10, <1>11, <1>12

\* How many registers have answered.
LEMMA AnsweredAre ==
  Cardinality(Answered) \in Int /\ (Cardinality(Answered) > 0 <=> Counted)
<1>1. IsFiniteSet(Regs)
  <2>1. PICK n, m : n = 0 /\ m = Rom
    OBVIOUS
  <2>2. n \in Int /\ m \in Int
    BY <2>1 DEF Rom
  <2>3. IsFiniteSet(n..m)
    BY ONLY <2>2, FS_Interval
  <2> QED
    BY <2>1, <2>3 DEF Regs
<1>2. IsFiniteSet(Answered)
  BY <1>1, FS_Subset DEF Answered
<1>3. Cardinality(Answered) \in Nat /\ (Cardinality(Answered) = 0 <=> Answered = {})
  BY <1>2, FS_CardinalityType, FS_EmptySet
<1> QED
  BY <1>3 DEF Counted

LEMMA EndBarsIs ==
  ASSUME LoopType, RegisterType, NEW more \in SUBSET Bits, EndBars(more)
  PROVE  /\ io' = io /\ reg' = reg /\ cur' = cur
         /\ mem' \in Nat /\ mem' = IF Counted THEN ALIGN(mem, 8192) ELSE mem
         /\ cmd' \in [Fcts -> SUBSET Bits]
         /\ \A f \in Fcts \ {cur.f} : cmd'[f] = cmd[f]
         /\ UNCHANGED <<bus, nv, stored, believed, language, piix>>
<1>1. cur.f \in Fcts /\ cur.cmd \in SUBSET Bits
  BY DEF LoopType, Locals, Bits
<1>2. mem' \in Nat /\ mem' = IF Counted THEN ALIGN(mem, 8192) ELSE mem
  <2>1. mem \in Nat
    BY DEF RegisterType
  <2>2. mem' = IF Counted THEN ALIGN(mem, 8192) ELSE mem
    BY DEF EndBars
  <2> QED
    BY <2>1, <2>2, PageEnd
<1>3. PICK bits : cmd' = [cmd EXCEPT ![cur.f] = bits] /\ bits \in SUBSET Bits
  <2>1. cmd \in [Fcts -> SUBSET Bits]
    BY DEF RegisterType
  <2>2. cmd' = [cmd EXCEPT ![cur.f] =
                  cmd[cur.f] \cup more \cup IF Counted THEN cur.cmd \cup {"master"} ELSE {}]
    BY <1>1, <2>1 DEF EndBars
  <2>3. cmd[cur.f] \cup more \cup (IF Counted THEN cur.cmd \cup {"master"} ELSE {})
          \in SUBSET Bits
    BY <1>1, <2>1 DEF Bits
  <2> QED
    BY <2>2, <2>3
<1>4. cmd' \in [Fcts -> SUBSET Bits] /\ \A f \in Fcts \ {cur.f} : cmd'[f] = cmd[f]
  BY <1>1, <1>3 DEF RegisterType
<1>5. io' = io /\ reg' = reg /\ cur' = cur
      /\ UNCHANGED <<bus, nv, stored, believed, language, piix>>
  BY DEF EndBars, hardware, settings
<1> QED
  BY <1>2, <1>4, <1>5

\* The device that EnterDevice enters.
LineOf(f) == IF bus[f].pin \in 1..4 THEN interrupt_table[f[1]][bus[f].pin] ELSE 0
DeviceOf(f, rsc) == [f |-> f, resources |-> rsc, pci_interrupt |-> LineOf(f),
                     isa_interrupt |-> 0]

LEMMA EnterDeviceIs ==
  ASSUME BusInv, LoopType, RegisterType, TableType, NEW f \in DOMAIN bus,
         NEW rsc \in Lists, todo # <<>>, EnterDevice(f, rsc)
  PROVE  /\ DeviceOf(f, rsc) \in Device /\ devices' = Append(devices, DeviceOf(f, rsc))
         /\ Len(devices') = Len(devices) + 1 /\ devices' \in Seq(Device)
         /\ \A i \in 1..Len(devices) : devices'[i] = devices[i]
         /\ devices'[Len(devices) + 1] = DeviceOf(f, rsc)
         /\ todo' = Tail(todo) /\ todo' \in Seq(DOMAIN bus) /\ Len(todo') = Len(todo) - 1
         /\ \A i \in 1..Len(todo') : todo'[i] = todo[i + 1]
         /\ line' \in [Fcts -> Byte]
<1>1. f \in Fcts /\ f[1] \in 1..5
  BY BusType
<1>2. LineOf(f) \in 0..4
  <2>1. \A a \in 1..5, b \in 1..4 : interrupt_table[a][b] \in 0..4
    BY DEF interrupt_table
  <2> QED
    BY <1>1, <2>1 DEF LineOf
<1>3. DeviceOf(f, rsc) \in Device
  BY <1>1, <1>2 DEF DeviceOf, Device, valid_int
<1>4. devices' = Append(devices, DeviceOf(f, rsc)) /\ line' = [line EXCEPT ![f] = LineOf(f)]
      /\ todo' = Tail(todo)
  BY DEF EnterDevice, DeviceOf, LineOf
<1>5. /\ Len(devices') = Len(devices) + 1 /\ devices' \in Seq(Device)
      /\ \A i \in 1..Len(devices) : devices'[i] = devices[i]
      /\ devices'[Len(devices) + 1] = DeviceOf(f, rsc)
  <2>1. devices \in Seq(Device)
    BY DEF TableType
  <2> QED
    BY ONLY <1>3, <1>4, <2>1, AppendProperties
<1>6. /\ todo' \in Seq(DOMAIN bus) /\ Len(todo') = Len(todo) - 1
      /\ \A i \in 1..Len(todo') : todo'[i] = todo[i + 1]
  <2>1. todo \in Seq(DOMAIN bus) /\ todo # <<>>
    BY DEF LoopType
  <2> QED
    BY ONLY <1>4, <2>1, HeadTailProperties
<1>7. line' \in [Fcts -> Byte]
  <2>1. LineOf(f) \in Byte
    BY <1>2 DEF Byte
  <2>2. line \in [Fcts -> Byte]
    BY DEF RegisterType
  <2> QED
    BY ONLY <1>4, <2>1, <2>2
<1> QED
  BY <1>3, <1>4, <1>5, <1>6, <1>7

\* What the setup of the card leaves to the setup of PCI.
LEMMA SetupLeaves ==
  ASSUME SetupStep
  PROVE  /\ pc = "nvram" /\ UNCHANGED <<hardware, pc, todo, cur, io, mem, tables>>
         /\ UNCHANGED <<settings, piix>>
<1>1. CASE WakeUp
  BY <1>1 DEF WakeUp, At
<1>2. CASE PowerClocks
  BY <1>2 DEF PowerClocks, At
<1>3. CASE TestClocks
  <2>1. PICK seen \in SUBSET clocks : At("test", IF seen = Clocks THEN "tables" ELSE "clocks")
    BY <1>3 DEF TestClocks
  <2> QED
    BY <2>1 DEF At
<1>4. CASE WriteTables
  BY <1>4 DEF WriteTables, At
<1>5. CASE NoCard \/ EnableVgaRom \/ DisableVgaRom
  BY <1>5 DEF NoCard, EnableVgaRom, DisableVgaRom, At
<1>6. CASE Service \/ BiosEnds \/ TextMode
  BY <1>6 DEF Service, BiosEnds, TextMode, At
<1> QED
  BY <1>1, <1>2, <1>3, <1>4, <1>5, <1>6 DEF SetupStep

LEMMA HardwareKept == [SetupNext]_allVars => UNCHANGED <<bus, nv, stored>>
<1> SUFFICES ASSUME [SetupNext]_allVars PROVE UNCHANGED <<bus, nv, stored>>
  OBVIOUS
<1>1. CASE SetupStep
  BY <1>1, SetupLeaves DEF hardware
<1>2. CASE PciStep
  <2>1. Next
    BY <1>2 DEF PciStep
  <2> QED
    BY <2>1 DEF Next, Preinit, VgaDone, NvramInit, ConfigVga, Config, ConfigVme, VmeOff,
           ConfigDone, Route, Unused, Ignore64, Ignore1M, MapIo, MapMem, SkipToIds, Skip,
           Assign, EndBars,
           hardware
<1>3. CASE UNCHANGED allVars
  BY <1>3 DEF allVars, vars, hardware
<1> QED
  BY <1>1, <1>2, <1>3 DEF SetupNext

LEMMA BusStep == BusInv /\ [SetupNext]_allVars => BusInv'
<1> SUFFICES ASSUME BusInv, [SetupNext]_allVars PROVE BusInv'
  OBVIOUS
<1>1. UNCHANGED <<bus, nv, stored>>
  BY HardwareKept
<1> QED
  BY <1>1 DEF BusInv, Plugged

----------------------------------------------------------------------------
(* The PCI services of the BIOS                                              *)

LEMMA CodeIs ==
  /\ \A s \in SUBSET Bits : Code(s) \in 0..7
  /\ \A n \in 0..7 : \E s \in SUBSET Bits : Code(s) = n
<1>1. \A s \in SUBSET Bits : Code(s) \in 0..7
  BY DEF Code
<1>2. ASSUME NEW n \in 0..7 PROVE \E s \in SUBSET Bits : Code(s) = n
  <2> DEFINE s == {b \in Bits : \/ b = "io" /\ n \in {1, 3, 5, 7}
                                \/ b = "mem" /\ n \in {2, 3, 6, 7}
                                \/ b = "master" /\ n \in {4, 5, 6, 7}}
  <2>1. s \in SUBSET Bits
    OBVIOUS
  <2>2. /\ "io" \in s <=> n \in {1, 3, 5, 7}
        /\ "mem" \in s <=> n \in {2, 3, 6, 7}
        /\ "master" \in s <=> n \in {4, 5, 6, 7}
    BY DEF Bits
  <2> HIDE DEF s
  <2>3. Code(s) = n
    BY <2>2 DEF Code
  <2> QED
    BY <2>1, <2>3
<1> QED
  BY <1>1, <1>2

\* The errors can be told from their code.
LEMMA ErrorCodeIs ==
  ASSUME NEW errors \in SUBSET Errors
  PROVE  ErrorCode(errors) \in Byte /\ ErrorsIn(ErrorCode(errors)) = errors
<1>1. \A e : ErrorCode({e}) = IF e = "abort" THEN 32 ELSE IF e = "parity" THEN 128 ELSE 0
  BY DEF ErrorCode
<1>2. PICK code : code = ErrorCode(errors)
  OBVIOUS
<1>3. /\ code = (IF "abort" \in errors THEN 32 ELSE 0)
                  + (IF "parity" \in errors THEN 128 ELSE 0)
      /\ code \in {0, 32, 128, 160}
  BY <1>2 DEF ErrorCode
<1>4. /\ (code \div 32) % 2 = 1 <=> "abort" \in errors
      /\ (code \div 128) % 2 = 1 <=> "parity" \in errors
  BY ONLY <1>3
<1>5. ASSUME NEW e \in Errors PROVE (code \div ErrorCode({e})) % 2 = 1 <=> e \in errors
  <2>1. CASE e = "abort"
    <3>1. ErrorCode({e}) = 32
      BY <1>1, <2>1
    <3> QED
      BY <1>4, <2>1, <3>1
  <2>2. CASE e = "parity"
    <3>1. ErrorCode({e}) = 128
      BY <1>1, <2>2
    <3> QED
      BY <1>4, <2>2, <3>1
  <2> QED
    BY <2>1, <2>2 DEF Errors
<1>6. ErrorsIn(code) = errors
  BY <1>5 DEF ErrorsIn
<1> QED
  BY <1>2, <1>3, <1>6 DEF Byte

Known == {Command, InterruptLine, Own}

\* What is read is bytes.
LEMMA DwordType ==
  ASSUME BusInv, RegisterType, own \in [1..4 -> Byte], status \in SUBSET Errors,
         vga \in DOMAIN bus, NEW d \in Known
  PROVE  Dword(d) \in [1..4 -> Byte]
<1>1. vga \in Fcts /\ bus[vga].pin \in Byte
  BY BusType DEF Function
<1>2. line[vga] \in Byte /\ Code(cmd[vga]) \in 0..7
  BY <1>1, CodeIs DEF RegisterType
<1>3. 0 \in Byte /\ Code(cmd[vga]) \in Byte
  BY <1>2 DEF Byte
<1>4. Command # InterruptLine /\ Command # Own /\ InterruptLine # Own
  BY DEF Command, InterruptLine, Own
<1>5. CASE d = Command
  <2>1. Dword(d) = <<Code(cmd[vga]), 0, 0, ErrorCode(status)>>
    BY <1>4, <1>5 DEF Dword
  <2>2. ErrorCode(status) \in Byte
    BY ErrorCodeIs
  <2> QED
    BY <1>3, <2>1, <2>2
<1>6. CASE d = InterruptLine
  <2>1. Dword(d) = <<line[vga], bus[vga].pin, 0, 0>>
    BY <1>4, <1>6 DEF Dword
  <2> QED
    BY <1>1, <1>2, <1>3, <2>1
<1>7. CASE d = Own
  <2>1. Dword(d) = own
    BY <1>4, <1>7 DEF Dword
  <2> QED
    BY <2>1
<1> QED
  BY <1>5, <1>6, <1>7 DEF Known

LEMMA PutDwordIs ==
  ASSUME BusInv, RegisterType, own \in [1..4 -> Byte], status \in SUBSET Errors,
         vga \in DOMAIN bus, NEW d \in Known,
         NEW bytes \in [1..4 -> Byte], PutDword(d, bytes)
  PROVE  /\ cmd' \in [Fcts -> SUBSET Bits] /\ \A f \in Fcts \ {vga} : cmd'[f] = cmd[f]
         /\ line' \in [Fcts -> Byte] /\ own' \in [1..4 -> Byte]
         /\ IF d = Command THEN Code(cmd'[vga]) = bytes[1] % 8 ELSE cmd' = cmd
         /\ IF d = InterruptLine THEN line'[vga] = bytes[1] ELSE line' = line
         /\ own' = IF d = Own THEN bytes ELSE own
         /\ status' = IF d = Command THEN status \ ErrorsIn(bytes[4]) ELSE status
         /\ status' \in SUBSET Errors
<1>1. vga \in Fcts /\ bytes[1] \in Byte
  BY BusType
<1>6. /\ status' = IF d = Command THEN status \ ErrorsIn(bytes[4]) ELSE status
      /\ status' \in SUBSET Errors
  BY DEF PutDword
<1>2. cmd \in [Fcts -> SUBSET Bits] /\ line \in [Fcts -> Byte]
  BY DEF RegisterType
<1>3. CASE d = Command
  <2> DEFINE bits == CHOOSE s \in SUBSET Bits : Code(s) = bytes[1] % 8
  <2>1. bytes[1] % 8 \in 0..7
    BY <1>1 DEF Byte
  <2>2. bits \in SUBSET Bits /\ Code(bits) = bytes[1] % 8
    BY <2>1, CodeIs
  <2>3. cmd' = [cmd EXCEPT ![vga] = bits]
    BY <1>3 DEF PutDword, Bits
  <2> HIDE DEF bits
  <2>4. cmd' \in [Fcts -> SUBSET Bits] /\ \A f \in Fcts \ {vga} : cmd'[f] = cmd[f]
    BY <1>1, <1>2, <2>2, <2>3
  <2>5. cmd'[vga] = bits
    BY <1>1, <1>2, <2>3
  <2>6. line' = line /\ own' = own /\ d # InterruptLine /\ d # Own
    BY <1>3 DEF PutDword, Command, InterruptLine, Own
  <2> QED
    BY <1>2, <1>3, <2>2, <2>4, <2>5, <2>6, <1>6
<1>4. CASE d = InterruptLine
  <2>1. line' = [line EXCEPT ![vga] = bytes[1]]
    BY <1>4 DEF PutDword
  <2>2. cmd' = cmd /\ own' = own /\ d # Command /\ d # Own
    BY <1>4 DEF PutDword, Command, InterruptLine, Own
  <2> QED
    BY <1>1, <1>2, <1>4, <2>1, <2>2, <1>6
<1>5. CASE d = Own
  <2>1. cmd' = cmd /\ line' = line /\ own' = bytes /\ d # Command /\ d # InterruptLine
    BY <1>5 DEF PutDword, Command, InterruptLine, Own
  <2> QED
    BY <1>2, <1>5, <2>1, <1>6
<1> QED
  BY <1>3, <1>4, <1>5, <1>6 DEF Known

\* Where the bytes of a service go, and that the others are written as they are.
LEMMA ServiceIs ==
  ASSUME BusInv, RegisterType, own \in [1..4 -> Byte], status \in SUBSET Errors,
         vga \in DOMAIN bus,
         card.bios # <<>>, NEW call, call = Head(card.bios), IsCall(call), Service
  PROVE  LET d == DwordOf(call.where)
             o == call.where % 4
         IN /\ d \in Known /\ o \in 0..3 /\ call.where = d + o
            /\ \E n \in {1, 2, 4} : DOMAIN call.bytes = 1..n /\ o + n <= 4
            /\ \E bytes \in [1..4 -> Byte] :
                 /\ PutDword(d, bytes)
                 /\ \A j \in 1..4 : bytes[j] = IF j - o \in DOMAIN call.bytes
                                               THEN call.bytes[j - o] ELSE Dword(d)[j]
<1> DEFINE d == DwordOf(call.where)
           o == call.where % 4
<1>1. PICK n \in {1, 2, 4} : call.bytes \in [1..n -> Byte] /\ call.where % n = 0
  BY DEF IsCall
<1>2. call.where \in 0..127 /\ d \in Known
  BY DEF IsCall, Known
<1>3. o \in 0..3 /\ call.where = d + o
  <2>1. \A w \in 0..127 : w % 4 \in 0..3 /\ w = DwordOf(w) + (w % 4)
    <3>1. \A w \in 0..127 : w % 4 \in 0..3 /\ w % 128 = w
      <4> TAKE w \in 0..127
      <4> QED
        BY ONLY w \in 0..127
    <3> QED
      BY ONLY <3>1 DEF DwordOf
  <2> QED
    BY <1>2, <2>1
<1>4. Len(call.bytes) = n /\ DOMAIN call.bytes = 1..n
  BY <1>1
<1>5. Dword(d) \in [1..4 -> Byte]
  BY <1>2, DwordType
<1> DEFINE Put(bytes) == /\ PutDword(d, bytes)
                         /\ \A j \in 1..4 : bytes[j] = IF j - o \in DOMAIN call.bytes
                                                       THEN call.bytes[j - o] ELSE Dword(d)[j]
<1> HIDE DEF d
<1>6. (CASE Len(call.bytes) = 1 -> WriteByte(call.where, call.bytes[1])
         [] Len(call.bytes) = 2 -> WriteWord(call.where, call.bytes)
         [] Len(call.bytes) = 4 -> WriteDword(call.where, call.bytes))
  BY DEF Service
<1>7. ASSUME n = 1 PROVE \E bytes \in [1..4 -> Byte] : Put(bytes)
  <2>1. WriteByte(call.where, call.bytes[1])
    BY ONLY <1>6, <1>4, <1>7
  <2>2. PutDword(d, [Dword(d) EXCEPT ![o + 1] = call.bytes[1]])
    BY <2>1 DEF WriteByte, d
  <2>3. call.bytes[1] \in Byte
    BY <1>1, <1>7
  <2>4. PICK bytes : bytes = [Dword(d) EXCEPT ![o + 1] = call.bytes[1]]
    OBVIOUS
  <2>5. bytes \in [1..4 -> Byte]
        /\ \A j \in 1..4 : bytes[j] = IF j = o + 1 THEN call.bytes[1] ELSE Dword(d)[j]
    BY <1>3, <1>5, <2>3, <2>4
  <2>6. \A j \in 1..4 : j - o \in 1..1 <=> j = o + 1
    BY <1>3
  <2>7. \A j \in 1..4 : bytes[j] = IF j - o \in DOMAIN call.bytes
                                   THEN call.bytes[j - o] ELSE Dword(d)[j]
    BY <1>3, <1>4, <1>7, <2>5, <2>6
  <2> QED
    BY <2>2, <2>4, <2>5, <2>7
<1>8. ASSUME n = 2 PROVE o + n <= 4 /\ \E bytes \in [1..4 -> Byte] : Put(bytes)
  <2>1. WriteWord(call.where, call.bytes)
    BY ONLY <1>6, <1>4, <1>8
  <2>2. 2 * ((call.where % 4) \div 2) = o /\ o \in {0, 2}
    <3>1. \A w \in 0..127 : w % 2 = 0 => 2 * ((w % 4) \div 2) = w % 4 /\ w % 4 \in {0, 2}
      OBVIOUS
    <3> QED
      BY <1>1, <1>2, <1>8, <3>1
  <2>3. PutDword(d, [Dword(d) EXCEPT ![o + 1] = call.bytes[1], ![o + 2] = call.bytes[2]])
    BY <2>1, <2>2 DEF WriteWord, d
  <2>4. call.bytes[1] \in Byte /\ call.bytes[2] \in Byte
    BY <1>1, <1>8
  <2>5. PICK bytes : bytes = [Dword(d) EXCEPT ![o + 1] = call.bytes[1],
                                              ![o + 2] = call.bytes[2]]
    OBVIOUS
  <2> HIDE DEF o
  <2>6. bytes \in [1..4 -> Byte]
        /\ \A j \in 1..4 : bytes[j] = IF j = o + 1 THEN call.bytes[1]
                                      ELSE IF j = o + 2 THEN call.bytes[2] ELSE Dword(d)[j]
    BY <1>5, <2>2, <2>4, <2>5
  <2>7. \A j \in 1..4 : bytes[j] = IF j - o \in DOMAIN call.bytes
                                   THEN call.bytes[j - o] ELSE Dword(d)[j]
    BY <1>4, <1>8, <2>2, <2>6
  <2> QED
    <3>1. o + n <= 4
      BY ONLY <1>8, <2>2
    <3>2. Put(bytes)
      BY <2>3, <2>5, <2>7
    <3> HIDE DEF Put
    <3> QED
      BY ONLY <2>6, <3>1, <3>2
<1>9. ASSUME n = 4 PROVE o + n <= 4 /\ \E bytes \in [1..4 -> Byte] : Put(bytes)
  <2>1. WriteDword(call.where, call.bytes)
    BY ONLY <1>6, <1>4, <1>9
  <2>2. o = 0
    BY <1>1, <1>9
  <2>3. PutDword(d, call.bytes)
    BY <2>1 DEF WriteDword, d
  <2>4. call.bytes \in [1..4 -> Byte]
    BY <1>1, <1>9
  <2>5. \A j \in 1..4 : call.bytes[j] = IF j - o \in DOMAIN call.bytes
                                        THEN call.bytes[j - o] ELSE Dword(d)[j]
    BY <1>4, <1>9, <2>2
  <2> QED
    <3>1. o + n <= 4
      BY ONLY <1>9, <2>2
    <3>2. Put(call.bytes)
      BY <2>3, <2>5
    <3> HIDE DEF Put
    <3> QED
      BY ONLY <2>4, <3>1, <3>2
<1>10. o + n <= 4 /\ \E bytes \in [1..4 -> Byte] : Put(bytes)
  <2> HIDE DEF Put, o
  <2>1. n = 1 \/ n = 2 \/ n = 4
    OBVIOUS
  <2>2. n = 1 => o + n <= 4
    BY ONLY <1>3
  <2> QED
    BY ONLY <1>7, <1>8, <1>9, <2>1, <2>2
<1> QED
  BY <1>2, <1>3, <1>4, <1>10 DEF d

----------------------------------------------------------------------------
(* The types are kept: the setup of the card                                 *)

Registered == /\ reg' \in [Fcts -> [Regs -> Register]]
              /\ cmd' \in [Fcts -> SUBSET Bits] /\ line' \in [Fcts -> Byte]
              /\ own' \in [1..4 -> Byte] /\ status' \in SUBSET Errors

LEMMA EnableVgaRomIs ==
  ASSUME TypeInv, EnableVgaRom
  PROVE  /\ vga \in DOMAIN bus /\ Registered /\ stage = "off" /\ stage' = "copy"
         /\ \A f \in Fcts, r \in Regs :
              reg'[f][r] # reg[f][r] =>
                f = vga /\ r = Rom /\ reg'[f][r] = Mem(LegacyRom)
         /\ \A f \in Fcts \ {vga} : cmd'[f] = cmd[f]
<1>1. BusInv /\ RegisterType /\ own \in [1..4 -> Byte] /\ status \in SUBSET Errors
  BY DEF TypeInv, StageInv
<1>2. vga \in DOMAIN bus /\ vga \in Fcts /\ Rom \in Regs
  BY <1>1, BusType DEF TypeInv, TableType, EnableVgaRom, HasVga, Rom, Regs
<1>3. stage = "off" /\ stage' = "copy"
  BY DEF EnableVgaRom, At
<1>4. /\ cmd' \in [Fcts -> SUBSET Bits] /\ line' \in [Fcts -> Byte]
      /\ own' \in [1..4 -> Byte] /\ status' \in SUBSET Errors
      /\ \A f \in Fcts \ {vga} : cmd'[f] = cmd[f]
  <2>1. DwordOf(Command) = Command /\ (Command % 4) + 1 = 1 /\ Command \in Known
    BY DEF DwordOf, Command, Known
  <2>2. PICK bytes : bytes = [Dword(Command) EXCEPT ![1] = 3]
    OBVIOUS
  <2>3. PutDword(Command, bytes)
    BY <2>1, <2>2 DEF EnableVgaRom, WriteByte
  <2>4. Dword(Command) \in [1..4 -> Byte]
    BY <1>1, <1>2, <2>1, DwordType
  <2>5. bytes \in [1..4 -> Byte]
    BY <2>2, <2>4 DEF Byte
  <2> QED
    BY <1>1, <1>2, <2>1, <2>3, <2>5, PutDwordIs
<1>5. /\ reg' \in [Fcts -> [Regs -> Register]]
      /\ \A f \in Fcts, r \in Regs :
           reg'[f][r] # reg[f][r] => f = vga /\ r = Rom /\ reg'[f][r] = Mem(LegacyRom)
  <2>1. reg \in [Fcts -> [Regs -> Register]]
    BY <1>1 DEF RegisterType
  <2>2. Mem(LegacyRom) \in Register
    BY DEF Mem, LegacyRom, Register
  <2>3. CASE reg' = reg
    BY <2>1, <2>3
  <2>4. CASE reg' = [reg EXCEPT ![vga][Rom] = Mem(LegacyRom)]
    <3>1. PICK w : w = Mem(LegacyRom) /\ w \in Register
      BY <2>2
    <3>2. reg' = [reg EXCEPT ![vga] = [reg[vga] EXCEPT ![Rom] = w]]
      BY <1>2, <2>1, <2>4, <3>1
    <3>3. reg' \in [Fcts -> [Regs -> Register]]
      BY <1>2, <2>1, <3>1, <3>2
    <3>4. \A f \in Fcts, r \in Regs : reg'[f][r] = IF f = vga /\ r = Rom THEN w ELSE reg[f][r]
      BY <1>2, <2>1, <3>2
    <3> QED
      BY <3>1, <3>3, <3>4
  <2> QED
    BY <2>3, <2>4 DEF EnableVgaRom
<1> QED
  BY <1>2, <1>3, <1>4, <1>5 DEF Registered

\* What any step of the card's setup may do to the configuration space.
LEMMA SetupChanges ==
  ASSUME TypeInv, SetupStep
  PROVE  /\ Registered
         /\ \A f \in Fcts, r \in Regs :
              reg'[f][r] # reg[f][r] =>
                f = vga /\ r = Rom /\ reg'[f][r] = Mem(LegacyRom) /\ stage = "off"
         /\ \A f \in Fcts \ {vga} : cmd'[f] = cmd[f]
<1>1. BusInv /\ RegisterType /\ own \in [1..4 -> Byte] /\ status \in SUBSET Errors
  BY DEF TypeInv, StageInv
<1>2. CASE EnableVgaRom
  BY <1>2, EnableVgaRomIs
<1>3. CASE Service
  <2>1. stage = "bios" /\ card.bios # <<>> /\ reg' = reg
    BY <1>3 DEF Service, At
  <2>2. vga \in DOMAIN bus
    BY <1>1, <2>1, BusType DEF TypeInv, TableType, StageInv, HasVga
  <2>3. PICK call : call = Head(card.bios)
    OBVIOUS
  <2>4. IsCall(call)
    <3>1. PICK calls : calls = Range(card.bios)
      OBVIOUS
    <3>2. card.bios \in Seq(calls) /\ \A c \in calls : IsCall(c)
      BY <2>1, <3>1 DEF TypeInv, StageInv
    <3>3. call \in calls
      BY ONLY <2>1, <2>3, <3>2, HeadTailProperties
    <3> QED
      BY <3>2, <3>3
  <2>5. PICK d \in Known, bytes \in [1..4 -> Byte] : PutDword(d, bytes)
    BY <1>1, <1>3, <2>1, <2>2, <2>3, <2>4, ServiceIs
  <2>6. /\ cmd' \in [Fcts -> SUBSET Bits] /\ \A f \in Fcts \ {vga} : cmd'[f] = cmd[f]
        /\ line' \in [Fcts -> Byte] /\ own' \in [1..4 -> Byte] /\ status' \in SUBSET Errors
    BY <1>1, <2>2, <2>5, PutDwordIs
  <2> QED
    BY <1>1, <2>1, <2>6 DEF Registered, RegisterType
<1>4. CASE WakeUp \/ PowerClocks \/ TestClocks \/ WriteTables \/ NoCard \/ DisableVgaRom
             \/ BiosEnds \/ TextMode
  <2>1. reg' = reg /\ cmd' = cmd /\ line' = line /\ own' = own /\ status' \in SUBSET Errors
    <3>1. CASE WakeUp
      BY <1>1, <3>1 DEF WakeUp, Registers
    <3>2. CASE PowerClocks
      BY <1>1, <3>2 DEF PowerClocks, Registers
    <3>3. CASE TestClocks
      BY <1>1, <3>3 DEF TestClocks, Registers
    <3>4. CASE WriteTables
      BY <1>1, <3>4 DEF WriteTables, Registers
    <3>5. CASE NoCard \/ DisableVgaRom
      BY <1>1, <3>5 DEF NoCard, DisableVgaRom, Registers
    <3>6. CASE BiosEnds
      BY <1>1, <3>6 DEF BiosEnds, Registers
    <3>7. CASE TextMode
      BY <1>1, <3>7 DEF TextMode, Registers
    <3> QED
      BY <1>4, <3>1, <3>2, <3>3, <3>4, <3>5, <3>6, <3>7
  <2> QED
    BY <1>1, <2>1 DEF Registered, RegisterType
<1> QED
  BY <1>2, <1>3, <1>4 DEF SetupStep

\* A program that has been begun is still one.
LEMMA BiosLeft ==
  ASSUME NEW bios, bios \in Seq(Range(bios)), bios # <<>>,
         \A call \in Range(bios) : IsCall(call)
  PROVE  Tail(bios) \in Seq(Range(Tail(bios))) /\ \A call \in Range(Tail(bios)) : IsCall(call)
<1>1. PICK calls : calls = Range(bios)
  OBVIOUS
<1>2. PICK rest : rest = Tail(bios)
  OBVIOUS
<1>3. bios \in Seq(calls) /\ bios # <<>> /\ \A call \in calls : IsCall(call)
  BY <1>1
<1>4. rest \in Seq(calls)
  BY ONLY <1>2, <1>3, HeadTailProperties
<1>5. /\ DOMAIN rest = 1..Len(rest) /\ Len(rest) \in Nat
      /\ \A i \in 1..Len(rest) : rest[i] \in calls
  BY ONLY <1>4
<1>6. PICK left : left = Range(rest)
  OBVIOUS
<1>7. left \subseteq calls /\ \A i \in 1..Len(rest) : rest[i] \in left
  BY <1>5, <1>6 DEF Range
<1>8. rest \in Seq(left)
  BY ONLY <1>4, <1>5, <1>7
<1> QED
  BY <1>2, <1>3, <1>6, <1>7, <1>8

LEMMA StageStep ==
  ASSUME TypeInv, SetupStep
  PROVE  StageInv'
<1>1. own' \in [1..4 -> Byte] /\ status' \in SUBSET Errors
  BY SetupChanges DEF Registered
<1>2. pc = "nvram" /\ pc' = "nvram" /\ vga' = vga
  BY SetupLeaves DEF tables
<1> DEFINE Program(c) == /\ c.bios \in Seq(Range(c.bios))
                         /\ \A call \in Range(c.bios) : IsCall(call)
<1>3. stage \in {"off", "copy", "bios"} => Program(card)
  BY DEF TypeInv, StageInv
<1> HIDE DEF Program
<1>4. /\ stage' \in {"off", "clocks", "test", "tables", "copy", "bios", "text", "ready"}
      /\ stage' \in {"copy", "bios"} => HasVga
      /\ stage' \in {"off", "copy", "bios"} => Program(card')
  <2>1. CASE WakeUp
    BY <2>1 DEF WakeUp, At
  <2>2. CASE PowerClocks
    BY <2>2 DEF PowerClocks, At
  <2>3. CASE TestClocks
    <3>1. PICK seen \in SUBSET clocks :
            At("test", IF seen = Clocks THEN "tables" ELSE "clocks")
      BY <2>3 DEF TestClocks
    <3> QED
      BY <3>1 DEF At
  <2>4. CASE WriteTables \/ NoCard
    BY <2>4 DEF WriteTables, NoCard, At
  <2>5. CASE EnableVgaRom
    BY <1>3, <2>5 DEF EnableVgaRom, At
  <2>6. CASE DisableVgaRom
    BY <1>3, <2>6 DEF DisableVgaRom, At, TypeInv, StageInv
  <2>7. CASE Service
    <3>1. stage = "bios" /\ stage' = "bios" /\ card.bios # <<>>
          /\ card' = [card EXCEPT !.bios = Tail(card.bios)]
      BY <2>7 DEF Service, At
    <3>2. HasVga
      BY <3>1 DEF TypeInv, StageInv
    <3>3. card'.bios = Tail(card.bios)
      BY <3>1
    <3>4. Program(card')
      BY <1>3, <3>1, <3>3, BiosLeft DEF Program
    <3> QED
      BY <3>1, <3>2, <3>4
  <2>8. CASE BiosEnds \/ TextMode
    BY <2>8 DEF BiosEnds, TextMode, At
  <2> QED
    BY <2>1, <2>2, <2>3, <2>4, <2>5, <2>6, <2>7, <2>8 DEF SetupStep
<1> QED
  BY <1>1, <1>2, <1>4 DEF StageInv, HasVga, Program

----------------------------------------------------------------------------
(* The types are kept: the steps of PciInit                                  *)

LEMMA PciStage ==
  ASSUME TypeInv, PciStep
  PROVE  StageInv'
<1>1. stage' = stage /\ card' = card /\ own' = own /\ status' = status
  BY DEF PciStep, setup
<1>2. stage \in {"off", "ready"} /\ (pc = "nvram" => stage = "ready")
  BY DEF PciStep, TypeInv, LoopType, StageInv
<1>3. /\ pc' \in {"preinit", "vga_bars"} => pc \in {"preinit", "vga_bars"}
      /\ pc' \in {"config", "vme", "bars", "done"} =>
           pc \in {"nvram", "config", "vme", "bars", "done"}
  <2>1. Next
    BY DEF PciStep
  <2> QED
    BY <2>1 DEF Next, Preinit, VgaDone, NvramInit, ConfigVga, Config, ConfigVme, VmeOff,
           ConfigDone, Route, Unused, Ignore64, Ignore1M, MapIo, MapMem, SkipToIds,
           Skip, Assign
<1>4. /\ own \in [1..4 -> Byte] /\ status \in SUBSET Errors
      /\ pc \in {"preinit", "vga_bars"} => stage = "off"
      /\ pc \in {"config", "vme", "bars", "done"} => stage = "ready"
      /\ stage \in {"off", "copy", "bios"} =>
           card.bios \in Seq(Range(card.bios)) /\ \A call \in Range(card.bios) : IsCall(call)
  BY DEF TypeInv, StageInv
<1> QED
  BY <1>1, <1>2, <1>3, <1>4 DEF StageInv

PciTypes == LoopType /\ RegisterType /\ TableType

LEMMA PreinitType ==
  ASSUME TypeInv, Preinit
  PROVE  PciTypes' /\ vga' \in {<<0, 0>>} \cup DOMAIN bus /\ cur'.f = vga' /\ cur'.r = 0
<1> DEFINE cards == {i \in DOMAIN Found : bus[Found[i]].vga}
<1>1. BusInv /\ LoopType /\ RegisterType /\ TableType
  BY DEF TypeInv
<1>2. PICK f : f = vga'
  OBVIOUS
<1>3. f \in {<<0, 0>>} \cup DOMAIN bus
  <2>1. vga' = IF cards = {} THEN vga ELSE Found[Min(cards)]
    BY DEF Preinit
  <2>2. CASE cards = {}
    BY <1>1, <1>2, <2>1, <2>2 DEF TableType
  <2>3. CASE cards # {}
    BY <1>1, <1>2, <2>1, <2>3, FirstCard
  <2> QED
    BY <2>2, <2>3
<1>4. f \in Fcts
  BY <1>1, <1>3, BusType DEF Fcts
<1>5. StartBars(f)
  BY <1>2 DEF Preinit
<1>6. /\ cur' \in Locals /\ cur'.c <= cur'.r /\ cur'.f = f /\ cur'.r = 0
      /\ reg' \in [Fcts -> [Regs -> Register]]
  BY <1>1, <1>4, <1>5, StartBarsType DEF RegisterType
<1>7. io' = 32768 /\ mem' = 2^29 /\ pc' = "vga_bars"
      /\ UNCHANGED <<bus, todo, cmd, vgaRsc, devices, line, believed, language, piix>>
  BY DEF Preinit, hardware, settings
<1>8. LoopType'
  BY <1>1, <1>6, <1>7 DEF LoopType
<1>9. RegisterType'
  BY <1>1, <1>6, <1>7 DEF RegisterType
<1>10. TableType'
  BY <1>1, <1>2, <1>3, <1>7 DEF TableType
<1> QED
  BY <1>2, <1>3, <1>6, <1>8, <1>9, <1>10 DEF PciTypes

LEMMA LoopStepType ==
  ASSUME TypeInv, Unused \/ Ignore64 \/ Ignore1M \/ MapIo \/ MapMem
  PROVE  PciTypes'
<1>1. BusInv /\ LoopType /\ RegisterType /\ TableType
  BY DEF TypeInv
<1>2. CASE Unused \/ Ignore64 \/ Ignore1M
  <2>1. cur.r <= Rom /\ \E regs \in {1, 2}, bits \in SUBSET {"io", "mem"} : Skip(regs, bits)
    BY <1>2 DEF Unused, Ignore64, Ignore1M, InLoop
  <2>2. PICK regs \in {1, 2}, bits \in SUBSET {"io", "mem"} : Skip(regs, bits)
    BY <2>1
  <2>3. LoopType'
    BY <1>1, <2>1, <2>2, SkipType
  <2>4. UNCHANGED <<bus, io, mem, reg, cmd, line, vga, vgaRsc, devices, believed, language,
                    piix>>
    BY <2>2 DEF Skip, hardware, windows, tables, settings
  <2> QED
    BY <1>1, <2>3, <2>4 DEF PciTypes, RegisterType, TableType
<1>3. CASE MapIo \/ MapMem
  <2>1. cur.r <= Rom /\ io' \in Nat /\ mem' \in Nat
        /\ \E val \in [space : {"io", "mem"}, addr : Nat] : Assign(val)
    <3>1. CASE MapIo
      <4>1. cur.r <= Rom /\ Taken.k = "io" /\ mem' = mem
            /\ io' = ALIGN(ALIGN(io, Taken.size) + Taken.size, 1024)
            /\ Assign(Io(ALIGN(io, Taken.size)))
        BY <3>1 DEF MapIo, InLoop
      <4>2. Taken.size \in Nat \ {0}
        BY <1>1, <4>1, TakenIs DEF IoSizes
      <4>3. io \in Nat /\ mem \in Nat
        BY <1>1 DEF RegisterType
      <4>4. ALIGN(io, Taken.size) \in Nat
        BY <4>2, <4>3, AlignUp
      <4>5. ALIGN(io, Taken.size) + Taken.size \in Nat
        BY <4>2, <4>4
      <4>6. io' \in Nat
        BY <4>1, <4>5, AlignUp
      <4>7. Io(ALIGN(io, Taken.size)) \in [space : {"io", "mem"}, addr : Nat]
        BY <4>4 DEF Io
      <4> QED
        BY <4>1, <4>3, <4>6, <4>7
    <3>2. CASE MapMem
      <4>1. cur.r <= Rom /\ Taken.k = "mem" /\ io' = io
            /\ mem' = ALIGN(mem, Taken.size) + Taken.size
            /\ Assign(Mem(ALIGN(mem, Taken.size)))
        BY <3>2 DEF MapMem, InLoop
      <4>2. Taken.size \in Nat \ {0}
        BY <1>1, <4>1, TakenIs
      <4>3. io \in Nat /\ mem \in Nat
        BY <1>1 DEF RegisterType
      <4>4. ALIGN(mem, Taken.size) \in Nat
        BY <4>2, <4>3, AlignUp
      <4>5. ALIGN(mem, Taken.size) + Taken.size \in Nat
        BY <4>2, <4>4
      <4>7. Mem(ALIGN(mem, Taken.size)) \in [space : {"io", "mem"}, addr : Nat]
        BY <4>4 DEF Mem
      <4> QED
        BY <4>1, <4>3, <4>5, <4>7
    <3> QED
      BY <1>3, <3>1, <3>2
  <2>2. PICK val \in [space : {"io", "mem"}, addr : Nat] : Assign(val)
    BY <2>1
  <2>3. LoopType' /\ reg' \in [Fcts -> [Regs -> Register]]
    BY <1>1, <2>1, <2>2, AssignType
  <2>4. UNCHANGED <<bus, cmd, line, vga, vgaRsc, devices, believed, language, piix>>
    BY <2>2 DEF Assign, hardware, tables, settings
  <2> QED
    BY <1>1, <2>1, <2>3, <2>4 DEF PciTypes, RegisterType, TableType
<1> QED
  BY <1>2, <1>3

LEMMA IdsStepType ==
  ASSUME TypeInv, SkipToIds
  PROVE  PciTypes'
<1>1. BusInv /\ LoopType /\ RegisterType /\ TableType
  BY DEF TypeInv
<1>2. /\ LoopType' /\ io' \in Nat
      /\ UNCHANGED <<bus, mem, reg, cmd, line, vga, vgaRsc, devices, believed, language, piix>>
  BY <1>1, IdsType
<1> QED
  BY <1>1, <1>2 DEF PciTypes, RegisterType, TableType

LEMMA NvramInitType ==
  ASSUME TypeInv, NvramInit
  PROVE  PciTypes' /\ todo' = Found
<1>1. BusInv /\ LoopType /\ RegisterType /\ TableType
  BY DEF TypeInv
<1>2. nvram_ok(nv) \in BOOLEAN
  BY DEF nvram_ok
<1>3. believed' \in BOOLEAN /\ language' \in 0..1
  <2>1. language \in 0..1
    BY <1>1 DEF TableType
  <2>2. LanguageOf(nv, language) \in 0..1
    BY <2>1 DEF LanguageOf
  <2> QED
    BY <1>2, <2>2 DEF NvramInit
<1>4. todo' = Found /\ pc' = "config"
      /\ UNCHANGED <<bus, cur, io, mem, reg, cmd, vga, vgaRsc, devices, line, piix>>
  BY DEF NvramInit, hardware, windows, tables
<1>5. LoopType'
  BY <1>1, <1>4, FoundIs DEF LoopType
<1> QED
  BY <1>1, <1>3, <1>4, <1>5 DEF PciTypes, RegisterType, TableType

LEMMA VgaDoneType ==
  ASSUME TypeInv, VgaDone
  PROVE  PciTypes'
<1>1. BusInv /\ LoopType /\ RegisterType /\ TableType
  BY DEF TypeInv
<1>2. {"io", "mem", "master"} \in SUBSET Bits
  BY DEF Bits
<1>3. EndBars({"io", "mem", "master"}) /\ pc' = "nvram" /\ vgaRsc' = Resources(7)
      /\ UNCHANGED <<todo, vga, devices, line>>
  BY DEF VgaDone
<1>4. /\ io' = io /\ reg' = reg /\ cur' = cur /\ mem' \in Nat /\ cmd' \in [Fcts -> SUBSET Bits]
      /\ UNCHANGED <<bus, nv, stored, believed, language, piix>>
  BY <1>1, <1>2, <1>3, EndBarsIs
<1>5. vgaRsc' \in Lists
  BY <1>1, <1>3, ResourcesAre
<1> QED
  BY <1>1, <1>3, <1>4, <1>5 DEF PciTypes, LoopType, RegisterType, TableType

\* A device that is entered is one of those that are there.
LEMMA EnteredIs ==
  ASSUME BusInv, LoopType, RegisterType, TableType, NEW f \in DOMAIN bus,
         NEW rsc \in Lists, todo # <<>>, EnterDevice(f, rsc)
  PROVE  \A i \in DOMAIN devices' : devices'[i].f \in DOMAIN bus
<1>1. /\ devices \in Seq(Device) /\ devices' \in Seq(Device)
      /\ Len(devices') = Len(devices) + 1
      /\ \A i \in 1..Len(devices) : devices'[i] = devices[i]
      /\ devices'[Len(devices) + 1] = DeviceOf(f, rsc)
  BY EnterDeviceIs DEF TableType
<1>2. DOMAIN devices' = 1..Len(devices) + 1 /\ DOMAIN devices = 1..Len(devices)
      /\ Len(devices) \in Nat
  BY <1>1
<1>3. \A i \in 1..Len(devices) + 1 : i \in 1..Len(devices) \/ i = Len(devices) + 1
  BY <1>2
<1>4. \A i \in DOMAIN devices : devices[i].f \in DOMAIN bus
  BY DEF TableType
<1>5. DeviceOf(f, rsc).f = f
  BY DEF DeviceOf
<1> QED
  BY <1>1, <1>2, <1>3, <1>4, <1>5

LEMMA ConfigVgaType ==
  ASSUME TypeInv, ConfigVga
  PROVE  PciTypes' /\ vga \in DOMAIN bus
<1>1. BusInv /\ LoopType /\ RegisterType /\ TableType
  BY DEF TypeInv
<1>2. todo # <<>> /\ Head(todo) = vga /\ EnterDevice(vga, vgaRsc)
      /\ UNCHANGED <<bus, pc, cur, io, mem, reg, cmd, vga, vgaRsc, believed, language, piix>>
  BY DEF ConfigVga, hardware, windows, settings
<1>3. vga \in DOMAIN bus
  <2>1. todo \in Seq(DOMAIN bus)
    BY <1>1 DEF LoopType
  <2> QED
    BY ONLY <1>2, <2>1, HeadTailProperties
<1>4. vgaRsc \in Lists
  BY <1>1 DEF TableType
<1>5. devices' \in Seq(Device) /\ todo' \in Seq(DOMAIN bus) /\ line' \in [Fcts -> Byte]
  BY <1>1, <1>2, <1>3, <1>4, EnterDeviceIs
<1>6. \A i \in DOMAIN devices' : devices'[i].f \in DOMAIN bus
  BY <1>1, <1>2, <1>3, <1>4, EnteredIs
<1> QED
  BY <1>1, <1>2, <1>3, <1>5, <1>6 DEF PciTypes, LoopType, RegisterType, TableType

\* init_BARs is begun for a function, which does not answer.
LEMMA BeginsIs ==
  ASSUME TypeInv, OrderInv, Config \/ VmeOff
  PROVE  /\ pc \in {"config", "vme"} /\ pc' = "bars"
         /\ todo # <<>> /\ Head(todo) # vga /\ StartBars(Head(todo))
         /\ UNCHANGED <<bus, todo, io, mem, line, vga, vgaRsc, devices, believed, language,
                        piix>>
         /\ cmd' \in [Fcts -> SUBSET Bits]
         /\ \A f \in Fcts : ~SetUp(f) => cmd'[f] = cmd[f]
         /\ \A f \in Fcts : SetUp(f) => cmd'[f] = {}
<1>1. cmd \in [Fcts -> SUBSET Bits]
  BY DEF TypeInv, RegisterType
<1>2. CASE Config
  <2>1. /\ pc = "config" /\ pc' = "bars"
        /\ todo # <<>> /\ Head(todo) # vga /\ StartBars(Head(todo))
        /\ UNCHANGED <<bus, todo, io, mem, cmd, line, vga, vgaRsc, devices, believed, language,
                       piix>>
    BY <1>2 DEF Config, hardware, tables, settings
  <2>2. \A f \in Fcts : ~SetUp(f)
    BY <2>1 DEF SetUp
  <2> QED
    BY <1>1, <2>1, <2>2
<1>3. CASE VmeOff
  <2>1. /\ pc = "vme" /\ pc' = "bars" /\ StartBars(Head(todo))
        /\ UNCHANGED <<bus, todo, io, mem, line, vga, vgaRsc, devices, believed, language,
                       piix>>
    BY <1>3 DEF VmeOff, hardware, tables, settings
  <2>2. todo # <<>> /\ Head(todo) # vga
    BY <2>1 DEF OrderInv
  <2>3. PICK h : h = Head(todo) /\ cmd' = [cmd EXCEPT ![h] = {}]
    BY <1>3 DEF VmeOff
  <2>4. \A f : SetUp(f) <=> f = h
    BY <2>1, <2>3 DEF SetUp
  <2> QED
    BY <1>1, <2>1, <2>2, <2>3, <2>4
<1> QED
  BY <1>2, <1>3

LEMMA ConfigType ==
  ASSUME TypeInv, OrderInv, Config \/ VmeOff
  PROVE  PciTypes' /\ Head(todo) \in DOMAIN bus /\ StartBars(Head(todo))
<1>1. BusInv /\ LoopType /\ RegisterType /\ TableType
  BY DEF TypeInv
<1>2. todo # <<>> /\ StartBars(Head(todo)) /\ pc' = "bars" /\ cmd' \in [Fcts -> SUBSET Bits]
      /\ UNCHANGED <<bus, todo, io, mem, line, vga, vgaRsc, devices, believed, language, piix>>
  BY BeginsIs
<1>3. Head(todo) \in DOMAIN bus
  <2>1. todo \in Seq(DOMAIN bus)
    BY <1>1 DEF LoopType
  <2> QED
    BY ONLY <1>2, <2>1, HeadTailProperties
<1>4. cur' \in Locals /\ cur'.c <= cur'.r /\ reg' \in [Fcts -> [Regs -> Register]]
  <2>1. PICK f : f = Head(todo)
    OBVIOUS
  <2>2. f \in Fcts /\ StartBars(f) /\ reg \in [Fcts -> [Regs -> Register]]
    BY <1>1, <1>2, <1>3, <2>1, BusType DEF RegisterType
  <2> QED
    BY ONLY <2>2, StartBarsType
<1> QED
  BY <1>1, <1>2, <1>3, <1>4 DEF PciTypes, LoopType, RegisterType, TableType

\* The VME card's own set-up.
LEMMA ConfigVmeIs ==
  ASSUME TypeInv, ConfigVme
  PROVE  /\ pc = "config" /\ pc' = "vme" /\ todo # <<>> /\ Head(todo) # vga
         /\ Head(todo) \in DOMAIN bus /\ Head(todo) \in Fcts
         /\ UNCHANGED <<bus, todo, cur, io, mem, line, vga, vgaRsc, devices, believed,
                        language, piix>>
         /\ reg' \in [Fcts -> [Regs -> Register]] /\ cmd' \in [Fcts -> SUBSET Bits]
         /\ \A f \in Fcts \ {Head(todo)} : reg'[f] = reg[f] /\ cmd'[f] = cmd[f]
<1>1. BusInv /\ LoopType /\ RegisterType
  BY DEF TypeInv
<1>2. PICK h : h = Head(todo)
  OBVIOUS
<1>3. /\ pc = "config" /\ pc' = "vme" /\ todo # <<>> /\ h # vga /\ bus[h].vme
      /\ UNCHANGED <<bus, todo, cur, io, mem, line, vga, vgaRsc, devices, believed, language,
                     piix>>
  BY <1>2 DEF ConfigVme, hardware, tables, settings
<1>4. h \in DOMAIN bus /\ h \in Fcts
  <2>1. todo \in Seq(DOMAIN bus)
    BY <1>1 DEF LoopType
  <2>2. h \in DOMAIN bus
    BY ONLY <1>2, <1>3, <2>1, HeadTailProperties
  <2> QED
    BY <1>1, <2>2, BusType
<1>5. 0 \in Regs /\ 1 \in Regs /\ Rom \in Regs
  BY DEF Regs, Rom
<1>6. bus[h].kind[0].k \in {"io", "mem"} /\ bus[h].kind[1].k \in {"io", "mem"}
  BY <1>1, <1>3, <1>4, <1>5, KindType
<1>7. PICK a, b : /\ a = [space |-> bus[h].kind[0].k, addr |-> VmeFixed]
                  /\ b = [space |-> bus[h].kind[1].k, addr |-> VmeFixed]
  OBVIOUS
<1>8. a \in Register /\ b \in Register /\ Zero \in Register
  BY <1>6, <1>7 DEF Register, VmeFixed, Zero
<1>9. PICK now : now = [reg[h] EXCEPT ![0] = a, ![1] = b, ![Rom] = Zero]
  OBVIOUS
<1>10. reg' = [reg EXCEPT ![h] = now] /\ cmd' = [cmd EXCEPT ![h] = {"io", "mem"}]
  BY <1>1, <1>2, <1>4, <1>7, <1>9 DEF ConfigVme, RegisterType
<1>11. now \in [Regs -> Register]
  BY <1>1, <1>4, <1>5, <1>8, <1>9 DEF RegisterType
<1>12. {"io", "mem"} \in SUBSET Bits
  BY DEF Bits
<1>13. /\ reg' \in [Fcts -> [Regs -> Register]] /\ cmd' \in [Fcts -> SUBSET Bits]
       /\ \A f \in Fcts \ {h} : reg'[f] = reg[f] /\ cmd'[f] = cmd[f]
  BY <1>1, <1>4, <1>10, <1>11, <1>12 DEF RegisterType
<1> QED
  BY <1>2, <1>3, <1>4, <1>13

LEMMA ConfigVmeType ==
  ASSUME TypeInv, ConfigVme
  PROVE  PciTypes'
BY ConfigVmeIs DEF TypeInv, PciTypes, LoopType, RegisterType, TableType

LEMMA ConfigDoneType ==
  ASSUME TypeInv, OrderInv, ConfigDone
  PROVE  PciTypes' /\ cur.f \in DOMAIN bus /\ cur.f = Head(todo) /\ todo # <<>> /\ cur.f # vga
<1>1. BusInv /\ LoopType /\ RegisterType /\ TableType
  BY DEF TypeInv
<1>2. /\ pc = "bars" /\ pc' = "config" /\ EndBars({})
      /\ EnterDevice(cur.f, Resources(Cardinality(Answered)))
      /\ UNCHANGED <<vga, vgaRsc>>
  BY DEF ConfigDone
<1>3. todo # <<>> /\ cur.f = Head(todo) /\ cur.f # vga
  BY <1>2 DEF OrderInv
<1>4. cur.f \in DOMAIN bus
  <2>1. todo \in Seq(DOMAIN bus)
    BY <1>1 DEF LoopType
  <2> QED
    BY ONLY <1>3, <2>1, HeadTailProperties
<1>5. {} \in SUBSET Bits
  OBVIOUS
<1>6. /\ io' = io /\ reg' = reg /\ cur' = cur /\ mem' \in Nat /\ cmd' \in [Fcts -> SUBSET Bits]
      /\ UNCHANGED <<bus, nv, stored, believed, language, piix>>
  BY <1>1, <1>2, <1>5, EndBarsIs
<1>7. Resources(Cardinality(Answered)) \in Lists
  BY <1>1, AnsweredAre, ResourcesAre
<1>8. devices' \in Seq(Device) /\ todo' \in Seq(DOMAIN bus) /\ line' \in [Fcts -> Byte]
  BY <1>1, <1>2, <1>3, <1>4, <1>7, EnterDeviceIs
<1>9. \A i \in DOMAIN devices' : devices'[i].f \in DOMAIN bus
  BY <1>1, <1>2, <1>3, <1>4, <1>7, EnteredIs
<1> QED
  BY <1>1, <1>2, <1>3, <1>4, <1>6, <1>8, <1>9 DEF PciTypes, LoopType, RegisterType, TableType

LEMMA RouteType ==
  ASSUME TypeInv, Route
  PROVE  /\ PciTypes'
         /\ Len(devices') = Len(devices)
         /\ \A i \in 1..Len(devices) :
              devices'[i] = [devices[i] EXCEPT
                               !.isa_interrupt = IsaOf(devices[i].pci_interrupt)]
<1>1. BusInv /\ LoopType /\ RegisterType /\ TableType
  BY DEF TypeInv
<1>2. /\ pc' = "done" /\ piix' = Routing
      /\ devices' = [i \in DOMAIN devices |->
                       [devices[i] EXCEPT !.isa_interrupt = IsaOf(devices[i].pci_interrupt)]]
      /\ UNCHANGED <<bus, todo, cur, io, mem, reg, cmd, vga, vgaRsc, believed, language>>
  BY DEF Route, hardware, windows, settings
<1>3. devices \in Seq(Device) /\ \A i \in DOMAIN devices : devices[i].f \in DOMAIN bus
  BY <1>1 DEF TableType
<1>4. DOMAIN devices = 1..Len(devices) /\ Len(devices) \in Nat
      /\ \A i \in 1..Len(devices) : devices[i] \in Device
  BY <1>3
<1>5. Routing \in [1..4 -> valid_int]
  BY <1>1, <1>3, BusType, RoutingIs
<1>6. \A l \in 0..4 : IsaOf(l) \in valid_int
  <2>1. \A l \in 0..4 : l = 0 \/ l \in 1..4
    OBVIOUS
  <2>2. 0 \in valid_int
    BY DEF valid_int
  <2> QED
    BY ONLY <1>5, <2>1, <2>2 DEF IsaOf
<1>7. ASSUME NEW d \in Device, NEW isa \in valid_int
      PROVE  [d EXCEPT !.isa_interrupt = isa] \in Device
             /\ [d EXCEPT !.isa_interrupt = isa].f = d.f
  BY <1>7 DEF Device
<1>8. \A i \in 1..Len(devices) :
        /\ [devices[i] EXCEPT !.isa_interrupt = IsaOf(devices[i].pci_interrupt)] \in Device
        /\ [devices[i] EXCEPT !.isa_interrupt = IsaOf(devices[i].pci_interrupt)].f
             = devices[i].f
  <2> TAKE i \in 1..Len(devices)
  <2>1. devices[i] \in Device
    BY <1>4
  <2>2. PICK isa : isa = IsaOf(devices[i].pci_interrupt)
    OBVIOUS
  <2>3. isa \in valid_int
    BY <1>6, <2>1, <2>2 DEF Device
  <2> QED
    BY <1>7, <2>1, <2>2, <2>3
<1>9. PICK new :
        new = [i \in 1..Len(devices) |->
                 [devices[i] EXCEPT !.isa_interrupt = IsaOf(devices[i].pci_interrupt)]]
  OBVIOUS
<1>10. devices' = new
  BY <1>2, <1>4, <1>9
<1>11. \A i \in 1..Len(devices) :
         /\ new[i] = [devices[i] EXCEPT !.isa_interrupt = IsaOf(devices[i].pci_interrupt)]
         /\ new[i] \in Device /\ new[i].f = devices[i].f
  BY <1>8, <1>9
<1>12. new \in [1..Len(devices) -> Device]
  BY <1>9, <1>11
<1>13. new \in Seq(Device) /\ Len(new) = Len(devices) /\ DOMAIN new = 1..Len(devices)
  BY ONLY <1>4, <1>12
<1>14. \A i \in DOMAIN devices' : devices'[i].f \in DOMAIN bus
  BY <1>3, <1>4, <1>10, <1>11, <1>13
<1>15. line' \in [Fcts -> Byte]
  <2>1. \A f \in Fcts : (\E i \in DOMAIN devices : devices[i].f = f) =>
                        IsaOf(PciLine(f)) \in Byte
    <3> TAKE f \in Fcts
    <3> HAVE \E i \in DOMAIN devices : devices[i].f = f
    <3>1. PciLine(f) \in 0..4
      <4>1. PICK i : i = CHOOSE j \in DOMAIN devices : devices[j].f = f
        OBVIOUS
      <4>2. i \in DOMAIN devices
        BY <4>1
      <4>3. devices[i] \in Device
        BY <1>4, <4>2
      <4> QED
        BY <4>1, <4>3 DEF PciLine, Device
    <3>2. IsaOf(PciLine(f)) \in valid_int
      BY <1>6, <3>1
    <3>3. \A x \in valid_int : x \in Byte
      BY DEF valid_int, Byte
    <3> QED
      BY <3>2, <3>3
  <2>2. line \in [Fcts -> Byte]
    BY <1>1 DEF RegisterType
  <2>3. line' = [f \in Fcts |-> IF \E i \in DOMAIN devices : devices[i].f = f
                                THEN IsaOf(PciLine(f)) ELSE line[f]]
    BY DEF Route
  <2> QED
    BY ONLY <2>1, <2>2, <2>3
<1>16. LoopType' /\ RegisterType'
  BY <1>1, <1>2, <1>15 DEF LoopType, RegisterType
<1>17. TableType'
  BY <1>1, <1>2, <1>5, <1>10, <1>13, <1>14 DEF TableType
<1> QED
  BY <1>10, <1>11, <1>13, <1>16, <1>17 DEF PciTypes

LEMMA NextType ==
  ASSUME TypeInv, OrderInv, Next
  PROVE  PciTypes'
<1>1. CASE Preinit
  BY <1>1, PreinitType
<1>2. CASE VgaDone
  BY <1>2, VgaDoneType
<1>3. CASE NvramInit
  BY <1>3, NvramInitType
<1>4. CASE ConfigVga
  BY <1>4, ConfigVgaType
<1>5. CASE Config \/ VmeOff
  BY <1>5, ConfigType
<1>10. CASE ConfigVme
  BY <1>10, ConfigVmeType
<1>6. CASE ConfigDone
  BY <1>6, ConfigDoneType
<1>7. CASE Route
  BY <1>7, RouteType
<1>8. CASE Unused \/ Ignore64 \/ Ignore1M \/ MapIo \/ MapMem
  BY <1>8, LoopStepType
<1>9. CASE SkipToIds
  BY <1>9, IdsStepType
<1> QED
  BY <1>1, <1>2, <1>3, <1>4, <1>5, <1>6, <1>7, <1>8, <1>9, <1>10 DEF Next

LEMMA TypeStep == TypeInv /\ OrderInv /\ [SetupNext]_allVars => TypeInv'
<1> SUFFICES ASSUME TypeInv, OrderInv, [SetupNext]_allVars PROVE TypeInv'
  OBVIOUS
<1>1. BusInv'
  BY BusStep DEF TypeInv
<1>2. CASE SetupStep
  <2>1. /\ pc = "nvram" /\ UNCHANGED <<bus, pc, todo, cur, io, mem, vga, vgaRsc, devices>>
        /\ UNCHANGED <<believed, language, piix>>
    BY <1>2, SetupLeaves DEF hardware, tables, settings
  <2>2. StageInv'
    BY <1>2, StageStep
  <2>3. Registered
    BY <1>2, SetupChanges
  <2>4. LoopType' /\ TableType'
    BY <2>1 DEF TypeInv, LoopType, TableType
  <2>5. RegisterType'
    BY <2>1, <2>3 DEF Registered, TypeInv, RegisterType
  <2> QED
    BY <1>1, <2>2, <2>4, <2>5 DEF TypeInv
<1>3. CASE PciStep
  <2>1. StageInv'
    BY <1>3, PciStage
  <2>2. PciTypes'
    BY <1>3, NextType DEF PciStep
  <2> QED
    BY <1>1, <2>1, <2>2 DEF TypeInv, PciTypes
<1>4. CASE UNCHANGED allVars
  BY <1>1, <1>4 DEF allVars, vars, hardware, windows, tables, settings, setup,
         TypeInv, LoopType, RegisterType, TableType, StageInv, HasVga
<1> QED
  BY <1>2, <1>3, <1>4 DEF SetupNext

LEMMA TypeInit == SetupInit => TypeInv
<1> SUFFICES ASSUME SetupInit PROVE TypeInv
  OBVIOUS
<1>1. PICK m \in Machines : Plugged(m) /\ card = m.card
  BY DEF SetupInit
<1>2. BusInv
  BY <1>1 DEF BusInv
<1>3. <<0, 0>> \in Fcts
  BY DEF Fcts
<1>4. LoopType
  BY <1>3 DEF SetupInit, PowerOn, LoopType, Locals, Rom
<1>5. RegisterType
  <2>1. Zero \in Register
    BY DEF Zero, Register
  <2>2. [f \in Fcts |-> [r \in Regs |-> Zero]] \in [Fcts -> [Regs -> Register]]
    BY <2>1
  <2>3. [f \in Fcts |-> {}] \in [Fcts -> SUBSET Bits]
    OBVIOUS
  <2>4. [f \in Fcts |-> 0] \in [Fcts -> Byte]
    BY DEF Byte
  <2> QED
    BY <2>2, <2>3, <2>4 DEF SetupInit, PowerOn, RegisterType
<1>6. TableType
  <2>1. <<0, 0, 0, 0>> \in [1..4 -> valid_int]
    <3>1. 0 \in valid_int
      BY DEF valid_int
    <3> QED
      BY <3>1
  <2>2. List(<<>>, 7, FALSE) \in Lists /\ <<>> \in Seq(Device)
    <3>1. <<>> \in Seq(Entry)
      OBVIOUS
    <3> QED
      BY <3>1 DEF List, Lists
  <2>3. vgaRsc = List(<<>>, 7, FALSE) /\ devices = <<>>
    BY DEF SetupInit, PowerOn
  <2>4. \A i \in DOMAIN devices : devices[i].f \in DOMAIN bus
    BY <2>3
  <2>5. believed \in BOOLEAN
    BY Zenon DEF SetupInit, PowerOn
  <2>7. language \in 0..1
    BY DEF SetupInit, PowerOn
  <2>6. piix = <<0, 0, 0, 0>> /\ vga = <<0, 0>>
    BY DEF SetupInit, PowerOn
  <2> QED
    BY <2>1, <2>2, <2>3, <2>4, <2>5, <2>6, <2>7 DEF TableType
<1>7. StageInv
  <2>1. PICK calls : calls = Range(card.bios)
    OBVIOUS
  <2>2. card.bios \in Seq(calls) /\ \A call \in calls : IsCall(call)
    BY <1>1, <2>1, CardsAssumption
  <2>3. <<0, 0, 0, 0>> \in [1..4 -> Byte]
    BY DEF Byte
  <2> QED
    BY <2>1, <2>2, <2>3 DEF SetupInit, PowerOn, StageInv
<1> QED
  BY <1>2, <1>4, <1>5, <1>6, <1>7 DEF TypeInv

----------------------------------------------------------------------------
(* The order is kept                                                         *)

OnceInv ==
  /\ \A i, j \in DOMAIN todo : todo[i] = todo[j] => i = j
  /\ \A i, j \in DOMAIN devices : devices[i].f = devices[j].f => i = j
  /\ \A i \in DOMAIN devices, j \in DOMAIN todo : devices[i].f # todo[j]
Entered == {devices[i].f : i \in DOMAIN devices}

LEMMA EnterOrder ==
  ASSUME BusInv, LoopType, RegisterType, TableType, OnceInv, NEW f \in DOMAIN bus,
         NEW rsc \in Lists, todo # <<>>, f = Head(todo), EnterDevice(f, rsc)
  PROVE  OnceInv' /\ Entered' = Entered \cup {f} /\ f \notin Entered
<1>1. /\ Len(devices') = Len(devices) + 1 /\ devices' \in Seq(Device)
      /\ \A i \in 1..Len(devices) : devices'[i] = devices[i]
      /\ devices'[Len(devices) + 1] = DeviceOf(f, rsc)
      /\ todo' \in Seq(DOMAIN bus) /\ Len(todo') = Len(todo) - 1
      /\ \A i \in 1..Len(todo') : todo'[i] = todo[i + 1]
  BY EnterDeviceIs
<1>2. devices \in Seq(Device) /\ todo \in Seq(DOMAIN bus)
  BY DEF LoopType, TableType
<1>3. /\ DOMAIN devices = 1..Len(devices) /\ DOMAIN devices' = 1..Len(devices) + 1
      /\ DOMAIN todo = 1..Len(todo) /\ DOMAIN todo' = 1..Len(todo) - 1
      /\ Len(devices) \in Nat /\ Len(todo) \in Nat \ {0}
      /\ f = todo[1]
  <2>1. DOMAIN devices = 1..Len(devices) /\ DOMAIN todo = 1..Len(todo)
        /\ Len(devices) \in Nat /\ Len(todo) \in Nat
    BY <1>2
  <2>2. Len(todo) # 0 /\ Head(todo) = todo[1]
    BY <1>2
  <2>3. DOMAIN devices' = 1..Len(devices') /\ DOMAIN todo' = 1..Len(todo')
    BY ONLY <1>1
  <2> QED
    BY <1>1, <2>1, <2>2, <2>3
<1>4. DeviceOf(f, rsc).f = f
  BY DEF DeviceOf
<1>5. \A i \in 1..Len(devices) + 1 :
        devices'[i].f = IF i = Len(devices) + 1 THEN f ELSE devices[i].f
  <2>1. \A i \in 1..Len(devices) + 1 : i = Len(devices) + 1 \/ i \in 1..Len(devices)
    BY <1>3
  <2> QED
    BY <1>1, <1>3, <1>4, <2>1
<1>6. \A i \in 1..Len(devices) : devices[i].f # f
  BY <1>3 DEF OnceInv
<1>7. \A i, j \in DOMAIN todo' : todo'[i] = todo'[j] => i = j
  <2> SUFFICES ASSUME NEW i \in DOMAIN todo', NEW j \in DOMAIN todo', todo'[i] = todo'[j]
               PROVE  i = j
    OBVIOUS
  <2>1. i + 1 \in DOMAIN todo /\ j + 1 \in DOMAIN todo /\ i \in Nat /\ j \in Nat
    BY <1>3
  <2>2. todo[i + 1] = todo[j + 1]
    BY <1>1, <1>3
  <2>3. i + 1 = j + 1
    BY <2>1, <2>2 DEF OnceInv
  <2> QED
    BY <2>1, <2>3
<1>8. \A i, j \in DOMAIN devices' : devices'[i].f = devices'[j].f => i = j
  <2> SUFFICES ASSUME NEW i \in DOMAIN devices', NEW j \in DOMAIN devices',
                      devices'[i].f = devices'[j].f
               PROVE  i = j
    OBVIOUS
  <2>1. i \in DOMAIN devices \/ i = Len(devices) + 1
    BY <1>3
  <2>2. j \in DOMAIN devices \/ j = Len(devices) + 1
    BY <1>3
  <2> QED
    BY <1>3, <1>5, <1>6, <2>1, <2>2 DEF OnceInv
<1>9. \A i \in DOMAIN devices', j \in DOMAIN todo' : devices'[i].f # todo'[j]
  <2> TAKE i \in DOMAIN devices', j \in DOMAIN todo'
  <2>1. j + 1 \in DOMAIN todo /\ todo'[j] = todo[j + 1] /\ 1 \in DOMAIN todo /\ j + 1 # 1
    BY <1>1, <1>3
  <2>2. i \in DOMAIN devices \/ i = Len(devices) + 1
    BY <1>3
  <2>3. CASE i \in DOMAIN devices
    <3>1. devices'[i].f = devices[i].f
      BY <1>1, <1>3, <2>3
    <3> QED
      BY <2>1, <2>3, <3>1 DEF OnceInv
  <2>4. CASE i = Len(devices) + 1
    <3>1. devices'[i].f = todo[1]
      BY <1>3, <1>5, <2>4
    <3> QED
      BY <2>1, <3>1 DEF OnceInv
  <2> QED
    BY <2>2, <2>3, <2>4
<1>10. Entered' = Entered \cup {f}
  <2>1. Entered' = {devices'[i].f : i \in 1..Len(devices) + 1}
    BY <1>3 DEF Entered
  <2>2. Entered = {devices[i].f : i \in 1..Len(devices)}
    BY <1>3 DEF Entered
  <2>3. /\ Len(devices) + 1 \in 1..Len(devices) + 1
        /\ 1..Len(devices) \subseteq 1..Len(devices) + 1
        /\ \A i \in 1..Len(devices) + 1 : i = Len(devices) + 1 \/ i \in 1..Len(devices)
    BY <1>3
  <2>4. \A i \in 1..Len(devices) : i # Len(devices) + 1
    BY <1>3
  <2> QED
    BY <1>5, <2>1, <2>2, <2>3, <2>4
<1>11. f \notin Entered
  BY <1>3, <1>6 DEF Entered
<1> QED
  BY <1>7, <1>8, <1>9, <1>10, <1>11 DEF OnceInv

\* The routing changes neither the functions in the table nor their order.
LEMMA RouteOrder ==
  ASSUME TypeInv, OnceInv, Route
  PROVE  OnceInv' /\ Entered' = Entered
<1>1. todo' = todo /\ todo = <<>>
  BY DEF Route
<1>2. /\ Len(devices') = Len(devices) /\ devices \in Seq(Device) /\ devices' \in Seq(Device)
      /\ \A i \in 1..Len(devices) :
           devices'[i] = [devices[i] EXCEPT !.isa_interrupt = IsaOf(devices[i].pci_interrupt)]
  BY RouteType DEF PciTypes, TypeInv, TableType
<1>3. DOMAIN devices = 1..Len(devices) /\ DOMAIN devices' = 1..Len(devices)
      /\ \A i \in 1..Len(devices) : devices[i] \in Device
  BY <1>2
<1>4. ASSUME NEW d \in Device, NEW x PROVE [d EXCEPT !.isa_interrupt = x].f = d.f
  BY <1>4 DEF Device
<1>5. \A i \in 1..Len(devices) : devices'[i].f = devices[i].f
  BY <1>2, <1>3, <1>4
<1>6. DOMAIN todo = {}
  BY <1>1
<1>7. Entered' = Entered
  BY <1>3, <1>5 DEF Entered
<1> QED
  BY <1>1, <1>3, <1>5, <1>6, <1>7 DEF OnceInv

LEMMA OrderStep ==
  TypeInv /\ OrderInv /\ [SetupNext]_allVars => OrderInv'
<1> SUFFICES ASSUME TypeInv, OrderInv, [SetupNext]_allVars PROVE OrderInv'
  OBVIOUS
<1>0. BusInv /\ LoopType /\ RegisterType /\ TableType /\ OnceInv
      /\ cmd \in [Fcts -> SUBSET Bits] /\ vga \in Fcts
  <2>1. BusInv /\ LoopType /\ RegisterType /\ TableType
    BY DEF TypeInv
  <2>2. vga \in Fcts
    BY <2>1, BusType DEF TableType, Fcts
  <2> QED
    BY <2>1, <2>2 DEF OrderInv, SetUp, OnceInv, RegisterType
<1>1. CASE SetupStep
  <2>1. /\ pc = "nvram" /\ pc' = "nvram"
        /\ UNCHANGED <<todo, cur, vga, devices>>
    BY <1>1, SetupLeaves DEF tables
  <2>2. \A f \in Fcts \ {vga} : cmd'[f] = cmd[f]
    BY <1>1, SetupChanges
  <2>3. Settled' = Settled /\ vga \in Settled
    BY <2>1 DEF Settled
  <2>4. \A f \in Fcts \ Settled : cmd'[f] = {}
    BY <2>1, <2>2, <2>3 DEF OrderInv, SetUp
  <2> QED
    BY <2>1, <2>3, <2>4 DEF OrderInv, SetUp
<1>2. CASE Preinit
  <2>1. cur'.f = vga'
    BY <1>2, PreinitType
  <2>2. pc = "preinit" /\ pc' = "vga_bars" /\ UNCHANGED <<todo, devices, cmd>>
    BY <1>2 DEF Preinit
  <2>3. Settled' = Settled
    BY <2>2 DEF Settled
  <2> QED
    BY <2>1, <2>2, <2>3 DEF OrderInv, SetUp
<1>3. CASE Unused \/ Ignore64 \/ Ignore1M \/ MapIo \/ MapMem
  <2>1. pc \in {"vga_bars", "bars"} /\ cur'.f = cur.f
        /\ UNCHANGED <<pc, todo, vga, devices, cmd>>
    <3>1. cur \in Locals
      BY <1>0 DEF LoopType
    <3>2. CASE Unused \/ Ignore64 \/ Ignore1M
      BY <3>1, <3>2 DEF Unused, Ignore64, Ignore1M, InLoop, Skip, windows, tables, Locals
    <3>3. CASE MapIo \/ MapMem
      BY <3>1, <3>3 DEF MapIo, MapMem, InLoop, Assign, tables, Locals
    <3> QED
      BY <1>3, <3>2, <3>3
  <2>2. Settled' = Settled
    BY <2>1 DEF Settled
  <2> QED
    BY <2>1, <2>2 DEF OrderInv, SetUp
<1>4. CASE VgaDone
  <2>1. pc = "vga_bars" /\ pc' = "nvram" /\ UNCHANGED <<todo, vga, devices>>
        /\ EndBars({"io", "mem", "master"})
    BY <1>4 DEF VgaDone
  <2>2. {"io", "mem", "master"} \in SUBSET Bits
    BY DEF Bits
  <2>3. \A f \in Fcts \ {cur.f} : cmd'[f] = cmd[f]
    BY <1>0, <2>1, <2>2, EndBarsIs
  <2>4. cur.f = vga
    BY <2>1 DEF OrderInv, SetUp
  <2>5. Settled' = {vga} \cup Settled
    BY <2>1 DEF Settled
  <2>6. \A f \in Fcts \ Settled' : cmd'[f] = {}
    BY <2>1, <2>3, <2>4, <2>5 DEF OrderInv, SetUp
  <2> QED
    BY <2>1, <2>6 DEF OrderInv, SetUp
<1>5. CASE NvramInit
  <2>1. pc = "nvram" /\ pc' = "config" /\ UNCHANGED <<vga, devices, cmd, cur>>
        /\ todo' = Found
    BY <1>5 DEF NvramInit, windows, tables
  <2>2. devices = <<>>
    BY <2>1 DEF OrderInv, SetUp
  <2>3. DOMAIN devices = {}
    BY <2>2
  <2>4. \A i, j \in DOMAIN todo' : todo'[i] = todo'[j] => i = j
    BY <1>0, <2>1, FoundIs
  <2>5. Settled' = Settled
    BY <2>1 DEF Settled
  <2> QED
    BY <2>1, <2>3, <2>4, <2>5 DEF OrderInv, SetUp
<1>6. CASE ConfigVga
  <2>1. /\ pc = "config" /\ pc' = "config" /\ todo # <<>> /\ Head(todo) = vga
        /\ EnterDevice(vga, vgaRsc) /\ UNCHANGED <<cmd, vga, cur>>
    BY <1>6 DEF ConfigVga, windows
  <2>2. vga \in DOMAIN bus /\ vgaRsc \in Lists
    BY <1>0, <1>6, ConfigVgaType DEF TableType
  <2>3. OnceInv' /\ Entered' = Entered \cup {vga}
    BY <1>0, <2>1, <2>2, EnterOrder
  <2>4. Settled \subseteq Settled'
    BY <2>1, <2>3 DEF Settled, Entered
  <2> QED
    BY <2>1, <2>3, <2>4 DEF OrderInv, SetUp, OnceInv
<1>7. CASE Config \/ VmeOff
  <2>1. /\ pc \in {"config", "vme"} /\ pc' = "bars" /\ todo # <<>> /\ Head(todo) # vga
        /\ UNCHANGED <<todo, vga, devices>>
        /\ \A f \in Fcts : ~SetUp(f) => cmd'[f] = cmd[f]
        /\ \A f \in Fcts : SetUp(f) => cmd'[f] = {}
    BY <1>7, BeginsIs
  <2>2. cur'.f = Head(todo)
    BY <1>7 DEF Config, VmeOff, StartBars
  <2>3. Settled' = Settled
    BY <2>1 DEF Settled
  <2>4. \A f \in Fcts \ Settled : cmd'[f] = {}
    BY <2>1 DEF OrderInv
  <2> QED
    BY <2>1, <2>2, <2>3, <2>4 DEF OrderInv, OnceInv, SetUp
<1>12. CASE ConfigVme
  <2>1. /\ pc = "config" /\ pc' = "vme" /\ todo # <<>> /\ Head(todo) # vga
        /\ UNCHANGED <<todo, cur, vga, devices>>
        /\ \A f \in Fcts \ {Head(todo)} : cmd'[f] = cmd[f]
    BY <1>12, ConfigVmeIs
  <2>2. Settled' = Settled
    BY <2>1 DEF Settled
  <2>3. \A f \in Fcts \ Settled : ~SetUp(f)' => cmd'[f] = {}
    BY <2>1 DEF OrderInv, SetUp
  <2> QED
    BY <2>1, <2>2, <2>3 DEF OrderInv, SetUp
<1>8. CASE ConfigDone
  <2>1. /\ pc = "bars" /\ pc' = "config" /\ EndBars({})
        /\ EnterDevice(cur.f, Resources(Cardinality(Answered)))
        /\ UNCHANGED <<vga, vgaRsc>>
    BY <1>8 DEF ConfigDone
  <2>2. cur.f \in DOMAIN bus /\ cur.f = Head(todo) /\ todo # <<>>
        /\ Resources(Cardinality(Answered)) \in Lists
    BY <1>0, <1>8, ConfigDoneType, AnsweredAre, ResourcesAre
  <2>3. OnceInv' /\ Entered' = Entered \cup {cur.f}
    BY <1>0, <2>1, <2>2, EnterOrder
  <2>4. {} \in SUBSET Bits
    OBVIOUS
  <2>5. \A f \in Fcts \ {cur.f} : cmd'[f] = cmd[f]
    BY <1>0, <2>1, <2>4, EndBarsIs
  <2>6. Settled' = Settled \cup {cur.f}
    BY <2>1, <2>3 DEF Settled, Entered
  <2>7. \A f \in Fcts \ Settled' : cmd'[f] = {}
    BY <2>1, <2>5, <2>6 DEF OrderInv, SetUp
  <2> QED
    BY <2>1, <2>3, <2>7 DEF OrderInv, SetUp, OnceInv
<1>9. CASE Route
  <2>1. pc = "config" /\ pc' = "done" /\ todo = <<>> /\ UNCHANGED <<todo, vga, cmd, cur>>
    BY <1>9 DEF Route, windows
  <2>2. OnceInv' /\ Entered' = Entered
    BY <1>0, <1>9, RouteOrder
  <2>3. Settled' = Settled
    BY <2>1, <2>2 DEF Settled, Entered
  <2> QED
    BY <2>1, <2>2, <2>3 DEF OrderInv, SetUp, OnceInv
<1>10. CASE SkipToIds
  <2>1. cur'.f = cur.f /\ UNCHANGED <<pc, todo, vga, devices, cmd>>
    BY <1>0, <1>10, IdsType
  <2>2. Settled' = Settled
    BY <2>1 DEF Settled
  <2> QED
    BY <2>1, <2>2 DEF OrderInv, SetUp
<1>11. CASE UNCHANGED allVars
  BY <1>11 DEF allVars, vars, windows, tables, OrderInv, SetUp, Settled
<1> QED
  BY <1>1, <1>2, <1>3, <1>4, <1>5, <1>6, <1>7, <1>8, <1>9, <1>10, <1>11, <1>12
     DEF SetupNext, PciStep, Next

----------------------------------------------------------------------------
(* The windows are kept                                                      *)

LEMMA PageFloor ==
  ASSUME NEW v \in Nat, NEW w \in Nat
  PROVE  /\ ALIGN(v, 8192) <= w => ALIGN(v, 8192) <= w - (w % 8192)
         /\ v <= w => ALIGN(v, 8192) <= ALIGN(w, 8192)
  BY DEF ALIGN

\* Windows that are not written keep their place and stay apart.
InPlace(W) == /\ \A w \in W : IsPlaced(w[1], w[2])
              /\ \A v, w \in W : AreApart(v, w)
Kept(W) ==
  /\ W \subseteq Written
  /\ \A w \in W : w[1] \in Fcts /\ w[2] \in Regs /\ Size(w[1], w[2]) \in Nat
                  /\ reg'[w[1]][w[2]] = reg[w[1]][w[2]]
  /\ \A w \in W : bus[w[1]].kind[w[2]].k = "mem" /\ w[1] \in Settled' =>
                    \/ w[1] \in Settled
                    \/ ALIGN(Addr(w[1], w[2]) + Size(w[1], w[2]), 8192) <= mem'
Onward == /\ bus' = bus /\ io' \in Nat /\ mem' \in Nat
          /\ io' >= io /\ mem' >= mem

LEMMA KeptWindows ==
  ASSUME WindowInv, RegisterType, Onward, NEW W, Kept(W)
  PROVE  InPlace(W)'
<1>0. bus' = bus /\ W \subseteq Written
  BY DEF Onward, Kept
<1>1. ASSUME NEW w \in W PROVE Addr(w[1], w[2])' = Addr(w[1], w[2])
                               /\ Size(w[1], w[2])' = Size(w[1], w[2])
                               /\ Addr(w[1], w[2]) \in Nat /\ Size(w[1], w[2]) \in Nat
  <2>1. reg[w[1]][w[2]] \in Register
    BY <1>1 DEF RegisterType, Kept
  <2> QED
    BY <1>0, <2>1 DEF Addr, Size, Register, Kept
<1>2. ASSUME NEW w \in W PROVE IsPlaced(w[1], w[2])'
  <2>1. IsPlaced(w[1], w[2])
    BY <1>0, <1>2 DEF WindowInv
  <2>2. PICK a \in Nat, n \in Nat : a = Addr(w[1], w[2]) /\ n = Size(w[1], w[2])
                                    /\ a = Addr(w[1], w[2])' /\ n = Size(w[1], w[2])'
    BY <1>1, <1>2
  <2>3. PICK end : end = ALIGN(a + n, 8192)
    OBVIOUS
  <2>4. end \in Nat
    BY <2>2, <2>3, PageEnd
  <2>5. io \in Nat /\ mem \in Nat
    BY DEF RegisterType
  <2>6. /\ a % n = 0
        /\ bus[w[1]].kind[w[2]].k = "io" => a >= 32768 /\ a % 1024 = 0 /\ a + n <= io
        /\ bus[w[1]].kind[w[2]].k = "mem" =>
             /\ a >= 2^29 /\ a + n <= mem
             /\ w[1] \in Settled => end <= mem
    BY <2>1, <2>2, <2>3 DEF IsPlaced
  <2>7. bus[w[1]].kind[w[2]].k = "mem" /\ w[1] \in Settled' => w[1] \in Settled \/ end <= mem'
    <3>1. bus[w[1]].kind[w[2]].k = "mem" /\ w[1] \in Settled' =>
            \/ w[1] \in Settled
            \/ ALIGN(Addr(w[1], w[2]) + Size(w[1], w[2]), 8192) <= mem'
      BY <1>2 DEF Kept
    <3>2. a = Addr(w[1], w[2]) /\ n = Size(w[1], w[2])
      BY <2>2
    <3> QED
      BY ONLY <2>3, <3>1, <3>2
  <2>8. /\ bus[w[1]].kind[w[2]].k = "io" => a >= 32768 /\ a % 1024 = 0 /\ a + n <= io'
        /\ bus[w[1]].kind[w[2]].k = "mem" =>
             /\ a >= 2^29 /\ a + n <= mem'
             /\ w[1] \in Settled' => end <= mem'
    BY ONLY <2>4, <2>5, <2>6, <2>7, <2>2, Onward DEF Onward
  <2> QED
    BY <1>0, <2>2, <2>3, <2>6, <2>8 DEF IsPlaced
<1>3. ASSUME NEW v \in W, NEW w \in W PROVE AreApart(v, w)'
  <2>1. AreApart(v, w)
    BY <1>0, <1>3 DEF WindowInv
  <2>2. /\ Addr(v[1], v[2])' = Addr(v[1], v[2]) /\ Size(v[1], v[2])' = Size(v[1], v[2])
        /\ Addr(w[1], w[2])' = Addr(w[1], w[2]) /\ Size(w[1], w[2])' = Size(w[1], w[2])
    BY <1>1, <1>3
  <2> QED
    BY <1>0, <2>1, <2>2 DEF AreApart, Before, PageBefore
<1> QED
  BY <1>2, <1>3 DEF InPlace

\* What is written is a register of a function that is there, with a size.
LEMMA WrittenIs ==
  ASSUME BusInv
  PROVE  \A w \in Written : /\ w[1] \in DOMAIN bus /\ w[1] \in Fcts /\ w[2] \in Regs
                            /\ Size(w[1], w[2]) \in Nat \ {0}
                            /\ w = <<w[1], w[2]>>
                            /\ bus[w[1]].kind[w[2]].k \in {"io", "mem"}
<1> TAKE w \in Written
<1>1. w[1] \in DOMAIN bus /\ w[2] \in Regs /\ w = <<w[1], w[2]>>
      /\ bus[w[1]].kind[w[2]].k \in {"io", "mem"}
  BY DEF Written, Wants
<1>2. Size(w[1], w[2]) \in Nat \ {0}
  BY <1>1, KindType DEF Size, IoSizes
<1> QED
  BY <1>1, <1>2, BusType

\* A function that is being set up has not been.
LEMMA CurIsNew ==
  ASSUME OrderInv, LoopType, InBars
  PROVE  cur.f \notin Settled
<1>1. CASE pc = "vga_bars"
  <2>1. devices = <<>>
    BY <1>1 DEF OrderInv
  <2>2. DOMAIN devices = {}
    BY <2>1
  <2> QED
    BY <1>1, <2>2 DEF Settled
<1>2. CASE pc = "bars"
  <2>1. todo # <<>> /\ cur.f = Head(todo) /\ cur.f # vga
    BY <1>2 DEF OrderInv
  <2>2. 1 \in DOMAIN todo /\ cur.f = todo[1]
    BY <2>1 DEF LoopType
  <2>3. \A i \in DOMAIN devices : devices[i].f # cur.f
    BY <2>2 DEF OrderInv
  <2> QED
    BY <1>2, <2>1, <2>3 DEF Settled
<1> QED
  BY <1>1, <1>2 DEF InBars

\* Nor has the next one.
LEMMA NextIsNew ==
  ASSUME OrderInv, LoopType, todo # <<>>, Head(todo) # vga
  PROVE  Head(todo) \notin Settled
<1>1. 1 \in DOMAIN todo /\ Head(todo) = todo[1]
  BY DEF LoopType
<1>2. \A i \in DOMAIN devices : devices[i].f # Head(todo)
  BY <1>1 DEF OrderInv
<1> QED
  BY <1>2 DEF Settled

\* Steps that give no windows and settle no function.
LEMMA WindowIdle ==
  ASSUME TypeInv, WindowInv, bus' = bus, io' = io, mem' = mem, vga' = vga,
         pc # "preinit", ~InBars, ~InBars', Settled' \subseteq Settled,
         \A f \in Fcts, r \in Regs :
           f \in Settled /\ reg'[f][r] # reg[f][r] =>
             f = vga /\ r = Rom /\ reg'[f][r] = Mem(LegacyRom)
  PROVE  WindowInv'
<1>1. BusInv /\ RegisterType
  BY DEF TypeInv
<1>2. Written' \subseteq Written /\ \A w \in Written' : reg'[w[1]][w[2]] = reg[w[1]][w[2]]
  <2> SUFFICES ASSUME NEW w \in Written'
               PROVE  w \in Written /\ reg'[w[1]][w[2]] = reg[w[1]][w[2]]
    OBVIOUS
  <2>1. /\ w \in (DOMAIN bus) \X Regs /\ Orderly(w[1])' /\ Wants(w[1], w[2])
        /\ ~Shadowed(w[1], w[2])' /\ w[1] \in Settled
    BY DEF Written, Wants
  <2>2. w[1] \in Fcts /\ w[2] \in Regs /\ Orderly(w[1])
    BY <1>1, <2>1, BusType DEF Orderly, Wants
  <2>3. reg'[w[1]][w[2]] = reg[w[1]][w[2]]
    BY <2>1, <2>2 DEF Shadowed
  <2>4. ~Shadowed(w[1], w[2])
    BY <2>1, <2>3 DEF Shadowed
  <2> QED
    BY <2>1, <2>2, <2>3, <2>4 DEF Written
<1>3. io \in Nat /\ mem \in Nat /\ io >= io /\ mem >= mem
  BY <1>1 DEF RegisterType
<1>4. /\ \A w \in Written' : w[1] \in Fcts /\ w[2] \in Regs /\ Size(w[1], w[2]) \in Nat
                             /\ reg'[w[1]][w[2]] = reg[w[1]][w[2]]
      /\ \A w \in Written' : w[1] \in Settled' => w[1] \in Settled
  BY <1>1, <1>2, WrittenIs
<1>5. PICK W : W = Written'
  OBVIOUS
<1>6. InPlace(W)'
  <2>1. Kept(W)
    BY <1>2, <1>4, <1>5 DEF Kept
  <2>2. WindowInv /\ RegisterType /\ Onward
    BY <1>1, <1>3 DEF Onward
  <2> QED
    BY ONLY <2>1, <2>2, KeptWindows
<1>7. Aligned' /\ CounterInv'
  BY <1>3 DEF WindowInv, Aligned, CounterInv
<1> QED
  BY <1>5, <1>6, <1>7 DEF WindowInv, InPlace

LEMMA WindowPreinit ==
  ASSUME TypeInv, OrderInv, Preinit
  PROVE  WindowInv'
<1>1. /\ pc = "preinit" /\ pc' = "vga_bars" /\ io' = 32768 /\ mem' = 2^29
      /\ UNCHANGED <<bus, devices>>
  BY DEF Preinit, hardware
<1>2. cur'.r = 0 /\ cur'.c = 0
  BY DEF Preinit, StartBars
<1>3. devices = <<>>
  BY <1>1 DEF OrderInv
<1>4. Settled' = {}
  BY <1>1, <1>3 DEF Settled
<1>5. Written' = {}
  BY <1>2, <1>4 DEF Written, Regs, Rom
<1>6. Aligned'
  BY <1>2 DEF Aligned
<1>7. CounterInv'
  BY <1>1 DEF CounterInv
<1> QED
  BY <1>5, <1>6, <1>7 DEF WindowInv

LEMMA WindowConfig ==
  ASSUME TypeInv, OrderInv, WindowInv, Config \/ VmeOff
  PROVE  WindowInv'
<1>1. BusInv /\ RegisterType /\ LoopType
  BY DEF TypeInv
<1>2. /\ pc \in {"config", "vme"} /\ pc' = "bars" /\ todo # <<>> /\ Head(todo) # vga
      /\ UNCHANGED <<bus, io, mem, vga, devices, todo>>
  BY BeginsIs
<1>3. PICK f : f = Head(todo)
  OBVIOUS
<1>4. f \in DOMAIN bus /\ f \in Fcts /\ StartBars(f)
  BY <1>1, <1>3, ConfigType, BusType
<1>5. /\ cur'.f = f /\ cur'.r = 0 /\ cur'.c = 0
      /\ \A g \in Fcts \ {f} : reg'[g] = reg[g]
  BY <1>1, <1>4, StartBarsType DEF RegisterType
<1>6. Settled' = Settled /\ f \notin Settled
  <2>1. f \notin Settled
    BY <1>1, <1>2, <1>3, NextIsNew
  <2> QED
    BY <1>2, <2>1 DEF Settled
<1>7. Written' \subseteq Written /\ \A w \in Written' : reg'[w[1]][w[2]] = reg[w[1]][w[2]]
  <2> SUFFICES ASSUME NEW w \in Written'
               PROVE  w \in Written /\ reg'[w[1]][w[2]] = reg[w[1]][w[2]]
    OBVIOUS
  <2>1. /\ w \in (DOMAIN bus) \X Regs /\ Orderly(w[1])' /\ Wants(w[1], w[2])
        /\ ~Shadowed(w[1], w[2])'
        /\ w[1] \in Settled' \/ (w[1] = cur'.f /\ w[2] < cur'.r)
    BY <1>2 DEF Written, Wants
  <2>2. w[1] \in Fcts /\ w[2] \in Regs /\ Orderly(w[1])
    BY <1>1, <1>2, <2>1, BusType DEF Orderly, Wants
  <2>3. w[1] \in Settled
    BY <1>5, <1>6, <2>1, <2>2 DEF Regs, Rom
  <2>4. reg'[w[1]][w[2]] = reg[w[1]][w[2]]
    BY <1>5, <1>6, <2>2, <2>3
  <2>5. ~Shadowed(w[1], w[2])
    BY <1>2, <2>1, <2>4 DEF Shadowed
  <2> QED
    BY <2>1, <2>2, <2>3, <2>4, <2>5 DEF Written
<1>8. io \in Nat /\ mem \in Nat /\ io >= io /\ mem >= mem
  BY <1>1 DEF RegisterType
<1>9. PICK W : W = Written'
  OBVIOUS
<1>10. InPlace(W)'
  <2>1. Kept(W)
    BY <1>1, <1>6, <1>7, <1>9, WrittenIs DEF Kept
  <2>2. WindowInv /\ RegisterType /\ Onward
    BY <1>1, <1>2, <1>8 DEF Onward
  <2> QED
    BY ONLY <2>1, <2>2, KeptWindows
<1>11. Aligned' /\ CounterInv'
  BY <1>2, <1>5, <1>8 DEF WindowInv, Aligned, CounterInv, InBars
<1> QED
  BY <1>9, <1>10, <1>11 DEF WindowInv, InPlace

LEMMA WindowVme ==
  ASSUME TypeInv, OrderInv, WindowInv, ConfigVme
  PROVE  WindowInv'
<1>1. /\ pc = "config" /\ pc' = "vme" /\ todo # <<>> /\ Head(todo) # vga
      /\ UNCHANGED <<bus, io, mem, vga, devices, cur>>
      /\ \A f \in Fcts \ {Head(todo)} : reg'[f] = reg[f]
  BY ConfigVmeIs
<1>2. LoopType
  BY DEF TypeInv
<1>3. Head(todo) \notin Settled
  BY <1>1, <1>2, NextIsNew
<1>5. \A f \in Fcts, r \in Regs : f \in Settled => reg'[f][r] = reg[f][r]
  BY <1>1, <1>3
<1>6. Settled' = Settled
  BY <1>1 DEF Settled
<1> QED
  BY <1>1, <1>5, <1>6, WindowIdle DEF InBars

\* A register of a function that others do not follow out of step is asked for what it is.
LEMMA InStep ==
  ASSUME TypeInv, Aligned, InBars, cur.r <= Rom, cur.f \in DOMAIN bus, Orderly(cur.f),
         Wants(cur.f, cur.r)
  PROVE  Taken = bus[cur.f].kind[cur.r]
<1>1. BusInv /\ LoopType
  BY DEF TypeInv
<1>2. cur.r \in Regs /\ cur.r \in cur.r..Rom
  BY <1>1, TakenIs DEF Regs, Rom
<1>3. cur.c = cur.r
  BY <1>2 DEF Aligned
<1>4. bus[cur.f].kind[cur.c].k # "upper"
      /\ (bus[cur.f].kind[cur.c].k = "io" => cur.r # Rom)
  BY <1>1, <1>2, <1>3, KindType DEF Wants
<1> QED
  BY <1>1, <1>3, <1>4, TakenIs

LEMMA AlignedStep ==
  ASSUME TypeInv, Aligned, InBars, cur.r <= Rom, InBars', bus' = bus, cur'.f = cur.f,
         NEW regs \in {1, 2}, cur'.r = cur.r + regs, cur'.c = cur.c + 1,
         regs = 2 => IsWide
  PROVE  Aligned'
<1> SUFFICES ASSUME cur.f \in DOMAIN bus
             PROVE  /\ Plain(cur.f) => cur'.c = cur'.r
                    /\ Orderly(cur.f) => \/ cur'.c = cur'.r
                                         \/ \A q \in cur'.r..Rom : ~Wants(cur.f, q)
  BY DEF Aligned, Plain, Orderly, Wants
<1>1. cur.r \in Regs /\ cur.c \in Regs
  BY TakenIs DEF TypeInv
<1>2. /\ Plain(cur.f) => cur.c = cur.r
      /\ Orderly(cur.f) => cur.c = cur.r \/ \A q \in cur.r..Rom : ~Wants(cur.f, q)
  BY DEF Aligned
<1>3. regs = 2 => \/ bus[cur.f].kind[cur.c].k = "mem64"
                  \/ bus[cur.f].kind[cur.c].k = "io" /\ cur.r = Rom
  BY DEF IsWide, KindOf
<1>4. Plain(cur.f) => cur'.c = cur'.r
  <2> SUFFICES ASSUME Plain(cur.f) PROVE cur'.c = cur'.r
    OBVIOUS
  <2>1. cur.c = cur.r /\ bus[cur.f].kind[cur.c].k # "mem64"
    BY <1>1, <1>2 DEF Plain
  <2>2. bus[cur.f].kind[cur.c].k = "io" => cur.r # Rom
    BY <1>1, <2>1, KindType DEF TypeInv
  <2> QED
    BY <1>3, <2>1, <2>2
<1>5. ASSUME Orderly(cur.f)
      PROVE  cur'.c = cur'.r \/ \A q \in cur'.r..Rom : ~Wants(cur.f, q)
  <2>1. \A q \in cur'.r..Rom : q \in cur.r..Rom /\ (regs = 2 => q \in cur.r + 1..Rom)
    BY <1>1 DEF Regs, Rom
  <2>2. CASE cur.c = cur.r
    <3>1. regs = 2 => \A q \in cur.r + 1..Rom : ~Wants(cur.f, q)
      <4>1. cur.r = Rom => cur.r + 1..Rom = {}
        BY DEF Rom
      <4> QED
        BY <1>1, <1>3, <1>5, <2>2, <4>1 DEF Orderly
    <3> QED
      BY <2>1, <2>2, <3>1
  <2>3. CASE \A q \in cur.r..Rom : ~Wants(cur.f, q)
    BY <2>1, <2>3
  <2> QED
    BY <1>2, <1>5, <2>2, <2>3
<1> QED
  BY <1>4, <1>5

LEMMA WindowSkip ==
  ASSUME TypeInv, WindowInv, Unused \/ Ignore64 \/ Ignore1M
  PROVE  WindowInv'
<1>1. BusInv /\ LoopType /\ RegisterType /\ Aligned /\ cur \in Locals
  BY DEF TypeInv, WindowInv, LoopType
<1>2. /\ InBars /\ cur.r <= Rom /\ Taken.k \in {"none", "mem64", "mem1m"}
      /\ \E regs \in {1, 2}, bits \in SUBSET {"io", "mem"} :
           (regs = 2 => Taken.k = "mem64") /\ Skip(regs, bits)
  <2>1. CASE Unused
    BY <2>1 DEF Unused, InLoop, InBars
  <2>2. CASE Ignore64
    BY <2>2 DEF Ignore64, InLoop, InBars
  <2>3. CASE Ignore1M
    BY <2>3 DEF Ignore1M, InLoop, InBars
  <2> QED
    BY <2>1, <2>2, <2>3
<1>3. PICK regs \in {1, 2}, bits \in SUBSET {"io", "mem"} :
        (regs = 2 => Taken.k = "mem64") /\ Skip(regs, bits)
  BY <1>2
<1>4. /\ UNCHANGED <<bus, pc, io, mem, reg, vga, devices>>
      /\ cur'.f = cur.f /\ cur'.r = cur.r + regs /\ cur'.c = cur.c + 1
  BY <1>1, <1>3 DEF Skip, hardware, windows, tables, Locals
<1>5. InBars' /\ Settled' = Settled
  BY <1>2, <1>4 DEF InBars, Settled
<1>6. (Taken.k = "mem64" => IsWide) /\ cur.r \in Regs
  BY <1>1, <1>2, TakenIs
<1>7. Aligned'
  BY <1>1, <1>2, <1>3, <1>4, <1>5, <1>6, AlignedStep
<1>8. Written' \subseteq Written
  <2> SUFFICES ASSUME NEW w \in Written' PROVE w \in Written
    OBVIOUS
  <2>1. /\ w \in (DOMAIN bus) \X Regs /\ Orderly(w[1])' /\ Wants(w[1], w[2])
        /\ ~Shadowed(w[1], w[2])'
        /\ w[1] \in Settled \/ (w[1] = cur.f /\ w[2] < cur.r + regs)
    BY <1>4, <1>5 DEF Written, Wants
  <2>2. Orderly(w[1]) /\ ~Shadowed(w[1], w[2]) /\ w[2] \in Regs /\ w[1] \in DOMAIN bus
    BY <1>4, <2>1 DEF Orderly, Wants, Shadowed
  <2>3. ASSUME w[1] = cur.f, w[2] < cur.r + regs PROVE w[2] < cur.r
    <3>1. w[2] < cur.r \/ w[2] = cur.r \/ (regs = 2 /\ w[2] = cur.r + 1)
      BY <1>6, <2>2, <2>3 DEF Regs, Rom
    <3>2. w[2] # cur.r
      <4> SUFFICES ASSUME w[2] = cur.r PROVE FALSE
        OBVIOUS
      <4>1. Taken = bus[cur.f].kind[cur.r]
        BY <1>1, <1>2, <2>1, <2>2, <2>3, InStep
      <4> QED
        BY <1>2, <2>1, <2>3, <4>1 DEF Wants
    <3>3. ~(regs = 2 /\ w[2] = cur.r + 1)
      <4> SUFFICES ASSUME regs = 2, w[2] = cur.r + 1 PROVE FALSE
        OBVIOUS
      <4>1. cur.r + 1 \in cur.r..Rom /\ cur.r + 1 \in cur.r + 1..Rom
        BY <1>6, <2>2 DEF Regs, Rom
      <4>2. cur.c = cur.r
        BY <1>1, <1>2, <2>1, <2>2, <2>3, <4>1 DEF Aligned
      <4>3. bus[cur.f].kind[cur.r].k = "mem64"
        <5>1. IsWide /\ cur.r # Rom
          BY <1>3, <1>6, <2>2 DEF Regs, Rom
        <5> QED
          BY <2>2, <2>3, <4>2, <5>1 DEF IsWide, KindOf
      <4> QED
        BY <1>6, <2>1, <2>2, <2>3, <4>1, <4>3 DEF Orderly
    <3> QED
      BY <3>1, <3>2, <3>3
  <2> QED
    BY <1>2, <2>1, <2>2, <2>3 DEF Written
<1>9. PICK W : W = Written'
  OBVIOUS
<1>10. InPlace(W)'
  <2>1. Kept(W)
    BY <1>1, <1>4, <1>5, <1>8, <1>9, WrittenIs DEF Kept
  <2>2. WindowInv /\ RegisterType /\ Onward
    BY <1>1, <1>4 DEF Onward, RegisterType
  <2> QED
    BY ONLY <2>1, <2>2, KeptWindows
<1>11. CounterInv'
  BY <1>4, <1>5 DEF WindowInv, CounterInv, Counted, Answered, KindOf, InBars
<1> QED
  BY <1>7, <1>9, <1>10, <1>11 DEF WindowInv, InPlace

LEMMA WindowIds ==
  ASSUME TypeInv, WindowInv, SkipToIds
  PROVE  WindowInv'
<1>1. BusInv /\ LoopType /\ RegisterType /\ Aligned /\ CounterInv
  BY DEF TypeInv, WindowInv
<1>2. /\ io' = ALIGN(ALIGN(io, 4) + 4, 1024) /\ io' \in Nat
      /\ KindOf(cur.f, cur.c).k = "mem64" /\ cur.c < 5 /\ cur.r = 5
      /\ cur'.f = cur.f /\ cur'.r = Rom /\ cur'.c = cur.c + 2
      /\ UNCHANGED <<bus, pc, mem, reg, vga, devices>>
  BY <1>1, IdsType
<1>3. InBars /\ InBars' /\ Settled' = Settled
  BY <1>2 DEF SkipToIds, InLoop, InBars, Settled
<1>4. ASSUME cur.f \in DOMAIN bus
      PROVE  ~Plain(cur.f) /\ (Orderly(cur.f) => \A q \in 5..Rom : ~Wants(cur.f, q))
  <2>1. bus[cur.f].kind[cur.c].k = "mem64" /\ cur.c \in Regs /\ cur.c # cur.r
    BY <1>1, <1>2, <1>4, TakenIs DEF KindOf, Rom
  <2> QED
    BY <1>1, <1>2, <1>3, <1>4, <2>1 DEF Aligned, Plain
<1>5. Aligned'
  <2>1. \A q \in cur'.r..Rom : q \in 5..Rom
    BY <1>2 DEF Rom
  <2> QED
    BY <1>2, <1>4, <2>1 DEF Aligned, Plain, Orderly, Wants
<1>6. Written' \subseteq Written
  <2> SUFFICES ASSUME NEW w \in Written' PROVE w \in Written
    OBVIOUS
  <2>1. /\ w \in (DOMAIN bus) \X Regs /\ Orderly(w[1])' /\ Wants(w[1], w[2])
        /\ ~Shadowed(w[1], w[2])'
        /\ w[1] \in Settled \/ (w[1] = cur.f /\ w[2] < Rom)
    BY <1>2, <1>3 DEF Written, Wants
  <2>2. Orderly(w[1]) /\ ~Shadowed(w[1], w[2]) /\ w[2] \in Regs /\ w[1] \in DOMAIN bus
    BY <1>2, <2>1 DEF Orderly, Wants, Shadowed
  <2>3. w[1] = cur.f => w[2] \notin 5..Rom
    BY <1>4, <2>1, <2>2
  <2>4. w[1] = cur.f => w[2] < cur.r
    BY <1>2, <2>2, <2>3 DEF Regs, Rom
  <2> QED
    BY <1>3, <2>1, <2>2, <2>4 DEF Written
<1>7. /\ io' >= io /\ io' % 1024 = 0
      /\ io \in Nat /\ mem \in Nat
  <2>1. io \in Nat /\ mem \in Nat
    BY <1>1 DEF RegisterType
  <2>2. io' >= io /\ io' % 1024 = 0
    BY <1>2, <2>1, IdsEnd
  <2> QED
    BY <2>1, <2>2
<1>8. PICK W : W = Written'
  OBVIOUS
<1>9. InPlace(W)'
  <2>1. Kept(W)
    BY <1>1, <1>2, <1>3, <1>6, <1>8, WrittenIs DEF Kept
  <2>2. WindowInv /\ RegisterType /\ Onward
    BY <1>1, <1>2, <1>7 DEF Onward
  <2> QED
    BY ONLY <2>1, <2>2, KeptWindows
<1>10. CounterInv'
  <2>1. Counted' = Counted
    BY <1>2 DEF Counted, Answered, KindOf
  <2>2. pc # "preinit" => io' >= 32768
    BY <1>1, <1>2, <1>7 DEF CounterInv
  <2> QED
    BY <1>1, <1>2, <1>3, <1>7, <2>1, <2>2 DEF CounterInv, InBars
<1> QED
  BY <1>5, <1>8, <1>9, <1>10 DEF WindowInv, InPlace

\* The registers with a window before one of a new one's.
Older == Written' \ {<<cur.f, cur.r>>}

\* What the two actions that give windows share.
LEMMA NewWindow ==
  ASSUME TypeInv, OrderInv, WindowInv, MapIo \/ MapMem
  PROVE  /\ InBars /\ cur.r \in Regs /\ cur.f \in Fcts /\ InBars' /\ Settled' = Settled
         /\ Aligned' /\ Onward /\ vga' = vga
         /\ \A v \in Older : v \in Written /\ v[1] \in Fcts /\ v[2] \in Regs
                             /\ Size(v[1], v[2]) \in Nat
         /\ Kept(Older)
         /\ <<cur.f, cur.r>> \in Written' =>
              /\ cur.f \in DOMAIN bus /\ cur.f \notin Settled
              /\ Taken = bus[cur.f].kind[cur.r]
<1>1. BusInv /\ LoopType /\ RegisterType /\ Aligned /\ cur \in Locals
  BY DEF TypeInv, WindowInv, LoopType
<1>2. /\ InBars /\ cur.r <= Rom /\ Taken.k \in {"io", "mem"}
      /\ \E val \in [space : {"io", "mem"}, addr : Nat] : Assign(val)
      /\ io' \in Nat /\ mem' \in Nat /\ io' >= io /\ mem' >= mem
  <2>1. io \in Nat /\ mem \in Nat
    BY <1>1 DEF RegisterType
  <2>2. CASE MapIo
    <3>1. /\ InBars /\ cur.r <= Rom /\ Taken.k = "io" /\ mem' = mem
          /\ io' = ALIGN(ALIGN(io, Taken.size) + Taken.size, 1024)
          /\ Assign(Io(ALIGN(io, Taken.size)))
      BY <2>2 DEF MapIo, InLoop, InBars
    <3>2. Taken.size \in Nat \ {0}
      BY <1>1, <3>1, TakenIs DEF IoSizes
    <3>3. PICK a \in Nat : a = ALIGN(io, Taken.size) /\ a >= io
      BY <2>1, <3>2, AlignUp
    <3>4. a + Taken.size \in Nat /\ a + Taken.size >= a
      BY <3>2
    <3>5. PICK b \in Nat : b = ALIGN(a + Taken.size, 1024) /\ b >= a + Taken.size
      BY <3>4, AlignUp
    <3>6. io' = b
      BY <3>1, <3>3, <3>5
    <3>7. Io(a) \in [space : {"io", "mem"}, addr : Nat]
      BY DEF Io
    <3> QED
      BY <2>1, <3>1, <3>2, <3>3, <3>5, <3>6, <3>7
  <2>3. CASE MapMem
    <3>1. /\ InBars /\ cur.r <= Rom /\ Taken.k = "mem" /\ io' = io
          /\ mem' = ALIGN(mem, Taken.size) + Taken.size
          /\ Assign(Mem(ALIGN(mem, Taken.size)))
      BY <2>3 DEF MapMem, InLoop, InBars
    <3>2. Taken.size \in Nat \ {0}
      BY <1>1, <3>1, TakenIs
    <3>3. PICK a \in Nat : a = ALIGN(mem, Taken.size) /\ a >= mem
      BY <2>1, <3>2, AlignUp
    <3>4. Mem(a) \in [space : {"io", "mem"}, addr : Nat]
      BY DEF Mem
    <3> QED
      BY <2>1, <3>1, <3>2, <3>3, <3>4
  <2> QED
    BY <2>2, <2>3
<1>3. PICK val \in [space : {"io", "mem"}, addr : Nat] : Assign(val)
  BY <1>2
<1>4. /\ UNCHANGED <<bus, pc, vga, devices>>
      /\ cur'.f = cur.f /\ cur'.r = cur.r + 1 /\ cur'.c = cur.c + 1
      /\ \A f \in Fcts, r \in Regs :
           reg'[f][r] = IF f = cur.f /\ r = cur.r THEN val ELSE reg[f][r]
  BY <1>1, <1>2, <1>3, AssignType DEF Assign, hardware, tables
<1>5. cur.f \in Fcts /\ cur.r \in Regs
  BY <1>1, <1>2, TakenIs
<1>6. InBars' /\ Settled' = Settled
  BY <1>2, <1>4 DEF InBars, Settled
<1>7. Aligned'
  BY <1>1, <1>2, <1>4, <1>6, AlignedStep
<1>8. cur.f \notin Settled
  BY <1>1, <1>2, CurIsNew
<1>9. ASSUME NEW w \in Written'
      PROVE  /\ w = <<w[1], w[2]>> /\ w[1] \in DOMAIN bus /\ w[2] \in Regs
             /\ Orderly(w[1]) /\ Wants(w[1], w[2]) /\ ~Shadowed(w[1], w[2])'
             /\ w[1] \in Settled \/ (w[1] = cur.f /\ w[2] < cur.r + 1)
  BY <1>4, <1>6, <1>9 DEF Written, Wants, Orderly
<1>10. ASSUME NEW w \in Older
       PROVE  w \in Written /\ reg'[w[1]][w[2]] = reg[w[1]][w[2]]
  <2>1. w \in Written' /\ w # <<cur.f, cur.r>>
    BY <1>10 DEF Older
  <2>2. ~(w[1] = cur.f /\ w[2] = cur.r)
    BY <1>9, <2>1
  <2>3. w[1] \in Fcts /\ w[2] \in Regs
    BY <1>1, <1>9, <2>1, BusType
  <2>4. reg'[w[1]][w[2]] = reg[w[1]][w[2]]
    BY <1>4, <2>2, <2>3
  <2>5. ~Shadowed(w[1], w[2])
    BY <1>4, <1>9, <2>1, <2>4 DEF Shadowed
  <2>6. w[1] \in Settled \/ (w[1] = cur.f /\ w[2] < cur.r)
    BY <1>5, <1>9, <2>1, <2>2, <2>3 DEF Regs, Rom
  <2>7. w \in (DOMAIN bus) \X Regs
    BY <1>9, <2>1
  <2> QED
    BY <1>2, <1>9, <2>1, <2>4, <2>5, <2>6, <2>7 DEF Written
<1>11. \A v \in Older : v \in Written /\ v[1] \in Fcts /\ v[2] \in Regs
                        /\ Size(v[1], v[2]) \in Nat
  BY <1>1, <1>10, WrittenIs
<1>12. Kept(Older)
  BY <1>6, <1>10, <1>11 DEF Kept
<1>13. <<cur.f, cur.r>> \in Written' =>
         /\ cur.f \in DOMAIN bus /\ cur.f \notin Settled
         /\ Taken = bus[cur.f].kind[cur.r]
  <2> SUFFICES ASSUME <<cur.f, cur.r>> \in Written'
               PROVE  cur.f \in DOMAIN bus /\ Taken = bus[cur.f].kind[cur.r]
    BY <1>8
  <2>1. cur.f \in DOMAIN bus /\ Orderly(cur.f) /\ Wants(cur.f, cur.r)
    BY <1>9
  <2> QED
    BY <1>1, <1>2, <2>1, InStep
<1>14. Onward
  BY <1>2, <1>4 DEF Onward
<1> QED
  BY <1>2, <1>4, <1>5, <1>6, <1>7, <1>11, <1>12, <1>13, <1>14

\* A new window that lies behind the older ones is as it should be.
LEMMA Together ==
  ASSUME NEW W, W = Older, InPlace(W)', NEW n, n = <<cur.f, cur.r>>,
         n \in Written' => IsPlaced(n[1], n[2])',
         \A v \in Older : n \in Written' => AreApart(v, n)'
  PROVE  InPlace(Written)'
<1>1. \A w \in Written' : w \in W \/ w = n
  BY DEF Older
<1>2. \A w \in Written' : IsPlaced(w[1], w[2])'
  BY <1>1 DEF InPlace
<1>3. ASSUME NEW v, NEW w, AreApart(v, w)' PROVE AreApart(w, v)'
  BY <1>3 DEF AreApart
<1>4. AreApart(n, n)'
  BY DEF AreApart
<1>5. \A v, w \in Written' : AreApart(v, w)'
  <2> SUFFICES ASSUME NEW v \in Written', NEW w \in Written' PROVE AreApart(v, w)'
    OBVIOUS
  <2>1. CASE v \in W /\ w \in W
    BY <2>1 DEF InPlace
  <2>2. CASE v \in Older /\ w = n
    BY <2>2
  <2>3. CASE v = n /\ w \in Older
    BY <1>3, <2>3
  <2>4. CASE v = n /\ w = n
    BY <1>4, <2>4
  <2> QED
    BY <1>1, <2>1, <2>2, <2>3, <2>4
<1> QED
  BY <1>2, <1>5 DEF InPlace

LEMMA WindowIo ==
  ASSUME TypeInv, OrderInv, WindowInv, MapIo
  PROVE  WindowInv'
<1>1. BusInv /\ LoopType /\ RegisterType /\ io \in Nat /\ mem \in Nat
  BY DEF TypeInv, RegisterType
<1>2. PICK a : a = ALIGN(io, Taken.size)
  OBVIOUS
<1>3. /\ pc # "preinit" /\ cur.r <= Rom /\ Taken.k = "io" /\ mem' = mem
      /\ io' = ALIGN(a + Taken.size, 1024) /\ Assign(Io(a))
      /\ UNCHANGED <<bus, pc>>
  BY <1>2 DEF MapIo, InLoop, Assign, hardware
<1>4. Taken.size \in IoSizes
  BY <1>1, <1>3, TakenIs
<1>5. io % 1024 = 0 /\ io >= 32768 /\ mem >= 2^29
  BY <1>3 DEF WindowInv, CounterInv
<1>6. a = io /\ a % Taken.size = 0 /\ io' \in Nat /\ io' >= a + Taken.size /\ io' % 1024 = 0
  BY <1>1, <1>2, <1>3, <1>4, <1>5, IoEnd
<1>7. /\ InBars /\ InBars' /\ Aligned' /\ Onward /\ cur.r \in Regs /\ cur.f \in Fcts
      /\ \A v \in Older : v \in Written /\ v[1] \in Fcts /\ v[2] \in Regs
                          /\ Size(v[1], v[2]) \in Nat
      /\ Kept(Older)
      /\ <<cur.f, cur.r>> \in Written' =>
           cur.f \in DOMAIN bus /\ Taken = bus[cur.f].kind[cur.r]
  BY NewWindow
<1>8. cur'.f = cur.f /\ \A f \in Fcts, r \in Regs :
        reg'[f][r] = IF f = cur.f /\ r = cur.r THEN Io(a) ELSE reg[f][r]
  <2>1. Io(a) \in [space : {"io", "mem"}, addr : Nat]
    BY <1>1, <1>6 DEF Io
  <2> QED
    BY <1>1, <1>3, <2>1, AssignType
<1>0. PICK W : W = Older
  OBVIOUS
<1>9. InPlace(W)'
  BY <1>0, <1>1, <1>7, KeptWindows
<1>10. PICK n : n = <<cur.f, cur.r>>
  OBVIOUS
<1>11. ASSUME n \in Written'
       PROVE  IsPlaced(n[1], n[2])' /\ \A v \in Older : AreApart(v, n)'
  <2>1. /\ n[1] = cur.f /\ n[2] = cur.r /\ bus'[n[1]].kind[n[2]].k = "io"
        /\ Addr(n[1], n[2])' = a /\ Size(n[1], n[2])' = Taken.size
    BY <1>3, <1>7, <1>8, <1>10, <1>11 DEF Addr, Size, Io
  <2>2. Taken.size \in Nat
    BY <1>4 DEF IoSizes
  <2>3. IsPlaced(n[1], n[2])'
    BY <1>5, <1>6, <2>1 DEF IsPlaced
  <2>4. ASSUME NEW v \in Older PROVE AreApart(v, n)'
    <3>1. IsPlaced(v[1], v[2])
      BY <1>7, <2>4 DEF WindowInv
    <3>2. v # n
      BY <1>10, <2>4 DEF Older
    <3>3. Addr(v[1], v[2])' = Addr(v[1], v[2]) /\ Size(v[1], v[2])' = Size(v[1], v[2])
      BY <1>3, <1>7, <2>4 DEF Kept, Addr, Size
    <3>4. bus[v[1]].kind[v[2]].k = "io" => Addr(v[1], v[2]) + Size(v[1], v[2]) <= a
      BY <1>6, <3>1 DEF IsPlaced
    <3> QED
      BY <1>3, <2>1, <3>2, <3>3, <3>4 DEF AreApart, Before
  <2> QED
    BY <2>3, <2>4
<1>12. InPlace(Written)'
  BY <1>0, <1>9, <1>10, <1>11, Together
<1>13. CounterInv'
  <2>1. Counted => Counted'
    BY <1>3, <1>8 DEF Counted, Answered, KindOf
  <2>2. mem % 8192 = 0 \/ Counted
    BY <1>3 DEF WindowInv, CounterInv
  <2>3. io' >= 32768
    BY <1>1, <1>4, <1>5, <1>6 DEF IoSizes
  <2> QED
    BY <1>3, <1>5, <1>6, <1>7, <2>1, <2>2, <2>3 DEF CounterInv
<1> QED
  BY <1>7, <1>12, <1>13 DEF WindowInv, InPlace

LEMMA WindowMem ==
  ASSUME TypeInv, OrderInv, WindowInv, MapMem
  PROVE  WindowInv'
<1>1. BusInv /\ LoopType /\ RegisterType /\ io \in Nat /\ mem \in Nat
  BY DEF TypeInv, RegisterType
<1>2. PICK a : a = ALIGN(mem, Taken.size)
  OBVIOUS
<1>3. /\ pc # "preinit" /\ cur.r <= Rom /\ Taken.k = "mem" /\ io' = io
      /\ mem' = a + Taken.size /\ Assign(Mem(a))
      /\ UNCHANGED <<bus, pc>>
  BY <1>2 DEF MapMem, InLoop, Assign, hardware
<1>4. Taken.size \in Nat \ {0}
  BY <1>1, <1>3, TakenIs
<1>5. io % 1024 = 0 /\ io >= 32768 /\ mem >= 2^29
  BY <1>3 DEF WindowInv, CounterInv
<1>6. a \in Nat /\ a >= mem /\ a % Taken.size = 0
  BY <1>1, <1>2, <1>4, AlignUp
<1>7. /\ InBars /\ InBars' /\ Settled' = Settled /\ Aligned' /\ Onward
      /\ cur.r \in Regs /\ cur.f \in Fcts
      /\ \A v \in Older : v \in Written /\ v[1] \in Fcts /\ v[2] \in Regs
                          /\ Size(v[1], v[2]) \in Nat
      /\ Kept(Older)
      /\ <<cur.f, cur.r>> \in Written' =>
           /\ cur.f \in DOMAIN bus /\ cur.f \notin Settled
           /\ Taken = bus[cur.f].kind[cur.r]
  BY NewWindow
<1>8. cur'.f = cur.f /\ \A f \in Fcts, r \in Regs :
        reg'[f][r] = IF f = cur.f /\ r = cur.r THEN Mem(a) ELSE reg[f][r]
  <2>1. Mem(a) \in [space : {"io", "mem"}, addr : Nat]
    BY <1>1, <1>6 DEF Mem
  <2> QED
    BY <1>1, <1>3, <2>1, AssignType
<1>0. PICK W : W = Older
  OBVIOUS
<1>9. InPlace(W)'
  BY <1>0, <1>1, <1>7, KeptWindows
<1>10. PICK n : n = <<cur.f, cur.r>>
  OBVIOUS
<1>11. ASSUME n \in Written'
       PROVE  IsPlaced(n[1], n[2])' /\ \A v \in Older : AreApart(v, n)'
  <2>1. /\ n[1] = cur.f /\ n[2] = cur.r /\ bus'[n[1]].kind[n[2]].k = "mem"
        /\ Addr(n[1], n[2])' = a /\ Size(n[1], n[2])' = Taken.size
    BY <1>3, <1>7, <1>8, <1>10, <1>11 DEF Addr, Size, Mem
  <2>2. n[1] \notin Settled'
    BY <1>7, <1>10, <1>11
  <2>3. IsPlaced(n[1], n[2])'
    <3>1. a % Taken.size = 0 /\ a >= 2^29 /\ a + Taken.size <= mem'
      BY <1>1, <1>3, <1>4, <1>5, <1>6
    <3> QED
      BY <2>1, <2>2, <3>1 DEF IsPlaced
  <2>4. ASSUME NEW v \in Older PROVE AreApart(v, n)'
    <3>1. IsPlaced(v[1], v[2]) /\ v \in Written
      BY <1>7, <2>4 DEF WindowInv
    <3>2. v # n
      BY <1>10, <2>4 DEF Older
    <3>3. Addr(v[1], v[2])' = Addr(v[1], v[2]) /\ Size(v[1], v[2])' = Size(v[1], v[2])
      BY <1>3, <1>7, <2>4 DEF Kept, Addr, Size
    <3>4. PICK e \in Nat : e = Addr(v[1], v[2]) + Size(v[1], v[2])
      <4>1. reg[v[1]][v[2]] \in Register
        BY <1>1, <1>7, <2>4 DEF RegisterType
      <4> QED
        BY <1>7, <2>4, <4>1 DEF Addr, Register
    <3>5. bus[v[1]].kind[v[2]].k = "mem" =>
            e <= mem /\ (v[1] \in Settled => ALIGN(e, 8192) <= mem)
      BY <3>1, <3>4 DEF IsPlaced
    <3>6. v[1] # n[1] => v[1] \in Settled
      BY <2>1, <3>1 DEF Written
    <3>7. ALIGN(e, 8192) \in Nat
      BY <3>4, PageEnd
    <3>8. bus[v[1]].kind[v[2]].k = "mem" =>
            e <= a /\ (v[1] # n[1] => ALIGN(e, 8192) <= a - (a % 8192))
      <4>1. ALIGN(e, 8192) <= a => ALIGN(e, 8192) <= a - (a % 8192)
        BY <1>6, <3>4, PageFloor
      <4>2. bus[v[1]].kind[v[2]].k = "mem" =>
              e <= a /\ (v[1] # n[1] => ALIGN(e, 8192) <= a)
        BY <1>1, <1>6, <3>4, <3>5, <3>6, <3>7
      <4> QED
        BY <4>1, <4>2
    <3> QED
      BY <1>3, <2>1, <3>2, <3>3, <3>4, <3>8 DEF AreApart, Before, PageBefore
  <2> QED
    BY <2>3, <2>4
<1>12. InPlace(Written)'
  BY <1>0, <1>9, <1>10, <1>11, Together
<1>13. CounterInv'
  <2>1. Counted
    <3>1. KindOf(cur.f, cur.c).k # "none" /\ cur.c \in Regs
      BY <1>1, <1>3, TakenIs
    <3> QED
      BY <3>1 DEF Counted, Answered
  <2>2. Counted'
    BY <1>3, <1>8, <2>1 DEF Counted, Answered, KindOf
  <2>3. mem' >= 2^29
    BY <1>1, <1>3, <1>4, <1>5, <1>6
  <2> QED
    BY <1>3, <1>5, <1>7, <2>2, <2>3 DEF CounterInv
<1> QED
  BY <1>7, <1>12, <1>13 DEF WindowInv, InPlace

LEMMA WindowEnd ==
  ASSUME TypeInv, OrderInv, WindowInv, VgaDone \/ ConfigDone
  PROVE  WindowInv'
<1>1. BusInv /\ LoopType /\ RegisterType /\ TableType /\ OnceInv
      /\ io \in Nat /\ mem \in Nat
  BY DEF TypeInv, RegisterType, OrderInv, OnceInv
<1>2. /\ InBars /\ ~InBars' /\ pc # "preinit" /\ cur.r > Rom /\ vga' = vga
      /\ \E more \in SUBSET Bits : EndBars(more)
      /\ Settled' = Settled \cup {cur.f}
  <2>1. CASE VgaDone
    <3>1. /\ pc = "vga_bars" /\ pc' = "nvram" /\ vga' = vga /\ devices' = devices
          /\ EndBars({"io", "mem", "master"})
      BY <2>1 DEF VgaDone
    <3>2. cur.f = vga
      BY <3>1 DEF OrderInv
    <3>3. {"io", "mem", "master"} \in SUBSET Bits
      BY DEF Bits
    <3>4. Settled' = Settled \cup {cur.f}
      BY <3>1, <3>2 DEF Settled
    <3> QED
      BY <3>1, <3>3, <3>4 DEF InBars, EndBars
  <2>2. CASE ConfigDone
    <3>1. /\ pc = "bars" /\ pc' = "config" /\ vga' = vga
          /\ EndBars({})
      /\ EnterDevice(cur.f, Resources(Cardinality(Answered)))
      BY <2>2 DEF ConfigDone
    <3>2. cur.f \in DOMAIN bus /\ cur.f = Head(todo) /\ todo # <<>>
          /\ Resources(Cardinality(Answered)) \in Lists
      BY <1>1, <2>2, ConfigDoneType, AnsweredAre, ResourcesAre
    <3>3. Entered' = Entered \cup {cur.f}
      BY <1>1, <3>1, <3>2, EnterOrder
    <3>4. Settled' = Settled \cup {cur.f}
      BY <3>1, <3>3 DEF Settled, Entered
    <3>5. {} \in SUBSET Bits
      OBVIOUS
    <3> QED
      BY <3>1, <3>4, <3>5 DEF InBars, EndBars
  <2> QED
    BY <2>1, <2>2
<1>3. PICK more \in SUBSET Bits : EndBars(more)
  BY <1>2
<1>4. /\ UNCHANGED <<bus, io, reg, cur>>
      /\ mem' \in Nat /\ mem' = IF Counted THEN ALIGN(mem, 8192) ELSE mem
  BY <1>1, <1>3, EndBarsIs
<1>5. mem' >= mem /\ mem' % 8192 = 0
  <2>1. mem % 8192 = 0 \/ Counted
    BY DEF WindowInv, CounterInv
  <2>2. ALIGN(mem, 8192) >= mem /\ ALIGN(mem, 8192) % 8192 = 0
    BY <1>1, PageEnd
  <2> QED
    BY <1>1, <1>4, <2>1, <2>2
<1>6. PICK W : W = Written'
  OBVIOUS
<1>7. ASSUME NEW w \in W
      PROVE  w \in Written /\ (w[1] \in Settled \/ w[1] = cur.f)
  <2>1. /\ w \in (DOMAIN bus) \X Regs /\ Orderly(w[1])' /\ Wants(w[1], w[2])
        /\ ~Shadowed(w[1], w[2])' /\ w[1] \in Settled \cup {cur.f}
    BY <1>2, <1>4, <1>6, <1>7 DEF Written, Wants
  <2>2. Orderly(w[1]) /\ ~Shadowed(w[1], w[2])
    BY <1>2, <1>4, <2>1 DEF Orderly, Wants, Shadowed
  <2>3. w[2] < cur.r
    BY <1>1, <1>2, <2>1 DEF LoopType, Locals, Regs, Rom
  <2> QED
    BY <1>2, <2>1, <2>2, <2>3 DEF Written
<1>8. W \subseteq Written
      /\ \A w \in W : w[1] \in Fcts /\ w[2] \in Regs /\ Size(w[1], w[2]) \in Nat
  BY <1>1, <1>7, WrittenIs
<1>9. ASSUME NEW w \in W, bus[w[1]].kind[w[2]].k = "mem", w[1] \notin Settled
      PROVE  ALIGN(Addr(w[1], w[2]) + Size(w[1], w[2]), 8192) <= mem'
  <2>1. w \in Written /\ w[1] = cur.f /\ w[2] \in Regs /\ w[1] \in DOMAIN bus
    BY <1>1, <1>7, <1>9, WrittenIs
  <2>2. Counted
    BY <1>9, <2>1 DEF Counted, Answered, KindOf
  <2>3. PICK e \in Nat : e = Addr(w[1], w[2]) + Size(w[1], w[2])
    <3>1. reg[w[1]][w[2]] \in Register
      BY <1>1, <1>8, <1>9 DEF RegisterType
    <3> QED
      BY <1>8, <1>9, <3>1 DEF Addr, Register
  <2>4. e <= mem
    BY <1>9, <2>1, <2>3 DEF WindowInv, IsPlaced
  <2>5. ALIGN(e, 8192) <= ALIGN(mem, 8192)
    BY <1>1, <2>3, <2>4, PageFloor
  <2> QED
    BY <1>4, <2>2, <2>3, <2>5
<1>10. InPlace(W)'
  <2>1. Kept(W)
    BY <1>4, <1>8, <1>9 DEF Kept
  <2>2. Onward
    BY <1>1, <1>4, <1>5 DEF Onward
  <2> QED
    BY <1>1, <2>1, <2>2, KeptWindows
<1>11. Aligned'
  BY <1>2 DEF Aligned
<1>12. CounterInv'
  <2>1. io >= 32768 /\ mem >= 2^29 /\ io % 1024 = 0
    BY <1>2 DEF WindowInv, CounterInv
  <2>2. mem' >= 2^29
    BY <1>1, <1>4, <1>5, <2>1
  <2> QED
    BY <1>4, <1>5, <2>1, <2>2 DEF CounterInv
<1> QED
  BY <1>6, <1>10, <1>11, <1>12 DEF WindowInv, InPlace

LEMMA WindowStep ==
  TypeInv /\ OrderInv /\ WindowInv /\ [SetupNext]_allVars => WindowInv'
<1> SUFFICES ASSUME TypeInv, OrderInv, WindowInv, [SetupNext]_allVars PROVE WindowInv'
  OBVIOUS
<1>0. BusInv /\ LoopType /\ RegisterType /\ TableType /\ OnceInv /\ bus' = bus
  BY HardwareKept DEF TypeInv, OrderInv, OnceInv
<1>1. CASE SetupStep
  <2>1. pc = "nvram" /\ pc' = "nvram" /\ UNCHANGED <<io, mem, vga, devices>>
    BY <1>1, SetupLeaves DEF tables
  <2>2. \A f \in Fcts, r \in Regs :
          reg'[f][r] # reg[f][r] => f = vga /\ r = Rom /\ reg'[f][r] = Mem(LegacyRom)
    BY <1>1, SetupChanges
  <2>3. Settled' \subseteq Settled /\ ~InBars /\ ~InBars' /\ pc # "preinit"
    BY <2>1 DEF Settled, InBars
  <2> QED
    BY <1>0, <2>1, <2>2, <2>3, WindowIdle
<1>2. CASE Preinit
  BY <1>2, WindowPreinit
<1>3. CASE Config \/ VmeOff
  BY <1>3, WindowConfig
<1>11. CASE ConfigVme
  BY <1>11, WindowVme
<1>4. CASE Unused \/ Ignore64 \/ Ignore1M
  BY <1>4, WindowSkip
<1>5. CASE MapIo
  BY <1>5, WindowIo
<1>6. CASE MapMem
  BY <1>6, WindowMem
<1>7. CASE VgaDone \/ ConfigDone
  BY <1>7, WindowEnd
<1>8. CASE NvramInit \/ ConfigVga \/ Route
  <2>1. /\ pc \in {"nvram", "config"} /\ pc' \in {"config", "done"}
        /\ UNCHANGED <<io, mem, reg, vga>>
    BY <1>8 DEF NvramInit, ConfigVga, Route, windows, tables
  <2>2. Settled' \subseteq Settled
    <3>1. CASE NvramInit
      BY <2>1, <3>1 DEF NvramInit, tables, Settled
    <3>2. CASE ConfigVga
      <4>1. todo # <<>> /\ Head(todo) = vga /\ EnterDevice(vga, vgaRsc)
        BY <3>2 DEF ConfigVga
      <4>2. vga \in DOMAIN bus /\ vgaRsc \in Lists
        BY <1>0, <3>2, ConfigVgaType DEF TableType
      <4>3. Entered' = Entered \cup {vga}
        BY <1>0, <4>1, <4>2, EnterOrder
      <4> QED
        BY <2>1, <4>3 DEF Settled, Entered
    <3>3. CASE Route
      <4>1. Entered' = Entered
        BY <1>0, <3>3, RouteOrder
      <4> QED
        BY <2>1, <4>1 DEF Settled, Entered
    <3> QED
      BY <1>8, <3>1, <3>2, <3>3
  <2>3. ~InBars /\ ~InBars' /\ pc # "preinit"
    BY <2>1 DEF InBars
  <2> QED
    BY <1>0, <2>1, <2>2, <2>3, WindowIdle
<1>9. CASE SkipToIds
  BY <1>9, WindowIds
<1>10. CASE UNCHANGED allVars
  <2>1. UNCHANGED <<bus, pc, cur, io, mem, reg, vga, devices>>
    BY <1>10 DEF allVars, vars, hardware, windows, tables
  <2>2. Settled' = Settled /\ InBars' = InBars
    BY <2>1 DEF Settled, InBars
  <2>3. Aligned' /\ CounterInv'
    BY <2>1, <2>2 DEF WindowInv, Aligned, CounterInv, Plain, Orderly, Wants, Counted,
                         Answered, KindOf
  <2>4. Written' = Written
    BY <2>1, <2>2 DEF Written, Orderly, Wants, Shadowed
  <2>5. \A w \in Written : IsPlaced(w[1], w[2])'
    BY <2>1, <2>2 DEF WindowInv, IsPlaced, Addr, Size
  <2>6. \A v, w \in Written : AreApart(v, w)'
    BY <2>1 DEF WindowInv, AreApart, Before, PageBefore, Addr, Size
  <2> QED
    BY <2>3, <2>4, <2>5, <2>6 DEF WindowInv
<1> QED
  BY <1>1, <1>2, <1>3, <1>4, <1>5, <1>6, <1>7, <1>8, <1>9, <1>10, <1>11
     DEF SetupNext, PciStep, Next

----------------------------------------------------------------------------
(* The lists of resources are kept                                           *)

LEMMA EntriesAre ==
  ASSUME NEW rsc \in Seq(Entry)
  PROVE  /\ DOMAIN rsc = 1..Len(rsc) /\ Len(rsc) \in Nat
         /\ \A i \in DOMAIN rsc : rsc[i] \in Entry /\ rsc[i].reg \in Nat
<1>1. DOMAIN rsc = 1..Len(rsc) /\ Len(rsc) \in Nat /\ \A i \in DOMAIN rsc : rsc[i] \in Entry
  OBVIOUS
<1>2. \A e \in Entry : e.reg \in Nat
  BY DEF Entry, Regs, Rom, Ids
<1> QED
  BY <1>1, <1>2

\* A list stays true while the registers it tells of stay as they are, but for a VGA ROM that
\* is moved.
LEMMA TellsKept ==
  ASSUME bus' = bus, vga' = vga, NEW rsc \in Seq(Entry), NEW f, NEW n,
         \A r \in Regs : r < n /\ reg'[f][r] # reg[f][r] => Shadowed(f, r)',
         Tells(rsc, f, n)
  PROVE  Tells(rsc, f, n)'
<1>1. \A i \in DOMAIN rsc : rsc[i].reg \in Regs
  BY DEF Tells
<1>2. \A r \in Regs : r < n /\ ~Shadowed(f, r)' => reg'[f][r] = reg[f][r] /\ ~Shadowed(f, r)
  BY DEF Shadowed
<1>3. ASSUME NEW i \in DOMAIN rsc
      PROVE  /\ rsc[i].reg \in Regs /\ rsc[i].reg < n /\ Wants(f, rsc[i].reg)'
             /\ rsc[i].space = bus'[f].kind[rsc[i].reg].k /\ rsc[i].size = Size(f, rsc[i].reg)'
             /\ ~Shadowed(f, rsc[i].reg)' => rsc[i].base = Addr(f, rsc[i].reg)'
  BY <1>1, <1>2, <1>3 DEF Tells, Wants, Size, Addr
<1>4. \A r \in Regs : r < n /\ Wants(f, r)' => \E i \in DOMAIN rsc : rsc[i].reg = r
  BY DEF Tells, Wants
<1>5. bus'[f].vme => IF n < 3 THEN Len(rsc) = n ELSE Len(rsc) >= 3 /\ rsc[3].reg = 2
  BY DEF Tells
<1> QED
  BY <1>3, <1>4, <1>5 DEF Tells

LEMMA TellsAllKept ==
  ASSUME bus' = bus, vga' = vga, NEW list \in Lists, NEW f,
         \A r \in Regs : reg'[f][r] # reg[f][r] => Shadowed(f, r)',
         TellsAll(list, f)
  PROVE  TellsAll(list, f)'
<1>1. PICK rsc : rsc = list.entries
  OBVIOUS
<1>2. rsc \in Seq(Entry) /\ Tells(rsc, f, Rom + 1)
  BY <1>1 DEF Lists, TellsAll
<1>3. PICK n : n = Rom + 1
  OBVIOUS
<1>4. Tells(rsc, f, n)'
  BY <1>2, <1>3, TellsKept
<1>5. /\ Ends(rsc) /\ rsc = <<>> => (list.blank > 0 <=> f = vga \/ Low(f))
      /\ list.before <=> Windowless(f) /\ Low(f)
  BY <1>1 DEF TellsAll
<1>6. /\ Low(f)' <=> Low(f)
      /\ Windowless(f)' <=> Windowless(f)
  BY DEF Low, Windowless
<1>7. Tells(list.entries, f, Rom + 1)'
  BY <1>1, <1>3, <1>4
<1> QED
  BY <1>1, <1>5, <1>6, <1>7 DEF TellsAll, Ends

LEMMA TellsAllFrame ==
  ASSUME bus' = bus, vga' = vga, reg' = reg, NEW list, NEW f, TellsAll(list, f)
  PROVE  TellsAll(list, f)'
BY DEF TellsAll, Tells, Ends, Low, Windowless, Wants, Size, Addr, Shadowed

\* Nothing is listed only where there is nothing to list.
LEMMA EmptyIs ==
  ASSUME NEW rsc \in Seq(Entry), NEW f, Tells(rsc, f, Rom + 1)
  PROVE  rsc = <<>> <=> Windowless(f)
<1>1. DOMAIN rsc = 1..Len(rsc) /\ Len(rsc) \in Nat
  OBVIOUS
<1>2. \A r \in Regs : r < Rom + 1
  BY DEF Regs, Rom
<1>3. /\ \A i \in DOMAIN rsc : rsc[i].reg \in Regs /\ Wants(f, rsc[i].reg)
      /\ \A r \in Regs : Wants(f, r) => \E i \in DOMAIN rsc : rsc[i].reg = r
  BY <1>2 DEF Tells
<1>4. DOMAIN rsc = {} <=> Windowless(f)
  BY <1>3 DEF Windowless, Wants
<1>5. rsc = <<>> <=> DOMAIN rsc = {}
  <2>1. rsc = <<>> <=> Len(rsc) = 0
    BY EmptySeq
  <2>2. Len(rsc) # 0 => 1 \in DOMAIN rsc
    BY <1>1
  <2>3. Len(rsc) = 0 => \A i : i \notin DOMAIN rsc
    BY <1>1
  <2>4. Len(rsc) = 0 => DOMAIN rsc = {}
    BY <2>3
  <2> QED
    BY <2>1, <2>2, <2>4
<1> QED
  BY <1>4, <1>5

\* At the head of the loop the next register is known to answer or not.
LEMMA TellsLess ==
  ASSUME BusInv, NEW f \in DOMAIN bus, NEW r \in Regs, ~Wants(f, r), NEW rsc \in Seq(Entry),
         Tells(rsc, f, r)
  PROVE  Tells(rsc, f, r + 1)
<1>1. \A q \in Regs : q < r + 1 /\ Wants(f, q) => q < r
  BY DEF Regs, Rom
<1>2. \A i \in DOMAIN rsc : rsc[i].reg \in Nat /\ (rsc[i].reg < r => rsc[i].reg < r + 1)
  BY EntriesAre DEF Regs, Rom
<1>3. bus[f].vme => r >= 3
  BY KindType DEF Wants, Regs, Rom
<1> QED
  BY <1>1, <1>2, <1>3 DEF Tells, Regs, Rom

LEMMA TellsMore ==
  ASSUME bus' = bus, NEW f \in DOMAIN bus, NEW r \in Regs, Wants(f, r)',
         NEW rsc \in Seq(Entry), Tells(rsc, f, r)', NEW e \in Entry, e.reg = r,
         e.space = bus'[f].kind[r].k, e.size = Size(f, r)', e.base = Addr(f, r)'
  PROVE  Tells(Append(rsc, e), f, r + 1)'
<1>1. PICK new : new = Append(rsc, e)
  OBVIOUS
<1>2. /\ Len(new) = Len(rsc) + 1 /\ new \in Seq(Entry)
      /\ \A i \in 1..Len(rsc) : new[i] = rsc[i]
      /\ new[Len(rsc) + 1] = e
  BY <1>1, AppendProperties
<1>3. DOMAIN rsc = 1..Len(rsc) /\ DOMAIN new = 1..Len(rsc) + 1 /\ Len(rsc) \in Nat
  BY <1>2
<1>4. \A i \in DOMAIN new : i \in DOMAIN rsc \/ i = Len(rsc) + 1
  BY <1>3
<1>5. ASSUME NEW i \in DOMAIN new
      PROVE  /\ new[i].reg \in Regs /\ new[i].reg < r + 1 /\ Wants(f, new[i].reg)'
             /\ new[i].space = bus'[f].kind[new[i].reg].k /\ new[i].size = Size(f, new[i].reg)'
             /\ ~Shadowed(f, new[i].reg)' => new[i].base = Addr(f, new[i].reg)'
  <2>1. CASE i \in DOMAIN rsc
    <3>1. new[i] = rsc[i] /\ rsc[i].reg \in Nat
      BY <1>2, <1>3, <2>1, EntriesAre
    <3>2. rsc[i].reg \in Regs /\ rsc[i].reg < r /\ Wants(f, rsc[i].reg)'
          /\ rsc[i].space = bus'[f].kind[rsc[i].reg].k /\ rsc[i].size = Size(f, rsc[i].reg)'
          /\ (~Shadowed(f, rsc[i].reg)' => rsc[i].base = Addr(f, rsc[i].reg)')
      BY <2>1 DEF Tells
    <3> QED
      BY <3>1, <3>2 DEF Regs
  <2>2. CASE i = Len(rsc) + 1
    BY <1>2, <2>2 DEF Regs
  <2> QED
    BY <1>4, <1>5, <2>1, <2>2
<1>6. ASSUME NEW q \in Regs, q < r + 1, Wants(f, q)'
      PROVE  \E i \in DOMAIN new : new[i].reg = q
  <2>1. CASE q = r
    BY <1>2, <1>3, <2>1
  <2>2. CASE q < r
    BY <1>2, <1>3, <1>6, <2>2 DEF Tells
  <2> QED
    BY <1>6, <2>1, <2>2 DEF Regs
<1>7. ASSUME bus'[f].vme
      PROVE  IF r + 1 < 3 THEN Len(new) = r + 1 ELSE Len(new) >= 3 /\ new[3].reg = 2
  <2>1. IF r < 3 THEN Len(rsc) = r ELSE Len(rsc) >= 3 /\ rsc[3].reg = 2
    BY <1>7 DEF Tells
  <2>2. CASE r < 2
    BY <1>2, <2>1, <2>2 DEF Regs
  <2>3. CASE r = 2
    <3>1. Len(rsc) = 2 /\ ~(r + 1 < 3)
      BY <2>1, <2>3
    <3>2. Len(rsc) + 1 = 3
      BY ONLY <3>1
    <3>3. Len(new) = 3 /\ new[3] = e
      BY ONLY <1>2, <3>2
    <3>4. Len(new) >= 3 /\ new[3].reg = 2
      BY <2>3, <3>3
    <3> QED
      BY ONLY <3>1, <3>4
  <2>4. CASE r > 2
    <3>1. Len(rsc) >= 3 /\ rsc[3].reg = 2
      BY <2>1, <2>4
    <3>2. 3 \in 1..Len(rsc)
      BY <1>3, <3>1
    <3>3. new[3] = rsc[3]
      BY <1>2, <3>2
    <3>4. ~(r + 1 < 3) /\ Len(new) >= 3 /\ new[3].reg = 2
      BY <1>2, <1>3, <2>4, <3>1, <3>3 DEF Regs
    <3> QED
      BY ONLY <3>4
  <2> QED
    BY <2>2, <2>3, <2>4 DEF Regs
<1> QED
  BY <1>1, <1>5, <1>6, <1>7 DEF Tells

LEMMA DevicesAre ==
  ASSUME TableType
  PROVE  \A i \in DOMAIN devices : /\ devices[i] \in Device /\ devices[i].f \in DOMAIN bus
                                   /\ devices[i].resources \in Lists
                                   /\ devices[i].pci_interrupt \in 0..4
                                   /\ devices[i].isa_interrupt \in valid_int
<1>1. \A i \in DOMAIN devices : devices[i] \in Device /\ devices[i].f \in DOMAIN bus
  BY DEF TableType
<1>2. \A d \in Device : d.resources \in Lists /\ d.pci_interrupt \in 0..4
                        /\ d.isa_interrupt \in valid_int
  BY DEF Device
<1> QED
  BY <1>1, <1>2

\* Lists stay true while registers are given windows that are in none of them.
LEMMA ListFrame ==
  ASSUME TableType, VgaList, DeviceLists, bus' = bus,
         UNCHANGED <<vga, vgaRsc, devices>>,
         pc \in {"preinit", "vga_bars"} <=> pc' \in {"preinit", "vga_bars"},
         \A f \in Settled, r \in Regs : reg'[f][r] # reg[f][r] => Shadowed(f, r)'
  PROVE  VgaList' /\ DeviceLists'
<1>1. VgaList'
  <2> SUFFICES ASSUME pc \notin {"preinit", "vga_bars"}, vga \in DOMAIN bus, Plain(vga)
               PROVE  TellsAll(vgaRsc, vga)'
    BY DEF VgaList, Plain
  <2>1. PICK rsc, f : rsc \in Lists /\ rsc = vgaRsc /\ f = vga
    BY DEF TableType
  <2>2. TellsAll(rsc, f) /\ f \in Settled
    BY <2>1 DEF VgaList, Settled
  <2>3. TellsAll(rsc, f)'
    BY <2>1, <2>2, TellsAllKept
  <2> QED
    BY <2>1, <2>3
<1>2. DeviceLists'
  <2> SUFFICES ASSUME NEW i \in DOMAIN devices, Plain(devices[i].f)
               PROVE  TellsAll(devices[i].resources, devices[i].f)'
    BY DEF DeviceLists, Plain
  <2>1. PICK rsc, f :
          rsc \in Lists /\ rsc = devices[i].resources /\ f = devices[i].f
    BY DevicesAre
  <2>2. TellsAll(rsc, f) /\ f \in Settled
    BY <2>1 DEF DeviceLists, Settled
  <2>3. TellsAll(rsc, f)'
    BY <2>1, <2>2, TellsAllKept
  <2> QED
    BY <2>1, <2>3
<1> QED
  BY <1>1, <1>2

LEMMA EnterList ==
  ASSUME BusInv, LoopType, RegisterType, TableType, DeviceLists, bus' = bus,
         UNCHANGED <<vga, reg>>, NEW f \in DOMAIN bus, NEW rsc \in Lists, todo # <<>>,
         EnterDevice(f, rsc), Plain(f) => TellsAll(rsc, f)
  PROVE  DeviceLists'
<1>1. /\ devices' \in Seq(Device) /\ Len(devices') = Len(devices) + 1
      /\ \A i \in 1..Len(devices) : devices'[i] = devices[i]
      /\ devices'[Len(devices) + 1] = DeviceOf(f, rsc)
  BY EnterDeviceIs
<1>2. DOMAIN devices = 1..Len(devices) /\ DOMAIN devices' = 1..Len(devices) + 1
      /\ Len(devices) \in Nat
  <2>1. devices \in Seq(Device)
    BY DEF TableType
  <2> QED
    BY <1>1, <2>1
<1>3. ASSUME NEW i \in DOMAIN devices', Plain(devices'[i].f)
      PROVE  TellsAll(devices'[i].resources, devices'[i].f)
  <2>1. CASE i \in DOMAIN devices
    BY <1>1, <1>2, <1>3, <2>1 DEF DeviceLists
  <2>2. CASE i = Len(devices) + 1
    <3>1. devices'[i].f = f /\ devices'[i].resources = rsc
      BY <1>1, <2>2 DEF DeviceOf
    <3> QED
      BY <1>3, <3>1
  <2> QED
    BY <1>2, <1>3, <2>1, <2>2
<1>4. PICK new : new = devices'
  OBVIOUS
<1>5. ASSUME NEW i \in DOMAIN new, Plain(new[i].f)'
      PROVE  TellsAll(new[i].resources, new[i].f)'
  <2>1. PICK list, g : list = new[i].resources /\ g = new[i].f
    OBVIOUS
  <2>2. Plain(g)
    BY <1>5, <2>1 DEF Plain
  <2>3. TellsAll(list, g)
    BY <1>3, <1>4, <1>5, <2>1, <2>2
  <2>4. TellsAll(list, g)'
    BY <2>3, TellsAllFrame
  <2> QED
    BY <2>1, <2>4
<1> QED
  BY <1>4, <1>5 DEF DeviceLists

\* The list that init_BARs hands over is complete.
LEMMA ResourcesTellAll ==
  ASSUME TypeInv, WindowInv, LoopList, InBars, cur.r > Rom, cur.f \in DOMAIN bus, Plain(cur.f),
         NEW room \in Int, room = IF cur.f = vga THEN 7 ELSE Cardinality(Answered)
  PROVE  TellsAll(Resources(room), cur.f)
<1>1. LoopType /\ cur.rsc \in Seq(Entry)
  BY DEF TypeInv, LoopType, Locals
<1>2. cur.r = Rom + 1
  <2>1. cur.c = cur.r /\ cur.c \in 0..Rom + 1
    BY <1>1 DEF WindowInv, Aligned, LoopType, Locals
  <2> QED
    BY <2>1 DEF Rom
<1>3. Tells(cur.rsc, cur.f, Rom + 1)
  BY <1>2 DEF LoopList
<1>4. PICK old \in Seq(Entry), new \in Seq(Entry) :
        old = cur.rsc /\ new = Resources(room).entries
  BY <1>1, ResourcesAre DEF Lists
<1>5. DOMAIN old = 1..Len(old) /\ DOMAIN new = 1..Len(old) /\ Len(new) = Len(old)
      /\ \A i \in 1..Len(old) : new[i] = [old[i] EXCEPT !.last = (i = Len(old))]
                                /\ old[i] \in Entry
  BY <1>1, <1>4, ResourcesAre
<1>6. ASSUME NEW e \in Entry, NEW b
      PROVE  LET d == [e EXCEPT !.last = b]
             IN /\ d.reg = e.reg /\ d.space = e.space /\ d.base = e.base /\ d.size = e.size
                /\ d.last = b
  BY <1>6 DEF Entry
<1>7. \A i \in 1..Len(old) :
        /\ new[i].reg = old[i].reg /\ new[i].space = old[i].space
        /\ new[i].base = old[i].base /\ new[i].size = old[i].size
        /\ new[i].last = (i = Len(old))
  <2> TAKE i \in 1..Len(old)
  <2>1. PICK e, b : e \in Entry /\ e = old[i] /\ b = (i = Len(old))
    BY <1>5
  <2>2. new[i] = [e EXCEPT !.last = b]
    BY <1>5, <2>1
  <2> QED
    BY <1>6, <2>1, <2>2
<1>8. Tells(new, cur.f, Rom + 1)
  <2>1. Tells(old, cur.f, Rom + 1)
    BY <1>3, <1>4
  <2>2. bus[cur.f].vme => Len(new) >= 3 /\ new[3].reg = 2
    <3> SUFFICES ASSUME bus[cur.f].vme PROVE Len(new) >= 3 /\ new[3].reg = 2
      OBVIOUS
    <3>1. Len(old) >= 3 /\ old[3].reg = 2
      BY <2>1 DEF Tells, Rom
    <3>2. 3 \in 1..Len(old)
      BY <1>5, <3>1
    <3> QED
      BY <1>5, <1>7, <3>1, <3>2
  <2>3. ~(Rom + 1 < 3)
    BY DEF Rom
  <2> QED
    BY <1>5, <1>7, <2>1, <2>2, <2>3 DEF Tells
<1>9. Ends(new)
  BY <1>5, <1>7 DEF Ends
<1>10. (old = <<>> <=> Windowless(cur.f)) /\ (new = <<>> <=> Windowless(cur.f))
  BY <1>3, <1>4, <1>8, EmptyIs
<1>11. Windowless(cur.f) => (Counted <=> Low(cur.f))
  <2> SUFFICES ASSUME Windowless(cur.f) PROVE Counted <=> Low(cur.f)
    OBVIOUS
  <2>1. ASSUME NEW r \in Regs PROVE bus[cur.f].kind[r].k \in {"none", "mem1m"}
    <3>1. bus[cur.f].kind[r].k \in KindNames \ {"io", "mem", "mem64"}
      BY KindType DEF TypeInv, Windowless, Plain
    <3>2. bus[cur.f].kind[r].k # "upper"
      <4> SUFFICES ASSUME bus[cur.f].kind[r].k = "upper" PROVE FALSE
        OBVIOUS
      <4>1. r > 0 /\ bus[cur.f].kind[r - 1].k = "mem64"
        BY KindType DEF TypeInv
      <4>2. r - 1 \in Regs
        BY <4>1 DEF Regs, Rom
      <4> QED
        BY <4>1, <4>2 DEF Plain
    <3> QED
      BY <3>1, <3>2 DEF KindNames
  <2> QED
    BY <2>1 DEF Counted, Answered, KindOf, Low
<1>12. /\ Resources(room).before <=> Counted /\ old = <<>>
       /\ Resources(room).blank = room - Len(old)
  BY <1>1, <1>4, ResourcesAre
<1>13. Resources(room).before <=> Windowless(cur.f) /\ Low(cur.f)
  BY <1>10, <1>11, <1>12
<1>14. ASSUME new = <<>>
       PROVE  Resources(room).blank > 0 <=> cur.f = vga \/ Low(cur.f)
  <2>1. Len(old) = 0 /\ Windowless(cur.f)
    BY <1>10, <1>14
  <2>2. Resources(room).blank = room
    BY <1>12, <2>1
  <2>3. CASE cur.f = vga
    BY <2>2, <2>3
  <2>4. CASE cur.f # vga
    BY <1>11, <2>1, <2>2, <2>4, AnsweredAre
  <2> QED
    BY <2>3, <2>4
<1> QED
  BY <1>4, <1>8, <1>9, <1>13, <1>14 DEF TellsAll

LEMMA PlainTaken ==
  ASSUME TypeInv, Aligned, InBars, cur.r <= Rom, cur.f \in DOMAIN bus, Plain(cur.f)
  PROVE  cur.r \in Regs /\ Taken = bus[cur.f].kind[cur.r] /\ Taken.k # "mem64"
<1>1. BusInv /\ LoopType
  BY DEF TypeInv
<1>2. cur.r \in Regs /\ cur.c = cur.r
  BY <1>1, TakenIs DEF Aligned
<1>3. bus[cur.f].kind[cur.r].k # "upper"
  <2> SUFFICES ASSUME bus[cur.f].kind[cur.r].k = "upper" PROVE FALSE
    OBVIOUS
  <2>1. cur.r > 0 /\ bus[cur.f].kind[cur.r - 1].k = "mem64"
    BY <1>1, <1>2, KindType
  <2>2. cur.r - 1 \in Regs
    BY <1>2, <2>1 DEF Regs, Rom
  <2> QED
    BY <2>1, <2>2 DEF Plain
<1>4. bus[cur.f].kind[cur.r].k = "io" => cur.r # Rom
  BY <1>1, <1>2, KindType
<1>5. Taken = bus[cur.f].kind[cur.r]
  BY <1>1, <1>2, <1>3, <1>4, TakenIs
<1> QED
  BY <1>2, <1>5 DEF Plain

LEMMA ListSkip ==
  ASSUME TypeInv, WindowInv, LoopList, Unused \/ Ignore64 \/ Ignore1M
  PROVE  LoopList' /\ UNCHANGED <<bus, pc, reg, vga, vgaRsc, devices>>
<1>1. BusInv /\ LoopType /\ Aligned /\ cur \in Locals
  BY DEF TypeInv, WindowInv, LoopType
<1>2. /\ InBars /\ cur.r <= Rom /\ Taken.k \in {"none", "mem64", "mem1m"}
      /\ \E regs \in {1, 2}, bits \in SUBSET {"io", "mem"} :
           (regs = 2 => Taken.k = "mem64") /\ Skip(regs, bits)
  <2>1. CASE Unused
    BY <2>1 DEF Unused, InLoop, InBars
  <2>2. CASE Ignore64
    BY <2>2 DEF Ignore64, InLoop, InBars
  <2>3. CASE Ignore1M
    BY <2>3 DEF Ignore1M, InLoop, InBars
  <2> QED
    BY <2>1, <2>2, <2>3
<1>3. PICK regs \in {1, 2}, bits \in SUBSET {"io", "mem"} :
        (regs = 2 => Taken.k = "mem64") /\ Skip(regs, bits)
  BY <1>2
<1>4. /\ UNCHANGED <<bus, pc, reg, vga, vgaRsc, devices>>
      /\ cur'.f = cur.f /\ cur'.r = cur.r + regs /\ cur'.rsc = cur.rsc
  BY <1>1, <1>3 DEF Skip, hardware, windows, tables, Locals
<1>5. ASSUME cur.f \in DOMAIN bus, Plain(cur.f)
      PROVE  Tells(cur.rsc, cur.f, cur.r + 1) /\ cur'.r = cur.r + 1
  <2>1. cur.r \in Regs /\ Taken = bus[cur.f].kind[cur.r] /\ Taken.k # "mem64"
    BY <1>1, <1>2, <1>5, PlainTaken
  <2>2. ~Wants(cur.f, cur.r)
    BY <1>2, <2>1 DEF Wants
  <2>3. cur'.r = cur.r + 1
    BY <1>3, <1>4, <2>1
  <2>4. Tells(cur.rsc, cur.f, cur.r)
    BY <1>2, <1>5 DEF LoopList
  <2>5. cur.rsc \in Seq(Entry)
    BY <1>1 DEF Locals
  <2>6. PICK rsc \in Seq(Entry), f \in DOMAIN bus, r \in Regs :
          rsc = cur.rsc /\ f = cur.f /\ r = cur.r
    BY <1>5, <2>1, <2>5
  <2>7. Tells(rsc, f, r + 1)
    BY <1>1, <2>2, <2>4, <2>6, TellsLess
  <2> QED
    BY <2>3, <2>6, <2>7
<1>6. LoopList'
  <2> SUFFICES ASSUME cur.f \in DOMAIN bus, Plain(cur.f)
               PROVE  Tells(cur.rsc, cur.f, cur.r)'
    BY <1>4 DEF LoopList, Plain
  <2>1. PICK rsc, f, n : rsc = cur.rsc /\ f = cur.f /\ n = cur.r + 1
    OBVIOUS
  <2>2. Tells(rsc, f, n)
    BY <1>5, <2>1
  <2>3. Tells(rsc, f, n)'
    BY <1>4, <2>2 DEF Tells, Wants, Size, Addr, Shadowed
  <2>4. cur'.rsc = rsc /\ cur'.f = f /\ cur'.r = n
    BY <1>4, <1>5, <2>1
  <2> QED
    BY <2>3, <2>4
<1> QED
  BY <1>4, <1>6

LEMMA ListAssign ==
  ASSUME TypeInv, OrderInv, WindowInv, LoopList, MapIo \/ MapMem
  PROVE  /\ LoopList' /\ UNCHANGED <<bus, pc, vga, vgaRsc, devices>>
         /\ \A f \in Settled, r \in Regs : f \in Fcts => reg'[f][r] = reg[f][r]
<1>1. BusInv /\ LoopType /\ RegisterType /\ Aligned /\ cur \in Locals
  BY DEF TypeInv, WindowInv, LoopType
<1>2. /\ InBars /\ cur.r <= Rom
      /\ \E val \in [space : {"io", "mem"}, addr : Nat] : Assign(val) /\ val.space = Taken.k
  <2>1. io \in Nat /\ mem \in Nat
    BY <1>1 DEF RegisterType
  <2>2. CASE MapIo
    <3>1. /\ InBars /\ cur.r <= Rom /\ Taken.k = "io" /\ Assign(Io(ALIGN(io, Taken.size)))
      BY <2>2 DEF MapIo, InLoop, InBars
    <3>2. Taken.size \in Nat \ {0}
      BY <1>1, <3>1, TakenIs DEF IoSizes
    <3>3. ALIGN(io, Taken.size) \in Nat
      BY <2>1, <3>2, AlignUp
    <3> QED
      BY <3>1, <3>3 DEF Io
  <2>3. CASE MapMem
    <3>1. /\ InBars /\ cur.r <= Rom /\ Taken.k = "mem" /\ Assign(Mem(ALIGN(mem, Taken.size)))
      BY <2>3 DEF MapMem, InLoop, InBars
    <3>2. ALIGN(mem, Taken.size) \in Nat
      BY <1>1, <2>1, <3>1, TakenIs, AlignUp
    <3> QED
      BY <3>1, <3>2 DEF Mem
  <2> QED
    BY <2>2, <2>3
<1>3. PICK val \in [space : {"io", "mem"}, addr : Nat] : Assign(val) /\ val.space = Taken.k
  BY <1>2
<1>4. /\ UNCHANGED <<bus, pc, vga, vgaRsc, devices>>
      /\ cur'.f = cur.f /\ cur'.r = cur.r + 1 /\ cur'.rsc = Append(cur.rsc, NewEntry(val))
      /\ NewEntry(val) \in Entry
      /\ \A f \in Fcts, r \in Regs :
           reg'[f][r] = IF f = cur.f /\ r = cur.r THEN val ELSE reg[f][r]
  BY <1>1, <1>2, <1>3, AssignType DEF Assign, hardware, tables
<1>5. cur.f \notin Settled
  BY <1>1, <1>2, CurIsNew
<1>6. ASSUME cur.f \in DOMAIN bus, Plain(cur.f)
      PROVE  Tells(cur.rsc, cur.f, cur.r)'
  <2>1. cur.r \in Regs /\ Taken = bus[cur.f].kind[cur.r]
    BY <1>1, <1>2, <1>6, PlainTaken
  <2>2. PICK rsc \in Seq(Entry), f \in DOMAIN bus, r \in Regs, e \in Entry :
          rsc = cur.rsc /\ f = cur.f /\ r = cur.r /\ e = NewEntry(val)
    BY <1>1, <1>4, <1>6, <2>1 DEF Locals
  <2>3. f \in Fcts
    BY <1>1, BusType
  <2>4. Tells(rsc, f, r)
    BY <1>2, <1>6, <2>2 DEF LoopList
  <2>5. \A q \in Regs : q < r /\ reg'[f][q] # reg[f][q] => Shadowed(f, q)'
    <3>1. \A q \in Regs : q < r => q # cur.r
      BY <2>2 DEF Regs, Rom
    <3>2. \A q \in Regs : q < r => reg'[f][q] = reg[f][q]
      BY <1>4, <2>3, <3>1
    <3> QED
      BY <3>2
  <2>6. Tells(rsc, f, r)'
    BY <1>4, <2>4, <2>5, TellsKept
  <2>7. /\ e.reg = r /\ e.space = bus[f].kind[r].k /\ e.size = Size(f, r)'
        /\ e.base = Addr(f, r)' /\ Wants(f, r)'
    BY <1>3, <1>4, <2>1, <2>2, <2>3 DEF NewEntry, Size, Addr, Wants
  <2>8. PICK list : list = Append(rsc, e)
    OBVIOUS
  <2>9. Tells(list, f, r + 1)'
    BY <1>4, <2>2, <2>6, <2>7, <2>8, TellsMore
  <2>10. cur'.rsc = list /\ cur'.f = f /\ cur'.r = r + 1
    BY <1>4, <2>2, <2>8
  <2> QED
    BY <2>9, <2>10
<1>7. LoopList'
  BY <1>4, <1>6 DEF LoopList, Plain
<1> QED
  BY <1>4, <1>5, <1>7

\* Nothing is told of a function whose setup begins.
LEMMA ListBegins ==
  ASSUME cur'.rsc = <<>>, cur'.r = 0
  PROVE  LoopList'
<1>1. PICK f, n, rsc : f = cur'.f /\ n = 0 /\ rsc = <<>>
  OBVIOUS
<1>2. Tells(rsc, f, n)'
  BY <1>1 DEF Tells, Regs, Rom
<1> QED
  BY <1>1, <1>2 DEF LoopList

LEMMA VgaListKept ==
  ASSUME VgaList, UNCHANGED <<bus, vga, vgaRsc, reg>>, pc \notin {"preinit", "vga_bars"}
  PROVE  VgaList'
<1> SUFFICES ASSUME vga \in DOMAIN bus, Plain(vga)
             PROVE  TellsAll(vgaRsc, vga)'
  BY DEF VgaList, Plain
<1>1. TellsAll(vgaRsc, vga)
  BY DEF VgaList
<1> QED
  BY <1>1, TellsAllFrame

LEMMA ListStep ==
  TypeInv /\ OrderInv /\ WindowInv /\ ListInv /\ [SetupNext]_allVars => ListInv'
<1> SUFFICES ASSUME TypeInv, OrderInv, WindowInv, ListInv, [SetupNext]_allVars PROVE ListInv'
  OBVIOUS
<1>0. BusInv /\ LoopType /\ RegisterType /\ TableType /\ OnceInv /\ bus' = bus
      /\ LoopList /\ VgaList /\ DeviceLists
  BY HardwareKept DEF TypeInv, OrderInv, OnceInv, ListInv
<1>1. CASE SetupStep
  <2>1. pc = "nvram" /\ pc' = "nvram" /\ UNCHANGED <<vga, vgaRsc, devices>>
    BY <1>1, SetupLeaves DEF tables
  <2>2. \A f \in Fcts, r \in Regs : reg'[f][r] # reg[f][r] => Shadowed(f, r)'
    BY <1>1, <2>1, SetupChanges DEF Shadowed
  <2>3. Settled \subseteq Fcts
    <3>1. vga \in Fcts
      BY <1>0, BusType DEF TableType, Fcts
    <3> QED
      BY <1>0, <3>1, BusType DEF Settled, TableType
  <2>4. VgaList' /\ DeviceLists'
    BY <1>0, <2>1, <2>2, <2>3, ListFrame
  <2> QED
    BY <2>1, <2>4 DEF ListInv, LoopList, InBars
<1>2. CASE Preinit
  <2>1. pc = "preinit" /\ pc' = "vga_bars" /\ devices' = devices
    BY <1>2 DEF Preinit
  <2>2. LoopList'
    BY <1>2, ListBegins DEF Preinit, StartBars
  <2>3. devices = <<>>
    BY <2>1 DEF OrderInv
  <2>4. DOMAIN devices' = {}
    BY <2>1, <2>3
  <2> QED
    BY <2>1, <2>2, <2>4 DEF ListInv, VgaList, DeviceLists
<1>3. CASE Config \/ VmeOff
  <2>1. PICK f : f = Head(todo)
    OBVIOUS
  <2>2. pc \in {"config", "vme"} /\ pc' = "bars" /\ UNCHANGED <<vga, vgaRsc, devices>>
        /\ todo # <<>> /\ f # vga /\ f \in Fcts /\ StartBars(f)
    BY <1>0, <1>3, <2>1, ConfigType, BeginsIs, BusType
  <2>3. \A g \in Fcts \ {f} : reg'[g] = reg[g]
    BY <1>0, <2>2, StartBarsType DEF RegisterType
  <2>4. Settled \subseteq Fcts \ {f}
    <3>1. vga \in Fcts
      BY <1>0, BusType DEF TableType, Fcts
    <3>2. f \notin Settled
      BY <1>0, <2>1, <2>2, NextIsNew
    <3> QED
      BY <1>0, <3>1, <3>2, BusType DEF Settled, TableType
  <2>5. \A g \in Settled, r \in Regs : reg'[g][r] # reg[g][r] => Shadowed(g, r)'
    BY <2>3, <2>4
  <2>6. VgaList' /\ DeviceLists'
    BY <1>0, <2>2, <2>5, ListFrame
  <2>7. LoopList'
    BY <2>2, ListBegins DEF StartBars
  <2> QED
    BY <2>6, <2>7 DEF ListInv
<1>13. CASE ConfigVme
  <2>1. PICK f : f = Head(todo)
    OBVIOUS
  <2>2. /\ pc = "config" /\ pc' = "vme" /\ UNCHANGED <<vga, vgaRsc, devices>>
        /\ todo # <<>> /\ f # vga /\ \A g \in Fcts \ {f} : reg'[g] = reg[g]
    BY <1>13, <2>1, ConfigVmeIs
  <2>3. f \notin Settled
    BY <1>0, <2>1, <2>2, NextIsNew
  <2>4. Settled \subseteq Fcts
    <3>1. vga \in Fcts
      BY <1>0, BusType DEF TableType, Fcts
    <3> QED
      BY <1>0, <3>1, BusType DEF Settled, TableType
  <2>5. \A g \in Settled, r \in Regs : reg'[g][r] # reg[g][r] => Shadowed(g, r)'
    BY <2>2, <2>3, <2>4
  <2>6. VgaList' /\ DeviceLists'
    BY <1>0, <2>2, <2>5, ListFrame
  <2> QED
    BY <2>2, <2>6 DEF ListInv, LoopList, InBars
<1>4. CASE Unused \/ Ignore64 \/ Ignore1M
  <2>1. LoopList' /\ UNCHANGED <<bus, pc, reg, vga, vgaRsc, devices>>
    BY <1>0, <1>4, ListSkip
  <2>2. VgaList' /\ DeviceLists'
    BY <1>0, <2>1, ListFrame
  <2> QED
    BY <2>1, <2>2 DEF ListInv
<1>5. CASE MapIo \/ MapMem
  <2>1. /\ LoopList' /\ UNCHANGED <<bus, pc, vga, vgaRsc, devices>>
        /\ \A f \in Settled, r \in Regs : f \in Fcts => reg'[f][r] = reg[f][r]
    BY <1>0, <1>5, ListAssign
  <2>2. Settled \subseteq Fcts
    <3>1. vga \in Fcts
      BY <1>0, BusType DEF TableType, Fcts
    <3> QED
      BY <1>0, <3>1, BusType DEF Settled, TableType
  <2>3. \A f \in Settled, r \in Regs : reg'[f][r] # reg[f][r] => Shadowed(f, r)'
    BY <2>1, <2>2
  <2>4. VgaList' /\ DeviceLists'
    BY <1>0, <2>1, <2>3, ListFrame
  <2> QED
    BY <2>1, <2>4 DEF ListInv
<1>6. CASE VgaDone
  <2>1. /\ pc = "vga_bars" /\ pc' = "nvram" /\ cur.r > Rom /\ vgaRsc' = Resources(7)
        /\ UNCHANGED <<vga, devices, reg>>
    BY <1>6 DEF VgaDone, EndBars
  <2>2. cur.f = vga /\ devices = <<>>
    BY <2>1 DEF OrderInv
  <2>3. DOMAIN devices' = {}
    BY <2>1, <2>2
  <2>4. VgaList'
    <3> SUFFICES ASSUME vga \in DOMAIN bus, Plain(vga)
                 PROVE  TellsAll(vgaRsc, vga)'
      BY <1>0, <2>1 DEF VgaList, Plain
    <3>1. PICK rsc, f : rsc = Resources(7) /\ f = vga
      OBVIOUS
    <3>2. TellsAll(rsc, f)
      BY <1>0, <2>1, <2>2, <3>1, ResourcesTellAll DEF InBars
    <3>3. TellsAll(rsc, f)'
      BY <1>0, <2>1, <3>2, TellsAllFrame
    <3> QED
      BY <2>1, <3>1, <3>3
  <2> QED
    BY <2>1, <2>3, <2>4 DEF ListInv, LoopList, InBars, DeviceLists
<1>7. CASE ConfigVga
  <2>1. /\ pc = "config" /\ pc' = "config" /\ todo # <<>> /\ EnterDevice(vga, vgaRsc)
        /\ UNCHANGED <<vga, vgaRsc, reg>>
    BY <1>7 DEF ConfigVga, windows
  <2>2. vga \in DOMAIN bus /\ vgaRsc \in Lists
    BY <1>0, <1>7, ConfigVgaType DEF TableType
  <2>3. Plain(vga) => TellsAll(vgaRsc, vga)
    BY <1>0, <2>1, <2>2 DEF VgaList
  <2>4. DeviceLists'
    BY <1>0, <2>1, <2>2, <2>3, EnterList
  <2>5. VgaList'
    BY <1>0, <2>1, VgaListKept
  <2> QED
    BY <2>1, <2>4, <2>5 DEF ListInv, LoopList, InBars
<1>8. CASE ConfigDone
  <2>1. /\ pc = "bars" /\ pc' = "config" /\ cur.r > Rom
        /\ EnterDevice(cur.f, Resources(Cardinality(Answered)))
        /\ UNCHANGED <<vga, vgaRsc, reg>>
    BY <1>8 DEF ConfigDone, EndBars
  <2>2. cur.f \in DOMAIN bus /\ todo # <<>>
        /\ Resources(Cardinality(Answered)) \in Lists
    BY <1>0, <1>8, ConfigDoneType, AnsweredAre, ResourcesAre
  <2>3. Plain(cur.f) => TellsAll(Resources(Cardinality(Answered)), cur.f)
    <3>1. cur.f # vga
      BY <2>1 DEF OrderInv
    <3> QED
      BY <1>0, <2>1, <2>2, <3>1, AnsweredAre, ResourcesTellAll DEF InBars
  <2>4. DeviceLists'
    BY <1>0, <2>1, <2>2, <2>3, EnterList
  <2>5. VgaList'
    BY <1>0, <2>1, VgaListKept
  <2> QED
    BY <2>1, <2>4, <2>5 DEF ListInv, LoopList, InBars
<1>9. CASE NvramInit
  <2>1. /\ pc = "nvram" /\ pc' = "config" /\ UNCHANGED <<vga, vgaRsc, devices, reg>>
    BY <1>9 DEF NvramInit, tables, windows
  <2>2. VgaList' /\ DeviceLists'
    BY <1>0, <2>1, ListFrame
  <2> QED
    BY <2>1, <2>2 DEF ListInv, LoopList, InBars
<1>10. CASE Route
  <2>1. pc = "config" /\ pc' = "done" /\ UNCHANGED <<vga, vgaRsc, reg>>
    BY <1>10 DEF Route, windows
  <2>2. VgaList'
    BY <1>0, <2>1, VgaListKept
  <2>3. PICK new : new = devices'
    OBVIOUS
  <2>4. /\ DOMAIN new = DOMAIN devices
        /\ \A i \in DOMAIN devices :
             new[i] = [devices[i] EXCEPT !.isa_interrupt = IsaOf(devices[i].pci_interrupt)]
    BY <1>10, <2>3 DEF Route
  <2>5. ASSUME NEW d \in Device, NEW x
        PROVE  [d EXCEPT !.isa_interrupt = x].f = d.f
               /\ [d EXCEPT !.isa_interrupt = x].resources = d.resources
    BY <2>5 DEF Device
  <2>6. \A i \in DOMAIN devices :
          new[i].f = devices[i].f /\ new[i].resources = devices[i].resources
    <3> TAKE i \in DOMAIN devices
    <3>1. PICK d, x :
            d \in Device /\ d = devices[i] /\ x = IsaOf(devices[i].pci_interrupt)
      BY <1>0, DevicesAre
    <3>2. new[i] = [d EXCEPT !.isa_interrupt = x]
      BY <2>4, <3>1
    <3> QED
      BY <2>5, <3>1, <3>2
  <2>7. ASSUME NEW i \in DOMAIN new, Plain(new[i].f)'
        PROVE  TellsAll(new[i].resources, new[i].f)'
    <3>1. PICK list, g : list = new[i].resources /\ g = new[i].f
      OBVIOUS
    <3>2. Plain(g)
      BY <1>0, <2>7, <3>1 DEF Plain
    <3>3. TellsAll(list, g)
      BY <1>0, <2>4, <2>6, <2>7, <3>1, <3>2 DEF DeviceLists
    <3>4. TellsAll(list, g)'
      BY <1>0, <2>1, <3>3, TellsAllFrame
    <3> QED
      BY <3>1, <3>4
  <2>8. DeviceLists'
    BY <2>3, <2>7 DEF DeviceLists
  <2> QED
    BY <2>1, <2>2, <2>8 DEF ListInv, LoopList, InBars
<1>11. CASE SkipToIds
  <2>1. /\ UNCHANGED <<bus, pc, reg, vga, vgaRsc, devices>> /\ cur'.f = cur.f
        /\ KindOf(cur.f, cur.c).k = "mem64" /\ cur.c < 5 /\ cur.r = 5
    BY <1>0, <1>11, IdsType
  <2>2. cur.f \in DOMAIN bus => ~Plain(cur.f)
    BY <1>0, <2>1, TakenIs DEF KindOf, Plain, Rom
  <2>3. LoopList'
    BY <2>1, <2>2 DEF LoopList, Plain
  <2>4. VgaList' /\ DeviceLists'
    BY <1>0, <2>1, ListFrame
  <2> QED
    BY <2>3, <2>4 DEF ListInv
<1>12. CASE UNCHANGED allVars
  <2>1. UNCHANGED <<bus, pc, cur, reg, vga, vgaRsc, devices>>
    BY <1>12 DEF allVars, vars, hardware, windows, tables
  <2>2. LoopList'
    BY <1>0, <2>1 DEF LoopList, InBars, Plain, Tells, Wants, Size, Addr, Shadowed
  <2>3. VgaList' /\ DeviceLists'
    BY <1>0, <2>1, ListFrame
  <2> QED
    BY <2>2, <2>3 DEF ListInv
<1> QED
  BY <1>1, <1>2, <1>3, <1>4, <1>5, <1>6, <1>7, <1>8, <1>9, <1>10, <1>11, <1>12,
     <1>13 DEF SetupNext, PciStep, Next

----------------------------------------------------------------------------
(* The invariant                                                            *)

LEMMA InvInit == SetupInit => Inv
<1> SUFFICES ASSUME SetupInit PROVE Inv
  OBVIOUS
<1>1. TypeInv
  BY TypeInit
<1>2. pc = "preinit" /\ todo = <<>> /\ devices = <<>> /\ vga = <<0, 0>> /\ io = 0 /\ mem = 0
      /\ cmd = [f \in Fcts |-> {}]
  BY DEF SetupInit, PowerOn
<1>3. DOMAIN todo = {} /\ DOMAIN devices = {} /\ Settled = {} /\ ~InBars
  BY <1>2 DEF Settled, InBars
<1>4. OrderInv
  BY <1>2, <1>3 DEF OrderInv, SetUp
<1>5. WindowInv
  <2>1. Written = {}
    BY <1>3 DEF Written
  <2> QED
    BY <1>2, <1>3, <2>1 DEF WindowInv, Aligned, CounterInv
<1>6. ListInv
  BY <1>2, <1>3 DEF ListInv, LoopList, VgaList, DeviceLists
<1> QED
  BY <1>1, <1>4, <1>5, <1>6 DEF Inv

LEMMA Inductive == SetupSpec => []Inv
<1>1. Inv /\ [SetupNext]_allVars => Inv'
  BY TypeStep, OrderStep, WindowStep, ListStep DEF Inv
<1> QED
  BY <1>1, InvInit, PTL DEF SetupSpec

----------------------------------------------------------------------------
(* The theorems                                                              *)

\* The variables of the PCI setup hold what the code's do (PciInit's part of SetupTypeOK).
THEOREM TypeCorrect == SetupSpec => []TypeOK
<1>1. Inv => TypeOK
  <2> SUFFICES ASSUME Inv PROVE TypeOK
    OBVIOUS
  <2>1. BusInv /\ LoopType /\ RegisterType /\ TableType
    BY DEF Inv, TypeInv
  <2>2. Range(todo) \subseteq DOMAIN bus
    <3>1. \A i \in DOMAIN todo : todo[i] \in DOMAIN bus
      BY <2>1 DEF LoopType
    <3> QED
      BY <3>1 DEF Range
  <2>3. /\ cur.f \in Fcts /\ cur.r \in 0..Rom + 2 /\ cur.c \in 0..Rom + 1 /\ cur.c <= cur.r
        /\ cur.cmd \subseteq {"io", "mem"} /\ cur.rsc \in Seq(Entry)
    BY <2>1 DEF LoopType, Locals
  <2>4. \A i \in DOMAIN cur.rsc : Listed(cur.rsc[i]) \in Window
    <3>1. \A i \in DOMAIN cur.rsc : cur.rsc[i] \in Entry
      BY <2>3, EntriesAre
    <3>2. \A e \in Entry : Listed(e) \in Window
      BY DEF Entry, Listed, Window
    <3> QED
      BY <3>1, <3>2
  <2>5. \A f \in Fcts : /\ \A r \in Regs : reg[f][r].addr \in Nat
                        /\ cmd[f] \subseteq {"io", "mem", "master"}
                        /\ line[f] \in Byte
    <3> TAKE f \in Fcts
    <3>1. \A r \in Regs : reg[f][r] \in Register
      BY <2>1 DEF RegisterType
    <3>2. cmd[f] \in SUBSET Bits /\ line[f] \in Byte
      BY <2>1 DEF RegisterType
    <3> QED
      BY <3>1, <3>2 DEF Register, Bits
  <2>6. io \in Nat /\ mem \in Nat
    BY <2>1 DEF RegisterType
  <2>7. vga \in Fcts
    BY <2>1, BusType DEF TableType, Fcts
  <2>8. \A i \in DOMAIN devices : /\ devices[i].f \in DOMAIN bus
                                  /\ devices[i].pci_interrupt \in 0..4
                                  /\ devices[i].isa_interrupt \in valid_int
    BY <2>1, DevicesAre
  <2>9. pc \in {"preinit", "vga_bars", "nvram", "config", "vme", "bars", "done"}
    BY <2>1 DEF LoopType
  <2>10. believed \in BOOLEAN /\ language \in 0..1 /\ piix \in [1..4 -> valid_int]
    BY <2>1 DEF TableType
  <2> QED
    BY <2>2, <2>3, <2>4, <2>5, <2>6, <2>7, <2>8, <2>9, <2>10 DEF TypeOK
<1> QED
  BY <1>1, Inductive, PTL

\* A mapped register of a function that has been set up has its window, and the function
\* answers to it where the register says.
LEMMA DecodesIs ==
  ASSUME Inv, NEW f \in DOMAIN bus, f \in Settled, Orderly(f), NEW r \in Mapped(f)
  PROVE  /\ <<f, r>> \in Written /\ r \in Regs
         /\ Decodes(f, r) = [space |-> bus[f].kind[r].k, size |-> Size(f, r),
                            base |-> Addr(f, r)]
         /\ Addr(f, r) \in Nat /\ Size(f, r) \in Nat \ {0} /\ IsPlaced(f, r)
         /\ bus[f].kind[r].k \in {"io", "mem"} /\ f \in Fcts
<1>1. BusInv /\ RegisterType
  BY DEF Inv, TypeInv
<1>2. r \in Regs /\ Wants(f, r) /\ ~Shadowed(f, r)
  BY DEF Mapped, Wants
<1>3. <<f, r>> \in Written
  BY <1>2 DEF Written
<1>4. f \in Fcts /\ Size(f, r) \in Nat \ {0} /\ bus[f].kind[r].k \in {"io", "mem"}
  BY <1>1, <1>3, WrittenIs
<1>5. IsPlaced(f, r)
  BY <1>3 DEF Inv, WindowInv
<1>6. Addr(f, r) \in Nat
  <2>1. reg[f][r] \in Register
    BY <1>1, <1>2, <1>4 DEF RegisterType
  <2> QED
    BY <2>1 DEF Addr, Register
<1>7. Addr(f, r) % Size(f, r) = 0 /\ Addr(f, r) - 0 = Addr(f, r)
  BY <1>5, <1>6 DEF IsPlaced
<1>8. Decodes(f, r) = [space |-> IF bus[f].kind[r].k = "io" THEN "io" ELSE "mem",
                       size |-> Size(f, r), base |-> Addr(f, r) - (Addr(f, r) % Size(f, r))]
  BY DEF Decodes, Size, Addr
<1> QED
  BY <1>2, <1>3, <1>4, <1>5, <1>6, <1>7, <1>8

EndsPage(p, a, n) ==
  /\ p.base = a - (a % 8192) /\ p.base + p.size = ALIGN(a + n, 8192)
  /\ p.base \in Nat /\ ALIGN(a + n, 8192) \in Nat

IsPagesOf(p, k, a, n) == p = PagesOf([space |-> k, size |-> n, base |-> a])

\* The pages of a window end where its last one does.
LEMMA PagesEnd ==
  ASSUME NEW k, NEW a \in Nat, NEW n \in Nat, NEW p, IsPagesOf(p, k, a, n)
  PROVE  EndsPage(p, a, n)
<1>1. PICK f \in Nat : f = a - (a % 8192) /\ f % 8192 = 0 /\ f <= a
  <2>1. a - (a % 8192) \in Nat /\ (a - (a % 8192)) % 8192 = 0 /\ a - (a % 8192) <= a
    OBVIOUS
  <2> QED
    BY <2>1
<1>2. PICK e \in Nat : e = a + n /\ f <= e
  BY <1>1
<1>3. f + ALIGN(e - f, 8192) = ALIGN(e, 8192) /\ ALIGN(e, 8192) \in Nat
  <2>1. (e - f) % 8192 = e % 8192
    BY <1>1, <1>2
  <2> QED
    BY <1>1, <1>2, <2>1 DEF ALIGN
<1>4. p = [base |-> f, size |-> ALIGN(e - f, 8192)]
  BY <1>1, <1>2 DEF PagesOf, IsPagesOf
<1>5. p.base = f /\ p.size = ALIGN(e - f, 8192)
  BY ONLY <1>4
<1> QED
  BY ONLY <1>1, <1>2, <1>3, <1>5 DEF EndsPage

\* No function has a 64-bit register that a mapped one lies behind.
OrderlyBus == \A f \in DOMAIN bus : Orderly(f)

\* A register that answers is one of a function that has been set up.
LEMMA LiveIs ==
  ASSUME Inv, OrderlyBus, NEW w \in Live
  PROVE  /\ w = <<w[1], w[2]>> /\ w[1] \in DOMAIN bus /\ w[1] \in Settled
         /\ Orderly(w[1]) /\ w[2] \in Mapped(w[1])
<1>1. w = <<w[1], w[2]>> /\ w[1] \in DOMAIN bus /\ w[2] \in Mapped(w[1])
      /\ cmd[w[1]] # {} /\ ~SetUp(w[1])
  BY DEF Live
<1>2. w[1] \in Fcts
  BY <1>1, BusType DEF Inv, TypeInv
<1>3. w[1] \in Settled
  BY <1>1, <1>2 DEF Inv, OrderInv
<1> QED
  BY <1>1, <1>3 DEF OrderlyBus

\* No two registers through which functions answer do so at the same address or, in memory, on
\* the same page; none answers in the RAM or where an ISA card might: as long as no 64-bit
\* register of theirs throws init_BARs out of step (OthersAsAsked), whatever is plugged in and
\* whatever the BIOS of the VGA card writes to its COMMAND register.
THEOREM WindowsStayApart == SetupSpec => [](OrderlyBus => WindowsApart)
<1>1. Inv => (OrderlyBus => WindowsApart)
  <2> SUFFICES ASSUME Inv, OrderlyBus, NEW v \in Live, NEW w \in Live
               PROVE  LET dv == Decodes(v[1], v[2])
                          dw == Decodes(w[1], w[2])
                      IN /\ dv.base >= IF dv.space = "io" THEN 32768 ELSE 2^29
                         /\ dv.space = "io" /\ dv.size <= 256 =>
                              (dv.base % 1024) + dv.size <= 256
                         /\ v # w /\ dv.space = dw.space => ~Overlap(dv, dw)
                         /\ v[1] # w[1] /\ dv.space = "mem" /\ dw.space = "mem" =>
                              ~Overlap(PagesOf(dv), PagesOf(dw))
    BY DEF WindowsApart
  <2>1. /\ v = <<v[1], v[2]>> /\ v[1] \in DOMAIN bus /\ v[1] \in Settled
        /\ Orderly(v[1]) /\ v[2] \in Mapped(v[1])
    BY LiveIs
  <2>2. /\ w = <<w[1], w[2]>> /\ w[1] \in DOMAIN bus /\ w[1] \in Settled
        /\ Orderly(w[1]) /\ w[2] \in Mapped(w[1])
    BY LiveIs
  <2>3. PICK a \in Nat, n \in Nat \ {0}, k \in {"io", "mem"} :
          /\ a = Addr(v[1], v[2]) /\ n = Size(v[1], v[2]) /\ k = bus[v[1]].kind[v[2]].k
          /\ Decodes(v[1], v[2]) = [space |-> k, size |-> n, base |-> a]
          /\ IsPlaced(v[1], v[2]) /\ v \in Written
    BY <2>1, DecodesIs
  <2>4. PICK b \in Nat, m \in Nat \ {0}, l \in {"io", "mem"} :
          /\ b = Addr(w[1], w[2]) /\ m = Size(w[1], w[2]) /\ l = bus[w[1]].kind[w[2]].k
          /\ Decodes(w[1], w[2]) = [space |-> l, size |-> m, base |-> b]
          /\ IsPlaced(w[1], w[2]) /\ w \in Written
    BY <2>2, DecodesIs
  <2>5. AreApart(v, w)
    BY <2>3, <2>4 DEF Inv, WindowInv
  <2>6. /\ k = "io" => a >= 32768 /\ a % 1024 = 0
        /\ k = "mem" => a >= 2^29
    BY <2>3 DEF IsPlaced
  <2>7. k = l => /\ v # w => a + n <= b \/ b + m <= a
                 /\ v[1] # w[1] /\ k = "mem" =>
                      \/ ALIGN(a + n, 8192) <= b - (b % 8192)
                      \/ ALIGN(b + m, 8192) <= a - (a % 8192)
    BY <2>3, <2>4, <2>5 DEF AreApart, Before, PageBefore
  <2>8. a >= IF k = "io" THEN 32768 ELSE 2^29
    BY <2>6
  <2>9. k = "io" /\ n <= 256 => (a % 1024) + n <= 256
    BY <2>6
  <2>10. v # w /\ k = l => ~(a < b + m /\ b < a + n)
    BY <2>7
  <2>11. ASSUME v[1] # w[1], k = "mem", l = "mem"
         PROVE  ~Overlap(PagesOf([space |-> k, size |-> n, base |-> a]),
                         PagesOf([space |-> l, size |-> m, base |-> b]))
    <3>1. \/ ALIGN(a + n, 8192) <= b - (b % 8192)
          \/ ALIGN(b + m, 8192) <= a - (a % 8192)
      BY <2>7, <2>11
    <3>2. PICK p : p = PagesOf([space |-> k, size |-> n, base |-> a])
      OBVIOUS
    <3>3. PICK q : q = PagesOf([space |-> l, size |-> m, base |-> b])
      OBVIOUS
    <3>4. a \in Nat /\ n \in Nat /\ b \in Nat /\ m \in Nat
      OBVIOUS
    <3>5. IsPagesOf(p, k, a, n) /\ IsPagesOf(q, l, b, m)
      BY <3>2, <3>3 DEF IsPagesOf
    <3>6. EndsPage(p, a, n) /\ EndsPage(q, b, m)
      BY ONLY <3>4, <3>5, PagesEnd
    <3>7. ~Overlap(p, q)
      BY ONLY <3>1, <3>4, <3>6 DEF EndsPage, Overlap
    <3> QED
      BY <3>2, <3>3, <3>7
  <2> QED
    BY <2>3, <2>4, <2>8, <2>9, <2>10, <2>11 DEF Overlap
<1> QED
  BY <1>1, Inductive, PTL

\* Every device's list of resources names exactly the windows that its registers hold, the VGA
\* card's through its BIOS as well, the VME card's third entry is its memory, and the end is at
\* the last entry; what ends nowhere, or before it begins, is the list of a VGA card without
\* windows or of a function that asks for memory below 1 MB and for nothing else.
THEOREM ResourcesStayTold == SetupSpec => []ResourcesTell
<1>1. Inv => ResourcesTell
  <2> SUFFICES ASSUME Inv, NEW i \in DOMAIN devices,
                      \A r \in Regs : bus[devices[i].f].kind[r].k # "mem64"
               PROVE  LET d == devices[i]
                          regs == Mapped(d.f)
                          list == d.resources
                          Ended == \E j \in DOMAIN list.entries : list.entries[j].last
                      IN /\ {Listed(w) :
                                w \in {v \in Range(list.entries) : ~Shadowed(d.f, v.reg)}} =
                              {[reg |-> r, space |-> Decodes(d.f, r).space,
                                base |-> Decodes(d.f, r).base,
                                size |-> Decodes(d.f, r).size] : r \in regs}
                         /\ \A j \in DOMAIN list.entries :
                              list.entries[j].last <=> j = Len(list.entries)
                         /\ ~Ended /\ list.blank > 0 <=>
                              Windowless(d.f) /\ (d.f = vga \/ Low(d.f))
                         /\ list.before <=> Windowless(d.f) /\ Low(d.f)
                         /\ bus[d.f].vme => list.entries[3].reg = 2
    BY DEF ResourcesTell
  <2>1. PICK f \in DOMAIN bus, list \in Lists :
          f = devices[i].f /\ list = devices[i].resources
    BY DevicesAre DEF Inv, TypeInv
  <2>2. f \in Settled /\ Plain(f)
    BY <2>1 DEF Settled, Plain
  <2>12. PICK rsc \in Seq(Entry) : rsc = list.entries
    BY DEF Lists
  <2>13. TellsAll(list, f)
    BY <2>1, <2>2 DEF Inv, ListInv, DeviceLists
  <2>3. Tells(rsc, f, Rom + 1) /\ Ends(rsc)
    BY <2>12, <2>13 DEF TellsAll
  <2>4. Orderly(f)
    BY <2>2 DEF Plain, Orderly
  <2>5. /\ \A j \in DOMAIN rsc :
             /\ rsc[j] \in Entry /\ rsc[j].reg \in Regs /\ Wants(f, rsc[j].reg)
             /\ rsc[j].space = bus[f].kind[rsc[j].reg].k /\ rsc[j].size = Size(f, rsc[j].reg)
             /\ ~Shadowed(f, rsc[j].reg) => rsc[j].base = Addr(f, rsc[j].reg)
        /\ \A r \in Regs : Wants(f, r) => \E j \in DOMAIN rsc : rsc[j].reg = r
    <3>1. \A r \in Regs : r < Rom + 1
      BY DEF Regs, Rom
    <3> QED
      BY <2>3, <3>1, EntriesAre DEF Tells
  <2> DEFINE Of(r) == [reg |-> r, space |-> Decodes(f, r).space, base |-> Decodes(f, r).base,
                       size |-> Decodes(f, r).size]
             Told == {v \in Range(rsc) : ~Shadowed(f, v.reg)}
  <2>6. ASSUME NEW r \in Mapped(f)
        PROVE  Of(r) = [reg |-> r, space |-> bus[f].kind[r].k, base |-> Addr(f, r),
                        size |-> Size(f, r)]
    <3>1. Decodes(f, r) = [space |-> bus[f].kind[r].k, size |-> Size(f, r),
                           base |-> Addr(f, r)]
      BY <2>2, <2>4, <2>6, DecodesIs
    <3> QED
      BY <3>1
  <2>7. ASSUME NEW v \in Told PROVE v.reg \in Mapped(f) /\ Listed(v) = Of(v.reg)
    <3>1. PICK j \in DOMAIN rsc : v = rsc[j]
      BY <2>7 DEF Range
    <3>2. v.reg \in Mapped(f)
      BY <2>5, <2>7, <3>1 DEF Mapped, Wants
    <3>3. Listed(v) = [reg |-> v.reg, space |-> bus[f].kind[v.reg].k, base |-> Addr(f, v.reg),
                       size |-> Size(f, v.reg)]
      BY <2>5, <2>7, <3>1 DEF Listed
    <3> QED
      BY <2>6, <3>2, <3>3
  <2>8. ASSUME NEW r \in Mapped(f) PROVE \E v \in Told : Listed(v) = Of(r)
    <3>1. r \in Regs /\ Wants(f, r) /\ ~Shadowed(f, r)
      BY <2>8 DEF Mapped, Wants
    <3>2. PICK j \in DOMAIN rsc : rsc[j].reg = r
      BY <2>5, <3>1
    <3>3. rsc[j] \in Told
      BY <3>1, <3>2 DEF Range
    <3> QED
      BY <2>7, <3>2, <3>3
  <2>9. {Listed(v) : v \in Told} = {Of(r) : r \in Mapped(f)}
    <3> HIDE DEF Told, Of
    <3> QED
      BY <2>7, <2>8
  <2>10. \A j \in DOMAIN rsc : rsc[j].last <=> j = Len(rsc)
    BY <2>3 DEF Ends
  <2>11. bus[f].vme => rsc[3].reg = 2
    BY <2>3 DEF Tells, Rom
  <2>14. rsc = <<>> <=> Windowless(f)
    BY <2>3, EmptyIs
  <2>15. (\E j \in DOMAIN rsc : rsc[j].last) <=> rsc # <<>>
    <3>1. DOMAIN rsc = 1..Len(rsc) /\ Len(rsc) \in Nat /\ (rsc # <<>> => Len(rsc) > 0)
      OBVIOUS
    <3> QED
      BY <2>10, <3>1
  <2>16. /\ rsc = <<>> => (list.blank > 0 <=> f = vga \/ Low(f))
         /\ list.before <=> Windowless(f) /\ Low(f)
    BY <2>12, <2>13 DEF TellsAll
  <2>17. ~(\E j \in DOMAIN rsc : rsc[j].last) /\ list.blank > 0 <=>
           Windowless(f) /\ (f = vga \/ Low(f))
    BY <2>14, <2>15, <2>16
  <2> QED
    BY <2>1, <2>9, <2>10, <2>11, <2>12, <2>16, <2>17
<1> QED
  BY <1>1, Inductive, PTL
----------------------------------------------------------------------------
(* The settings                                                             *)

\* The stored bytes are guarded, and since then one of them has changed, or none, or the
\* battery has died and left all the same.
OneWrong(n, s) == \E c \in Cells, b \in Byte : n = [s EXCEPT !.at[c] = b]
AllSame(n) == \E b \in Byte : n = [fill |-> b, at |-> [c \in Cells |-> b]]
StoredOnce == nvram_ok(stored) /\ (OneWrong(nv, stored) \/ AllSame(nv))

\* Two numbers with the same remainder that are less than a divisor apart.
LEMMA SameByte ==
  ASSUME NEW k \in Nat, NEW a \in Byte, NEW b \in Byte, (k + a) % 256 = (k + b) % 256
  PROVE  a = b
<1>1. a \in 0..255 /\ b \in 0..255
  BY DEF Byte
<1>2. PICK r \in 0..255, q \in Nat : k = 256 * q + r
  <2>1. k % 256 \in 0..255 /\ k \div 256 \in Nat /\ k = 256 * (k \div 256) + (k % 256)
    OBVIOUS
  <2> QED
    BY ONLY <2>1
<1>3. \A x \in 0..255 : (k + x) % 256 = IF r + x < 256 THEN r + x ELSE r + x - 256
  BY <1>2
<1>4. (k + a) % 256 = (k + b) % 256
  OBVIOUS
<1>5. r + a = r + b
  <2>1. PICK x \in 0..255, y \in 0..255 : x = a /\ y = b
    BY ONLY <1>1
  <2>2. (IF r + x < 256 THEN r + x ELSE r + x - 256)
          = (IF r + y < 256 THEN r + y ELSE r + y - 256)
    BY ONLY <1>3, <1>4, <2>1
  <2> QED
    BY ONLY <1>2, <2>1, <2>2
<1> QED
  BY ONLY <1>1, <1>2, <1>5

LEMMA ContentIs ==
  ASSUME NEW s \in Content
  PROVE  /\ s = [fill |-> s.fill, at |-> s.at] /\ s.fill \in Byte /\ s.at \in [Cells -> Byte]
         /\ \A c \in Cells : s.at[c] \in Byte
  BY DEF Content

LEMMA CellsAre ==
  /\ {Language, LastData, NotSum, Sum8, 49, 50} = Cells
  /\ Language = 6 /\ LastData = 239 /\ NotSum = 240 /\ Sum8 = 241
  BY DEF Cells, Language, LastData, NotSum, Sum8, IntCells

\* What is believed has not changed.
LEMMA OneWrongIsSeen ==
  ASSUME NEW s \in Content, nvram_ok(s), NEW c \in Cells, NEW b \in Byte, NEW n,
         n = [s EXCEPT !.at[c] = b], nvram_ok(n)
  PROVE  n = s
<1>1. PICK f \in Byte, at \in [Cells -> Byte] : s = [fill |-> f, at |-> at]
  BY ContentIs
<1>2. PICK new : new = [at EXCEPT ![c] = b]
  OBVIOUS
<1>3. n = [fill |-> f, at |-> new]
  BY <1>1, <1>2
<1>4. new \in [Cells -> Byte] /\ \A d \in Cells : new[d] = IF d = c THEN b ELSE at[d]
  BY <1>2
<1> DEFINE Sum(v) == (236 * f + v[Language] + v[49] + v[50] + v[LastData]) % 256
<1>5. DataSum(s) = Sum(at) /\ DataSum(n) = Sum(new)
  BY <1>1, <1>3, CellsAre DEF DataSum
<1>6. /\ Sum(at) = at[Sum8] /\ Sum(at) = 255 - at[NotSum]
      /\ Sum(new) = new[Sum8] /\ Sum(new) = 255 - new[NotSum]
  <2>1. Sum8 \in Cells /\ NotSum \in Cells
    BY CellsAre
  <2>2. s.at = at /\ n.at = new
    BY <1>1, <1>3
  <2> HIDE DEF Sum
  <2> QED
    BY <1>5, <2>1, <2>2 DEF nvram_ok, nvram_read, Complement
<1>7. b = at[c]
  <2>1. \A d \in Cells : at[d] \in Byte /\ at[d] \in Nat /\ new[d] \in Nat
    BY <1>1, <1>4 DEF Byte
  <2>2. CASE c \in {Sum8, NotSum}
    <3>1. Sum(new) = Sum(at)
      BY <1>4, <2>2, CellsAre
    <3> HIDE DEF Sum
    <3>2. new[c] = at[c]
      <4>1. CASE c = Sum8
        BY <1>6, <3>1, <4>1
      <4>2. CASE c = NotSum
        <5>1. 255 - new[NotSum] = 255 - at[NotSum] /\ NotSum \in Cells
          BY <1>6, <3>1, CellsAre
        <5>2. PICK x \in Nat, y \in Nat : x = new[NotSum] /\ y = at[NotSum]
          BY <2>1, <5>1
        <5> QED
          BY <4>2, <5>1, <5>2
      <4> QED
        BY <2>2, <4>1, <4>2
    <3> QED
      BY <1>4, <3>2
  <2>3. CASE c \in {Language, 49, 50, LastData}
    <3>1. new[Sum8] = at[Sum8]
      BY <1>4, <2>3, CellsAre
    <3>2. Sum(new) = Sum(at)
      BY <1>6, <3>1
    <3>3. PICK k \in Nat : Sum(at) = (k + at[c]) % 256 /\ Sum(new) = (k + b) % 256
      <4>1. f \in Nat /\ b \in Nat
        BY DEF Byte
      <4>2. CASE c = Language
        <5>1. PICK k \in Nat : k = 236 * f + at[49] + at[50] + at[LastData]
          BY <2>1, <4>1, CellsAre
        <5>2. Sum(at) = (k + at[c]) % 256
          BY <2>1, <4>1, <4>2, <5>1, CellsAre
        <5>3. Sum(new) = (k + b) % 256
          BY <1>4, <2>1, <4>1, <4>2, <5>1, CellsAre
        <5> QED
          BY <5>2, <5>3
      <4>3. CASE c = 49
        <5>1. PICK k \in Nat : k = 236 * f + at[Language] + at[50] + at[LastData]
          BY <2>1, <4>1, CellsAre
        <5>2. Sum(at) = (k + at[c]) % 256
          BY <2>1, <4>1, <4>3, <5>1, CellsAre
        <5>3. Sum(new) = (k + b) % 256
          BY <1>4, <2>1, <4>1, <4>3, <5>1, CellsAre
        <5> QED
          BY <5>2, <5>3
      <4>4. CASE c = 50
        <5>1. PICK k \in Nat : k = 236 * f + at[Language] + at[49] + at[LastData]
          BY <2>1, <4>1, CellsAre
        <5>2. Sum(at) = (k + at[c]) % 256
          BY <2>1, <4>1, <4>4, <5>1, CellsAre
        <5>3. Sum(new) = (k + b) % 256
          BY <1>4, <2>1, <4>1, <4>4, <5>1, CellsAre
        <5> QED
          BY <5>2, <5>3
      <4>5. CASE c = LastData
        <5>1. PICK k \in Nat : k = 236 * f + at[Language] + at[49] + at[50]
          BY <2>1, <4>1, CellsAre
        <5>2. Sum(at) = (k + at[c]) % 256
          BY <2>1, <4>1, <4>5, <5>1, CellsAre
        <5>3. Sum(new) = (k + b) % 256
          BY <1>4, <2>1, <4>1, <4>5, <5>1, CellsAre
        <5> QED
          BY <5>2, <5>3
      <4> QED
        BY <2>3, <4>2, <4>3, <4>4, <4>5
    <3> HIDE DEF Sum
    <3> QED
      BY <2>1, <3>2, <3>3, SameByte
  <2> QED
    BY <2>2, <2>3, CellsAre
<1>8. new = at
  BY <1>2, <1>7, <1>1
<1> QED
  BY <1>1, <1>3, <1>8

\* A byte is not its own complement.
LEMMA AllSameIsSeen ==
  ASSUME NEW b \in Byte
  PROVE  ~nvram_ok([fill |-> b, at |-> [c \in Cells |-> b]])
<1>1. PICK n : n = [fill |-> b, at |-> [c \in Cells |-> b]]
  OBVIOUS
<1>2. n.at[Sum8] = b /\ n.at[NotSum] = b
  BY <1>1, CellsAre
<1>3. nvram_ok(n) => b = 255 - b
  BY <1>2, CellsAre DEF nvram_ok, nvram_read, Complement
<1> QED
  BY <1>1, <1>3 DEF Byte

BelievedInv == believed => nvram_ok(nv)

\* The settings that are used are those that were stored, whatever one byte has become since,
\* and those of a battery that has died are not used.
THEOREM SettingsAreStored == SetupSpec => [](StoredOnce => NvramIsSound)
<1>1. SetupInit => BelievedInv
  BY DEF SetupInit, PowerOn, BelievedInv
<1>2. BelievedInv /\ [SetupNext]_allVars => BelievedInv'
  <2> SUFFICES ASSUME BelievedInv, [SetupNext]_allVars PROVE BelievedInv'
    OBVIOUS
  <2>1. nv' = nv
    BY HardwareKept
  <2>2. believed' = believed \/ believed' = nvram_ok(nv)
    <3>1. CASE SetupStep
      BY <3>1, SetupLeaves DEF settings
    <3>2. CASE PciStep
      <4>1. Next
        BY <3>2 DEF PciStep
      <4> QED
        BY <4>1 DEF Next, Preinit, VgaDone, NvramInit, ConfigVga, Config, ConfigVme, VmeOff,
           ConfigDone, Route, Unused, Ignore64, Ignore1M, MapIo, MapMem, SkipToIds, Skip,
           Assign, EndBars,
           settings
    <3>3. CASE UNCHANGED allVars
      BY <3>3 DEF allVars, vars, settings
    <3> QED
      BY <3>1, <3>2, <3>3 DEF SetupNext
  <2>3. nvram_ok(nv)' = nvram_ok(nv)
    BY <2>1 DEF nvram_ok, DataSum, nvram_read
  <2> QED
    BY <2>2, <2>3 DEF BelievedInv
<1>3. BelievedInv /\ Inv => (StoredOnce => NvramIsSound)
  <2> SUFFICES ASSUME BelievedInv, Inv, StoredOnce, believed PROVE nv = stored
    BY DEF NvramIsSound
  <2>1. nvram_ok(nv) /\ nvram_ok(stored) /\ stored \in Content
    BY BusType DEF BelievedInv, StoredOnce, Inv, TypeInv
  <2>2. CASE OneWrong(nv, stored)
    <3>1. PICK c \in Cells, b \in Byte : nv = [stored EXCEPT !.at[c] = b]
      BY <2>2 DEF OneWrong
    <3> QED
      BY <2>1, <3>1, OneWrongIsSeen
  <2>3. CASE AllSame(nv)
    BY <2>1, <2>3, AllSameIsSeen DEF AllSame
  <2> QED
    BY <2>2, <2>3 DEF StoredOnce
<1> QED
  BY <1>1, <1>2, <1>3, Inductive, PTL DEF SetupSpec

----------------------------------------------------------------------------
(* The interrupts                                                            *)

\* Once the interrupts are routed, every device and its register have what the bridge has for
\* the line.
RouteInv ==
  pc = "done" =>
    /\ piix = Routing
    /\ \A i \in DOMAIN devices : /\ devices[i].isa_interrupt = IsaOf(devices[i].pci_interrupt)
                                 /\ line[devices[i].f] = devices[i].isa_interrupt

\* Route gives every device what IsaOf says, and IsaOf says the same afterwards.
LEMMA RouteDone ==
  ASSUME TypeInv, OrderInv, Route
  PROVE  RouteInv'
<1>1. BusInv /\ LoopType /\ RegisterType /\ TableType
  BY DEF TypeInv
<1>2. /\ pc' = "done" /\ piix' = Routing
      /\ UNCHANGED <<bus, nv, believed>>
  BY DEF Route, hardware, settings
<1>3. /\ devices \in Seq(Device) /\ devices' \in Seq(Device) /\ Len(devices') = Len(devices)
      /\ \A i \in 1..Len(devices) :
           devices'[i] = [devices[i] EXCEPT !.isa_interrupt = IsaOf(devices[i].pci_interrupt)]
  BY <1>1, RouteType DEF TableType, PciTypes
<1>4. DOMAIN devices = 1..Len(devices) /\ DOMAIN devices' = 1..Len(devices)
      /\ \A i \in 1..Len(devices) : devices[i] \in Device
  BY <1>3
<1>5. ASSUME NEW d \in Device, NEW x
      PROVE  /\ [d EXCEPT !.isa_interrupt = x].f = d.f
             /\ [d EXCEPT !.isa_interrupt = x].pci_interrupt = d.pci_interrupt
             /\ [d EXCEPT !.isa_interrupt = x].isa_interrupt = x
  BY <1>5 DEF Device
<1>6. \A i \in 1..Len(devices) :
        /\ devices'[i].f = devices[i].f
        /\ devices'[i].pci_interrupt = devices[i].pci_interrupt
        /\ devices'[i].isa_interrupt = IsaOf(devices[i].pci_interrupt)
  <2> TAKE i \in 1..Len(devices)
  <2>1. PICK x : x = IsaOf(devices[i].pci_interrupt)
    OBVIOUS
  <2>2. devices[i] \in Device /\ devices'[i] = [devices[i] EXCEPT !.isa_interrupt = x]
    BY <1>3, <1>4, <2>1
  <2> QED
    BY <1>5, <2>1, <2>2
<1>7. LinesUsed' = LinesUsed
  BY <1>4, <1>6 DEF LinesUsed
<1>8. free_isa_ints' = free_isa_ints
  BY <1>2 DEF free_isa_ints, nvram_read
<1>9. Routing' = Routing
  BY <1>7, <1>8 DEF Routing
<1>10. \A i \in 1..Len(devices) : line'[devices[i].f] = IsaOf(devices[i].pci_interrupt)
  <2> TAKE i \in 1..Len(devices)
  <2>1. devices[i].f \in Fcts
    BY <1>4 DEF Device
  <2>2. line'[devices[i].f] = IsaOf(PciLine(devices[i].f))
    BY <1>4, <2>1 DEF Route
  <2>3. \A j \in DOMAIN devices : devices[j].f = devices[i].f => j = i
    BY <1>4 DEF OrderInv
  <2>4. PciLine(devices[i].f) = devices[i].pci_interrupt
    BY <1>4, <2>3 DEF PciLine
  <2> QED
    BY <2>2, <2>4
<1>11. \A i \in 1..Len(devices) :
         /\ (devices[i].isa_interrupt = IsaOf(devices[i].pci_interrupt))'
         /\ (line[devices[i].f] = devices[i].isa_interrupt)'
  BY <1>6, <1>9, <1>10 DEF IsaOf
<1> QED
  BY <1>2, <1>4, <1>9, <1>11 DEF RouteInv

\* Nothing happens any more.
LEMMA DoneStays ==
  ASSUME TypeInv, pc = "done", [SetupNext]_allVars
  PROVE  UNCHANGED allVars
<1>1. ~SetupStep
  BY SetupLeaves
<1>2. ~Next
  BY DEF Next, Preinit, VgaDone, NvramInit, ConfigVga, Config, ConfigVme, VmeOff,
     ConfigDone, Route, Unused,
         Ignore64, Ignore1M, MapIo, MapMem, SkipToIds, InLoop
<1> QED
  BY <1>1, <1>2 DEF SetupNext, PciStep

\* Whatever pins are wired in whatever slots and whatever the user has named: a device's
\* interrupt is the one that the bridge routes its line to, and in its register; two lines
\* share one only if there are not enough, or one has been named twice.
THEOREM InterruptsStayRouted == SetupSpec => []InterruptsRouted
<1>1. SetupInit => RouteInv
  BY DEF SetupInit, PowerOn, RouteInv
<1>2. Inv /\ RouteInv /\ [SetupNext]_allVars => RouteInv'
  <2> SUFFICES ASSUME Inv, RouteInv, [SetupNext]_allVars, pc' = "done" PROVE RouteInv'
    BY DEF RouteInv
  <2>1. CASE pc = "done"
    <3>1. UNCHANGED allVars
      BY <2>1, DoneStays DEF Inv
    <3>2. UNCHANGED <<pc, bus, nv, believed, devices, line, piix>>
      BY <3>1 DEF allVars, vars, hardware, tables, settings
    <3>3. free_isa_ints' = free_isa_ints /\ LinesUsed' = LinesUsed
      BY <3>2 DEF free_isa_ints, nvram_read, LinesUsed
    <3>4. Routing' = Routing
      BY <3>3 DEF Routing
    <3>5. \A l : IsaOf(l)' = IsaOf(l)
      BY <3>4 DEF IsaOf
    <3> QED
      BY <2>1, <3>2, <3>4, <3>5 DEF RouteInv
  <2>2. CASE pc # "done"
    <3>1. Route
      <4>1. CASE SetupStep
        BY <2>2, <4>1, SetupLeaves
      <4>2. CASE Next
        BY <2>2, <4>2 DEF Next, Preinit, VgaDone, NvramInit, ConfigVga, Config, ConfigVme,
           VmeOff, ConfigDone,
           Unused, Ignore64, Ignore1M, MapIo, MapMem, SkipToIds, Skip, Assign, InLoop
      <4>3. CASE UNCHANGED allVars
        BY <2>2, <4>3 DEF allVars, vars
      <4> QED
        BY <4>1, <4>2, <4>3 DEF SetupNext, PciStep
    <3> QED
      BY <3>1, RouteDone DEF Inv
  <2> QED
    BY <2>1, <2>2
<1>3. Inv /\ RouteInv => InterruptsRouted
  <2> SUFFICES ASSUME Inv, RouteInv, pc = "done",
                      NEW i \in DOMAIN devices, NEW j \in DOMAIN devices
               PROVE  LET d == devices[i]
                          e == devices[j]
                      IN /\ line[d.f] = d.isa_interrupt
                         /\ d.pci_interrupt # 0 => d.isa_interrupt = piix[d.pci_interrupt]
                                                   /\ d.isa_interrupt \in valid_int \ {0}
                         /\ d.pci_interrupt = 0 => d.isa_interrupt = 0
                         /\ d.isa_interrupt = e.isa_interrupt
                              /\ d.pci_interrupt # e.pci_interrupt =>
                              \/ Len(free_isa_ints) < Cardinality(LinesUsed)
                              \/ ~IsInjective(free_isa_ints)
    BY DEF InterruptsRouted
  <2>1. devices \in Seq(Device) /\ nv \in Content
    BY BusType DEF Inv, TypeInv, TableType
  <2>2. PICK k \in 0..4, l \in 0..4 : /\ k = devices[i].pci_interrupt
                                     /\ l = devices[j].pci_interrupt
    BY DevicesAre DEF Inv, TypeInv
  <2>3. k # 0 => k \in LinesUsed
    BY <2>2 DEF LinesUsed
  <2>4. l # 0 => l \in LinesUsed
    BY <2>2 DEF LinesUsed
  <2>5. /\ line[devices[i].f] = devices[i].isa_interrupt /\ piix = Routing
        /\ devices[i].isa_interrupt = IF k = 0 THEN 0 ELSE Routing[k]
        /\ devices[j].isa_interrupt = IF l = 0 THEN 0 ELSE Routing[l]
    BY <2>2 DEF RouteInv, IsaOf
  <2>6. /\ \A x \in LinesUsed : Routing[x] \in valid_int \ {0}
        /\ \A x, y \in LinesUsed : x # y /\ Routing[x] = Routing[y] =>
             Len(free_isa_ints) < Cardinality(LinesUsed) \/ ~IsInjective(free_isa_ints)
    BY <2>1, RoutingIs
  <2> QED
    BY <2>2, <2>3, <2>4, <2>5, <2>6
<1> QED
  BY <1>1, <1>2, <1>3, Inductive, PTL DEF SetupSpec

----------------------------------------------------------------------------
(* The configuration space                                                   *)

\* A register is written while its function does not answer; only the VGA card's ROM is moved,
\* and the VME card leaves the addresses of its own set-up.
LEMMA AnsweringStay ==
  ASSUME Inv, [SetupNext]_allVars, NEW f \in Fcts, NEW r \in Regs, cmd[f] # {},
         reg'[f][r] # reg[f][r]
  PROVE  \/ f = vga /\ r = Rom /\ stage = "off"
         \/ SetUp(f)
<1> SUFFICES ASSUME ~SetUp(f) PROVE f = vga /\ r = Rom /\ stage = "off"
  OBVIOUS
<1>1. BusInv /\ LoopType /\ RegisterType /\ TypeInv /\ OrderInv
  BY DEF Inv, TypeInv
<1>2. f \in Settled
  BY <1>1 DEF OrderInv
<1>3. CASE SetupStep
  BY <1>1, <1>3, SetupChanges
<1>4. CASE Preinit
  <2>1. DOMAIN devices = {}
    BY <1>1, <1>4 DEF Preinit, OrderInv
  <2> QED
    BY <1>2, <1>4, <2>1 DEF Preinit, Settled
<1>5. CASE Config \/ VmeOff
  <2>1. todo # <<>> /\ Head(todo) # vga /\ StartBars(Head(todo))
    BY <1>1, <1>5, BeginsIs
  <2>2. Head(todo) \in Fcts
    BY <1>1, <1>5, ConfigType, BusType
  <2>3. Head(todo) \notin Settled
    BY <1>1, <2>1, NextIsNew
  <2>4. reg'[f] = reg[f]
    BY <1>1, <1>2, <2>1, <2>2, <2>3, StartBarsType DEF RegisterType
  <2> QED
    BY <2>4
<1>9. CASE ConfigVme
  <2>1. todo # <<>> /\ Head(todo) # vga /\ \A g \in Fcts \ {Head(todo)} : reg'[g] = reg[g]
    BY <1>1, <1>9, ConfigVmeIs
  <2>2. Head(todo) \notin Settled
    BY <1>1, <2>1, NextIsNew
  <2> QED
    BY <1>2, <2>1, <2>2
<1>6. CASE MapIo \/ MapMem
  <2>1. PICK val : reg' = [reg EXCEPT ![cur.f][cur.r] = val]
    BY <1>6 DEF MapIo, MapMem, Assign
  <2>2. cur.f # f
    BY <1>1, <1>2, <1>6, CurIsNew DEF MapIo, MapMem, InLoop, InBars
  <2>3. reg'[f] = reg[f]
    BY <1>1, <2>1, <2>2 DEF RegisterType
  <2> QED
    BY <2>3
<1>7. CASE \/ VgaDone \/ NvramInit \/ ConfigVga \/ ConfigDone \/ Route
           \/ Unused \/ Ignore64 \/ Ignore1M \/ SkipToIds
  BY <1>7 DEF VgaDone, NvramInit, ConfigVga, ConfigDone, Route, Unused, Ignore64, Ignore1M,
              SkipToIds, Skip, EndBars, windows
<1>8. CASE UNCHANGED allVars
  BY <1>8 DEF allVars, vars, windows
<1> QED
  BY <1>3, <1>4, <1>5, <1>6, <1>7, <1>8, <1>9 DEF SetupNext, PciStep, Next

\* Where the bytes that can be written are.
LEMMA WritableAre ==
  ASSUME NEW a \in Writable
  PROVE  \E e \in Known, j \in 1..4 : /\ a = e + j - 1 /\ (e # Own => j = 1)
                                      /\ ByteAt(a) = Dword(e)[j]
                                      /\ ByteAt(a)' = Dword(e)'[j]
<1>1. Writable = {4, 60, 64, 65, 66, 67} /\ Known = {4, 60, 64} /\ Own = 64
  BY DEF Writable, Known, Command, InterruptLine, Own
<1>2. \A b \in {4, 60, 64, 65, 66, 67} :
        /\ b % 4 \in 0..3
        /\ b % 4 = (CASE b = 65 -> 1 [] b = 66 -> 2 [] b = 67 -> 3 [] OTHER -> 0)
  OBVIOUS
<1>3. a - (a % 4) \in Known /\ (a % 4) + 1 \in 1..4 /\ a = (a - (a % 4)) + ((a % 4) + 1) - 1
      /\ (a - (a % 4) # Own => (a % 4) + 1 = 1)
  BY <1>1, <1>2
<1>4. ByteAt(a) = Dword(a - (a % 4))[(a % 4) + 1]
      /\ ByteAt(a)' = Dword(a - (a % 4))'[(a % 4) + 1]
  BY DEF ByteAt
<1> QED
  BY <1>3, <1>4

\* What a read returns after a write of four bytes.
LEMMA DwordPut ==
  ASSUME BusInv, RegisterType, own \in [1..4 -> Byte], status \in SUBSET Errors,
         vga \in DOMAIN bus,
         bus' = bus, vga' = vga,
         NEW d \in Known, NEW bytes \in [1..4 -> Byte], PutDword(d, bytes)
  PROVE  /\ \A e \in Known \ {d} : Dword(e)' = Dword(e)
         /\ d = Command => Dword(d)'[1] = bytes[1] % 8
         /\ d = InterruptLine => Dword(d)'[1] = bytes[1]
         /\ d = Own => Dword(d)' = bytes
<1>1. /\ IF d = Command THEN Code(cmd'[vga]) = bytes[1] % 8 ELSE cmd' = cmd
      /\ IF d = InterruptLine THEN line'[vga] = bytes[1] ELSE line' = line
      /\ own' = IF d = Own THEN bytes ELSE own
      /\ d # Command => status' = status
  BY PutDwordIs
<1>2. Command # InterruptLine /\ Command # Own /\ InterruptLine # Own
  BY DEF Command, InterruptLine, Own
<1>3. /\ Dword(Command) = <<Code(cmd[vga]), 0, 0, ErrorCode(status)>>
      /\ Dword(InterruptLine) = <<line[vga], bus[vga].pin, 0, 0>>
      /\ Dword(Own) = own
      /\ Dword(Command)' = <<Code(cmd'[vga]), 0, 0, ErrorCode(status')>>
      /\ Dword(InterruptLine)' = <<line'[vga], bus[vga].pin, 0, 0>>
      /\ Dword(Own)' = own'
  BY <1>2 DEF Dword, Code, ErrorCode
<1>4. CASE d = Command
  BY <1>1, <1>2, <1>3, <1>4 DEF Known, Code
<1>5. CASE d = InterruptLine
  BY <1>1, <1>2, <1>3, <1>5 DEF Known, Code
<1>6. CASE d = Own
  BY <1>1, <1>2, <1>3, <1>6 DEF Known, Code
<1> QED
  BY <1>4, <1>5, <1>6 DEF Known

\* A service of the BIOS changes the bytes that it is about, and of the others only the errors.
LEMMA ServiceKeeps ==
  ASSUME Inv, Service, card.bios # <<>>, NEW call, call = Head(card.bios), NEW a \in Writable
  PROVE  /\ ByteAt(a)' = IF a - call.where + 1 \in DOMAIN call.bytes
                         THEN call.bytes[a - call.where + 1] ELSE ByteAt(a)
         /\ status' = IF Status - call.where + 1 \in DOMAIN call.bytes
                      THEN status \ ErrorsIn(call.bytes[Status - call.where + 1])
                      ELSE IF Command \in call.where - 3..call.where THEN {} ELSE status
<1>1. /\ BusInv /\ RegisterType /\ TableType /\ own \in [1..4 -> Byte]
      /\ status \in SUBSET Errors
      /\ bus' = bus /\ vga' = vga /\ stage = "bios"
  BY DEF Inv, TypeInv, StageInv, Service, At, hardware, tables
<1>2. vga \in DOMAIN bus
  BY <1>1 DEF Inv, TypeInv, StageInv, HasVga, TableType
<1>3. IsCall(call)
  <2>1. PICK calls : calls = Range(card.bios)
    OBVIOUS
  <2>2. card.bios \in Seq(calls) /\ \A c \in calls : IsCall(c)
    BY <1>1, <2>1 DEF Inv, TypeInv, StageInv
  <2>3. Head(card.bios) \in calls
    BY <2>2
  <2> QED
    BY <2>2, <2>3
<1>4. /\ DwordOf(call.where) \in Known /\ call.where % 4 \in 0..3
      /\ call.where = DwordOf(call.where) + (call.where % 4)
      /\ \E n \in {1, 2, 4} : DOMAIN call.bytes = 1..n /\ (call.where % 4) + n <= 4
      /\ \E bytes \in [1..4 -> Byte] :
           /\ PutDword(DwordOf(call.where), bytes)
           /\ \A j \in 1..4 : bytes[j] = IF j - (call.where % 4) \in DOMAIN call.bytes
                                         THEN call.bytes[j - (call.where % 4)]
                                         ELSE Dword(DwordOf(call.where))[j]
  BY <1>1, <1>2, <1>3, ServiceIs
<1>5. PICK d, o : d = DwordOf(call.where) /\ o = call.where % 4
  OBVIOUS
<1>6. PICK n \in {1, 2, 4} : DOMAIN call.bytes = 1..n /\ o + n <= 4
  BY ONLY <1>4, <1>5
<1>7. PICK bytes \in [1..4 -> Byte] :
        /\ PutDword(d, bytes)
        /\ \A j \in 1..4 : bytes[j] = IF j - o \in DOMAIN call.bytes
                                      THEN call.bytes[j - o] ELSE Dword(d)[j]
  BY ONLY <1>4, <1>5
<1>8. /\ d \in Known /\ o \in 0..3 /\ call.where = d + o /\ n \in {1, 2, 4}
      /\ DOMAIN call.bytes = 1..n /\ o + n <= 4
      /\ \A j \in 1..4 : bytes[j] = IF j - o \in 1..n THEN call.bytes[j - o] ELSE Dword(d)[j]
  BY ONLY <1>4, <1>5, <1>6, <1>7
<1>9. PICK e \in Known, j \in 1..4 : /\ a = e + j - 1 /\ (e # Own => j = 1)
                                     /\ ByteAt(a) = Dword(e)[j] /\ ByteAt(a)' = Dword(e)'[j]
  BY WritableAre
<1>10. /\ \A x \in Known \ {d} : Dword(x)' = Dword(x)
       /\ d = Command => Dword(d)'[1] = bytes[1] % 8
       /\ d = InterruptLine => Dword(d)'[1] = bytes[1]
       /\ d = Own => Dword(d)' = bytes
  BY <1>1, <1>2, <1>7, <1>8, DwordPut
<1>11. d \in {4, 60, 64} /\ e \in {4, 60, 64} /\ Own = 64 /\ Command = 4 /\ InterruptLine = 60
  BY <1>8, <1>9 DEF Known, Command, InterruptLine, Own
<1>12. a = e + j - 1 /\ call.where = d + o /\ o \in 0..3 /\ j \in 1..4 /\ n \in {1, 2, 4}
       /\ o + n <= 4
  BY <1>8, <1>9
<1>13. a - call.where + 1 = e + j - d - o
  BY ONLY <1>11, <1>12
<1>14. ASSUME e = d
      PROVE  ByteAt(a)' = IF a - call.where + 1 \in DOMAIN call.bytes
                          THEN call.bytes[a - call.where + 1] ELSE ByteAt(a)
  <2>1. a - call.where + 1 = j - o
    BY ONLY <1>11, <1>14, <1>12, <1>13
  <2>2. Dword(e)'[j] = bytes[j]
    <3>1. CASE d = Own
      BY <1>10, <1>14, <3>1
    <3>2. CASE d = InterruptLine
      BY <1>9, <1>10, <1>11, <1>14, <3>2
    <3>3. CASE d = Command
      <4>1. j = 1 /\ Dword(e)'[j] = bytes[1] % 8
        BY <1>9, <1>10, <1>11, <1>14, <3>3
      <4>2. bytes[1] \in 0..7
        <5>1. CASE 1 - o \in 1..n
          <6>1. o = 0
            BY ONLY <1>12, <5>1
          <6>2. call.where = Command
            BY ONLY <1>11, <1>12, <3>3, <6>1
          <6>3. call.bytes[1] \in 0..7 /\ bytes[1] = call.bytes[1]
            <7>1. 1 - o = 1 /\ 1 \in 1..4
              BY ONLY <6>1
            <7>2. bytes[1] = call.bytes[1]
              BY ONLY <1>8, <5>1, <7>1
            <7>3. call.bytes[1] \in 0..7
              BY ONLY <1>3, <6>2 DEF IsCall
            <7> QED
              BY <7>2, <7>3
          <6> QED
            BY <6>3
        <5>2. CASE 1 - o \notin 1..n
          <6>1. bytes[1] = Dword(Command)[1]
            BY <1>8, <3>3, <5>2
          <6>2. Dword(Command) = <<Code(cmd[vga]), 0, 0, ErrorCode(status)>>
            BY <1>11 DEF Dword
          <6>3. cmd[vga] \in SUBSET Bits
            BY <1>1, <1>2, BusType DEF RegisterType
          <6> QED
            BY <6>1, <6>2, <6>3, CodeIs
        <5> QED
          BY <5>1, <5>2
      <4> QED
        BY <4>1, <4>2
    <3> QED
      BY <1>11, <3>1, <3>2, <3>3
  <2> QED
    BY <1>8, <1>9, <1>14, <2>1, <2>2
<1>15. ASSUME e # d
      PROVE  ByteAt(a)' = IF a - call.where + 1 \in DOMAIN call.bytes
                          THEN call.bytes[a - call.where + 1] ELSE ByteAt(a)
  <2>1. a - call.where + 1 \notin 1..n
    <3>1. e >= d + 4 \/ e <= d - 4
      BY ONLY <1>11, <1>15
    <3> QED
      BY ONLY <1>11, <1>12, <1>13, <3>1
  <2>2. Dword(e)' = Dword(e)
    BY <1>10, <1>15
  <2> QED
    BY <1>8, <1>9, <2>1, <2>2
<1>16. status' = IF d = Command THEN status \ ErrorsIn(bytes[4]) ELSE status
  BY <1>1, <1>2, <1>7, <1>8, PutDwordIs
<1>17. ASSUME d = Command
      PROVE  status' = IF Status - call.where + 1 \in DOMAIN call.bytes
                       THEN status \ ErrorsIn(call.bytes[Status - call.where + 1])
                       ELSE IF Command \in call.where - 3..call.where THEN {} ELSE status
  <2>1. call.where = 4 + o /\ Status = 7 /\ Command \in call.where - 3..call.where
    BY <1>11, <1>12, <1>17 DEF Status
  <2>2. Status - call.where + 1 = 4 - o
    BY ONLY <1>12, <2>1
  <2>3. CASE 4 - o \in 1..n
    <3>1. bytes[4] = call.bytes[4 - o]
      BY <1>8, <2>3
    <3> QED
      BY <1>8, <1>16, <1>17, <2>2, <2>3, <3>1
  <2>4. CASE 4 - o \notin 1..n
    <3>1. bytes[4] = Dword(Command)[4]
      BY <1>8, <1>17, <2>4
    <3>2. Dword(Command)[4] = ErrorCode(status)
      BY <1>11 DEF Dword
    <3>3. status \ ErrorsIn(bytes[4]) = {}
      BY <1>1, <3>1, <3>2, ErrorCodeIs
    <3> QED
      BY <1>8, <1>16, <1>17, <2>1, <2>2, <2>4, <3>3
  <2> QED
    BY <2>3, <2>4
<1>18. ASSUME d # Command
      PROVE  status' = IF Status - call.where + 1 \in DOMAIN call.bytes
                       THEN status \ ErrorsIn(call.bytes[Status - call.where + 1])
                       ELSE IF Command \in call.where - 3..call.where THEN {} ELSE status
  <2>1. Command \notin call.where - 3..call.where /\ Status - call.where + 1 \notin 1..n
    BY ONLY <1>11, <1>12, <1>18 DEF Status
  <2> QED
    BY <1>8, <1>16, <1>18, <2>1
<1> QED
  BY <1>14, <1>15, <1>17, <1>18

\* Whatever the BIOS does: the windows of a function stay where they are from when it answers,
\* but for the VGA card's ROM and the addresses of the VME card's own set-up; and a service
\* changes no byte that it is not about but the errors in STATUS: a write to another of the
\* four bytes that they are read with clears them.
THEOREM ConfigStaysKept == SetupSpec => ConfigKept
<1>1. Inv /\ [SetupNext]_allVars =>
        [/\ \A f \in Fcts, r \in Regs :
              cmd[f] # {} /\ reg'[f][r] # reg[f][r] =>
                \/ f = vga /\ r = Rom /\ stage = "off"
                \/ SetUp(f)
         /\ stage = "bios" /\ card.bios # <<>> =>
              LET call == Head(card.bios)
                  Nth(a) == a - call.where + 1
              IN /\ \A a \in Writable :
                      ByteAt(a)' = IF Nth(a) \in DOMAIN call.bytes THEN call.bytes[Nth(a)]
                                                                  ELSE ByteAt(a)
                 /\ status' = IF Nth(Status) \in DOMAIN call.bytes
                              THEN status \ ErrorsIn(call.bytes[Nth(Status)])
                              ELSE IF Command \in call.where - 3..call.where
                                   THEN {} ELSE status]_allVars
  <2> SUFFICES ASSUME Inv, [SetupNext]_allVars, ~UNCHANGED allVars
               PROVE  /\ \A f \in Fcts, r \in Regs :
                           cmd[f] # {} /\ reg'[f][r] # reg[f][r] =>
                             \/ f = vga /\ r = Rom /\ stage = "off"
                             \/ SetUp(f)
                      /\ stage = "bios" /\ card.bios # <<>> =>
                           LET call == Head(card.bios)
                               Nth(a) == a - call.where + 1
                           IN /\ \A a \in Writable :
                                   ByteAt(a)' = IF Nth(a) \in DOMAIN call.bytes
                                                THEN call.bytes[Nth(a)] ELSE ByteAt(a)
                              /\ status' = IF Nth(Status) \in DOMAIN call.bytes
                                           THEN status \ ErrorsIn(call.bytes[Nth(Status)])
                                           ELSE IF Command \in call.where - 3..call.where
                                                THEN {} ELSE status
    OBVIOUS
  <2>1. \A f \in Fcts, r \in Regs :
          cmd[f] # {} /\ reg'[f][r] # reg[f][r] =>
            \/ f = vga /\ r = Rom /\ stage = "off"
            \/ SetUp(f)
    BY AnsweringStay
  <2>2. ASSUME stage = "bios", card.bios # <<>>, NEW call, call = Head(card.bios)
        PROVE  /\ \A a \in Writable :
                    ByteAt(a)' = IF a - call.where + 1 \in DOMAIN call.bytes
                                 THEN call.bytes[a - call.where + 1] ELSE ByteAt(a)
               /\ status' = IF Status - call.where + 1 \in DOMAIN call.bytes
                            THEN status \ ErrorsIn(call.bytes[Status - call.where + 1])
                            ELSE IF Command \in call.where - 3..call.where THEN {} ELSE status
    <3>1. pc = "nvram"
      BY <2>2 DEF Inv, TypeInv, StageInv, LoopType
    <3>2. SetupStep
      BY <2>2, <3>1 DEF SetupNext, PciStep
    <3>3. Service
      BY <2>2, <3>2 DEF SetupStep, WakeUp, PowerClocks, TestClocks, WriteTables, NoCard,
         EnableVgaRom, DisableVgaRom, BiosEnds, TextMode, At
    <3>4. Command \in Writable
      BY DEF Writable
    <3> QED
      BY <2>2, <3>3, <3>4, ServiceKeeps
  <2> QED
    BY <2>1, <2>2
<1> QED
  BY <1>1, Inductive, PTL DEF SetupSpec, ConfigKept

----------------------------------------------------------------------------
(* Tables of register values                                                *)

\* A set of numbers that is not empty has a least one.
LEMMA LeastNat ==
  ASSUME NEW T, T \subseteq Nat, T # {}
  PROVE  \E x \in T : \A y \in T : x <= y
<1> DEFINE R == {ss \in Nat \X Nat : ss[1] < ss[2]}
<1>1. IsWellFoundedOn(R, Nat)
  BY NatLessThanWellFounded DEF OpToRel
<1>2. \E x \in T : \A y \in T : <<y, x>> \notin R
  <2> HIDE DEF R
  <2> QED
    BY <1>1, WFMin
<1>3. PICK x \in T : \A y \in T : <<y, x>> \notin R
  BY <1>2
<1>4. \A y \in T : ~(y < x)
  BY <1>3
<1> QED
  BY <1>4

\* What an entry of each table does; that a card which is asleep takes none is no exception.
LEMMA SeqIs ==
  ASSUME NEW c, NEW w
  PROVE  Write(\h3C4, c, w) = SeqWrite(c, w)
<1>1. CASE c.awake
  BY <1>1 DEF Write, AtPort
<1>2. CASE ~c.awake
  BY <1>2 DEF Write, SeqWrite, SeqTakes
<1> QED
  BY <1>1, <1>2

LEMMA GcIs ==
  ASSUME NEW c, NEW w
  PROVE  Write(\h3CE, c, w) = GcWrite(c, w)
<1>1. CASE c.awake
  BY <1>1 DEF Write, AtPort
<1>2. CASE ~c.awake
  BY <1>2 DEF Write, GcWrite, Awake
<1> QED
  BY <1>1, <1>2

LEMMA AttrIs ==
  ASSUME NEW c, NEW w
  PROVE  Write(\h3C0, c, w) = AttrWrite(AttrWrite(c, Index(w)), Value(w))
<1>1. CASE c.awake
  BY <1>1 DEF Write, AtPort
<1>2. CASE ~c.awake
  BY <1>2 DEF Write, AttrWrite, Awake
<1> QED
  BY <1>1, <1>2

IsAfter(g, ioaddr, c, table, m) ==
  g = [n \in 0..m |-> IF n = 0 THEN c ELSE Write(ioaddr, g[n - 1], table[n])]

\* The function that After is chosen to be exists.
LEMMA AfterExists ==
  ASSUME NEW ioaddr, NEW c, NEW table, NEW m \in Nat
  PROVE  \E g : IsAfter(g, ioaddr, c, table, m)
<1> DEFINE T == {n \in Nat : ~\E g : IsAfter(g, ioaddr, c, table, n)}
<1>1. SUFFICES ASSUME T # {} PROVE FALSE
  OBVIOUS
<1>2. PICK n \in T : \A k \in T : n <= k
  <2>1. T \subseteq Nat
    OBVIOUS
  <2> HIDE DEF T
  <2> QED
    BY <1>1, <2>1, LeastNat
<1>3. n \in Nat /\ ~\E g : IsAfter(g, ioaddr, c, table, n)
  OBVIOUS
<1>4. CASE n = 0
  <2> DEFINE h == [k \in 0..0 |-> c]
  <2>1. h = [k \in 0..0 |-> IF k = 0 THEN c ELSE Write(ioaddr, h[k - 1], table[k])]
    OBVIOUS
  <2> QED
    BY <1>3, <1>4, <2>1 DEF IsAfter
<1>5. CASE n # 0
  <2>1. n - 1 \in Nat /\ n - 1 < n
    BY <1>3, <1>5
  <2>2. PICK g : IsAfter(g, ioaddr, c, table, n - 1)
    BY <1>2, <2>1
  <2> DEFINE h == [k \in 0..n |-> IF k = n THEN Write(ioaddr, g[n - 1], table[n]) ELSE g[k]]
  <2>3. \A k \in 0..n - 1 :
          g[k] = IF k = 0 THEN c ELSE Write(ioaddr, g[k - 1], table[k])
    BY <2>2 DEF IsAfter
  <2>4. \A k \in 0..n : h[k] = IF k = 0 THEN c ELSE Write(ioaddr, h[k - 1], table[k])
    <3> SUFFICES ASSUME NEW k \in 0..n
                 PROVE  h[k] = IF k = 0 THEN c ELSE Write(ioaddr, h[k - 1], table[k])
      OBVIOUS
    <3>1. CASE k = 0
      BY <1>3, <1>5, <2>3, <3>1
    <3>2. CASE k # 0
      <4>1. k - 1 \in 0..n /\ k - 1 # n /\ k - 1 \in 0..n - 1
        BY <1>3, <3>2
      <4>2. h[k - 1] = g[k - 1]
        BY <4>1
      <4>3. h[k] = Write(ioaddr, g[k - 1], table[k])
        <5>1. CASE k = n
          BY <5>1
        <5>2. CASE k # n
          <6>1. k \in 0..n - 1
            BY <1>3, <5>2
          <6> QED
            BY <2>3, <3>2, <5>2, <6>1
        <5> QED
          BY <5>1, <5>2
      <4> QED
        BY <3>2, <4>2, <4>3
    <3> QED
      BY <3>1, <3>2
  <2>5. h = [k \in 0..n |-> h[k]]
    OBVIOUS
  <2>6. IsAfter(h, ioaddr, c, table, n)
    <3> HIDE DEF h
    <3> QED
      BY <2>4, <2>5 DEF IsAfter
  <2> QED
    BY <1>3, <2>6
<1> QED
  BY <1>4, <1>5

LEMMA AfterIs ==
  ASSUME NEW ioaddr, NEW c, NEW table, Len(table) \in Nat
  PROVE  /\ After(ioaddr, c, table)[0] = c
         /\ \A n \in 1..Len(table) :
              After(ioaddr, c, table)[n]
                = Write(ioaddr, After(ioaddr, c, table)[n - 1], table[n])
<1>1. \E g : g = [n \in 0..Len(table) |->
                    IF n = 0 THEN c ELSE Write(ioaddr, g[n - 1], table[n])]
  <2>1. PICK g : IsAfter(g, ioaddr, c, table, Len(table))
    BY AfterExists
  <2> QED
    BY <2>1 DEF IsAfter
<1>2. After(ioaddr, c, table) =
        [n \in 0..Len(table) |->
           IF n = 0 THEN c ELSE Write(ioaddr, After(ioaddr, c, table)[n - 1], table[n])]
  BY <1>1 DEF After
<1>3. PICK after : after = After(ioaddr, c, table)
  OBVIOUS
<1>4. \A n \in 0..Len(table) :
        after[n] = IF n = 0 THEN c ELSE Write(ioaddr, after[n - 1], table[n])
  BY <1>2, <1>3
<1> QED
  BY <1>3, <1>4

\* What the first entries make of the card, every entry keeps.
LEMMA TableInduction ==
  ASSUME NEW ioaddr, NEW c, NEW table, Len(table) \in Nat, NEW G, c \in G[0],
         \A n \in 1..Len(table) : \A x \in G[n - 1] : Write(ioaddr, x, table[n]) \in G[n]
  PROVE  write_vga_table(ioaddr, c, table) \in G[Len(table)]
<1>1. PICK after : after = After(ioaddr, c, table)
  OBVIOUS
<1>2. /\ after[0] = c
      /\ \A n \in 1..Len(table) : after[n] = Write(ioaddr, after[n - 1], table[n])
  BY <1>1, AfterIs
<1> DEFINE T == {n \in 0..Len(table) : after[n] \notin G[n]}
<1>3. T = {}
  <2>1. SUFFICES ASSUME T # {} PROVE FALSE
    OBVIOUS
  <2>2. PICK n \in T : \A k \in T : n <= k
    <3>1. T \subseteq Nat
      OBVIOUS
    <3> HIDE DEF T
    <3> QED
      BY <2>1, <3>1, LeastNat
  <2>3. n \in 0..Len(table) /\ after[n] \notin G[n] /\ n # 0
    BY <1>2
  <2>4. n \in 1..Len(table) /\ n - 1 \in 0..Len(table) /\ ~(n <= n - 1)
    BY <2>3
  <2>5. after[n - 1] \in G[n - 1]
    BY <2>2, <2>4
  <2> QED
    BY <1>2, <2>3, <2>4, <2>5
<1>4. Len(table) \in 0..Len(table)
  OBVIOUS
<1> QED
  BY <1>1, <1>3, <1>4 DEF write_vga_table

LEMMA OneEntry ==
  ASSUME NEW ioaddr, NEW c, NEW v
  PROVE  write_vga_table(ioaddr, c, <<v>>) = Write(ioaddr, c, v)
<1>1. PICK t : t = <<v>>
  OBVIOUS
<1>2. Len(t) = 1 /\ t[1] = v /\ 1 \in 1..Len(t) /\ 1 - 1 = 0
  BY <1>1
<1> QED
  BY <1>1, <1>2, AfterIs DEF write_vga_table

LEMMA TwoEntries ==
  ASSUME NEW ioaddr, NEW c, NEW v, NEW w
  PROVE  write_vga_table(ioaddr, c, <<v, w>>) = Write(ioaddr, Write(ioaddr, c, v), w)
<1>1. PICK t : t = <<v, w>>
  OBVIOUS
<1>2. /\ Len(t) = 2 /\ t[1] = v /\ t[2] = w
      /\ {1, 2} \subseteq 1..Len(t) /\ 1 - 1 = 0 /\ 2 - 1 = 1
  BY <1>1
<1> QED
  BY <1>1, <1>2, AfterIs DEF write_vga_table

LEMMA ThreeEntries ==
  ASSUME NEW ioaddr, NEW c, NEW u, NEW v, NEW w
  PROVE  write_vga_table(ioaddr, c, <<u, v, w>>) =
           Write(ioaddr, Write(ioaddr, Write(ioaddr, c, u), v), w)
<1>1. PICK t : t = <<u, v, w>>
  OBVIOUS
<1>2. Len(t) = 3 /\ t[1] = u /\ t[2] = v /\ t[3] = w /\ {1, 2, 3} \subseteq 1..Len(t)
      /\ 1 - 1 = 0 /\ 2 - 1 = 1 /\ 3 - 1 = 2
  BY <1>1
<1> QED
  BY <1>1, <1>2, AfterIs DEF write_vga_table

----------------------------------------------------------------------------
(* The card's registers                                                      *)

Files == UNION {[D -> Byte] : D \in SUBSET Byte}
Words == {w \in Nat : w <= 65535}
Card(b) == [s3 : BOOLEAN, awake : BOOLEAN, mmio : BOOLEAN, color : BOOLEAN, data : BOOLEAN,
            on : BOOLEAN, at : 0..31, seq : Files, crtc : Files, gc : Files, attr : Files,
            bios : {b}]

LEMMA WordIs ==
  ASSUME NEW w \in Words
  PROVE  Index(w) \in Byte /\ Value(w) \in Byte
<1>1. w \in Nat /\ w <= 65535
  BY DEF Words
<1>2. w % 256 \in 0..255
  BY ONLY <1>1
<1>3. w \div 256 \in 0..255
  BY ONLY <1>1
<1> QED
  BY <1>2, <1>3 DEF Index, Value, Byte

LEMMA PutIs ==
  ASSUME NEW r \in Files, NEW i \in Byte, NEW v \in Byte
  PROVE  /\ Store(r, i, v) \in Files
         /\ i \in DOMAIN Store(r, i, v) /\ Store(r, i, v)[i] = v
         /\ \A j \in DOMAIN r :
              j # i => j \in DOMAIN Store(r, i, v) /\ Store(r, i, v)[j] = r[j]
<1>1. PICK D \in SUBSET Byte : r \in [D -> Byte]
  BY DEF Files
<1>2. Store(r, i, v) \in [D \cup {i} -> Byte]
  BY <1>1 DEF Store
<1>3. D \cup {i} \in SUBSET Byte
  OBVIOUS
<1>4. Store(r, i, v) \in Files
  BY <1>2, <1>3 DEF Files
<1> QED
  BY <1>1, <1>4 DEF Store

\* What the setup of a card does not change.
Alike(x, y) == x.s3 = y.s3 /\ x.bios = y.bios

LEMMA SeqWriteIs ==
  ASSUME NEW b, NEW c \in Card(b), NEW w \in Words
  PROVE  LET x == SeqWrite(c, w)
             i == Index(w)
         IN /\ x \in Card(b) /\ Alike(x, c) /\ x.awake = c.awake /\ x.color = c.color
            /\ x.data = c.data /\ x.on = c.on
            /\ x.crtc = c.crtc /\ x.gc = c.gc /\ x.attr = c.attr
            /\ x.seq = IF SeqTakes(c, i) THEN Store(c.seq, i, Value(w)) ELSE c.seq
            /\ SeqTakes(c, i) /\ i = 9 /\ Value(w) < 128 => ~x.mmio
            /\ ~(SeqTakes(c, i) /\ i = 9) => x.mmio = c.mmio
<1>1. PICK i, v : i = Index(w) /\ v = Value(w)
  OBVIOUS
<1>2. i \in Byte /\ v \in Byte
  BY <1>1, WordIs
<1>3. PICK r : r = Store(c.seq, i, v)
  OBVIOUS
<1>4. r \in Files
  BY <1>2, <1>3, PutIs DEF Card
<1>5. PICK new : new = [c EXCEPT !.seq = r]
  OBVIOUS
<1>6. new \in Card(b) /\ Alike(new, c) /\ new.seq = r /\ new.mmio = c.mmio
      /\ new.awake = c.awake /\ new.color = c.color /\ new.data = c.data /\ new.on = c.on
      /\ new.crtc = c.crtc /\ new.gc = c.gc /\ new.attr = c.attr
  BY <1>4, <1>5 DEF Card, Alike
<1>7. PICK m : m = (v >= 128)
  OBVIOUS
<1>8. m \in BOOLEAN
  BY <1>2, <1>7
<1>9. PICK last : last = [new EXCEPT !.mmio = m]
  OBVIOUS
<1>10. last \in Card(b) /\ Alike(last, c) /\ last.seq = r /\ last.mmio = m
      /\ last.awake = c.awake /\ last.color = c.color /\ last.data = c.data /\ last.on = c.on
      /\ last.crtc = c.crtc /\ last.gc = c.gc /\ last.attr = c.attr
  BY <1>6, <1>8, <1>9 DEF Card, Alike
<1>11. SeqWrite(c, w) = IF ~SeqTakes(c, i) THEN c ELSE IF i = 9 THEN last ELSE new
  BY <1>1, <1>3, <1>5, <1>7, <1>9 DEF SeqWrite
<1>12. Alike(c, c)
  BY DEF Alike
<1>13. CASE ~SeqTakes(c, i)
  BY <1>1, <1>11, <1>12, <1>13
<1>14. CASE SeqTakes(c, i) /\ i = 9
  <2>1. v < 128 => ~m
    <3>1. v < 128 => (v >= 128) = FALSE
      BY <1>2 DEF Byte
    <3> QED
      BY <1>7, <3>1
  <2> QED
    BY <1>1, <1>3, <1>10, <1>11, <1>14, <2>1
<1>15. CASE SeqTakes(c, i) /\ i # 9
  BY <1>1, <1>3, <1>6, <1>11, <1>15
<1> QED
  BY <1>13, <1>14, <1>15

LEMMA CrtcWriteIs ==
  ASSUME NEW b, NEW c \in Card(b), NEW w \in Words, NEW color \in BOOLEAN
  PROVE  LET x == CrtcWrite(c, color, w)
             i == Index(w)
         IN /\ x \in Card(b) /\ Alike(x, c) /\ x.awake = c.awake /\ x.color = c.color
            /\ x.data = c.data /\ x.on = c.on /\ x.mmio = c.mmio
            /\ x.seq = c.seq /\ x.gc = c.gc /\ x.attr = c.attr
            /\ x.crtc = IF Awake(c) /\ c.color = color /\ CrtcTakes(c, i)
                        THEN Store(c.crtc, i, Value(w)) ELSE c.crtc
<1>1. PICK i, v : i = Index(w) /\ v = Value(w)
  OBVIOUS
<1>2. i \in Byte /\ v \in Byte
  BY <1>1, WordIs
<1>3. PICK r : r = Store(c.crtc, i, v)
  OBVIOUS
<1>4. r \in Files
  BY <1>2, <1>3, PutIs DEF Card
<1>5. PICK new : new = [c EXCEPT !.crtc = r]
  OBVIOUS
<1>6. new \in Card(b) /\ Alike(new, c) /\ new.crtc = r /\ new.mmio = c.mmio
      /\ new.awake = c.awake /\ new.color = c.color /\ new.data = c.data /\ new.on = c.on
      /\ new.seq = c.seq /\ new.gc = c.gc /\ new.attr = c.attr
  BY <1>4, <1>5 DEF Card, Alike
<1>7. CrtcWrite(c, color, w) =
        IF Awake(c) /\ c.color = color /\ CrtcTakes(c, i) THEN new ELSE c
  BY <1>1, <1>3, <1>5 DEF CrtcWrite
<1>8. Alike(c, c)
  BY DEF Alike
<1>9. CASE Awake(c) /\ c.color = color /\ CrtcTakes(c, i)
  BY <1>1, <1>3, <1>6, <1>7, <1>9
<1>10. CASE ~(Awake(c) /\ c.color = color /\ CrtcTakes(c, i))
  BY <1>1, <1>7, <1>8, <1>10
<1> QED
  BY <1>9, <1>10

LEMMA GcWriteIs ==
  ASSUME NEW b, NEW c \in Card(b), NEW w \in Words
  PROVE  LET x == GcWrite(c, w)
             i == Index(w)
         IN /\ x \in Card(b) /\ Alike(x, c) /\ x.awake = c.awake /\ x.color = c.color
            /\ x.data = c.data /\ x.on = c.on /\ x.mmio = c.mmio
            /\ x.seq = c.seq /\ x.crtc = c.crtc /\ x.attr = c.attr
            /\ x.gc = IF Awake(c) THEN Store(c.gc, i, Value(w)) ELSE c.gc
<1>1. PICK i, v : i = Index(w) /\ v = Value(w)
  OBVIOUS
<1>2. i \in Byte /\ v \in Byte
  BY <1>1, WordIs
<1>3. PICK r : r = Store(c.gc, i, v)
  OBVIOUS
<1>4. r \in Files
  BY <1>2, <1>3, PutIs DEF Card
<1>5. PICK new : new = [c EXCEPT !.gc = r]
  OBVIOUS
<1>6. new \in Card(b) /\ Alike(new, c) /\ new.gc = r /\ new.mmio = c.mmio
      /\ new.awake = c.awake /\ new.color = c.color /\ new.data = c.data /\ new.on = c.on
      /\ new.seq = c.seq /\ new.crtc = c.crtc /\ new.attr = c.attr
  BY <1>4, <1>5 DEF Card, Alike
<1>7. GcWrite(c, w) = IF Awake(c) THEN new ELSE c
  BY <1>1, <1>3, <1>5 DEF GcWrite
<1>8. Alike(c, c)
  BY DEF Alike
<1>9. CASE Awake(c)
  BY <1>1, <1>3, <1>6, <1>7, <1>9
<1>10. CASE ~Awake(c)
  BY <1>1, <1>7, <1>8, <1>10
<1> QED
  BY <1>9, <1>10

\* The attribute controller: the index, then the value.
LEMMA AttrWriteIs ==
  ASSUME NEW b, NEW c \in Card(b), NEW v \in Byte
  PROVE  LET x == AttrWrite(c, v)
         IN /\ x \in Card(b) /\ Alike(x, c) /\ x.awake = c.awake /\ x.color = c.color
            /\ x.mmio = c.mmio /\ x.seq = c.seq /\ x.crtc = c.crtc /\ x.gc = c.gc
            /\ Awake(c) /\ ~c.data => /\ x.data /\ x.at = v % 32 /\ (x.on <=> v >= 32)
                                     /\ x.attr = c.attr
            /\ Awake(c) /\ c.data => /\ ~x.data /\ (x.on <=> c.on)
                                    /\ x.attr = IF c.at < 16 /\ c.on THEN c.attr
                                               ELSE Store(c.attr, c.at, v)
<1>1. CASE ~Awake(c)
  BY <1>1 DEF AttrWrite, Alike
<1>2. CASE Awake(c) /\ ~c.data
  <2>1. PICK i, on : i = v % 32 /\ on = (v >= 32)
    OBVIOUS
  <2>2. i \in 0..31 /\ on \in BOOLEAN /\ (on <=> v >= 32)
    <3>1. i \in 0..31
      BY <2>1 DEF Byte
    <3>2. on \in BOOLEAN
      BY <2>1
    <3>3. on <=> v >= 32
      BY <2>1
    <3> QED
      BY <3>1, <3>2, <3>3
  <2>3. PICK x : x = [c EXCEPT !.data = TRUE, !.at = i, !.on = on]
    OBVIOUS
  <2>4. /\ x \in Card(b) /\ Alike(x, c) /\ x.awake = c.awake /\ x.color = c.color
        /\ x.mmio = c.mmio /\ x.seq = c.seq /\ x.crtc = c.crtc /\ x.gc = c.gc
        /\ x.data = TRUE /\ x.at = i /\ x.on = on /\ x.attr = c.attr
    BY <2>2, <2>3 DEF Card, Alike
  <2>5. AttrWrite(c, v) = x
    BY <1>2, <2>1, <2>3 DEF AttrWrite
  <2> QED
    BY <1>2, <2>1, <2>2, <2>4, <2>5
<1>3. CASE Awake(c) /\ c.data
  <2>1. PICK r : r = Store(c.attr, c.at, v)
    OBVIOUS
  <2>2. c.attr \in Files /\ c.at \in Byte
    BY DEF Card, Byte
  <2>3. r \in Files
    BY <2>1, <2>2, PutIs
  <2>4. PICK x, y : x = [c EXCEPT !.data = FALSE] /\ y = [c EXCEPT !.data = FALSE, !.attr = r]
    OBVIOUS
  <2>5. /\ x \in Card(b) /\ Alike(x, c) /\ x.awake = c.awake /\ x.color = c.color
        /\ x.mmio = c.mmio /\ x.seq = c.seq /\ x.crtc = c.crtc /\ x.gc = c.gc
        /\ x.data = FALSE /\ x.on = c.on /\ x.attr = c.attr
    BY <2>4 DEF Card, Alike
  <2>6. /\ y \in Card(b) /\ Alike(y, c) /\ y.awake = c.awake /\ y.color = c.color
        /\ y.mmio = c.mmio /\ y.seq = c.seq /\ y.crtc = c.crtc /\ y.gc = c.gc
        /\ y.data = FALSE /\ y.on = c.on /\ y.attr = r
    BY <2>3, <2>4 DEF Card, Alike
  <2>7. AttrWrite(c, v) = IF c.at < 16 /\ c.on THEN x ELSE y
    BY <1>3, <2>1, <2>4 DEF AttrWrite
  <2>8. CASE c.at < 16 /\ c.on
    BY <1>3, <2>5, <2>7, <2>8
  <2>9. CASE ~(c.at < 16 /\ c.on)
    BY <1>3, <2>1, <2>6, <2>7, <2>9
  <2> QED
    BY <2>8, <2>9
<1> QED
  BY <1>1, <1>2, <1>3

----------------------------------------------------------------------------
(* What a table leaves in the registers                                      *)

\* Of the first n entries the last for each register, and what had been there in the others.
HoldsTo(regs, tab, n) ==
  \A k \in 1..n :
    (\A l \in k + 1..n : Index(tab[l]) # Index(tab[k])) =>
      /\ Index(tab[k]) \in DOMAIN regs
      /\ regs[Index(tab[k])] = Value(tab[k])
KeptTo(before, regs, tab, n) ==
  \A i \in DOMAIN before :
    (\A k \in 1..n : Index(tab[k]) # i) => i \in DOMAIN regs /\ regs[i] = before[i]
Loaded(before, regs, tab, n) == HoldsTo(regs, tab, n) /\ KeptTo(before, regs, tab, n)

LEMMA LoadedNone ==
  ASSUME NEW r \in Files, NEW tab
  PROVE  Loaded(r, r, tab, 0)
BY DEF Loaded, HoldsTo, KeptTo

LEMMA LoadedMore ==
  ASSUME NEW before \in Files, NEW r \in Files, NEW tab, NEW n \in Nat \ {0},
         tab[n] \in Words, Loaded(before, r, tab, n - 1)
  PROVE  Loaded(before, Store(r, Index(tab[n]), Value(tab[n])), tab, n)
<1>1. PICK i, v : i = Index(tab[n]) /\ v = Value(tab[n])
  OBVIOUS
<1>2. i \in Byte /\ v \in Byte
  BY <1>1, WordIs
<1>3. PICK new : new = Store(r, i, v)
  OBVIOUS
<1>4. /\ i \in DOMAIN new /\ new[i] = v
      /\ \A j \in DOMAIN r : j # i => j \in DOMAIN new /\ new[j] = r[j]
  BY <1>2, <1>3, PutIs
<1>5. HoldsTo(new, tab, n)
  <2> SUFFICES ASSUME NEW k \in 1..n, \A l \in k + 1..n : Index(tab[l]) # Index(tab[k])
               PROVE  Index(tab[k]) \in DOMAIN new /\ new[Index(tab[k])] = Value(tab[k])
    BY DEF HoldsTo
  <2>1. CASE k = n
    BY <1>1, <1>4, <2>1
  <2>2. CASE k # n
    <3>1. k \in 1..n - 1 /\ n \in k + 1..n /\ \A l \in k + 1..n - 1 : l \in k + 1..n
      BY <2>2
    <3>2. Index(tab[k]) \in DOMAIN r /\ r[Index(tab[k])] = Value(tab[k])
      BY <3>1 DEF Loaded, HoldsTo
    <3>3. Index(tab[k]) # i
      BY <1>1, <3>1
    <3> QED
      BY <1>4, <3>2, <3>3
  <2> QED
    BY <2>1, <2>2
<1>6. KeptTo(before, new, tab, n)
  <2> SUFFICES ASSUME NEW j \in DOMAIN before, \A k \in 1..n : Index(tab[k]) # j
               PROVE  j \in DOMAIN new /\ new[j] = before[j]
    BY DEF KeptTo
  <2>1. n \in 1..n /\ \A k \in 1..n - 1 : k \in 1..n
    OBVIOUS
  <2>2. j \in DOMAIN r /\ r[j] = before[j] /\ j # i
    BY <1>1, <2>1 DEF Loaded, KeptTo
  <2> QED
    BY <1>4, <2>2
<1> QED
  BY <1>1, <1>3, <1>5, <1>6 DEF Loaded

LEMMA LoadedHolds ==
  ASSUME NEW regs, NEW tab, DOMAIN tab = 1..Len(tab), HoldsTo(regs, tab, Len(tab))
  PROVE  Holds(regs, tab)
BY DEF Holds, HoldsTo

\* The sequencer stays open while register 8 is given nothing but 6 and register 9 does not
\* ask for memory accesses.
Open(c) == 8 \in DOMAIN c.seq /\ c.seq[8] = 6
Harmless(w) == /\ w \in Words
               /\ Index(w) = 8 => Value(w) = 6
               /\ Index(w) = 9 => Value(w) < 128
SeqFrame(x, c) == /\ Alike(x, c) /\ x.color = c.color /\ x.data = c.data /\ x.on = c.on
                  /\ x.crtc = c.crtc /\ x.gc = c.gc /\ x.attr = c.attr

LEMMA SeqStep ==
  ASSUME NEW b, NEW c \in Card(b), NEW w, Harmless(w), Awake(c),
         Index(w) < 8 \/ Open(c), NEW x, x = SeqWrite(c, w)
  PROVE  /\ x \in Card(b) /\ SeqFrame(x, c) /\ Awake(x)
         /\ x.seq = Store(c.seq, Index(w), Value(w)) /\ (Open(c) => Open(x))
<1>1. PICK i, v : i = Index(w) /\ v = Value(w)
  OBVIOUS
<1>2. /\ w \in Words /\ i \in Byte /\ v \in Byte /\ (i = 8 => v = 6)
      /\ (i = 9 => v < 128) /\ (i < 8 \/ Open(c))
  BY <1>1, WordIs DEF Harmless
<1>3. SeqTakes(c, i)
  BY <1>2 DEF SeqTakes, Awake, Open, Byte
<1>4. /\ x \in Card(b) /\ SeqFrame(x, c) /\ x.awake = c.awake
      /\ x.seq = Store(c.seq, i, v)
      /\ i = 9 /\ v < 128 => ~x.mmio
      /\ i # 9 => x.mmio = c.mmio
  BY <1>1, <1>2, <1>3, SeqWriteIs DEF SeqFrame
<1>5. Awake(x)
  <2>1. ~x.mmio
    BY <1>2, <1>4 DEF Awake
  <2> QED
    BY <1>4, <2>1 DEF Awake
<1>6. Open(c) => Open(x)
  <2>1. c.seq \in Files
    BY DEF Card
  <2> QED
    BY <1>2, <1>4, <2>1, PutIs DEF Open
<1> QED
  BY <1>1, <1>4, <1>5, <1>6

LEMMA SeqTableIs ==
  ASSUME NEW b, NEW c \in Card(b), NEW tab, Len(tab) \in Nat,
         \A n \in 1..Len(tab) : Harmless(tab[n]),
         Awake(c), Open(c) \/ \A n \in 1..Len(tab) : Index(tab[n]) < 8,
         NEW x, x = SeqTable(c, tab)
  PROVE  /\ x \in Card(b) /\ SeqFrame(x, c) /\ Awake(x) /\ (Open(c) => Open(x))
         /\ Loaded(c.seq, x.seq, tab, Len(tab))
<1> DEFINE P(y, n) == /\ SeqFrame(y, c) /\ Awake(y) /\ (Open(c) => Open(y))
                      /\ Loaded(c.seq, y.seq, tab, n)
           G == [n \in 0..Len(tab) |-> {y \in Card(b) : P(y, n)}]
<1>1. c \in G[0]
  <2>1. P(c, 0)
    <3>1. c.seq \in Files
      BY DEF Card
    <3> QED
      BY <3>1, LoadedNone DEF SeqFrame, Alike
  <2> HIDE DEF P
  <2> QED
    BY <2>1
<1>2. ASSUME NEW n \in 1..Len(tab), NEW y \in G[n - 1]
      PROVE  Write(\h3C4, y, tab[n]) \in G[n]
  <2>1. y \in Card(b) /\ P(y, n - 1) /\ n - 1 \in 0..Len(tab) /\ n \in Nat \ {0}
        /\ n \in 0..Len(tab)
    <3> HIDE DEF P
    <3>1. n - 1 \in 0..Len(tab) /\ n \in Nat \ {0} /\ n \in 0..Len(tab)
      OBVIOUS
    <3> QED
      BY <3>1
  <2>2. PICK z : z = SeqWrite(y, tab[n])
    OBVIOUS
  <2>3. Index(tab[n]) < 8 \/ Open(y)
    BY <2>1
  <2>4. /\ z \in Card(b) /\ SeqFrame(z, y) /\ Awake(z) /\ (Open(y) => Open(z))
        /\ z.seq = Store(y.seq, Index(tab[n]), Value(tab[n]))
    BY <2>1, <2>2, <2>3, SeqStep
  <2>5. c.seq \in Files /\ y.seq \in Files /\ tab[n] \in Words
    BY <2>1 DEF Card, Harmless
  <2>6. Loaded(c.seq, z.seq, tab, n)
    BY <2>1, <2>4, <2>5, LoadedMore
  <2>7. P(z, n)
    BY <2>1, <2>4, <2>6 DEF SeqFrame, Alike
  <2>8. Write(\h3C4, y, tab[n]) = z
    BY <2>2, SeqIs
  <2>9. z \in G[n]
    <3> HIDE DEF P
    <3> QED
      BY <2>1, <2>4, <2>7
  <2> QED
    BY ONLY <2>8, <2>9
<1>3. x \in G[Len(tab)]
  <2> HIDE DEF G
  <2> QED
    BY <1>1, <1>2, TableInduction DEF SeqTable
<1>4. x \in Card(b) /\ P(x, Len(tab))
  <2>1. Len(tab) \in 0..Len(tab)
    OBVIOUS
  <2> HIDE DEF P
  <2> QED
    BY <1>3, <2>1
<1> QED
  BY <1>4

GcFrame(x, c) == /\ Alike(x, c) /\ x.color = c.color /\ x.data = c.data /\ x.on = c.on
                 /\ x.crtc = c.crtc /\ x.seq = c.seq /\ x.attr = c.attr

LEMMA GcTableIs ==
  ASSUME NEW b, NEW c \in Card(b), NEW tab, Len(tab) \in Nat,
         \A n \in 1..Len(tab) : tab[n] \in Words, Awake(c), NEW x, x = GcTable(c, tab)
  PROVE  /\ x \in Card(b) /\ GcFrame(x, c) /\ Awake(x)
         /\ Loaded(c.gc, x.gc, tab, Len(tab))
<1> DEFINE P(y, n) == GcFrame(y, c) /\ Awake(y) /\ Loaded(c.gc, y.gc, tab, n)
           G == [n \in 0..Len(tab) |-> {y \in Card(b) : P(y, n)}]
<1>1. c \in G[0]
  <2>1. P(c, 0)
    <3>1. c.gc \in Files
      BY DEF Card
    <3> QED
      BY <3>1, LoadedNone DEF GcFrame, Alike
  <2> HIDE DEF P
  <2> QED
    BY <2>1
<1>2. ASSUME NEW n \in 1..Len(tab), NEW y \in G[n - 1]
      PROVE  Write(\h3CE, y, tab[n]) \in G[n]
  <2>1. y \in Card(b) /\ P(y, n - 1) /\ n - 1 \in 0..Len(tab) /\ n \in Nat \ {0}
        /\ n \in 0..Len(tab)
    <3> HIDE DEF P
    <3>1. n - 1 \in 0..Len(tab) /\ n \in Nat \ {0} /\ n \in 0..Len(tab)
      OBVIOUS
    <3> QED
      BY <3>1
  <2>2. PICK z : z = GcWrite(y, tab[n])
    OBVIOUS
  <2>3. /\ z \in Card(b) /\ GcFrame(z, y) /\ Awake(z)
        /\ z.gc = Store(y.gc, Index(tab[n]), Value(tab[n]))
    BY <2>1, <2>2, GcWriteIs DEF GcFrame, Awake
  <2>4. c.gc \in Files /\ y.gc \in Files /\ tab[n] \in Words
    BY <2>1 DEF Card
  <2>5. Loaded(c.gc, z.gc, tab, n)
    BY <2>1, <2>3, <2>4, LoadedMore
  <2>6. P(z, n)
    BY <2>1, <2>3, <2>5 DEF GcFrame, Alike
  <2>8. Write(\h3CE, y, tab[n]) = z
    BY <2>2, GcIs
  <2>9. z \in G[n]
    <3> HIDE DEF P
    <3> QED
      BY <2>1, <2>3, <2>6
  <2> QED
    BY ONLY <2>8, <2>9
<1>3. x \in G[Len(tab)]
  <2> HIDE DEF G
  <2> QED
    BY <1>1, <1>2, TableInduction DEF GcTable
<1>4. x \in Card(b) /\ P(x, Len(tab))
  <2>1. Len(tab) \in 0..Len(tab)
    OBVIOUS
  <2> HIDE DEF P
  <2> QED
    BY <1>3, <2>1
<1> QED
  BY <1>4

\* The CRT registers 0 to 7 come before register 11 (hexadecimal) is locked again, the extended
\* ones behind the two values that unlock them, which stay.
CrtcEntry(n, w) ==
  /\ n = 1 => Index(w) = 17 /\ Value(w) < 128
  /\ n \in 2..9 => Index(w) # 17
  /\ Index(w) <= 7 => n \in 2..9
  /\ Index(w) >= 45 => n >= 27
  /\ n = 27 => Index(w) = 56 /\ Value(w) = 72
  /\ n = 28 => Index(w) = 57 /\ Value(w) = 165
  /\ n >= 28 => Index(w) # 56
  /\ n >= 29 => Index(w) # 57

LEMMA CrtcEntries ==
  /\ Len(s3_crtc_tab) = 66 /\ DOMAIN s3_crtc_tab = 1..Len(s3_crtc_tab)
  /\ \A n \in 1..66 : s3_crtc_tab[n] \in Words /\ CrtcEntry(n, s3_crtc_tab[n])
<1>1. Len(s3_crtc_tab) = 66
  BY DEF s3_crtc_tab
<1>2. DOMAIN s3_crtc_tab = 1..66
  BY DEF s3_crtc_tab
<1>3. \A n \in 1..66 : s3_crtc_tab[n] \in Nat /\ s3_crtc_tab[n] <= 65535
  <2>1. \A n \in 1..22 : s3_crtc_tab[n] \in Nat /\ s3_crtc_tab[n] <= 65535
    BY DEF s3_crtc_tab
  <2>2. \A n \in 23..44 : s3_crtc_tab[n] \in Nat /\ s3_crtc_tab[n] <= 65535
    BY DEF s3_crtc_tab
  <2>3. \A n \in 45..66 : s3_crtc_tab[n] \in Nat /\ s3_crtc_tab[n] <= 65535
    BY DEF s3_crtc_tab
  <2>4. \A n \in 1..66 : n \in 1..22 \/ n \in 23..44 \/ n \in 45..66
    OBVIOUS
  <2> QED
    BY <2>1, <2>2, <2>3, <2>4
<1>4. \A n \in 1..66 : CrtcEntry(n, s3_crtc_tab[n])
  <2>1. \A n \in 1..9 : CrtcEntry(n, s3_crtc_tab[n])
    BY DEF s3_crtc_tab, CrtcEntry, Index, Value
  <2>2. \A n \in 10..26 : CrtcEntry(n, s3_crtc_tab[n])
    BY DEF s3_crtc_tab, CrtcEntry, Index, Value
  <2>3. \A n \in 27..40 : CrtcEntry(n, s3_crtc_tab[n])
    BY DEF s3_crtc_tab, CrtcEntry, Index, Value
  <2>4. \A n \in 41..53 : CrtcEntry(n, s3_crtc_tab[n])
    BY DEF s3_crtc_tab, CrtcEntry, Index, Value
  <2>5. \A n \in 54..66 : CrtcEntry(n, s3_crtc_tab[n])
    BY DEF s3_crtc_tab, CrtcEntry, Index, Value
  <2>6. \A n \in 1..66 : n \in 1..9 \/ n \in 10..26 \/ n \in 27..40 \/ n \in 41..53
                          \/ n \in 54..66
    OBVIOUS
  <2> QED
    BY <2>1, <2>2, <2>3, <2>4, <2>5, <2>6
<1>5. \A n \in 1..66 : s3_crtc_tab[n] \in Words
  BY <1>3 DEF Words
<1> QED
  BY <1>1, <1>2, <1>4, <1>5

CrtcFrame(x, c) == /\ Alike(x, c) /\ x.color = c.color /\ x.data = c.data /\ x.on = c.on
                   /\ x.seq = c.seq /\ x.gc = c.gc /\ x.attr = c.attr

\* What unlocks registers as far as the table has come.
Unlocked(r, n) == /\ n \in 1..9 => 17 \in DOMAIN r /\ r[17] < 128
                  /\ n >= 27 => 56 \in DOMAIN r /\ r[56] = 72
                  /\ n >= 28 => 57 \in DOMAIN r /\ r[57] = 165

LEMMA CrtcEntryIs ==
  ASSUME NEW b, NEW c \in Card(b), NEW n \in 1..66, NEW w \in Words, CrtcEntry(n, w),
         Awake(c), c.color, Unlocked(c.crtc, n - 1), NEW x, x = CrtcWrite(c, TRUE, w)
  PROVE  /\ x \in Card(b) /\ CrtcFrame(x, c) /\ Awake(x)
         /\ x.crtc = Store(c.crtc, Index(w), Value(w)) /\ Unlocked(x.crtc, n)
<1>1. PICK i, v : i = Index(w) /\ v = Value(w)
  OBVIOUS
<1>2. i \in Byte /\ v \in Byte
  BY <1>1, WordIs
<1>3. /\ n = 1 => i = 17 /\ v < 128
      /\ n \in 2..9 => i # 17
      /\ i <= 7 => n \in 2..9
      /\ i >= 45 => n >= 27
      /\ n = 27 => i = 56 /\ v = 72
      /\ n = 28 => i = 57 /\ v = 165
      /\ n >= 28 => i # 56
      /\ n >= 29 => i # 57
  BY <1>1 DEF CrtcEntry
<1>4. /\ n - 1 \in 1..9 => 17 \in DOMAIN c.crtc /\ c.crtc[17] < 128
      /\ n - 1 >= 27 => 56 \in DOMAIN c.crtc /\ c.crtc[56] = 72
      /\ n - 1 >= 28 => 57 \in DOMAIN c.crtc /\ c.crtc[57] = 165
  BY DEF Unlocked
<1>5. CrtcTakes(c, i)
  <2>1. i <= 7 => c.crtc[17] < 128
    <3>1. i <= 7 => n - 1 \in 1..9
      BY ONLY <1>2, <1>3, n \in 1..66
    <3> QED
      BY <1>4, <3>1
  <2>2. i \in 45..63 \ {56, 57} => c.crtc[56] = 72
    <3>1. i \in 45..63 \ {56, 57} => n - 1 >= 27
      BY ONLY <1>2, <1>3, n \in 1..66
    <3> QED
      BY <1>4, <3>1
  <2>3. i >= 64 => c.crtc[57] = 165
    <3>1. i >= 64 => n - 1 >= 28
      BY ONLY <1>2, <1>3, n \in 1..66 DEF Byte
    <3> QED
      BY <1>4, <3>1
  <2> QED
    BY <2>1, <2>2, <2>3 DEF CrtcTakes
<1>6. c.color = TRUE
  BY DEF Card
<1>7. /\ x \in Card(b) /\ CrtcFrame(x, c) /\ x.awake = c.awake /\ x.mmio = c.mmio
      /\ x.crtc = Store(c.crtc, i, v)
  BY <1>1, <1>5, <1>6, CrtcWriteIs DEF CrtcFrame
<1>8. PICK r, new : r = c.crtc /\ new = x.crtc
  OBVIOUS
<1>9. /\ i \in DOMAIN new /\ new[i] = v
      /\ \A j \in DOMAIN r : j # i => j \in DOMAIN new /\ new[j] = r[j]
  <2>1. r \in Files /\ new = Store(r, i, v)
    BY <1>7, <1>8 DEF Card
  <2> QED
    BY <1>2, <2>1, PutIs
<1>10. Unlocked(new, n)
  <2>1. n \in 1..9 => 17 \in DOMAIN new /\ new[17] < 128
    <3>1. CASE n = 1
      BY <1>3, <1>9, <3>1
    <3>2. CASE n \in 2..9
      <4>1. n - 1 \in 1..9
        BY <3>2
      <4>2. 17 \in DOMAIN r /\ r[17] < 128
        BY <1>4, <1>8, <4>1
      <4>3. i # 17
        BY <1>3, <3>2
      <4> QED
        BY <1>9, <4>2, <4>3
    <3> QED
      BY <3>1, <3>2
  <2>2. n >= 27 => 56 \in DOMAIN new /\ new[56] = 72
    <3>1. CASE n = 27
      BY <1>3, <1>9, <3>1
    <3>2. CASE n >= 28
      <4>1. n - 1 >= 27
        BY <3>2
      <4>2. 56 \in DOMAIN r /\ r[56] = 72
        BY <1>4, <1>8, <4>1
      <4>3. i # 56
        BY <1>3, <3>2
      <4> QED
        BY <1>9, <4>2, <4>3
    <3> QED
      BY <3>1, <3>2
  <2>3. n >= 28 => 57 \in DOMAIN new /\ new[57] = 165
    <3>1. CASE n = 28
      BY <1>3, <1>9, <3>1
    <3>2. CASE n >= 29
      <4>1. n - 1 >= 28
        BY <3>2
      <4>2. 57 \in DOMAIN r /\ r[57] = 165
        BY <1>4, <1>8, <4>1
      <4>3. i # 57
        BY <1>3, <3>2
      <4> QED
        BY <1>9, <4>2, <4>3
    <3> QED
      BY <3>1, <3>2
  <2> QED
    BY <2>1, <2>2, <2>3 DEF Unlocked
<1> QED
  BY <1>1, <1>7, <1>8, <1>10 DEF Awake

LEMMA CrtcTableIs ==
  ASSUME NEW b, NEW c \in Card(b), Awake(c), c.color,
         NEW x, x = CrtcTable(c, s3_crtc_tab)
  PROVE  /\ x \in Card(b) /\ CrtcFrame(x, c) /\ Awake(x)
         /\ HoldsTo(x.crtc, s3_crtc_tab, Len(s3_crtc_tab))
<1>0. PICK tab : tab = s3_crtc_tab
  OBVIOUS
<1>1. Len(tab) = 66 /\ \A n \in 1..66 : tab[n] \in Words /\ CrtcEntry(n, tab[n])
  BY <1>0, CrtcEntries
<1> DEFINE P(y, n) == /\ CrtcFrame(y, c) /\ Awake(y) /\ Unlocked(y.crtc, n)
                      /\ Loaded(c.crtc, y.crtc, tab, n)
           G == [n \in 0..66 |-> {y \in Card(b) : P(y, n)}]
<1>2. c \in G[0]
  <2>1. P(c, 0)
    <3>1. c.crtc \in Files
      BY DEF Card
    <3> QED
      BY <3>1, LoadedNone DEF CrtcFrame, Alike, Unlocked
  <2> HIDE DEF P
  <2> QED
    BY <2>1
<1>3. ASSUME NEW n \in 1..66, NEW y \in G[n - 1]
      PROVE  Write(\h3D4, y, tab[n]) \in G[n]
  <2>1. y \in Card(b) /\ P(y, n - 1) /\ n - 1 \in 0..66 /\ n \in Nat \ {0} /\ n \in 0..66
    <3> HIDE DEF P
    <3>1. n - 1 \in 0..66 /\ n \in Nat \ {0} /\ n \in 0..66
      OBVIOUS
    <3> QED
      BY <3>1
  <2>2. PICK z : z = CrtcWrite(y, TRUE, tab[n])
    OBVIOUS
  <2>3. y.color /\ tab[n] \in Words /\ CrtcEntry(n, tab[n])
    BY <1>1, <2>1 DEF CrtcFrame
  <2>4. /\ z \in Card(b) /\ CrtcFrame(z, y) /\ Awake(z) /\ Unlocked(z.crtc, n)
        /\ z.crtc = Store(y.crtc, Index(tab[n]), Value(tab[n]))
    <3>1. PICK w : w = tab[n]
      OBVIOUS
    <3>2. /\ y \in Card(b) /\ Awake(y) /\ y.color /\ Unlocked(y.crtc, n - 1)
          /\ w \in Words /\ CrtcEntry(n, w) /\ z = CrtcWrite(y, TRUE, w)
      BY <2>1, <2>2, <2>3, <3>1
    <3>3. /\ z \in Card(b) /\ CrtcFrame(z, y) /\ Awake(z) /\ Unlocked(z.crtc, n)
          /\ z.crtc = Store(y.crtc, Index(w), Value(w))
      <4> HIDE DEF P, G
      <4> QED
        BY <3>2, CrtcEntryIs
    <3> QED
      BY <3>1, <3>3
  <2>5. c.crtc \in Files /\ y.crtc \in Files
    BY <2>1 DEF Card
  <2>6. Loaded(c.crtc, z.crtc, tab, n)
    BY <2>1, <2>3, <2>4, <2>5, LoadedMore
  <2>7. P(z, n)
    BY <2>1, <2>4, <2>6 DEF CrtcFrame, Alike
  <2>8. Write(\h3D4, y, tab[n]) = z
    <3>1. CASE y.awake
      BY <2>2, <3>1 DEF Write, AtPort
    <3>2. CASE ~y.awake
      BY <2>2, <3>2 DEF Write, CrtcWrite, Awake
    <3> QED
      BY <3>1, <3>2
  <2>9. z \in G[n]
    <3> HIDE DEF P
    <3> QED
      BY <2>1, <2>4, <2>7
  <2> QED
    BY ONLY <2>8, <2>9
<1>4. x \in G[66]
  <2> HIDE DEF G
  <2>1. Len(tab) \in Nat /\ 1..Len(tab) = 1..66
    BY <1>1
  <2>2. ASSUME NEW n \in 1..Len(tab), NEW y \in G[n - 1]
        PROVE  Write(\h3D4, y, tab[n]) \in G[n]
    <3>1. n \in 1..66
      BY ONLY <2>1, <2>2
    <3> QED
      BY ONLY <1>3, <2>2, <3>1
  <2>3. write_vga_table(\h3D4, c, tab) \in G[Len(tab)]
    <3>1. PICK H : H = G
      OBVIOUS
    <3>2. ASSUME NEW n \in 1..Len(tab), NEW y \in H[n - 1]
          PROVE  Write(\h3D4, y, tab[n]) \in H[n]
      BY <2>2, <3>1
    <3>3. c \in H[0]
      BY <1>2, <3>1
    <3>4. Len(tab) \in Nat
      BY <2>1
    <3>5. write_vga_table(\h3D4, c, tab) \in H[Len(tab)]
      BY ONLY <3>2, <3>3, <3>4, TableInduction
    <3> QED
      BY <3>1, <3>5
  <2> QED
    BY <1>0, <1>1, <2>3 DEF CrtcTable
<1>5. x \in Card(b) /\ P(x, 66)
  <2> HIDE DEF P
  <2> QED
    BY <1>4
<1> QED
  BY <1>0, <1>1, <1>5 DEF Loaded

LEMMA SeqEntries ==
  /\ Len(s3_seq_tab) = 13 /\ DOMAIN s3_seq_tab = 1..Len(s3_seq_tab)
  /\ \A n \in 1..13 : Harmless(s3_seq_tab[n])
<1>1. Len(s3_seq_tab) = 13
  BY DEF s3_seq_tab
<1>2. DOMAIN s3_seq_tab = 1..13
  BY DEF s3_seq_tab
<1>3. \A n \in 1..13 : s3_seq_tab[n] \in Words
  BY DEF s3_seq_tab, Words
<1>4. \A n \in 1..13 : /\ Index(s3_seq_tab[n]) = 8 => Value(s3_seq_tab[n]) = 6
                       /\ Index(s3_seq_tab[n]) = 9 => Value(s3_seq_tab[n]) < 128
  BY DEF s3_seq_tab, Index, Value
<1> QED
  BY <1>1, <1>2, <1>3, <1>4 DEF Harmless

\* The values that loading the font changes and gives back are the tables'.
LEMMA SeqHeld ==
  ASSUME NEW regs, Holds(regs, s3_seq_tab)
  PROVE  {2, 4} \subseteq DOMAIN regs /\ regs[2] = 3 /\ regs[4] = 2
<1>1. DOMAIN s3_seq_tab = 1..13 /\ Len(s3_seq_tab) = 13
  BY SeqEntries
<1>2. /\ Index(s3_seq_tab[3]) = 2 /\ Value(s3_seq_tab[3]) = 3
      /\ Index(s3_seq_tab[5]) = 4 /\ Value(s3_seq_tab[5]) = 2
  BY DEF s3_seq_tab, Index, Value
<1>3. /\ \A l \in 4..13 : Index(s3_seq_tab[l]) # 2
      /\ \A l \in 6..13 : Index(s3_seq_tab[l]) # 4
  BY DEF s3_seq_tab, Index
<1>4. 3 + 1 = 4 /\ 5 + 1 = 6 /\ {3, 5} \subseteq 1..13
  OBVIOUS
<1> QED
  BY <1>1, <1>2, <1>3, <1>4 DEF Holds

LEMMA GcEntries ==
  /\ Len(s3_gc_tab) = 9 /\ DOMAIN s3_gc_tab = 1..Len(s3_gc_tab)
  /\ \A n \in 1..9 : s3_gc_tab[n] \in Words
<1>1. Len(s3_gc_tab) = 9
  BY DEF s3_gc_tab
<1>2. DOMAIN s3_gc_tab = 1..9
  BY DEF s3_gc_tab
<1>3. \A n \in 1..9 : s3_gc_tab[n] \in Words
  BY DEF s3_gc_tab, Words
<1> QED
  BY <1>1, <1>2, <1>3

LEMMA GcHeld ==
  ASSUME NEW regs, Holds(regs, s3_gc_tab)
  PROVE  {4, 5, 6} \subseteq DOMAIN regs /\ regs[4] = 0 /\ regs[5] = 16 /\ regs[6] = 14
<1>1. DOMAIN s3_gc_tab = 1..9 /\ Len(s3_gc_tab) = 9
  BY GcEntries
<1>2. /\ Index(s3_gc_tab[5]) = 4 /\ Value(s3_gc_tab[5]) = 0
      /\ Index(s3_gc_tab[6]) = 5 /\ Value(s3_gc_tab[6]) = 16
      /\ Index(s3_gc_tab[7]) = 6 /\ Value(s3_gc_tab[7]) = 14
  BY DEF s3_gc_tab, Index, Value
<1>3. /\ \A l \in 6..9 : Index(s3_gc_tab[l]) # 4
      /\ \A l \in 7..9 : Index(s3_gc_tab[l]) # 5
      /\ \A l \in 8..9 : Index(s3_gc_tab[l]) # 6
  BY DEF s3_gc_tab, Index
<1>4. 5 + 1 = 6 /\ 6 + 1 = 7 /\ 7 + 1 = 8 /\ {5, 6, 7} \subseteq 1..9
  OBVIOUS
<1> QED
  BY <1>1, <1>2, <1>3, <1>4 DEF Holds

LEMMA AttrEntries ==
  /\ Len(textmode_attrib_tab) = 21
  /\ DOMAIN textmode_attrib_tab = 1..Len(textmode_attrib_tab)
  /\ \A n \in 1..21 : textmode_attrib_tab[n] \in Words /\ Index(textmode_attrib_tab[n]) < 32
<1>1. Len(textmode_attrib_tab) = 21
  BY DEF textmode_attrib_tab
<1>2. DOMAIN textmode_attrib_tab = 1..21
  BY DEF textmode_attrib_tab
<1>3. \A n \in 1..16 : textmode_attrib_tab[n] = (n - 1) * 257
  BY DEF textmode_attrib_tab
<1>4. \A n \in 17..21 :
        textmode_attrib_tab[n] = <<\h0C10, \h0011, \h0F12, \h0813, \h0014>>[n - 16]
  BY DEF textmode_attrib_tab
<1>5. \A n \in 1..16 : textmode_attrib_tab[n] \in Words /\ Index(textmode_attrib_tab[n]) < 32
  <2> TAKE n \in 1..16
  <2>1. PICK m : m = n - 1
    OBVIOUS
  <2>2. m \in 0..15 /\ textmode_attrib_tab[n] = m * 257
    BY <1>3, <2>1
  <2>3. m * 257 = 256 * m + m
    BY <2>2
  <2>4. (256 * m + m) % 256 = m /\ 256 * m + m \in Words
    BY <2>2 DEF Words
  <2> QED
    BY <2>2, <2>3, <2>4 DEF Index
<1>6. \A n \in 17..21 : textmode_attrib_tab[n] \in Words /\ Index(textmode_attrib_tab[n]) < 32
  <2>1. \A k \in 1..5 : /\ <<\h0C10, \h0011, \h0F12, \h0813, \h0014>>[k] \in Words
                        /\ Index(<<\h0C10, \h0011, \h0F12, \h0813, \h0014>>[k]) < 32
    BY DEF Words, Index
  <2>2. \A n \in 17..21 : n - 16 \in 1..5
    OBVIOUS
  <2> QED
    BY <1>4, <2>1, <2>2
<1>7. \A n \in 1..21 : n \in 1..16 \/ n \in 17..21
  OBVIOUS
<1> QED
  BY <1>1, <1>2, <1>5, <1>6, <1>7

AttrFrame(x, c) == /\ Alike(x, c) /\ x.color = c.color
                   /\ x.seq = c.seq /\ x.crtc = c.crtc /\ x.gc = c.gc

LEMMA AttrEntryIs ==
  ASSUME NEW b, NEW c \in Card(b), NEW w \in Words, Index(w) < 32, Awake(c), ~c.data,
         NEW x, x = AttrWrite(AttrWrite(c, Index(w)), Value(w))
  PROVE  /\ x \in Card(b) /\ AttrFrame(x, c) /\ Awake(x) /\ ~x.data
         /\ x.attr = Store(c.attr, Index(w), Value(w))
<1>1. PICK i, v : i = Index(w) /\ v = Value(w)
  OBVIOUS
<1>2. i \in Byte /\ v \in Byte /\ i < 32
  BY <1>1, WordIs
<1>3. PICK y : y = AttrWrite(c, i)
  OBVIOUS
<1>4. /\ y \in Card(b) /\ AttrFrame(y, c) /\ Awake(y) /\ y.data /\ ~y.on
      /\ y.at = i % 32 /\ y.attr = c.attr
  <2>1. ~(i >= 32)
    BY <1>2 DEF Byte
  <2> QED
    BY <1>2, <1>3, <2>1, AttrWriteIs DEF AttrFrame, Awake
<1>5. i % 32 = i
  BY <1>2 DEF Byte
<1>6. x = AttrWrite(y, v)
  BY <1>1, <1>3
<1>7. /\ x \in Card(b) /\ AttrFrame(x, y) /\ Awake(x) /\ ~x.data
      /\ x.attr = Store(y.attr, y.at, v)
  BY <1>2, <1>4, <1>6, AttrWriteIs DEF AttrFrame, Awake
<1> QED
  BY <1>1, <1>4, <1>5, <1>7 DEF AttrFrame, Alike

LEMMA AttributesAre ==
  ASSUME NEW b, NEW c \in Card(b), Awake(c), ~c.data, NEW x, x = Attributes(c)
  PROVE  /\ x \in Card(b) /\ AttrFrame(x, c) /\ Awake(x) /\ x.on
         /\ Holds(x.attr, textmode_attrib_tab)
<1>0. PICK tab : tab = textmode_attrib_tab
  OBVIOUS
<1>1. Len(tab) \in Nat /\ Len(tab) = 21
      /\ \A n \in 1..Len(tab) : tab[n] \in Words /\ Index(tab[n]) < 32
  BY <1>0, AttrEntries
<1> DEFINE P(y, n) == AttrFrame(y, c) /\ Awake(y) /\ ~y.data /\ Loaded(c.attr, y.attr, tab, n)
           G == [n \in 0..Len(tab) |-> {y \in Card(b) : P(y, n)}]
<1>2. c \in G[0]
  <2>1. P(c, 0)
    <3>1. c.attr \in Files
      BY DEF Card
    <3> QED
      BY <3>1, LoadedNone DEF AttrFrame, Alike
  <2>2. 0 \in 0..Len(tab)
    BY <1>1
  <2> HIDE DEF P
  <2> QED
    BY <2>1, <2>2
<1>3. ASSUME NEW n \in 1..Len(tab), NEW y \in G[n - 1]
      PROVE  Write(\h3C0, y, tab[n]) \in G[n]
  <2>1. y \in Card(b) /\ P(y, n - 1) /\ n - 1 \in 0..Len(tab) /\ n \in Nat \ {0}
        /\ n \in 0..Len(tab)
    <3> HIDE DEF P
    <3>1. n - 1 \in 0..Len(tab) /\ n \in Nat \ {0} /\ n \in 0..Len(tab)
      BY <1>1
    <3> QED
      BY <3>1
  <2>2. PICK z : z = AttrWrite(AttrWrite(y, Index(tab[n])), Value(tab[n]))
    OBVIOUS
  <2>3. /\ z \in Card(b) /\ AttrFrame(z, y) /\ Awake(z) /\ ~z.data
        /\ z.attr = Store(y.attr, Index(tab[n]), Value(tab[n]))
    <3>1. PICK w : w = tab[n]
      OBVIOUS
    <3>2. /\ y \in Card(b) /\ Awake(y) /\ ~y.data /\ w \in Words /\ Index(w) < 32
          /\ z = AttrWrite(AttrWrite(y, Index(w)), Value(w))
      BY <1>1, <2>1, <2>2, <3>1
    <3>3. /\ z \in Card(b) /\ AttrFrame(z, y) /\ Awake(z) /\ ~z.data
          /\ z.attr = Store(y.attr, Index(w), Value(w))
      <4> HIDE DEF P, G
      <4> QED
        BY <3>2, AttrEntryIs
    <3> QED
      BY <3>1, <3>3
  <2>4. c.attr \in Files /\ y.attr \in Files /\ tab[n] \in Words
    BY <1>1, <2>1 DEF Card
  <2>5. Loaded(c.attr, z.attr, tab, n)
    BY <2>1, <2>3, <2>4, LoadedMore
  <2>6. P(z, n)
    BY <2>1, <2>3, <2>5 DEF AttrFrame, Alike
  <2>7. Write(\h3C0, y, tab[n]) = z
    BY <2>2, AttrIs
  <2>8. z \in G[n]
    <3> HIDE DEF P
    <3> QED
      BY <2>1, <2>3, <2>6
  <2> QED
    BY ONLY <2>7, <2>8
<1>4. PICK y : y = write_vga_table(\h3C0, c, tab)
  OBVIOUS
<1>5. y \in G[Len(tab)]
  <2> HIDE DEF G
  <2>1. PICK H : H = G
    OBVIOUS
  <2>2. ASSUME NEW n \in 1..Len(tab), NEW u \in H[n - 1]
        PROVE  Write(\h3C0, u, tab[n]) \in H[n]
    BY <1>3, <2>1
  <2>3. c \in H[0] /\ Len(tab) \in Nat
    BY <1>1, <1>2, <2>1
  <2>4. write_vga_table(\h3C0, c, tab) \in H[Len(tab)]
    BY ONLY <2>2, <2>3, TableInduction
  <2> QED
    BY <1>4, <2>1, <2>4
<1>6. y \in Card(b) /\ P(y, Len(tab))
  <2>1. Len(tab) \in 0..Len(tab)
    BY <1>1
  <2> HIDE DEF P
  <2> QED
    BY <1>5, <2>1
<1>7. x = AttrWrite(y, 32)
  BY <1>0, <1>4 DEF Attributes
<1>8. /\ x \in Card(b) /\ AttrFrame(x, y) /\ Awake(x) /\ x.on /\ x.attr = y.attr
  <2>1. 32 \in Byte /\ 32 >= 32
    BY DEF Byte
  <2> QED
    BY <1>6, <1>7, <2>1, AttrWriteIs DEF AttrFrame, Awake
<1>9. Holds(x.attr, tab)
  <2>1. DOMAIN tab = 1..Len(tab)
    BY <1>0, AttrEntries
  <2> QED
    BY <1>6, <1>8, <2>1, LoadedHolds DEF Loaded
<1> QED
  BY <1>0, <1>6, <1>8, <1>9 DEF AttrFrame, Alike

LEMMA MonoIs ==
  ASSUME NEW b, NEW c \in Card(b), NEW w \in Words, NEW x, x = Write(\h3B4, c, w)
  PROVE  x \in Card(b) /\ Alike(x, c) /\ (Awake(c) => Awake(x))
<1>1. \A color \in BOOLEAN :
        LET y == CrtcWrite(c, color, w)
        IN y \in Card(b) /\ Alike(y, c) /\ y.awake = c.awake /\ y.mmio = c.mmio
  BY CrtcWriteIs
<1>2. x = CrtcWrite(c, FALSE, w)
  <2>1. CASE c.awake
    BY <2>1 DEF Write, AtPort
  <2>2. CASE ~c.awake
    BY <2>2 DEF Write, CrtcWrite, Awake
  <2> QED
    BY <2>1, <2>2
<1> QED
  BY <1>1, <1>2 DEF Awake

\* Whatever it takes, a card stays a card.
IsTable(tab) == Len(tab) \in Nat /\ \A n \in 1..Len(tab) : tab[n] \in Words

LEMMA AnyTable ==
  ASSUME NEW b, NEW c \in Card(b), NEW tab, IsTable(tab),
         NEW x, x \in {SeqTable(c, tab), GcTable(c, tab), write_vga_table(\h3C0, c, tab)}
  PROVE  x \in Card(b)
<1>1. ASSUME NEW y \in Card(b), NEW w \in Words
      PROVE  /\ Write(\h3C4, y, w) \in Card(b) /\ Write(\h3CE, y, w) \in Card(b)
             /\ Write(\h3C0, y, w) \in Card(b)
  <2>1. Write(\h3C4, y, w) \in Card(b)
    <3>1. Write(\h3C4, y, w) = SeqWrite(y, w)
      BY SeqIs
    <3> QED
      BY <3>1, SeqWriteIs
  <2>2. Write(\h3CE, y, w) \in Card(b)
    <3>1. Write(\h3CE, y, w) = GcWrite(y, w)
      BY GcIs
    <3> QED
      BY <3>1, GcWriteIs
  <2>3. Write(\h3C0, y, w) \in Card(b)
    <3>1. Write(\h3C0, y, w) = AttrWrite(AttrWrite(y, Index(w)), Value(w))
      BY AttrIs
    <3>2. Index(w) \in Byte /\ Value(w) \in Byte
      BY WordIs
    <3>3. AttrWrite(y, Index(w)) \in Card(b)
      BY <3>2, AttrWriteIs
    <3> QED
      BY <3>1, <3>2, <3>3, AttrWriteIs
  <2> QED
    BY <2>1, <2>2, <2>3
<1>9. Len(tab) \in Nat /\ \A n \in 1..Len(tab) : tab[n] \in Words
  BY DEF IsTable
<1>2. PICK H : H = [n \in 0..Len(tab) |-> Card(b)]
  OBVIOUS
<1>3. \A n \in 0..Len(tab) : H[n] = Card(b)
  BY <1>2
<1>4. c \in H[0] /\ Len(tab) \in Nat /\ H[Len(tab)] = Card(b)
  BY <1>3, <1>9
<1>5. ASSUME NEW n \in 1..Len(tab), NEW y \in H[n - 1]
      PROVE  /\ Write(\h3C4, y, tab[n]) \in H[n] /\ Write(\h3CE, y, tab[n]) \in H[n]
             /\ Write(\h3C0, y, tab[n]) \in H[n]
  <2>1. n \in 0..Len(tab) /\ n - 1 \in 0..Len(tab) /\ tab[n] \in Words
    BY <1>9
  <2> QED
    BY <1>1, <1>3, <2>1
<1>6. write_vga_table(\h3C4, c, tab) \in H[Len(tab)]
  BY ONLY <1>4, <1>5, TableInduction
<1>7. write_vga_table(\h3CE, c, tab) \in H[Len(tab)]
  BY ONLY <1>4, <1>5, TableInduction
<1>8. write_vga_table(\h3C0, c, tab) \in H[Len(tab)]
  BY ONLY <1>4, <1>5, TableInduction
<1> QED
  BY <1>4, <1>6, <1>7, <1>8 DEF SeqTable, GcTable

\* init_s3_vga's first writes: memory accesses are left, and the sequencer is open.
LEMMA LegacyIs ==
  ASSUME NEW b, NEW c \in Card(b), c.mmio => c.awake,
         NEW x, x = SeqWrite(SeqWrite(c, \h0608), \h0009)
  PROVE  x \in Card(b) /\ Alike(x, c) /\ ~x.mmio
<1>1. /\ \h0608 \in Words /\ Index(\h0608) = 8 /\ Value(\h0608) = 6
      /\ \h0009 \in Words /\ Index(\h0009) = 9 /\ Value(\h0009) = 0
  BY DEF Words, Index, Value
<1>2. PICK v, w : v = \h0608 /\ w = \h0009
  OBVIOUS
<1>3. /\ v \in Words /\ Index(v) = 8 /\ Value(v) = 6 /\ Index(v) # 9
      /\ w \in Words /\ Index(w) = 9 /\ Value(w) = 0 /\ Index(w) # 8
  BY <1>1, <1>2
<1>4. PICK y : y = SeqWrite(c, v)
  OBVIOUS
<1>5. x = SeqWrite(y, w)
  BY <1>2, <1>4
<1>6. /\ y \in Card(b) /\ Alike(y, c) /\ y.awake = c.awake
      /\ y.seq = IF SeqTakes(c, 8) THEN Store(c.seq, 8, 6) ELSE c.seq
      /\ y.mmio = c.mmio
  BY <1>3, <1>4, SeqWriteIs
<1>7. /\ x \in Card(b) /\ Alike(x, y)
      /\ SeqTakes(y, 9) => ~x.mmio
      /\ ~SeqTakes(y, 9) => x.mmio = y.mmio
  BY <1>3, <1>5, <1>6, SeqWriteIs
<1>8. ~x.mmio
  <2>1. CASE c.awake
    <3>1. SeqTakes(c, 8)
      BY <2>1 DEF SeqTakes
    <3>2. c.seq \in Files /\ 8 \in Byte /\ 6 \in Byte
      BY DEF Card, Byte
    <3>3. y.seq[8] = 6
      BY <1>6, <3>1, <3>2, PutIs
    <3>4. SeqTakes(y, 9)
      BY <1>6, <2>1, <3>3 DEF SeqTakes
    <3> QED
      BY <1>7, <3>4
  <2>2. CASE ~c.awake
    <3>1. ~SeqTakes(y, 9)
      BY <1>6, <2>2 DEF SeqTakes
    <3>2. ~c.mmio
      BY <2>2
    <3> QED
      BY <1>6, <1>7, <3>1, <3>2
  <2> QED
    BY <2>1, <2>2
<1> QED
  BY <1>6, <1>7, <1>8 DEF Alike

LEMMA OpenedIs ==
  ASSUME NEW b, NEW c \in Card(b), Awake(c), NEW x, x = SeqWrite(c, \h0608)
  PROVE  x \in Card(b) /\ Alike(x, c) /\ Awake(x) /\ Open(x)
<1>1. PICK v : v = \h0608
  OBVIOUS
<1>2. v \in Words /\ Index(v) = 8 /\ Value(v) = 6 /\ Index(v) # 9
  BY <1>1 DEF Words, Index, Value
<1>3. SeqTakes(c, 8)
  BY DEF SeqTakes, Awake
<1>4. /\ x \in Card(b) /\ Alike(x, c) /\ x.awake = c.awake /\ x.mmio = c.mmio
      /\ x.seq = Store(c.seq, 8, 6)
  BY <1>1, <1>2, <1>3, SeqWriteIs
<1>5. c.seq \in Files /\ 8 \in Byte /\ 6 \in Byte
  BY DEF Card, Byte
<1>6. Open(x)
  BY <1>4, <1>5, PutIs DEF Open
<1>7. x.awake = c.awake /\ x.mmio = c.mmio
  BY <1>4
<1>8. Awake(c)
  OBVIOUS
<1>9. Awake(x)
  BY ONLY <1>7, <1>8 DEF Awake
<1> QED
  BY <1>4, <1>6, <1>9

LEMMA WokenIs ==
  ASSUME NEW b, NEW c \in Card(b), c.mmio => c.awake,
         NEW here, here = SeqTable(c, <<\h0608, \h0009>>),
         NEW up, up = [here EXCEPT !.awake = TRUE],
         NEW x, x = SeqTable(write_vga_table(\h3B4, up, <<\h4838, \hA539>>), <<\h0608>>)
  PROVE  x \in Card(b) /\ Alike(x, c) /\ Awake(x) /\ Open(x)
<1>1. \A y, w : Write(\h3C4, y, w) = SeqWrite(y, w)
  BY SeqIs
<1>2. here = SeqWrite(SeqWrite(c, \h0608), \h0009)
  <2>1. here = Write(\h3C4, Write(\h3C4, c, \h0608), \h0009)
    BY TwoEntries DEF SeqTable
  <2> QED
    BY <1>1, <2>1
<1>3. here \in Card(b) /\ Alike(here, c) /\ ~here.mmio
  BY <1>2, LegacyIs
<1>4. up \in Card(b) /\ Alike(up, c) /\ Awake(up)
  <2>1. PICK h : h = here
    OBVIOUS
  <2>2. h \in Card(b) /\ up = [h EXCEPT !.awake = TRUE]
    BY <1>3, <2>1
  <2>3. up \in Card(b)
    BY ONLY <2>2 DEF Card
  <2>4. up.awake = TRUE /\ up.mmio = h.mmio /\ Alike(up, h)
    BY ONLY <2>2 DEF Card, Alike
  <2> QED
    BY <1>3, <2>1, <2>3, <2>4 DEF Alike, Awake
<1>5. PICK v, w : v = \h4838 /\ w = \hA539
  OBVIOUS
<1>6. v \in Words /\ w \in Words
  BY <1>5 DEF Words
<1>7. PICK y : y = Write(\h3B4, up, v)
  OBVIOUS
<1>8. PICK z : z = Write(\h3B4, y, w)
  OBVIOUS
<1>9. write_vga_table(\h3B4, up, <<\h4838, \hA539>>) = z
  BY <1>5, <1>7, <1>8, TwoEntries
<1>10. y \in Card(b) /\ Alike(y, up) /\ Awake(y)
  BY <1>4, <1>6, <1>7, MonoIs
<1>11. z \in Card(b) /\ Alike(z, y) /\ Awake(z)
  BY <1>6, <1>8, <1>10, MonoIs
<1>12. x = SeqWrite(z, \h0608)
  <2>1. x = Write(\h3C4, z, \h0608)
    BY <1>9, OneEntry DEF SeqTable
  <2> QED
    BY <1>1, <2>1
<1>13. x \in Card(b) /\ Alike(x, z) /\ Awake(x) /\ Open(x)
  BY <1>11, <1>12, OpenedIs
<1> QED
  BY <1>4, <1>10, <1>11, <1>13 DEF Alike

\* Two tables that write the same registers, the second what had been in them.
GivenBack(r, s) == \A i \in DOMAIN r : i \in DOMAIN s /\ s[i] = r[i]

LEMMA HoldsKept ==
  ASSUME NEW r, NEW s, NEW tab, GivenBack(r, s), Holds(r, tab)
  PROVE  Holds(s, tab)
BY DEF GivenBack, Holds

LEMMA FontIs ==
  ASSUME NEW b, NEW c \in Card(b), Awake(c), NEW x, x = InitVgaFont(c)
  PROVE  /\ x \in Card(b) /\ Alike(x, c) /\ Awake(x) /\ x.on = c.on
         /\ x.crtc = c.crtc /\ x.attr = c.attr
         /\ {2, 4} \subseteq DOMAIN c.seq /\ c.seq[2] = 3 /\ c.seq[4] = 2
               => GivenBack(c.seq, x.seq)
         /\ {4, 5, 6} \subseteq DOMAIN c.gc /\ c.gc[4] = 0 /\ c.gc[5] = 16 /\ c.gc[6] = 14
               => GivenBack(c.gc, x.gc)
<1> DEFINE t1 == <<\h0402, \h0604>>
           t2 == <<\h2004, \h0005, \h0406>>
           t3 == <<\h0302, \h0204>>
           t4 == <<\h0004, \h1005, \h0E06>>
<1>1. InitVgaFont(c) = GcTable(SeqTable(GcTable(SeqTable(c, t1), t2), t3), t4)
  BY DEF InitVgaFont
<1>2. /\ Len(t1) = 2 /\ Len(t1) \in Nat
      /\ \A n \in 1..Len(t1) : Harmless(t1[n]) /\ Index(t1[n]) < 8
      /\ Index(t1[1]) = 2 /\ Index(t1[2]) = 4
  BY DEF Harmless, Words, Index, Value
<1>3. /\ Len(t3) = 2 /\ Len(t3) \in Nat
      /\ \A n \in 1..Len(t3) : Harmless(t3[n]) /\ Index(t3[n]) < 8
      /\ Index(t3[1]) = 2 /\ Value(t3[1]) = 3 /\ Index(t3[2]) = 4 /\ Value(t3[2]) = 2
  BY DEF Harmless, Words, Index, Value
<1>4. /\ Len(t2) = 3 /\ Len(t2) \in Nat /\ \A n \in 1..Len(t2) : t2[n] \in Words
      /\ Index(t2[1]) = 4 /\ Index(t2[2]) = 5 /\ Index(t2[3]) = 6
  BY DEF Words, Index
<1>5. /\ Len(t4) = 3 /\ Len(t4) \in Nat /\ \A n \in 1..Len(t4) : t4[n] \in Words
      /\ Index(t4[1]) = 4 /\ Index(t4[2]) = 5 /\ Index(t4[3]) = 6
      /\ Value(t4[1]) = 0 /\ Value(t4[2]) = 16 /\ Value(t4[3]) = 14
  BY DEF Words, Index, Value
<1> HIDE DEF t1, t2, t3, t4
<1>6. PICK u : u = SeqTable(c, t1)
  OBVIOUS
<1>7. PICK v : v = GcTable(u, t2)
  OBVIOUS
<1>8. PICK w : w = SeqTable(v, t3)
  OBVIOUS
<1>9. x = GcTable(w, t4)
  BY <1>1, <1>6, <1>7, <1>8
<1>10. u \in Card(b) /\ SeqFrame(u, c) /\ Awake(u) /\ Loaded(c.seq, u.seq, t1, Len(t1))
  BY <1>2, <1>6, SeqTableIs
<1>11. v \in Card(b) /\ GcFrame(v, u) /\ Awake(v) /\ Loaded(u.gc, v.gc, t2, Len(t2))
  BY <1>4, <1>7, <1>10, GcTableIs
<1>12. w \in Card(b) /\ SeqFrame(w, v) /\ Awake(w) /\ Loaded(v.seq, w.seq, t3, Len(t3))
  BY <1>3, <1>8, <1>11, SeqTableIs
<1>13. x \in Card(b) /\ GcFrame(x, w) /\ Awake(x) /\ Loaded(w.gc, x.gc, t4, Len(t4))
  BY <1>5, <1>9, <1>12, GcTableIs
<1>14. /\ Alike(x, c) /\ x.on = c.on /\ x.crtc = c.crtc /\ x.attr = c.attr
       /\ v.seq = u.seq /\ x.seq = w.seq /\ u.gc = c.gc /\ w.gc = v.gc
  BY <1>10, <1>11, <1>12, <1>13 DEF SeqFrame, GcFrame, Alike
<1>15. {2, 4} \subseteq DOMAIN c.seq /\ c.seq[2] = 3 /\ c.seq[4] = 2
         => GivenBack(c.seq, x.seq)
  <2>1. /\ 2 \in DOMAIN w.seq /\ w.seq[2] = 3 /\ 4 \in DOMAIN w.seq /\ w.seq[4] = 2
    BY <1>3, <1>12 DEF Loaded, HoldsTo
  <2>2. \A i \in DOMAIN c.seq : i # 2 /\ i # 4 => i \in DOMAIN u.seq /\ u.seq[i] = c.seq[i]
    BY <1>2, <1>10 DEF Loaded, KeptTo
  <2>3. \A i \in DOMAIN v.seq : i # 2 /\ i # 4 => i \in DOMAIN w.seq /\ w.seq[i] = v.seq[i]
    BY <1>3, <1>12 DEF Loaded, KeptTo
  <2> QED
    BY <1>14, <2>1, <2>2, <2>3 DEF GivenBack
<1>16. {4, 5, 6} \subseteq DOMAIN c.gc /\ c.gc[4] = 0 /\ c.gc[5] = 16 /\ c.gc[6] = 14
         => GivenBack(c.gc, x.gc)
  <2>1. /\ 4 \in DOMAIN x.gc /\ x.gc[4] = 0 /\ 5 \in DOMAIN x.gc /\ x.gc[5] = 16
        /\ 6 \in DOMAIN x.gc /\ x.gc[6] = 14
    BY <1>5, <1>13 DEF Loaded, HoldsTo
  <2>2. \A i \in DOMAIN u.gc : i \notin {4, 5, 6} => i \in DOMAIN v.gc /\ v.gc[i] = u.gc[i]
    BY <1>4, <1>11 DEF Loaded, KeptTo
  <2>3. \A i \in DOMAIN w.gc : i \notin {4, 5, 6} => i \in DOMAIN x.gc /\ x.gc[i] = w.gc[i]
    BY <1>5, <1>13 DEF Loaded, KeptTo
  <2> QED
    BY <1>14, <2>1, <2>2, <2>3 DEF GivenBack
<1> QED
  BY <1>13, <1>14, <1>15, <1>16

----------------------------------------------------------------------------
(* The card through its setup                                                *)

WholeTables(c) == /\ Holds(c.seq, s3_seq_tab) /\ Holds(c.crtc, s3_crtc_tab)
                  /\ Holds(c.gc, s3_gc_tab)

\* From init_s3_vga on the card takes what it is given, and the clocks that the tables need
\* have been seen to run; before the text mode is set the tables are in the registers, and the
\* text mode leaves them there.
CardInv ==
  /\ card \in Card(card.bios) /\ clocks \subseteq Clocks /\ romOn \in BOOLEAN
  /\ stage \notin {"off", "ready"} => pc = "nvram"
  /\ romOn => stage = "copy"
  /\ stage = "off" => (card.mmio => card.awake)
  /\ stage \in {"clocks", "test", "tables"} =>
       card.s3 /\ HasVga /\ Awake(card) /\ Open(card)
  /\ stage = "tables" => clocks = Clocks
  /\ stage \in {"copy", "bios"} => HasVga /\ ~card.s3
  /\ stage = "text" /\ HasVga =>
       /\ Awake(card) /\ card.color /\ clocks = Clocks
       /\ card.s3 => WholeTables(card)
  /\ stage = "ready" /\ HasVga =>
       /\ Holds(card.attr, textmode_attrib_tab) /\ card.on /\ clocks = Clocks
       /\ card.s3 => WholeTables(card)

LEMMA CardInit == SetupInit => CardInv
<1> SUFFICES ASSUME SetupInit PROVE CardInv
  OBVIOUS
<1>1. PICK m \in Machines : card = m.card
  BY DEF SetupInit
<1>2. IsLeft(card)
  BY <1>1, LeftAssumption
<1>3. \A r \in {card.seq, card.crtc, card.gc, card.attr} : r \in Files
  BY <1>2 DEF IsLeft, Files
<1>4. card \in Card(card.bios)
  BY <1>2, <1>3 DEF IsLeft, Card
<1>5. card.mmio => card.awake
  BY <1>2 DEF IsLeft
<1> QED
  BY <1>4, <1>5 DEF SetupInit, CardInv, Clocks

\* The steps of the PCI setup are taken before the card's or after them.
LEMMA CardPci ==
  ASSUME TypeInv, CardInv, PciStep
  PROVE  CardInv'
<1>1. stage' = stage /\ card' = card /\ clocks' = clocks /\ romOn' = romOn
  BY DEF PciStep, setup
<1>2. stage \in {"off", "ready"}
  BY DEF PciStep, CardInv
<1>3. stage = "ready" => vga' = vga
  <2>1. stage = "ready" => pc \notin {"preinit", "vga_bars"}
    BY DEF TypeInv, StageInv
  <2>2. Next
    BY DEF PciStep
  <2>3. pc # "preinit" => vga' = vga
    BY <2>2 DEF Next, Preinit, VgaDone, NvramInit, ConfigVga, Config, ConfigVme, VmeOff,
           ConfigDone, Route, Unused, Ignore64, Ignore1M, MapIo, MapMem, SkipToIds, Skip,
           Assign, EndBars, tables
  <2> QED
    BY <2>1, <2>3
<1> QED
  BY <1>1, <1>2, <1>3 DEF CardInv, HasVga

LEMMA WakeUpCard ==
  ASSUME TypeInv, CardInv, WakeUp
  PROVE  CardInv'
<1>1. /\ stage = "off" /\ stage' = "clocks" /\ pc' = pc /\ pc = "nvram" /\ vga' = vga
      /\ HasVga /\ card.s3 /\ clocks' = clocks /\ romOn' = romOn
  BY DEF WakeUp, At, tables, Registers
<1>2. PICK here : here = SeqTable(card, <<\h0608, \h0009>>)
  BY Zenon
<1>3. PICK up : up = [here EXCEPT !.awake = TRUE]
  OBVIOUS
<1>4. card' = SeqTable(write_vga_table(\h3B4, up, <<\h4838, \hA539>>), <<\h0608>>)
  BY <1>2, <1>3 DEF WakeUp
<1>5. card' \in Card(card.bios) /\ Alike(card', card) /\ Awake(card') /\ Open(card')
  BY <1>1, <1>2, <1>3, <1>4, WokenIs DEF CardInv
<1> QED
  BY <1>1, <1>5 DEF CardInv, HasVga, Alike, Awake, Open

\* The clocks' tables leave the sequencer open.
LEMMA ClocksTable ==
  ASSUME NEW b, NEW c \in Card(b), Awake(c), Open(c),
         NEW tab, Len(tab) \in Nat,
         \A n \in 1..Len(tab) : tab[n] \in Words /\ Index(tab[n]) = 20,
         NEW x, x = SeqTable(c, tab)
  PROVE  x \in Card(b) /\ Alike(x, c) /\ Awake(x) /\ Open(x)
<1>1. \A n \in 1..Len(tab) : Harmless(tab[n])
  BY DEF Harmless
<1> QED
  BY <1>1, SeqTableIs DEF SeqFrame

LEMMA PowerClocksCard ==
  ASSUME TypeInv, CardInv, PowerClocks
  PROVE  CardInv'
<1>1. /\ stage = "clocks" /\ stage' = "test" /\ pc' = pc /\ pc = "nvram" /\ vga' = vga
      /\ clocks' \subseteq Clocks /\ romOn' = romOn
  BY DEF PowerClocks, At, tables, Registers
<1> DEFINE tab == <<\h0314, \h0014>>
<1>2. Len(tab) = 2 /\ \A n \in 1..2 : tab[n] \in Words /\ Index(tab[n]) = 20
  BY DEF Words, Index
<1>3. card' = SeqTable(card, tab)
  BY DEF PowerClocks
<1> HIDE DEF tab
<1>4. card' \in Card(card.bios) /\ Alike(card', card) /\ Awake(card') /\ Open(card')
  BY <1>1, <1>2, <1>3, ClocksTable DEF CardInv
<1> QED
  BY <1>1, <1>4 DEF CardInv, HasVga, Alike, Awake, Open

LEMMA TestClocksCard ==
  ASSUME TypeInv, CardInv, TestClocks
  PROVE  CardInv'
<1> DEFINE tab1 == <<\h1C14, \h0C14, \h1414, \h0414>>
           tab2 == <<\h1C14, \h0C14>>
<1>1. PICK seen \in SUBSET clocks :
        /\ At("test", IF seen = Clocks THEN "tables" ELSE "clocks")
        /\ card' = SeqTable(card, IF "mclk" \in seen THEN tab1 ELSE tab2)
  BY DEF TestClocks
<1>2. Len(tab1) = 4 /\ \A n \in 1..4 : tab1[n] \in Words /\ Index(tab1[n]) = 20
  BY DEF Words, Index
<1>3. Len(tab2) = 2 /\ \A n \in 1..2 : tab2[n] \in Words /\ Index(tab2[n]) = 20
  BY DEF Words, Index
<1> HIDE DEF tab1, tab2
<1>4. PICK tab : /\ card' = SeqTable(card, tab) /\ Len(tab) \in Nat
                 /\ \A n \in 1..Len(tab) : tab[n] \in Words /\ Index(tab[n]) = 20
  BY <1>1, <1>2, <1>3
<1>5. /\ stage = "test" /\ pc' = pc /\ pc = "nvram" /\ vga' = vga
      /\ clocks' = clocks /\ romOn' = romOn
  BY <1>1 DEF TestClocks, At, tables, Registers
<1>6. stage' = "clocks" \/ (stage' = "tables" /\ clocks' = Clocks)
  <2>1. seen = Clocks => clocks = Clocks
    BY <1>1 DEF CardInv
  <2> QED
    BY <1>1, <1>5, <2>1 DEF At
<1>7. card' \in Card(card.bios) /\ Alike(card', card) /\ Awake(card') /\ Open(card')
  BY <1>4, <1>5, ClocksTable DEF CardInv
<1> QED
  BY <1>5, <1>6, <1>7 DEF CardInv, HasVga, Alike, Awake, Open

LEMMA WriteTablesCard ==
  ASSUME TypeInv, CardInv, WriteTables
  PROVE  CardInv'
<1>1. /\ stage = "tables" /\ stage' = "text" /\ pc' = pc /\ pc = "nvram" /\ vga' = vga
      /\ clocks' = clocks /\ romOn' = romOn
  BY DEF WriteTables, At, tables, Registers
<1>2. PICK c0 : c0 = [card EXCEPT !.color = TRUE]
  OBVIOUS
<1>3. /\ card \in Card(card.bios) /\ Awake(card) /\ Open(card) /\ card.s3 /\ clocks = Clocks
      /\ ~romOn
  BY <1>1 DEF CardInv
<1>4. c0 \in Card(card.bios) /\ Alike(c0, card) /\ Awake(c0) /\ Open(c0) /\ c0.color = TRUE
  BY <1>2, <1>3 DEF Card, Alike, Awake, Open
<1>5. PICK c1 : c1 = SeqTable(c0, s3_seq_tab)
  OBVIOUS
<1>6. PICK c2 : c2 = CrtcTable(c1, s3_crtc_tab) /\ card' = GcTable(c2, s3_gc_tab)
  BY <1>2, <1>5 DEF WriteTables
<1>7. card' = GcTable(c2, s3_gc_tab)
  BY <1>6
<1>8. /\ c1 \in Card(card.bios) /\ SeqFrame(c1, c0) /\ Awake(c1)
      /\ Holds(c1.seq, s3_seq_tab)
  <2>1. PICK tab : tab = s3_seq_tab
    OBVIOUS
  <2>2. /\ Len(tab) \in Nat /\ DOMAIN tab = 1..Len(tab)
        /\ \A n \in 1..Len(tab) : Harmless(tab[n])
    BY <2>1, SeqEntries
  <2>3. /\ c1 \in Card(card.bios) /\ SeqFrame(c1, c0) /\ Awake(c1)
        /\ Loaded(c0.seq, c1.seq, tab, Len(tab))
    BY <1>4, <1>5, <2>1, <2>2, SeqTableIs
  <2>4. Holds(c1.seq, tab)
    BY <2>2, <2>3, LoadedHolds DEF Loaded
  <2> QED
    BY <2>1, <2>3, <2>4
<1>9. /\ c2 \in Card(card.bios) /\ CrtcFrame(c2, c1) /\ Awake(c2)
      /\ Holds(c2.crtc, s3_crtc_tab)
  <2>1. c1.color
    BY <1>4, <1>8 DEF SeqFrame
  <2>2. /\ c2 \in Card(card.bios) /\ CrtcFrame(c2, c1) /\ Awake(c2)
        /\ HoldsTo(c2.crtc, s3_crtc_tab, Len(s3_crtc_tab))
    BY <1>6, <1>8, <2>1, CrtcTableIs
  <2>3. DOMAIN s3_crtc_tab = 1..Len(s3_crtc_tab)
    BY CrtcEntries
  <2> QED
    BY <2>2, <2>3, LoadedHolds
<1>10. PICK c3 : c3 = GcTable(c2, s3_gc_tab)
  OBVIOUS
<1>11. /\ c3 \in Card(card.bios) /\ GcFrame(c3, c2) /\ Awake(c3)
       /\ Holds(c3.gc, s3_gc_tab)
  <2>1. PICK tab : tab = s3_gc_tab
    OBVIOUS
  <2>2. /\ Len(tab) \in Nat /\ DOMAIN tab = 1..Len(tab)
        /\ \A n \in 1..Len(tab) : tab[n] \in Words
    BY <2>1, GcEntries
  <2>3. /\ c3 \in Card(card.bios) /\ GcFrame(c3, c2) /\ Awake(c3)
        /\ Loaded(c2.gc, c3.gc, tab, Len(tab))
    BY <1>9, <1>10, <2>1, <2>2, GcTableIs
  <2>4. Holds(c3.gc, tab)
    BY <2>2, <2>3, LoadedHolds DEF Loaded
  <2> QED
    BY <2>1, <2>3, <2>4
<1>12. WholeTables(c3) /\ c3.color /\ c3.bios = card.bios
  BY <1>4, <1>8, <1>9, <1>11 DEF WholeTables, SeqFrame, CrtcFrame, GcFrame, Alike
<1> QED
  BY <1>1, <1>3, <1>7, <1>10, <1>11, <1>12 DEF CardInv, HasVga

\* Without a card, with its ROM shown, and the BIOS's services.
LEMMA BiosCard ==
  ASSUME TypeInv, CardInv, NoCard \/ EnableVgaRom \/ DisableVgaRom \/ Service
  PROVE  CardInv'
<1>1. CASE NoCard
  BY <1>1 DEF NoCard, At, tables, Registers, CardInv, HasVga
<1>2. CASE EnableVgaRom
  <2>1. romOn' \in BOOLEAN
    BY <1>2 DEF EnableVgaRom
  <2> QED
    BY <1>2, <2>1 DEF EnableVgaRom, At, tables, CardInv, HasVga
<1>3. CASE DisableVgaRom
  BY <1>3 DEF DisableVgaRom, At, tables, CardInv, HasVga
<1>4. CASE Service
  <2>1. /\ stage = "bios" /\ stage' = "bios" /\ pc' = pc /\ pc = "nvram" /\ vga' = vga
        /\ clocks' = clocks /\ romOn' = romOn
    BY <1>4 DEF Service, At, tables
  <2>2. PICK c, rest : c = card /\ rest = Tail(card.bios)
    OBVIOUS
  <2>3. c \in Card(c.bios) /\ ~c.s3 /\ HasVga /\ ~romOn
    BY <2>1, <2>2 DEF CardInv
  <2>4. card' = [c EXCEPT !.bios = rest]
    BY <1>4, <2>2 DEF Service
  <2>5. card' \in Card(card'.bios) /\ ~card'.s3
    BY <2>3, <2>4 DEF Card
  <2> QED
    BY <2>1, <2>3, <2>5 DEF CardInv, HasVga
<1> QED
  BY <1>1, <1>2, <1>3, <1>4

LEMMA BiosEndsCard ==
  ASSUME TypeInv, CardInv, BiosEnds
  PROVE  CardInv'
<1>1. /\ stage = "bios" /\ stage' = "text" /\ pc' = pc /\ pc = "nvram" /\ vga' = vga
      /\ clocks' = Clocks /\ romOn' = romOn
  BY DEF BiosEnds, At, tables, Registers
<1>2. card \in Card(card.bios) /\ ~card.s3 /\ HasVga /\ ~romOn
  BY <1>1 DEF CardInv
<1>3. PICK x : x = [card EXCEPT !.awake = TRUE, !.mmio = FALSE, !.color = TRUE]
  OBVIOUS
<1>4. /\ x \in Card(card.bios) /\ x.bios = card.bios /\ x.s3 = card.s3
      /\ x.awake = TRUE /\ x.mmio = FALSE /\ x.color = TRUE
  BY <1>2, <1>3 DEF Card
<1>5. card' = x
  BY <1>3 DEF BiosEnds
<1> QED
  BY <1>1, <1>2, <1>4, <1>5 DEF CardInv, HasVga, Awake

\* A card that is asleep, or another, is none afterwards that holds more than bytes.
LEMMA TextType ==
  ASSUME NEW b, NEW c \in Card(b), NEW x, x = InitVgaFont(Attributes(Read3DA(c)))
  PROVE  x \in Card(b)
<1>1. Read3DA(c) \in Card(b)
  <2>1. PICK y : y = [c EXCEPT !.data = FALSE]
    OBVIOUS
  <2>2. y \in Card(b)
    BY <2>1 DEF Card
  <2> QED
    BY <2>1, <2>2 DEF Read3DA
<1>2. PICK c1 : c1 = Attributes(Read3DA(c))
  OBVIOUS
<1>3. c1 \in Card(b)
  <2>1. PICK y : y = write_vga_table(\h3C0, Read3DA(c), textmode_attrib_tab)
    OBVIOUS
  <2>2. IsTable(textmode_attrib_tab)
    BY AttrEntries DEF IsTable
  <2>3. y \in Card(b)
    BY <1>1, <2>1, <2>2, AnyTable
  <2>4. 32 \in Byte
    BY DEF Byte
  <2>5. c1 = AttrWrite(y, 32)
    BY <1>2, <2>1 DEF Attributes
  <2> QED
    BY <2>3, <2>4, <2>5, AttrWriteIs
<1> DEFINE t1 == <<\h0402, \h0604>>
           t2 == <<\h2004, \h0005, \h0406>>
           t3 == <<\h0302, \h0204>>
           t4 == <<\h0004, \h1005, \h0E06>>
<1>4. x = GcTable(SeqTable(GcTable(SeqTable(c1, t1), t2), t3), t4)
  BY <1>2 DEF InitVgaFont
<1>5. IsTable(t1) /\ IsTable(t2) /\ IsTable(t3) /\ IsTable(t4)
  BY DEF IsTable, Words
<1> HIDE DEF t1, t2, t3, t4
<1>6. PICK c2 : c2 = SeqTable(c1, t1)
  OBVIOUS
<1>7. PICK c3 : c3 = GcTable(c2, t2)
  OBVIOUS
<1>8. PICK c4 : c4 = SeqTable(c3, t3)
  OBVIOUS
<1>9. c2 \in Card(b)
  BY <1>3, <1>5, <1>6, AnyTable
<1>10. c3 \in Card(b)
  BY <1>5, <1>7, <1>9, AnyTable
<1>11. c4 \in Card(b)
  BY <1>5, <1>8, <1>10, AnyTable
<1>12. x = GcTable(c4, t4)
  BY <1>4, <1>6, <1>7, <1>8
<1> QED
  BY <1>5, <1>11, <1>12, AnyTable

LEMMA TextModeIs ==
  ASSUME NEW b, NEW c \in Card(b), Awake(c), c.color, c.s3 => WholeTables(c),
         NEW x, x = InitVgaFont(Attributes(Read3DA(c)))
  PROVE  /\ x \in Card(b) /\ Alike(x, c)
         /\ Holds(x.attr, textmode_attrib_tab) /\ x.on
         /\ x.s3 => WholeTables(x)
<1>1. PICK c1 : c1 = [c EXCEPT !.data = FALSE]
  OBVIOUS
<1>2. /\ c1 \in Card(b) /\ Alike(c1, c) /\ c1.data = FALSE /\ c1.awake = c.awake
      /\ c1.mmio = c.mmio
      /\ c1.seq = c.seq /\ c1.crtc = c.crtc /\ c1.gc = c.gc
  BY <1>1 DEF Card, Alike
<1>3. Read3DA(c) = c1
  BY <1>1 DEF Read3DA
<1>4. PICK c2 : c2 = Attributes(c1)
  OBVIOUS
<1>5. Awake(c1) /\ ~c1.data
  BY <1>2 DEF Awake
<1>6. /\ c2 \in Card(b) /\ AttrFrame(c2, c1) /\ Awake(c2) /\ c2.on
      /\ Holds(c2.attr, textmode_attrib_tab)
  BY <1>2, <1>4, <1>5, AttributesAre
<1>7. x = InitVgaFont(c2)
  BY <1>3, <1>4
<1>8. /\ x \in Card(b) /\ Alike(x, c2) /\ x.on = c2.on
      /\ x.crtc = c2.crtc /\ x.attr = c2.attr
      /\ {2, 4} \subseteq DOMAIN c2.seq /\ c2.seq[2] = 3 /\ c2.seq[4] = 2
            => GivenBack(c2.seq, x.seq)
      /\ {4, 5, 6} \subseteq DOMAIN c2.gc /\ c2.gc[4] = 0 /\ c2.gc[5] = 16 /\ c2.gc[6] = 14
            => GivenBack(c2.gc, x.gc)
  BY <1>6, <1>7, FontIs
<1>9. c2.seq = c.seq /\ c2.crtc = c.crtc /\ c2.gc = c.gc /\ Alike(c2, c)
  BY <1>2, <1>6 DEF AttrFrame, Alike
<1>10. x.s3 => WholeTables(x)
  <2> SUFFICES ASSUME x.s3 PROVE WholeTables(x)
    OBVIOUS
  <2>1. c.s3
    BY <1>8, <1>9 DEF Alike
  <2>2. /\ Holds(c2.seq, s3_seq_tab) /\ Holds(c2.crtc, s3_crtc_tab)
        /\ Holds(c2.gc, s3_gc_tab)
    BY <1>9, <2>1 DEF WholeTables
  <2>3. Holds(x.seq, s3_seq_tab)
    BY <1>8, <2>2, SeqHeld, HoldsKept
  <2>4. Holds(x.gc, s3_gc_tab)
    BY <1>8, <2>2, GcHeld, HoldsKept
  <2> QED
    BY <1>8, <2>2, <2>3, <2>4 DEF WholeTables
<1> QED
  BY <1>6, <1>8, <1>9, <1>10 DEF Alike

LEMMA TextModeCard ==
  ASSUME TypeInv, CardInv, TextMode
  PROVE  CardInv'
<1>1. /\ stage = "text" /\ stage' = "ready" /\ pc' = pc /\ pc = "nvram" /\ vga' = vga
      /\ clocks' = clocks /\ romOn' = romOn
  BY DEF TextMode, At, tables, Registers
<1>2. card \in Card(card.bios) /\ ~romOn /\ clocks \subseteq Clocks
  BY <1>1 DEF CardInv
<1>3. card' = InitVgaFont(Attributes(Read3DA(card)))
  BY DEF TextMode
<1>4. card' \in Card(card.bios) /\ card'.bios = card.bios
  BY <1>2, <1>3, TextType DEF Card
<1>5. HasVga => /\ Holds(card'.attr, textmode_attrib_tab) /\ card'.on /\ clocks = Clocks
                /\ card'.s3 => WholeTables(card')
  <2> SUFFICES ASSUME HasVga
               PROVE  /\ Holds(card'.attr, textmode_attrib_tab) /\ card'.on
                      /\ clocks = Clocks /\ (card'.s3 => WholeTables(card'))
    OBVIOUS
  <2>1. /\ Awake(card) /\ card.color /\ clocks = Clocks
        /\ card.s3 => WholeTables(card)
    BY <1>1 DEF CardInv
  <2> QED
    BY <1>2, <1>3, <2>1, TextModeIs
<1> QED
  BY <1>1, <1>2, <1>4, <1>5 DEF CardInv, HasVga

LEMMA CardStep == TypeInv /\ CardInv /\ [SetupNext]_allVars => CardInv'
<1> SUFFICES ASSUME TypeInv, CardInv, [SetupNext]_allVars PROVE CardInv'
  OBVIOUS
<1>1. CASE WakeUp
  BY <1>1, WakeUpCard
<1>2. CASE PowerClocks
  BY <1>2, PowerClocksCard
<1>3. CASE TestClocks
  BY <1>3, TestClocksCard
<1>4. CASE WriteTables
  BY <1>4, WriteTablesCard
<1>5. CASE NoCard \/ EnableVgaRom \/ DisableVgaRom \/ Service
  BY <1>5, BiosCard
<1>6. CASE BiosEnds
  BY <1>6, BiosEndsCard
<1>7. CASE TextMode
  BY <1>7, TextModeCard
<1>8. CASE PciStep
  BY <1>8, CardPci
<1>9. CASE UNCHANGED allVars
  BY <1>9 DEF allVars, vars, setup, tables, CardInv, HasVga
<1> QED
  BY <1>1, <1>2, <1>3, <1>4, <1>5, <1>6, <1>7, <1>8, <1>9 DEF SetupNext, SetupStep

LEMMA CardIsKept == SetupSpec => [](Inv /\ CardInv)
<1>1. Inv /\ CardInv /\ [SetupNext]_allVars => CardInv'
  BY CardStep DEF Inv
<1> QED
  BY <1>1, Inductive, CardInit, PTL DEF SetupSpec

\* The variables of the card's setup hold what the code's and the card's do.
THEOREM SetupTypeCorrect == SetupSpec => []SetupTypeOK
<1>1. Inv /\ CardInv /\ TypeOK => SetupTypeOK
  <2> SUFFICES ASSUME Inv, CardInv, TypeOK PROVE SetupTypeOK
    OBVIOUS
  <2>1. /\ stage \in {"off", "clocks", "test", "tables", "copy", "bios", "text", "ready"}
        /\ own \in [1..4 -> Byte] /\ status \subseteq Errors
    BY DEF Inv, TypeInv, StageInv
  <2>2. clocks \subseteq Clocks /\ romOn \in BOOLEAN
    BY DEF CardInv
  <2>3. stage = "clocks" \/ stage = "test" \/ stage = "tables" => card.s3 /\ HasVga
    BY DEF CardInv
  <2>4. \A r \in {card.seq, card.crtc, card.gc, card.attr} : Range(r) \subseteq Byte
    <3>1. \A r \in Files : Range(r) \subseteq Byte
      BY DEF Files, Range
    <3>2. {card.seq, card.crtc, card.gc, card.attr} \subseteq Files
      BY DEF CardInv, Card
    <3> QED
      BY <3>1, <3>2
  <2>5. UNION {Range(r) : r \in {card.seq, card.crtc, card.gc, card.attr}} \subseteq Byte
    BY <2>4
  <2> QED
    BY <2>1, <2>2, <2>3, <2>5 DEF SetupTypeOK, Byte
<1> QED
  BY <1>1, CardIsKept, TypeCorrect, PTL

\* However the card was left and whatever its BIOS did: in the end it holds what the tables
\* say, its clocks run, the screen is on and its ROM is hidden.
THEOREM CardStaysSetUp == SetupSpec => []CardIsSetUp
<1>1. CardInv => CardIsSetUp
  BY DEF CardInv, CardIsSetUp, WholeTables
<1> QED
  BY <1>1, CardIsKept, PTL
==============================================================================
