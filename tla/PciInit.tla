------------------------------ MODULE PciInit ------------------------------
(***************************************************************************)
(* pci_init.c: preinit_pcibus looks for the VGA card and gives it its        *)
(* windows, nvram_init decides whether the settings are believed, and         *)
(* init_pcibus gives every other function its windows and routes the          *)
(* interrupts. The processor is alone; what varies is what sits in the slots  *)
(* and in the NVRAM.                                                        *)
(*                                                                         *)
(* A function is a pair of slot and function number; registers 0..5 are the  *)
(* base addresses, register 6 the ROM's. What a register is (its kind) is      *)
(* what it answers when all ones have been written to it.                    *)
(***************************************************************************)
EXTENDS Integers, Sequences, SequencesExt, Nvram

CONSTANTS
  Machines  \* the machines to be started: what is plugged in and what the NVRAM holds

Fcts == (0..5) \X (0..7)
Rom == 6
Regs == 0..Rom

\* "upper" is the upper half of a 64-bit address, which answers with all ones.
Kind == [k : {"none", "io", "mem", "mem64", "mem1m", "upper"}, size : Nat]
Function == [layout0 : BOOLEAN, multi : BOOLEAN, vga : BOOLEAN, vme : BOOLEAN,
             pin : Byte, kind : [Regs -> Kind]]

\* What holds of every PCI card: sizes are powers of two, 64-bit addresses take two registers,
\* ROMs are memory. The VME card's memory is the third of its registers (init_vme_pmmu), and it
\* is no VGA card.
ASSUME MachinesAssumption ==
  \A m \in Machines :
    /\ DOMAIN m.bus \subseteq {f \in Fcts : f[1] # 0}
    /\ \A f \in DOMAIN m.bus : m.bus[f] \in Function
    /\ \A f \in DOMAIN m.bus, r \in Regs :
         LET kind == m.bus[f].kind IN
           /\ kind[r].k = "io" => r # Rom /\ kind[r].size \in {2^n : n \in 2..8}
           /\ kind[r].k = "upper" => kind[r].size = 0
           /\ kind[r].k \in {"mem", "mem64", "mem1m"} => kind[r].size \in {2^n : n \in 4..28}
           /\ kind[r].k = "mem64" <=> r < 5 /\ kind[r + 1].k = "upper"
           /\ r = Rom => kind[r].k \in {"none", "mem"}
           /\ kind[0].k # "upper"
           /\ m.bus[f].vme => ~m.bus[f].vga /\ (r \in 0..2 => kind[r].k \in {"io", "mem"})
    /\ m.nv \in Content /\ m.stored \in Content

VARIABLES
  bus,      \* the functions that are there
  nv,       \* what the NVRAM holds
  stored,   \* what it held when it was written last
  pc,
  todo,     \* the functions still to be looked at
  cur,      \* the locals of init_BARs
  io,       \* cur_io_base
  mem,      \* cur_mem_base
  reg,      \* the base address registers as written
  cmd,      \* the bits set in the COMMAND registers
  vga,      \* VGA_dev, VGA_fct
  vgaRsc,   \* VGA_resources, as a list
  devices,  \* the table of pci_devices
  line,     \* the INTERRUPT_LINE registers
  believed, \* nvram_ok
  language,
  piix      \* the routing of INTA..INTD to ISA interrupts

hardware == <<bus, nv, stored>>
windows == <<io, mem, reg, cmd>>
tables == <<vga, vgaRsc, devices>>
settings == <<believed, language>>
vars == <<hardware, pc, todo, cur, windows, tables, line, settings, piix>>

-----------------------------------------------------------------------------
(* What the registers answer *)

ALIGN(val, al) == val + ((al - (val % al)) % al)

Ones == [space |-> "ones", addr |-> 0]
Zero == [space |-> "mem", addr |-> 0]
Io(a) == [space |-> "io", addr |-> a]
Mem(a) == [space |-> "mem", addr |-> a]

\* A slot with nothing in it answers every read with all ones.
KindOf(f, r) == IF f \in DOMAIN bus THEN bus[f].kind[r] ELSE [k |-> "upper", size |-> 0]

\* The address range a function answers to once a register has been written.
Decodes(f, r) ==
  LET kind == bus[f].kind[r]
      val == reg[f][r]
      space == IF kind.k = "io" THEN "io" ELSE "mem"
  IN [space |-> space, size |-> kind.size, base |-> val.addr - (val.addr % kind.size)]

\* enum_devs: the functions that it finds, and the order in which it does.
Seen == {f \in DOMAIN bus : /\ bus[f].layout0
                            /\ \/ f[2] = 0 \/ <<f[1], 0>> \notin DOMAIN bus
                               \/ bus[<<f[1], 0>>].multi}
Number(f) == 8 * f[1] + f[2]
Place(f) == 1 + Cardinality({g \in Seen : Number(g) < Number(f)})
Found == [i \in 1..Cardinality(Seen) |-> CHOOSE f \in Seen : Place(f) = i]

\* A list of resources: the entries written to it, how many that were not lie behind them, and
\* whether a FLG_LAST has gone to what lies before it. Unwritten entries have the flags and
\* addresses that the memory held. A null pointer is the list without any.
List(entries, blank, before) == [entries |-> entries, blank |-> blank, before |-> before]

-----------------------------------------------------------------------------
Plugged(m) == bus = m.bus /\ nv = m.nv /\ stored = m.stored

PowerOn ==
  /\ pc = "preinit" /\ todo = <<>>
  /\ cur = [f |-> <<0, 0>>, r |-> 0, c |-> 0, cmd |-> {}, rsc |-> <<>>]
  /\ io = 0 /\ mem = 0
  /\ reg = [f \in Fcts |-> [r \in Regs |-> Zero]]
  /\ cmd = [f \in Fcts |-> {}]
  /\ vga = <<0, 0>> /\ vgaRsc = List(<<>>, 7, FALSE) /\ devices = <<>>
  /\ line = [f \in Fcts |-> 0]
  /\ believed = FALSE /\ language = 0
  /\ piix = <<0, 0, 0, 0>>

Init == PowerOn /\ \E m \in Machines : Plugged(m)

\* The head of init_BARs: all ones to every register.
StartBars(f) ==
  /\ reg' = [reg EXCEPT ![f] = [r \in Regs |-> IF KindOf(f, r).k = "none" THEN Zero ELSE Ones]]
  /\ cur' = [f |-> f, r |-> 0, c |-> 0, cmd |-> {}, rsc |-> <<>>]

\* preinit_pcibus up to init_BARs, with do_preinit for each function.
Preinit ==
  LET cards == {i \in DOMAIN Found : bus[Found[i]].vga} IN
    /\ pc = "preinit" /\ pc' = "vga_bars"
    /\ io' = 32768 /\ mem' = 2^29
    /\ vga' = IF cards = {} THEN vga ELSE Found[Min(cards)]
    /\ StartBars(vga')
    /\ UNCHANGED <<hardware, todo, cmd, vgaRsc, devices, line, settings, piix>>

(* The loop of init_BARs: r is the register that is written, c the answer that is used. *)

\* An upper half's all ones mean an I/O space of 4 bytes. At the ROM's register every answer is
\* one of memory, of 16 bytes at least; that for an I/O space of 4 looks like a 64-bit address.
Taken ==
  LET kind == KindOf(cur.f, cur.c) IN
    IF kind.k \notin {"upper", "io"} THEN kind
    ELSE IF cur.r = Rom
         THEN [k |-> IF kind.k = "io" /\ kind.size = 4 THEN "mem64" ELSE "mem",
               size |-> Max({16, kind.size})]
    ELSE IF kind.k = "io" THEN kind ELSE [k |-> "io", size |-> 4]

InLoop(k) == pc \in {"vga_bars", "bars"} /\ cur.r <= Rom /\ Taken.k = k

Skip(regs, bits) ==
  /\ cur' = [cur EXCEPT !.r = @ + regs, !.c = @ + 1, !.cmd = @ \cup bits]
  /\ UNCHANGED <<hardware, pc, todo, windows, tables, line, settings, piix>>

Unused == InLoop("none") /\ Skip(1, {})
Ignore64 == InLoop("mem64") /\ cur.r # 5 /\ Skip(2, {"mem"})
Ignore1M == InLoop("mem1m") /\ Skip(1, {"mem"})

\* The window goes into the register and into the list of resources.
Assign(val) ==
  /\ reg' = [reg EXCEPT ![cur.f][cur.r] = val]
  /\ cur' = [cur EXCEPT !.r = @ + 1, !.c = @ + 1, !.cmd = @ \cup {val.space},
                        !.rsc = Append(@, [reg |-> cur.r, space |-> val.space, last |-> FALSE,
                                           base |-> val.addr, size |-> Taken.size])]
  /\ UNCHANGED <<hardware, pc, todo, cmd, tables, line, settings, piix>>

MapIo ==
  LET base == ALIGN(io, Taken.size) IN
    /\ InLoop("io")
    /\ io' = ALIGN(base + Taken.size, 1024)
    /\ Assign(Io(base))
    /\ UNCHANGED mem

MapMem ==
  LET base == ALIGN(mem, Taken.size) IN
    /\ InLoop("mem")
    /\ mem' = base + Taken.size
    /\ Assign(Mem(base))
    /\ UNCHANGED io

\* Behind register 5 comes the ROM's only if none is skipped: else the loop goes on to the
\* subsystem's IDs, and gives the upper half's I/O space to them, which take no value.
Ids == 7
SkipToIds ==
  LET base == ALIGN(io, 4) IN
    /\ InLoop("mem64") /\ cur.r = 5
    /\ io' = ALIGN(base + 4, 1024)
    /\ cur' = [cur EXCEPT !.r = Rom, !.c = @ + 2, !.cmd = @ \cup {"io", "mem"},
                          !.rsc = Append(@, [reg |-> Ids, space |-> "io", last |-> FALSE,
                                             base |-> base, size |-> 4])]
    /\ UNCHANGED <<hardware, pc, todo, mem, reg, cmd, tables, line, settings, piix>>

\* Behind the loop; a function none of whose registers answered has been left before it, and
\* any list given for it as it was.
Answered == {r \in Regs : KindOf(cur.f, r).k # "none"}
Counted == Answered # {}

\* A slip: the flag goes to the entry behind the last one.
ResourcesOneMore(room) ==
  List([i \in DOMAIN cur.rsc |-> [cur.rsc[i] EXCEPT !.last = (i = Len(cur.rsc) + 1)]],
       room - Len(cur.rsc), Counted /\ cur.rsc = <<>>)

\* The list, which has room for so many: FLG_LAST goes to the entry before the next free one,
\* whether there is one or not (pci_init.c:262).
Resources(room) ==
  List([i \in DOMAIN cur.rsc |-> [cur.rsc[i] EXCEPT !.last = (i = Len(cur.rsc))]],
       room - Len(cur.rsc), Counted /\ cur.rsc = <<>>)

\* A slip: the next function's memory follows at once.
EndBarsSamePage(more) ==
  /\ cur.r > Rom
  /\ cmd' = [cmd EXCEPT ![cur.f] = @ \cup more
                                     \cup IF Counted THEN cur.cmd \cup {"master"} ELSE {}]
  /\ UNCHANGED <<hardware, io, mem, reg, cur, settings, piix>>

EndBars(more) ==
  /\ cur.r > Rom
  /\ cmd' = [cmd EXCEPT ![cur.f] = @ \cup more
                                     \cup IF Counted THEN cur.cmd \cup {"master"} ELSE {}]
  /\ mem' = IF Counted THEN ALIGN(mem, 8192) ELSE mem
  /\ UNCHANGED <<hardware, io, reg, cur, settings, piix>>

\* The end of preinit_pcibus: the VGA card answers in both spaces whatever it asked for.
VgaDone ==
  /\ pc = "vga_bars" /\ pc' = "nvram"
  /\ EndBars({"io", "mem", "master"})
  /\ vgaRsc' = Resources(7)
  /\ UNCHANGED <<todo, vga, devices, line>>

-----------------------------------------------------------------------------
NvramInit ==
  /\ pc = "nvram" /\ pc' = "config"
  /\ believed' = nvram_ok(nv)
  /\ language' = LanguageOf(nv, language)
  /\ todo' = Found
  /\ UNCHANGED <<hardware, cur, windows, tables, line, piix>>

-----------------------------------------------------------------------------
(* init_pcibus *)

\* The motherboard has slot 1 for itself; the others' lines are rotated.
interrupt_table == <<<<0, 0, 0, 0>>,
                     <<1, 2, 3, 4>>, <<4, 1, 2, 3>>, <<3, 4, 1, 2>>, <<2, 3, 4, 1>>>>
valid_int == {0, 4, 5, 7, 9, 10, 11, 12, 14, 15}

\* The end of do_config: which of INTA..INTD the function's pin is wired to, or 0.
EnterDevice(f, rsc) ==
  LET pin == bus[f].pin
      int == IF pin \in 1..4 THEN interrupt_table[f[1]][pin] ELSE 0
  IN /\ devices' = Append(devices, [f |-> f, resources |-> rsc, pci_interrupt |-> int,
                                    isa_interrupt |-> 0])
     /\ line' = [line EXCEPT ![f] = int]
     /\ todo' = Tail(todo)

\* do_config for the VGA card, whose seven entries are copied.
ConfigVga ==
  /\ pc = "config" /\ todo # <<>> /\ Head(todo) = vga
  /\ EnterDevice(vga, vgaRsc)
  /\ UNCHANGED <<hardware, pc, cur, windows, vga, vgaRsc, settings, piix>>

\* do_config for every other function.
Config ==
  /\ pc = "config" /\ todo # <<>> /\ Head(todo) # vga /\ ~bus[Head(todo)].vme
  /\ pc' = "bars"
  /\ StartBars(Head(todo))
  /\ UNCHANGED <<hardware, todo, io, mem, cmd, tables, line, settings, piix>>

\* The VME card comes with a wrong EEPROM. It answers at fixed addresses while its local
\* registers are set, without its ROM, and is switched off again before it is its turn.
VmeFixed == 2^24

ConfigVme ==
  LET fixed(r) == [space |-> bus[Head(todo)].kind[r].k, addr |-> VmeFixed]
  IN /\ pc = "config" /\ todo # <<>> /\ Head(todo) # vga /\ bus[Head(todo)].vme
     /\ pc' = "vme"
     /\ reg' = [reg EXCEPT ![Head(todo)] = [@ EXCEPT ![0] = fixed(0), ![1] = fixed(1),
                                                    ![Rom] = Zero]]
     /\ cmd' = [cmd EXCEPT ![Head(todo)] = {"io", "mem"}]
     /\ UNCHANGED <<hardware, todo, cur, io, mem, tables, line, settings, piix>>

VmeOff ==
  /\ pc = "vme" /\ pc' = "bars"
  /\ StartBars(Head(todo))
  /\ cmd' = [cmd EXCEPT ![Head(todo)] = {}]
  /\ UNCHANGED <<hardware, todo, io, mem, tables, line, settings, piix>>

ConfigDone ==
  /\ pc = "bars" /\ pc' = "config"
  /\ EndBars({})
  /\ EnterDevice(cur.f, Resources(Cardinality(Answered)))
  /\ UNCHANGED <<vga, vgaRsc>>

\* A slip: an interrupt that is not to be had is taken from the NVRAM.
FreeAnyInts ==
  LET byte(adr) == nvram_read(believed, nv, adr)
      ints == <<byte(49) % 16, byte(49) \div 16, byte(50) % 16, byte(50) \div 16>>
      until == CHOOSE n \in 1..4 : /\ \A i \in 2..n : ints[i] # 0
                                   /\ n = 4 \/ ints[n + 1] = 0
  IN IF ints[1] = 0 THEN <<9, 11>> ELSE SubSeq(ints, 1, until)

\* The ISA interrupts that the NVRAM leaves to PCI; without a usable choice 9 and 11.
free_isa_ints ==
  LET byte(adr) == nvram_read(believed, nv, adr)
      ints == <<byte(49) % 16, byte(49) \div 16, byte(50) % 16, byte(50) \div 16>>
      until == CHOOSE n \in 1..4 : /\ \A i \in 2..n : ints[i] # 0
                                   /\ n = 4 \/ ints[n + 1] = 0
  IN IF ints[1] = 0 \/ \E i \in 1..4 : ints[i] \notin valid_int
     THEN <<9, 11>> ELSE SubSeq(ints, 1, until)

LinesUsed == {devices[i].pci_interrupt : i \in DOMAIN devices} \ {0}

\* A slip: every line gets the first one.
RoutingFirst == [l \in 1..4 |-> IF l \in LinesUsed THEN free_isa_ints[1] ELSE 0]

\* The lines in use get them in turn.
Routing ==
  LET turn(l) == 1 + (Cardinality({k \in LinesUsed : k < l}) % Len(free_isa_ints))
  IN [l \in 1..4 |-> IF l \in LinesUsed THEN free_isa_ints[turn(l)] ELSE 0]

IsaOf(l) == IF l = 0 THEN 0 ELSE Routing[l]
PciLine(f) == devices[CHOOSE i \in DOMAIN devices : devices[i].f = f].pci_interrupt

\* The rest of init_pcibus: the bridge's routing, then every function's.
Route ==
  /\ pc = "config" /\ todo = <<>> /\ pc' = "done"
  /\ piix' = Routing
  /\ devices' = [i \in DOMAIN devices |->
                   [devices[i] EXCEPT !.isa_interrupt = IsaOf(devices[i].pci_interrupt)]]
  /\ line' = [f \in Fcts |-> IF \E i \in DOMAIN devices : devices[i].f = f
                             THEN IsaOf(PciLine(f)) ELSE line[f]]
  /\ UNCHANGED <<hardware, todo, cur, windows, vga, vgaRsc, settings>>

Next == \/ Preinit \/ VgaDone \/ NvramInit \/ ConfigVga \/ Config \/ ConfigVme \/ VmeOff
        \/ ConfigDone \/ Route
        \/ Unused \/ Ignore64 \/ Ignore1M \/ MapIo \/ MapMem \/ SkipToIds

Spec == Init /\ [][Next]_vars

-----------------------------------------------------------------------------
(* What makes it correct *)

Window == [reg : Regs \cup {Ids}, space : {"io", "mem"}, base : Nat, size : Nat]
Listed(w) == [reg |-> w.reg, space |-> w.space, base |-> w.base, size |-> w.size]

\* The variables hold what the code's do.
TypeOK ==
  /\ pc \in {"preinit", "vga_bars", "nvram", "config", "vme", "bars", "done"}
  /\ Range(todo) \subseteq DOMAIN bus
  /\ cur.f \in Fcts /\ cur.r \in 0..Rom + 2 /\ cur.c \in 0..Rom + 1 /\ cur.c <= cur.r
  /\ cur.cmd \subseteq {"io", "mem"}
  /\ \A i \in DOMAIN cur.rsc : Listed(cur.rsc[i]) \in Window
  /\ io \in Nat /\ mem \in Nat
  /\ \A f \in Fcts : /\ \A r \in Regs : reg[f][r].addr \in Nat
                     /\ cmd[f] \subseteq {"io", "mem", "master"}
                     /\ line[f] \in Byte
  /\ vga \in Fcts
  /\ \A i \in DOMAIN devices : /\ devices[i].f \in DOMAIN bus
                               /\ devices[i].pci_interrupt \in 0..4
                               /\ devices[i].isa_interrupt \in valid_int
  /\ believed \in BOOLEAN /\ language \in 0..1
  /\ piix \in [1..4 -> valid_int]

\* The registers that are mapped, but for a VGA ROM that the emulator has moved to its place in
\* a PC, and those through which a function answers at an address it has been given: the VME
\* card's own set-up, at addresses below all of these, comes before.
LegacyRom == 786432
Shadowed(f, r) == f = vga /\ r = Rom /\ reg[f][r] = Mem(LegacyRom)
Mapped(f) == {r \in Regs : bus[f].kind[r].k \in {"io", "mem"} /\ ~Shadowed(f, r)}
SetUp(f) == pc = "vme" /\ f = Head(todo)
Live == {w \in (DOMAIN bus) \X Regs : /\ w[2] \in Mapped(w[1]) /\ ~SetUp(w[1])
                                       /\ bus[w[1]].kind[w[2]].k \in cmd[w[1]]}

Overlap(v, w) == v.base < w.base + w.size /\ w.base < v.base + v.size
PagesOf(v) == LET first == v.base - (v.base % 8192)
              IN [base |-> first, size |-> ALIGN(v.base + v.size - first, 8192)]

\* No two registers that answer do so at the same address, none answers in the memory or below
\* the I/O space set aside for it, and different functions' memory never shares a page
\* (pci_init.c:266), so that one can be protected without the other. ISA cards see ten address
\* lines and live at $100..$3FF of them: an I/O window that they could mistake for their own
\* keeps clear of those (pci_init.c:205).
WindowsApart ==
  \A v, w \in Live :
    LET dv == Decodes(v[1], v[2])
        dw == Decodes(w[1], w[2])
    IN /\ dv.base >= IF dv.space = "io" THEN 32768 ELSE 2^29
       /\ dv.space = "io" /\ dv.size <= 256 => (dv.base % 1024) + dv.size <= 256
       /\ v # w /\ dv.space = dw.space => ~Overlap(dv, dw)
       /\ v[1] # w[1] /\ dv.space = "mem" /\ dw.space = "mem" =>
            ~Overlap(PagesOf(dv), PagesOf(dw))

\* The functions whose lists are faulty (pci_init.c:262, 330): with nothing to list a VGA card
\* has seven entries that were never written, and another function as many as it has registers
\* that ask for memory below 1 MB. A reader finds no end there, and in the second case, VGA
\* card or not, the end has been written before the list.
Windowless(f) == \A r \in Regs : bus[f].kind[r].k \notin {"io", "mem"}
Low(f) == \E r \in Regs : bus[f].kind[r].k = "mem1m"

\* A device's list of resources is what the drivers go by. It names exactly what the function
\* answers to - the VGA card's as well, which was set up earlier - and the VME card's third
\* entry, which init_vme_pmmu maps, is its memory. The end is at the last entry written and
\* nowhere else; only the functions above have a list without an end, or one ended before it
\* begins, and others with nothing to list have none. Cards with a 64-bit register are the
\* exception: see OthersAsAsked; and a VGA ROM is where the emulator left it, not where the
\* list has it.
ResourcesTell ==
  \A i \in DOMAIN devices :
    LET d == devices[i]
        regs == Mapped(d.f)
        list == d.resources
        Ended == \E j \in DOMAIN list.entries : list.entries[j].last
    IN (\A r \in Regs : bus[d.f].kind[r].k # "mem64") =>
       /\ {Listed(w) : w \in {v \in Range(list.entries) : ~Shadowed(d.f, v.reg)}} =
            {[reg |-> r, space |-> Decodes(d.f, r).space, base |-> Decodes(d.f, r).base,
              size |-> Decodes(d.f, r).size] : r \in regs}
       /\ \A j \in DOMAIN list.entries : list.entries[j].last <=> j = Len(list.entries)
       /\ ~Ended /\ list.blank > 0 <=> Windowless(d.f) /\ (d.f = vga \/ Low(d.f))
       /\ list.before <=> Windowless(d.f) /\ Low(d.f)
       /\ bus[d.f].vme => list.entries[3].reg = 2

\* Every function whose pin is wired has an interrupt the bridge routes that line to, drivers
\* find it in the configuration space and in the table, and lines share one only when the user
\* has named fewer than are in use or one of them twice.
InterruptsRouted ==
  pc = "done" =>
    \A i, j \in DOMAIN devices :
      LET d == devices[i]
          e == devices[j]
      IN /\ line[d.f] = d.isa_interrupt
         /\ d.pci_interrupt # 0 => d.isa_interrupt = piix[d.pci_interrupt]
                                   /\ d.isa_interrupt \in valid_int \ {0}
         /\ d.pci_interrupt = 0 => d.isa_interrupt = 0
         /\ d.isa_interrupt = e.isa_interrupt /\ d.pci_interrupt # e.pci_interrupt =>
              \/ Len(free_isa_ints) < Cardinality(LinesUsed)
              \/ ~IsInjective(free_isa_ints)

\* The settings are those that were stored, whatever one byte has become since, and a battery
\* that has died is noticed.
NvramIsSound == believed => nv = stored

\* A 64-bit register is ignored, with its upper half ("skip extra 4 bytes", pci_init.c:238):
\* the function's other registers get windows of the kind and size they asked for.
OthersAsAsked ==
  \A i \in DOMAIN devices : \A j \in DOMAIN devices[i].resources.entries :
    LET w == devices[i].resources.entries[j]
        kind == bus[devices[i].f].kind[w.reg]
    IN w.reg \in Regs /\ kind.k = w.space /\ kind.size = w.size
=============================================================================
