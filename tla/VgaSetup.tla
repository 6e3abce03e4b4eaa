----------------------------- MODULE VgaSetup ------------------------------
(***************************************************************************)
(* init_vgacard and initvga_textmode (initvga.c), which startup.s calls when *)
(* preinit_pcibus has mapped the VGA card and before the rest of PciInit: an   *)
(* S3 card is set up from tables, any other by its own BIOS, run by the         *)
(* emulator in vgaemu/. The BIOS is not modelled; it is what it writes through  *)
(* the emulator's PCI services.                                              *)
(*                                                                         *)
(* The card is as the code treats it: indexed registers, some of which take no  *)
(* value until others have been given theirs, and two clocks that do not always *)
(* start.                                                                    *)
(***************************************************************************)
EXTENDS PciInit

\* The registers of the VGA card's configuration space that are told apart. STATUS is the upper
\* half of COMMAND's, with the errors in the upper byte.
Command == 4
Status == 7
InterruptLine == 60
Own == 64

\* A BIOS writes one, two or four bytes of them, at an address that their number divides; in
\* the low byte of COMMAND only the bits that are modelled. (ll_io.s leaves seven bits of the
\* address.)
DwordOf(where) == (where % 128) - (where % 4)
IsCall(call) ==
  /\ call.where \in 0..127 /\ DwordOf(call.where) \in {Command, InterruptLine, Own}
  /\ \E n \in {1, 2, 4} : call.bytes \in [1..n -> Byte] /\ call.where % n = 0
  /\ call.where = Command => call.bytes[1] \in 0..7
ASSUME CardsAssumption ==
  \A m \in Machines : LET calls == Range(m.card.bios)
                       IN m.card.bios \in Seq(calls) /\ \A call \in calls : IsCall(call)

\* The card as its last user left it: its registers hold bytes, those that lock others among
\* them, and one that is asleep does not ask for memory accesses.
IsLeft(c) ==
  /\ c \in [s3 : BOOLEAN, awake : BOOLEAN, mmio : BOOLEAN, color : BOOLEAN, data : BOOLEAN,
            on : BOOLEAN, at : 0..31, seq : {c.seq}, crtc : {c.crtc}, gc : {c.gc},
            attr : {c.attr}, bios : {c.bios}]
  /\ \A r \in {c.seq, c.crtc, c.gc, c.attr} :
       r \in [DOMAIN r -> Byte] /\ DOMAIN r \subseteq Byte
  /\ 8 \in DOMAIN c.seq /\ {17, 56, 57} \subseteq DOMAIN c.crtc
  /\ c.mmio => c.awake
ASSUME LeftAssumption == \A m \in Machines : IsLeft(m.card)

VARIABLES
  stage,    \* how far init_vgacard and initvga_textmode are
  card,     \* the card: what it is, how it was left, the BIOS's writes still to come
  clocks,   \* which of its clocks run
  romOn,    \* its ROM answers
  status,   \* the errors in its STATUS
  own       \* four bytes of a configuration register of its own

setup == <<stage, card, clocks, romOn, status, own>>
allVars == <<vars, setup>>

HasVga == vga # <<0, 0>>
Clocks == {"mclk", "dclk"}

-----------------------------------------------------------------------------
(* The card's registers: a word holds a value and, in its low byte, an index. *)

Index(w) == w % 256
Value(w) == w \div 256

\* Nothing but the wake-up register answers in a card that is asleep, and little but the first
\* sequencer registers in one that wants its registers accessed in memory.
Awake(c) == c.awake /\ ~c.mmio

Store(registers, i, v) ==
  [j \in DOMAIN registers \cup {i} |-> IF j = i THEN v ELSE registers[j]]

\* Sequencer registers from 9 on take a value only once register 8 holds 6.
SeqTakes(c, i) == c.awake /\ (c.mmio => i \in {8, 9}) /\ (i >= 9 => c.seq[8] = 6)
SeqWrite(c, w) ==
  LET i == Index(w)
      new == [c EXCEPT !.seq = Store(@, i, Value(w))]
  IN IF ~SeqTakes(c, i) THEN c
     ELSE IF i = 9 THEN [new EXCEPT !.mmio = Value(w) >= 128] ELSE new

\* CRT registers 0 to 7 are locked by register 11, the extended ones by registers 38 and 39
\* (hexadecimal); there are two addresses for them, of which a card answers to one.
CrtcTakes(c, i) ==
  /\ i <= 7 => c.crtc[17] < 128
  /\ i \in 45..63 \ {56, 57} => c.crtc[56] = 72
  /\ i >= 64 => c.crtc[57] = 165
CrtcWrite(c, color, w) ==
  IF Awake(c) /\ c.color = color /\ CrtcTakes(c, Index(w))
  THEN [c EXCEPT !.crtc = Store(@, Index(w), Value(w))] ELSE c

GcWrite(c, w) == IF Awake(c) THEN [c EXCEPT !.gc = Store(@, Index(w), Value(w))] ELSE c

\* The attribute controller takes an index and a value in turn at the same address, the first
\* sixteen only while the index has switched the screen off.
AttrWrite(c, v) ==
  IF ~Awake(c) THEN c
  ELSE IF ~c.data THEN [c EXCEPT !.data = TRUE, !.at = v % 32, !.on = v >= 32]
  ELSE IF c.at < 16 /\ c.on THEN [c EXCEPT !.data = FALSE]
  ELSE [c EXCEPT !.data = FALSE, !.attr = Store(@, c.at, v)]

\* One entry of a table, at the address of its registers; the attribute controller's is an
\* index and a value.
AtPort(ioaddr, c, w) ==
  CASE ioaddr = \h3C4 -> SeqWrite(c, w)
    [] ioaddr = \h3B4 -> CrtcWrite(c, FALSE, w)
    [] ioaddr = \h3D4 -> CrtcWrite(c, TRUE, w)
    [] ioaddr = \h3CE -> GcWrite(c, w)
    [] ioaddr = \h3C0 -> AttrWrite(AttrWrite(c, Index(w)), Value(w))

\* A card that is asleep takes none.
Write(ioaddr, c, w) == IF c.awake THEN AtPort(ioaddr, c, w) ELSE c

\* The card after each entry of a table.
After(ioaddr, c, table) ==
  LET after[n \in 0..Len(table)] ==
        IF n = 0 THEN c ELSE Write(ioaddr, after[n - 1], table[n])
  IN after

\* write_vga_table, and the same loop over the attributes' table.
write_vga_table(ioaddr, c, table) == After(ioaddr, c, table)[Len(table)]
SeqTable(c, table) == write_vga_table(\h3C4, c, table)
CrtcTable(c, table) == write_vga_table(\h3D4, c, table)
GcTable(c, table) == write_vga_table(\h3CE, c, table)

s3_seq_tab == <<\h0300, \h0001, \h0302, \h0003, \h0204, \h0608, \h0009, \h800A, \h000B, \h000D,
                \h0014, \h0215, \h0018>>
s3_crtc_tab ==
  <<\h0E11, \h5F00, \h4F01, \h5002, \h8203, \h5504, \h8105, \hBF06, \h1F07, \h0008, \h4F09,
    \h0D0A, \h0E0B, \h000C, \h000D, \h050E, \h000F, \h9C10, \h8E11, \h8F12, \h2813, \h1F14,
    \h9615, \hB916, \hA317, \hFF18, \h4838, \hA539, \h0531, \h4032, \h0033, \h0034, \h0035,
    \h8236, \h0A37, \h013A, \h5A3B, \h103C, \h2040, \hD142, \h4043, \h4045, \h0050, \h0051,
    \h0053, \h3854, \h0055, \h0056, \h0057, \h0358, \h035C, \h005D, \h005E, \h005F, \h0F60,
    \h0F61, \h0F62, \h0063, \h0064, \h0465, \h8866, \h0067, \hFF68, \hE069, \hC06A, \h5D6D>>
s3_gc_tab == <<\h0400, \h0001, \h0002, \h0003, \h0004, \h1005, \h0E06, \h0007, \hFF08>>
textmode_attrib_tab ==
  [i \in 1..16 |-> (i - 1) * 257] \o <<\h0C10, \h0011, \h0F12, \h0813, \h0014>>

-----------------------------------------------------------------------------
(* vgaemu/pci.c: the VGA card's configuration space, four bytes at a time *)

Code(bits) == (IF "io" \in bits THEN 1 ELSE 0) + (IF "mem" \in bits THEN 2 ELSE 0)
                + (IF "master" \in bits THEN 4 ELSE 0)

\* Two of the errors STATUS has bits for; such a bit stays until it is written as one.
Errors == {"abort", "parity"}
ErrorCode(errors) == (IF "abort" \in errors THEN 32 ELSE 0)
                       + (IF "parity" \in errors THEN 128 ELSE 0)
ErrorsIn(byte) == {e \in Errors : (byte \div ErrorCode({e})) % 2 = 1}

\* pci_read_config, of COMMAND and STATUS, the interrupt's register and one of the card's own.
Dword(d) ==
  CASE d = Command -> <<Code(cmd[vga]), 0, 0, ErrorCode(status)>>
    [] d = InterruptLine -> <<line[vga], bus[vga].pin, 0, 0>>
    [] d = Own -> own

\* pci_write_config.
PutDword(d, bytes) ==
  /\ cmd' = IF d = Command
            THEN [cmd EXCEPT ![vga] = CHOOSE s \in SUBSET {"io", "mem", "master"} :
                                        Code(s) = bytes[1] % 8]
            ELSE cmd
  /\ status' = IF d = Command THEN status \ ErrorsIn(bytes[4]) ELSE status
  /\ line' = IF d = InterruptLine THEN [line EXCEPT ![vga] = bytes[1]] ELSE line
  /\ own' = IF d = Own THEN bytes ELSE own

WriteByte(where, b) ==
  PutDword(DwordOf(where), [Dword(DwordOf(where)) EXCEPT ![(where % 4) + 1] = b])

\* A slip: the halves of the four bytes are taken for each other.
WriteWordSwapped(where, w) ==
  LET o == 2 - 2 * ((where % 4) \div 2)
  IN PutDword(DwordOf(where), [Dword(DwordOf(where)) EXCEPT ![o + 1] = w[1], ![o + 2] = w[2]])

WriteWord(where, w) ==
  LET o == 2 * ((where % 4) \div 2)
  IN PutDword(DwordOf(where), [Dword(DwordOf(where)) EXCEPT ![o + 1] = w[1], ![o + 2] = w[2]])

WriteDword(where, bytes) == PutDword(DwordOf(where), bytes)

-----------------------------------------------------------------------------
SetupInit ==
  /\ PowerOn
  /\ \E m \in Machines : Plugged(m) /\ card = m.card
  /\ stage = "off" /\ clocks = {} /\ romOn = FALSE /\ status = {}
  /\ own = <<0, 0, 0, 0>>

At(here, there) ==
  /\ pc = "nvram" /\ stage = here /\ stage' = there
  /\ UNCHANGED <<hardware, pc, todo, cur, io, mem, tables, settings, piix>>
Registers == <<reg, cmd, line, romOn, status, own>>

(* init_s3_vga *)

WakeUp ==
  LET here == SeqTable(card, <<\h0608, \h0009>>)
      up == [here EXCEPT !.awake = TRUE]
  IN /\ At("off", "clocks")
     /\ HasVga /\ card.s3
     /\ card' = SeqTable(write_vga_table(\h3B4, up, <<\h4838, \hA539>>), <<\h0608>>)
     /\ UNCHANGED <<Registers, clocks>>

\* The clocks are stopped, and some of them start again.
PowerClocks ==
  /\ At("clocks", "test")
  /\ clocks' \in SUBSET Clocks
  /\ card' = SeqTable(card, <<\h0314, \h0014>>)
  /\ UNCHANGED Registers

\* The counter of one clock is read twice, and if it has moved that of the other. While a clock
\* runs the two readings may be the same by chance, while it stands they are.
TestClocks ==
  /\ \E seen \in SUBSET clocks :
       /\ At("test", IF seen = Clocks THEN "tables" ELSE "clocks")
       /\ card' = SeqTable(card, IF "mclk" \in seen THEN <<\h1C14, \h0C14, \h1414, \h0414>>
                                                   ELSE <<\h1C14, \h0C14>>)
  /\ UNCHANGED <<Registers, clocks>>

\* A slip: the card is made to answer at the colour addresses after its tables.
WriteTablesMono ==
  /\ At("tables", "text")
  /\ \E seq \in {SeqTable(card, s3_seq_tab)} : \E crtc \in {CrtcTable(seq, s3_crtc_tab)} :
       card' = [GcTable(crtc, s3_gc_tab) EXCEPT !.color = TRUE]
  /\ UNCHANGED <<Registers, clocks>>

WriteTables ==
  LET colored == [card EXCEPT !.color = TRUE]
  IN /\ At("tables", "text")
     /\ \E seq \in {SeqTable(colored, s3_seq_tab)} :
          \E crtc \in {CrtcTable(seq, s3_crtc_tab)} : card' = GcTable(crtc, s3_gc_tab)
     /\ UNCHANGED <<Registers, clocks>>

(* vgaemu_init *)

\* Without a card sys_init gives up.
NoCard ==
  /\ At("off", "text")
  /\ ~HasVga
  /\ UNCHANGED <<Registers, card, clocks>>

\* sys_init: the ROM answers where a PC has it, while its contents are copied.
EnableVgaRom ==
  /\ At("off", "copy")
  /\ HasVga /\ ~card.s3
  /\ WriteByte(Command, 3)
  /\ reg' = IF bus[vga].kind[Rom].k = "none" THEN reg
            ELSE [reg EXCEPT ![vga][Rom] = Mem(LegacyRom)]
  /\ romOn' = (bus[vga].kind[Rom].k # "none")
  /\ UNCHANGED <<card, clocks>>

\* What there is in STATUS by then, of the copying or from before, is anyone's guess.
DisableVgaRom ==
  /\ At("copy", "bios")
  /\ romOn' = FALSE
  /\ status' \in SUBSET Errors
  /\ UNCHANGED <<reg, cmd, line, own, card, clocks>>

\* int1a: one of the writes to the configuration space, of one, two or four bytes.
Service ==
  /\ At("bios", "bios")
  /\ card.bios # <<>>
  /\ LET call == Head(card.bios) IN
       CASE Len(call.bytes) = 1 -> WriteByte(call.where, call.bytes[1])
         [] Len(call.bytes) = 2 -> WriteWord(call.where, call.bytes)
         [] Len(call.bytes) = 4 -> WriteDword(call.where, call.bytes)
  /\ card' = [card EXCEPT !.bios = Tail(@)]
  /\ UNCHANGED <<reg, romOn, clocks>>

\* The BIOS has set up a text mode of its own.
BiosEnds ==
  /\ At("bios", "text")
  /\ card.bios = <<>>
  /\ card' = [card EXCEPT !.awake = TRUE, !.mmio = FALSE, !.color = TRUE]
  /\ clocks' = Clocks
  /\ UNCHANGED Registers

(* initvga_textmode *)

\* The attribute controller expects an index once this port has been read.
Read3DA(c) == IF Awake(c) /\ c.color THEN [c EXCEPT !.data = FALSE] ELSE c

Attributes(c) == AttrWrite(write_vga_table(\h3C0, c, textmode_attrib_tab), 32)

\* init_vga_font: the font's plane is made accessible, and the screen's again.
InitVgaFont(c) ==
  LET to == GcTable(SeqTable(c, <<\h0402, \h0604>>), <<\h2004, \h0005, \h0406>>)
  IN GcTable(SeqTable(to, <<\h0302, \h0204>>), <<\h0004, \h1005, \h0E06>>)

TextMode ==
  /\ At("text", "ready")
  /\ card' = InitVgaFont(Attributes(Read3DA(card)))
  /\ UNCHANGED <<Registers, clocks>>

SetupStep == \/ WakeUp \/ PowerClocks \/ TestClocks \/ WriteTables
             \/ NoCard \/ EnableVgaRom \/ DisableVgaRom \/ Service \/ BiosEnds
             \/ TextMode
PciStep == /\ pc = "nvram" => stage = "ready"
           /\ Next
           /\ UNCHANGED setup
SetupNext == SetupStep \/ PciStep

SetupSpec == SetupInit /\ [][SetupNext]_allVars

-----------------------------------------------------------------------------
(* What makes it correct *)

\* The variables hold what the code's and the card's do.
SetupTypeOK ==
  /\ TypeOK
  /\ stage \in {"off", "clocks", "test", "tables", "copy", "bios", "text", "ready"}
  /\ clocks \subseteq Clocks
  /\ romOn \in BOOLEAN
  /\ status \subseteq Errors
  /\ own \in [1..4 -> 0..255]
  /\ UNION {Range(r) : r \in {card.seq, card.crtc, card.gc, card.attr}} \subseteq 0..255
  /\ stage = "clocks" \/ stage = "test" \/ stage = "tables" => card.s3 /\ HasVga

\* The last value a table has for each of its registers.
Holds(regs, tab) ==
  \A k \in DOMAIN tab :
    (\A l \in k + 1..Len(tab) : Index(tab[l]) # Index(tab[k])) =>
      /\ Index(tab[k]) \in DOMAIN regs
      /\ regs[Index(tab[k])] = Value(tab[k])

\* Whatever locks, addresses and modes the card was left in, in the end no write has been lost:
\* an S3 card's clocks run and its registers hold what the tables have for them, also those
\* that loading the font has changed in between, any card has its attributes and shows the
\* screen, and none is left answering with its ROM.
CardIsSetUp ==
  stage = "ready" /\ HasVga =>
    /\ Holds(card.attr, textmode_attrib_tab) /\ card.on
    /\ clocks = Clocks /\ ~romOn
    /\ card.s3 => /\ Holds(card.seq, s3_seq_tab)
                  /\ Holds(card.crtc, s3_crtc_tab)
                  /\ Holds(card.gc, s3_gc_tab)

\* The bytes of the VGA card's configuration space that keep what is written to them.
ByteAt(a) == Dword(a - (a % 4))[(a % 4) + 1]
Writable == {Command, InterruptLine} \cup Own..Own + 3

\* Once a function answers, its windows stay where they are: the VGA BIOS has been started
\* between the two passes of the PCI setup and relies on the first one's. Only the VGA card's
\* ROM is moved, and the VME card's registers leave the addresses of its own set-up.
\* And what the BIOS writes of one or two bytes, though done by reading and writing four
\* (vgaemu/pci.c:100), changes those bytes and of the others none that keeps its value. It does
\* not spare the errors in STATUS: a write to another byte of its four clears them all, for
\* they are put back as they were read, and one to their own those it has ones for.
ConfigKept ==
  [][/\ \A f \in Fcts, r \in Regs :
          cmd[f] # {} /\ reg'[f][r] # reg[f][r] =>
            \/ f = vga /\ r = Rom /\ stage = "off"
            \/ SetUp(f)
     /\ stage = "bios" /\ card.bios # <<>> =>
          LET call == Head(card.bios)
              Nth(a) == a - call.where + 1
          IN /\ \A a \in Writable :
                  ByteAt(a)' = IF Nth(a) \in DOMAIN call.bytes THEN call.bytes[Nth(a)]
                                                              ELSE ByteAt(a)
             /\ status' = IF Nth(Status) \in DOMAIN call.bytes
                          THEN status \ ErrorsIn(call.bytes[Nth(Status)])
                          ELSE IF Command \in call.where - 3..call.where THEN {} ELSE status
     ]_allVars
=============================================================================
