# Verification of the Milan boot block

The Milan is a 68040/68060 computer with PCI that runs TOS. The program in `src/` is its
boot block: 64 KB of 68000 assembler and PureC that detect and test the memory, build the
page tables, set up PCI, VGA and the keyboard, fetch a TOS image from ROM or floppy, unpack
it and start it. This directory holds TLA+ models of it, the TLC configurations that check
them and proofs for TLAPS.

## 1. The system: inventory

| Component | Sources | State | Operations | Talks to |
|---|---|---|---|---|
| Start, memory detection and test | `startup.s` 68-454, `memtest.s`, `pmmu.c` SetPMMUTables | bank types (`D5`, `MemorySchatten`, SetPMMUTables's `schatten`), `warmstart_magic`, checksum over $700..$77F, all RAM | reset, warm check, Mem_Loop, MemChk2, fill and 1 MB test, do_memtest, error_beep | keyboard (CheckKeys during the test), page tables, NVRAM (fast flag) |
| Page tables, boot allocator | `pmmu.c` | `log_phystop`, root/pointer/page tables, `LogAdr`/`PhysAdr` | kmalloc, kmalloc7/9/Page, Get*TablePointer, SetPMMUTables, Init_PMMU, Lock_TOS, init_vme_pmmu | PCI (kmalloc), boot loop (LockTOS) |
| Main boot loop | `startup.s` 618-673 | `DiskLoad`, `PauseFlag`, `fast_memtest`, `D0`, jumpers | no_mon, polling, pause, choice, the two unpack sequences | everything below |
| TOS loader | `tos.s` | load buffer $F00000, TOS area $E00000, `curr_err`, PCI window, motor | load_tos, CopyRomTOS, run_tos, LockTOS | floppy, PLX bridge, page tables |
| Package format and inflate | `package.c`, `package.h`, `inflate.c`, `crc32.c` | zip heap at $F80000, 32 KB window, bit buffer, output pointer, CRC | unpack_tos, zipmalloc, huft_build, inflate_*, flush_window | TOS area, load buffer |
| Floppy driver, FAT reader | `floppy.s` | controller phase, motor, track, `curr_err`, BPB fields | Flopinit, Do_Command (byte by byte; seeks are implied), Floprd, getbpb, readabs, Fsfirst, readfile | floppy controller, by its status register |
| Keyboard driver | `keyboard.s` | `last_byte`, `resend_cnt`, `Keyboard_OK` | InitKey, InitKey2, GetKey, kb_dobyte, the waits | keyboard controller, keyboard, CheckKeys |
| PCI | `pci_init.c`, `ll_io.s` | device table, `cur_io_base`, `cur_mem_base`, interrupt map | enum_devs, do_preinit, init_BARs, do_config, init_pcibus | kmalloc, NVRAM, VGA |
| NVRAM, serial number | `nvram.c`, `misc.c` | 240 bytes, their sum and its complement, `nvram_ok`, `language` | nvram_init, nvram_read | clock chip |
| Text output, VGA | `vgaprint.c`, `initvga.c`, `fontinit.s`, `messages.c` | cursor, attribute, screen; the registers of the card | init_vgacard, init_s3_vga, initvga_textmode, init_vga_font, vgaputc | emulator, PCI |
| x86 emulator | `vgaemu/` | x86 registers, flags, copies of BIOS and low memory | sys_init, x86_exec, decode, ALU, PCI BIOS calls | PCI, VGA BIOS |
| Monitor | `monitor.c`, `monitor2.s` | line buffer | dump, change, go | user |
| Bus, clock, build tools | `isabus.s`, `cpuspeed.s`, `convert.c`, ... | none that lasts | register writes | hardware |

The machine has one processor and, until TOS runs, no interrupts. What makes the boot block
hard is therefore not threads. It is the *user* (keys during the memory test and the
polling, floppies exchanged, reset and power at any moment), the *hardware* (SIMMs of any
kind, faults, controllers that answer late or never, read errors), RAM that *survives* a
reset and is believed or not, values that pass through *registers and calls written in two
languages*, and arithmetic on addresses with *holes and boundaries*. There are no tests in
the repository; what it says of itself are comments, `memory.txt` and `changes.txt`.

### What makes each component correct

* **Memory**: what is mapped exists, exists once, and has been tested since the power came
  on, through any sequence of resets; everything below 16 MB is one sound piece.
* **Page tables**: no physical page at two logical ones, the TOS area nowhere writable once
  locked, no table overlaps another or stays cached.
* **Boot loop**: the source that was asked for is fetched; nothing half read is unpacked;
  nothing is started with a device half switched; it comes up once a good disk is there,
  unless a disk before it has trapped the processor.
* **Floppy**: a load that reports success has the file's sectors in their order, one that
  fails says so, and none hangs while there is a disk.
* **Keyboard**: `Keyboard_OK` tells the truth; keys come out whole and in order; the
  initialisation ends whatever the keyboard does.
* **PCI**: windows do not overlap, share no page between devices and stay where drivers and
  the VGA BIOS have been told; every interrupt pin in use has a line.
* **NVRAM**: settings are believed only if they are the ones that were stored.
* **Unpacking**: what is declared unpacked is what was packed; a good file is never refused;
  the packages behind it follow whole.
* **VGA setup**: the card shows text whatever state it was left in.
* **Text output**: the cursor stays on the screen, whatever is printed.
* **Emulator**: registers, flags and memory change as the instruction set defines.

## 2. The plan

In the order of writing:

1. `Keys`, `BootFlow`, `BootPromise`, `BootFlowProofs` - the main loop (done, proved).
2. `Banks`, `Memory`, `MemoryProofs` - detection, test, warm start (done, proved).
3. `PageTables`, `PageTablesProofs` (done, proved).
4. `Nvram`, `PciInit` (done), composed with `VgaSetup`, which runs between the two passes of
   the PCI setup; `VgaSetupProofs` about all three: windows and lists of resources, settings,
   interrupts, what the BIOS may touch, the registers of the card (done, proved).
5. `FloppyRead` against a controller and a disk, `FloppyReadProofs`; `Keyboard` against a
   controller and a keyboard, `KeyboardProofs` (done, all safety properties proved).
6. `Entries`, `Crc32`, `Huft`, `Inflate`, `Unpack` - from the bits of a file to the TOS area;
   `UnpackProofs` (done; types, the checksum and the packages behind the TOS proved, what the
   codes stand for model-checked).
7. `TextScreen` - the cursor (done, proved).

The instructions of the x86 emulator are left out for the reasons in section 7.

How the modules hang together: BootFlow takes load_tos and unpack_tos as single steps with
the outcomes the code can leave; FloppyRead and Unpack are these routines. `LoadOutcome` is
where FloppyRead says which disks load, and corresponds to `FloppyOutcome` in BootFlow;
`UnpackedIsOriginal` and `GoodUnpacks` are what BootFlow's images rely on. Keyboard delivers
the keys that `Keys` turns into flags. Memory and PageTables share `Banks`. VgaSetup EXTENDS
PciInit and takes its steps (`PciStep`) in turn with its own.

## 3. The modules

### Keys
`CheckKeys` (pmmu.c) reduced to its effect on `DiskLoad`, `fast_memtest` and `PauseFlag`.
F9 falls through to ESC in the source, so it also sets `fast_memtest`.

### BootFlow
One control location per label between `no_mon` and the jump into TOS. `pc` is the label,
`via` the unpack sequence it is in. `d0` is carried explicitly because unpack_tos's argument
and result pass through it while `dcache_on`/`dcache_off` load it with the CACR. An image is
abstracted to what the decisions see (raw, package or junk; newer than CompInd; what its
stream unpacks to; whether it begins with $602e). The load buffer and the TOS area carry
whether they are complete, from which source, and `fresh`: written since the last start,
which a reset clears, since RAM survives it. `TakeKey` is one key, `PollIdle` the end of
one CheckKeys with the 10 ms wait. `FloppyOutcome` is a floppy routine's effect on
`curr_err`: what the disk holds decides, or one of `MaxErrors` read errors. `GetBpb` has a
third outcome: a boot sector with 0 sectors per track or 0 sides divides by zero
(floppy.s:354), the exception has no handler, and control never returns to no_mon (`trap`).
A reset is the only way out, so that `GoodDiskBoots` promises nothing to a good disk that is
put in while the machine hangs there.

### BootPromise
The same without registers and buffers: init, ask, fetch, check, live; which source is
wanted, and that the image in hand came from there. `KeepsPromise` is the refinement.

### Memory
A bank is a 64 MB window; the SIMM in it decodes some address lines above 4 MB and mirrors
the rest, as the table in `memory.txt` draws it. `Patterns` are the six writes of Mem_Loop in
its order, and `BankType` reads back what the last of them left at the start. `TestBlock` is
do_memtest on one 4 MB block; a fast test (ESC, F9, NVRAM) sees only the first 16 bytes of
each MB (`head` faults, not `body` faults). `magic` and `sum` are the two conditions of a warm
start, stored one after the other. `passed` and `ran` are history variables.

`Banks` holds `fill_tab`, which Memory and PageTables share: the blocks that Memory finds
and tests are the ones that PageTables maps.

### PageTables
Init_PMMU after the memory test, as one straight run through the code with all its sizes at
their real values: pages of 8 KB, 32 to a page table (a chunk), 128 chunks to a pointer
table, TOS at $E00000, the ROM port at $FA0000. `WriteInto` is GetPageTablePointer with its
up to three allocations and the writing of entries that always follows it; every action up
to the PCI setup is one call of it. `MapChunk` is one turn of the mapping loop, with the
jump over the ROM port in the middle of a chunk (`PageOf`), the step of the logical address
to 16 MB and that of the physical one over the TOS. An entry is the page it leads to and
what it grants (`Mode`); an indirect entry holds the other's address in bytes, as in the
code, and `Target` looks up what is there. kmalloc's callers in the PCI setup are one action
with any of a set of sizes. At pmmu.c:388 a comment puts the writable ROM port at $FE0000;
the code maps it at $FD0000, and so does `MapEmu` (`MapEmuAtFE` shows that the comment's
address would collide with the Atari I/O alias).

### Nvram
A content is the byte that fills the cells of no interest, and the cells of interest: the
language, the two with the interrupts, the last one summed, and the two that guard the sum.
`nvram_ok` is nvram_init's decision, `nvram_read` the defaults it falls back to. The comment
at nvram.c:49-54 has the first of a byte's two interrupts in the upper half, pci_init.c:425-430
reads it from the lower one; the model follows the code.

### PciInit
preinit_pcibus, nvram_init and init_pcibus. A function is a slot and a number; what one of
its base address registers is (its *kind*) is what it answers to all ones. init_BARs takes one
register per step (`Unused`, `Ignore64`, `Ignore1M`, `MapIo`, `MapMem`), with `cur` its
locals: `reg` and `cur_base` advance separately, as in the code. Once they differ, a register
is written for another's answer: at the ROM's register an I/O space's answer is taken for
memory (`Taken`), and a 64-bit answer at the last base address takes the loop to the
subsystem's IDs before it comes to the ROM's register (`SkipToIds`). `Found` is the order in
which enum_devs visits the functions: by slot and number. `Config`, `ConfigVga` and `ConfigVme`
are do_config for one function; the VME card answers at fixed addresses (`VmeFixed`) while its
local registers are set, and `VmeOff` switches it off again before it is given its windows.

A list of resources (`List`) is the entries that were written, how many unwritten ones lie
behind them (`blank`), and whether FLG_LAST has gone to what lies before it (`before`).
`Resources` is init_BARs' `(--rsc)->flags |= FLG_LAST` (pci_init.c:262), which is right unless
nothing was written: then the flag goes below the list - for a list from kmalloc into memory
that is still free, for VGA_resources into the variable before it. A function none of whose
registers answers is left without a list; for the VGA card do_config copies the seven unwritten
entries of VGA_resources all the same (pci_init.c:330). `ResourcesTell` says which functions
that happens to (`Windowless`, `Low`), and that all other lists are ended where they should be.

`Route` is the rest of init_pcibus in one step, since nothing else runs then. Without a VGA card
the code addresses device 0, which answers all ones. `MachinesAssumption` is what the PCI
standard says of every card, and what init_vme_pmmu takes for granted of the VME card: that
its third entry is its memory.

### VgaSetup
What runs between the passes: init_vgacard, for an S3 card init_s3_vga with the code's own
tables, for any other sys_init, the PCI BIOS's writes (`Service`, for any program of one, two
and four byte writes) and `BiosEnds`; then initvga_textmode with init_vga_font. write_vga_table
goes through a table's entries (`After`), each of them one `Write` to a port of the
card, which is external: indexed registers that take no value while the card sleeps, wants
its registers in memory, or has them locked. Only the locks that the code names are there:
CR11, CR38/39, SR8, port 3C3, and SR9 for memory access. `IsLeft` says in what states the
card may be found: any, but for one that sleeps and asks for memory accesses, since the code
turns these off only behind the wake-up. The clocks may fail to start at each attempt of the
loop at initvga.c:268, and a running one may read the same twice.

A byte or word is written by reading and writing four bytes (vgaemu/pci.c:100-169). Those of
COMMAND hold STATUS, too, whose errors are cleared by writing them as ones: `PutDword` clears
what `Dword` has put back. `ConfigKept` says so: no other byte changes, but the errors in STATUS
go with any write beside them. Two of the six errors are told apart (`Errors`), and which are
set when the BIOS begins is left open.

Seen in passing, and outside what the properties say: EnableVgaRom writes 3 to the command
register and so clears the bus-master bit that preinit_pcibus has set; it leaves the ROM's
register at $C0000 while `VGA_resources` names the address of the first pass (`Shadowed`
excepts it from ResourcesTell); addresses
from 128 on alias to 0..127 (ll_io.s masks them with $7C); pcibios_find_class and _device
return 1 when they have found one, which int1a takes for the opposite.

### FloppyRead
load_tos, Flopinit, Do_Command, Floprd, getbpb, readabs, Fsfirst and readfile. `pc` is the
label in Do_Command's wait loop; each action there is one look at the controller's main status
register and the byte it leads to. `at` is which of its callers waits. The 512 bytes of a
sector pass in one step, and so do the four position bytes at the end of a result. The
controller is external, after the 82077 that the code's command bytes belong to: a read is
ended by the last sector of a track (nothing drives TC) and then reports "end of cylinder",
SENSE_INT while the drive steps is an invalid command, and without a disk a read waits.
`Word` arithmetic is 16 bits, and division by zero traps (floppy.s:354).

The driver does not follow the FAT: files are read as if contiguous, with one reserved sector
and two FATs assumed, the first 16 root entries searched, and no attributes looked at. Which
disks it is made for is `Regular`: these assumptions, one entry of the name, and a chain that
runs on without gaps from the cluster of the entry to the end of the file. `FileLoaded` and
`LoadOutcome` speak of them. The driver does not notice a change of the disk within a load,
nor a file larger than the load buffer.

### Keyboard
InitKey, InitKey2, GetKey, kb_dobyte, beside the controller and the keyboard, which are
external and run at once. A wait for the controller's input buffer is the guard of the write
behind it; a wait with a time-out ends when nothing is to come or, `MaxLate` times, too
early. `last_byte` and `resend_cnt` are the code's. `calm` leaves out of two properties the
runs in which an answer came after its time-out or a key was typed before GetKey was polled:
then an answer is taken for another byte's, and the code has no means to tell. At
keyboard.s:123 a comment says "Interface aktivieren" where the command sent is the one that
disables it; GetKey enables it later, so nothing comes of it. Scan codes E1 (the Pause key)
are not modelled, and no key has the code 60, whose break code would be E0 (and which the
scan code set leaves free for that reason).

### Entries, Crc32, Huft, Inflate, Unpack
A file is a sequence of bits. An entry of a table (struct huft) is in `Entries`. Inflate takes
huft_build, the lookup and the checksum as operators (`build`, `decode`, `checksum`), for
which the run's configuration gives those of Huft and Crc32: they recurse, and what is proved
of Inflate and Unpack holds whatever they compute, or under a hypothesis about them.

`Huft` is huft_build with its tables linked by address: `Turn` is one round of its loops (a
table begun, `Link`ed, and codes `Deal`t out), a table is an array of entries, and a code longer
than the first table's bits leads through a link. inflate.c:320 takes a code for unused if its
place is behind all symbols, those without a code included: what a lone code of one bit leaves
over is then made of memory nobody has written (`unwritten` in `InOrder`, an entry `Garbage`).
`Inflate` is inflate() with the bit buffer as a position in the file, the window of `WSIZE`
bytes, `CopyPiece` for one turn of the copying loop with its three limits, the heap as the
number of bytes used, and flush_window with its CRC (`Crc32`, the real polynomial). `Unpack`
is unpack_tos with its header checks, the stored format, and the copying of further packages.
`BuffersAssumption` says what a file is: one package behind the other, each at a multiple of
16 (`IsChain`), and bits and bytes of any value, which may well be nonsense (`IsInput`).
Packages that an earlier, longer file has left behind this one are outside it: the code would
copy them, too.
`lbits`, `dbits`, the length and distance tables are the code's; `WSIZE`, the heap, the ROM
and the unsigned word are scaled.

`flip` is one bit of the file that is read wrongly. `wild` is what is found where no entry has
been written: in a table that does not exist, which is read at address 0, or through a garbage
entry, which inflate_codes follows as if it were a link; a run has one such value, any that an
entry can hold. `PackageError` and `NextPackage` wrap as ULONGs do (package.c:78, 113);
`TosBase` is where the latter counts from. Not modelled of garbage: a pointer that raises a bus
error or leads round in circles, and bit counts beyond what the bit buffer holds. The runs'
files have no code that is garbage for ever without output.

Seen in passing: a stored package (COMPR_NONE) is not checked against its CRC; what comes out
while inflating is not bounded by `orig_len` (that is compared afterwards); an alphabet of
zero lengths makes huft_build return 0 and no table, where its comment at inflate.c:155 says
2; the heap lies at the end of the load buffer's 512 KB, and no larger file is modelled.

### TextScreen
vgaputc byte by byte on the real screen of 25 by 80, with line and column, the saved ones, and
the address kept beside them. It has no run: its state is the screen, and its two theorems
hold for all of it.

## 4. The runs

| Run | Configuration | What it shows |
|---|---|---|
| `boot` | 4 ROM images, 8 floppies, 2 keys or disk changes, 1 reset or power cycle, 1 read error, 2 polls | all properties of BootFlow; 284,600 states |
| `memory` | 2 banks, 11 kinds of SIMM side, 1 key, 2 resets or power cycles | all properties of Memory; 112,000 states |
| `page_tables` | real addresses; 2 banks in 3 combinations of types, 3 sizes of ST-RAM, ROM port emulation and VME card on and off, up to 2 PCI allocations of 20 or 700 bytes | all properties of PageTables; 11,000 states |
| `pci` | real addresses; 3 slots, a handful of cards, the NVRAM sound, with one byte changed or dead; S3 cards left in every way, BIOSes of any two writes | all properties of PciInit and VgaSetup; 129,800 states |
| `unpack` | some twenty files of stored, fixed and dynamic blocks, wrong headers, packages behind; one wrong bit anywhere in four of them; window 16, heap 9000, ROM 512 | all properties of Unpack; 97,900 states |
| `floppy` | 9 floppies and the empty drive, 2 loads, 1 read error | all properties of FloppyRead; 175,000 states |
| `keyboard` | 2 keys, 1 resend, 1 lost byte, 1 late answer, any state before the reset | all properties of Keyboard; 617,000 states |
| `boot_error_check` | as boot, without resets | finding 1 |
| `boot_compind` | as boot, without resets | finding 2 |
| `memory_failed_bank` | as memory, without resets | finding 3 |
| `pci_64bit` | the machines of `pci` | finding 4 |
| `unpack_end` | the files of `unpack` | finding 5 |

The bounds, and why they are enough. *boot*: every branch of the boot loop is decided by one
image, one disk and the three flags; two keys are enough to ask for the disk and take it
back, or to pause and go on; one reset is enough to reach a warm start with a system left in
RAM; one read error to fail any one of the three routines and to succeed at the next attempt.
The polls are counted down from 2 instead of 51, which only shortens the wait. *memory*: bank
0 and bank 1 differ in everything the code distinguishes (it treats slot 0 specially and all
others alike), and two resets reach a warm start that is itself interrupted. *page_tables*:
the behaviour differs with the number of pieces of memory, not with their sizes beyond the
first 16 MB: the run has one, three and four pieces, in one or two banks. *pci*: the cards
have every kind of register, sizes on both sides of the page and of 256 bytes of I/O, one to
three 64-bit registers with the odd ways in which the loop then ends, and order matters only
between neighbours; the interrupts of the NVRAM are two, three, the same twice, one that is
not to be had, and none. One machine has all states of a card and all
programs: the card's registers and the other slots do not meet. *unpack*: a window of 16 is
wrapped and flushed several times by files of tens of bytes; the tables have their real sizes,
so that links and the longest codes occur; the ROM's end falls inside a package. *floppy*:
tracks of two and three sectors make a short file begin amid a track and end in its
third turn; bad sectors lie in the boot sector, in the directory and in the file; two loads
leave one's results behind for the other. *keyboard*: one fault of
each kind in any order, and two keys, one behind E0, so that a code can be torn or doubled.

Deadlock is not checked where the system does rest: in a started TOS, a pause, a beep loop, a
hang, or at the end of what the module models. It is checked in `unpack`, `floppy` and
`keyboard`, whose ends are steps.

**Fairness.** Boot loop and memory assume weak fairness of the processor's own steps
(`Machine`): it never stops executing. FloppyRead and Keyboard assume the same of the driver
and of the controllers, and Keyboard of the keyboard's sending, answering and self-test: they
are devices that run on their own clocks. Nothing is assumed of the user, of keys, disks,
resets, errors or late answers; their number is bounded, so that `GoodDiskBoots`, `StartEnds`,
`DiskLoadEnds` and `TypedIsReturned` speak of what happens once these are over. A pause nobody
ends is allowed to last, and so is a load from an empty drive: the driver has no time-out
(floppy.s:135), and `DiskLoadEnds` is about drives with a disk. Unpack, PageTables
and the PCI setup are straight runs; no liveness is claimed of them, nor that the clocks of an
S3 card ever start.

## 5. Findings

1. **The unpacking error is never noticed** (`startup.s:659/669`, run `boot_error_check`).
   `dcache_off` loads D0 with the CACR between unpack_tos and `tst.w d0`; the low word is
   $8000. After a failed unpack `run_tos` looks at $602e alone.
   `ColdStartRunsFresh` is what remains true: after a cold start at least nothing from
   before can be started, because the memory test has overwritten it.
2. **The compatibility index is enforced for disks too** (`startup.s:656`, run
   `boot_compind`): `dcache_on` overwrites the flag in the same way.
3. **A failed bank is mapped once more** (`pmmu.c:280`, run `memory_failed_bank`): the local
   copy of the bank types is not changed. `WarmMapsOnlyTested` shows that the next warm start
   does leave the bank out.
4. **A 64-bit base address shifts those behind it** (`pci_init.c:238`, run `pci_64bit`): the
   register is advanced past the upper half, the list of answers is not, so that the registers
   behind get windows of each other's kind and size.
5. **Packages may be copied beyond the ROM** (`package.c:116`, run `unpack_end`): whether one
   still fits is asked of its unpacked length; what is copied is its packed one, a header and
   the rounding. It takes a package that hardly shrinks at the very end.

## 6. The proofs

`BootFlowProofs` proves, for every value of the constants: type correctness, the three
safety invariants, and the refinement of BootPromise. The safety invariants are not
inductive by themselves; `IInv` adds what each label relies on: the motor runs only inside
load_tos and the PCI window is moved only inside CopyRomTOS (`DeviceInv`), `via` agrees with
the label (`ViaInv`), at the end of load_tos without an error the buffer is whole
(`LoadedInv`), and after a cold start nothing in the TOS area looks like a system unless it
was unpacked since (`FreshInv`). The refinement uses the same invariant: each action is
matched with the promise's step it implements, or shown to leave the mapped variables alone.
The assumptions are the named ones of BootFlow: at least one poll, images and disks of the
declared shape, natural bounds.

`MemoryProofs` proves, for any number of banks, any SIMMs and any bounds: type correctness,
`WarmMapsOnlyTested`, `LowMemoryIsSound`, `WarmOnlyAfterFullStart` and `NoMirrors`. The
invariant says what magic and checksum vouch for together (`TrustInv`: the bank types in RAM
describe tested memory, the first MB is sound, the last start went through); that the magic
marks a warm start until update700checksum writes it (`MagicInv`); and how the same is built
up block by block during a cold start (`TestInv`) or carried along by a warm one (`WarmInv`).
Neither property is inductive without it: WarmMapsOnlyTested alone says nothing about what
a later reset will find. `NoMirrors` rests on `DetectionSeparates`, a fact about the six
patterns: from the last pattern that reached the bank's start follow the address lines that
the SIMM certainly decodes (`TypeLines`), and fill_tab's blocks differ in one of these.
The assumptions are that there is at least one bank and that SIMMs have the declared shape.

`PageTablesProofs` proves every property of the run, for any number of banks up to the code's
eight, any bank types that leave bank 0 with a type the detection accepts there, a VME window
anywhere above the memory, and up to 41 pieces of up to 1804 bytes for the PCI setup: enum_devs
visits 40 functions, so there is one table of at most 41 devices of 44 bytes and at most 40
lists of seven resources of 20. The invariant has eight parts. The tables and pieces handed out
lie apart between `log_phystop` and the end of ST-RAM (`AllocInv`), which suffices for
TablesApart; that `log_phystop` never falls out of the memory needs a count of all that can be
asked for (`RoomInv`), each piece with its alignment. `MapInv` is the loop over the blocks:
logical and physical address never meet the holes in the middle of a chunk. `DomainInv` says
which chunks have a page table at each stage, `EntryInv` what their entries may grant,
`AliasInv` where the indirect ones point, `RamInv` that main memory is mapped one to one.
`NothingIsDisplaced` is the action property `MappingsStay`: it needs `EntryInv`, since an entry
may be written only where there was none.

`VgaSetupProofs` is about the PCI setup with the VGA card's between its two passes, for any
machines that satisfy `MachinesAssumption` and any BIOS (`CardsAssumption`: its program is a
finite sequence of legal calls). `OrderInv`: each function is set up once, its COMMAND register
is zero until then. `WindowInv`: what has been written to a register lies between where the
counters began and where they are, two windows lie apart, and those of different functions end
on different pages, because init_BARs rounds `cur_mem_base` up behind a function in which it
counted a register. `ListInv`: what a list of resources names is what the registers hold, and
how it is ended. From the three follow `WindowsStayApart`, `ResourcesStayTold` and
`TypeCorrect` (PciInit's types). The first has the hypothesis `OrderlyBus`: no function has a
64-bit register with one behind it that wants a window. It is finding 4 seen from the other
side: behind such a register, windows have the sizes of others' and may overlap. Cards that
satisfy it, among them all without 64-bit registers, are in every machine of the run.

The rest of `VgaSetupProofs` builds on the same invariant. `SettingsAreStored`: if what was
stored was guarded, and the NVRAM holds it with at most one byte changed, or holds one byte
everywhere (`StoredOnce`), then settings that are believed are those that were stored. Both
guards are needed: the sum finds one byte among those summed, the complement the dead battery.
The hypothesis is the promise: two wrong bytes can keep a sum. `InterruptsStayRouted` holds for
any pins in any slots and any choice of the user; `ConfigStaysKept` is the action property that
no byte of a configuration register changes but by the service that names it, or is an error in
STATUS that it clears, and that a function that answers stays where it is.

`SetupTypeCorrect` and `CardStaysSetUp` are about the card, left in any way that `IsLeft`
allows. `CardInv` follows it through its setup: from init_s3_vga's unlocking on it is awake and
open, behind the tables it holds them, and the text mode and the font give back what they
borrow. That writing a table of up to eighty entries leaves each register with the last value
it is given is an induction over the entries, by least counterexample (`TableInduction`, since
the library's induction theorems cannot be instantiated), and its step is where the locks
matter: the registers that lock others are open when a table is begun (`Open`), or opened by
entries before those that need it (`Unlocked`), and no entry locks what a later one writes.

`FloppyReadProofs` proves every safety property of the run, for any disks, errors and changes
of disks. `TypeCorrect` (ResultBuffer's length included) and `ReadReportedFitting` are about the
handshake. Floprd judges a read by the bytes in ResultBuffer, which nobody
clears, and Do_Command returns silently if the controller is not idle: the proof is that the
handshake leaves no way for an earlier result to be judged. What the controller has taken of
the command and what the driver has still to send make up the command (`CommandInv`), each of
its phases goes with its wait loop (`PhaseInv`), the result fills ResultBuffer from the front
(`ResultInv`), and the sectors moved are those the command names, up to the one it names as
the last (`MovedInv`, `OutcomeInv`). `FitsInBytes` is the theorem's hypothesis because the
attempt without it failed, rightly: Floprd moves the low bytes of track and sector only, so
that a directory entry or boot sector that leads to track 256 reads another sector and reports
success. No floppy the drive can take has so many; TLC checks the property without the
hypothesis on disks of plausible geometry.

From the reads to the file (`FileIsLoaded`, `OutcomeFits`) leads `LoadInv`: the sizes in hand
are those of the disk in the drive (`DiskInv`); the sectors delivered lie one behind the other
where the call wanted them (`PlacedInv`), none of them bad (`CleanInv`); a read that fails has
a bad or missing sector, a passing error or the end of the track to blame (`BlameInv`); and of
the file as much lies in the buffer as the job says is behind it, the pieces being cut where a
side ends (`JobInv`). On a regular disk the sectors fit in a byte, so that these theorems need
no further hypothesis.

`UnpackProofs` proves three of the four invariants of Unpack, for any file, any bit read wrongly
and any memory behind it. `UnpackedWasChecked`: success is reported behind the comparison
with length and checksum only, and nothing is put out from there on (`CheckedInv`). Whether
that makes it the original is the checksum's to say, and so the hypothesis `ChecksumTells`: what
came out is the original unless its length or its checksum is another. What huft_build returns
does not matter. `PackagesAreCopied`: the loop behind the TOS walks the chain of packages, as
many lying before the one it is at as it has copied (`ChainInv`). `TypeCorrect` is more than it
looks: that the copying never leaves the window (`WindowInv`), the heap is never
overdrawn (`MemoryInv`), the lengths read of a block stay within what its header announces
(`TablesInv`), and what a code asks for fits its registers (`StreamInv`). It has the hypothesis
`HuftBuilds`: what huft_build returns without an error are tables that lead any 16 bits to a
symbol, to an invalid code or to garbage, or no tables at all. That is a recursive computation
over any alphabet; TLC evaluates it for the alphabets of the run, complete, incomplete (a lone
code of one bit among symbols without one included), too long and empty (`TreesAreTrees`).

`KeyboardProofs` proves the types and `OkMeansKeys`. `Keyboard_OK` is set by one byte, the
acknowledgement of kb_c_Enable; that it is the answer to that command needs to know, at every
point of the initialisation, the one message that is on its way between driver, controller and
keyboard, and in what form: as a command, an answer, or lost (`StartInv`). Behind it, `PollInv`
relates what is on its way to the keys: it is the rest of the scan codes of the keys typed,
from a place that the keys returned and the driver's position determine. Both speak of runs
that are `calm`, as the property does.

`TextScreen` proves that the cursor stays on the screen and that what is written there is on
the screen too (`CursorStaysOnScreen`, `WritesOnScreen`), for the real screen, any bytes and
any length of output. `CursorOnScreen` is inductive because the address is kept equal to the
position's; the second theorem needs it to know that the two bytes at the address exist.

What the attempts found in the models: `InterruptsRouted` had excused two lines with one
interrupt only by their number, and the user may name an interrupt twice; the loop of
init_BARs can end two registers behind the last and can leave the base addresses for the
subsystem's IDs, which only cards with three 64-bit registers, or two with one free pair
between, show; a key's break code could be the prefix E0; the machines of the run had said of
cards what the code relies on without an assumption that says so. `FileLoaded` and `LoadOutcome`
were false of disks with two entries of the name, with a chain that starts elsewhere than the
entry says or a file that runs beyond the disk's end, and of a bad sector in the boot sector or
the directory, none of which the run had; `CardIsSetUp` was false of a card asleep that asks for
memory accesses. The models say it now, and the runs have machines and disks for it.

Only model-checked: the liveness properties (fairness and ENABLED are out of the prover's
reach), and of Unpack `GoodUnpacks` and `TablesDecode`, which say what the codes of a file stand
for: they compute with the RECURSIVE operators of Huft and Crc32, which the prover cannot reach
through, by induction over data. `HuftBuilds` and `ChecksumTells` are hypotheses for the same
reason.

## 7. What is not modelled

* **The x86 emulator's instructions.** 3000 lines of macros that jump through tables; what an
  instruction should do is the x86 manual's to say and not this repository's, so that a model
  would have to bring its own specification. Reading it shows that flags differ from the
  manual in places a VGA BIOS hardly looks at: adc and sbb set Z from the last part only, rcl
  and rcr lose S and Z, shifts by zero change flags, and a division by zero is not handled.
* **The monitor.** Behind a jumper; it changes memory at the user's word and promises nothing.
* **Bus, clock and interrupt controller setup.** Register writes without decisions.
* **Data and wording**: palette, fonts, texts, vsprintf's buffer, the formatting of numbers,
  POST codes, beeps and delays.

Bus errors are modelled where they decide what the next start does. RAM after power-on is
taken not to hold the magic and a fitting checksum by chance.
