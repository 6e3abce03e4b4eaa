------------------------------- MODULE BootFlow -------------------------------
(***************************************************************************)
(* The main boot loop of startup.s (no_mon ... no_disktos) with the routines *)
(* it calls: load_tos, CopyRomTOS and run_tos (tos.s), unpack_tos           *)
(* (package.c) and CheckKeys (pmmu.c, module Keys). One control location per *)
(* label; D0.W is carried explicitly, because the flag given to unpack_tos  *)
(* and the result taken from it both travel through it past dcache_on and    *)
(* dcache_off, which load it with the CACR.                                 *)
(*                                                                         *)
(* The floppy is the module FloppyRead's; here each of its three calls        *)
(* succeeds or leaves an error, and getbpb may also divide by zero, which     *)
(* never returns ("trap"). RAM detection and the page tables are        *)
(* Memory's; here a start is cold (all RAM overwritten) or warm (RAM     *)
(* above 1 MB kept).                                                        *)
(***************************************************************************)
EXTENDS Naturals, Keys

CONSTANTS
  NPolls,      \* how often the keys are polled before the choice (51 in the code)
  RomImages,   \* the images the ROM may hold
  Disks,       \* the disks the user may insert
  MaxKeys,     \* bound: key presses and disk changes
  MaxResets,   \* bound: resets and power cycles
  MaxErrors    \* bound: read errors of a good disk

(***************************************************************************)
(* A system image. kind: "raw" has no header ($602e first), "pkg" a header   *)
(* unpack_tos accepts, "junk" anything else. newer: its pkg_id is above      *)
(* CompInd. stream: stored uncompressed, or what uncompress_data makes of it *)
(* ("good", or its errors: "nomem" 3 before any output, "short" 4 and "crc" 5 *)
(* after the output is written). os: the unpacked image begins with $602e.   *)
(***************************************************************************)
Image == [kind   : {"raw", "pkg", "junk"},
          newer  : BOOLEAN,
          stream : {"stored", "good", "nomem", "short", "crc"},
          os     : BOOLEAN]

Junk == [kind |-> "junk", newer |-> FALSE, stream |-> "stored", os |-> FALSE]

\* A floppy. bpb: its boot sector is "usable", refused by getbpb ("unusable"), or gives 0
\* sectors per track or 0 sides and is otherwise usable ("divides", as getbpb divides by
\* their product). dir, empty: has it the file TOS.IMG, and is that file empty.
Disk == [bpb   : {"usable", "unusable", "divides"},
         dir   : BOOLEAN,
         empty : BOOLEAN,
         image : Image]

ASSUME NPollsAssumption == NPolls \in Nat \ {0}
ASSUME ImagesAssumption == RomImages \subseteq Image /\ Disks \subseteq Disk
ASSUME BoundsAssumption == MaxKeys \in Nat /\ MaxResets \in Nat /\ MaxErrors \in Nat

VARIABLES
  pc,           \* the label control has reached
  via,          \* which of the two unpack sequences it is in: "rom", "disk", or "none"
  d0,           \* D0.W
  polls,        \* D7 of no_mon2: polls left
  diskLoad, pauseFlag, fastMemtest,
  jumperDisk,   \* bit 6 of $410 reads 0: boot from disk
  rom,          \* the image in ROM
  disk,         \* the floppy in the drive
  buf,          \* TosLoadBuffer ($F00000)
  target,       \* TosTarget ($E00000)
  currErr,      \* curr_err (0 or e_error)
  motor,        \* drive motor bit of the FDC
  pciBase,      \* PLX_DMPBAM: "io" ($00000003) or "rom" ($C0000003)
  mmuOn,        \* LockTOS has run: TOS write protected, PMMU on
  warmValid,    \* warmstart_magic and the checksum over $700..$77F are right
  unpacked,     \* history: what the last unpack_tos returned (before dcache_off)
  cold,         \* history: the last start was a cold start
  keysLeft, resetsLeft, errorsLeft

userVars == <<diskLoad, pauseFlag, fastMemtest>>
hwVars == <<motor, pciBase, mmuOn>>
envVars == <<jumperDisk, rom, disk>>
ramVars == <<buf, target>>
startVars == <<warmValid, cold>>
budget == <<keysLeft, resetsLeft, errorsLeft>>
vars == <<pc, via, d0, polls, currErr, unpacked, userVars, hwVars, envVars,
          ramVars, startVars, budget>>

\* The low word of the CACR: the instruction cache bit, which startup.s sets once.
CacrLow == 32768

\* The buffer: an image, all of it or a part, from where, and read since the last start.
Buffer == [image : Image, whole : BOOLEAN, src : {"none", "rom", "disk"}, fresh : BOOLEAN]
JunkBuffer == [image |-> Junk, whole |-> FALSE, src |-> "none", fresh |-> FALSE]

\* The TOS area: begins with $602e, is one complete image, written since the last start.
Target == [os : BOOLEAN, whole : BOOLEAN, fresh : BOOLEAN]
JunkTarget == [os |-> FALSE, whole |-> FALSE, fresh |-> FALSE]

Init ==
  /\ pc = "startup" /\ via = "none"
  /\ d0 = 0 /\ polls = 0 /\ currErr = 0 /\ unpacked = 0
  /\ diskLoad = FALSE /\ pauseFlag = FALSE /\ fastMemtest = FALSE
  /\ motor = FALSE /\ pciBase = "io" /\ mmuOn = FALSE
  /\ jumperDisk \in BOOLEAN /\ rom \in RomImages /\ disk \in Disks
  /\ buf = JunkBuffer /\ target = JunkTarget
  /\ warmValid = FALSE /\ cold = TRUE
  /\ keysLeft = MaxKeys /\ resetsLeft = MaxResets /\ errorsLeft = MaxErrors

-----------------------------------------------------------------------------
(* Start *)

\* A slip: a start after a reset takes the RAM as it is, whatever the checksum says.
StartupKeepsRam ==
  /\ pc = "startup"
  /\ pc' = IF warmValid THEN "no_mon" ELSE "memtest"
  /\ cold' = ~warmValid
  /\ diskLoad' = FALSE /\ pauseFlag' = FALSE /\ fastMemtest' \in BOOLEAN
  /\ pciBase' = "io"
  /\ currErr' = 0
  /\ UNCHANGED <<via, d0, polls, unpacked, motor, mmuOn, envVars, ramVars, warmValid,
                 budget>>

(***************************************************************************)
(* reset to Init_PMMU, up to the first key poll. The boot block is copied    *)
(* from ROM, so its data segment (DiskLoad, PauseFlag) starts over;          *)
(* fast_memtest may be set by the NVRAM. A cold start overwrites all RAM with *)
(* an address pattern and tests it, polling the keys; a warm start does not. *)
(***************************************************************************)
Startup ==
  /\ pc = "startup"
  /\ pc' = IF warmValid THEN "no_mon" ELSE "memtest"
  /\ cold' = ~warmValid
  /\ diskLoad' = FALSE /\ pauseFlag' = FALSE /\ fastMemtest' \in BOOLEAN
  /\ pciBase' = "io"
  /\ currErr' = 0
  /\ IF warmValid THEN UNCHANGED ramVars
                  ELSE buf' = JunkBuffer /\ target' = JunkTarget
  /\ UNCHANGED <<via, d0, polls, unpacked, motor, mmuOn, envVars, warmValid, budget>>

\* CheckKeys takes one key.
TakeKey(k) ==
  /\ keysLeft > 0
  /\ keysLeft' = keysLeft - 1
  /\ diskLoad' = DiskLoadAfter(k, diskLoad)
  /\ pauseFlag' = PauseAfter(k, pauseFlag)
  /\ fastMemtest' = FastAfter(k, fastMemtest)
  /\ UNCHANGED <<pc, via, d0, polls, currErr, unpacked, hwVars, envVars, ramVars,
                 startVars, resetsLeft, errorsLeft>>

\* A key read by do_memtest after one of its 1 MB blocks.
MemtestKey == pc = "memtest" /\ \E k \in Key : TakeKey(k)

\* The memory test and Init_PMMU are over; update700checksum makes a warm start possible.
MemtestDone ==
  /\ pc = "memtest"
  /\ pc' = "no_mon"
  /\ warmValid' = TRUE
  /\ UNCHANGED <<via, d0, polls, currErr, unpacked, userVars, hwVars, envVars, ramVars,
                 cold, budget>>

-----------------------------------------------------------------------------
(* Asking *)

\* no_mon: the jumper decides between disktos and half a second of polling.
NoMon ==
  /\ pc = "no_mon"
  /\ IF jumperDisk
       THEN pc' = "disktos" /\ via' = "disk" /\ UNCHANGED polls
       ELSE pc' = "poll" /\ via' = "none" /\ polls' = NPolls
  /\ UNCHANGED <<d0, currErr, unpacked, userVars, hwVars, envVars, ramVars, startVars,
                 budget>>

PollKey == pc = "poll" /\ \E k \in Key : TakeKey(k)

\* A slip: one round more than D7 counts, as if the loop ended only below zero.
PollIdleOnceMore ==
  /\ pc = "poll"
  /\ polls' = polls - 1
  /\ pc' = IF polls > 0 THEN "poll" ELSE IF pauseFlag THEN "pause" ELSE "no_pause"
  /\ UNCHANGED <<via, d0, currErr, unpacked, userVars, hwVars, envVars, ramVars,
                 startVars, budget>>

\* GetKey returned 0: wait 10 ms and count; after the last poll look at PauseFlag.
PollIdle ==
  /\ pc = "poll"
  /\ polls' = polls - 1
  /\ pc' = IF polls > 1 THEN "poll" ELSE IF pauseFlag THEN "pause" ELSE "no_pause"
  /\ UNCHANGED <<via, d0, currErr, unpacked, userVars, hwVars, envVars, ramVars,
                 startVars, budget>>

PauseKey == pc = "pause" /\ \E k \in Key : TakeKey(k)

\* CheckKeys is through its keys: the pause lasts as long as PauseFlag is set.
PauseEnd ==
  /\ pc = "pause"
  /\ ~pauseFlag
  /\ pc' = "no_pause"
  /\ UNCHANGED <<via, d0, polls, currErr, unpacked, userVars, hwVars, envVars, ramVars,
                 startVars, budget>>

\* no_pause: the choice. CopyRomTOS begins by moving the PCI window to the ROM.
Choose ==
  /\ pc = "no_pause"
  /\ IF diskLoad
       THEN pc' = "disktos" /\ via' = "disk" /\ UNCHANGED pciBase
       ELSE pc' = "rom_copy" /\ via' = "rom" /\ pciBase' = "rom"
  /\ UNCHANGED <<d0, polls, currErr, unpacked, userVars, motor, mmuOn, envVars, ramVars,
                 startVars, budget>>

\* The user puts another floppy into the drive while the machine asks, or hangs.
SwapDisk ==
  /\ pc \in {"poll", "pause", "trap"}
  /\ keysLeft > 0
  /\ keysLeft' = keysLeft - 1
  /\ disk' \in Disks \ {disk}
  /\ UNCHANGED <<pc, via, d0, polls, currErr, unpacked, userVars, hwVars, jumperDisk, rom,
                 ramVars, startVars, resetsLeft, errorsLeft>>

-----------------------------------------------------------------------------
(* Fetching *)

\* The rest of CopyRomTOS: copy 448K, move the window back. CompInd flag 1 goes into D0.
RomCopied ==
  /\ pc = "rom_copy"
  /\ buf' = [image |-> rom, whole |-> TRUE, src |-> "rom", fresh |-> TRUE]
  /\ pciBase' = "io"
  /\ d0' = 1
  /\ pc' = "unpack"
  /\ UNCHANGED <<via, polls, currErr, unpacked, userVars, motor, mmuOn, envVars, target,
                 startVars, budget>>

\* load_tos: Flopinit, then Motor_on.
FlopStart ==
  /\ pc = "disktos"
  /\ motor' = TRUE
  /\ pc' = "bpb"
  /\ UNCHANGED <<via, d0, polls, currErr, unpacked, userVars, pciBase, mmuOn, envVars,
                 ramVars, startVars, budget>>

\* A slip: success leaves curr_err as it was, so that an old error is never cleared.
StickyOutcome(ok) ==
  \/ /\ currErr' = IF ok THEN currErr ELSE 1
     /\ UNCHANGED errorsLeft
  \/ /\ errorsLeft > 0
     /\ errorsLeft' = errorsLeft - 1
     /\ currErr' = 1

\* Outcome of a floppy routine: ok says what the disk holds; a read may fail anyway.
FloppyOutcome(ok) ==
  \/ /\ currErr' = IF ok THEN 0 ELSE 1
     /\ UNCHANGED errorsLeft
  \/ /\ errorsLeft > 0
     /\ errorsLeft' = errorsLeft - 1
     /\ currErr' = 1

\* getbpb twice; the second call overwrites curr_err. A call that has read a boot sector
\* without sectors or sides divides by zero, whose exception has no handler: the processor
\* leaves the boot block for good, with the motor running.
GetBpb ==
  /\ pc = "bpb"
  /\ FloppyOutcome(disk.bpb # "unusable")
  /\ pc' = IF currErr' # 0 THEN "lt_end"
           ELSE IF disk.bpb = "divides" THEN "trap" ELSE "dir"
  /\ UNCHANGED <<via, d0, polls, unpacked, userVars, hwVars, envVars, ramVars, startVars,
                 keysLeft, resetsLeft>>

Fsfirst ==
  /\ pc = "dir"
  /\ FloppyOutcome(disk.dir)
  /\ pc' = IF currErr' = 0 THEN "file" ELSE "lt_end"
  /\ UNCHANGED <<via, d0, polls, unpacked, userVars, hwVars, envVars, ramVars, startVars,
                 keysLeft, resetsLeft>>

\* The load buffer after a read of the floppy's file, to the end or in part.
DiskBuffer(all) == [image |-> disk.image, whole |-> all, src |-> "disk", fresh |-> TRUE]

\* readfile reads nothing, and leaves curr_err alone, when the file is empty. A read that
\* fails has stored nothing or a part of the file.
ReadFile ==
  /\ pc = "file"
  /\ \/ disk.empty /\ UNCHANGED <<buf, currErr, errorsLeft>>
     \/ /\ ~disk.empty
        /\ FloppyOutcome(TRUE)
        /\ IF currErr' = 0 THEN buf' = DiskBuffer(TRUE)
                           ELSE buf' \in {buf, DiskBuffer(FALSE)}
  /\ pc' = "lt_end"
  /\ UNCHANGED <<via, d0, polls, unpacked, userVars, hwVars, envVars, target, startVars,
                 keysLeft, resetsLeft>>

\* A slip: the success path returns before Motor_off.
LoadEndMotorOn ==
  /\ pc = "lt_end"
  /\ IF currErr # 0
       THEN pc' = "no_mon" /\ via' = "none" /\ motor' = FALSE /\ UNCHANGED d0
       ELSE pc' = "unpack" /\ d0' = 0 /\ UNCHANGED <<via, motor>>
  /\ UNCHANGED <<polls, currErr, unpacked, userVars, pciBase, mmuOn, envVars, ramVars,
                 startVars, budget>>

\* A slip: load_tos returns the flags of Motor_off instead of those of curr_err.
LoadEndAlwaysGood ==
  /\ pc = "lt_end"
  /\ motor' = FALSE
  /\ pc' = "unpack" /\ d0' = 0
  /\ UNCHANGED <<via, polls, currErr, unpacked, userVars, pciBase, mmuOn, envVars, ramVars,
                 startVars, budget>>

\* lt_end: motor off, curr_err decides; CompInd flag 0 goes into D0.
LoadEnd ==
  /\ pc = "lt_end"
  /\ motor' = FALSE
  /\ IF currErr # 0
       THEN pc' = "no_mon" /\ via' = "none" /\ UNCHANGED d0
       ELSE pc' = "unpack" /\ d0' = 0 /\ UNCHANGED via
  /\ UNCHANGED <<polls, currErr, unpacked, userVars, pciBase, mmuOn, envVars, ramVars,
                 startVars, budget>>

-----------------------------------------------------------------------------
(* Unpacking and starting *)

\* What dcache_on and dcache_off leave in D0.W, whatever it held: the CACR's low word.
DcacheD0(d) == CacrLow

\* unpack_tos(flag) on buffer b returns 1 or 0.
UnpackResult(b, flag) ==
  LET img == b.image
      refused == img.kind = "junk" \/ (img.newer /\ flag # 0)
      inflated == img.stream = "good" /\ b.whole
  IN  IF img.kind = "raw" \/ (~refused /\ (img.stream = "stored" \/ inflated)) THEN 1 ELSE 0

\* ... and what it has written to the TOS area by then: a stream that fails its length or
\* CRC check has been written all the same.
UnpackTarget(b, flag) ==
  LET img == b.image
      written == \/ img.kind = "raw"
                 \/ /\ img.kind = "pkg"
                    /\ ~(img.newer /\ flag # 0)
                    /\ img.stream # "nomem"
      sound == b.whole /\ (img.kind = "raw" \/ img.stream \in {"stored", "good"})
  IN  IF written THEN [os |-> img.os, whole |-> sound, fresh |-> TRUE] ELSE target

\* dcache_on, unpack_tos, dcache_off.
Unpack ==
  /\ pc = "unpack"
  /\ unpacked' = UnpackResult(buf, DcacheD0(d0))
  /\ target' = UnpackTarget(buf, DcacheD0(d0))
  /\ d0' = DcacheD0(unpacked')
  /\ pc' = "check"
  /\ UNCHANGED <<via, polls, currErr, userVars, hwVars, envVars, buf, startVars, budget>>

\* tst.w d0 / beq: 0 is taken for an unpacking error.
CheckUnpacked ==
  /\ pc = "check"
  /\ IF d0 # 0 THEN pc' = "run_tos" /\ UNCHANGED via
     ELSE IF via = "rom" THEN pc' = "disktos" /\ via' = "disk"
                         ELSE pc' = "no_mon" /\ via' = "none"
  /\ UNCHANGED <<d0, polls, currErr, unpacked, userVars, hwVars, envVars, ramVars,
                 startVars, budget>>

\* A slip: the ROM image fails and DiskLoad stays as it was.
RunTosForgetsDisk ==
  /\ pc = "run_tos"
  /\ IF target.os
       THEN pc' = "tos" /\ mmuOn' = TRUE /\ UNCHANGED via
       ELSE pc' = "no_mon" /\ via' = "none" /\ UNCHANGED mmuOn
  /\ UNCHANGED <<d0, polls, currErr, unpacked, userVars, motor, pciBase, envVars, ramVars,
                 startVars, budget>>

\* run_tos: start what begins with $602e; otherwise return, and after a ROM image set
\* DiskLoad.
RunTos ==
  /\ pc = "run_tos"
  /\ IF target.os
       THEN pc' = "tos" /\ mmuOn' = TRUE /\ UNCHANGED <<via, diskLoad>>
       ELSE /\ pc' = "no_mon" /\ via' = "none" /\ UNCHANGED mmuOn
            /\ diskLoad' = (diskLoad \/ via = "rom")
  /\ UNCHANGED <<d0, polls, currErr, unpacked, pauseFlag, fastMemtest, motor, pciBase,
                 envVars, ramVars, startVars, budget>>

\* TOS uses the load buffer as memory.
TosUsesMemory ==
  /\ pc = "tos"
  /\ buf.fresh
  /\ buf' = JunkBuffer
  /\ UNCHANGED <<pc, via, d0, polls, currErr, unpacked, userVars, hwVars, envVars, target,
                 startVars, budget>>

\* tos_buserror: a bus error before TOS has set its own vector.
TosBusError ==
  /\ pc = "tos"
  /\ pc' = "crashed"
  /\ UNCHANGED <<via, d0, polls, currErr, unpacked, userVars, hwVars, envVars, ramVars,
                 startVars, budget>>

-----------------------------------------------------------------------------
(* Resets *)

\* The reset button, or TOS jumping to warmstart: RAM stays, devices are reset. A TOS that
\* has changed a variable in $700..$77F leaves a wrong checksum.
Reset ==
  /\ pc # "startup"
  /\ resetsLeft > 0
  /\ resetsLeft' = resetsLeft - 1
  /\ pc' = "startup" /\ via' = "none"
  /\ motor' = FALSE /\ mmuOn' = FALSE
  /\ buf' = [buf EXCEPT !.fresh = FALSE]
  /\ target' = [target EXCEPT !.fresh = FALSE]
  /\ warmValid' \in {warmValid, warmValid /\ pc # "tos"}
  /\ UNCHANGED <<d0, polls, currErr, unpacked, userVars, pciBase, envVars, cold, keysLeft,
                 errorsLeft>>

\* RAM is lost; jumpers may have been moved.
PowerCycle ==
  /\ pc # "startup"
  /\ resetsLeft > 0
  /\ resetsLeft' = resetsLeft - 1
  /\ pc' = "startup" /\ via' = "none"
  /\ motor' = FALSE /\ pciBase' = "io" /\ mmuOn' = FALSE
  /\ buf' = JunkBuffer /\ target' = JunkTarget
  /\ warmValid' = FALSE
  /\ jumperDisk' \in BOOLEAN
  /\ UNCHANGED <<d0, polls, currErr, unpacked, userVars, rom, disk, cold, keysLeft,
                 errorsLeft>>

-----------------------------------------------------------------------------

\* The processor's own steps; the others are the user's.
Machine ==
  \/ Startup \/ MemtestDone
  \/ NoMon \/ PollIdle \/ PauseEnd \/ Choose
  \/ RomCopied \/ FlopStart \/ GetBpb \/ Fsfirst \/ ReadFile \/ LoadEnd
  \/ Unpack \/ CheckUnpacked \/ RunTos

User == MemtestKey \/ PollKey \/ PauseKey \/ SwapDisk \/ Reset \/ PowerCycle

System == TosUsesMemory \/ TosBusError

Next == Machine \/ User \/ System

Spec == Init /\ [][Next]_vars

\* The processor never stops executing; nobody has to press a key.
FairSpec == Spec /\ WF_vars(Machine)

-----------------------------------------------------------------------------
(* Properties *)

ControlType ==
  /\ pc \in {"startup", "memtest", "no_mon", "poll", "pause", "no_pause", "rom_copy",
             "disktos", "bpb", "dir", "file", "lt_end", "unpack", "check", "run_tos",
             "tos", "crashed", "trap"}
  /\ via \in {"none", "rom", "disk"}
  /\ d0 \in 0..CacrLow /\ polls \in 0..NPolls
  /\ currErr \in {0, 1} /\ unpacked \in {0, 1}
UserType == diskLoad \in BOOLEAN /\ pauseFlag \in BOOLEAN /\ fastMemtest \in BOOLEAN
DeviceType == motor \in BOOLEAN /\ pciBase \in {"io", "rom"} /\ mmuOn \in BOOLEAN
EnvType == jumperDisk \in BOOLEAN /\ rom \in RomImages /\ disk \in Disks
RamType == buf \in Buffer /\ target \in Target
StartType == warmValid \in BOOLEAN /\ cold \in BOOLEAN
BudgetType ==
  /\ keysLeft \in 0..MaxKeys
  /\ resetsLeft \in 0..MaxResets
  /\ errorsLeft \in 0..MaxErrors

TypeOK ==
  /\ ControlType
  /\ UserType
  /\ DeviceType
  /\ EnvType
  /\ RamType
  /\ StartType
  /\ BudgetType

\* When a system has been started, it begins with $602e, LockTOS has protected it, the
\* drive motor is off and the PCI window is back at the I/O base: no path through
\* load_tos, CopyRomTOS and the resets leaves a device in a half-done state behind.
StartsInOrder ==
  pc \in {"tos", "crashed"} => target.os /\ mmuOn /\ ~motor /\ pciBase = "io"

\* unpack_tos works on what was fetched for this attempt, and on all of it: a read that
\* failed half way through the file is never unpacked. The one exception is an empty
\* TOS.IMG, for which load_tos reports success and leaves the buffer as it was.
UnpacksWhatWasFetched ==
  pc = "unpack" /\ ~(via = "disk" /\ disk.empty) =>
    buf.whole /\ buf.fresh /\ buf.src = via

\* After a cold start only a system unpacked since then can be started, although the
\* result of unpack_tos is ignored: a left-over system in the TOS area needs a warm start.
ColdStartRunsFresh == pc = "tos" /\ cold => target.fresh

\* The control locations that count as one phase for BootPromise.
Phase ==
  CASE pc \in {"startup", "memtest"} -> "init"
    [] pc \in {"no_mon", "poll", "pause", "no_pause"} -> "ask"
    [] pc \in {"rom_copy", "disktos", "bpb", "dir", "file", "lt_end", "trap"} -> "fetch"
    [] pc \in {"unpack", "check", "run_tos"} -> "check"
    [] OTHER -> "live"

Promise == INSTANCE BootPromise WITH
  phase <- Phase,
  source <- IF Phase = "ask" THEN "none" ELSE via,
  wantDisk <- diskLoad /\ pc # "startup",
  forced <- jumperDisk

\* The boot loop implements what it promises the user: the source that was asked for is
\* fetched, a failed read starts nothing, an unusable ROM image makes the disk wanted.
KeepsPromise == Promise!Spec

\* The floppy holds an image that unpacks, starts and is not too new.
GoodDisk ==
  /\ disk.bpb = "usable" /\ disk.dir /\ ~disk.empty /\ disk.image.os
  /\ \/ disk.image.kind = "raw"
     \/ /\ disk.image.kind = "pkg" /\ ~disk.image.newer
        /\ disk.image.stream \in {"stored", "good"}

\* With a good disk in the drive the machine comes up, whatever the ROM holds, after read
\* errors and after other disks: it ends in a started system, or in a pause nobody has
\* ended. The one disk that spoils this for a later one is a disk whose boot sector makes
\* getbpb divide by zero: a machine that hangs in that trap needs a reset first.
GoodDiskBoots ==
  <>(pc # "trap" /\ []GoodDisk) =>
    <>[](pc \in {"tos", "crashed"} \/ (pc = "pause" /\ pauseFlag))

\* startup.s:670 (and :660): "Error unpacking TOS" leaves the sequence, so that a system is
\* started only when unpack_tos has returned 1.
StartsOnlyUnpacked == pc = "tos" => unpacked = 1

\* package.c:54: "0 = TOS stammt von DISK - Warnung, aber Start versuchen" (a TOS from disk
\* with too high a compatibility index is announced, and tried all the same).
DiskTriedDespiteCompInd ==
  /\ pc = "check" /\ via = "disk"
  /\ buf.whole /\ buf.image.kind = "pkg" /\ buf.image.stream \in {"stored", "good"}
  => unpacked = 1
=============================================================================
