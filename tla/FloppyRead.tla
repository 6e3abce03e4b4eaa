----------------------------- MODULE FloppyRead -----------------------------
(***************************************************************************)
(* Loading TOS.IMG from floppy: load_tos (tos.s) and the driver below it      *)
(* (floppy.s): Flopinit, Do_Command, Floprd, getbpb, readabs, Fsfirst and    *)
(* readfile, down to the handshake with the floppy controller. Driver and    *)
(* controller run side by side; what they share is the main status register. *)
(*                                                                         *)
(* The 512 data bytes of a sector pass in one step, and so do the four        *)
(* position bytes that end the result of a read. A sector is known by its     *)
(* disk and number. Words are 16 bit.                                        *)
(***************************************************************************)
EXTENDS Integers, Sequences, FiniteSets, TLC

CONSTANTS
  Disks,       \* the floppies the user may insert
  NoDisk,      \* the drive is empty
  MaxLoads,    \* bound: calls of load_tos
  MaxErrors    \* bound: passing read errors

Word == 65536
SectorBytes == 512

Entry == [name : {"TOS.IMG", "tos.img", "other"}, cluster : Nat, size : Nat]

(***************************************************************************)
(* A floppy: the fields of its boot sector (bytes per sector, sectors per    *)
(* cluster, reserved sectors, FATs, root entries, sectors, sectors per FAT,  *)
(* sectors per track, sides); the sectors, sides and tracks it really has;    *)
(* its root entries by slot; the clusters of the file; its bad sectors.      *)
(***************************************************************************)
DiskOK(d) ==
  /\ {d.bps, d.spc, d.res, d.fats, d.ndirs, d.nsects, d.spf, d.spt, d.nsides}
       \subseteq 0..(Word - 1)
  /\ d.realSpt \in 1..255 /\ d.realSides \in 1..2 /\ d.tracks \in 1..255
  /\ \A s \in DOMAIN d.root : s \in Nat /\ d.root[s] \in Entry
  /\ d.chain \in Seq(Nat) /\ d.bad \subseteq Nat

ASSUME DisksAssumption == NoDisk \notin Disks /\ \A d \in Disks : DiskOK(d)
ASSUME FloppyBounds == MaxLoads \in Nat /\ MaxErrors \in Nat

VARIABLES
  at,       \* what load_tos does: the command of Flopinit, the sector read, or the end
  pc,       \* the wait loop of Do_Command: DCL5, DCL1, DCL3, DCL4; or DCL_END
  cmd,      \* the command bytes still to be sent (D0, then A0)
  dest,     \* A1: into which buffer, and how far into it
  resAt,    \* A2: next place in ResultBuffer
  result,   \* ResultBuffer
  read,     \* arguments of Floprd: track, side, first sector, count
  job,      \* arguments of readabs: first sector, place, count
  bpb, dsb, file, sektor, load, currErr,
  fdc,      \* the controller
  drive,    \* the disk in the drive
  moved,    \* history: sectors the last command delivered
  faulty,   \* history: a passing read error hit this load
  loadsLeft, errorsLeft

driverVars == <<at, pc, cmd, dest, resAt, result, read, job, bpb, dsb, file, sektor,
                load, currErr>>
callVars == <<job, bpb, dsb, file, sektor, load, currErr>>
budget == <<loadsLeft, errorsLeft>>
vars == <<driverVars, fdc, drive, moved, faulty, budget>>

RECALIBRATE == 7
SENSE_INT == 8
CONFIGURE == 67
SPECIFY == 3
MODE == 1
READ_DATA == 70    \* with MFM

e_error == -1
e_crc == -4
e_rnf == -8
e_read == -11

----------------------------------------------------------------------------
(* Words and division as the processor has them                            *)

Signed(w) == IF w < 32768 THEN w ELSE w - Word

\* divu.w: when the quotient does not fit, the register keeps its value.
Divu(n, d) == IF n \div d < Word THEN [quot |-> n \div d, rem |-> n % d]
                                 ELSE [quot |-> n % Word, rem |-> n \div Word]

----------------------------------------------------------------------------
(* The controller (82077 and its drive), as the driver sees it              *)

\* The main status register: bit 7, bit 4, bit 5 (data is moving), the low bits.
Busy == fdc.phase # "idle"
Executing == fdc.phase = "exec"
Stepping == fdc.steps # "no"

CommandBytes(op) == CASE op = READ_DATA -> 9
                      [] op = RECALIBRATE -> 2
                      [] op = SENSE_INT -> 1
                      [] op = CONFIGURE -> 4
                      [] op = SPECIFY -> 3
                      [] op = MODE -> 5

Idle(f) == [f EXCEPT !.rqm = TRUE, !.phase = "idle", !.cmd = <<>>, !.out = <<>>]
Answer(f, bytes) == [f EXCEPT !.rqm = TRUE, !.phase = "result", !.out = bytes]

SectorNumber(d, track, side, sec) ==
  (((track * d.realSides) + side) * d.realSpt) + sec - 1

\* Is the sector on the disk?
Exists(d, track, side, sec) ==
  /\ track < d.tracks /\ side < d.realSides /\ sec \in 1..d.realSpt

\* Status bytes: the bits the driver looks at. ST0 has none behind a normal end, "at"
\* ($40) behind an abnormal one and "ic" ($80) behind an invalid command.
Abnormal(st1, st2) == <<{"at"}, st1, st2, {}>>
EndOfTrack == Abnormal({"en"}, {})
Failure(kind) == CASE kind = "nd" -> Abnormal({"nd"}, {})
                   [] kind = "dd" -> Abnormal({"de"}, {"dd"})
                   [] kind = "ma" -> Abnormal({"ma"}, {})

\* The controller looks for sector sec of the read command it has.
Look(sec) ==
  LET track == fdc.cmd[3]
      side == fdc.cmd[4]
      steady == [fdc EXCEPT !.steps = "no"]
      Fail(kind) == fdc' = Answer(steady, Failure(kind))
  IN /\ drive # NoDisk /\ fdc.steps # "moving"
     /\ \/ /\ Exists(drive, track, side, sec)
           /\ SectorNumber(drive, track, side, sec) \notin drive.bad
           /\ fdc' = [steady EXCEPT !.rqm = TRUE, !.phase = "exec", !.sec = sec]
           /\ UNCHANGED <<errorsLeft, faulty>>
        \/ /\ ~Exists(drive, track, side, sec)
           /\ Fail("nd")
           /\ UNCHANGED <<errorsLeft, faulty>>
        \/ /\ Exists(drive, track, side, sec)
           /\ SectorNumber(drive, track, side, sec) \in drive.bad
           /\ Fail("dd")
           /\ UNCHANGED <<errorsLeft, faulty>>
        \/ /\ errorsLeft > 0
           /\ \E kind \in {"nd", "dd", "ma"} : Fail(kind)
           /\ errorsLeft' = errorsLeft - 1
           /\ faulty' = TRUE

\* A command byte has come: another is wanted, or the command is carried out.
FdcCommand ==
  /\ ~fdc.rqm /\ fdc.phase = "command"
  /\ IF Len(fdc.cmd) < CommandBytes(fdc.cmd[1])
     THEN fdc' = [fdc EXCEPT !.rqm = TRUE] /\ UNCHANGED <<errorsLeft, faulty>>
     ELSE \/ fdc.cmd[1] = READ_DATA /\ Look(fdc.cmd[5])
          \/ /\ fdc.cmd[1] # READ_DATA
             /\ fdc' = CASE fdc.cmd[1] = RECALIBRATE ->
                              [Idle(fdc) EXCEPT !.steps = "moving"]
                         [] fdc.cmd[1] = SENSE_INT /\ fdc.steps = "moved" ->
                              [Answer(fdc, <<{}, {}>>) EXCEPT !.steps = "no"]
                         [] fdc.cmd[1] = SENSE_INT /\ fdc.steps # "moved" ->
                              Answer(fdc, <<{"ic"}>>)
                         [] fdc.cmd[1] \in {CONFIGURE, SPECIFY, MODE} -> Idle(fdc)
             /\ UNCHANGED <<errorsLeft, faulty>>
  /\ UNCHANGED <<driverVars, drive, moved, loadsLeft>>

\* The driver has taken a sector: the next one, or the result; nobody signals the
\* end of the transfer (TC), so that even a good read ends beyond its last sector.
FdcNextSector ==
  /\ ~fdc.rqm /\ fdc.phase = "exec"
  /\ IF fdc.sec = fdc.cmd[7]
     THEN fdc' = Answer(fdc, EndOfTrack) /\ UNCHANGED <<errorsLeft, faulty>>
     ELSE Look(fdc.sec + 1)
  /\ UNCHANGED <<driverVars, drive, moved, loadsLeft>>

FdcResult ==
  /\ ~fdc.rqm /\ fdc.phase = "result"
  /\ fdc' = IF fdc.out = <<>> THEN Idle(fdc) ELSE [fdc EXCEPT !.rqm = TRUE]
  /\ UNCHANGED <<driverVars, drive, moved, faulty, budget>>

FdcStepped ==
  /\ fdc.steps = "moving"
  /\ fdc' = [fdc EXCEPT !.steps = "moved"]
  /\ UNCHANGED <<driverVars, drive, moved, faulty, budget>>

----------------------------------------------------------------------------
(* Do_Command: one action per branch of its wait loops                      *)

\* A slip: A2 is not put back behind a command.
DoKeepsA2(op, args, to) ==
  /\ pc' = "DCL5" /\ cmd' = <<op>> \o args
  /\ dest' = to /\ resAt' = resAt /\ moved' = <<>>

Do(op, args, to) ==
  /\ pc' = "DCL5" /\ cmd' = <<op>> \o args
  /\ dest' = to /\ resAt' = 1 /\ moved' = <<>>

Write(b) == fdc' = [fdc EXCEPT !.cmd = Append(@, b), !.rqm = FALSE, !.phase = "command"]

\* DCL5: the first byte, unless the controller is amid something else: then back at once.
FirstByte ==
  /\ pc = "DCL5" /\ fdc.rqm
  /\ IF Busy THEN pc' = "DCL_END" /\ UNCHANGED <<fdc, cmd>>
             ELSE pc' = "DCL1" /\ Write(Head(cmd)) /\ cmd' = Tail(cmd)
  /\ UNCHANGED <<at, dest, resAt, result, read, callVars, drive, moved, faulty, budget>>

NextByte ==
  /\ pc = "DCL1" /\ fdc.rqm /\ fdc.phase = "command"
  /\ Write(Head(cmd)) /\ cmd' = Tail(cmd)
  /\ UNCHANGED <<at, pc, dest, resAt, result, read, callVars, drive, moved, faulty, budget>>

\* A buffer with a sector put down at an offset.
Put(buffer, off, sector) ==
  [o \in DOMAIN buffer \cup {off} |-> IF o = off THEN sector ELSE buffer[o]]

\* DCL_READ: the sector goes to A1.
TakeData ==
  /\ pc \in {"DCL1", "DCL3"} /\ fdc.rqm /\ Executing
  /\ LET n == SectorNumber(drive, fdc.cmd[3], fdc.cmd[4], fdc.sec)
         sector == [disk |-> drive.id, number |-> n]
     IN /\ IF dest.to = "sektor"
           THEN sektor' = sector /\ UNCHANGED load
           ELSE load' = Put(load, dest.off, sector) /\ UNCHANGED sektor
        /\ moved' = Append(moved, n)
  /\ dest' = [dest EXCEPT !.off = @ + SectorBytes]
  /\ fdc' = [fdc EXCEPT !.rqm = FALSE]
  /\ pc' = "DCL3"
  /\ UNCHANGED <<at, cmd, resAt, result, read, job, bpb, dsb, file, currErr, drive,
                 faulty, budget>>

\* A slip: the result is taken to be one byte long.
TakeResultOnce ==
  /\ pc \in {"DCL1", "DCL3", "DCL4"} /\ fdc.rqm /\ fdc.phase = "result"
  /\ result' = [result EXCEPT ![resAt] = Head(fdc.out)]
  /\ resAt' = resAt + 1
  /\ fdc' = [fdc EXCEPT !.out = Tail(@), !.rqm = FALSE]
  /\ pc' = "DCL_END"
  /\ UNCHANGED <<at, cmd, dest, read, callVars, drive, moved, faulty, budget>>

\* DCL_RESULT: the result byte goes to A2.
TakeResult ==
  /\ pc \in {"DCL1", "DCL3", "DCL4"} /\ fdc.rqm /\ fdc.phase = "result"
  /\ result' = [result EXCEPT ![resAt] = Head(fdc.out)]
  /\ resAt' = resAt + 1
  /\ fdc' = [fdc EXCEPT !.out = Tail(@), !.rqm = FALSE]
  /\ pc' = "DCL4"
  /\ UNCHANGED <<at, cmd, dest, read, callVars, drive, moved, faulty, budget>>

CommandEnds ==
  /\ pc \in {"DCL1", "DCL3", "DCL4"} /\ fdc.rqm /\ ~Busy
  /\ pc' = "DCL_END"
  /\ UNCHANGED <<at, cmd, dest, resAt, result, read, callVars, fdc, drive, moved, faulty,
                 budget>>

----------------------------------------------------------------------------
(* Floprd, getbpb, readabs, Fsfirst, readfile                               *)

Sektor == [to |-> "sektor", off |-> 0]
TosLoadBuffer == [to |-> "load", off |-> 0]

\* Floprd up to its Do_Command.
Floprd(track, side, sec, count, to) ==
  /\ read' = [track |-> track, side |-> side, sec |-> sec, count |-> count]
  /\ Do(READ_DATA, <<128 + (4 * (side % 2)), track % 256, side % 256, sec % 256, 2,
                     (sec + count - 1) % 256, 27, 255>>, to)

\* What Floprd makes of ResultBuffer.
FloprdError ==
  IF result[1] = {} \/ "en" \in result[2] THEN 0
  ELSE IF "nd" \in result[2] THEN e_rnf
  ELSE IF "dd" \in result[3] THEN e_crc
  ELSE e_read

\* The boot sector fields in SektorPuffer (anything else there has no sector size).
Boot == IF drive # NoDisk /\ sektor = [disk |-> drive.id, number |-> 0]
        THEN drive
        ELSE [bps |-> 0, spc |-> 0, ndirs |-> 0, nsects |-> 0, spf |-> 0, spt |-> 0,
              nsides |-> 0]

BpbUsable(b) == Signed(b.bps) > 0 /\ b.spc % 256 # 0

\* The bpb getbpb computes: one reserved sector and two FATs, whatever the disk says.
Bpb(b) ==
  LET fatrec == (b.spf + 1) % Word
      rdlen == Divu(b.ndirs * 32, b.bps).quot
      datrec == (rdlen + fatrec + b.spf) % Word
  IN [recsize |-> b.bps, clsize |-> b.spc % 256, fsiz |-> b.spf, fatrec |-> fatrec,
      rdlen |-> rdlen, datrec |-> datrec,
      numcl |-> Divu((b.nsects - datrec) % Word, b.spc % 256).quot]

Dsb(b) == [dnsides |-> b.nsides, dspt |-> b.spt, dspc |-> (b.spt * b.nsides) % Word]

\* A slip: the first sector of the second side counts as the first side's.
ReadAbsSide(j, geometry) ==
  LET d == Divu(j.sect, geometry.dspc)
      second == Signed(d.rem) > Signed(geometry.dspt)
      rest == IF second THEN (d.rem - geometry.dspt) % Word ELSE d.rem
      most == (geometry.dspt - rest) % Word
  IN /\ job' = j
     /\ Floprd(d.quot, IF second THEN 1 ELSE 0, rest + 1,
               IF most <= j.count THEN most ELSE j.count, j.to)

\* One turn of readabs (rdabs_2): as much of the job as lies on one side of a track.
ReadAbs(j, geometry) ==
  LET d == Divu(j.sect, geometry.dspc)
      second == Signed(d.rem) >= Signed(geometry.dspt)
      rest == IF second THEN (d.rem - geometry.dspt) % Word ELSE d.rem
      most == (geometry.dspt - rest) % Word
  IN /\ job' = j
     /\ Floprd(d.quot, IF second THEN 1 ELSE 0, rest + 1,
               IF most <= j.count THEN most ELSE j.count, j.to)

\* A slip: the next turn goes to the same place of the buffer.
RestSamePlace ==
  IF FloprdError # 0 THEN [job EXCEPT !.count = 0]
  ELSE [sect |-> job.sect + read.count, to |-> job.to,
        count |-> (job.count - read.count) % Word]

\* A slip: a turn that failed is tried again.
RestAgain ==
  IF FloprdError # 0 THEN job
  ELSE [sect |-> job.sect + read.count,
        to |-> [job.to EXCEPT !.off = @ + (bpb.recsize * read.count)],
        count |-> (job.count - read.count) % Word]

\* What is left of the job after a turn: nothing behind an error.
Rest ==
  IF FloprdError # 0 THEN [job EXCEPT !.count = 0]
  ELSE [sect |-> job.sect + read.count,
        to |-> [job.to EXCEPT !.off = @ + (bpb.recsize * read.count)],
        count |-> (job.count - read.count) % Word]

\* Fsfirst's search: the first of the 16 entries of the sector read that has the name.
ToUpper(name) == IF name = "tos.img" THEN "TOS.IMG" ELSE name
RootSector(d) == d.res + (d.fats * d.spf)
Slots ==
  IF drive = NoDisk \/ sektor.disk # drive.id THEN {}
  ELSE {s \in DOMAIN drive.root :
          /\ s \div 16 = sektor.number - RootSector(drive)
          /\ ToUpper(drive.root[s].name) = "TOS.IMG"}
Found == drive.root[CHOOSE s \in Slots : \A t \in Slots : s <= t]

FileStart(entry) == (((entry.cluster - 2) % Word) * bpb.clsize) + bpb.datrec
FileSectors(entry) == Divu(entry.size + bpb.recsize - 1, bpb.recsize).quot

Stay == UNCHANGED <<fdc, drive, loadsLeft, errorsLeft>>
Leave(err) == /\ at' = "done" /\ pc' = "DCL_END" /\ currErr' = err
              /\ UNCHANGED <<cmd, dest, resAt, read, job, moved>>

\* getbpb's call of Floprd for the boot sector.
ReadBoot(step) == at' = step /\ Floprd(0, 0, 1, 1, Sektor)

\* load_tos: Flopinit begins with RECALIBRATE. The user may have changed the disk.
LoadTos ==
  /\ at \in {"out", "done"} /\ loadsLeft > 0
  /\ at' = "recal" /\ Do(RECALIBRATE, <<0>>, Sektor)
  /\ drive' \in Disks \cup {NoDisk}
  /\ loadsLeft' = loadsLeft - 1 /\ faulty' = FALSE
  /\ UNCHANGED <<result, read, callVars, fdc, errorsLeft>>

\* The rest of Flopinit: an interrupt of the drive is sensed when its busy bit is on.
FlopinitNext ==
  /\ pc = "DCL_END"
  /\ \/ /\ at = "recal" /\ Stepping
        /\ at' = "sense" /\ Do(SENSE_INT, <<>>, dest)
     \/ /\ at = "sense" \/ (at = "recal" /\ ~Stepping)
        /\ at' = "conf" /\ Do(CONFIGURE, <<0, 96, 0>>, dest)
     \/ at = "conf" /\ at' = "spec" /\ Do(SPECIFY, <<175, 3>>, dest)
     \/ at = "spec" /\ at' = "mode" /\ Do(MODE, <<34, 0, 200, 0>>, dest)
  /\ UNCHANGED <<result, read, callVars, faulty>> /\ Stay

\* Motor_on, then getbpb for the first time.
FirstGetbpb ==
  /\ pc = "DCL_END" /\ at = "mode"
  /\ ReadBoot("bpb1")
  /\ UNCHANGED <<result, callVars, faulty>> /\ Stay

\* getbpb behind its Floprd, then getbpb again, or Fsfirst, or the end. Sectors per
\* cylinder that are 0 (in 16 bits) trap in the division that counts the tracks.
Getbpb ==
  /\ pc = "DCL_END" /\ at \in {"bpb1", "bpb2"}
  /\ IF FloprdError # 0 \/ ~BpbUsable(Boot)
     THEN /\ bpb' = IF FloprdError = 0 /\ Signed(Boot.bps) > 0
                    THEN [bpb EXCEPT !.recsize = Boot.bps] ELSE bpb
          /\ UNCHANGED dsb
          /\ IF at = "bpb1"
             THEN ReadBoot("bpb2") /\ currErr' = e_error /\ UNCHANGED job
             ELSE Leave(e_error)
     ELSE /\ bpb' = Bpb(Boot) /\ dsb' = Dsb(Boot)
          /\ IF dsb'.dspc = 0
             THEN /\ at' = "trap"
                  /\ UNCHANGED <<pc, cmd, dest, resAt, read, job, moved, currErr>>
             ELSE /\ currErr' = 0
                  /\ IF at = "bpb1"
                     THEN ReadBoot("bpb2") /\ UNCHANGED job
                     ELSE /\ at' = "dir"
                          /\ ReadAbs([sect |-> (bpb'.fatrec + bpb'.fsiz) % Word,
                                      to |-> Sektor, count |-> 1], dsb')
  /\ UNCHANGED <<result, file, sektor, load, faulty>> /\ Stay

\* readabs behind a Floprd that leaves something to read.
NextTurn ==
  /\ pc = "DCL_END" /\ at \in {"dir", "file"} /\ Rest.count # 0
  /\ currErr' = FloprdError
  /\ ReadAbs(Rest, dsb)
  /\ UNCHANGED <<at, result, bpb, dsb, file, sektor, load, faulty>> /\ Stay

\* readabs behind its last Floprd.
LastTurn == pc = "DCL_END" /\ Rest.count = 0

\* Fsfirst behind its readabs, then readfile up to its first turn, or the end.
Fsfirst ==
  /\ at = "dir" /\ LastTurn
  /\ IF FloprdError # 0 \/ Slots = {}
     THEN Leave(e_error) /\ UNCHANGED file
     ELSE /\ file' = [start |-> FileStart(Found), size |-> Found.size]
          /\ IF FileSectors(Found) = 0
             THEN Leave(0)
             ELSE /\ at' = "file" /\ currErr' = 0
                  /\ ReadAbs([sect |-> file'.start, to |-> TosLoadBuffer,
                              count |-> FileSectors(Found)], dsb)
  /\ UNCHANGED <<result, bpb, dsb, sektor, load, faulty>> /\ Stay

\* readfile behind its readabs.
ReadFile ==
  /\ at = "file" /\ LastTurn
  /\ Leave(FloprdError)
  /\ UNCHANGED <<result, bpb, dsb, file, sektor, load, faulty>> /\ Stay

\* The user puts a disk into the empty drive while the machine waits.
Insert ==
  /\ drive = NoDisk /\ drive' \in Disks
  /\ UNCHANGED <<driverVars, fdc, moved, faulty, budget>>

----------------------------------------------------------------------------
(* The specification                                                        *)

\* Behind a reset: the controller is idle, the boot block's variables are what RAM holds.
Init ==
  /\ at = "out" /\ pc = "DCL_END" /\ cmd = <<>> /\ dest = Sektor /\ resAt = 1
  /\ result \in {<<st0, {}, {}, {}>> : st0 \in {{}, {"ic"}}}
  /\ read = [track |-> 0, side |-> 0, sec |-> 0, count |-> 0]
  /\ job = [sect |-> 0, to |-> Sektor, count |-> 0]
  /\ bpb = [recsize |-> 0, clsize |-> 0, fsiz |-> 0, fatrec |-> 0, rdlen |-> 0,
            datrec |-> 0, numcl |-> 0]
  /\ dsb = [dnsides |-> 0, dspt |-> 0, dspc |-> 0]
  /\ file = [start |-> 0, size |-> 0]
  /\ sektor = [disk |-> "none", number |-> 0] /\ load = <<>> /\ currErr = 0
  /\ fdc = [rqm |-> TRUE, phase |-> "idle", cmd |-> <<>>, out |-> <<>>, sec |-> 0,
            steps |-> "no"]
  /\ drive \in Disks \cup {NoDisk} /\ moved = <<>> /\ faulty = FALSE
  /\ loadsLeft = MaxLoads /\ errorsLeft = MaxErrors

Fdc == FdcCommand \/ FdcNextSector \/ FdcResult \/ FdcStepped
DoCommand == FirstByte \/ NextByte \/ TakeData \/ TakeResult \/ CommandEnds
Driver == DoCommand \/ FlopinitNext \/ FirstGetbpb \/ Getbpb \/ NextTurn \/ Fsfirst
          \/ ReadFile

\* load_tos has returned for the last time, or the processor has trapped.
Ended == at = "trap" \/ (at = "done" /\ loadsLeft = 0)

Next == Fdc \/ Driver \/ LoadTos \/ Insert \/ (Ended /\ UNCHANGED vars)

\* The processor runs on, and the controller goes on with what it was told.
Fairness == WF_vars(Driver) /\ WF_vars(Fdc)
Spec == Init /\ [][Next]_vars /\ Fairness

----------------------------------------------------------------------------
(* Properties                                                               *)

\* Every variable has the values the driver and the controller can give it.
TypeOK ==
  /\ at \in {"out", "recal", "sense", "conf", "spec", "mode", "bpb1", "bpb2", "dir", "file",
            "done", "trap"}
  /\ pc \in {"DCL5", "DCL1", "DCL3", "DCL4", "DCL_END"}
  /\ cmd \in Seq(0..255) /\ dest.off \in Nat /\ resAt \in 1..5
  /\ result[1] \subseteq {"at", "ic"}
  /\ result[2] \subseteq {"en", "nd", "de", "ma"}
  /\ result[3] \subseteq {"dd"} /\ result[4] = {}
  /\ \A r \in {job.count, read.count, dsb.dspt, dsb.dspc, bpb.datrec, bpb.recsize} :
       r \in 0..(Word - 1)
  /\ currErr \in {0, e_error, e_crc, e_rnf, e_read}
  /\ fdc.rqm \in BOOLEAN /\ fdc.phase \in {"idle", "command", "exec", "result"}
  /\ fdc.cmd \in Seq(0..255) /\ Len(fdc.out) <= 4
  /\ fdc.steps \in {"no", "moving", "moved"}
  /\ drive \in Disks \cup {NoDisk}
  /\ loadsLeft \in 0..MaxLoads /\ errorsLeft \in 0..MaxErrors

\* A Floprd without an error has brought the sectors it was asked for, in their order.
\* ResultBuffer is never cleared, and Do_Command returns silently when the controller
\* is not idle: what Floprd judges by must never be the result of an earlier command.
ReadReported ==
  (pc = "DCL_END" /\ at \in {"bpb1", "bpb2", "dir", "file"} /\ FloprdError = 0) =>
    moved = [i \in 1..read.count |->
               SectorNumber(drive, read.track, read.side, read.sec + i - 1)]

\* The entry of the file among the first 16 of the root directory, in either case.
IsTos(entry) == entry.name \in {"TOS.IMG", "tos.img"}
HasFile(d) == \E s \in DOMAIN d.root : s < 16 /\ IsTos(d.root[s])
FileEntry(d) == CHOOSE e \in {d.root[s] : s \in DOMAIN d.root} : IsTos(e)

\* The numbers of the sectors of the file, by its chain of clusters.
DataSector(d) == RootSector(d) + (d.ndirs \div 16)
FileSector(d, i) ==
  DataSector(d) + ((d.chain[1 + (i \div d.spc)] - 2) * d.spc) + (i % d.spc)
SectorsOfFile(d) == (FileEntry(d).size + SectorBytes - 1) \div SectorBytes

\* The clusters of the file follow one another from the one its entry names, are enough
\* for it, and lie on the disk.
InOnePiece(d) ==
  LET first == FileEntry(d).cluster
  IN /\ first >= 2 /\ \A i \in DOMAIN d.chain : d.chain[i] = first + i - 1
     /\ SectorsOfFile(d) <= Len(d.chain) * d.spc
     /\ DataSector(d) + ((first - 2 + Len(d.chain)) * d.spc) <= d.nsects

\* A disk as the driver expects it: its boot sector tells the truth, there is one
\* reserved sector and there are two FATs, the root directory lies on the disk and has
\* the name of the file at most once, and no cluster of the file lies apart.
Regular(d) ==
  /\ d.bps = SectorBytes /\ d.spc \in 1..255 /\ d.res = 1 /\ d.fats = 2 /\ d.ndirs % 16 = 0
  /\ d.spt = d.realSpt /\ d.nsides = d.realSides
  /\ d.nsects = d.spt * d.nsides * d.tracks /\ DataSector(d) <= d.nsects
  /\ DOMAIN d.root \subseteq 0..(d.ndirs - 1)
  /\ \A s, t \in DOMAIN d.root : IsTos(d.root[s]) /\ IsTos(d.root[t]) => s = t
  /\ HasFile(d) /\ FileEntry(d).size > 0 => InOnePiece(d)

\* When load_tos reports success the load buffer holds the file of the disk in the
\* drive, sector by sector, however its sectors lie across sides and tracks, and
\* whatever an earlier load has left in the buffer.
FileLoaded ==
  (at = "done" /\ currErr = 0 /\ Regular(drive)) =>
    \A i \in 0..(SectorsOfFile(drive) - 1) :
      /\ SectorBytes * i \in DOMAIN load
      /\ load[SectorBytes * i] = [disk |-> drive.id, number |-> FileSector(drive, i)]

\* What load_tos says fits the disk. Without a passing error a regular disk that has
\* the file is loaded, a bad sector under the file or a missing file is reported, and
\* so is a boot sector without a sector or cluster size, and a boot sector or a root
\* directory that cannot be read. Only a boot sector that has these sizes but no
\* sectors per cylinder traps (the comments of getbpb check the sizes).
LoadOutcome ==
  /\ at = "trap" => BpbUsable(drive) /\ (drive.spt * drive.nsides) % Word = 0
  /\ at = "done" =>
       IF 0 \in drive.bad \/ ~BpbUsable(drive) THEN currErr = e_error
       ELSE Regular(drive) =>
              IF RootSector(drive) \in drive.bad \/ ~HasFile(drive) THEN currErr = e_error
              ELSE IF \E i \in 0..(SectorsOfFile(drive) - 1) :
                        FileSector(drive, i) \in drive.bad
                   THEN currErr # 0
                   ELSE faulty \/ currErr = 0

\* The driver waits for the controller without a time-out (floppy.s:135). A load ends
\* nevertheless once there is a disk in the drive: no wait, no retry goes on for ever.
DiskLoadEnds ==
  (at \notin {"out", "done", "trap"} /\ drive # NoDisk) ~> (at \in {"done", "trap"})

=============================================================================
