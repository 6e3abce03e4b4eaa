-------------------------- MODULE FloppyReadProofs --------------------------
(***************************************************************************)
(* Proofs about FloppyRead, for any set of floppies whatever they hold.      *)
(*                                                                         *)
(* Floprd judges a read by ResultBuffer, which nobody clears, and Do_Command  *)
(* gives up silently on a controller that is not idle. That the judgement is  *)
(* about the read just made rests on the handshake: what the controller has   *)
(* taken of a command and what the driver still has to send are together the  *)
(* command (CommandInv), each phase of the controller goes with its wait loop *)
(* (PhaseInv), and the bytes of the result go to ResultBuffer one by one      *)
(* (ResultInv).                                                              *)
(*                                                                         *)
(* From the reads follows the load (LoadInv): what of the file lies before the  *)
(* job of readabs is in the load buffer, each read brings the next part of it,  *)
(* no bad sector is delivered, and a read that fails can be blamed on one that  *)
(* it asked for or on a passing error.                                       *)
(***************************************************************************)
EXTENDS FloppyRead, TLAPS, NaturalsInduction, WellFoundedInduction, SequenceTheorems

Words == 0..(Word - 1)
Bytes == 0..255
Place == [to : {"sektor", "load"}, off : Nat]
Reads == {"bpb1", "bpb2", "dir", "file"}
Commands == {"recal", "sense", "conf", "spec", "mode"} \cup Reads

\* The arguments of a Floprd.
Arguments == [track : Nat, side : {0, 1}, sec : Nat, count : Words]

\* The command that load_tos has Do_Command send at each step.
CommandAt(step, r) ==
  CASE step = "recal" -> <<RECALIBRATE, 0>>
    [] step = "sense" -> <<SENSE_INT>>
    [] step = "conf" -> <<CONFIGURE, 0, 96, 0>>
    [] step = "spec" -> <<SPECIFY, 175, 3>>
    [] step = "mode" -> <<MODE, 34, 0, 200, 0>>
    [] OTHER -> <<READ_DATA, 128 + (4 * (r.side % 2)), r.track % 256, r.side % 256,
                  r.sec % 256, 2, (r.sec + r.count - 1) % 256, 27, 255>>
Asked == CommandAt(at, read)

\* The bits of the status bytes, and of each of them.
Bits == {"at", "ic", "en", "nd", "de", "ma", "dd"}
StatusByte(i) == CASE i = 1 -> SUBSET {"at", "ic"}
                   [] i = 2 -> SUBSET {"en", "nd", "de", "ma"}
                   [] i = 3 -> SUBSET {"dd"}
                   [] OTHER -> {{}}

DriverType ==
  /\ at \in {"out", "recal", "sense", "conf", "spec", "mode", "bpb1", "bpb2", "dir", "file",
            "done", "trap"}
  /\ pc \in {"DCL5", "DCL1", "DCL3", "DCL4", "DCL_END"}
  /\ cmd \in Seq(Bytes) /\ dest \in Place /\ resAt \in 1..5
  /\ currErr \in {0, e_error, e_crc, e_rnf, e_read}

ResultType == /\ DOMAIN result = 1..4
              /\ \A i \in 1..4 : result[i] \in StatusByte(i)

ReadType == read \in Arguments

DiskType ==
  /\ job \in [sect : Nat, to : Place, count : Words]
  /\ bpb \in [recsize : Words, clsize : Nat, fsiz : Nat, fatrec : Nat, rdlen : Nat,
              datrec : Words, numcl : Nat]
  /\ dsb \in [dnsides : Nat, dspt : Words, dspc : Words]

\* The controller's registers.
FdcRecord == [rqm : BOOLEAN, phase : {"idle", "command", "exec", "result"},
              cmd : Seq(Bytes), out : Seq(SUBSET Bits), sec : Nat,
              steps : {"no", "moving", "moved"}]
FdcType == fdc \in FdcRecord

BoundType == /\ drive \in Disks \cup {NoDisk}
             /\ loadsLeft \in 0..MaxLoads /\ errorsLeft \in 0..MaxErrors

\* A geometry to divide by, and a sector size.
GeometryInv == /\ at \in {"dir", "file"} => dsb.dspc # 0
               /\ at \in {"dir", "file"} => bpb.recsize # 0
               /\ at \in Reads => read.sec >= 1

\* What the controller has of the command and what the driver will send make it up.
CommandInv ==
  /\ fdc.phase = "idle" => fdc.cmd = <<>>
  /\ at \in Commands /\ (fdc.phase # "idle" \/ pc = "DCL5") =>
       /\ Len(fdc.cmd) + Len(cmd) = Len(Asked)
       /\ \A i \in 1..Len(fdc.cmd) : fdc.cmd[i] = Asked[i]
       /\ \A i \in 1..Len(cmd) : cmd[i] = Asked[Len(fdc.cmd) + i]
  /\ fdc.phase # "idle" => Len(fdc.cmd) >= 1
  /\ fdc.phase \in {"exec", "result"} => cmd = <<>>

\* Each phase of the controller, and the loops the driver may be in.
PhaseInv ==
  /\ at \notin Commands => pc = "DCL_END"
  /\ pc \in {"DCL5", "DCL_END"} => fdc.phase = "idle"
  /\ fdc.phase = "idle" => fdc.rqm
  /\ fdc.phase = "command" => pc = "DCL1" /\ resAt = 1 /\ (fdc.rqm => cmd # <<>>)
  /\ fdc.phase = "exec" => at \in Reads /\ pc \in {"DCL1", "DCL3"} /\ resAt = 1
  /\ fdc.phase = "result" => /\ at \in Reads \cup {"sense"}
                             /\ pc \in {"DCL1", "DCL3", "DCL4"}
                             /\ fdc.rqm => fdc.out # <<>>
                             /\ ~fdc.rqm => pc = "DCL4"
                             /\ at \in Reads => resAt + Len(fdc.out) = 5
  /\ pc = "DCL5" => resAt = 1
  /\ (at \in Reads /\ fdc.phase = "idle" /\ pc # "DCL5") =>
       resAt = 5 /\ pc \in {"DCL4", "DCL_END"}

\* A result is at most as long as ResultBuffer, which takes it from the front.
ResultInv ==
  /\ fdc.phase = "result" =>
       /\ resAt + Len(fdc.out) <= 5
       /\ \A i \in 1..Len(fdc.out) : fdc.out[i] \in StatusByte(resAt + i - 1)
  /\ fdc.phase # "result" => fdc.out = <<>>

TypeInv ==
  /\ DriverType /\ ResultType /\ ReadType /\ DiskType /\ FdcType /\ BoundType
  /\ GeometryInv /\ CommandInv /\ PhaseInv /\ ResultInv

\* The sectors delivered so far are those the command names, one after the other; the
\* transfer goes on until the one the command names as the last.
MovedInv ==
  /\ moved \in Seq(Int)
  /\ at \in Reads =>
       \A i \in 1..Len(moved) :
         moved[i] = SectorNumber(drive, Asked[3], Asked[4], Asked[5] + i - 1)
  /\ at \in Reads /\ (pc = "DCL5" \/ fdc.phase = "command") => moved = <<>>
  /\ fdc.phase = "exec" =>
       /\ drive # NoDisk /\ fdc.sec >= Asked[5]
       /\ fdc.sec = Asked[5] + Len(moved) - (IF fdc.rqm THEN 0 ELSE 1)
       /\ Asked[7] \notin Asked[5]..(fdc.sec - 1)

\* The end of a read: the bytes of a result that are still to come and those that have
\* come are one result, which says "end of track" only behind the last sector.
Complete == /\ drive # NoDisk
            /\ Asked[7] >= Asked[5]
            /\ Len(moved) = Asked[7] - Asked[5] + 1
Verdicts == {EndOfTrack} \cup {Failure(k) : k \in {"nd", "dd", "ma"}}
Outcome(v) ==
  /\ v = EndOfTrack => Complete
  /\ \A i \in 1..(resAt - 1) : result[i] = v[i]
  /\ fdc.phase = "result" => \A i \in 1..Len(fdc.out) : fdc.out[i] = v[resAt + i - 1]
OutcomeInv ==
  (at \in Reads /\ (fdc.phase = "result" \/ (fdc.phase = "idle" /\ pc # "DCL5"))) =>
    /\ drive # NoDisk
    /\ \E v \in Verdicts : Outcome(v)

ReadInv == MovedInv /\ OutcomeInv

-----------------------------------------------------------------------------
(* Words and bytes *)

LEMMA WordIsPositive == Word \in Nat /\ Word > 255
BY DEF Word

\* What arithmetic in 16 and 8 bits gives.
LEMMA WordFacts ==
  /\ \A n : n \in Bytes <=> n \in Nat /\ n < 256
  /\ \A n : n \in Words <=> n \in Nat /\ n < Word
  /\ \A n \in Int : n % Word \in Words /\ n % 256 \in Bytes
  /\ \A n \in Nat : n \div Word \in Nat
BY WordIsPositive DEF Words, Bytes

-----------------------------------------------------------------------------
(* The driver's commands *)

JobType == [sect : Nat, to : Place, count : Words]

\* What a call of Do_Command leaves for it to do.
Begins ==
  /\ pc' = "DCL5" /\ cmd' = Asked' /\ dest' \in Place /\ resAt' = 1 /\ moved' = <<>>

\* How many bytes each command has.
LEMMA CommandLengths ==
  /\ CommandBytes(RECALIBRATE) = 2 /\ CommandBytes(SENSE_INT) = 1
  /\ CommandBytes(CONFIGURE) = 4 /\ CommandBytes(SPECIFY) = 3
  /\ CommandBytes(MODE) = 5 /\ CommandBytes(READ_DATA) = 9
BY DEF CommandBytes, RECALIBRATE, SENSE_INT, CONFIGURE, SPECIFY, MODE, READ_DATA

\* The commands of Flopinit and the one of Floprd.
LEMMA CommandCases ==
  ASSUME NEW step, NEW r
  PROVE  /\ CommandAt("recal", r) = <<7, 0>>
         /\ CommandAt("sense", r) = <<8>>
         /\ CommandAt("conf", r) = <<67, 0, 96, 0>>
         /\ CommandAt("spec", r) = <<3, 175, 3>>
         /\ CommandAt("mode", r) = <<1, 34, 0, 200, 0>>
         /\ step \notin {"recal", "sense", "conf", "spec", "mode"} =>
              CommandAt(step, r) =
                <<70, 128 + (4 * (r.side % 2)), r.track % 256, r.side % 256,
                  r.sec % 256, 2, (r.sec + r.count - 1) % 256, 27, 255>>
BY DEF CommandAt, RECALIBRATE, SENSE_INT, CONFIGURE, SPECIFY, MODE, READ_DATA

\* The arguments of a Floprd as it sends them.
LEMMA ReadBytes ==
  ASSUME NEW r \in Arguments
  PROVE  /\ 128 + (4 * (r.side % 2)) \in Bytes
         /\ r.track % 256 \in Bytes /\ r.side % 256 \in Bytes /\ r.sec % 256 \in Bytes
         /\ (r.sec + r.count - 1) % 256 \in Bytes
<1>1. /\ r.side \in {0, 1} /\ r.side \in Int /\ r.track \in Int
      /\ r.sec \in Int /\ r.count \in Int
  BY WordFacts DEF Arguments
<1>2. \A n \in Int : n % 256 \in Bytes
  BY DEF Bytes
<1>3. r.sec + r.count - 1 \in Int
  BY <1>1
<1>4. 128 + (4 * (r.side % 2)) \in Bytes
  BY <1>1 DEF Bytes
<1>5. QED
  BY <1>1, <1>2, <1>3, <1>4

\* A command is bytes, the first of which says how many.
LEMMA CommandFacts ==
  ASSUME NEW step, NEW r \in Arguments, NEW c, c = CommandAt(step, r)
  PROVE  /\ c \in Seq(Bytes) /\ Len(c) >= 1 /\ Len(c) = CommandBytes(c[1])
         /\ c[1] \in {RECALIBRATE, SENSE_INT, CONFIGURE, SPECIFY, MODE, READ_DATA}
         /\ step \in Reads => c[1] = READ_DATA /\ Len(c) = 9
         /\ step \in Commands \ Reads => c[1] # READ_DATA
         /\ step \in Commands => (c[1] = SENSE_INT <=> step = "sense")
<1> USE DEF RECALIBRATE, SENSE_INT, CONFIGURE, SPECIFY, MODE, READ_DATA
<1>1. CASE step = "recal"
  <2>1. c = <<7, 0>>
    BY <1>1, CommandCases
  <2>2. c \in Seq(Bytes) /\ Len(c) = 2
    BY <2>1 DEF Bytes
  <2>3. c[1] = 7
    BY <2>1
  <2>4. Len(c) = CommandBytes(c[1])
    BY <2>2, <2>3, CommandLengths
  <2>5. QED
    BY <1>1, <2>2, <2>3, <2>4 DEF Reads
<1>2. CASE step = "sense"
  <2>1. c = <<8>>
    BY <1>2, CommandCases
  <2>2. c \in Seq(Bytes) /\ Len(c) = 1
    BY <2>1 DEF Bytes
  <2>3. c[1] = 8
    BY <2>1
  <2>4. Len(c) = CommandBytes(c[1])
    BY <2>2, <2>3, CommandLengths
  <2>5. QED
    BY <1>2, <2>2, <2>3, <2>4 DEF Reads
<1>3. CASE step = "conf"
  <2>1. c = <<67, 0, 96, 0>>
    BY <1>3, CommandCases
  <2>2. c \in Seq(Bytes) /\ Len(c) = 4
    BY <2>1 DEF Bytes
  <2>3. c[1] = 67
    BY <2>1
  <2>4. Len(c) = CommandBytes(c[1])
    BY <2>2, <2>3, CommandLengths
  <2>5. QED
    BY <1>3, <2>2, <2>3, <2>4 DEF Reads
<1>4. CASE step = "spec"
  <2>1. c = <<3, 175, 3>>
    BY <1>4, CommandCases
  <2>2. c \in Seq(Bytes) /\ Len(c) = 3
    BY <2>1 DEF Bytes
  <2>3. c[1] = 3
    BY <2>1
  <2>4. Len(c) = CommandBytes(c[1])
    BY <2>2, <2>3, CommandLengths
  <2>5. QED
    BY <1>4, <2>2, <2>3, <2>4 DEF Reads
<1>5. CASE step = "mode"
  <2>1. c = <<1, 34, 0, 200, 0>>
    BY <1>5, CommandCases
  <2>2. c \in Seq(Bytes) /\ Len(c) = 5
    BY <2>1 DEF Bytes
  <2>3. c[1] = 1
    BY <2>1
  <2>4. Len(c) = CommandBytes(c[1])
    BY <2>2, <2>3, CommandLengths
  <2>5. QED
    BY <1>5, <2>2, <2>3, <2>4 DEF Reads
<1>6. CASE step \notin {"recal", "sense", "conf", "spec", "mode"}
  <2> DEFINE b1 == 128 + (4 * (r.side % 2))
             b2 == r.track % 256
             b3 == r.side % 256
             b4 == r.sec % 256
             b6 == (r.sec + r.count - 1) % 256
  <2>1. c = <<70, b1, b2, b3, b4, 2, b6, 27, 255>>
    BY <1>6, CommandCases
  <2>2. {b1, b2, b3, b4, b6} \subseteq Bytes
    BY ReadBytes
  <2> HIDE DEF b1, b2, b3, b4, b6
  <2>3. c \in Seq(Bytes) /\ Len(c) = 9 /\ c[1] = READ_DATA
    <3>1. {70, 2, 27, 255} \subseteq Bytes
      BY DEF Bytes
    <3>2. QED
      BY <2>1, <2>2, <3>1
  <2>4. QED
    BY <1>6, <2>3, CommandLengths DEF Commands, Reads
<1>7. QED
  BY <1>1, <1>2, <1>3, <1>4, <1>5, <1>6

\* A command is its code and then its arguments.
LEMMA CodeAndArguments ==
  \A a \in Nat : \A t, u \in Seq(Nat) :
    (/\ Len(u) = Len(t) + 1 /\ u[1] = a
     /\ \A i \in 1..Len(t) : u[i + 1] = t[i]) => <<a>> \o t = u
<1> SUFFICES ASSUME NEW a \in Nat, NEW t \in Seq(Nat), NEW u \in Seq(Nat),
                    Len(u) = Len(t) + 1, u[1] = a, \A i \in 1..Len(t) : u[i + 1] = t[i]
             PROVE  <<a>> \o t = u
  OBVIOUS
<1> DEFINE S == Nat
<1> DEFINE s == <<a>> \o t
           n == Len(t)
<1>1. <<a>> \in Seq(S) /\ Len(<<a>>) = 1 /\ <<a>>[1] = a /\ n \in Nat
  OBVIOUS
<1>2. /\ s \in Seq(S) /\ Len(s) = 1 + n
      /\ \A i \in 1..(1 + n) : s[i] = IF i <= 1 THEN <<a>>[i] ELSE t[i - 1]
  BY <1>1, ConcatProperties
<1> HIDE DEF s
<1>3. ASSUME NEW i \in 1..Len(s) PROVE s[i] = u[i]
  <2>1. CASE i = 1
    BY <1>1, <1>2, <2>1
  <2>2. CASE i # 1
    <3>1. i - 1 \in 1..n /\ (i - 1) + 1 = i
      BY <1>1, <1>2, <2>2
    <3>2. u[i] = t[i - 1]
      BY <3>1
    <3>3. QED
      BY <1>1, <1>2, <2>2, <3>2
  <2>3. QED
    BY <2>1, <2>2
<1>4. Len(s) = Len(u)
  BY <1>1, <1>2
<1>5. s = u
  BY <1>2, <1>3, <1>4, SeqEqual
<1>6. QED
  BY <1>5 DEF s

\* The commands of Flopinit.
LEMMA FlopinitCommands ==
  /\ <<RECALIBRATE>> \o <<0>> = CommandAt("recal", read)
  /\ <<SENSE_INT>> \o <<>> = CommandAt("sense", read)
  /\ <<CONFIGURE>> \o <<0, 96, 0>> = CommandAt("conf", read)
  /\ <<SPECIFY>> \o <<175, 3>> = CommandAt("spec", read)
  /\ <<MODE>> \o <<34, 0, 200, 0>> = CommandAt("mode", read)
<1>1. <<7>> \o <<0>> = <<7, 0>>
  <2> DEFINE t == <<0>>  u == <<7, 0>>
  <2>1. t \in Seq(Nat) /\ u \in Seq(Nat) /\ Len(t) = 1 /\ Len(u) = 2 /\ u[1] = 7
        /\ \A i \in 1..1 : u[i + 1] = t[i]
    OBVIOUS
  <2> HIDE DEF t, u
  <2>2. /\ 7 \in Nat /\ t \in Seq(Nat) /\ u \in Seq(Nat) /\ Len(u) = Len(t) + 1
        /\ u[1] = 7 /\ \A i \in 1..Len(t) : u[i + 1] = t[i]
    BY <2>1
  <2>3. <<7>> \o t = u
    BY <2>2, CodeAndArguments
  <2>4. QED
    BY <2>3 DEF t, u
<1>2. <<8>> \o <<>> = <<8>>
  BY ConcatEmptySeq
<1>3. <<67>> \o <<0, 96, 0>> = <<67, 0, 96, 0>>
  <2> DEFINE t == <<0, 96, 0>>  u == <<67, 0, 96, 0>>
  <2>1. t \in Seq(Nat) /\ u \in Seq(Nat) /\ Len(t) = 3 /\ Len(u) = 4 /\ u[1] = 67
        /\ \A i \in 1..3 : u[i + 1] = t[i]
    OBVIOUS
  <2> HIDE DEF t, u
  <2>2. /\ 67 \in Nat /\ t \in Seq(Nat) /\ u \in Seq(Nat) /\ Len(u) = Len(t) + 1
        /\ u[1] = 67 /\ \A i \in 1..Len(t) : u[i + 1] = t[i]
    BY <2>1
  <2>3. <<67>> \o t = u
    BY <2>2, CodeAndArguments
  <2>4. QED
    BY <2>3 DEF t, u
<1>4. <<3>> \o <<175, 3>> = <<3, 175, 3>>
  <2> DEFINE t == <<175, 3>>  u == <<3, 175, 3>>
  <2>1. t \in Seq(Nat) /\ u \in Seq(Nat) /\ Len(t) = 2 /\ Len(u) = 3 /\ u[1] = 3
        /\ \A i \in 1..2 : u[i + 1] = t[i]
    OBVIOUS
  <2> HIDE DEF t, u
  <2>2. /\ 3 \in Nat /\ t \in Seq(Nat) /\ u \in Seq(Nat) /\ Len(u) = Len(t) + 1
        /\ u[1] = 3 /\ \A i \in 1..Len(t) : u[i + 1] = t[i]
    BY <2>1
  <2>3. <<3>> \o t = u
    BY <2>2, CodeAndArguments
  <2>4. QED
    BY <2>3 DEF t, u
<1>5. <<1>> \o <<34, 0, 200, 0>> = <<1, 34, 0, 200, 0>>
  <2> DEFINE t == <<34, 0, 200, 0>>  u == <<1, 34, 0, 200, 0>>
  <2>1. t \in Seq(Nat) /\ u \in Seq(Nat) /\ Len(t) = 4 /\ Len(u) = 5 /\ u[1] = 1
        /\ \A i \in 1..4 : u[i + 1] = t[i]
    OBVIOUS
  <2> HIDE DEF t, u
  <2>2. /\ 1 \in Nat /\ t \in Seq(Nat) /\ u \in Seq(Nat) /\ Len(u) = Len(t) + 1
        /\ u[1] = 1 /\ \A i \in 1..Len(t) : u[i + 1] = t[i]
    BY <2>1
  <2>3. <<1>> \o t = u
    BY <2>2, CodeAndArguments
  <2>4. QED
    BY <2>3 DEF t, u
<1>6. QED
  BY <1>1, <1>2, <1>3, <1>4, <1>5, CommandCases
     DEF RECALIBRATE, SENSE_INT, CONFIGURE, SPECIFY, MODE

\* Floprd gives Do_Command the bytes of its read.
LEMMA FloprdCall ==
  ASSUME NEW track \in Nat, NEW side \in {0, 1}, NEW sec \in Nat, NEW count \in Words,
         NEW to \in Place, at' \in Reads, Floprd(track, side, sec, count, to)
  PROVE  ReadType' /\ read'.sec = sec /\ Begins
<1> DEFINE r == [track |-> track, side |-> side, sec |-> sec, count |-> count]
           b1 == 128 + (4 * (side % 2))
           b2 == track % 256
           b3 == side % 256
           b4 == sec % 256
           b6 == (sec + count - 1) % 256
           t == <<b1, b2, b3, b4, 2, b6, 27, 255>>
           u == <<70, b1, b2, b3, b4, 2, b6, 27, 255>>
<1>1. read' = r /\ r \in Arguments
  BY DEF Floprd, Arguments
<1>2. /\ pc' = "DCL5" /\ cmd' = <<70>> \o t /\ dest' = to /\ resAt' = 1 /\ moved' = <<>>
  BY DEF Floprd, Do, READ_DATA
<1>3. Asked' = u
  <2>1. at' \notin {"recal", "sense", "conf", "spec", "mode"}
    BY DEF Reads
  <2>2. CommandAt(at', r) = u
    BY <2>1, CommandCases
  <2>3. QED
    BY <1>1, <2>2 DEF Asked
<1>4. {70, b1, b2, b3, b4, 2, b6, 27, 255} \subseteq Nat
  <2>1. {70, 2, 27, 255} \subseteq Bytes
    BY DEF Bytes
  <2>2. QED
    BY <1>1, <2>1, ReadBytes, WordFacts
<1> HIDE DEF b1, b2, b3, b4, b6
<1>5. t \in Seq(Nat) /\ u \in Seq(Nat) /\ Len(t) = 8 /\ Len(u) = 9 /\ u[1] = 70
      /\ \A i \in 1..8 : u[i + 1] = t[i]
  BY ONLY <1>4
<1> HIDE DEF t, u
<1>6. <<70>> \o t = u
  <2>1. /\ 70 \in Nat /\ Len(u) = Len(t) + 1 /\ \A i \in 1..Len(t) : u[i + 1] = t[i]
        /\ t \in Seq(Nat) /\ u \in Seq(Nat) /\ u[1] = 70
    BY ONLY <1>5
  <2>2. QED
    BY ONLY <2>1, CodeAndArguments
<1>7. QED
  BY <1>1, <1>2, <1>3, <1>6 DEF Begins, ReadType, r

\* Division of what does not fit keeps the register: always two natural numbers.
LEMMA DivuFacts ==
  ASSUME NEW n \in Nat, NEW d \in Nat, d # 0
  PROVE  Divu(n, d).quot \in Words /\ Divu(n, d).rem \in Nat
<1>1. n \div d \in Nat
  OBVIOUS
<1>2. n % d \in Nat /\ n \div Word \in Nat /\ n % Word \in Words
  BY WordFacts
<1>3. QED
  BY <1>1, <1>2, WordFacts DEF Divu

\* A turn of readabs reads on one side of one track.
LEMMA ReadAbsCall ==
  ASSUME NEW j \in JobType, NEW g, g.dspc \in Words, g.dspc # 0, g.dspt \in Words,
         at' \in Reads, ReadAbs(j, g)
  PROVE  job' = j /\ ReadType' /\ read'.sec >= 1 /\ Begins
<1> DEFINE d == Divu(j.sect, g.dspc)
           second == Signed(d.rem) >= Signed(g.dspt)
           rest == IF second THEN (d.rem - g.dspt) % Word ELSE d.rem
           most == (g.dspt - rest) % Word
<1>1. d.quot \in Nat /\ d.rem \in Nat
  <2>1. j.sect \in Nat /\ g.dspc \in Nat /\ g.dspc # 0
    BY WordFacts DEF JobType
  <2>2. d.quot \in Words /\ d.rem \in Nat
    BY <2>1, DivuFacts
  <2>3. QED
    BY <2>2, WordFacts
<1>2. rest \in Nat /\ most \in Words
  <2> HIDE DEF d
  <2>1. g.dspt \in Int
    BY WordFacts
  <2>2. rest \in Nat
    BY <1>1, <2>1, WordFacts
  <2> HIDE DEF rest
  <2>3. QED
    BY <2>1, <2>2, WordFacts
<1>3. Floprd(d.quot, IF second THEN 1 ELSE 0, rest + 1,
             IF most <= j.count THEN most ELSE j.count, j.to) /\ job' = j
  BY DEF ReadAbs
<1> HIDE DEF d, second, rest, most
<1>4. j.to \in Place /\ j.count \in Words
  BY DEF JobType
<1>5. QED
  BY <1>1, <1>2, <1>3, <1>4, FloprdCall

\* What is left of a job is a job.
LEMMA RestType ==
  ASSUME ResultType, ReadType, DiskType
  PROVE  Rest \in JobType
<1>1. bpb.recsize \in Nat /\ read.count \in Nat /\ job.count \in Nat /\ job.sect \in Nat
      /\ job.to \in Place
  BY WordFacts DEF ReadType, Arguments, DiskType
<1>2. bpb.recsize * read.count \in Nat
  BY <1>1
<1>3. (job.count - read.count) % Word \in Words /\ 0 \in Words
  <2>1. job.count - read.count \in Int
    BY <1>1
  <2>2. QED
    BY <2>1, WordFacts, WordIsPositive
<1>4. job \in JobType
  BY DEF DiskType, JobType
<1> DEFINE step == bpb.recsize * read.count
<1>5. [job.to EXCEPT !.off = @ + step] \in Place
  <2> HIDE DEF step
  <2> QED BY <1>1, <1>2 DEF Place, step
<1>6. QED
  BY <1>1, <1>3, <1>4, <1>5 DEF Rest, JobType

\* A command begins when the controller is idle.
LEMMA BeginFacts ==
  ASSUME TypeInv, ReadType', at' \in Commands, fdc.phase = "idle", fdc' = fdc, Begins
  PROVE  cmd' \in Seq(Bytes) /\ FdcType' /\ CommandInv' /\ PhaseInv' /\ ResultInv'
<1>1. Asked' \in Seq(Bytes) /\ Len(Asked') >= 1
  BY CommandFacts DEF Asked, ReadType
<1>2. QED
  BY <1>1 DEF TypeInv, Begins, CommandInv, PhaseInv, ResultInv, FdcType, Reads, Commands

-----------------------------------------------------------------------------
(* The controller's steps *)

\* The result of a read is four status bytes; only the good one says "end of track".
LEMMA VerdictFacts ==
  ASSUME NEW v \in Verdicts
  PROVE  /\ v \in Seq(SUBSET Bits) /\ Len(v) = 4
         /\ \A i \in 1..4 : v[i] \in StatusByte(i)
         /\ v[1] # {} /\ (v # EndOfTrack => "en" \notin v[2])
<1>1. v = <<v[1], v[2], v[3], v[4]>>
      /\ v[1] = {"at"} /\ v[2] \in {{"en"}, {"nd"}, {"de"}, {"ma"}} /\ v[3] \in {{}, {"dd"}}
      /\ v[4] = {} /\ (v # EndOfTrack => v[2] # {"en"})
  BY DEF Verdicts, EndOfTrack, Failure, Abnormal
<1>2. v[1] \in SUBSET Bits /\ v[2] \in SUBSET Bits /\ v[3] \in SUBSET Bits
      /\ v[4] \in SUBSET Bits
  BY <1>1 DEF Bits
<1>3. v \in Seq(SUBSET Bits) /\ Len(v) = 4
  <2>1. \A a, b, c, d \in SUBSET Bits :
          <<a, b, c, d>> \in Seq(SUBSET Bits) /\ Len(<<a, b, c, d>>) = 4
    OBVIOUS
  <2>2. <<v[1], v[2], v[3], v[4]>> \in Seq(SUBSET Bits)
        /\ Len(<<v[1], v[2], v[3], v[4]>>) = 4
    BY <1>2, <2>1
  <2>3. QED
    BY <1>1, <2>2
<1>4. \A i \in 1..4 : v[i] \in StatusByte(i)
  BY <1>1 DEF StatusByte
<1>5. QED
  BY <1>1, <1>3, <1>4

\* Back to the idle state, and to a result.
LEMMA IdleFacts ==
  ASSUME NEW f \in FdcRecord, NEW steps \in {"no", "moving", "moved"}, NEW g,
         g \in {Idle(f), [Idle(f) EXCEPT !.steps = steps]}
  PROVE  g \in FdcRecord /\ g.rqm /\ g.phase = "idle" /\ g.cmd = <<>> /\ g.out = <<>>
<1>1. <<>> \in Seq(Bytes) /\ <<>> \in Seq(SUBSET Bits)
  OBVIOUS
<1>2. QED
  BY <1>1 DEF Idle, FdcRecord

\* A search for a sector of a disk ends with its data or with a bad result.
LEMMA LookFacts ==
  ASSUME TypeInv, NEW sec \in Nat, Look(sec)
  PROVE  /\ drive \in Disks /\ drive # NoDisk
         /\ fdc' \in FdcRecord
         /\ fdc'.rqm /\ fdc'.cmd = fdc.cmd /\ errorsLeft' \in 0..MaxErrors
         /\ \/ fdc'.phase = "exec" /\ fdc'.sec = sec /\ fdc'.out = fdc.out
            \/ fdc'.phase = "result" /\ fdc'.out \in Verdicts \ {EndOfTrack}
<1>1. drive \in Disks /\ drive # NoDisk
  BY DEF Look, TypeInv, BoundType
<1>2. errorsLeft' \in 0..MaxErrors
  BY FloppyBounds DEF Look, TypeInv, BoundType
<1> DEFINE steady == [fdc EXCEPT !.steps = "no"]
<1>3. \/ fdc' = [steady EXCEPT !.rqm = TRUE, !.phase = "exec", !.sec = sec]
      \/ \E k \in {"nd", "dd", "ma"} : fdc' = Answer(steady, Failure(k))
  BY DEF Look
<1>4. CASE fdc' = [steady EXCEPT !.rqm = TRUE, !.phase = "exec", !.sec = sec]
  BY <1>1, <1>2, <1>4 DEF TypeInv, FdcType, FdcRecord, Bits
<1>5. ASSUME NEW k \in {"nd", "dd", "ma"}, fdc' = Answer(steady, Failure(k))
      PROVE  fdc' = [fdc EXCEPT !.steps = "no", !.rqm = TRUE, !.phase = "result",
                                !.out = Failure(k)]
             /\ Failure(k) \in Verdicts \ {EndOfTrack}
  <2>1. Failure(k) # EndOfTrack
    BY DEF Failure, EndOfTrack, Abnormal
  <2>2. QED
    BY <1>5, <2>1 DEF Answer, Verdicts
<1>6. CASE \E k \in {"nd", "dd", "ma"} : fdc' = Answer(steady, Failure(k))
  <2>1. PICK v \in Verdicts \ {EndOfTrack} :
          fdc' = [fdc EXCEPT !.steps = "no", !.rqm = TRUE, !.phase = "result", !.out = v]
    BY <1>5, <1>6
  <2>2. v \in Seq(SUBSET Bits)
    BY VerdictFacts
  <2>3. QED
    BY <1>1, <1>2, <2>1, <2>2 DEF TypeInv, FdcType, FdcRecord, Bits
<1>7. QED
  BY <1>3, <1>4, <1>6

\* What a step of the controller leaves of the driver.
LEMMA DriverStays ==
  ASSUME TypeInv, UNCHANGED driverVars
  PROVE  /\ DriverType' /\ ResultType' /\ ReadType' /\ DiskType' /\ GeometryInv'
         /\ Asked' = Asked
BY DEF TypeInv, driverVars, DriverType, ResultType, ReadType, DiskType, GeometryInv, Asked

\* A whole command has come.
LEMMA CommandIsWhole ==
  ASSUME TypeInv, fdc.phase = "command"
  PROVE  /\ at \in Commands /\ fdc.cmd[1] = Asked[1]
         /\ Len(fdc.cmd) < CommandBytes(fdc.cmd[1]) <=> cmd # <<>>
         /\ Len(fdc.cmd) = Len(Asked) <=> cmd = <<>>
<1>1. at \in Commands
  BY DEF TypeInv, PhaseInv
<1>2. Len(Asked) = CommandBytes(Asked[1])
  BY CommandFacts DEF TypeInv, ReadType, Asked
<1>3. fdc.cmd \in Seq(Bytes) /\ cmd \in Seq(Bytes) /\ Len(fdc.cmd) >= 1
      /\ Len(fdc.cmd) + Len(cmd) = Len(Asked)
      /\ fdc.cmd[1] = Asked[1]
  BY <1>1 DEF TypeInv, FdcType, FdcRecord, DriverType, CommandInv
<1>4. QED
  BY <1>1, <1>2, <1>3

LEMMA FdcCommandTyped == TypeInv /\ FdcCommand => TypeInv'
<1> SUFFICES ASSUME TypeInv, FdcCommand PROVE TypeInv'
  OBVIOUS
<1>1. UNCHANGED driverVars /\ UNCHANGED <<drive, moved, loadsLeft>>
      /\ fdc.phase = "command" /\ ~fdc.rqm
  BY DEF FdcCommand
<1>2. /\ DriverType' /\ ResultType' /\ ReadType' /\ DiskType' /\ GeometryInv'
      /\ Asked' = Asked
  BY <1>1, DriverStays
<1>3. UNCHANGED <<at, pc, cmd, resAt>>
  BY <1>1 DEF driverVars
<1>4. CASE Len(fdc.cmd) < CommandBytes(fdc.cmd[1])
  <2>1. fdc' = [fdc EXCEPT !.rqm = TRUE] /\ UNCHANGED errorsLeft /\ cmd # <<>>
    BY <1>1, <1>4, CommandIsWhole DEF FdcCommand
  <2>2. FdcType' /\ BoundType'
    BY <1>1, <2>1 DEF TypeInv, FdcType, FdcRecord, BoundType
  <2>3. CommandInv' /\ PhaseInv' /\ ResultInv'
    BY <1>1, <1>2, <1>3, <2>1 DEF TypeInv, FdcType, FdcRecord, CommandInv, PhaseInv, ResultInv
  <2>4. QED
    BY <1>2, <2>2, <2>3 DEF TypeInv
<1>5. CASE ~(Len(fdc.cmd) < CommandBytes(fdc.cmd[1])) /\ fdc.cmd[1] = READ_DATA
  <2>1. at \in Reads /\ cmd = <<>> /\ Len(Asked) = 9 /\ Len(fdc.cmd) = 9
    BY <1>1, <1>5, CommandIsWhole, CommandFacts DEF TypeInv, ReadType, Asked
  <2>2. Look(fdc.cmd[5]) /\ fdc.cmd[5] \in Nat
    <3>1. fdc.cmd \in Seq(Bytes)
      BY DEF TypeInv, FdcType, FdcRecord
    <3>2. fdc.cmd[5] \in Bytes
      BY <2>1, <3>1
    <3>3. Look(fdc.cmd[5])
      BY <1>5 DEF FdcCommand
    <3>4. QED
      BY <3>2, <3>3, WordFacts
  <2>3. /\ FdcType' /\ errorsLeft' \in 0..MaxErrors /\ fdc'.rqm /\ fdc'.cmd = fdc.cmd
        /\ \/ fdc'.phase = "exec" /\ fdc'.out = fdc.out
           \/ fdc'.phase = "result" /\ fdc'.out \in Verdicts
    BY <2>2, LookFacts DEF FdcType
  <2>4. resAt = 1 /\ pc = "DCL1" /\ fdc.out = <<>>
    BY <1>1, <2>1 DEF TypeInv, PhaseInv, ResultInv, Reads
  <2>5. BoundType'
    BY <1>1, <2>3 DEF TypeInv, BoundType
  <2>6. CommandInv'
    BY <1>1, <1>2, <1>3, <2>1, <2>3 DEF TypeInv, CommandInv
  <2>7. PhaseInv' /\ ResultInv'
    <3>1. CASE fdc'.phase = "exec"
      BY <1>3, <2>1, <2>3, <2>4, <3>1 DEF PhaseInv, ResultInv, Reads, Commands
    <3>2. CASE fdc'.phase = "result" /\ fdc'.out \in Verdicts
      <4>1. Len(fdc'.out) = 4 /\ \A i \in 1..4 : fdc'.out[i] \in StatusByte(i)
        BY <3>2, VerdictFacts
      <4>2. QED
        BY <1>3, <2>1, <2>3, <2>4, <3>2, <4>1 DEF PhaseInv, ResultInv, Reads, Commands
    <3>3. QED
      BY <2>3, <3>1, <3>2
  <2>8. QED
    BY <1>2, <2>3, <2>5, <2>6, <2>7 DEF TypeInv
<1>6. CASE ~(Len(fdc.cmd) < CommandBytes(fdc.cmd[1])) /\ fdc.cmd[1] # READ_DATA
  <2>1. at \in Commands \ Reads /\ cmd = <<>> /\ fdc.cmd[1] = Asked[1]
    BY <1>1, <1>6, CommandIsWhole, CommandFacts DEF TypeInv, ReadType, Asked
  <2>2. /\ Asked[1] \in {RECALIBRATE, SENSE_INT, CONFIGURE, SPECIFY, MODE}
        /\ Asked[1] = SENSE_INT <=> at = "sense"
    BY <1>6, <2>1, CommandFacts DEF TypeInv, ReadType, Asked
  <2>3. \/ /\ at # "sense"
           /\ \/ fdc' = [Idle(fdc) EXCEPT !.steps = "moving"]
              \/ fdc' = Idle(fdc)
        \/ /\ at = "sense"
           /\ \/ fdc' = [Answer(fdc, <<{}, {}>>) EXCEPT !.steps = "no"]
              \/ fdc' = Answer(fdc, <<{"ic"}>>)
    BY <1>6, <2>1, <2>2 DEF FdcCommand, RECALIBRATE, SENSE_INT, CONFIGURE, SPECIFY, MODE
  <2>4. UNCHANGED <<errorsLeft, faulty>> /\ pc = "DCL1"
    BY <1>1, <1>6 DEF FdcCommand, TypeInv, PhaseInv
  <2>5. BoundType'
    BY <1>1, <2>4 DEF TypeInv, BoundType
  <2>6. CASE at # "sense"
    <3>1. FdcType' /\ fdc'.phase = "idle" /\ fdc'.rqm /\ fdc'.cmd = <<>> /\ fdc'.out = <<>>
      BY <2>3, <2>6, IdleFacts DEF TypeInv, FdcType
    <3>2. CommandInv' /\ PhaseInv' /\ ResultInv'
      BY <1>3, <2>1, <2>4, <3>1 DEF CommandInv, PhaseInv, ResultInv, Reads, Commands
    <3>3. QED
      BY <1>2, <2>5, <3>1, <3>2 DEF TypeInv
  <2>7. CASE at = "sense"
    <3>1. \E out \in {<<{}, {}>>, <<{"ic"}>>}, steps \in {fdc.steps, "no"} :
            fdc' = [fdc EXCEPT !.rqm = TRUE, !.phase = "result", !.out = out,
                               !.steps = steps]
      BY <2>3, <2>7 DEF Answer, TypeInv, FdcType
    <3>2. PICK out, steps :
            /\ fdc' = [fdc EXCEPT !.rqm = TRUE, !.phase = "result", !.out = out,
                                  !.steps = steps]
            /\ steps \in {fdc.steps, "no"}
            /\ out \in Seq(SUBSET Bits) /\ Len(out) \in {1, 2}
            /\ \A i \in 1..Len(out) : out[i] \in {{}, {"ic"}} /\ (i = 2 => out[i] = {})
      <4>1. \A out \in {<<{}, {}>>, <<{"ic"}>>} :
              /\ out \in Seq(SUBSET Bits) /\ Len(out) \in {1, 2}
              /\ \A i \in 1..Len(out) : out[i] \in {{}, {"ic"}} /\ (i = 2 => out[i] = {})
        <5>1. {} \in SUBSET Bits /\ {"ic"} \in SUBSET Bits
          BY DEF Bits
        <5>2. \A a, b \in SUBSET Bits :
                /\ <<a, b>> \in Seq(SUBSET Bits) /\ Len(<<a, b>>) = 2
                /\ <<a>> \in Seq(SUBSET Bits) /\ Len(<<a>>) = 1
          OBVIOUS
        <5>3. <<{}, {}>>[1] = {} /\ <<{}, {}>>[2] = {} /\ <<{"ic"}>>[1] = {"ic"}
          OBVIOUS
        <5>4. ASSUME NEW o, o = <<{}, {}>>
              PROVE  /\ o \in Seq(SUBSET Bits) /\ Len(o) = 2
                     /\ \A i \in 1..2 : o[i] = {}
          BY <5>1, <5>2, <5>3, <5>4
        <5>5. ASSUME NEW o, o = <<{"ic"}>>
              PROVE  /\ o \in Seq(SUBSET Bits) /\ Len(o) = 1
                     /\ \A i \in 1..1 : o[i] = {"ic"}
          BY <5>1, <5>2, <5>3, <5>5
        <5>6. QED
          BY <5>4, <5>5
      <4>2. QED
        BY <3>1, <4>1
    <3>3. FdcType'
      BY <3>2 DEF TypeInv, FdcType, FdcRecord
    <3>4. resAt = 1
      BY <1>1 DEF TypeInv, PhaseInv
    <3>5. fdc'.phase = "result" /\ fdc'.rqm /\ fdc'.out = out /\ fdc'.cmd = fdc.cmd
      BY <3>2 DEF TypeInv, FdcType, FdcRecord
    <3>6. CommandInv' /\ PhaseInv'
      <4>1. out # <<>>
        <5>1. Len(out) >= 1
          BY <3>2
        <5>2. QED
          BY <5>1
      <4>2. CommandInv'
        BY <1>1, <1>2, <1>3, <2>1, <3>5 DEF TypeInv, CommandInv
      <4>3. PhaseInv'
        BY <1>3, <2>4, <2>7, <3>4, <3>5, <4>1 DEF PhaseInv, Reads, Commands
      <4>4. QED
        BY <4>2, <4>3
    <3>7. ResultInv'
      <4>1. \A i \in 1..Len(out) : out[i] \in StatusByte(i)
        BY <3>2 DEF StatusByte
      <4>2. QED
        BY <1>3, <3>2, <3>4, <3>5, <4>1 DEF ResultInv
    <3>8. QED
      BY <1>2, <2>5, <3>3, <3>6, <3>7 DEF TypeInv
  <2>8. QED
    BY <2>6, <2>7
<1>7. QED
  BY <1>4, <1>5, <1>6

\* The nine bytes of a read.
LEMMA ReadBytesAsked ==
  ASSUME ReadType, at \in Reads
  PROVE  Len(Asked) = 9 /\ \A i \in 1..9 : Asked[i] \in Bytes
<1> DEFINE c == Asked
<1>1. Len(c) = 9 /\ c \in Seq(Bytes)
  BY CommandFacts DEF ReadType, Asked
<1> HIDE DEF c
<1>2. \A i \in 1..Len(c) : c[i] \in Bytes
  BY <1>1, ElementOfSeq
<1>3. \A i \in 1..9 : c[i] \in Bytes
  BY <1>1, <1>2
<1>4. QED
  BY <1>1, <1>3 DEF c

\* A whole read command.
LEMMA ReadIsWhole ==
  ASSUME TypeInv, fdc.phase = "exec"
  PROVE  /\ at \in Reads /\ cmd = <<>> /\ resAt = 1 /\ Len(Asked) = 9 /\ Len(fdc.cmd) = 9
         /\ \A i \in 1..9 : fdc.cmd[i] = Asked[i] /\ Asked[i] \in Bytes
         /\ fdc.out = <<>>
<1>1. at \in Reads /\ cmd = <<>> /\ at \in Commands /\ resAt = 1 /\ fdc.out = <<>>
  BY DEF TypeInv, PhaseInv, CommandInv, ResultInv, Commands
<1>2. Len(Asked) = 9
  BY <1>1, ReadBytesAsked DEF TypeInv
<1>3. \A i \in 1..9 : Asked[i] \in Bytes
  BY <1>1, ReadBytesAsked DEF TypeInv
<1>4. Len(fdc.cmd) = 9 /\ \A i \in 1..9 : fdc.cmd[i] = Asked[i]
  <2>1. Len(fdc.cmd) + Len(cmd) = Len(Asked)
        /\ \A i \in 1..Len(fdc.cmd) : fdc.cmd[i] = Asked[i]
    BY <1>1 DEF TypeInv, CommandInv
  <2>2. Len(cmd) = 0 /\ Len(fdc.cmd) \in Nat
    BY <1>1 DEF TypeInv, FdcType, FdcRecord
  <2>3. Len(fdc.cmd) = 9
    BY <1>2, <2>1, <2>2
  <2>4. QED
    BY <2>1, <2>3
<1>5. QED
  BY <1>1, <1>2, <1>3, <1>4

LEMMA NextSectorTyped == TypeInv /\ FdcNextSector => TypeInv'
<1> SUFFICES ASSUME TypeInv, FdcNextSector PROVE TypeInv'
  OBVIOUS
<1>1. UNCHANGED driverVars /\ UNCHANGED <<drive, moved, loadsLeft>>
      /\ fdc.phase = "exec" /\ ~fdc.rqm
  BY DEF FdcNextSector
<1>2. /\ DriverType' /\ ResultType' /\ ReadType' /\ DiskType' /\ GeometryInv'
      /\ Asked' = Asked
  BY <1>1, DriverStays
<1>3. UNCHANGED <<at, pc, cmd, resAt>> /\ pc \in {"DCL1", "DCL3"}
  BY <1>1 DEF driverVars, TypeInv, PhaseInv
<1>4. at \in Reads /\ cmd = <<>> /\ resAt = 1 /\ fdc.out = <<>>
  BY <1>1, ReadIsWhole
<1>5. /\ FdcType' /\ errorsLeft' \in 0..MaxErrors /\ fdc'.rqm /\ fdc'.cmd = fdc.cmd
      /\ \/ fdc'.phase = "exec" /\ fdc'.out = fdc.out
         \/ fdc'.phase = "result" /\ fdc'.out \in Verdicts
  <2>1. CASE fdc.sec = fdc.cmd[7]
    <3>1. fdc' = [fdc EXCEPT !.rqm = TRUE, !.phase = "result", !.out = EndOfTrack]
          /\ UNCHANGED errorsLeft
      BY <2>1 DEF FdcNextSector, Answer
    <3>2. EndOfTrack \in Seq(SUBSET Bits) /\ EndOfTrack \in Verdicts
      BY VerdictFacts DEF Verdicts
    <3>3. QED
      BY <3>1, <3>2 DEF TypeInv, FdcType, FdcRecord, BoundType
  <2>2. CASE fdc.sec # fdc.cmd[7]
    <3>1. Look(fdc.sec + 1) /\ fdc.sec + 1 \in Nat
      BY <2>2 DEF FdcNextSector, TypeInv, FdcType, FdcRecord
    <3>2. QED
      BY <3>1, LookFacts DEF FdcType
  <2>3. QED
    BY <2>1, <2>2
<1>6. BoundType'
  BY <1>1, <1>5 DEF TypeInv, BoundType
<1>7. CommandInv'
  BY <1>1, <1>2, <1>3, <1>4, <1>5 DEF TypeInv, CommandInv
<1>8. PhaseInv' /\ ResultInv'
  <2>1. CASE fdc'.phase = "exec"
    BY <1>3, <1>4, <1>5, <2>1 DEF PhaseInv, ResultInv, Reads, Commands
  <2>2. CASE fdc'.phase = "result" /\ fdc'.out \in Verdicts
    <3>1. Len(fdc'.out) = 4 /\ \A i \in 1..4 : fdc'.out[i] \in StatusByte(i)
      BY <2>2, VerdictFacts
    <3>2. QED
      BY <1>3, <1>4, <1>5, <2>2, <3>1 DEF PhaseInv, ResultInv, Reads, Commands
  <2>3. QED
    BY <1>5, <2>1, <2>2
<1>9. QED
  BY <1>2, <1>5, <1>6, <1>7, <1>8 DEF TypeInv

LEMMA FdcResultTyped == TypeInv /\ (FdcResult \/ FdcStepped) => TypeInv'
<1> SUFFICES ASSUME TypeInv, FdcResult \/ FdcStepped PROVE TypeInv'
  OBVIOUS
<1>1. UNCHANGED driverVars /\ UNCHANGED <<drive, moved, loadsLeft, errorsLeft>>
  BY DEF FdcResult, FdcStepped, budget
<1>2. /\ DriverType' /\ ResultType' /\ ReadType' /\ DiskType' /\ GeometryInv'
      /\ Asked' = Asked /\ BoundType'
  BY <1>1, DriverStays DEF TypeInv, BoundType
<1>3. UNCHANGED <<at, pc, cmd, resAt>>
  BY <1>1 DEF driverVars
<1>4. CASE FdcResult /\ fdc.out = <<>>
  <2>1. fdc' = Idle(fdc) /\ fdc.phase = "result" /\ ~fdc.rqm
    BY <1>4 DEF FdcResult
  <2>2. FdcType' /\ fdc'.rqm /\ fdc'.phase = "idle" /\ fdc'.cmd = <<>> /\ fdc'.out = <<>>
    BY <2>1, IdleFacts DEF TypeInv, FdcType
  <2>3. pc = "DCL4" /\ (at \in Reads => resAt = 5)
    <3>1. resAt \in Int /\ Len(fdc.out) = 0
      BY <1>4 DEF TypeInv, DriverType
    <3>2. QED
      BY <2>1, <3>1 DEF TypeInv, PhaseInv
  <2>4. CommandInv' /\ PhaseInv' /\ ResultInv'
    BY <1>2, <1>3, <2>2, <2>3 DEF TypeInv, CommandInv, PhaseInv, ResultInv
  <2>5. QED
    BY <1>2, <2>2, <2>4 DEF TypeInv
<1>5. CASE (FdcResult /\ fdc.out # <<>>) \/ FdcStepped
  <2>1. /\ FdcType' /\ fdc'.phase = fdc.phase /\ fdc'.cmd = fdc.cmd /\ fdc'.out = fdc.out
        /\ \/ fdc'.rqm = fdc.rqm
           \/ fdc'.rqm /\ fdc.phase = "result" /\ fdc.out # <<>>
    BY <1>5 DEF FdcResult, FdcStepped, TypeInv, FdcType, FdcRecord
  <2>2. CommandInv'
    BY <1>2, <1>3, <2>1 DEF TypeInv, CommandInv
  <2>3. PhaseInv' /\ ResultInv'
    BY <1>2, <1>3, <2>1 DEF TypeInv, PhaseInv, ResultInv
  <2>4. QED
    BY <1>2, <2>1, <2>2, <2>3 DEF TypeInv
<1>6. QED
  BY <1>4, <1>5

-----------------------------------------------------------------------------
(* The steps of Do_Command *)

\* A byte sent: the command is still in one piece.
LEMMA SendByte ==
  ASSUME TypeInv, at \in Commands, cmd # <<>>, fdc.phase # "idle" \/ pc = "DCL5",
         Write(Head(cmd)), cmd' = Tail(cmd), UNCHANGED <<at, read>>
  PROVE  /\ CommandInv' /\ FdcType' /\ cmd' \in Seq(Bytes)
         /\ fdc'.phase = "command" /\ ~fdc'.rqm /\ fdc'.out = fdc.out
<1> DEFINE k == Len(fdc.cmd)
<1>1. /\ fdc.cmd \in Seq(Bytes) /\ cmd \in Seq(Bytes) /\ fdc \in FdcRecord
      /\ k + Len(cmd) = Len(Asked)
      /\ \A i \in 1..k : fdc.cmd[i] = Asked[i]
      /\ \A i \in 1..Len(cmd) : cmd[i] = Asked[k + i]
  BY DEF TypeInv, DriverType, FdcType, FdcRecord, CommandInv
<1>2. /\ Head(cmd) \in Bytes /\ Head(cmd) = cmd[1] /\ Tail(cmd) \in Seq(Bytes)
      /\ Len(Tail(cmd)) = Len(cmd) - 1 /\ Len(cmd) >= 1
      /\ \A i \in 1..(Len(cmd) - 1) : Tail(cmd)[i] = cmd[i + 1]
  BY <1>1
<1> DEFINE c == Append(fdc.cmd, Head(cmd))
<1>3. /\ c \in Seq(Bytes) /\ Len(c) = k + 1 /\ c[k + 1] = Head(cmd)
      /\ \A i \in 1..k : c[i] = fdc.cmd[i]
  BY <1>1, <1>2, AppendProperties
<1>4. fdc' = [fdc EXCEPT !.cmd = c, !.rqm = FALSE, !.phase = "command"]
  BY <1>1 DEF Write, FdcRecord
<1> HIDE DEF c
<1>5. FdcType' /\ fdc'.phase = "command" /\ ~fdc'.rqm /\ fdc'.cmd = c
      /\ fdc'.out = fdc.out
  BY <1>1, <1>3, <1>4 DEF FdcType, FdcRecord
<1>6. k \in Nat /\ Len(cmd) \in Nat
  BY <1>1
<1> HIDE DEF k
<1>7. \A i \in 1..(k + 1) : c[i] = Asked[i]
  <2> TAKE i \in 1..(k + 1)
  <2>1. CASE i \in 1..k
    BY <1>1, <1>3, <2>1
  <2>2. CASE i = k + 1
    BY <1>1, <1>2, <1>3, <1>6, <2>2
  <2>3. QED
    BY <1>6, <2>1, <2>2
<1>8. \A i \in 1..(Len(cmd) - 1) : Tail(cmd)[i] = Asked[(k + 1) + i]
  <2> TAKE i \in 1..(Len(cmd) - 1)
  <2>1. i + 1 \in 1..Len(cmd)
    BY <1>6
  <2>2. Tail(cmd)[i] = Asked[k + (i + 1)]
    BY <1>1, <1>2, <2>1
  <2>3. k + (i + 1) = (k + 1) + i
    BY <1>6
  <2>4. QED
    BY <2>2, <2>3
<1>9. Asked' = Asked
  BY DEF Asked
<1>10. Len(fdc'.cmd) = k + 1 /\ Len(cmd') = Len(cmd) - 1
  BY <1>2, <1>3, <1>5
<1>11. k + 1 + (Len(cmd) - 1) = Len(Asked) /\ k + 1 >= 1
  BY <1>1, <1>6
<1>12. CommandInv'
  BY <1>5, <1>7, <1>8, <1>9, <1>10, <1>11 DEF CommandInv
<1>13. QED
  BY <1>2, <1>5, <1>12

LEMMA SendTyped == TypeInv /\ (FirstByte \/ NextByte) => TypeInv'
<1> SUFFICES ASSUME TypeInv, FirstByte \/ NextByte PROVE TypeInv'
  OBVIOUS
<1>1. /\ UNCHANGED <<at, dest, resAt, result, read, callVars, drive, budget>>
      /\ fdc.rqm
      /\ pc = "DCL5" \/ (pc = "DCL1" /\ fdc.phase = "command")
  BY DEF FirstByte, NextByte
<1>2. at \in Commands /\ (pc = "DCL5" => fdc.phase = "idle" /\ fdc.cmd = <<>>)
  BY <1>1 DEF TypeInv, PhaseInv, CommandInv
<1>3. cmd # <<>>
  <2>1. CASE pc = "DCL5"
    <3>1. Len(fdc.cmd) = 0 /\ Len(fdc.cmd) + Len(cmd) = Len(Asked)
      BY <1>2, <2>1 DEF TypeInv, CommandInv
    <3>2. Len(Asked) >= 1
      BY CommandFacts DEF TypeInv, ReadType, Asked
    <3>3. QED
      BY <3>1, <3>2
  <2>2. CASE pc = "DCL1" /\ fdc.phase = "command"
    BY <1>1, <2>2 DEF TypeInv, PhaseInv
  <2>3. QED
    BY <1>1, <2>1, <2>2
<1>4. Write(Head(cmd)) /\ cmd' = Tail(cmd) /\ pc' = "DCL1"
  BY <1>1, <1>2 DEF FirstByte, NextByte, Busy
<1>5. /\ CommandInv' /\ FdcType' /\ cmd' \in Seq(Bytes)
      /\ fdc'.phase = "command" /\ ~fdc'.rqm /\ fdc'.out = fdc.out
  BY <1>1, <1>2, <1>3, <1>4, SendByte
<1>6. DriverType' /\ ResultType' /\ ReadType' /\ DiskType' /\ BoundType' /\ GeometryInv'
  BY <1>1, <1>4, <1>5
     DEF TypeInv, DriverType, ResultType, ReadType, DiskType, BoundType, GeometryInv,
         callVars, budget
<1>7. resAt = 1 /\ fdc.out = <<>>
  BY <1>1 DEF TypeInv, PhaseInv, ResultInv
<1>8. PhaseInv' /\ ResultInv'
  BY <1>1, <1>2, <1>4, <1>5, <1>7 DEF PhaseInv, ResultInv
<1>9. QED
  BY <1>5, <1>6, <1>8 DEF TypeInv

LEMMA TakeDataTyped == TypeInv /\ TakeData => TypeInv'
<1> SUFFICES ASSUME TypeInv, TakeData PROVE TypeInv'
  OBVIOUS
<1>1. /\ UNCHANGED <<at, cmd, resAt, result, read, job, bpb, dsb, currErr, drive, budget>>
      /\ fdc.phase = "exec" /\ pc' = "DCL3" /\ fdc' = [fdc EXCEPT !.rqm = FALSE]
      /\ dest' = [dest EXCEPT !.off = @ + SectorBytes]
  BY DEF TakeData, Executing
<1>2. dest' \in Place
  BY <1>1 DEF TypeInv, DriverType, Place, SectorBytes
<1>3. DriverType' /\ ResultType' /\ ReadType' /\ DiskType' /\ BoundType' /\ GeometryInv'
  BY <1>1, <1>2
     DEF TypeInv, DriverType, ResultType, ReadType, DiskType, BoundType, GeometryInv, budget
<1>4. FdcType' /\ fdc'.phase = "exec" /\ fdc'.cmd = fdc.cmd /\ fdc'.out = fdc.out
  BY <1>1 DEF TypeInv, FdcType, FdcRecord
<1>5. Asked' = Asked
  BY <1>1 DEF Asked
<1>6. CommandInv'
  BY <1>1, <1>4, <1>5 DEF TypeInv, CommandInv
<1>7. PhaseInv' /\ ResultInv'
  BY <1>1, <1>4 DEF TypeInv, PhaseInv, ResultInv, Reads, Commands
<1>8. QED
  BY <1>3, <1>4, <1>6, <1>7 DEF TypeInv

LEMMA TakeResultTyped == TypeInv /\ TakeResult => TypeInv'
<1> SUFFICES ASSUME TypeInv, TakeResult PROVE TypeInv'
  OBVIOUS
<1> DEFINE out == fdc.out
<1>1. /\ UNCHANGED <<at, cmd, dest, read, callVars, drive, budget>>
      /\ fdc.phase = "result" /\ fdc.rqm /\ pc' = "DCL4" /\ resAt' = resAt + 1
      /\ result' = [result EXCEPT ![resAt] = Head(out)]
      /\ fdc' = [fdc EXCEPT !.out = Tail(out), !.rqm = FALSE]
  BY DEF TakeResult, TypeInv, FdcType, FdcRecord
<1>2. /\ out \in Seq(SUBSET Bits) /\ out # <<>> /\ resAt \in 1..5
      /\ resAt + Len(out) <= 5
      /\ \A i \in 1..Len(out) : out[i] \in StatusByte(resAt + i - 1)
  BY <1>1 DEF TypeInv, FdcType, FdcRecord, PhaseInv, ResultInv, DriverType
<1> HIDE DEF out
<1>3. /\ Head(out) = out[1] /\ Tail(out) \in Seq(SUBSET Bits) /\ Len(out) >= 1
      /\ Len(Tail(out)) = Len(out) - 1
      /\ \A i \in 1..(Len(out) - 1) : Tail(out)[i] = out[i + 1]
  BY <1>2
<1>4. resAt \in 1..4 /\ Head(out) \in StatusByte(resAt)
  <2>1. out[1] \in StatusByte(resAt + 1 - 1) /\ resAt + 1 - 1 = resAt /\ resAt <= 4
    BY <1>2, <1>3
  <2>2. QED
    BY <1>2, <1>3, <2>1
<1>5. ResultType'
  BY <1>1, <1>4 DEF TypeInv, ResultType
<1>6. DriverType' /\ ReadType' /\ DiskType' /\ BoundType' /\ GeometryInv'
  BY <1>1, <1>4
     DEF TypeInv, DriverType, ReadType, DiskType, BoundType, GeometryInv, budget, callVars
<1>7. FdcType' /\ fdc'.phase = "result" /\ fdc'.cmd = fdc.cmd /\ fdc'.out = Tail(out)
      /\ ~fdc'.rqm
  BY <1>1, <1>3 DEF TypeInv, FdcType, FdcRecord
<1>8. Asked' = Asked
  BY <1>1 DEF Asked
<1>9. CommandInv'
  BY <1>1, <1>7, <1>8 DEF TypeInv, CommandInv
<1>10. resAt' + Len(fdc'.out) = resAt + Len(out)
  BY <1>1, <1>2, <1>3, <1>7
<1>11. PhaseInv'
  BY <1>1, <1>7, <1>10 DEF TypeInv, PhaseInv, out
<1>12. ResultInv'
  <2>1. resAt' + Len(fdc'.out) <= 5
    BY <1>2, <1>10
  <2>2. ASSUME NEW i \in 1..(Len(out) - 1)
        PROVE  Tail(out)[i] \in StatusByte((resAt + 1) + i - 1)
    <3>1. i + 1 \in 1..Len(out) /\ resAt + (i + 1) - 1 = (resAt + 1) + i - 1
      BY <1>2, <1>3
    <3>2. QED
      BY <1>2, <1>3, <3>1
  <2>3. QED
    BY <1>1, <1>3, <1>7, <2>1, <2>2 DEF ResultInv
<1>13. QED
  BY <1>5, <1>6, <1>7, <1>9, <1>11, <1>12 DEF TypeInv

LEMMA CommandEndsTyped == TypeInv /\ CommandEnds => TypeInv'
<1> SUFFICES ASSUME TypeInv, CommandEnds PROVE TypeInv'
  OBVIOUS
<1>1. /\ UNCHANGED <<at, cmd, dest, resAt, result, read, callVars, fdc, drive, budget>>
      /\ pc \in {"DCL1", "DCL3", "DCL4"} /\ pc' = "DCL_END" /\ fdc.phase = "idle"
  BY DEF CommandEnds, Busy
<1>2. DriverType' /\ ResultType' /\ ReadType' /\ DiskType' /\ BoundType' /\ GeometryInv'
      /\ FdcType'
  BY <1>1
     DEF TypeInv, DriverType, ResultType, ReadType, DiskType, BoundType, GeometryInv, budget,
         callVars, FdcType
<1>3. CommandInv'
  BY <1>1 DEF TypeInv, CommandInv
<1>4. PhaseInv' /\ ResultInv'
  BY <1>1 DEF TypeInv, PhaseInv, ResultInv, Reads, Commands
<1>5. QED
  BY <1>2, <1>3, <1>4 DEF TypeInv

-----------------------------------------------------------------------------
(* load_tos, Flopinit, getbpb, readabs, Fsfirst, readfile *)

\* What getbpb finds in SektorPuffer are words, whatever lies there.
LEMMA BootFacts ==
  ASSUME TypeInv
  PROVE  {Boot.bps, Boot.spc, Boot.ndirs, Boot.nsects, Boot.spf, Boot.spt, Boot.nsides}
           \subseteq Words
<1>1. 0 \in Words
  BY WordFacts, WordIsPositive
<1>2. drive # NoDisk =>
        {drive.bps, drive.spc, drive.ndirs, drive.nsects, drive.spf, drive.spt, drive.nsides}
          \subseteq Words
  BY DisksAssumption DEF TypeInv, BoundType, DiskOK, Words
<1>3. QED
  BY <1>1, <1>2 DEF Boot

\* The bpb and the geometry of a usable boot sector.
LEMMA BpbFacts ==
  ASSUME NEW b, {b.bps, b.spc, b.ndirs, b.nsects, b.spf, b.spt, b.nsides} \subseteq Words,
         BpbUsable(b)
  PROVE  /\ Bpb(b) \in [recsize : Words, clsize : Nat, fsiz : Nat, fatrec : Nat, rdlen : Nat,
                        datrec : Words, numcl : Nat]
         /\ Bpb(b).recsize # 0
         /\ Dsb(b) \in [dnsides : Nat, dspt : Words, dspc : Words]
<1>1. b.bps \in Nat /\ b.spc \in Nat /\ b.ndirs \in Nat /\ b.nsects \in Nat /\ b.spf \in Nat
      /\ b.spt \in Nat /\ b.nsides \in Nat
  BY WordFacts
<1>2. b.bps # 0 /\ b.spc % 256 # 0
  BY WordIsPositive DEF BpbUsable, Signed
<1> DEFINE fatrec == (b.spf + 1) % Word
           rdlen == Divu(b.ndirs * 32, b.bps).quot
           datrec == (rdlen + fatrec + b.spf) % Word
           numcl == Divu((b.nsects - datrec) % Word, b.spc % 256).quot
<1>3. \A n \in Words : n \in Nat /\ n \in Int
  BY WordFacts
<1>4. fatrec \in Words
  BY <1>1, WordFacts
<1>5. rdlen \in Words
  BY <1>1, <1>2, DivuFacts
<1> HIDE DEF fatrec, rdlen
<1>6. datrec \in Words
  <2>1. rdlen + fatrec + b.spf \in Int
    BY <1>1, <1>3, <1>4, <1>5
  <2>2. QED
    BY <2>1, WordFacts
<1> HIDE DEF datrec
<1>7. numcl \in Words
  <2>1. (b.nsects - datrec) % Word \in Nat /\ b.spc % 256 \in Nat
    BY <1>1, <1>3, <1>6, WordFacts
  <2>2. QED
    BY <2>1, <1>2, DivuFacts
<1> HIDE DEF numcl
<1>8. Bpb(b) = [recsize |-> b.bps, clsize |-> b.spc % 256, fsiz |-> b.spf,
                fatrec |-> fatrec, rdlen |-> rdlen, datrec |-> datrec, numcl |-> numcl]
  BY DEF Bpb, fatrec, rdlen, datrec, numcl
<1>9. b.spc % 256 \in Nat
  BY <1>1
<1>10. (b.spt * b.nsides) % Word \in Words
  <2>1. b.spt * b.nsides \in Int
    BY <1>1
  <2>2. QED
    BY <2>1, WordFacts
<1>11. QED
  BY <1>1, <1>2, <1>3, <1>4, <1>5, <1>6, <1>7, <1>8, <1>9, <1>10 DEF Dsb

\* Every set of natural numbers has a least element.
LEMMA LeastNat ==
  ASSUME NEW T, T \subseteq Nat, T # {}
  PROVE  \E x \in T : \A y \in T : x <= y
<1> DEFINE R == {ss \in Nat \X Nat : ss[1] < ss[2]}
<1>1. IsWellFoundedOn(R, Nat)
  BY NatLessThanWellFounded DEF OpToRel
<1>2. \E x \in T : \A y \in T : ~ (<<y, x>> \in R)
  <2> HIDE DEF R
  <2> QED BY <1>1, WFMin
<1>3. PICK x \in T : \A y \in T : ~ (<<y, x>> \in R)
  BY <1>2
<1>4. ASSUME NEW y \in T PROVE x <= y
  <2>1. y < x => <<y, x>> \in R
    OBVIOUS
  <2> HIDE DEF R
  <2>2. ~(y < x)
    BY <2>1, <1>3
  <2>3. y \in Nat /\ x \in Nat
    OBVIOUS
  <2>4. QED
    BY <2>2, <2>3
<1>5. QED
  BY <1>4

\* The first entry of the name is an entry of the disk in the drive.
LEMMA FoundFacts ==
  ASSUME TypeInv, Slots # {}
  PROVE  Found \in Entry /\ drive \in Disks
<1>1. drive \in Disks /\ Slots \subseteq DOMAIN drive.root
  BY DEF Slots, TypeInv, BoundType
<1>2. \A s \in DOMAIN drive.root : s \in Nat /\ drive.root[s] \in Entry
  BY <1>1, DisksAssumption DEF DiskOK
<1>3. \E x \in Slots : \A y \in Slots : x <= y
  BY <1>1, <1>2, LeastNat
<1> DEFINE first == CHOOSE s \in Slots : \A t \in Slots : s <= t
<1>4. first \in Slots
  BY <1>3
<1> HIDE DEF first
<1>5. Found = drive.root[first]
  BY DEF Found, first
<1>6. QED
  BY <1>1, <1>2, <1>4, <1>5

\* Where the file begins and how many sectors are read of it.
LEMMA FileFacts ==
  ASSUME TypeInv, at = "dir", NEW e \in Entry
  PROVE  FileStart(e) \in Nat /\ FileSectors(e) \in Words
<1>1. bpb.recsize \in Nat /\ bpb.recsize # 0 /\ bpb.clsize \in Nat /\ bpb.datrec \in Nat
      /\ e.cluster \in Nat /\ e.size \in Nat
  BY WordFacts DEF TypeInv, DiskType, GeometryInv, Entry
<1>2. (e.cluster - 2) % Word \in Nat
  <2>1. e.cluster - 2 \in Int
    BY <1>1
  <2>2. QED
    BY <2>1, WordFacts
<1>3. FileStart(e) \in Nat
  <2> DEFINE k == (e.cluster - 2) % Word
  <2>1. k \in Nat
    BY <1>2
  <2> HIDE DEF k
  <2>2. k * bpb.clsize \in Nat
    BY <1>1, <2>1
  <2>3. QED
    BY <1>1, <2>2 DEF FileStart, k
<1>4. e.size + bpb.recsize - 1 \in Nat
  BY <1>1
<1>5. QED
  BY <1>1, <1>3, <1>4, DivuFacts DEF FileSectors

LEMMA PlaceFacts == Sektor \in Place /\ TosLoadBuffer \in Place
BY DEF Sektor, TosLoadBuffer, Place

\* load_tos begins, with any disk; what the last one left in the variables stays.
LEMMA LoadTosTyped == TypeInv /\ LoadTos => TypeInv'
<1> SUFFICES ASSUME TypeInv, LoadTos PROVE TypeInv'
  OBVIOUS
<1>1. /\ UNCHANGED <<result, read, callVars, fdc, errorsLeft>> /\ at' = "recal"
      /\ at \in {"out", "done"} /\ loadsLeft > 0 /\ loadsLeft' = loadsLeft - 1
      /\ drive' \in Disks \cup {NoDisk}
  BY DEF LoadTos
<1>2. fdc.phase = "idle"
  BY <1>1 DEF TypeInv, PhaseInv, Commands, Reads
<1>3. Begins
  <2>1. cmd' = <<RECALIBRATE>> \o <<0>> /\ pc' = "DCL5" /\ dest' = Sektor /\ resAt' = 1
        /\ moved' = <<>>
    BY DEF LoadTos, Do
  <2>2. Asked' = CommandAt("recal", read)
    BY <1>1 DEF Asked
  <2>3. QED
    BY <2>1, <2>2, FlopinitCommands, PlaceFacts DEF Begins
<1>4. ReadType' /\ ResultType' /\ DiskType'
  BY <1>1 DEF TypeInv, ReadType, ResultType, DiskType, callVars
<1>5. cmd' \in Seq(Bytes) /\ FdcType' /\ CommandInv' /\ PhaseInv' /\ ResultInv'
  BY <1>1, <1>2, <1>3, <1>4, BeginFacts DEF Commands
<1>6. DriverType'
  BY <1>1, <1>3, <1>5 DEF TypeInv, DriverType, Begins, callVars
<1>7. BoundType' /\ GeometryInv'
  BY <1>1, FloppyBounds DEF TypeInv, BoundType, GeometryInv, Reads
<1>8. QED
  BY <1>4, <1>5, <1>6, <1>7 DEF TypeInv

LEMMA FlopinitTyped == TypeInv /\ FlopinitNext => TypeInv'
<1> SUFFICES ASSUME TypeInv, FlopinitNext PROVE TypeInv'
  OBVIOUS
<1>1. /\ UNCHANGED <<result, read, callVars, fdc, drive, loadsLeft, errorsLeft>>
      /\ pc = "DCL_END" /\ at' \in {"sense", "conf", "spec", "mode"}
  BY DEF FlopinitNext, Stay
<1>2. fdc.phase = "idle" /\ dest \in Place
  BY <1>1 DEF TypeInv, PhaseInv, DriverType
<1>3. Begins
  <2>1. /\ pc' = "DCL5" /\ dest' = dest /\ resAt' = 1 /\ moved' = <<>>
        /\ \/ at' = "sense" /\ cmd' = <<SENSE_INT>> \o <<>>
           \/ at' = "conf" /\ cmd' = <<CONFIGURE>> \o <<0, 96, 0>>
           \/ at' = "spec" /\ cmd' = <<SPECIFY>> \o <<175, 3>>
           \/ at' = "mode" /\ cmd' = <<MODE>> \o <<34, 0, 200, 0>>
    BY DEF FlopinitNext, Do
  <2>2. Asked' = CommandAt(at', read)
    BY <1>1 DEF Asked
  <2>3. QED
    BY <1>2, <2>1, <2>2, FlopinitCommands DEF Begins
<1>4. ReadType' /\ ResultType' /\ DiskType' /\ BoundType'
  BY <1>1 DEF TypeInv, ReadType, ResultType, DiskType, BoundType, callVars
<1>5. cmd' \in Seq(Bytes) /\ FdcType' /\ CommandInv' /\ PhaseInv' /\ ResultInv'
  BY <1>1, <1>2, <1>3, <1>4, BeginFacts DEF Commands
<1>6. DriverType'
  BY <1>1, <1>3, <1>5 DEF TypeInv, DriverType, Begins, callVars
<1>7. GeometryInv'
  BY <1>1 DEF GeometryInv, Reads
<1>8. QED
  BY <1>4, <1>5, <1>6, <1>7 DEF TypeInv

\* A read of Floprd begins: what the callers have in common.
LEMMA ReadBegins ==
  ASSUME TypeInv, pc = "DCL_END", at' \in Reads, ReadType', read'.sec >= 1, Begins, Stay,
         result' = result, DiskType',
         currErr' \in {0, e_error, e_crc, e_rnf, e_read},
         at' \in {"dir", "file"} => dsb'.dspc # 0 /\ bpb'.recsize # 0
  PROVE  TypeInv'
<1>1. fdc.phase = "idle" /\ fdc' = fdc /\ at' \in Commands
  BY DEF TypeInv, PhaseInv, Stay, Commands
<1>2. cmd' \in Seq(Bytes) /\ FdcType' /\ CommandInv' /\ PhaseInv' /\ ResultInv'
  BY <1>1, BeginFacts
<1>3. DriverType'
  BY <1>2 DEF DriverType, Begins, Reads
<1>4. ResultType' /\ BoundType' /\ GeometryInv'
  BY DEF TypeInv, ResultType, BoundType, GeometryInv, Stay
<1>5. QED
  BY <1>2, <1>3, <1>4 DEF TypeInv

\* getbpb reads the boot sector: its fields, as those of every read, fit the command.
LEMMA ReadBootCall ==
  ASSUME NEW step \in Reads, ReadBoot(step)
  PROVE  at' = step /\ ReadType' /\ read'.sec >= 1 /\ Begins
<1>1. at' = step /\ Floprd(0, 0, 1, 1, Sektor)
  BY DEF ReadBoot
<1>2. 1 \in Words
  BY WordFacts, WordIsPositive
<1>3. QED
  BY <1>1, <1>2, PlaceFacts, FloprdCall

\* load_tos ends: nothing is left to be done by Do_Command.
LEMMA LeaveTyped ==
  ASSUME TypeInv, pc = "DCL_END", Leave(currErr'), Stay, result' = result, DiskType',
         currErr' \in {0, e_error, e_crc, e_rnf, e_read}
  PROVE  TypeInv'
<1>1. UNCHANGED <<cmd, dest, resAt, read, fdc, drive, loadsLeft, errorsLeft>>
      /\ at' = "done" /\ pc' = "DCL_END" /\ fdc.phase = "idle"
  BY DEF Leave, Stay, TypeInv, PhaseInv
<1>2. DriverType' /\ ResultType' /\ ReadType' /\ FdcType' /\ BoundType' /\ GeometryInv'
  BY <1>1
     DEF TypeInv, DriverType, ResultType, ReadType, FdcType, BoundType, GeometryInv, Reads
<1>3. CommandInv' /\ PhaseInv' /\ ResultInv'
  BY <1>1 DEF TypeInv, CommandInv, PhaseInv, ResultInv, Commands, Reads
<1>4. QED
  BY <1>2, <1>3 DEF TypeInv

LEMMA FloprdErrors == FloprdError \in {0, e_error, e_crc, e_rnf, e_read}
BY DEF FloprdError

LEMMA FirstGetbpbTyped == TypeInv /\ FirstGetbpb => TypeInv'
<1> SUFFICES ASSUME TypeInv, FirstGetbpb PROVE TypeInv'
  OBVIOUS
<1>1. pc = "DCL_END" /\ ReadBoot("bpb1") /\ UNCHANGED <<result, callVars>> /\ Stay
  BY DEF FirstGetbpb
<1>2. at' = "bpb1" /\ ReadType' /\ read'.sec >= 1 /\ Begins
  BY <1>1, ReadBootCall DEF Reads
<1>3. DiskType' /\ currErr' \in {0, e_error, e_crc, e_rnf, e_read}
  BY <1>1 DEF TypeInv, DiskType, DriverType, callVars
<1>4. QED
  BY <1>1, <1>2, <1>3, ReadBegins DEF Reads

LEMMA NextTurnTyped == TypeInv /\ NextTurn => TypeInv'
<1> SUFFICES ASSUME TypeInv, NextTurn PROVE TypeInv'
  OBVIOUS
<1>1. /\ pc = "DCL_END" /\ at \in {"dir", "file"} /\ at' = at
      /\ UNCHANGED <<result, bpb, dsb>> /\ Stay /\ currErr' = FloprdError
      /\ ReadAbs(Rest, dsb)
  BY DEF NextTurn
<1>2. Rest \in JobType /\ dsb.dspc \in Words /\ dsb.dspc # 0 /\ dsb.dspt \in Words
  BY <1>1, RestType DEF TypeInv, DiskType, GeometryInv
<1>3. job' = Rest /\ ReadType' /\ read'.sec >= 1 /\ Begins
  BY <1>1, <1>2, ReadAbsCall DEF Reads
<1>4. DiskType'
  BY <1>1, <1>2, <1>3 DEF TypeInv, DiskType, JobType
<1>5. dsb'.dspc # 0 /\ bpb'.recsize # 0
  BY <1>1 DEF TypeInv, GeometryInv
<1>6. QED
  BY <1>1, <1>3, <1>4, <1>5, FloprdErrors, ReadBegins DEF Reads

LEMMA FsfirstTyped == TypeInv /\ Fsfirst => TypeInv'
<1> SUFFICES ASSUME TypeInv, Fsfirst PROVE TypeInv'
  OBVIOUS
<1>1. /\ pc = "DCL_END" /\ at = "dir" /\ UNCHANGED <<result, bpb, dsb>> /\ Stay
  BY DEF Fsfirst, LastTurn
<1>2. CASE Leave(e_error) \/ Leave(0)
  <2>1. DiskType' /\ Leave(currErr') /\ currErr' \in {0, e_error}
    BY <1>1, <1>2 DEF TypeInv, DiskType, Leave
  <2>2. QED
    BY <1>1, <2>1, LeaveTyped
<1>3. CASE ~(Leave(e_error) \/ Leave(0))
  <2>1. /\ Slots # {} /\ at' = "file" /\ currErr' = 0
        /\ ReadAbs([sect |-> FileStart(Found), to |-> TosLoadBuffer,
                    count |-> FileSectors(Found)], dsb)
    BY <1>3 DEF Fsfirst
  <2>2. FileStart(Found) \in Nat /\ FileSectors(Found) \in Words
    BY <1>1, <2>1, FoundFacts, FileFacts
  <2> DEFINE j == [sect |-> FileStart(Found), to |-> TosLoadBuffer,
                   count |-> FileSectors(Found)]
  <2>3. j \in JobType /\ dsb.dspc \in Words /\ dsb.dspc # 0 /\ dsb.dspt \in Words
    BY <1>1, <2>2, PlaceFacts DEF JobType, TypeInv, DiskType, GeometryInv
  <2> HIDE DEF j
  <2>4. job' = j /\ ReadType' /\ read'.sec >= 1 /\ Begins
    <3>1. ReadAbs(j, dsb) /\ at' \in Reads
      BY <2>1 DEF j, Reads
    <3>2. QED
      BY <2>3, <3>1, ReadAbsCall
  <2>5. DiskType' /\ dsb'.dspc # 0 /\ bpb'.recsize # 0
    BY <1>1, <2>3, <2>4 DEF TypeInv, DiskType, JobType, GeometryInv
  <2>6. QED
    BY <1>1, <2>1, <2>4, <2>5, ReadBegins DEF Reads
<1>4. QED
  BY <1>2, <1>3

LEMMA ReadFileTyped == TypeInv /\ ReadFile => TypeInv'
<1> SUFFICES ASSUME TypeInv, ReadFile PROVE TypeInv'
  OBVIOUS
<1>1. pc = "DCL_END" /\ Leave(FloprdError) /\ UNCHANGED <<result, bpb, dsb>> /\ Stay
  BY DEF ReadFile, LastTurn
<1>2. DiskType' /\ Leave(currErr') /\ currErr' \in {0, e_error, e_crc, e_rnf, e_read}
  BY <1>1, FloprdErrors DEF TypeInv, DiskType, Leave
<1>3. QED
  BY <1>1, <1>2, LeaveTyped

LEMMA GetbpbTyped == TypeInv /\ Getbpb => TypeInv'
<1> SUFFICES ASSUME TypeInv, Getbpb PROVE TypeInv'
  OBVIOUS
<1>1. /\ pc = "DCL_END" /\ at \in {"bpb1", "bpb2"} /\ result' = result /\ Stay
      /\ UNCHANGED <<file, sektor, load, faulty>>
  BY DEF Getbpb
<1>2. {Boot.bps, Boot.spc, Boot.ndirs, Boot.nsects, Boot.spf, Boot.spt, Boot.nsides}
        \subseteq Words
  BY BootFacts
<1>3. ReadBoot("bpb2") => at' = "bpb2" /\ ReadType' /\ read'.sec >= 1 /\ Begins
  BY ReadBootCall DEF Reads
<1>4. CASE FloprdError # 0 \/ ~BpbUsable(Boot)
  <2>1. /\ bpb' = IF FloprdError = 0 /\ Signed(Boot.bps) > 0
                  THEN [bpb EXCEPT !.recsize = Boot.bps] ELSE bpb
        /\ UNCHANGED dsb
        /\ currErr' = e_error /\ job' = job
        /\ ReadBoot("bpb2") \/ Leave(e_error)
    BY <1>4 DEF Getbpb, Leave
  <2>2. DiskType'
    BY <1>2, <2>1 DEF TypeInv, DiskType
  <2>3. CASE ReadBoot("bpb2")
    BY <1>1, <1>3, <2>1, <2>2, <2>3, ReadBegins DEF Reads
  <2>4. CASE Leave(e_error)
    <3>1. Leave(currErr')
      BY <2>1, <2>4
    <3>2. QED
      BY <1>1, <2>1, <2>2, <3>1, LeaveTyped
  <2>5. QED
    BY <2>1, <2>3, <2>4
<1>5. CASE ~(FloprdError # 0 \/ ~BpbUsable(Boot))
  <2>1. /\ bpb' = Bpb(Boot) /\ dsb' = Dsb(Boot)
        /\ \/ /\ at' = "trap"
              /\ UNCHANGED <<pc, cmd, dest, resAt, read, job, moved, currErr>>
           \/ /\ dsb'.dspc # 0 /\ currErr' = 0
              /\ \/ ReadBoot("bpb2") /\ UNCHANGED job
                 \/ /\ at' = "dir"
                    /\ ReadAbs([sect |-> (bpb'.fatrec + bpb'.fsiz) % Word,
                                to |-> Sektor, count |-> 1], dsb')
    BY <1>5 DEF Getbpb
  <2>2. /\ bpb' \in [recsize : Words, clsize : Nat, fsiz : Nat, fatrec : Nat, rdlen : Nat,
                     datrec : Words, numcl : Nat]
        /\ bpb'.recsize # 0
        /\ dsb' \in [dnsides : Nat, dspt : Words, dspc : Words]
    BY <1>2, <1>5, <2>1, BpbFacts
  <2>3. CASE at' = "trap" /\ UNCHANGED <<pc, cmd, dest, resAt, read, job, moved, currErr>>
    <3>1. DiskType'
      BY <2>2, <2>3 DEF TypeInv, DiskType
    <3>2. fdc.phase = "idle" /\ UNCHANGED <<fdc, drive, loadsLeft, errorsLeft>>
      BY <1>1 DEF TypeInv, PhaseInv, Stay
    <3>3. DriverType' /\ ResultType' /\ ReadType' /\ FdcType' /\ BoundType' /\ GeometryInv'
      BY <1>1, <2>3, <3>2
         DEF TypeInv, DriverType, ResultType, ReadType, FdcType, BoundType, GeometryInv,
             Reads
    <3>4. CommandInv' /\ PhaseInv' /\ ResultInv'
      BY <1>1, <2>3, <3>2 DEF TypeInv, CommandInv, PhaseInv, ResultInv, Commands, Reads
    <3>5. QED
      BY <3>1, <3>3, <3>4 DEF TypeInv
  <2>4. CASE dsb'.dspc # 0 /\ currErr' = 0 /\ ReadBoot("bpb2") /\ UNCHANGED job
    <3>1. DiskType'
      BY <2>2, <2>4 DEF TypeInv, DiskType
    <3>2. QED
      BY <1>1, <1>3, <2>4, <3>1, ReadBegins DEF Reads
  <2>5. CASE /\ dsb'.dspc # 0 /\ currErr' = 0 /\ at' = "dir"
             /\ ReadAbs([sect |-> (bpb'.fatrec + bpb'.fsiz) % Word,
                         to |-> Sektor, count |-> 1], dsb')
    <3> DEFINE sect == (bpb'.fatrec + bpb'.fsiz) % Word
               j == [sect |-> sect, to |-> Sektor, count |-> 1]
    <3>1. sect \in Nat /\ 1 \in Words
      <4>1. bpb'.fatrec + bpb'.fsiz \in Int
        BY <2>2
      <4>2. QED
        BY <4>1, WordFacts, WordIsPositive
    <3> HIDE DEF sect
    <3>2. j \in JobType
      BY <3>1, PlaceFacts DEF JobType
    <3>3. ReadAbs(j, dsb')
      BY <2>5 DEF sect
    <3> HIDE DEF j
    <3>4. dsb'.dspc \in Words /\ dsb'.dspt \in Words /\ dsb'.dspc # 0 /\ at' \in Reads
      BY <2>2, <2>5 DEF Reads
    <3>5. job' = j /\ ReadType' /\ read'.sec >= 1 /\ Begins
      BY <3>2, <3>3, <3>4, ReadAbsCall
    <3>6. DiskType'
      BY <2>2, <3>2, <3>5 DEF DiskType, JobType
    <3>7. QED
      BY <1>1, <2>2, <2>5, <3>4, <3>5, <3>6, ReadBegins
  <2>6. QED
    BY <2>1, <2>3, <2>4, <2>5
<1>6. QED
  BY <1>4, <1>5

LEMMA InsertTyped == TypeInv /\ (Insert \/ UNCHANGED vars) => TypeInv'
<1> SUFFICES ASSUME TypeInv, Insert \/ UNCHANGED vars PROVE TypeInv'
  OBVIOUS
<1>1. UNCHANGED driverVars /\ UNCHANGED <<fdc, budget>> /\ drive' \in Disks \cup {NoDisk}
  BY DEF Insert, vars, TypeInv, BoundType
<1>2. /\ DriverType' /\ ResultType' /\ ReadType' /\ DiskType' /\ GeometryInv'
      /\ Asked' = Asked
  BY <1>1, DriverStays
<1>3. BoundType' /\ FdcType'
  BY <1>1 DEF TypeInv, BoundType, FdcType, budget
<1>4. CommandInv' /\ PhaseInv' /\ ResultInv'
  BY <1>1, <1>2 DEF TypeInv, CommandInv, PhaseInv, ResultInv, driverVars
<1>5. QED
  BY <1>2, <1>3, <1>4 DEF TypeInv

LEMMA InitIsTyped == Init => TypeInv
<1> SUFFICES ASSUME Init PROVE TypeInv
  OBVIOUS
<1>1. 0 \in Words /\ <<>> \in Seq(Bytes) /\ <<>> \in Seq(SUBSET Bits)
  BY WordFacts, WordIsPositive
<1>2. DriverType /\ BoundType
  BY <1>1, PlaceFacts, FloppyBounds DEF Init, DriverType, BoundType
<1>3. ResultType
  BY DEF Init, ResultType, StatusByte
<1>4. ReadType /\ DiskType
  BY <1>1, PlaceFacts DEF Init, ReadType, Arguments, DiskType
<1>5. FdcType
  BY <1>1 DEF Init, FdcType, FdcRecord
<1>6. GeometryInv /\ CommandInv /\ PhaseInv /\ ResultInv
  BY DEF Init, GeometryInv, CommandInv, PhaseInv, ResultInv, Commands, Reads
<1>7. QED
  BY <1>2, <1>3, <1>4, <1>5, <1>6 DEF TypeInv

\* Every step of the driver, of the controller and of the user keeps the types and the
\* handshake that they rest on.
THEOREM TypeInductive == TypeInv /\ [Next]_vars => TypeInv'
<1> SUFFICES ASSUME TypeInv, [Next]_vars PROVE TypeInv'
  OBVIOUS
<1>1. CASE Fdc
  BY <1>1, FdcCommandTyped, NextSectorTyped, FdcResultTyped DEF Fdc
<1>2. CASE DoCommand
  BY <1>2, SendTyped, TakeDataTyped, TakeResultTyped, CommandEndsTyped DEF DoCommand
<1>3. CASE FlopinitNext \/ FirstGetbpb \/ Getbpb \/ NextTurn \/ Fsfirst \/ ReadFile
  BY <1>3, FlopinitTyped, FirstGetbpbTyped, GetbpbTyped, NextTurnTyped, FsfirstTyped,
     ReadFileTyped
<1>4. CASE LoadTos
  BY <1>4, LoadTosTyped
<1>5. CASE Insert \/ UNCHANGED vars
  BY <1>5, InsertTyped
<1>6. QED
  BY <1>1, <1>2, <1>3, <1>4, <1>5 DEF Next, Driver, Ended

\* In every reachable state, whatever the floppies hold and however the drive errs, the
\* variables have their types: among them, that a result never runs over ResultBuffer.
THEOREM TypeCorrect == Spec => []TypeOK
<1>1. TypeInv => TypeOK
  <2> SUFFICES ASSUME TypeInv PROVE TypeOK
    OBVIOUS
  <2>1. /\ result[1] \subseteq {"at", "ic"} /\ result[2] \subseteq {"en", "nd", "de", "ma"}
        /\ result[3] \subseteq {"dd"} /\ result[4] = {}
    BY DEF TypeInv, ResultType, StatusByte
  <2>2. \A r \in {job.count, read.count, dsb.dspt, dsb.dspc, bpb.datrec, bpb.recsize} :
          r \in Words
    BY DEF TypeInv, DiskType, ReadType, Arguments
  <2>3. Len(fdc.out) <= 4
    <3>1. CASE fdc.phase = "result"
      BY <3>1 DEF TypeInv, ResultInv, FdcType, FdcRecord, DriverType
    <3>2. CASE fdc.phase # "result"
      BY <3>2 DEF TypeInv, ResultInv
    <3>3. QED
      BY <3>1, <3>2
  <2>4. QED
    BY <2>1, <2>2, <2>3
       DEF TypeInv, DriverType, FdcType, FdcRecord, BoundType, TypeOK, Place, Words, Bytes
<1>2. QED
  BY <1>1, InitIsTyped, TypeInductive, PTL DEF Spec

-----------------------------------------------------------------------------
(* A read without an error has brought its sectors *)

\* A command begins with nothing delivered; outside of reads there is nothing to say.
LEMMA NothingDelivered ==
  ASSUME TypeInv', moved' \in Seq(Int),
         (pc' = "DCL5" /\ moved' = <<>>) \/ at' \notin Reads
  PROVE  ReadInv'
<1>1. CASE pc' = "DCL5" /\ moved' = <<>>
  <2>1. fdc'.phase = "idle"
    BY <1>1 DEF TypeInv, PhaseInv
  <2>2. QED
    BY <1>1, <2>1 DEF ReadInv, MovedInv, OutcomeInv
<1>2. CASE at' \notin Reads
  <2>1. fdc'.phase # "exec"
    BY <1>2 DEF TypeInv, PhaseInv
  <2>2. QED
    BY <1>2, <2>1 DEF ReadInv, MovedInv, OutcomeInv
<1>3. QED
  BY <1>1, <1>2

\* A read begins or load_tos ends.
LEMMA CallerFacts ==
  /\ \A step : ReadBoot(step) => pc' = "DCL5" /\ moved' = <<>>
  /\ \A j, g : ReadAbs(j, g) => pc' = "DCL5" /\ moved' = <<>>
  /\ \A err : Leave(err) => moved' = moved /\ at' \notin Reads
BY DEF ReadBoot, ReadAbs, Floprd, Do, Leave, Reads

\* What a step of load_tos itself does to the sectors counted.
LEMMA CallersRead ==
  ASSUME TypeInv, TypeInv', ReadInv,
         LoadTos \/ FlopinitNext \/ FirstGetbpb \/ Getbpb \/ NextTurn \/ Fsfirst \/ ReadFile
  PROVE  ReadInv'
<1>1. moved \in Seq(Int) /\ <<>> \in Seq(Int)
  BY DEF ReadInv, MovedInv
<1>2. CASE LoadTos \/ FlopinitNext
  <2>1. pc' = "DCL5" /\ moved' = <<>>
    BY <1>2 DEF LoadTos, FlopinitNext, Do
  <2>2. QED
    BY <1>1, <2>1, NothingDelivered
<1>3. CASE FirstGetbpb
  <2>1. pc' = "DCL5" /\ moved' = <<>>
    BY <1>3 DEF FirstGetbpb, ReadBoot, Floprd, Do
  <2>2. QED
    BY <1>1, <2>1, NothingDelivered
<1>4. CASE Getbpb
  <2>1. \/ \E step : ReadBoot(step)
        \/ Leave(e_error)
        \/ at' = "trap" /\ moved' = moved
        \/ \E j, g : ReadAbs(j, g)
    BY <1>4 DEF Getbpb
  <2>2. (pc' = "DCL5" /\ moved' = <<>>) \/ (moved' = moved /\ at' \notin Reads)
    BY <2>1, CallerFacts DEF Reads
  <2>3. QED
    BY <1>1, <2>2, NothingDelivered
<1>5. CASE NextTurn
  <2>1. pc' = "DCL5" /\ moved' = <<>>
    BY <1>5 DEF NextTurn, ReadAbs, Floprd, Do
  <2>2. QED
    BY <1>1, <2>1, NothingDelivered
<1>6. CASE Fsfirst \/ ReadFile
  <2>1. (\E err : Leave(err)) \/ (\E j, g : ReadAbs(j, g))
    BY <1>6 DEF Fsfirst, ReadFile
  <2>2. (pc' = "DCL5" /\ moved' = <<>>) \/ (moved' = moved /\ at' \notin Reads)
    BY <2>1, CallerFacts
  <2>3. QED
    BY <1>1, <2>2, NothingDelivered
<1>7. QED
  BY <1>2, <1>3, <1>4, <1>5, <1>6

\* The numbers of sectors are numbers.
LEMMA SectorNumberType ==
  ASSUME NEW d \in Disks, NEW track \in Int, NEW side \in Int, NEW sec \in Int
  PROVE  SectorNumber(d, track, side, sec) \in Int
<1>1. d.realSpt \in Int /\ d.realSides \in Int
  <2>1. d.realSpt \in 1..255 /\ d.realSides \in 1..2
    BY DisksAssumption DEF DiskOK
  <2>2. QED
    BY <2>1
<1>2. track * d.realSides \in Int
  BY <1>1
<1> DEFINE n == (track * d.realSides) + side
<1>3. n \in Int
  BY <1>2
<1> HIDE DEF n
<1>4. n * d.realSpt \in Int
  BY <1>1, <1>3
<1>5. SectorNumber(d, track, side, sec) = (n * d.realSpt) + sec - 1
  BY DEF SectorNumber, n
<1>6. QED
  BY <1>4, <1>5

LEMMA FdcCommandRead == TypeInv /\ TypeInv' /\ ReadInv /\ FdcCommand => ReadInv'
<1> SUFFICES ASSUME TypeInv, TypeInv', ReadInv, FdcCommand PROVE ReadInv'
  OBVIOUS
<1>1. UNCHANGED <<at, pc, cmd, resAt, result, read, drive, moved>> /\ fdc.phase = "command"
  BY DEF FdcCommand, driverVars
<1>2. CASE at \notin Reads
  BY <1>1, <1>2, NothingDelivered DEF ReadInv, MovedInv
<1>3. CASE at \in Reads /\ Len(fdc.cmd) < CommandBytes(fdc.cmd[1])
  <2>1. fdc'.phase = "command" /\ moved = <<>>
    BY <1>1, <1>3 DEF FdcCommand, TypeInv, FdcType, FdcRecord, ReadInv, MovedInv
  <2>2. QED
    BY <1>1, <2>1 DEF ReadInv, MovedInv, OutcomeInv
<1>4. CASE at \in Reads /\ ~(Len(fdc.cmd) < CommandBytes(fdc.cmd[1]))
  <2>1. fdc.cmd[1] = READ_DATA /\ cmd = <<>> /\ moved = <<>>
    BY <1>1, <1>4, CommandIsWhole, CommandFacts
       DEF TypeInv, ReadType, Asked, ReadInv, MovedInv
  <2>2. Look(fdc.cmd[5])
    BY <1>4, <2>1 DEF FdcCommand
  <2>3. fdc.cmd[5] = Asked[5] /\ Asked[5] \in Nat
    <3>1. Len(Asked) = 9 /\ Asked[5] \in Bytes
      BY <1>4, ReadBytesAsked DEF TypeInv
    <3>2. Len(fdc.cmd) = 9 /\ \A i \in 1..Len(fdc.cmd) : fdc.cmd[i] = Asked[i]
      BY <1>1, <2>1, <3>1, CommandIsWhole DEF TypeInv, CommandInv
    <3>3. QED
      BY <3>1, <3>2, WordFacts
  <2>4. /\ drive # NoDisk /\ fdc'.rqm
        /\ \/ fdc'.phase = "exec" /\ fdc'.sec = Asked[5]
           \/ fdc'.phase = "result" /\ fdc'.out \in Verdicts \ {EndOfTrack}
    BY <2>2, <2>3, LookFacts
  <2>5. Asked' = Asked /\ resAt = 1
    BY <1>1 DEF Asked, TypeInv, PhaseInv
  <2>6. MovedInv'
    <3>1. moved' \in Seq(Int) /\ Len(moved') = 0 /\ moved' = <<>>
      BY <1>1, <2>1
    <3>2. fdc'.phase = "exec" =>
            /\ drive' # NoDisk /\ fdc'.sec >= Asked'[5]
            /\ fdc'.sec = Asked'[5] + Len(moved') - (IF fdc'.rqm THEN 0 ELSE 1)
            /\ Asked'[7] \notin Asked'[5]..(fdc'.sec - 1)
      <4> SUFFICES ASSUME fdc'.phase = "exec"
                   PROVE  /\ drive' # NoDisk /\ fdc'.sec >= Asked'[5]
                          /\ fdc'.sec = Asked'[5] + Len(moved') - (IF fdc'.rqm THEN 0 ELSE 1)
                          /\ Asked'[7] \notin Asked'[5]..(fdc'.sec - 1)
        OBVIOUS
      <4>1. fdc'.sec = Asked'[5] /\ fdc'.rqm /\ drive' # NoDisk
        BY <1>1, <2>4, <2>5
      <4>2. Asked'[5] \in Int /\ Len(moved') = 0
        BY <2>3, <2>5, <3>1
      <4>3. \A n \in Int : \A m : m \notin n..(n - 1)
        OBVIOUS
      <4>4. QED
        BY <4>1, <4>2, <4>3
    <3>3. QED
      BY <3>1, <3>2 DEF MovedInv
  <2>7. OutcomeInv'
    <3>1. CASE fdc'.phase = "exec"
      BY <3>1 DEF OutcomeInv
    <3>2. CASE fdc'.phase = "result" /\ fdc'.out \in Verdicts \ {EndOfTrack}
      <4>1. PICK v \in Verdicts : v = fdc'.out /\ v # EndOfTrack
        BY <3>2
      <4>2. resAt' = 1 /\ \A i \in 1..Len(fdc'.out) : resAt' + i - 1 = i
        <5>1. Len(v) = 4
          BY VerdictFacts
        <5>2. QED
          BY <1>1, <2>5, <4>1, <5>1
      <4>3. Outcome(v)'
        BY <4>1, <4>2 DEF Outcome
      <4>4. QED
        BY <1>1, <2>4, <4>3 DEF OutcomeInv
    <3>3. QED
      BY <2>4, <3>1, <3>2
  <2>8. QED
    BY <2>6, <2>7 DEF ReadInv
<1>5. QED
  BY <1>2, <1>3, <1>4

LEMMA NextSectorRead == TypeInv /\ TypeInv' /\ ReadInv /\ FdcNextSector => ReadInv'
<1> SUFFICES ASSUME TypeInv, TypeInv', ReadInv, FdcNextSector PROVE ReadInv'
  OBVIOUS
<1>1. UNCHANGED <<at, pc, cmd, resAt, result, read, drive, moved>>
      /\ fdc.phase = "exec" /\ ~fdc.rqm
  BY DEF FdcNextSector, driverVars
<1>2. /\ at \in Reads /\ resAt = 1 /\ fdc.cmd[7] = Asked[7]
      /\ Asked[5] \in Int /\ Asked[7] \in Int
  BY <1>1, ReadIsWhole, WordFacts
<1>3. Asked' = Asked
  BY <1>1 DEF Asked
<1>4. /\ moved \in Seq(Int) /\ Len(moved) \in Nat
      /\ drive # NoDisk /\ fdc.sec >= Asked[5]
      /\ fdc.sec = Asked[5] + Len(moved) - 1 /\ Asked[7] \notin Asked[5]..(fdc.sec - 1)
  <2>1. moved \in Seq(Int) /\ Len(moved) \in Nat
    BY DEF ReadInv, MovedInv
  <2>2. QED
    BY <1>1, <2>1 DEF ReadInv, MovedInv
<1>5. fdc.sec \in Nat /\ fdc.sec \in Int /\ fdc.sec + 1 \in Nat
  BY DEF TypeInv, FdcType, FdcRecord
<1>6. \A i \in 1..Len(moved) :
        moved[i] = SectorNumber(drive, Asked[3], Asked[4], Asked[5] + i - 1)
  BY <1>2 DEF ReadInv, MovedInv
<1>7. CASE fdc.sec = Asked[7]
  <2>1. fdc' = [fdc EXCEPT !.rqm = TRUE, !.phase = "result", !.out = EndOfTrack]
    BY <1>2, <1>7 DEF FdcNextSector, Answer
  <2>2. fdc'.phase = "result" /\ fdc'.out = EndOfTrack
    BY <2>1 DEF TypeInv, FdcType, FdcRecord
  <2>3. Complete
    BY <1>2, <1>4, <1>7 DEF Complete
  <2>4. MovedInv'
    BY <1>1, <1>3, <1>4, <1>6, <2>2 DEF MovedInv, TypeInv, PhaseInv
  <2>5. OutcomeInv'
    <3>1. PICK v \in Verdicts : v = EndOfTrack
      BY DEF Verdicts
    <3>2. resAt' = 1 /\ \A i \in 1..Len(fdc'.out) : resAt' + i - 1 = i
      <4>1. Len(v) = 4
        BY VerdictFacts
      <4>2. QED
        BY <1>1, <1>2, <2>2, <3>1, <4>1
    <3>3. Complete'
      BY <1>1, <1>3, <2>3 DEF Complete
    <3>4. Outcome(v)'
      BY <2>2, <3>1, <3>2, <3>3 DEF Outcome
    <3>5. QED
      BY <1>1, <1>4, <3>4 DEF OutcomeInv
  <2>6. QED
    BY <2>4, <2>5 DEF ReadInv
<1>8. CASE fdc.sec # Asked[7]
  <2>1. Look(fdc.sec + 1)
    BY <1>2, <1>8 DEF FdcNextSector
  <2>2. /\ fdc'.rqm
        /\ \/ fdc'.phase = "exec" /\ fdc'.sec = fdc.sec + 1
           \/ fdc'.phase = "result" /\ fdc'.out \in Verdicts \ {EndOfTrack}
    BY <1>5, <2>1, LookFacts
  <2>3. MovedInv'
    <3>1. fdc'.phase = "exec" =>
            /\ fdc'.sec >= Asked[5]
            /\ fdc'.sec = Asked[5] + Len(moved) - 0
            /\ Asked[7] \notin Asked[5]..(fdc'.sec - 1)
      <4> SUFFICES ASSUME fdc'.phase = "exec"
                   PROVE  /\ fdc'.sec >= Asked[5]
                          /\ fdc'.sec = Asked[5] + Len(moved) - 0
                          /\ Asked[7] \notin Asked[5]..(fdc'.sec - 1)
        OBVIOUS
      <4> DEFINE a == Asked[5]
                 e == Asked[7]
                 n == Len(moved)
      <4>1. a \in Int /\ e \in Int /\ n \in Nat
        BY <1>2, <1>4
      <4>2. fdc'.sec = fdc.sec + 1
        BY <2>2
      <4>3. fdc.sec \in Int /\ fdc.sec >= a /\ fdc.sec = a + n - 1 /\ e \notin a..(fdc.sec - 1)
            /\ fdc.sec # e
        BY ONLY <1>4, <1>8, <1>5
      <4> HIDE DEF a, e, n
      <4>4. /\ fdc'.sec >= a /\ fdc'.sec = a + n - 0
            /\ e \notin a..(fdc'.sec - 1)
        BY <4>1, <4>2, <4>3
      <4>5. QED
        BY <4>4 DEF a, e, n
    <3>2. fdc'.phase # "command" /\ pc' # "DCL5"
      BY <1>1, <2>2 DEF TypeInv, PhaseInv
    <3>3. QED
      BY <1>1, <1>3, <1>4, <1>6, <2>2, <3>1, <3>2 DEF MovedInv
  <2>4. OutcomeInv'
    <3>1. CASE fdc'.phase = "exec"
      BY <3>1 DEF OutcomeInv
    <3>2. CASE fdc'.phase = "result" /\ fdc'.out \in Verdicts \ {EndOfTrack}
      <4>1. PICK v \in Verdicts : v = fdc'.out /\ v # EndOfTrack
        BY <3>2
      <4>2. resAt' = 1 /\ \A i \in 1..Len(fdc'.out) : resAt' + i - 1 = i
        <5>1. Len(v) = 4
          BY VerdictFacts
        <5>2. QED
          BY <1>1, <1>2, <4>1, <5>1
      <4>3. Outcome(v)'
        BY <4>1, <4>2 DEF Outcome
      <4>4. QED
        BY <1>1, <1>4, <4>3 DEF OutcomeInv
    <3>3. QED
      BY <2>2, <3>1, <3>2
  <2>5. QED
    BY <2>3, <2>4 DEF ReadInv
<1>9. QED
  BY <1>7, <1>8

LEMMA FdcResultRead == TypeInv /\ TypeInv' /\ ReadInv /\ (FdcResult \/ FdcStepped) => ReadInv'
<1> SUFFICES ASSUME TypeInv, TypeInv', ReadInv, FdcResult \/ FdcStepped PROVE ReadInv'
  OBVIOUS
<1>1. UNCHANGED <<at, pc, cmd, resAt, result, read, drive, moved>>
  BY DEF FdcResult, FdcStepped, driverVars
<1>2. Asked' = Asked
  BY <1>1 DEF Asked
<1>3. CASE FdcResult /\ fdc.out = <<>>
  <2>1. fdc.phase = "result" /\ fdc'.phase = "idle"
    BY <1>3, IdleFacts DEF FdcResult, TypeInv, FdcType
  <2>2. pc # "DCL5"
    BY <2>1 DEF TypeInv, PhaseInv
  <2>3. MovedInv'
    BY <1>1, <1>2, <2>1, <2>2 DEF ReadInv, MovedInv
  <2>4. OutcomeInv'
    BY <1>1, <1>2, <2>1, <2>2 DEF ReadInv, OutcomeInv, Outcome, Complete
  <2>5. QED
    BY <2>3, <2>4 DEF ReadInv
<1>4. CASE (FdcResult /\ fdc.out # <<>>) \/ FdcStepped
  <2>1. /\ fdc'.phase = fdc.phase /\ fdc'.out = fdc.out /\ fdc'.sec = fdc.sec
        /\ fdc.phase = "exec" => fdc'.rqm = fdc.rqm
    BY <1>4 DEF FdcResult, FdcStepped, TypeInv, FdcType, FdcRecord
  <2>2. MovedInv'
    BY <1>1, <1>2, <2>1 DEF ReadInv, MovedInv
  <2>3. OutcomeInv'
    BY <1>1, <1>2, <2>1 DEF ReadInv, OutcomeInv, Outcome, Complete
  <2>4. QED
    BY <2>2, <2>3 DEF ReadInv
<1>5. QED
  BY <1>3, <1>4

\* The driver sends a byte of the command.
LEMMA SendRead == TypeInv /\ TypeInv' /\ ReadInv /\ (FirstByte \/ NextByte) => ReadInv'
<1> SUFFICES ASSUME TypeInv, TypeInv', ReadInv, FirstByte \/ NextByte PROVE ReadInv'
  OBVIOUS
<1>1. UNCHANGED <<at, read, drive, moved>> /\ moved \in Seq(Int) /\ Asked' = Asked
  BY DEF FirstByte, NextByte, ReadInv, MovedInv, Asked
<1>2. CASE at \notin Reads
  BY <1>1, <1>2, NothingDelivered
<1>3. CASE at \in Reads
  <2>1. pc = "DCL5" \/ fdc.phase = "command"
    BY DEF FirstByte, NextByte
  <2>2. moved = <<>>
    BY <1>3, <2>1 DEF ReadInv, MovedInv
  <2>3. ~Busy \/ pc # "DCL5"
    BY DEF Busy, TypeInv, PhaseInv
  <2>4. fdc'.phase = "command"
    BY <2>3 DEF FirstByte, NextByte, Write, TypeInv, FdcType, FdcRecord
  <2>5. QED
    BY <1>1, <2>2, <2>4 DEF ReadInv, MovedInv, OutcomeInv
<1>4. QED
  BY <1>2, <1>3

\* DCL_READ delivers the sector the controller is at.
LEMMA TakeDataRead == TypeInv /\ TypeInv' /\ ReadInv /\ TakeData => ReadInv'
<1> SUFFICES ASSUME TypeInv, TypeInv', ReadInv, TakeData PROVE ReadInv'
  OBVIOUS
<1>1. UNCHANGED <<at, read, drive>> /\ fdc.phase = "exec" /\ fdc.rqm /\ pc' = "DCL3"
  BY DEF TakeData, Executing
<1>2. fdc'.phase = "exec" /\ ~fdc'.rqm /\ fdc'.sec = fdc.sec
  BY <1>1 DEF TakeData, TypeInv, FdcType, FdcRecord
<1>3. Asked' = Asked
  BY <1>1 DEF Asked
<1>4. /\ at \in Reads /\ fdc.cmd[3] = Asked[3] /\ fdc.cmd[4] = Asked[4]
      /\ Asked[3] \in Int /\ Asked[4] \in Int /\ Asked[5] \in Int
  <2>1. at \in Reads /\ \A i \in 1..9 : fdc.cmd[i] = Asked[i] /\ Asked[i] \in Bytes
    BY <1>1, ReadIsWhole
  <2>2. \A i \in Bytes : i \in Int
    BY WordFacts
  <2>3. QED
    BY <2>1, <2>2
<1>5. fdc.sec \in Int /\ drive \in Disks
  BY <1>1 DEF TypeInv, FdcType, FdcRecord, BoundType, ReadInv, MovedInv
<1>6. moved \in Seq(Int) /\ Len(moved) \in Nat
  BY DEF ReadInv, MovedInv
<1>7. /\ fdc.sec = Asked[5] + Len(moved) - 0 /\ fdc.sec >= Asked[5] /\ drive # NoDisk
      /\ Asked[7] \notin Asked[5]..(fdc.sec - 1)
  BY <1>1 DEF ReadInv, MovedInv
<1> DEFINE n == SectorNumber(drive, fdc.cmd[3], fdc.cmd[4], fdc.sec)
<1>8. n \in Int
  BY <1>4, <1>5, SectorNumberType
<1>9. moved' = Append(moved, n)
  BY DEF TakeData
<1>10. n = SectorNumber(drive, Asked[3], Asked[4], fdc.sec)
  BY <1>4
<1> HIDE DEF n
<1>11. /\ moved' \in Seq(Int) /\ Len(moved') = Len(moved) + 1
       /\ \A i \in 1..Len(moved) : moved'[i] = moved[i]
       /\ moved'[Len(moved) + 1] = n
  BY ONLY <1>6, <1>8, <1>9
<1>12. \A i \in 1..Len(moved') :
         moved'[i] = SectorNumber(drive, Asked[3], Asked[4], Asked[5] + i - 1)
  <2> SUFFICES ASSUME NEW i \in 1..Len(moved')
               PROVE  moved'[i] = SectorNumber(drive, Asked[3], Asked[4], Asked[5] + i - 1)
    OBVIOUS
  <2>1. i \in 1..Len(moved) \/ i = Len(moved) + 1
    BY <1>6, <1>11
  <2>2. CASE i \in 1..Len(moved)
    BY <1>4, <1>11, <2>2 DEF ReadInv, MovedInv
  <2>3. CASE i = Len(moved) + 1
    <3>1. Asked[5] + i - 1 = fdc.sec
      BY ONLY <1>4, <1>6, <1>7, <2>3
    <3>2. QED
      BY <1>10, <1>11, <2>3, <3>1
  <2>4. QED
    BY <2>1, <2>2, <2>3
<1>13. fdc'.sec = Asked[5] + Len(moved') - 1
  BY ONLY <1>2, <1>4, <1>6, <1>7, <1>11
<1>14. MovedInv'
  BY <1>1, <1>2, <1>3, <1>7, <1>11, <1>12, <1>13 DEF MovedInv
<1>15. QED
  BY <1>2, <1>14 DEF ReadInv, OutcomeInv

\* DCL_RESULT puts the next byte of the controller's verdict to its place.
LEMMA TakeResultOutcome ==
  ASSUME TypeInv, TakeResult, at \in Reads, NEW v, Outcome(v)
  PROVE  Outcome(v)'
<1>1. UNCHANGED <<at, read, drive, moved>> /\ fdc.phase = "result" /\ fdc.rqm /\ pc' = "DCL4"
      /\ resAt' = resAt + 1 /\ result' = [result EXCEPT ![resAt] = Head(fdc.out)]
  BY DEF TakeResult
<1>2. fdc'.phase = "result" /\ fdc'.out = Tail(fdc.out)
  BY <1>1 DEF TakeResult, TypeInv, FdcType, FdcRecord
<1>3. Asked' = Asked
  BY <1>1 DEF Asked
<1>4. fdc.out \in Seq(SUBSET Bits) /\ fdc.out # <<>> /\ resAt \in 1..5
      /\ DOMAIN result = 1..4
  BY <1>1 DEF TypeInv, FdcType, FdcRecord, PhaseInv, DriverType, ResultType
<1>5. /\ Len(fdc.out) \in Nat /\ Len(fdc.out) >= 1 /\ Head(fdc.out) = fdc.out[1]
      /\ Len(Tail(fdc.out)) = Len(fdc.out) - 1
      /\ \A i \in 1..(Len(fdc.out) - 1) : Tail(fdc.out)[i] = fdc.out[i + 1]
  BY ONLY <1>4
<1>6. resAt + Len(fdc.out) = 5
  BY <1>1 DEF TypeInv, PhaseInv
<1>7. \A i \in 1..(resAt - 1) : result[i] = v[i]
  BY DEF Outcome
<1>8. \A i \in 1..Len(fdc.out) : fdc.out[i] = v[resAt + i - 1]
  BY <1>1 DEF Outcome
<1>9. fdc.out[1] = v[resAt]
  <2>1. 1 \in 1..Len(fdc.out) /\ resAt + 1 - 1 = resAt
    BY ONLY <1>4, <1>5
  <2>2. QED
    BY <1>8, <2>1
<1>10. \A i \in 1..(resAt' - 1) : result'[i] = v[i]
  <2> SUFFICES ASSUME NEW i \in 1..(resAt' - 1) PROVE result'[i] = v[i]
    OBVIOUS
  <2>1. i \in 1..4 /\ (i \in 1..(resAt - 1) \/ i = resAt)
    BY ONLY <1>1, <1>4, <1>5, <1>6
  <2>2. QED
    BY <1>1, <1>4, <1>5, <1>7, <1>9, <2>1
<1>11. \A i \in 1..Len(fdc'.out) : fdc'.out[i] = v[resAt' + i - 1]
  <2> SUFFICES ASSUME NEW i \in 1..(Len(fdc.out) - 1)
               PROVE  Tail(fdc.out)[i] = v[resAt' + i - 1]
    BY <1>2, <1>5
  <2>1. i + 1 \in 1..Len(fdc.out) /\ resAt + (i + 1) - 1 = resAt' + i - 1
    BY ONLY <1>1, <1>4, <1>5
  <2>2. QED
    BY <1>5, <1>8, <2>1
<1>12. v = EndOfTrack => Complete'
  BY <1>1, <1>3 DEF Outcome, Complete
<1>13. QED
  BY <1>10, <1>11, <1>12 DEF Outcome

LEMMA TakeResultRead == TypeInv /\ TypeInv' /\ ReadInv /\ TakeResult => ReadInv'
<1> SUFFICES ASSUME TypeInv, TypeInv', ReadInv, TakeResult PROVE ReadInv'
  OBVIOUS
<1>1. UNCHANGED <<at, read, drive, moved>> /\ fdc.phase = "result" /\ pc' = "DCL4"
  BY DEF TakeResult
<1>2. fdc'.phase = "result"
  BY <1>1 DEF TakeResult, TypeInv, FdcType, FdcRecord
<1>3. Asked' = Asked
  BY <1>1 DEF Asked
<1>4. MovedInv'
  BY <1>1, <1>2, <1>3 DEF ReadInv, MovedInv
<1>5. CASE at \notin Reads
  BY <1>1, <1>5, NothingDelivered DEF ReadInv, MovedInv
<1>6. CASE at \in Reads
  <2>1. drive # NoDisk
    BY <1>1, <1>6 DEF ReadInv, OutcomeInv
  <2>2. PICK v \in Verdicts : Outcome(v)
    BY <1>1, <1>6 DEF ReadInv, OutcomeInv
  <2>3. Outcome(v)'
    BY <1>6, <2>2, TakeResultOutcome
  <2>4. OutcomeInv'
    BY <1>1, <2>1, <2>3 DEF OutcomeInv
  <2>5. QED
    BY <1>4, <2>4 DEF ReadInv
<1>7. QED
  BY <1>5, <1>6

\* The driver sees that the controller has finished; the user inserts a disk.
LEMMA CommandEndsRead == TypeInv /\ TypeInv' /\ ReadInv /\ CommandEnds => ReadInv'
<1> SUFFICES ASSUME TypeInv, TypeInv', ReadInv, CommandEnds PROVE ReadInv'
  OBVIOUS
<1>1. UNCHANGED <<at, read, drive, moved, fdc, resAt, result>> /\ pc' = "DCL_END"
      /\ pc # "DCL5" /\ fdc.phase = "idle"
  BY DEF CommandEnds, Busy
<1>2. Asked' = Asked
  BY <1>1 DEF Asked
<1>3. QED
  BY <1>1, <1>2 DEF ReadInv, MovedInv, OutcomeInv, Outcome, Complete

LEMMA InsertRead == TypeInv /\ TypeInv' /\ ReadInv /\ (Insert \/ UNCHANGED vars) => ReadInv'
<1> SUFFICES ASSUME TypeInv, TypeInv', ReadInv, Insert \/ UNCHANGED vars PROVE ReadInv'
  OBVIOUS
<1>1. /\ UNCHANGED <<at, pc, read, moved, fdc, resAt, result>>
      /\ drive' = drive \/ drive = NoDisk
  BY DEF Insert, vars, driverVars
<1>2. Asked' = Asked
  BY <1>1 DEF Asked
<1>3. CASE drive' = drive
  BY <1>1, <1>2, <1>3 DEF ReadInv, MovedInv, OutcomeInv, Outcome, Complete
<1>4. CASE drive = NoDisk
  <2>1. /\ moved \in Seq(Int) /\ fdc.phase # "exec"
        /\ at \in Reads => fdc.phase # "result" /\ (fdc.phase = "idle" => pc = "DCL5")
    BY <1>4 DEF ReadInv, MovedInv, OutcomeInv
  <2>2. at \in Reads => pc = "DCL5" \/ fdc.phase = "command"
    BY <2>1 DEF TypeInv, FdcType, FdcRecord
  <2>3. at \in Reads => moved = <<>>
    BY <2>2 DEF ReadInv, MovedInv
  <2>4. QED
    BY <1>1, <2>1, <2>2, <2>3 DEF ReadInv, MovedInv, OutcomeInv
<1>5. QED
  BY <1>1, <1>3, <1>4

LEMMA InitRead == Init => ReadInv
BY DEF Init, ReadInv, MovedInv, OutcomeInv, Reads

\* Every step keeps what is known of the sectors delivered and of the result.
THEOREM ReadInductive == TypeInv /\ ReadInv /\ [Next]_vars => ReadInv'
<1> SUFFICES ASSUME TypeInv, ReadInv, [Next]_vars PROVE ReadInv'
  OBVIOUS
<1>1. TypeInv'
  BY TypeInductive
<1>2. CASE Fdc
  BY <1>1, <1>2, FdcCommandRead, NextSectorRead, FdcResultRead DEF Fdc
<1>3. CASE DoCommand
  BY <1>1, <1>3, SendRead, TakeDataRead, TakeResultRead, CommandEndsRead DEF DoCommand
<1>4. CASE LoadTos \/ FlopinitNext \/ FirstGetbpb \/ Getbpb \/ NextTurn \/ Fsfirst \/ ReadFile
  BY <1>1, <1>4, CallersRead
<1>5. CASE Insert \/ UNCHANGED vars
  BY <1>1, <1>5, InsertRead
<1>6. QED
  BY <1>2, <1>3, <1>4, <1>5 DEF Next, Driver, Ended

\* The bytes of the command hold what Floprd was called with: Floprd moves only the low
\* byte of the track and of the sectors (floppy.s), whatever the directory asks for.
FitsInBytes == /\ read.track < 256 /\ read.sec < 256
               /\ read.sec + read.count <= 256

\* Then the command asks for what Floprd was called with.
LEMMA AskedFitting ==
  ASSUME TypeInv, FitsInBytes, at \in Reads
  PROVE  /\ read.sec \in Nat /\ read.sec >= 1 /\ read.count \in Nat
         /\ Asked[3] = read.track /\ Asked[4] = read.side /\ Asked[5] = read.sec
         /\ Asked[7] = read.sec + read.count - 1
<1>1. /\ read.track \in Nat /\ read.side \in {0, 1} /\ read.sec \in Nat /\ read.count \in Nat
      /\ read.sec >= 1
  BY WordFacts DEF TypeInv, ReadType, Arguments, GeometryInv
<1>2. /\ read.track % 256 = read.track /\ read.side % 256 = read.side
      /\ read.sec % 256 = read.sec
      /\ (read.sec + read.count - 1) % 256 = read.sec + read.count - 1
  <2>1. \A n \in 0..255 : n % 256 = n
    OBVIOUS
  <2>2. /\ read.track \in 0..255 /\ read.side \in 0..255 /\ read.sec \in 0..255
        /\ read.sec + read.count - 1 \in 0..255
    <3>1. read.track < 256 /\ read.sec < 256 /\ read.sec + read.count <= 256
      BY DEF FitsInBytes
    <3>2. read.side \in 0..255
      BY <1>1
    <3>3. \A sec, count \in Nat : sec >= 1 /\ sec + count <= 256 => sec + count - 1 \in 0..255
      OBVIOUS
    <3>4. read.track \in 0..255 /\ read.sec \in 0..255
      BY <1>1, <3>1
    <3>5. QED
      BY <1>1, <3>1, <3>2, <3>3, <3>4
  <2>3. QED
    BY <2>1, <2>2
<1>3. /\ Asked[3] = read.track /\ Asked[4] = read.side /\ Asked[5] = read.sec
      /\ Asked[7] = read.sec + read.count - 1
  BY <1>2 DEF Asked, CommandAt, Reads
<1>4. QED
  BY <1>1, <1>3

\* What the invariant says of a read that Floprd reports as good.
LEMMA GoodRead ==
  ASSUME TypeInv, ReadInv, FitsInBytes,
         pc = "DCL_END", at \in {"bpb1", "bpb2", "dir", "file"}, FloprdError = 0
  PROVE  moved = [i \in 1..read.count |->
                    SectorNumber(drive, read.track, read.side, read.sec + i - 1)]
<1>1. at \in Reads /\ fdc.phase = "idle" /\ resAt = 5
  BY DEF Reads, TypeInv, PhaseInv
<1>2. PICK v \in Verdicts : Outcome(v)
  BY <1>1 DEF ReadInv, OutcomeInv
<1>3. result[1] = v[1] /\ result[2] = v[2]
  BY <1>1, <1>2 DEF Outcome
<1>4. v = EndOfTrack
  <2>1. v[1] = {"at"} /\ (v # EndOfTrack => v[2] \in {{"nd"}, {"de"}, {"ma"}}
                                            /\ v[3] \in {{}, {"dd"}})
    BY DEF Verdicts, Failure, EndOfTrack, Abnormal
  <2>2. result[1] # {} /\ (v # EndOfTrack => "en" \notin result[2])
    BY <1>3, <2>1
  <2>3. QED
    BY <2>2 DEF FloprdError, e_rnf, e_crc, e_read
<1>5. Asked[7] >= Asked[5] /\ Len(moved) = Asked[7] - Asked[5] + 1
  BY <1>2, <1>4 DEF Outcome, Complete
<1>6. /\ read.sec \in Nat /\ read.sec >= 1 /\ read.count \in Nat
      /\ Asked[3] = read.track /\ Asked[4] = read.side /\ Asked[5] = read.sec
      /\ Asked[7] = read.sec + read.count - 1
  BY <1>1, AskedFitting
<1>7. Len(moved) = read.count
  BY <1>5, <1>6
<1>8. \A i \in 1..read.count :
         moved[i] = SectorNumber(drive, read.track, read.side, read.sec + i - 1)
  BY <1>1, <1>6, <1>7 DEF ReadInv, MovedInv
<1>9. moved \in Seq(Int)
  BY DEF ReadInv, MovedInv
<1>10. moved = [i \in 1..Len(moved) |-> moved[i]]
  BY <1>9
<1>11. QED
  BY <1>7, <1>8, <1>10

\* In every reachable state, a Floprd without an error has brought the sectors it was
\* asked for, if the command could name them: no result of an earlier command is ever
\* taken for the result of this one.
THEOREM ReadReportedFitting == Spec => [](FitsInBytes => ReadReported)
<1>1. TypeInv /\ ReadInv => (FitsInBytes => ReadReported)
  BY GoodRead DEF ReadReported
<1>2. QED
  BY <1>1, InitIsTyped, InitRead, TypeInductive, ReadInductive, PTL DEF Spec

-----------------------------------------------------------------------------
(* From the sectors delivered to the file in the load buffer *)

\* What the steps of load_tos know of the disk: a boot sector was read of it.
DiskInv ==
  /\ at \in {"dir", "file", "done", "trap"} => drive # NoDisk
  /\ at \in {"dir", "file", "trap"} => BpbUsable(drive) /\ 0 \notin drive.bad
  /\ at \in {"dir", "file"} => bpb = Bpb(drive) /\ dsb = Dsb(drive)
  /\ at = "trap" => (drive.spt * drive.nsides) % Word = 0

\* The first sectors of a job lie where the arguments of its Floprd say.
ReadAt(d, r, first, count) ==
  /\ r.count \in 1..count /\ r.track < 256 /\ r.sec >= 1 /\ r.sec + r.count <= 256
  /\ \A i \in 0..(r.count - 1) :
       SectorNumber(d, r.track, r.side, r.sec + i) = first + i
  /\ first + r.count <= d.nsects =>
       \A i \in 0..(r.count - 1) : Exists(d, r.track, r.side, r.sec + i)

\* The sector put down for each one delivered: in SektorPuffer the last, in the load
\* buffer one behind the other.
SectorOf(n) == [disk |-> drive.id, number |-> n]
InBuffer(off, n) == off \in DOMAIN load /\ load[off] = SectorOf(n)
PlacedInv ==
  /\ at \in Reads => dest.to = IF at = "file" THEN "load" ELSE "sektor"
  /\ at \in {"dir", "file"} => job.to.to = dest.to
  /\ at \in Reads \ {"file"} /\ moved # <<>> => sektor = SectorOf(moved[Len(moved)])
  /\ at = "file" =>
       /\ dest.off = job.to.off + (SectorBytes * Len(moved))
       /\ \A i \in 1..Len(moved) : InBuffer(job.to.off + (SectorBytes * (i - 1)), moved[i])

\* No bad sector is delivered.
CleanInv ==
  at \in Reads =>
    /\ \A i \in 1..Len(moved) : moved[i] \notin drive.bad
    /\ fdc.phase = "exec" => SectorNumber(drive, Asked[3], Asked[4], fdc.sec) \notin drive.bad

\* What a read that fails can be blamed on.
Blamed ==
  \/ faulty
  \/ \E s \in Asked[5]..Asked[7] : \/ ~Exists(drive, Asked[3], Asked[4], s)
                                   \/ SectorNumber(drive, Asked[3], Asked[4], s) \in drive.bad
BlameInv ==
  (at \in Reads /\ Asked[5] <= Asked[7]
     /\ (fdc.phase = "result" \/ (fdc.phase = "idle" /\ pc # "DCL5"))) =>
    Blamed \/ Outcome(EndOfTrack)

\* The boot sector is one of its own; of a regular disk, the first sector of the root
\* directory is read for the entry, and then the file from its first sector on: what of
\* it lies before the job is in the buffer.
StartOfFile(d) == DataSector(d) + ((FileEntry(d).cluster - 2) * d.spc)
Holds(d, count) ==
  \A i \in 0..(count - 1) :
    InBuffer(SectorBytes * i, FileSector(d, i)) /\ FileSector(d, i) \notin d.bad
Progress(d) ==
  LET n == job.sect - StartOfFile(d)
  IN /\ n >= 0 /\ job.to.off = SectorBytes * n /\ n + job.count = SectorsOfFile(d)
     /\ Holds(d, n)
JobInv ==
  /\ at \in {"bpb1", "bpb2"} => read = [track |-> 0, side |-> 0, sec |-> 1, count |-> 1]
  /\ at \in {"dir", "file"} /\ Regular(drive) => ReadAt(drive, read, job.sect, job.count)
  /\ at = "dir" /\ Regular(drive) => job.sect = RootSector(drive) /\ job.count = 1
  /\ at = "file" /\ Regular(drive) =>
       HasFile(drive) /\ RootSector(drive) \notin drive.bad /\ Progress(drive)

LoadInv == /\ DiskInv /\ PlacedInv /\ CleanInv /\ BlameInv /\ JobInv
           /\ FileLoaded /\ LoadOutcome

\* Division of natural numbers.
LEMMA Division ==
  ASSUME NEW n \in Nat, NEW m \in Nat, m > 0
  PROVE  /\ n \div m \in Nat /\ n % m \in 0..(m - 1) /\ n = (m * (n \div m)) + (n % m)
OBVIOUS

LEMMA Quotient ==
  ASSUME NEW q \in Nat, NEW r \in Nat, NEW m \in Nat, r < m, NEW n, n = (m * q) + r
  PROVE  n \div m = q /\ n % m = r
OBVIOUS

LEMMA WordOfSmall == \A n \in Nat : n < Word => n % Word = n
BY DEF Word

\* A regular disk by its numbers.
LEMMA RegularNumbers ==
  ASSUME NEW d \in Disks, Regular(d)
  PROVE  /\ d.spt \in 1..255 /\ d.nsides \in {1, 2} /\ d.tracks \in 1..255
         /\ d.realSpt = d.spt /\ d.realSides = d.nsides
         /\ d.nsects \in Nat /\ d.nsects < Word /\ d.nsects = d.spt * d.nsides * d.tracks
         /\ d.spc \in 1..255 /\ d.bps = 512 /\ d.ndirs \in Nat /\ d.spf \in Nat
         /\ d.ndirs < Word
         /\ RootSector(d) = 1 + (2 * d.spf) /\ RootSector(d) + (d.ndirs \div 16) <= d.nsects
<1>1. d.nsects \in 0..(Word - 1) /\ d.ndirs \in 0..(Word - 1) /\ d.spf \in 0..(Word - 1)
  BY DisksAssumption DEF DiskOK
<1>2. d.realSpt \in 1..255 /\ d.realSides \in 1..2 /\ d.tracks \in 1..255
  BY DisksAssumption DEF DiskOK
<1>3. QED
  BY <1>1, <1>2, WordIsPositive DEF Regular, SectorBytes, RootSector, DataSector

\* Its cylinders have a number of sectors, and fewer than 256 of them hold all sectors.
LEMMA RegularGeometry ==
  ASSUME NEW d \in Disks, Regular(d)
  PROVE  /\ BpbUsable(d)
         /\ Dsb(d) = [dnsides |-> d.nsides, dspt |-> d.spt, dspc |-> d.spt * d.nsides]
         /\ d.spt * d.nsides \in 1..510
<1>1. /\ d.spt \in 1..255 /\ d.nsides \in {1, 2} /\ d.spc \in 1..255 /\ d.bps = 512
  BY RegularNumbers
<1>2. d.spt * d.nsides \in 1..510 /\ d.spt * d.nsides \in Nat
  BY <1>1
<1>3. (d.spt * d.nsides) % Word = d.spt * d.nsides
  BY <1>2, WordOfSmall DEF Word
<1>4. BpbUsable(d)
  BY <1>1 DEF BpbUsable, Signed
<1>5. QED
  BY <1>2, <1>3, <1>4 DEF Dsb

\* The bpb of a regular disk: where its root directory and its data begin.
LEMMA RegularBpb ==
  ASSUME NEW d \in Disks, Regular(d)
  PROVE  /\ Bpb(d).recsize = 512 /\ Bpb(d).clsize = d.spc
         /\ Bpb(d).datrec = DataSector(d)
         /\ (Bpb(d).fatrec + Bpb(d).fsiz) % Word = RootSector(d)
<1> DEFINE dirs == d.ndirs \div 16
<1>1. /\ d.spc \in 1..255 /\ d.bps = 512 /\ d.ndirs \in Nat /\ d.ndirs < Word /\ d.spf \in Nat
      /\ d.nsects \in Nat /\ d.nsects < Word
      /\ RootSector(d) = 1 + (2 * d.spf) /\ RootSector(d) + dirs <= d.nsects
  BY RegularNumbers
<1>2. d.ndirs % 16 = 0
  BY DEF Regular
<1>3. dirs \in Nat /\ dirs < Word /\ (d.ndirs * 32) \div 512 = dirs
  <2>1. d.ndirs = 16 * dirs /\ dirs \in Nat
    BY <1>1, <1>2
  <2> HIDE DEF dirs
  <2>2. d.ndirs * 32 = (512 * dirs) + 0
    BY <2>1
  <2>3. (d.ndirs * 32) \div 512 = dirs
    BY <2>1, <2>2, Quotient
  <2>4. QED
    BY <1>1, <2>1, <2>3, WordIsPositive
<1> HIDE DEF dirs
<1>4. Divu(d.ndirs * 32, d.bps).quot = dirs
  BY <1>1, <1>3 DEF Divu
<1>5. (d.spf + 1) % Word = d.spf + 1
  <2>1. d.spf + 1 \in Nat /\ d.spf + 1 < Word
    BY <1>1, <1>3, WordIsPositive
  <2>2. QED
    BY <2>1, WordOfSmall
<1>6. (dirs + (d.spf + 1) + d.spf) % Word = DataSector(d)
  <2>1. /\ dirs + (d.spf + 1) + d.spf \in Nat /\ dirs + (d.spf + 1) + d.spf < Word
        /\ dirs + (d.spf + 1) + d.spf = RootSector(d) + dirs
    BY <1>1, <1>3, WordIsPositive
  <2>2. QED
    BY <2>1, WordOfSmall DEF DataSector, dirs
<1>7. (d.spf + 1 + d.spf) % Word = RootSector(d)
  <2>1. /\ d.spf + 1 + d.spf \in Nat /\ d.spf + 1 + d.spf < Word
        /\ d.spf + 1 + d.spf = RootSector(d)
    BY <1>1, <1>3, WordIsPositive
  <2>2. QED
    BY <2>1, WordOfSmall
<1>8. d.spc % 256 = d.spc
  BY <1>1
<1>9. QED
  BY <1>1, <1>4, <1>5, <1>6, <1>7, <1>8 DEF Bpb

\* A sector below the number of sectors is on the track and the side that division by
\* the sectors per cylinder and per track gives, and its number is found again.
Divided(d, n, q, rem, side, rest) ==
  /\ q = n \div (d.spt * d.nsides) /\ rem = n % (d.spt * d.nsides)
  /\ side = IF rem >= d.spt THEN 1 ELSE 0
  /\ rest = IF rem >= d.spt THEN rem - d.spt ELSE rem
Placed(d, n, q, rem, side, rest) ==
  /\ q \in Nat /\ q < 256 /\ (n < d.nsects => q < d.tracks)
  /\ rem \in 0..509 /\ rest \in 0..(d.spt - 1)
  /\ side \in {0, 1} /\ side < d.nsides
  /\ \A i \in Int : SectorNumber(d, q, side, rest + 1 + i) = n + i
LEMMA PlaceOnDisk ==
  ASSUME NEW d \in Disks, Regular(d), NEW n \in Nat, n <= d.nsects,
         NEW q, NEW rem, NEW side, NEW rest, Divided(d, n, q, rem, side, rest)
  PROVE  Placed(d, n, q, rem, side, rest)
<1> USE DEF Divided
<1> DEFINE S == d.spt
           C == S * d.nsides
<1>1. /\ S \in 1..255 /\ d.nsides \in {1, 2} /\ d.tracks \in 1..255
      /\ d.realSpt = S /\ d.realSides = d.nsides
      /\ d.nsects \in Nat /\ d.nsects = C * d.tracks
  BY RegularNumbers
<1>2. C \in 1..510 /\ C \in Nat /\ C > 0
  BY <1>1
<1>3. q \in Nat /\ rem \in 0..(C - 1) /\ n = (C * q) + rem
  BY <1>2, Division
<1>4. (d.nsides = 1 /\ C = S) \/ (d.nsides = 2 /\ C = 2 * S)
  BY <1>1
<1>5. q <= d.tracks /\ (n < d.nsects => q < d.tracks)
  <2> HIDE DEF S, C
  <2>1. C * q \in Nat /\ C * d.tracks \in Nat /\ d.tracks \in Nat
    BY <1>1, <1>2, <1>3
  <2>2. C * q <= C * d.tracks /\ (n < d.nsects => C * q < C * d.tracks)
    BY <1>1, <1>2, <1>3, <2>1
  <2>3. \A a, b \in Nat : (C * a <= C * b => a <= b) /\ (C * a < C * b => a < b)
    BY <1>2
  <2>4. QED
    BY <1>3, <2>1, <2>2, <2>3
<1>6. rem \in 0..509 /\ rest \in 0..(S - 1) /\ side \in {0, 1} /\ side < d.nsides
  <2> HIDE DEF S, C
  <2>1. rest = IF rem >= S THEN rem - S ELSE rem
    BY DEF S
  <2>2. side = IF rem >= S THEN 1 ELSE 0
    BY DEF S
  <2>3. S \in 1..255 /\ C \in 1..510 /\ rem \in 0..(C - 1)
    BY <1>1, <1>2, <1>3
  <2>4. QED
    BY ONLY <1>4, <2>1, <2>2, <2>3
<1>7. ASSUME NEW i \in Int PROVE SectorNumber(d, q, side, rest + 1 + i) = n + i
  <2> DEFINE a == ((q * d.nsides) + side) * S
  <2>1. SectorNumber(d, q, side, rest + 1 + i) = a + (rest + 1 + i) - 1
    BY <1>1 DEF SectorNumber
  <2>2. a \in Int /\ a + rest = n
    <3> HIDE DEF S, C
    <3>1. S \in Int /\ q \in Int /\ side \in Int /\ rest \in Int /\ n \in Int
      BY <1>1, <1>3, <1>6
    <3>2. rest = IF rem >= S THEN rem - S ELSE rem
      BY DEF S
    <3>3. side = IF rem >= S THEN 1 ELSE 0
      BY DEF S
    <3>4. CASE d.nsides = 1 /\ C = S
      <4>1. side = 0 /\ rest = rem
        BY <1>3, <1>6, <3>2, <3>3, <3>4
      <4>2. a = q * S
        BY <3>1, <3>4, <4>1
      <4>3. QED
        BY <1>3, <3>1, <3>4, <4>1, <4>2
    <3>5. CASE d.nsides = 2 /\ C = 2 * S
      <4>1. a = ((2 * q) + side) * S
        BY <3>1, <3>5
      <4>2. ((2 * q) + side) * S = ((2 * S) * q) + (side * S)
        BY <3>1
      <4>3. side * S + rest = rem
        BY <1>3, <3>1, <3>2, <3>3
      <4> DEFINE x == (2 * S) * q
                 y == side * S
      <4>4. x \in Int /\ y \in Int /\ a = x + y /\ y + rest = rem /\ n = x + rem
        BY <1>3, <3>1, <3>5, <4>1, <4>2, <4>3
      <4> HIDE DEF x, y, a
      <4>5. QED
        BY <3>1, <4>4
    <3>6. QED
      BY <1>4, <3>4, <3>5
  <2> HIDE DEF a
  <2>3. rest \in Int
    BY <1>1, <1>6
  <2>4. a + (rest + 1 + i) - 1 = n + i
    BY <2>2, <2>3
  <2>5. QED
    BY <2>1, <2>4
<1>8. q \in Nat /\ q < 256
  <2>1. q \in Nat /\ q <= d.tracks /\ d.tracks \in 1..255
    BY <1>1, <1>3, <1>5
  <2>2. QED
    BY ONLY <2>1
<1>9. QED
  BY <1>5, <1>6, <1>7, <1>8 DEF Placed

\* On a regular disk every turn of readabs reads at least one sector of its job, and what
\* it asks for lies on one side of one track.
LEMMA ReadAbsRegular ==
  ASSUME NEW d \in Disks, Regular(d), NEW j \in JobType, j.count >= 1, j.sect <= d.nsects,
         ReadAbs(j, Dsb(d))
  PROVE  job' = j /\ dest' = j.to /\ ReadAt(d, read', j.sect, j.count)
<1>1. PICK n, S : n = j.sect /\ S = d.spt
  OBVIOUS
<1>2. PICK q : q = n \div (S * d.nsides)
  OBVIOUS
<1>3. PICK rem : rem = n % (S * d.nsides)
  OBVIOUS
<1>4. PICK side, rest : /\ side = IF rem >= S THEN 1 ELSE 0
                        /\ rest = IF rem >= S THEN rem - S ELSE rem
  OBVIOUS
<1>5. PICK count : count = IF S - rest <= j.count THEN S - rest ELSE j.count
  OBVIOUS
<1>6. /\ S \in 1..255 /\ n \in Nat /\ n <= d.nsects /\ j.count \in Nat /\ j.count >= 1
      /\ d.realSpt = S /\ d.realSides = d.nsides
  BY <1>1, RegularNumbers, WordFacts DEF JobType
<1>7. /\ q \in Nat /\ q < 256 /\ (n < d.nsects => q < d.tracks)
      /\ rem \in 0..509 /\ rest \in 0..(S - 1)
      /\ side \in {0, 1} /\ side < d.nsides
      /\ \A i \in Int : SectorNumber(d, q, side, rest + 1 + i) = n + i
  <2>1. Divided(d, n, q, rem, side, rest)
    BY <1>1, <1>2, <1>3, <1>4 DEF Divided
  <2>2. Placed(d, n, q, rem, side, rest)
    BY <1>6, <2>1, PlaceOnDisk
  <2>3. QED
    BY <1>1, <2>2 DEF Placed
<1>8. Dsb(d).dspc = S * d.nsides /\ Dsb(d).dspt = S
  BY <1>1, RegularGeometry
<1>9. Divu(n, S * d.nsides) = [quot |-> q, rem |-> rem]
  <2>1. q < Word
    BY <1>7, WordIsPositive
  <2>2. QED
    BY <1>2, <1>3, <2>1 DEF Divu
<1>10. /\ Signed(rem) = rem /\ Signed(S) = S
       /\ rem >= S => (rem - S) % Word = rest
       /\ (S - rest) % Word = S - rest
  <2>1. Signed(rem) = rem /\ Signed(S) = S
    BY <1>6, <1>7 DEF Signed
  <2>2. S - rest \in Nat /\ S - rest < Word
    BY <1>6, <1>7 DEF Word
  <2>3. rem >= S => rem - S \in Nat /\ rem - S < Word /\ rest = rem - S
    BY <1>4, <1>6, <1>7 DEF Word
  <2>4. QED
    BY <2>1, <2>2, <2>3, WordOfSmall
<1>11. job' = j /\ Floprd(q, side, rest + 1, count, j.to)
  BY <1>1, <1>4, <1>5, <1>8, <1>9, <1>10 DEF ReadAbs
<1>12. /\ dest' = j.to
       /\ read' = [track |-> q, side |-> side, sec |-> rest + 1, count |-> count]
  BY <1>11 DEF Floprd, Do
<1>13. count \in 1..j.count /\ rest + 1 + count <= S + 1
  BY <1>5, <1>6, <1>7
<1>14. read'.track = q /\ read'.side = side /\ read'.sec = rest + 1 /\ read'.count = count
  BY <1>12
<1>15. /\ count \in 1..j.count /\ q < 256 /\ rest + 1 >= 1 /\ rest + 1 + count <= 256
  BY <1>6, <1>7, <1>13
<1>16. \A i \in 0..(count - 1) : SectorNumber(d, q, side, (rest + 1) + i) = n + i
  BY <1>7
<1>17. ASSUME n + count <= d.nsects, NEW i \in 0..(count - 1)
       PROVE  Exists(d, q, side, (rest + 1) + i)
  <2>1. n < d.nsects
    <3>1. d.nsects \in Nat
      BY RegularNumbers
    <3>2. QED
      BY <1>6, <1>13, <1>17, <3>1
  <2>2. (rest + 1) + i \in 1..S
    BY <1>6, <1>7, <1>13
  <2>3. QED
    BY <1>6, <1>7, <2>1, <2>2 DEF Exists
<1>18. ReadAt(d, read', n, j.count)
  BY <1>14, <1>15, <1>16, <1>17 DEF ReadAt
<1>19. QED
  BY <1>1, <1>11, <1>12, <1>18

\* Floprd has returned from a read of sectors from this one on.
Returned(first, count) ==
  pc = "DCL_END" /\ at \in Reads /\ ReadAt(drive, read, first, count)

LEMMA ReturnedFits ==
  ASSUME TypeInv, NEW first, NEW count, Returned(first, count)
  PROVE  FitsInBytes /\ pc = "DCL_END" /\ at \in Reads
<1>1. ReadAt(drive, read, first, count) /\ pc = "DCL_END" /\ at \in Reads
  BY DEF Returned
<1>2. read.track < 256 /\ read.sec + read.count <= 256 /\ read.count \in 1..count
  BY <1>1, Zenon DEF ReadAt
<1>3. read.sec \in Nat /\ read.count \in Nat
  BY WordFacts DEF TypeInv, ReadType, Arguments
<1>4. read.sec < 256
  BY <1>2, <1>3
<1>5. QED
  BY <1>1, <1>2, <1>4 DEF FitsInBytes

\* The boot sector is read as any other.
LEMMA BootReturned ==
  ASSUME TypeInv, ReadInv, JobInv, pc = "DCL_END", at \in {"bpb1", "bpb2"}
  PROVE  /\ Returned(0, 1) /\ drive \in Disks /\ drive # NoDisk
         /\ \A i \in 0..(read.count - 1) : Exists(drive, read.track, read.side, read.sec + i)
<1>1. fdc.phase = "idle"
  BY DEF TypeInv, PhaseInv
<1>2. drive # NoDisk /\ drive \in Disks
  BY <1>1 DEF ReadInv, OutcomeInv, Reads, TypeInv, BoundType
<1>3. read.track = 0 /\ read.side = 0 /\ read.sec = 1 /\ read.count = 1
  BY DEF JobInv
<1>4. drive.realSpt \in 1..255 /\ drive.realSides \in 1..2 /\ drive.tracks \in 1..255
  BY <1>2, DisksAssumption DEF DiskOK
<1>5. SectorNumber(drive, 0, 0, 1) = 0 /\ Exists(drive, 0, 0, 1)
  BY <1>4 DEF SectorNumber, Exists
<1>6. \A i \in 0..(1 - 1) : i = 0
  OBVIOUS
<1>7. ReadAt(drive, read, 0, 1)
  BY <1>3, <1>5, <1>6 DEF ReadAt
<1>8. QED
  BY <1>2, <1>3, <1>5, <1>6, <1>7 DEF Returned, Reads

\* A read without an error has brought the sectors it was for, none of them bad.
LEMMA GoodReturn ==
  ASSUME TypeInv, ReadInv, CleanInv, NEW first \in Int, NEW count, Returned(first, count),
         FloprdError = 0
  PROVE  /\ moved \in Seq(Int) /\ Len(moved) = read.count /\ read.count \in Nat
         /\ \A i \in 1..read.count :
              moved[i] = first + (i - 1) /\ first + (i - 1) \notin drive.bad
<1>1. FitsInBytes /\ pc = "DCL_END" /\ at \in {"bpb1", "bpb2", "dir", "file"}
  BY ReturnedFits DEF Reads
<1>2. moved = [i \in 1..read.count |->
                SectorNumber(drive, read.track, read.side, read.sec + i - 1)]
  BY <1>1, GoodRead
<1>3. read.sec \in Nat /\ read.count \in Nat
  BY <1>1, AskedFitting DEF Reads
<1>4. moved \in Seq(Int)
  BY DEF ReadInv, MovedInv
<1>5. Len(moved) = read.count
  BY <1>2, <1>3, <1>4
<1>6. ASSUME NEW i \in 1..read.count
      PROVE  moved[i] = first + (i - 1) /\ first + (i - 1) \notin drive.bad
  <2>1. i - 1 \in 0..(read.count - 1) /\ read.sec + i - 1 = read.sec + (i - 1)
    BY <1>3
  <2>2. SectorNumber(drive, read.track, read.side, read.sec + (i - 1)) = first + (i - 1)
    BY <2>1 DEF Returned, ReadAt
  <2>3. moved[i] = first + (i - 1)
    BY <1>2, <2>1, <2>2
  <2>4. moved[i] \notin drive.bad
    BY <1>1, <1>5 DEF CleanInv, Reads
  <2>5. QED
    BY <2>3, <2>4
<1>7. QED
  BY <1>3, <1>4, <1>5, <1>6

\* A read with an error can be blamed on a passing one, or on a sector it was for.
LEMMA BadReturn ==
  ASSUME TypeInv, ReadInv, BlameInv, NEW first \in Int, NEW count, Returned(first, count),
         FloprdError # 0
  PROVE  faulty \/ \E i \in 0..(read.count - 1) :
                     \/ first + i \in drive.bad
                     \/ ~Exists(drive, read.track, read.side, read.sec + i)
<1>1. FitsInBytes /\ pc = "DCL_END" /\ at \in Reads
  BY ReturnedFits
<1>2. /\ read.sec \in Nat /\ read.sec >= 1 /\ read.count \in Nat
      /\ Asked[3] = read.track /\ Asked[4] = read.side /\ Asked[5] = read.sec
      /\ Asked[7] = read.sec + read.count - 1
  BY <1>1, AskedFitting
<1>3. read.count >= 1
  BY <1>2 DEF Returned, ReadAt
<1>4. fdc.phase = "idle" /\ resAt = 5
  BY <1>1 DEF TypeInv, PhaseInv
<1>5. Asked[5] <= Asked[7]
  BY <1>2, <1>3
<1>6. Blamed \/ Outcome(EndOfTrack)
  BY <1>1, <1>4, <1>5 DEF BlameInv
<1>7. ~Outcome(EndOfTrack)
  <2>1. ASSUME Outcome(EndOfTrack) PROVE FALSE
    <3>1. result[2] = {"en"}
      BY <1>4, <2>1 DEF Outcome, EndOfTrack, Abnormal
    <3>2. QED
      BY <3>1 DEF FloprdError
  <2>2. QED
    BY <2>1
<1>8. CASE faulty
  BY <1>8
<1>9. CASE \E s \in Asked[5]..Asked[7] :
             \/ ~Exists(drive, Asked[3], Asked[4], s)
             \/ SectorNumber(drive, Asked[3], Asked[4], s) \in drive.bad
  <2>1. PICK s \in read.sec..(read.sec + read.count - 1) :
               \/ ~Exists(drive, read.track, read.side, s)
               \/ SectorNumber(drive, read.track, read.side, s) \in drive.bad
    BY <1>2, <1>9
  <2>2. PICK i : i = s - read.sec
    OBVIOUS
  <2>3. i \in 0..(read.count - 1) /\ s = read.sec + i
    BY <1>2, <2>2
  <2>4. SectorNumber(drive, read.track, read.side, read.sec + i) = first + i
    BY <2>3 DEF Returned, ReadAt
  <2>5. QED
    BY <2>1, <2>3, <2>4
<1>10. QED
  BY <1>6, <1>7, <1>8, <1>9 DEF Blamed

\* getbpb has the boot sector of the disk in the drive, or an error to blame on it.
LEMMA BootJudged ==
  ASSUME TypeInv, ReadInv, PlacedInv, CleanInv, BlameInv, JobInv,
         pc = "DCL_END", at \in {"bpb1", "bpb2"}
  PROVE  /\ drive \in Disks /\ drive # NoDisk
         /\ FloprdError = 0 => Boot = drive /\ 0 \notin drive.bad
         /\ FloprdError # 0 => faulty \/ 0 \in drive.bad
<1>1. /\ Returned(0, 1) /\ drive \in Disks /\ drive # NoDisk
      /\ \A i \in 0..(read.count - 1) : Exists(drive, read.track, read.side, read.sec + i)
  BY BootReturned
<1>2. read.count = 1
  BY DEF JobInv
<1>3. ASSUME FloprdError = 0 PROVE Boot = drive /\ 0 \notin drive.bad
  <2>1. /\ moved \in Seq(Int) /\ Len(moved) = read.count
        /\ \A i \in 1..read.count : moved[i] = 0 + (i - 1) /\ 0 + (i - 1) \notin drive.bad
    BY <1>1, <1>3, GoodReturn
  <2>2. 1 \in 1..read.count /\ Len(moved) = 1
    BY <1>2, <2>1
  <2>3. moved[1] = 0 /\ 0 \notin drive.bad
    BY <2>1, <2>2
  <2>4. moved # <<>>
    BY <2>2
  <2>5. sektor = [disk |-> drive.id, number |-> 0]
    BY <2>2, <2>3, <2>4 DEF PlacedInv, SectorOf, Reads
  <2>6. QED
    BY <1>1, <2>3, <2>5 DEF Boot
<1>4. ASSUME FloprdError # 0 PROVE faulty \/ 0 \in drive.bad
  <2>1. faulty \/ \E i \in 0..(read.count - 1) : 0 + i \in drive.bad
    BY <1>1, <1>4, BadReturn
  <2>2. \A i \in 0..(read.count - 1) : 0 + i = 0
    BY <1>2
  <2>3. QED
    BY <2>1, <2>2
<1>5. QED
  BY <1>1, <1>3, <1>4

\* A disk with the file has one entry of its name.
LEMMA TheEntry ==
  ASSUME NEW d \in Disks, Regular(d), HasFile(d)
  PROVE  /\ FileEntry(d) \in Entry /\ FileEntry(d).size \in Nat /\ FileEntry(d).cluster \in Nat
         /\ \A s \in DOMAIN d.root : IsTos(d.root[s]) => d.root[s] = FileEntry(d)
<1>1. PICK s \in DOMAIN d.root : s < 16 /\ IsTos(d.root[s])
  BY DEF HasFile
<1> DEFINE E == {d.root[t] : t \in DOMAIN d.root}
<1>2. \E e \in E : IsTos(e)
  BY <1>1
<1>3. FileEntry(d) \in E /\ IsTos(FileEntry(d))
  BY <1>2 DEF FileEntry
<1>4. PICK t \in DOMAIN d.root : FileEntry(d) = d.root[t]
  BY <1>3
<1>5. \A u \in DOMAIN d.root : IsTos(d.root[u]) => u = t
  BY <1>3, <1>4 DEF Regular
<1>6. d.root[t] \in Entry
  BY DisksAssumption DEF DiskOK
<1>7. FileEntry(d).size \in Nat /\ FileEntry(d).cluster \in Nat
  BY <1>4, <1>6 DEF Entry
<1>8. QED
  BY <1>4, <1>5, <1>6, <1>7

\* The sectors of its file are on the disk, one behind the other.
LEMMA FileRun ==
  ASSUME NEW d \in Disks, Regular(d), HasFile(d)
  PROVE  /\ SectorsOfFile(d) \in Nat /\ DataSector(d) \in Nat
         /\ SectorsOfFile(d) > 0 =>
              /\ FileEntry(d).cluster >= 2
              /\ StartOfFile(d) \in Nat /\ StartOfFile(d) + SectorsOfFile(d) <= d.nsects
              /\ \A i \in 0..(SectorsOfFile(d) - 1) : FileSector(d, i) = StartOfFile(d) + i
<1>1. /\ FileEntry(d).size \in Nat /\ FileEntry(d).cluster \in Nat
  BY TheEntry
<1>2. SectorsOfFile(d) \in Nat
  <2>1. FileEntry(d).size + SectorBytes - 1 \in Nat /\ SectorBytes \in Nat /\ SectorBytes > 0
    BY <1>1 DEF SectorBytes
  <2>2. QED
    BY <2>1, Division DEF SectorsOfFile
<1>3. d.spc \in Nat /\ d.spc > 0 /\ d.nsects \in Nat /\ DataSector(d) \in Nat
  <2>1. /\ d.spc \in 1..255 /\ d.nsects \in Nat /\ d.ndirs \in Nat /\ d.spf \in Nat
        /\ RootSector(d) = 1 + (2 * d.spf)
    BY RegularNumbers
  <2>2. d.ndirs \div 16 \in Nat
    BY <2>1
  <2>3. QED
    BY <2>1, <2>2 DEF DataSector
<1>4. ASSUME SectorsOfFile(d) > 0
      PROVE  /\ FileEntry(d).cluster >= 2
             /\ StartOfFile(d) \in Nat /\ StartOfFile(d) + SectorsOfFile(d) <= d.nsects
             /\ \A i \in 0..(SectorsOfFile(d) - 1) : FileSector(d, i) = StartOfFile(d) + i
  <2>1. FileEntry(d).size > 0
    <3>1. FileEntry(d).size = 0 => SectorsOfFile(d) = 0
      BY DEF SectorsOfFile, SectorBytes
    <3>2. QED
      BY <1>1, <1>4, <3>1
  <2>2. InOnePiece(d)
    BY <2>1 DEF Regular
  <2> DEFINE c == d.spc
             first == FileEntry(d).cluster - 2
             len == Len(d.chain)
             data == DataSector(d)
             k == SectorsOfFile(d)
  <2>3. /\ len \in Nat /\ DOMAIN d.chain = 1..len
    BY DisksAssumption DEF DiskOK
  <2>4. /\ FileEntry(d).cluster >= 2 /\ first \in Nat
        /\ \A i \in 1..len : d.chain[i] = first + i + 1
        /\ k <= len * c /\ data + ((first + len) * c) <= d.nsects
    BY <1>1, <2>2, <2>3 DEF InOnePiece
  <2>5. StartOfFile(d) = data + (first * c)
    BY DEF StartOfFile
  <2>6. ASSUME NEW i \in 0..(k - 1) PROVE FileSector(d, i) = data + (first * c) + i
    <3>1. PICK q, m : q = i \div c /\ m = i % c
      OBVIOUS
    <3>2. i \in Nat /\ i < len * c
      BY <1>2, <1>3, <2>3, <2>4
    <3>3. q \in Nat /\ m \in Nat /\ i = (c * q) + m
      <4>1. i \in Nat /\ c \in Nat /\ c > 0
        BY <1>3, <3>2
      <4> HIDE DEF c
      <4>2. /\ i \div c \in Nat /\ i % c \in 0..(c - 1)
            /\ i = (c * (i \div c)) + (i % c)
        BY <4>1, Division
      <4>3. QED
        BY <3>1, <4>1, <4>2
    <3>4. q < len
      <4> HIDE DEF c, len
      <4>1. c * q < c * len
        BY <1>3, <2>3, <3>2, <3>3 DEF c
      <4>2. \A a, b \in Nat : c * a < c * b => a < b
        BY <1>3 DEF c
      <4>3. QED
        BY <2>3, <3>3, <4>1, <4>2
    <3>5. 1 + q \in 1..len
      BY <2>3, <3>3, <3>4
    <3>6. d.chain[1 + q] - 2 = first + q
      <4> HIDE DEF first, len
      <4>1. d.chain[1 + q] = first + (1 + q) + 1
        BY <2>4, <3>5
      <4>2. QED
        BY <2>4, <3>3, <4>1
    <3>7. FileSector(d, i) = data + ((first + q) * c) + m
      <4> HIDE DEF first, data
      <4> QED BY <3>1, <3>6 DEF FileSector, data
    <3>8. (first + q) * c = (first * c) + (c * q)
      <4> HIDE DEF first, c
      <4> QED BY <1>3, <2>4, <3>3 DEF c
    <3> DEFINE x == first * c
               y == c * q
    <3>9. x \in Int /\ y \in Int /\ data \in Int
      <4> HIDE DEF first
      <4> QED BY <1>3, <2>4, <3>3
    <3>10. FileSector(d, i) = data + (x + y) + m /\ i = y + m
      BY <3>3, <3>7, <3>8
    <3> HIDE DEF x, y, data
    <3>11. FileSector(d, i) = data + x + i
      BY <3>2, <3>3, <3>9, <3>10
    <3>12. QED
      BY <3>11 DEF x
  <2>7. data + (first * c) \in Nat /\ data + (first * c) + k <= d.nsects
    <3> HIDE DEF first, c, len, data, k
    <3>1. first * c \in Nat /\ len * c \in Nat /\ (first + len) * c = (first * c) + (len * c)
      BY <1>3, <2>3, <2>4 DEF c
    <3>2. data \in Nat /\ k \in Nat
      BY <1>2, <1>3 DEF data, k
    <3> DEFINE x == first * c
               y == len * c
    <3>3. x \in Nat /\ y \in Nat /\ k <= y /\ data + (x + y) <= d.nsects
      BY <2>4, <3>1
    <3> HIDE DEF x, y
    <3>4. data + x \in Nat /\ data + x + k <= d.nsects
      BY <1>3, <3>2, <3>3
    <3>5. QED
      BY <3>4 DEF x
  <2>8. QED
    BY <2>4, <2>5, <2>6, <2>7
<1>5. QED
  BY <1>2, <1>3, <1>4

LEMMA StartIsNumber ==
  ASSUME NEW d \in Disks, Regular(d), HasFile(d)
  PROVE  StartOfFile(d) \in Int
<1>1. DataSector(d) \in Nat /\ FileEntry(d).cluster \in Nat /\ d.spc \in 1..255
  BY FileRun, TheEntry, RegularNumbers
<1>2. (FileEntry(d).cluster - 2) * d.spc \in Int
  BY <1>1
<1>3. QED
  BY <1>1, <1>2 DEF StartOfFile

\* What the driver computes of its entry is where the file is.
LEMMA DriverFindsFile ==
  ASSUME NEW d \in Disks, Regular(d), HasFile(d), bpb = Bpb(d)
  PROVE  /\ SectorsOfFile(d) > 0 => /\ FileStart(FileEntry(d)) = StartOfFile(d)
                                    /\ FileSectors(FileEntry(d)) = SectorsOfFile(d)
         /\ SectorsOfFile(d) = 0 => FileSectors(FileEntry(d)) = 0
<1>1. /\ bpb.recsize = 512 /\ bpb.clsize = d.spc /\ bpb.datrec = DataSector(d)
  BY RegularBpb
<1>2. SectorsOfFile(d) \in Nat /\ FileEntry(d).size \in Nat /\ FileEntry(d).cluster \in Nat
      /\ d.nsects \in Nat /\ d.nsects < Word /\ d.spc \in 1..255 /\ DataSector(d) \in Nat
  BY FileRun, TheEntry, RegularNumbers
<1>3. (FileEntry(d).size + 512 - 1) \div 512 = SectorsOfFile(d)
  BY DEF SectorsOfFile, SectorBytes
<1>4. SectorsOfFile(d) < Word => FileSectors(FileEntry(d)) = SectorsOfFile(d)
  BY <1>1, <1>3 DEF FileSectors, Divu
<1>5. ASSUME SectorsOfFile(d) > 0
      PROVE  FileStart(FileEntry(d)) = StartOfFile(d) /\ SectorsOfFile(d) < Word
  <2> DEFINE first == FileEntry(d).cluster - 2
             c == d.spc
             x == first * c
  <2>1. /\ FileEntry(d).cluster >= 2
        /\ StartOfFile(d) \in Nat /\ StartOfFile(d) + SectorsOfFile(d) <= d.nsects
    BY <1>5, FileRun
  <2>2. StartOfFile(d) = DataSector(d) + x
    BY DEF StartOfFile
  <2>3. first \in Nat /\ c \in Nat /\ c >= 1
    BY <1>2, <2>1
  <2>4. x \in Nat /\ first <= x
    <3> HIDE DEF first, c
    <3> QED BY <2>3
  <2> HIDE DEF x
  <2>5. first < Word /\ SectorsOfFile(d) < Word
    <3> HIDE DEF first
    <3>1. SectorsOfFile(d) \in Nat /\ DataSector(d) \in Nat /\ d.nsects \in Nat
          /\ d.nsects < Word /\ Word \in Nat
      BY <1>2, WordIsPositive
    <3>2. QED
      BY <1>5, <2>1, <2>2, <2>3, <2>4, <3>1
  <2>6. first % Word = first
    BY <2>3, <2>5, WordOfSmall
  <2>7. FileStart(FileEntry(d)) = x + DataSector(d)
    BY <1>1, <2>6 DEF FileStart, x
  <2>8. QED
    BY <1>2, <2>2, <2>4, <2>5, <2>7
<1>6. QED
  BY <1>2, <1>4, <1>5, WordIsPositive

\* Fsfirst has the first sector of the root directory of a regular disk and with it the
\* entry of the file, if there is one, or an error to blame on that sector.
LEMMA RootJudged ==
  ASSUME TypeInv, ReadInv, DiskInv, PlacedInv, CleanInv, BlameInv, JobInv,
         pc = "DCL_END", at = "dir", Regular(drive)
  PROVE  /\ drive \in Disks /\ read.count = 1
         /\ FloprdError = 0 => /\ RootSector(drive) \notin drive.bad
                               /\ Slots # {} <=> HasFile(drive)
                               /\ HasFile(drive) => Found = FileEntry(drive)
         /\ FloprdError # 0 => \/ faulty \/ RootSector(drive) \in drive.bad
                               \/ ~HasFile(drive)
<1>1. drive \in Disks /\ drive # NoDisk
  BY DEF DiskInv, TypeInv, BoundType
<1>2. job.sect = RootSector(drive) /\ job.count = 1 /\ ReadAt(drive, read, job.sect, job.count)
  BY DEF JobInv
<1>3. Returned(RootSector(drive), 1)
  BY <1>2 DEF Returned, Reads
<1>4. RootSector(drive) \in Nat /\ drive.nsects \in Nat /\ drive.ndirs \in Nat
      /\ RootSector(drive) + (drive.ndirs \div 16) <= drive.nsects
  BY <1>1, RegularNumbers
<1>5. read.count = 1
  BY <1>2 DEF ReadAt
<1>6. ASSUME FloprdError = 0
      PROVE  /\ RootSector(drive) \notin drive.bad
             /\ Slots # {} <=> HasFile(drive)
             /\ HasFile(drive) => Found = FileEntry(drive)
  <2>1. /\ moved \in Seq(Int) /\ Len(moved) = read.count
        /\ \A i \in 1..read.count :
             moved[i] = RootSector(drive) + (i - 1)
             /\ RootSector(drive) + (i - 1) \notin drive.bad
    BY <1>3, <1>4, <1>6, GoodReturn
  <2>2. /\ 1 \in 1..read.count /\ Len(moved) = 1
        /\ RootSector(drive) + (1 - 1) = RootSector(drive)
    BY <1>4, <1>5, <2>1
  <2>3. moved[1] = RootSector(drive) /\ RootSector(drive) \notin drive.bad
    BY <2>1, <2>2
  <2>4. moved # <<>>
    BY <2>2
  <2>5. sektor = [disk |-> drive.id, number |-> RootSector(drive)]
    BY <2>2, <2>3, <2>4 DEF PlacedInv, SectorOf, Reads
  <2>6. \A s \in DOMAIN drive.root : s \in Nat /\ drive.root[s] \in Entry
    BY <1>1, DisksAssumption DEF DiskOK
  <2>7. \A s \in Nat : (s \div 16 = RootSector(drive) - RootSector(drive)) <=> s < 16
    BY <1>4
  <2>8. \A e \in Entry : ToUpper(e.name) = "TOS.IMG" <=> IsTos(e)
    BY DEF Entry, ToUpper, IsTos
  <2>9. Slots = {s \in DOMAIN drive.root : s < 16 /\ IsTos(drive.root[s])}
    <3>1. sektor.disk = drive.id /\ sektor.number = RootSector(drive)
      BY <2>5
    <3>2. Slots = {s \in DOMAIN drive.root :
                     /\ s \div 16 = RootSector(drive) - RootSector(drive)
                     /\ ToUpper(drive.root[s].name) = "TOS.IMG"}
      BY <1>1, <3>1 DEF Slots
    <3>3. \A s \in DOMAIN drive.root :
            (/\ s \div 16 = RootSector(drive) - RootSector(drive)
             /\ ToUpper(drive.root[s].name) = "TOS.IMG")
              <=> (s < 16 /\ IsTos(drive.root[s]))
      BY <2>6, <2>7, <2>8
    <3>4. QED
      BY <3>2, <3>3
  <2>10. Slots # {} <=> HasFile(drive)
    BY <2>9 DEF HasFile
  <2>11. ASSUME HasFile(drive) PROVE Found = FileEntry(drive)
    <3>1. Slots # {} /\ Slots \subseteq Nat
      BY <2>6, <2>9, <2>10, <2>11
    <3>2. \E x \in Slots : \A y \in Slots : x <= y
      BY <3>1, LeastNat
    <3>3. PICK x : x = CHOOSE s \in Slots : \A t \in Slots : s <= t
      OBVIOUS
    <3>4. x \in Slots
      BY <3>2, <3>3
    <3>5. Found = drive.root[x]
      BY <3>3 DEF Found
    <3>6. x \in DOMAIN drive.root /\ IsTos(drive.root[x])
      BY <2>9, <3>4
    <3>7. QED
      BY <1>1, <2>11, <3>5, <3>6, TheEntry
  <2>12. QED
    BY <2>3, <2>10, <2>11
<1>7. ASSUME FloprdError # 0, HasFile(drive)
      PROVE  faulty \/ RootSector(drive) \in drive.bad
  <2>1. PICK s \in DOMAIN drive.root : s < 16
    BY <1>7 DEF HasFile
  <2>2. s \in 0..(drive.ndirs - 1) /\ drive.ndirs % 16 = 0
    BY DEF Regular
  <2>3. drive.ndirs \div 16 >= 1
    BY <1>4, <2>2
  <2>4. RootSector(drive) + 1 <= drive.nsects
    BY <1>4, <2>3
  <2>5. \A i \in 0..(read.count - 1) : Exists(drive, read.track, read.side, read.sec + i)
    BY <1>2, <1>5, <2>4 DEF ReadAt
  <2>6. faulty \/ \E i \in 0..(read.count - 1) : RootSector(drive) + i \in drive.bad
    BY <1>3, <1>4, <1>7, <2>5, BadReturn
  <2>7. \A i \in 0..(read.count - 1) : RootSector(drive) + i = RootSector(drive)
    BY <1>4, <1>5
  <2>8. QED
    BY <2>6, <2>7
<1>8. QED
  BY <1>1, <1>5, <1>6, <1>7

\* A turn of readabs without an error has put its part of the file behind the others.
LEMMA FileTurn ==
  ASSUME TypeInv, ReadInv, DiskInv, PlacedInv, CleanInv, JobInv,
         pc = "DCL_END", at = "file", Regular(drive), FloprdError = 0,
         NEW n, n = job.sect - StartOfFile(drive), NEW k, k = read.count
  PROVE  /\ n \in Nat /\ k \in 1..job.count /\ n + job.count = SectorsOfFile(drive)
         /\ Rest.sect = job.sect + k /\ Rest.count = job.count - k
         /\ Rest.to.to = "load" /\ Rest.to.off = SectorBytes * (n + k)
         /\ Holds(drive, n + k)
<1>1. drive \in Disks
  BY DEF DiskInv, TypeInv, BoundType
<1>2. HasFile(drive) /\ Progress(drive) /\ ReadAt(drive, read, job.sect, job.count)
  BY DEF JobInv
<1>3. /\ job.sect \in Nat /\ job.count \in Nat /\ job.count < Word /\ job.to \in Place
      /\ job.to.off \in Nat
  BY WordFacts DEF TypeInv, DiskType, Place
<1>4. k \in 1..job.count
  BY <1>2 DEF ReadAt
<1>5. n >= 0 /\ job.to.off = 512 * n /\ n + job.count = SectorsOfFile(drive) /\ Holds(drive, n)
  BY <1>2 DEF Progress, SectorBytes
<1>6. /\ SectorsOfFile(drive) \in Nat /\ SectorsOfFile(drive) > 0
      /\ StartOfFile(drive) \in Nat
      /\ \A i \in 0..(SectorsOfFile(drive) - 1) :
           FileSector(drive, i) = StartOfFile(drive) + i
  <2>1. SectorsOfFile(drive) \in Nat
    BY <1>1, <1>2, FileRun
  <2>2. n \in Int
    BY <1>1, <1>2, <1>3, StartIsNumber
  <2>3. SectorsOfFile(drive) > 0
    BY ONLY <1>3, <1>4, <1>5, <2>1, <2>2
  <2>4. QED
    BY <1>1, <1>2, <2>3, FileRun
<1>7. n \in Nat /\ job.sect = StartOfFile(drive) + n /\ n + k <= SectorsOfFile(drive)
  BY <1>3, <1>4, <1>5, <1>6
<1>8. bpb.recsize = 512
  BY <1>1, RegularBpb DEF DiskInv
<1>9. /\ Rest.sect = job.sect + k /\ Rest.count = job.count - k
      /\ Rest.to.to = "load" /\ Rest.to.off = 512 * (n + k)
  <2>1. job.to.to = "load"
    BY DEF PlacedInv, Reads
  <2>2. (job.count - k) % Word = job.count - k
    <3>1. job.count - k \in Nat /\ job.count - k < Word
      BY <1>3, <1>4, WordIsPositive
    <3>2. QED
      BY <3>1, WordOfSmall
  <2>3. Rest = [sect |-> job.sect + k,
                to |-> [job.to EXCEPT !.off = @ + (512 * k)], count |-> job.count - k]
    BY <1>8, <2>2 DEF Rest
  <2>4. Rest.sect = job.sect + k /\ Rest.count = job.count - k
        /\ Rest.to = [job.to EXCEPT !.off = @ + (512 * k)]
    BY <2>3
  <2>5. Rest.to.to = "load" /\ Rest.to.off = job.to.off + (512 * k)
    BY <1>3, <2>1, <2>4 DEF Place
  <2>6. job.to.off + (512 * k) = 512 * (n + k)
    BY <1>4, <1>5, <1>7
  <2>7. QED
    BY <2>4, <2>5, <2>6
<1>10. /\ Len(moved) = k
       /\ \A i \in 1..k : moved[i] = job.sect + (i - 1) /\ job.sect + (i - 1) \notin drive.bad
  <2>1. Returned(job.sect, job.count) /\ job.sect \in Int
    BY <1>2, <1>3 DEF Returned, Reads
  <2>2. QED
    BY <2>1, GoodReturn
<1>11. ASSUME NEW i \in 0..((n + k) - 1)
       PROVE  /\ InBuffer(SectorBytes * i, FileSector(drive, i))
              /\ FileSector(drive, i) \notin drive.bad
  <2>1. CASE i \in 0..(n - 1)
    BY <1>5, <2>1 DEF Holds
  <2>2. CASE i \notin 0..(n - 1)
    <3>1. PICK m : m = i - n + 1
      OBVIOUS
    <3>2. m \in 1..k /\ i = n + (m - 1) /\ i \in Nat
      BY ONLY <1>4, <1>3, <1>7, <1>11, <2>2, <3>1
    <3>3. job.sect + (m - 1) = StartOfFile(drive) + i /\ i \in 0..(SectorsOfFile(drive) - 1)
      BY ONLY <1>3, <1>4, <1>6, <1>7, <3>2
    <3>4. SectorBytes * i = job.to.off + (512 * (m - 1))
      BY ONLY <1>3, <1>5, <1>7, <3>2 DEF SectorBytes
    <3>5. FileSector(drive, i) = moved[m] /\ moved[m] \notin drive.bad
      BY <1>6, <1>10, <3>2, <3>3
    <3>6. InBuffer(job.to.off + (512 * (m - 1)), moved[m])
      BY <1>10, <3>2 DEF PlacedInv, SectorBytes
    <3>7. QED
      BY <3>4, <3>5, <3>6
  <2>3. QED
    BY <2>1, <2>2
<1>12. Holds(drive, n + k)
  BY <1>11 DEF Holds
<1>13. QED
  BY <1>4, <1>5, <1>7, <1>9, <1>12 DEF SectorBytes

\* A turn with an error can be blamed on a passing one, or on a sector of the file.
LEMMA FileBlamed ==
  ASSUME TypeInv, ReadInv, DiskInv, BlameInv, JobInv,
         pc = "DCL_END", at = "file", Regular(drive), FloprdError # 0
  PROVE  \/ faulty
         \/ \E i \in 0..(SectorsOfFile(drive) - 1) : FileSector(drive, i) \in drive.bad
<1>1. drive \in Disks
  BY DEF DiskInv, TypeInv, BoundType
<1>2. HasFile(drive) /\ Progress(drive) /\ ReadAt(drive, read, job.sect, job.count)
  BY DEF JobInv
<1>3. job.sect \in Nat /\ job.count \in Nat
  BY WordFacts DEF TypeInv, DiskType
<1>4. PICK n, k : n = job.sect - StartOfFile(drive) /\ k = read.count
  OBVIOUS
<1>5. k \in 1..job.count /\ n >= 0 /\ n + job.count = SectorsOfFile(drive)
  BY <1>2, <1>4 DEF ReadAt, Progress
<1>6. SectorsOfFile(drive) \in Nat /\ drive.nsects \in Nat
  BY <1>1, <1>2, FileRun, RegularNumbers
<1>7. StartOfFile(drive) \in Int
  BY <1>1, <1>2, StartIsNumber
<1>8. n \in Nat /\ SectorsOfFile(drive) > 0
  BY <1>3, <1>4, <1>5, <1>6, <1>7
<1>9. /\ StartOfFile(drive) + SectorsOfFile(drive) <= drive.nsects
      /\ \A i \in 0..(SectorsOfFile(drive) - 1) :
           FileSector(drive, i) = StartOfFile(drive) + i
  BY <1>1, <1>2, <1>8, FileRun
<1>10. job.sect + k <= drive.nsects
  BY <1>3, <1>4, <1>5, <1>6, <1>7, <1>8, <1>9
<1>11. \A i \in 0..(k - 1) : Exists(drive, read.track, read.side, read.sec + i)
  BY <1>2, <1>4, <1>10 DEF ReadAt
<1>12. faulty \/ \E i \in 0..(k - 1) : job.sect + i \in drive.bad
  <2>1. Returned(job.sect, job.count) /\ job.sect \in Int
    BY <1>2, <1>3 DEF Returned, Reads
  <2>2. QED
    BY <1>4, <1>11, <2>1, BadReturn
<1>13. ASSUME NEW i \in 0..(k - 1), job.sect + i \in drive.bad
       PROVE  \E m \in 0..(SectorsOfFile(drive) - 1) : FileSector(drive, m) \in drive.bad
  <2>1. PICK m : m = n + i
    OBVIOUS
  <2>2. m \in 0..(SectorsOfFile(drive) - 1) /\ StartOfFile(drive) + m = job.sect + i
    BY <1>3, <1>4, <1>5, <1>7, <1>8, <2>1
  <2>3. FileSector(drive, m) \in drive.bad
    BY <1>9, <1>13, <2>2
  <2>4. QED
    BY <2>2, <2>3
<1>14. QED
  BY <1>12, <1>13

-----------------------------------------------------------------------------
(* The steps, and what is known of the load *)

\* Steps that leave alone what the parts about the disk and the job are about.
Quiet ==
  UNCHANGED <<at, dest, read, job, bpb, dsb, sektor, load, currErr, drive, moved>>
LEMMA QuietKeeps ==
  ASSUME LoadInv, Quiet, faulty => faulty'
  PROVE  DiskInv' /\ PlacedInv' /\ JobInv' /\ FileLoaded' /\ LoadOutcome'
<1>1. DiskInv'
  BY DEF LoadInv, DiskInv, Quiet
<1>2. PlacedInv'
  BY DEF LoadInv, PlacedInv, InBuffer, SectorOf, Quiet
<1>3. JobInv'
  BY DEF LoadInv, JobInv, Progress, Holds, InBuffer, SectorOf, Quiet
<1>4. FileLoaded'
  BY DEF LoadInv, FileLoaded, Quiet
<1>5. LoadOutcome'
  BY DEF LoadInv, LoadOutcome, Quiet
<1>6. QED
  BY <1>1, <1>2, <1>3, <1>4, <1>5

\* What the search for a sector says of it.
LEMMA LookJudged ==
  ASSUME TypeInv, NEW sec, Look(sec)
  PROVE  /\ faulty => faulty'
         /\ fdc'.phase = "exec" =>
              /\ SectorNumber(drive, fdc.cmd[3], fdc.cmd[4], sec) \notin drive.bad
              /\ fdc'.sec = sec
         /\ fdc'.phase = "result" =>
              \/ faulty' \/ ~Exists(drive, fdc.cmd[3], fdc.cmd[4], sec)
              \/ SectorNumber(drive, fdc.cmd[3], fdc.cmd[4], sec) \in drive.bad
         /\ fdc'.phase \in {"exec", "result"}
<1>1. fdc \in FdcRecord
  BY DEF TypeInv, FdcType
<1> DEFINE steady == [fdc EXCEPT !.steps = "no"]
<1>2. CASE /\ SectorNumber(drive, fdc.cmd[3], fdc.cmd[4], sec) \notin drive.bad
           /\ fdc' = [steady EXCEPT !.rqm = TRUE, !.phase = "exec", !.sec = sec]
           /\ UNCHANGED <<errorsLeft, faulty>>
  <2>1. fdc'.phase = "exec" /\ fdc'.sec = sec
    BY <1>1, <1>2 DEF FdcRecord
  <2>2. QED
    BY <1>2, <2>1
<1>3. ASSUME NEW k, fdc' = Answer(steady, Failure(k))
      PROVE  fdc'.phase = "result"
  BY <1>1, <1>3 DEF Answer, FdcRecord
<1>4. CASE /\ \/ ~Exists(drive, fdc.cmd[3], fdc.cmd[4], sec)
              \/ SectorNumber(drive, fdc.cmd[3], fdc.cmd[4], sec) \in drive.bad
           /\ \E k : fdc' = Answer(steady, Failure(k))
           /\ UNCHANGED faulty
  BY <1>3, <1>4
<1>5. CASE faulty' /\ \E k : fdc' = Answer(steady, Failure(k))
  BY <1>3, <1>5
<1>6. QED
  BY <1>2, <1>4, <1>5 DEF Look

\* Outside of the data phase and with nothing delivered there is nothing to be clean.
LEMMA CleanWithout ==
  ASSUME at' \in Reads => moved' = <<>>, fdc'.phase # "exec"
  PROVE  CleanInv'
BY DEF CleanInv

\* A read is blamed from its result on.
LEMMA BlameLater ==
  ASSUME \/ at' \notin Reads
         \/ fdc'.phase \notin {"result", "idle"} \/ (fdc'.phase = "idle" /\ pc' = "DCL5")
  PROVE  BlameInv'
BY DEF BlameInv

\* The steps of the controller: only there is a sector found bad, or an error passes by.
LEMMA FdcCommandLoad ==
  TypeInv /\ TypeInv' /\ ReadInv /\ LoadInv /\ FdcCommand => LoadInv'
<1> SUFFICES ASSUME TypeInv, TypeInv', ReadInv, LoadInv, FdcCommand PROVE LoadInv'
  OBVIOUS
<1>1. /\ UNCHANGED driverVars /\ UNCHANGED <<drive, moved>> /\ fdc.phase = "command"
      /\ Asked' = Asked
  BY DEF FdcCommand, driverVars, Asked
<1>2. Quiet
  BY <1>1 DEF Quiet, driverVars
<1>3. CASE UNCHANGED faulty /\ fdc'.phase # "exec" /\ (at \in Reads => fdc'.phase = "command")
  <2>1. at \in Reads => moved = <<>>
    BY <1>1 DEF ReadInv, MovedInv
  <2>2. CleanInv'
    BY <1>1, <1>3, <2>1, CleanWithout DEF driverVars
  <2>3. BlameInv'
    BY <1>1, <1>3, BlameLater DEF driverVars
  <2>4. QED
    BY <1>2, <1>3, <2>2, <2>3, QuietKeeps DEF LoadInv
<1>4. CASE at \in Reads /\ Look(fdc.cmd[5]) /\ cmd = <<>>
  <2>1. /\ Asked[5] = fdc.cmd[5] /\ Asked[3] = fdc.cmd[3] /\ Asked[4] = fdc.cmd[4]
        /\ Asked[5] \in Int /\ Asked[7] \in Int
    <3>1. Len(Asked) = 9 /\ \A i \in 1..9 : Asked[i] \in Bytes
      BY <1>4, ReadBytesAsked DEF TypeInv
    <3>2. Len(fdc.cmd) = 9
      BY <1>1, <1>4, <3>1, CommandIsWhole
    <3>3. \A i \in 1..9 : fdc.cmd[i] = Asked[i]
      BY <1>1, <1>4, <3>2 DEF TypeInv, CommandInv, Commands
    <3>4. QED
      BY <3>1, <3>3, WordFacts
  <2>2. moved = <<>>
    BY <1>1, <1>4 DEF ReadInv, MovedInv
  <2>3. /\ faulty => faulty'
        /\ fdc'.phase = "exec" =>
             /\ SectorNumber(drive, Asked[3], Asked[4], Asked[5]) \notin drive.bad
             /\ fdc'.sec = Asked[5]
        /\ fdc'.phase = "result" =>
             \/ faulty' \/ ~Exists(drive, Asked[3], Asked[4], Asked[5])
             \/ SectorNumber(drive, Asked[3], Asked[4], Asked[5]) \in drive.bad
        /\ fdc'.phase \in {"exec", "result"}
    BY <1>4, <2>1, LookJudged
  <2>4. CleanInv'
    BY <1>1, <2>2, <2>3 DEF CleanInv
  <2>5. BlameInv'
    <3>1. Asked[5] <= Asked[7] => Asked[5] \in Asked[5]..Asked[7]
      BY <2>1
    <3>2. QED
      BY <1>1, <2>3, <3>1 DEF BlameInv, Blamed
  <2>6. QED
    BY <1>2, <2>3, <2>4, <2>5, QuietKeeps DEF LoadInv
<1>5. at \in Commands /\ fdc.cmd[1] = Asked[1]
      /\ (Len(fdc.cmd) < CommandBytes(fdc.cmd[1]) <=> cmd # <<>>)
      /\ (at \in Reads => Asked[1] = READ_DATA)
      /\ (at \notin Reads => Asked[1] # READ_DATA)
  <2>1. at \in Commands /\ fdc.cmd[1] = Asked[1]
        /\ (Len(fdc.cmd) < CommandBytes(fdc.cmd[1]) <=> cmd # <<>>)
    BY <1>1, CommandIsWhole
  <2>2. read \in Arguments
    BY DEF TypeInv, ReadType
  <2>3. QED
    BY <2>1, <2>2, CommandFacts DEF Asked
<1>6. CASE cmd # <<>>
  <2>1. fdc' = [fdc EXCEPT !.rqm = TRUE] /\ UNCHANGED faulty
    BY <1>5, <1>6 DEF FdcCommand
  <2>2. fdc'.phase = "command"
    BY <1>1, <2>1 DEF TypeInv, FdcType, FdcRecord
  <2>3. QED
    BY <1>3, <2>1, <2>2
<1>7. CASE cmd = <<>> /\ at \notin Reads
  <2>1. UNCHANGED faulty
    BY <1>5, <1>7 DEF FdcCommand
  <2>2. fdc'.phase # "exec"
    BY <1>1, <1>7 DEF TypeInv, PhaseInv, driverVars
  <2>3. QED
    BY <1>3, <1>7, <2>1, <2>2
<1>8. CASE cmd = <<>> /\ at \in Reads
  <2>1. Look(fdc.cmd[5])
    BY <1>5, <1>8 DEF FdcCommand
  <2>2. QED
    BY <1>4, <1>8, <2>1
<1>9. QED
  BY <1>6, <1>7, <1>8

LEMMA NextSectorLoad ==
  TypeInv /\ TypeInv' /\ ReadInv /\ LoadInv /\ FdcNextSector => LoadInv'
<1> SUFFICES ASSUME TypeInv, TypeInv', ReadInv, LoadInv, FdcNextSector PROVE LoadInv'
  OBVIOUS
<1>1. /\ UNCHANGED driverVars /\ UNCHANGED <<drive, moved>>
      /\ fdc.phase = "exec" /\ ~fdc.rqm /\ Asked' = Asked
  BY DEF FdcNextSector, driverVars, Asked
<1>2. Quiet
  BY <1>1 DEF Quiet, driverVars
<1>3. /\ at \in Reads /\ resAt = 1 /\ fdc.cmd[3] = Asked[3] /\ fdc.cmd[4] = Asked[4]
      /\ fdc.cmd[7] = Asked[7] /\ Asked[5] \in Int /\ Asked[7] \in Int
  <2>1. /\ at \in Reads /\ resAt = 1
        /\ \A i \in 1..9 : fdc.cmd[i] = Asked[i] /\ Asked[i] \in Bytes
    BY <1>1, ReadIsWhole
  <2>2. \A i \in Bytes : i \in Int
    BY WordFacts
  <2>3. QED
    BY <2>1, <2>2
<1>4. /\ drive # NoDisk /\ fdc.sec >= Asked[5] /\ fdc.sec = Asked[5] + Len(moved) - 1
      /\ Asked[7] \notin Asked[5]..(fdc.sec - 1)
      /\ Len(moved) \in Nat /\ fdc.sec \in Int
  BY <1>1 DEF ReadInv, MovedInv, TypeInv, FdcType, FdcRecord
<1>5. \A i \in 1..Len(moved) : moved[i] \notin drive.bad
  BY <1>3 DEF LoadInv, CleanInv
<1>6. CASE fdc.sec = Asked[7]
  <2>1. fdc' = [fdc EXCEPT !.rqm = TRUE, !.phase = "result", !.out = EndOfTrack]
        /\ UNCHANGED faulty
    BY <1>3, <1>6 DEF FdcNextSector, Answer
  <2>2. fdc'.phase = "result" /\ fdc'.out = EndOfTrack
    BY <2>1 DEF TypeInv, FdcType, FdcRecord
  <2>3. Complete'
    BY <1>1, <1>3, <1>4, <1>6 DEF Complete
  <2>4. Outcome(EndOfTrack)'
    <3>1. PICK v \in Verdicts : v = EndOfTrack
      BY DEF Verdicts
    <3>2. resAt' = 1 /\ \A i \in 1..Len(fdc'.out) : resAt' + i - 1 = i
      <4>1. Len(v) = 4
        BY VerdictFacts
      <4>2. QED
        BY <1>1, <1>3, <2>2, <3>1, <4>1 DEF driverVars
    <3>3. QED
      BY <2>2, <2>3, <3>2 DEF Outcome
  <2>5. BlameInv'
    BY <2>4 DEF BlameInv
  <2>6. CleanInv'
    BY <1>1, <1>5, <2>2 DEF CleanInv
  <2>7. QED
    BY <1>2, <2>1, <2>5, <2>6, QuietKeeps DEF LoadInv
<1>7. CASE fdc.sec # Asked[7]
  <2>1. Look(fdc.sec + 1)
    BY <1>3, <1>7 DEF FdcNextSector
  <2>2. PICK s : s = fdc.sec + 1
    OBVIOUS
  <2>3. /\ faulty => faulty'
        /\ fdc'.phase = "exec" =>
             /\ SectorNumber(drive, Asked[3], Asked[4], s) \notin drive.bad
             /\ fdc'.sec = s
        /\ fdc'.phase = "result" =>
             \/ faulty' \/ ~Exists(drive, Asked[3], Asked[4], s)
             \/ SectorNumber(drive, Asked[3], Asked[4], s) \in drive.bad
        /\ fdc'.phase \in {"exec", "result"}
    BY <1>3, <2>1, <2>2, LookJudged
  <2>4. CleanInv'
    BY <1>1, <1>5, <2>3 DEF CleanInv
  <2>5. BlameInv'
    <3>1. Asked[5] <= Asked[7] => s \in Asked[5]..Asked[7]
      BY <1>3, <1>4, <1>7, <2>2
    <3>2. QED
      BY <1>1, <2>3, <3>1 DEF BlameInv, Blamed
  <2>6. QED
    BY <1>2, <2>3, <2>4, <2>5, QuietKeeps DEF LoadInv
<1>8. QED
  BY <1>6, <1>7

\* The end of a result and the end of a movement of the drive.
LEMMA FdcResultLoad ==
  TypeInv /\ TypeInv' /\ ReadInv /\ LoadInv /\ (FdcResult \/ FdcStepped) => LoadInv'
<1> SUFFICES ASSUME TypeInv, TypeInv', ReadInv, LoadInv, FdcResult \/ FdcStepped
             PROVE  LoadInv'
  OBVIOUS
<1>1. /\ UNCHANGED driverVars /\ UNCHANGED <<drive, moved, faulty>> /\ Asked' = Asked
  BY DEF FdcResult, FdcStepped, driverVars, Asked
<1>2. Quiet
  BY <1>1 DEF Quiet, driverVars
<1>3. CASE FdcResult /\ fdc.out = <<>>
  <2>1. fdc'.phase = "idle" /\ fdc.phase = "result"
    BY <1>3 DEF FdcResult, Idle, TypeInv, FdcType, FdcRecord
  <2>2. CleanInv'
    BY <1>1, <2>1 DEF LoadInv, CleanInv, driverVars
  <2>3. BlameInv'
    BY <1>1, <2>1 DEF LoadInv, BlameInv, Blamed, Outcome, Complete, driverVars
  <2>4. QED
    BY <1>1, <1>2, <2>2, <2>3, QuietKeeps DEF LoadInv
<1>4. CASE FdcStepped \/ (FdcResult /\ fdc.out # <<>>)
  <2>1. fdc'.phase = fdc.phase /\ fdc'.sec = fdc.sec /\ fdc'.out = fdc.out
    BY <1>4 DEF FdcResult, FdcStepped, TypeInv, FdcType, FdcRecord
  <2>2. CleanInv'
    BY <1>1, <2>1 DEF LoadInv, CleanInv, driverVars
  <2>3. BlameInv'
    BY <1>1, <2>1 DEF LoadInv, BlameInv, Blamed, Outcome, Complete, driverVars
  <2>4. QED
    BY <1>1, <1>2, <2>2, <2>3, QuietKeeps DEF LoadInv
<1>5. QED
  BY <1>3, <1>4

\* The steps of Do_Command.
LEMMA SendLoad ==
  TypeInv /\ TypeInv' /\ ReadInv /\ LoadInv /\ (FirstByte \/ NextByte) => LoadInv'
<1> SUFFICES ASSUME TypeInv, TypeInv', ReadInv, LoadInv, FirstByte \/ NextByte
             PROVE  LoadInv'
  OBVIOUS
<1>1. Quiet /\ UNCHANGED faulty
  BY DEF FirstByte, NextByte, Quiet, callVars
<1>2. at \in Reads => moved = <<>>
  BY DEF FirstByte, NextByte, ReadInv, MovedInv
<1>3. ~Busy \/ pc # "DCL5"
  BY DEF Busy, TypeInv, PhaseInv
<1>4. fdc'.phase = "command"
  BY <1>3 DEF FirstByte, NextByte, Write, TypeInv, FdcType, FdcRecord
<1>5. CleanInv'
  BY <1>1, <1>2, <1>4, CleanWithout DEF Quiet
<1>6. BlameInv'
  BY <1>4, BlameLater
<1>7. QED
  BY <1>1, <1>5, <1>6, QuietKeeps DEF LoadInv

LEMMA TakeResultLoad ==
  TypeInv /\ TypeInv' /\ ReadInv /\ LoadInv /\ TakeResult => LoadInv'
<1> SUFFICES ASSUME TypeInv, TypeInv', ReadInv, LoadInv, TakeResult PROVE LoadInv'
  OBVIOUS
<1>1. Quiet /\ UNCHANGED faulty /\ fdc.phase = "result" /\ Asked' = Asked
  BY DEF TakeResult, Quiet, callVars, Asked
<1>2. fdc'.phase = "result"
  BY <1>1 DEF TakeResult, TypeInv, FdcType, FdcRecord
<1>3. CleanInv'
  BY <1>1, <1>2 DEF LoadInv, CleanInv, Quiet
<1>4. BlameInv'
  <2>1. CASE at \in Reads /\ Asked[5] <= Asked[7]
    <3>1. Blamed \/ Outcome(EndOfTrack)
      BY <1>1, <2>1 DEF LoadInv, BlameInv
    <3>2. Blamed => Blamed'
      BY <1>1 DEF Blamed, Quiet
    <3>3. Outcome(EndOfTrack) => Outcome(EndOfTrack)'
      BY <2>1, TakeResultOutcome
    <3>4. QED
      BY <3>1, <3>2, <3>3 DEF BlameInv
  <2>2. CASE ~(at \in Reads /\ Asked[5] <= Asked[7])
    BY <1>1, <2>2 DEF BlameInv, Quiet
  <2>3. QED
    BY <2>1, <2>2
<1>5. QED
  BY <1>1, <1>3, <1>4, QuietKeeps DEF LoadInv

LEMMA CommandEndsLoad ==
  TypeInv /\ TypeInv' /\ ReadInv /\ LoadInv /\ (CommandEnds \/ UNCHANGED vars) => LoadInv'
<1> SUFFICES ASSUME TypeInv, TypeInv', ReadInv, LoadInv, CommandEnds \/ UNCHANGED vars
             PROVE  LoadInv'
  OBVIOUS
<1>1. /\ Quiet /\ UNCHANGED <<faulty, fdc, resAt, result>> /\ Asked' = Asked
      /\ pc' = pc \/ pc # "DCL5"
  BY DEF CommandEnds, Quiet, callVars, vars, driverVars, Asked
<1>2. CleanInv'
  BY <1>1 DEF LoadInv, CleanInv, Quiet
<1>3. BlameInv'
  BY <1>1 DEF LoadInv, BlameInv, Blamed, Outcome, Complete, Quiet
<1>4. QED
  BY <1>1, <1>2, <1>3, QuietKeeps DEF LoadInv

\* Before a sector is delivered the drive may be empty and get a disk.
LEMMA InsertLoad ==
  TypeInv /\ TypeInv' /\ ReadInv /\ LoadInv /\ Insert => LoadInv'
<1> SUFFICES ASSUME TypeInv, TypeInv', ReadInv, LoadInv, Insert PROVE LoadInv'
  OBVIOUS
<1>1. UNCHANGED driverVars /\ UNCHANGED <<fdc, moved, faulty>> /\ drive = NoDisk
  BY DEF Insert
<1>2. at \notin {"dir", "file", "done", "trap"}
  BY <1>1 DEF LoadInv, DiskInv
<1>3. /\ fdc.phase # "exec"
      /\ at \in Reads => pc = "DCL5" \/ fdc.phase = "command"
  BY <1>1 DEF ReadInv, MovedInv, OutcomeInv, TypeInv, FdcType, FdcRecord
<1>4. at \in Reads => moved = <<>>
  BY <1>3 DEF ReadInv, MovedInv
<1>5. DiskInv' /\ FileLoaded' /\ LoadOutcome'
  BY <1>1, <1>2 DEF DiskInv, FileLoaded, LoadOutcome, driverVars
<1>6. JobInv'
  BY <1>1, <1>2 DEF LoadInv, JobInv, driverVars
<1>7. PlacedInv'
  BY <1>1, <1>2, <1>4 DEF LoadInv, PlacedInv, driverVars
<1>8. CleanInv'
  BY <1>1, <1>3, <1>4, CleanWithout DEF driverVars
<1>9. BlameInv'
  <2>1. pc = "DCL5" => fdc.phase = "idle"
    BY DEF TypeInv, PhaseInv
  <2>2. QED
    BY <1>1, <1>3, <2>1, BlameLater DEF driverVars
<1>10. QED
  BY <1>5, <1>6, <1>7, <1>8, <1>9 DEF LoadInv

\* What is put into the load buffer is there, and what is elsewhere stays.
LEMMA StoreFacts ==
  ASSUME NEW f, NEW off, NEW x, NEW g, g = Put(f, off, x)
  PROVE  /\ off \in DOMAIN g /\ g[off] = x
         /\ \A o \in DOMAIN f : o \in DOMAIN g /\ (o # off => g[o] = f[o])
BY DEF Put

LEMMA TakeDataLoad ==
  TypeInv /\ TypeInv' /\ ReadInv /\ LoadInv /\ TakeData => LoadInv'
<1> SUFFICES ASSUME TypeInv, TypeInv', ReadInv, LoadInv, TakeData PROVE LoadInv'
  OBVIOUS
<1>1. /\ UNCHANGED <<at, read, job, bpb, dsb, currErr, drive, faulty>> /\ fdc.phase = "exec"
      /\ Asked' = Asked
  BY DEF TakeData, Executing, Asked
<1>2. fdc'.phase = "exec" /\ fdc'.sec = fdc.sec
  BY <1>1 DEF TakeData, TypeInv, FdcType, FdcRecord
<1>3. /\ at \in Reads /\ fdc.cmd[3] = Asked[3] /\ fdc.cmd[4] = Asked[4]
  BY <1>1, ReadIsWhole
<1>4. PICK n : n = SectorNumber(drive, Asked[3], Asked[4], fdc.sec)
  OBVIOUS
<1>5. /\ moved' = Append(moved, n)
      /\ IF dest.to = "sektor"
         THEN sektor' = SectorOf(n) /\ UNCHANGED load
         ELSE load' = Put(load, dest.off, SectorOf(n)) /\ UNCHANGED sektor
      /\ dest' = [dest EXCEPT !.off = @ + SectorBytes]
  BY <1>3, <1>4 DEF TakeData, SectorOf
<1>6. n \notin drive.bad
  BY <1>1, <1>3, <1>4 DEF LoadInv, CleanInv
<1>7. /\ moved' \in Seq(Int) /\ Len(moved') = Len(moved) + 1 /\ Len(moved) \in Nat
      /\ \A i \in 1..Len(moved) : moved'[i] = moved[i]
      /\ moved'[Len(moved) + 1] = n
  <2>1. moved \in Seq(Int) /\ moved' \in Seq(Int)
    <3>1. ReadInv'
      BY TakeDataRead
    <3>2. QED
      BY <3>1 DEF ReadInv, MovedInv
  <2>2. PICK s : s = moved
    OBVIOUS
  <2>3. PICK t : t = moved'
    OBVIOUS
  <2>4. n \in Int
    BY <1>5, <2>1, <2>2, <2>3
  <2>5. QED
    BY <1>5, <2>1, <2>4
<1>8. CleanInv'
  <2>1. \A i \in 1..Len(moved) : moved[i] \notin drive.bad
    BY <1>3 DEF LoadInv, CleanInv
  <2>2. \A i \in 1..Len(moved') : i \in 1..Len(moved) \/ i = Len(moved) + 1
    BY <1>7
  <2>3. QED
    BY <1>1, <1>2, <1>4, <1>6, <1>7, <2>1, <2>2 DEF CleanInv
<1>9. BlameInv'
  BY <1>2, BlameLater
<1>10. DiskInv' /\ FileLoaded' /\ LoadOutcome'
  BY <1>1, <1>3 DEF LoadInv, DiskInv, FileLoaded, LoadOutcome, Reads
<1>11. dest.to = (IF at = "file" THEN "load" ELSE "sektor") /\ dest \in Place
  BY <1>3 DEF LoadInv, PlacedInv, TypeInv, DriverType
<1>12. dest'.to = dest.to /\ dest'.off = dest.off + 512
  BY <1>5, <1>11 DEF Place, SectorBytes
<1>13. CASE at # "file"
  <2>1. sektor' = SectorOf(n) /\ UNCHANGED load /\ SectorOf(n)' = SectorOf(n)
    BY <1>1, <1>5, <1>11, <1>13 DEF SectorOf
  <2>2. PlacedInv'
    BY <1>1, <1>7, <1>11, <1>12, <1>13, <2>1 DEF LoadInv, PlacedInv, SectorOf
  <2>3. JobInv'
    BY <1>1, <1>13 DEF LoadInv, JobInv
  <2>4. QED
    BY <1>8, <1>9, <1>10, <2>2, <2>3 DEF LoadInv
<1>14. CASE at = "file"
  <2>1. PICK o : o = dest.off
    OBVIOUS
  <2>2. PICK l : l = Len(moved)
    OBVIOUS
  <2>3. load' = Put(load, o, SectorOf(n)) /\ UNCHANGED sektor
    BY <1>5, <1>11, <1>14, <2>1
  <2>4. /\ o \in DOMAIN load' /\ load'[o] = SectorOf(n)
        /\ \A p \in DOMAIN load : p \in DOMAIN load' /\ (p # o => load'[p] = load[p])
    BY <2>3, StoreFacts
  <2>5. \A m : SectorOf(m)' = SectorOf(m)
    BY <1>1 DEF SectorOf
  <2>6. InBuffer(o, n)'
    BY <1>1, <2>4 DEF InBuffer, SectorOf
  <2>7. \A p, m : p # o /\ InBuffer(p, m) => InBuffer(p, m)'
    BY <1>1, <2>4 DEF InBuffer, SectorOf
  <2>8. o = job.to.off + (512 * l) /\ job.to.off \in Nat /\ l \in Nat /\ o \in Nat
    <3>1. o = job.to.off + (512 * l)
      BY <1>14, <2>1, <2>2 DEF LoadInv, PlacedInv, SectorBytes, Reads
    <3>2. job.to.off \in Nat
      BY DEF TypeInv, DiskType, Place
    <3>3. l \in Nat
      BY <1>7, <2>2
    <3>4. QED
      BY <3>1, <3>2, <3>3
  <2>9. PlacedInv'
    <3>1. dest'.off = job'.to.off + (SectorBytes * Len(moved'))
      <4>1. dest'.off = o + 512 /\ Len(moved') = l + 1 /\ job'.to.off = job.to.off
        BY <1>1, <1>7, <1>12, <2>1, <2>2
      <4>2. o + 512 = job.to.off + (512 * (l + 1))
        BY <2>8
      <4>3. QED
        BY <4>1, <4>2 DEF SectorBytes
    <3>2. PICK base : base = job.to.off
      OBVIOUS
    <3>3. job'.to.off = base /\ base \in Nat /\ o = base + (512 * l)
      BY <1>1, <2>8, <3>2
    <3>4. ASSUME NEW i \in 1..Len(moved'), NEW p, p = base + (SectorBytes * (i - 1)),
                 NEW m, m = moved'[i]
          PROVE  InBuffer(p, m)'
      <4>1. i \in 1..l \/ i = l + 1
        BY <1>7, <2>2
      <4>2. CASE i \in 1..l
        <5>1. m = moved[i]
          BY <1>7, <2>2, <3>4, <4>2
        <5>2. InBuffer(p, m)
          BY <1>14, <2>2, <3>2, <3>4, <4>2, <5>1 DEF LoadInv, PlacedInv
        <5>3. p # o
          BY <2>8, <3>3, <3>4, <4>2 DEF SectorBytes
        <5>4. QED
          BY <2>7, <5>2, <5>3
      <4>3. CASE i = l + 1
        <5>1. p = o
          BY <2>8, <3>3, <3>4, <4>3 DEF SectorBytes
        <5>2. m = n
          BY <1>7, <2>2, <3>4, <4>3
        <5>3. QED
          BY <2>6, <5>1, <5>2
      <4>4. QED
        BY <4>1, <4>2, <4>3
    <3>5. \A i \in 1..Len(moved') :
            LET p == base + (SectorBytes * (i - 1))
                m == moved'[i]
            IN p \in DOMAIN load' /\ load'[p] = SectorOf(m)
      <4>1. ASSUME NEW i \in 1..Len(moved'), NEW p, p = base + (SectorBytes * (i - 1)),
                   NEW m, m = moved'[i]
            PROVE  p \in DOMAIN load' /\ load'[p] = SectorOf(m)
        <5>1. InBuffer(p, m)'
          BY <3>4, <4>1
        <5>2. QED
          BY <2>5, <5>1 DEF InBuffer
      <4>2. QED
        BY <4>1
    <3>6. job'.to.to = dest'.to /\ dest'.to = "load" /\ at' = "file"
      BY <1>1, <1>11, <1>12, <1>14 DEF LoadInv, PlacedInv
    <3>7. drive' = drive
      BY <1>1
    <3>8. QED
      BY <3>1, <3>3, <3>5, <3>6, <3>7 DEF PlacedInv, InBuffer, SectorOf
  <2>10. JobInv'
    <3>1. ASSUME Regular(drive) PROVE Progress(drive)'
      <4>1. PICK m : m = job.sect - StartOfFile(drive)
        OBVIOUS
      <4>2. /\ m >= 0 /\ job.to.off = 512 * m /\ m + job.count = SectorsOfFile(drive)
            /\ Holds(drive, m) /\ HasFile(drive)
        BY <1>14, <3>1, <4>1 DEF LoadInv, JobInv, Progress, SectorBytes
      <4>3. m \in Int
        <5>1. drive \in Disks
          BY <1>14 DEF LoadInv, DiskInv, TypeInv, BoundType
        <5>2. StartOfFile(drive) \in Int /\ job.sect \in Int
          BY <3>1, <4>2, <5>1, StartIsNumber DEF TypeInv, DiskType
        <5>3. QED
          BY <4>1, <5>2
      <4>4. Holds(drive, m)'
        <5>1. \A i \in 0..(m - 1) : SectorBytes * i # o
          BY <2>8, <4>2, <4>3 DEF SectorBytes
        <5>2. \A i \in 0..(m - 1) : InBuffer(SectorBytes * i, FileSector(drive, i))
                                    /\ FileSector(drive, i) \notin drive.bad
          BY <4>2 DEF Holds
        <5>3. \A i \in 0..(m - 1) : InBuffer(SectorBytes * i, FileSector(drive, i))'
          BY <1>1, <2>7, <5>1, <5>2
        <5>4. QED
          BY <1>1, <5>2, <5>3 DEF Holds
      <4>5. QED
        BY <1>1, <4>1, <4>2, <4>4 DEF Progress, SectorBytes
    <3>2. QED
      BY <1>1, <1>14, <3>1 DEF LoadInv, JobInv
  <2>11. QED
    BY <1>8, <1>9, <1>10, <2>9, <2>10 DEF LoadInv
<1>15. QED
  BY <1>13, <1>14

\* The steps of load_tos itself: no sector is delivered, no result comes.
LEMMA CallerJudged ==
  ASSUME TypeInv', (pc' = "DCL5" /\ moved' = <<>>) \/ at' \notin Reads
  PROVE  CleanInv' /\ BlameInv'
<1>1. CASE pc' = "DCL5" /\ moved' = <<>>
  <2>1. fdc'.phase = "idle"
    BY <1>1 DEF TypeInv, PhaseInv
  <2>2. QED
    BY <1>1, <2>1, CleanWithout, BlameLater
<1>2. CASE at' \notin Reads
  BY <1>2 DEF CleanInv, BlameInv
<1>3. QED
  BY <1>1, <1>2

LEMMA FlopinitLoad ==
  TypeInv /\ TypeInv' /\ ReadInv /\ LoadInv /\ (LoadTos \/ FlopinitNext) => LoadInv'
<1> SUFFICES ASSUME TypeInv', LoadTos \/ FlopinitNext PROVE LoadInv'
  OBVIOUS
<1>1. at' \in {"recal", "sense", "conf", "spec", "mode"}
  BY DEF LoadTos, FlopinitNext
<1>2. CleanInv' /\ BlameInv'
  BY <1>1, CallerJudged DEF Reads
<1>3. QED
  BY <1>1, <1>2 DEF LoadInv, DiskInv, PlacedInv, JobInv, FileLoaded, LoadOutcome, Reads

\* getbpb begins to read the boot sector.
LEMMA BootLoad ==
  ASSUME TypeInv', NEW step \in {"bpb1", "bpb2"}, ReadBoot(step)
  PROVE  LoadInv'
<1>1. /\ at' = step /\ pc' = "DCL5" /\ moved' = <<>> /\ dest' = Sektor
      /\ read' = [track |-> 0, side |-> 0, sec |-> 1, count |-> 1]
  BY DEF ReadBoot, Floprd, Do
<1>2. CleanInv' /\ BlameInv'
  BY <1>1, CallerJudged
<1>3. PlacedInv'
  BY <1>1 DEF PlacedInv, Sektor
<1>4. JobInv'
  BY <1>1 DEF JobInv
<1>5. QED
  BY <1>1, <1>2, <1>3, <1>4 DEF LoadInv, DiskInv, FileLoaded, LoadOutcome

\* The load ends: what is known of the disk, the buffer and the outcome is all there is.
LEMMA LeaveLoad ==
  ASSUME TypeInv', NEW err, Leave(err), drive' = drive, drive # NoDisk,
         FileLoaded', LoadOutcome'
  PROVE  LoadInv'
<1>1. at' = "done"
  BY DEF Leave
<1>2. CleanInv' /\ BlameInv'
  BY <1>1, CallerJudged DEF Reads
<1>3. DiskInv' /\ PlacedInv' /\ JobInv'
  BY <1>1 DEF DiskInv, PlacedInv, JobInv, Reads
<1>4. QED
  BY <1>2, <1>3 DEF LoadInv

\* A turn of readabs begins.
LEMMA ReadAbsLoad ==
  ASSUME TypeInv', NEW j, NEW g, ReadAbs(j, g), at' \in {"dir", "file"},
         j.to.to = IF at' = "file" THEN "load" ELSE "sektor",
         DiskInv', JobInv'
  PROVE  LoadInv'
<1>1. pc' = "DCL5" /\ moved' = <<>> /\ dest' = j.to /\ job' = j
  BY DEF ReadAbs, Floprd, Do
<1>2. CleanInv' /\ BlameInv'
  BY <1>1, CallerJudged
<1>3. PlacedInv'
  <2>1. Len(moved') = 0 /\ dest'.off \in Nat
    BY <1>1 DEF TypeInv, DriverType, Place
  <2>2. dest'.off = job'.to.off + (SectorBytes * 0)
    BY <1>1, <2>1 DEF SectorBytes
  <2>3. QED
    BY <1>1, <2>1, <2>2 DEF PlacedInv
<1>4. FileLoaded' /\ LoadOutcome'
  BY DEF FileLoaded, LoadOutcome
<1>5. QED
  BY <1>2, <1>3, <1>4 DEF LoadInv

LEMMA FirstGetbpbLoad ==
  TypeInv /\ TypeInv' /\ ReadInv /\ LoadInv /\ FirstGetbpb => LoadInv'
BY BootLoad DEF FirstGetbpb

\* getbpb: a boot sector that cannot be read or used ends the load with an error, one
\* without sectors per cylinder traps, and any other gives the geometry of the disk.
LEMMA GetbpbLoad ==
  TypeInv /\ TypeInv' /\ ReadInv /\ LoadInv /\ Getbpb => LoadInv'
<1> SUFFICES ASSUME TypeInv, TypeInv', ReadInv, LoadInv, Getbpb PROVE LoadInv'
  OBVIOUS
<1>1. /\ pc = "DCL_END" /\ at \in {"bpb1", "bpb2"} /\ UNCHANGED <<drive, faulty>>
  BY DEF Getbpb, Stay
<1>2. /\ drive \in Disks /\ drive # NoDisk
      /\ FloprdError = 0 => Boot = drive /\ 0 \notin drive.bad
      /\ FloprdError # 0 => faulty \/ 0 \in drive.bad
  BY <1>1, BootJudged DEF LoadInv
<1>3. \A step : ReadBoot(step) => at' = step
  BY DEF ReadBoot
<1>4. CASE ReadBoot("bpb2")
  BY <1>4, BootLoad
<1>5. CASE Leave(e_error) /\ (FloprdError # 0 \/ ~BpbUsable(Boot))
  <2>1. at' = "done" /\ currErr' = e_error /\ e_error # 0
    BY <1>5 DEF Leave, e_error
  <2>2. FileLoaded'
    BY <2>1 DEF FileLoaded
  <2>3. ASSUME Regular(drive), 0 \notin drive.bad PROVE faulty
    <3>1. BpbUsable(drive)
      BY <1>2, <2>3, RegularGeometry
    <3>2. QED
      BY <1>2, <1>5, <2>3, <3>1
  <2>4. LoadOutcome'
    BY <1>1, <2>1, <2>3 DEF LoadOutcome
  <2>5. QED
    BY <1>1, <1>2, <1>5, <2>2, <2>4, LeaveLoad
<1>6. CASE ~(FloprdError # 0 \/ ~BpbUsable(Boot)) /\ ~ReadBoot("bpb2")
  <2>1. Boot = drive /\ 0 \notin drive.bad /\ BpbUsable(drive)
    BY <1>2, <1>6
  <2>2. /\ bpb' = Bpb(drive) /\ dsb' = Dsb(drive)
        /\ \/ dsb'.dspc = 0 /\ at' = "trap"
           \/ /\ at' = "dir"
              /\ ReadAbs([sect |-> (bpb'.fatrec + bpb'.fsiz) % Word,
                          to |-> Sektor, count |-> 1], dsb')
    BY <1>6, <2>1 DEF Getbpb
  <2>3. CASE dsb'.dspc = 0 /\ at' = "trap"
    <3>1. (drive.spt * drive.nsides) % Word = 0
      BY <2>2, <2>3 DEF Dsb
    <3>2. DiskInv'
      BY <1>1, <1>2, <2>1, <2>3, <3>1 DEF DiskInv
    <3>3. CleanInv' /\ BlameInv'
      BY <2>3, CallerJudged DEF Reads
    <3>4. PlacedInv' /\ JobInv' /\ FileLoaded'
      BY <2>3 DEF PlacedInv, JobInv, FileLoaded, Reads
    <3>5. LoadOutcome'
      BY <1>1, <2>1, <2>3, <3>1 DEF LoadOutcome
    <3>6. QED
      BY <3>2, <3>3, <3>4, <3>5 DEF LoadInv
  <2>4. CASE /\ at' = "dir"
             /\ ReadAbs([sect |-> (bpb'.fatrec + bpb'.fsiz) % Word,
                         to |-> Sektor, count |-> 1], dsb')
    <3> DEFINE sect == (Bpb(drive).fatrec + Bpb(drive).fsiz) % Word
    <3>1. PICK j : j = [sect |-> sect, to |-> Sektor, count |-> 1]
      OBVIOUS
    <3>2. j.sect = sect /\ j.to = Sektor /\ j.count = 1
      BY <3>1
    <3>3. at' = "dir" /\ ReadAbs(j, Dsb(drive))
      BY <2>2, <2>4, <3>1
    <3>4. DiskInv'
      BY <1>1, <1>2, <2>1, <2>2, <2>4 DEF DiskInv
    <3>5. ASSUME Regular(drive)
          PROVE  /\ job'.sect = RootSector(drive) /\ job'.count = 1
                 /\ ReadAt(drive, read', job'.sect, job'.count)
      <4>1. /\ sect = RootSector(drive) /\ RootSector(drive) \in Nat
            /\ RootSector(drive) <= drive.nsects
        <5>1. sect = RootSector(drive)
          BY <1>2, <3>5, RegularBpb
        <5>2. /\ drive.nsects \in Nat /\ drive.ndirs \in Nat /\ drive.spf \in Nat
              /\ RootSector(drive) = 1 + (2 * drive.spf)
              /\ RootSector(drive) + (drive.ndirs \div 16) <= drive.nsects
          BY <1>2, <3>5, RegularNumbers
        <5>3. drive.ndirs \div 16 \in Nat
          BY <5>2
        <5>4. QED
          BY <5>1, <5>2, <5>3
      <4> HIDE DEF sect
      <4>2. j \in JobType
        BY <3>1, <4>1, WordFacts, WordIsPositive, PlaceFacts DEF JobType
      <4>3. job' = j /\ ReadAt(drive, read', j.sect, j.count)
        BY <1>2, <3>2, <3>3, <3>5, <4>1, <4>2, ReadAbsRegular
      <4>4. QED
        BY <3>2, <4>1, <4>3
    <3>6. JobInv'
      BY <1>1, <3>3, <3>5 DEF JobInv
    <3>7. j.to.to = IF at' = "file" THEN "load" ELSE "sektor"
      BY <3>2, <3>3 DEF Sektor
    <3>8. QED
      BY <3>3, <3>4, <3>6, <3>7, ReadAbsLoad
  <2>5. QED
    BY <2>2, <2>3, <2>4
<1>7. QED
  BY <1>4, <1>5, <1>6 DEF Getbpb

\* readabs goes on only behind a good turn, and only with a file: the directory of a
\* regular disk takes one turn.
LEMMA NextTurnLoad ==
  TypeInv /\ TypeInv' /\ ReadInv /\ LoadInv /\ NextTurn => LoadInv'
<1> SUFFICES ASSUME TypeInv, TypeInv', ReadInv, LoadInv, NextTurn PROVE LoadInv'
  OBVIOUS
<1>1. /\ pc = "DCL_END" /\ at \in {"dir", "file"} /\ Rest.count # 0 /\ ReadAbs(Rest, dsb)
      /\ UNCHANGED <<at, bpb, dsb, load, faulty, drive>>
  BY DEF NextTurn, Stay
<1>2. FloprdError = 0
  <2>1. job \in JobType
    BY DEF TypeInv, DiskType, JobType
  <2>2. FloprdError # 0 => Rest.count = 0
    BY <2>1 DEF Rest, JobType
  <2>3. QED
    BY <1>1, <2>2
<1>3. /\ drive \in Disks /\ drive # NoDisk /\ dsb = Dsb(drive)
  BY <1>1 DEF LoadInv, DiskInv, TypeInv, BoundType
<1>4. Rest \in JobType
  BY RestType DEF TypeInv
<1>5. DiskInv'
  BY <1>1 DEF LoadInv, DiskInv
<1>6. Rest.to.to = IF at' = "file" THEN "load" ELSE "sektor"
  <2>1. Rest.to = [job.to EXCEPT !.off = @ + (bpb.recsize * read.count)]
    BY <1>2 DEF Rest
  <2>2. job.to \in Place
    BY DEF TypeInv, DiskType
  <2>3. Rest.to.to = job.to.to
    BY <2>1, <2>2 DEF Place
  <2>4. QED
    BY <1>1, <2>3 DEF LoadInv, PlacedInv, Reads
<1>7. ASSUME Regular(drive)
      PROVE  /\ at = "file" /\ HasFile(drive) /\ RootSector(drive) \notin drive.bad
             /\ ReadAt(drive, read', job'.sect, job'.count) /\ Progress(drive)'
  <2>1. CASE at = "dir"
    <3>1. job.count = 1 /\ read.count = 1
      BY <1>1, <1>7, <2>1, RootJudged DEF LoadInv, JobInv
    <3>2. Rest.count = (job.count - read.count) % Word
      BY <1>2 DEF Rest
    <3>3. Rest.count = 0
      BY <3>1, <3>2, WordIsPositive
    <3>4. QED
      BY <1>1, <3>3
  <2>2. CASE at = "file"
    <3>1. HasFile(drive) /\ RootSector(drive) \notin drive.bad
      BY <1>7, <2>2 DEF LoadInv, JobInv
    <3>2. PICK n, k : n = job.sect - StartOfFile(drive) /\ k = read.count
      OBVIOUS
    <3>3. /\ n \in Nat /\ k \in 1..job.count /\ n + job.count = SectorsOfFile(drive)
          /\ Rest.sect = job.sect + k /\ Rest.count = job.count - k
          /\ Rest.to.off = SectorBytes * (n + k)
          /\ Holds(drive, n + k)
      BY <1>1, <1>2, <1>7, <2>2, <3>2, FileTurn DEF LoadInv
    <3>4. job.sect \in Nat /\ job.count \in Nat
      BY WordFacts DEF TypeInv, DiskType
    <3>5. k \in Nat /\ Rest.count >= 1 /\ SectorsOfFile(drive) > 0
      BY <1>1, <3>3, <3>4
    <3>6. /\ StartOfFile(drive) \in Nat
          /\ StartOfFile(drive) + SectorsOfFile(drive) <= drive.nsects
          /\ drive.nsects \in Nat /\ SectorsOfFile(drive) \in Nat
      BY <1>3, <1>7, <3>1, <3>5, FileRun, RegularNumbers
    <3>7. Rest.sect <= drive.nsects
      BY ONLY <3>2, <3>3, <3>4, <3>5, <3>6
    <3>8. job' = Rest /\ ReadAt(drive, read', Rest.sect, Rest.count)
      BY <1>1, <1>3, <1>4, <1>7, <3>5, <3>7, ReadAbsRegular
    <3>9. PICK r : r = Rest
      OBVIOUS
    <3>10. /\ r.sect - StartOfFile(drive) = n + k /\ n + k >= 0
           /\ (n + k) + r.count = SectorsOfFile(drive)
      BY <3>2, <3>3, <3>4, <3>5, <3>6, <3>9
    <3>11. job' = r /\ r.to.off = SectorBytes * (n + k)
      BY <3>3, <3>8, <3>9
    <3>12. Holds(drive, n + k)'
      BY <1>1, <3>3 DEF Holds, InBuffer, SectorOf
    <3>13. Progress(drive)'
      BY <1>1, <3>10, <3>11, <3>12 DEF Progress
    <3>14. QED
      BY <2>2, <3>1, <3>8, <3>13
  <2>3. QED
    BY <1>1, <2>1, <2>2
<1>8. JobInv'
  BY <1>1, <1>7 DEF JobInv
<1>9. QED
  BY <1>1, <1>5, <1>6, <1>8, ReadAbsLoad

\* Fsfirst: without the entry the load ends with an error, with an empty file it ends
\* well, and any other file is read from its first sector on.
LEMMA FsfirstLoad ==
  TypeInv /\ TypeInv' /\ ReadInv /\ LoadInv /\ Fsfirst => LoadInv'
<1> SUFFICES ASSUME TypeInv, TypeInv', ReadInv, LoadInv, Fsfirst PROVE LoadInv'
  OBVIOUS
<1>1. /\ pc = "DCL_END" /\ at = "dir" /\ UNCHANGED <<bpb, dsb, load, faulty, drive>>
  BY DEF Fsfirst, LastTurn, Stay
<1>2. /\ drive \in Disks /\ drive # NoDisk /\ bpb = Bpb(drive) /\ dsb = Dsb(drive)
      /\ BpbUsable(drive) /\ 0 \notin drive.bad
  BY <1>1 DEF LoadInv, DiskInv, TypeInv, BoundType
<1>3. Regular(drive) =>
        /\ FloprdError = 0 => /\ RootSector(drive) \notin drive.bad
                              /\ Slots # {} <=> HasFile(drive)
                              /\ HasFile(drive) => Found = FileEntry(drive)
        /\ FloprdError # 0 => \/ faulty \/ RootSector(drive) \in drive.bad
                              \/ ~HasFile(drive)
  BY <1>1, RootJudged DEF LoadInv
<1>4. CASE Leave(e_error) /\ (FloprdError # 0 \/ Slots = {})
  <2>1. at' = "done" /\ currErr' = e_error /\ e_error # 0
    BY <1>4 DEF Leave, e_error
  <2>2. FileLoaded'
    BY <2>1 DEF FileLoaded
  <2>3. Regular(drive) => faulty \/ RootSector(drive) \in drive.bad \/ ~HasFile(drive)
    BY <1>3, <1>4
  <2>4. LoadOutcome'
    BY <1>1, <2>1, <2>3 DEF LoadOutcome
  <2>5. QED
    BY <1>1, <1>2, <1>4, <2>2, <2>4, LeaveLoad
<1>5. Regular(drive) /\ HasFile(drive) =>
        /\ SectorsOfFile(drive) > 0 => /\ FileStart(FileEntry(drive)) = StartOfFile(drive)
                                       /\ FileSectors(FileEntry(drive)) = SectorsOfFile(drive)
        /\ SectorsOfFile(drive) = 0 => FileSectors(FileEntry(drive)) = 0
        /\ SectorsOfFile(drive) \in Nat
  BY <1>2, DriverFindsFile, FileRun
<1>6. CASE Leave(0) /\ FloprdError = 0 /\ Slots # {} /\ FileSectors(Found) = 0
  <2>1. at' = "done" /\ currErr' = 0
    BY <1>6 DEF Leave
  <2>2. Regular(drive) => /\ HasFile(drive) /\ RootSector(drive) \notin drive.bad
                          /\ 0..(SectorsOfFile(drive) - 1) = {}
    <3>1. ASSUME Regular(drive) PROVE SectorsOfFile(drive) = 0 /\ HasFile(drive)
      BY <1>3, <1>5, <1>6, <3>1
    <3>2. 0..(0 - 1) = {}
      OBVIOUS
    <3>3. QED
      BY <1>3, <1>6, <3>1, <3>2
  <2>3. FileLoaded'
    BY <1>1, <2>2 DEF FileLoaded
  <2>4. LoadOutcome'
    BY <1>1, <1>2, <2>1, <2>2 DEF LoadOutcome
  <2>5. QED
    BY <1>1, <1>2, <1>6, <2>3, <2>4, LeaveLoad
<1>7. CASE /\ FloprdError = 0 /\ Slots # {} /\ FileSectors(Found) # 0 /\ at' = "file"
           /\ ReadAbs([sect |-> FileStart(Found), to |-> TosLoadBuffer,
                       count |-> FileSectors(Found)], dsb)
  <2>1. PICK j : j = [sect |-> FileStart(Found), to |-> TosLoadBuffer,
                      count |-> FileSectors(Found)]
    OBVIOUS
  <2>2. /\ j.sect = FileStart(Found) /\ j.to = TosLoadBuffer /\ j.count = FileSectors(Found)
    BY <2>1
  <2>3. ReadAbs(j, Dsb(drive)) /\ at' = "file"
    BY <1>2, <1>7, <2>1
  <2>4. FileStart(Found) \in Nat /\ FileSectors(Found) \in Words
    BY <1>1, <1>7, FoundFacts, FileFacts
  <2>5. j \in JobType /\ j.count >= 1
    <3>1. j \in JobType
      BY <2>1, <2>4, PlaceFacts DEF JobType
    <3>2. j.count \in Nat /\ j.count # 0
      BY <1>7, <2>2, <2>4, WordFacts
    <3>3. QED
      BY <3>1, <3>2
  <2>6. DiskInv'
    BY <1>1, <1>2, <2>3 DEF DiskInv
  <2>7. ASSUME Regular(drive)
        PROVE  /\ HasFile(drive) /\ RootSector(drive) \notin drive.bad
               /\ ReadAt(drive, read', job'.sect, job'.count) /\ Progress(drive)'
    <3>1. /\ HasFile(drive) /\ RootSector(drive) \notin drive.bad
          /\ Found = FileEntry(drive)
      BY <1>3, <1>7, <2>7
    <3>2. /\ SectorsOfFile(drive) \in Nat /\ SectorsOfFile(drive) > 0
          /\ FileStart(Found) = StartOfFile(drive) /\ FileSectors(Found) = SectorsOfFile(drive)
      <4>1. SectorsOfFile(drive) \in Nat /\ SectorsOfFile(drive) # 0
        BY <1>5, <1>7, <2>7, <3>1
      <4>2. SectorsOfFile(drive) > 0
        BY <4>1
      <4>3. QED
        BY <1>5, <2>7, <3>1, <4>1, <4>2
    <3>3. /\ StartOfFile(drive) \in Nat
          /\ StartOfFile(drive) + SectorsOfFile(drive) <= drive.nsects
          /\ drive.nsects \in Nat
      BY <1>2, <2>7, <3>1, <3>2, FileRun, RegularNumbers
    <3>4. j.sect = StartOfFile(drive) /\ j.sect <= drive.nsects
          /\ j.count = SectorsOfFile(drive)
      BY <2>2, <3>2, <3>3
    <3>5. job' = j /\ ReadAt(drive, read', j.sect, j.count)
      BY <1>2, <2>3, <2>5, <2>7, <3>4, ReadAbsRegular
    <3>6. /\ j.sect - StartOfFile(drive) = 0 /\ j.to.off = SectorBytes * 0
          /\ 0 + j.count = SectorsOfFile(drive)
      BY <2>2, <3>2, <3>3, <3>4 DEF TosLoadBuffer, SectorBytes
    <3>7. Holds(drive, 0)'
      <4>1. 0..(0 - 1) = {}
        OBVIOUS
      <4>2. QED
        BY <4>1 DEF Holds
    <3>8. Progress(drive)'
      BY <1>1, <3>5, <3>6, <3>7 DEF Progress
    <3>9. QED
      BY <3>1, <3>5, <3>8
  <2>8. JobInv'
    BY <1>1, <2>3, <2>7 DEF JobInv
  <2>9. j.to.to = IF at' = "file" THEN "load" ELSE "sektor"
    BY <2>2, <2>3 DEF TosLoadBuffer
  <2>10. QED
    BY <2>3, <2>6, <2>8, <2>9, ReadAbsLoad
<1>8. QED
  BY <1>4, <1>6, <1>7 DEF Fsfirst

\* readfile: behind a good turn that leaves nothing the file is in the buffer.
LEMMA ReadFileLoad ==
  TypeInv /\ TypeInv' /\ ReadInv /\ LoadInv /\ ReadFile => LoadInv'
<1> SUFFICES ASSUME TypeInv, TypeInv', ReadInv, LoadInv, ReadFile PROVE LoadInv'
  OBVIOUS
<1>1. /\ pc = "DCL_END" /\ at = "file" /\ Rest.count = 0 /\ Leave(FloprdError)
      /\ UNCHANGED <<load, faulty, drive>>
  BY DEF ReadFile, LastTurn, Stay
<1>2. drive \in Disks /\ drive # NoDisk /\ BpbUsable(drive) /\ 0 \notin drive.bad
  BY <1>1 DEF LoadInv, DiskInv, TypeInv, BoundType
<1>3. at' = "done" /\ currErr' = FloprdError
  BY <1>1 DEF Leave
<1>4. Regular(drive) => HasFile(drive) /\ RootSector(drive) \notin drive.bad
  BY <1>1 DEF LoadInv, JobInv
<1>5. ASSUME Regular(drive), FloprdError = 0 PROVE Holds(drive, SectorsOfFile(drive))
  <2>1. PICK n, k : n = job.sect - StartOfFile(drive) /\ k = read.count
    OBVIOUS
  <2>2. /\ n \in Nat /\ k \in 1..job.count /\ n + job.count = SectorsOfFile(drive)
        /\ Rest.count = job.count - k /\ Holds(drive, n + k)
    BY <1>1, <1>5, <2>1, FileTurn DEF LoadInv
  <2>3. job.count \in Nat
    BY WordFacts DEF TypeInv, DiskType
  <2>4. n + k = SectorsOfFile(drive)
    BY <1>1, <2>2, <2>3
  <2>5. QED
    BY <2>2, <2>4
<1>6. ASSUME Regular(drive), FloprdError # 0
      PROVE  \/ faulty
             \/ \E i \in 0..(SectorsOfFile(drive) - 1) : FileSector(drive, i) \in drive.bad
  BY <1>1, <1>6, FileBlamed DEF LoadInv
<1>7. FileLoaded'
  BY <1>1, <1>3, <1>5 DEF FileLoaded, Holds, InBuffer, SectorOf
<1>8. LoadOutcome'
  <2>1. Regular(drive) =>
          IF \E i \in 0..(SectorsOfFile(drive) - 1) : FileSector(drive, i) \in drive.bad
          THEN FloprdError # 0 ELSE faulty \/ FloprdError = 0
    BY <1>5, <1>6 DEF Holds
  <2>2. QED
    BY <1>1, <1>2, <1>3, <1>4, <2>1 DEF LoadOutcome
<1>9. QED
  BY <1>1, <1>2, <1>7, <1>8, LeaveLoad

LEMMA InitLoad == Init => LoadInv
BY DEF Init, LoadInv, DiskInv, PlacedInv, CleanInv, BlameInv, JobInv, FileLoaded,
       LoadOutcome, Reads

\* What is known of a load is kept by every step.
THEOREM LoadInductive == TypeInv /\ ReadInv /\ LoadInv /\ [Next]_vars => LoadInv'
<1> SUFFICES ASSUME TypeInv, ReadInv, LoadInv, [Next]_vars PROVE LoadInv'
  OBVIOUS
<1>1. TypeInv'
  BY TypeInductive
<1>2. CASE Fdc
  BY <1>1, <1>2, FdcCommandLoad, NextSectorLoad, FdcResultLoad DEF Fdc
<1>3. CASE DoCommand
  BY <1>1, <1>3, SendLoad, TakeDataLoad, TakeResultLoad, CommandEndsLoad DEF DoCommand
<1>4. CASE FlopinitNext \/ LoadTos
  BY <1>1, <1>4, FlopinitLoad
<1>5. CASE FirstGetbpb \/ Getbpb \/ NextTurn \/ Fsfirst \/ ReadFile
  BY <1>1, <1>5, FirstGetbpbLoad, GetbpbLoad, NextTurnLoad, FsfirstLoad, ReadFileLoad
<1>6. CASE Insert
  BY <1>1, <1>6, InsertLoad
<1>7. CASE UNCHANGED vars
  BY <1>1, <1>7, CommandEndsLoad
<1>8. QED
  BY <1>2, <1>3, <1>4, <1>5, <1>6, <1>7 DEF Next, Driver

\* In every reachable state, when load_tos reports success for a disk as it expects one,
\* the load buffer holds the file of that disk, sector by sector.
THEOREM FileIsLoaded == Spec => []FileLoaded
<1>1. LoadInv => FileLoaded
  BY DEF LoadInv
<1>2. QED
  BY <1>1, InitIsTyped, InitRead, InitLoad, TypeInductive, ReadInductive, LoadInductive,
     PTL DEF Spec

\* In every reachable state what load_tos has reported fits the disk: it loads what it can
\* without a passing error, and reports what cannot be read, used or found.
THEOREM OutcomeFits == Spec => []LoadOutcome
<1>1. LoadInv => LoadOutcome
  BY DEF LoadInv
<1>2. QED
  BY <1>1, InitIsTyped, InitRead, InitLoad, TypeInductive, ReadInductive, LoadInductive,
     PTL DEF Spec
=============================================================================
