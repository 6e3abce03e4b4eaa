-------------------------------- MODULE Memory --------------------------------
(***************************************************************************)
(* From reset to the first key poll, as far as the main memory goes: the     *)
(* SIMM detection and the warm start check of startup.s, the tests of the     *)
(* first MB and of the rest (do_memtest), and what SetPMMUTables (pmmu.c)     *)
(* makes of banks that pass or fail. Which page each block is mapped to is     *)
(* PageTables'.                                                             *)
(*                                                                         *)
(* RAM survives a reset. What decides whether it is tested again is the      *)
(* pair warmstart_magic / ram700_checksum, which live in that RAM.            *)
(***************************************************************************)
EXTENDS Naturals, FiniteSets, FiniteSetsExt, Keys, Banks

CONSTANTS
  NSlots,      \* banks of 64 MB (8 in the code: four slots, two sides)
  Simms,       \* the SIMM sides that may be fitted
  MaxKeys,     \* bound: keys pressed during the memory test
  MaxResets    \* bound: resets and power cycles

Slots == 0..NSlots - 1

(***************************************************************************)
(* A SIMM side in its 64 MB window. lines: the address lines above 4 MB that *)
(* it decodes, named by the megabytes they stand for; the others are mirrors. *)
(* dead: its first cells do not hold what is written. low: a fault in the     *)
(* first MB. head, body: 4 MB blocks with a fault at the start of a MB, or    *)
(* behind it.                                                               *)
(***************************************************************************)
Simm == [fitted : BOOLEAN, dead : BOOLEAN, lines : SUBSET {4, 8, 16, 32},
         low : BOOLEAN, head : SUBSET Blocks, body : SUBSET Blocks]

ASSUME NSlotsAssumption == NSlots \in Nat \ {0}
ASSUME SimmsAssumption == Simms \subseteq Simm
ASSUME BoundsAssumption == MaxKeys \in Nat /\ MaxResets \in Nat

VARIABLES
  pc,
  bank,            \* what is fitted, by slot
  magic, sum,      \* warmstart_magic is right; the checksum over $700..$77F is right
  memorySchatten,  \* the bank types in RAM ($714)
  d5,              \* the bank types in the register, then SetPMMUTables's copy
  slot,            \* the slot being detected, tested or mapped
  todo,            \* blocks of the slot not yet tested
  fastMemtest,
  mapped,          \* blocks in the page tables
  cold,            \* history: this start is a cold one
  passed,          \* history: blocks that passed a test since power-on
  ran,             \* history: the last start went through, and nothing has failed since
  keysLeft, resetsLeft

ramVars == <<magic, sum, memorySchatten>>
workVars == <<d5, slot, todo, fastMemtest>>
history == <<cold, passed, ran>>
budget == <<keysLeft, resetsLeft>>
vars == <<pc, bank, ramVars, workVars, mapped, history, budget>>

-----------------------------------------------------------------------------
(* Detection *)

\* The address lines above 4 MB that the start of block b drives high.
LinesOf(b) == {l \in {4, 8, 16, 32} : ((b * 4) \div l) % 2 = 1}

\* Two blocks with the same cell are mirrors of each other.
Cell(simm, b) == LinesOf(b) \cap simm.lines

\* A slip: the pattern at 36 MB is written before the one at 4 MB.
PatternsSwapped == << <<5, 0>>, <<4, 4>>, <<2, 9>>, <<6, 1>>, <<3, 8>>, <<1, 2>> >>

\* The type numbers Mem_Loop writes, in its order, each with the block it is written to.
Patterns == << <<5, 0>>, <<4, 4>>, <<6, 1>>, <<3, 8>>, <<2, 9>>, <<1, 2>> >>

\* What is read back at the bank's start: the last of the patterns that ended up there.
BankType(simm) ==
  LET hits == {i \in DOMAIN Patterns : Cell(simm, Patterns[i][2]) = {}}
  IN  IF ~simm.fitted \/ simm.dead THEN 0 ELSE Patterns[Max(hits)][1]

-----------------------------------------------------------------------------

Init ==
  /\ pc = "reset"
  /\ bank \in [Slots -> Simms]
  /\ magic = FALSE /\ sum = FALSE
  /\ memorySchatten = [s \in Slots |-> 0] /\ d5 = [s \in Slots |-> 0]
  /\ slot = 0 /\ todo = {} /\ fastMemtest = FALSE
  /\ mapped = {} /\ cold = TRUE /\ passed = {} /\ ran = FALSE
  /\ keysLeft = MaxKeys /\ resetsLeft = MaxResets

\* error_beep and the dead ends of SetPMMUTables clear the magic; the checksum, which has
\* the magic in its sum, fits no longer.
ClearMagic == magic' = FALSE /\ sum' = FALSE /\ ran' = FALSE

WarmStart ==
  /\ cold' = FALSE
  /\ d5' = memorySchatten
  /\ pc' = "slot0"
  /\ UNCHANGED <<magic, sum, ran>>

ColdStart ==
  /\ cold' = TRUE
  /\ d5' = [s \in Slots |-> 0]
  /\ pc' = "detect"
  /\ ClearMagic

\* A slip: the magic alone makes the start a warm one.
WarmCheckMagicOnly ==
  /\ pc = "reset"
  /\ slot' = 0
  /\ IF magic THEN WarmStart ELSE ColdStart
  /\ UNCHANGED <<bank, memorySchatten, todo, fastMemtest, mapped, passed, budget>>

\* Magic and checksum: take the bank types from RAM, or clear the magic and detect.
WarmCheck ==
  /\ pc = "reset"
  /\ slot' = 0
  /\ IF magic /\ sum THEN WarmStart ELSE ColdStart
  /\ UNCHANGED <<bank, memorySchatten, todo, fastMemtest, mapped, passed, budget>>

\* A slip: the loop counter starts one too high (dbra runs once more than it counts).
DetectOneMore ==
  /\ pc = "detect"
  /\ d5' = [d5 EXCEPT ![slot] = BankType(bank[slot])]
  /\ IF slot < NSlots
       THEN slot' = slot + 1 /\ UNCHANGED pc
       ELSE slot' = 0 /\ pc' = "slot0"
  /\ UNCHANGED <<bank, ramVars, todo, fastMemtest, mapped, history, budget>>

\* Mem_Loop: one bank.
Detect ==
  /\ pc = "detect"
  /\ d5' = [d5 EXCEPT ![slot] = BankType(bank[slot])]
  /\ IF slot + 1 < NSlots
       THEN slot' = slot + 1 /\ UNCHANGED pc
       ELSE slot' = 0 /\ pc' = "slot0"
  /\ UNCHANGED <<bank, ramVars, todo, fastMemtest, mapped, history, budget>>

\* A slip: any memory in slot 0 will do.
Slot0AnyMemory ==
  /\ pc = "slot0"
  /\ IF d5[0] # 0
       THEN pc' = (IF magic THEN "store" ELSE "lowtest") /\ UNCHANGED <<magic, sum, ran>>
       ELSE pc' = "beep" /\ ClearMagic
  /\ UNCHANGED <<bank, memorySchatten, workVars, mapped, cold, passed, budget>>

\* MemChk2: slot 0 must hold at least 16 MB in one piece.
Slot0 ==
  /\ pc = "slot0"
  /\ IF d5[0] \in {3, 4, 5}
       THEN pc' = (IF magic THEN "store" ELSE "lowtest") /\ UNCHANGED <<magic, sum, ran>>
       ELSE pc' = "beep" /\ ClearMagic
  /\ UNCHANGED <<bank, memorySchatten, workVars, mapped, cold, passed, budget>>

\* memtst0c ... memclr: fill everything with its addresses, test and clear the first MB.
LowTest ==
  /\ pc = "lowtest"
  /\ pc' = IF bank[0].low THEN "beep" ELSE "store"
  /\ UNCHANGED <<bank, ramVars, workVars, mapped, history, budget>>

\* The variables at $700 are written: on a warm start the checksum may no longer fit.
Store ==
  /\ pc = "store"
  /\ memorySchatten' = d5
  /\ sum' \in {sum, FALSE}
  /\ pc' = "devices"
  /\ UNCHANGED <<bank, magic, workVars, mapped, history, budget>>

\* A slip: the error loop is entered behind the instruction that clears the magic.
BusErrorKeepsMagic ==
  /\ pc = "devices"
  /\ pc' = "beep"
  /\ ran' = FALSE
  /\ UNCHANGED <<bank, ramVars, workVars, mapped, cold, passed, budget>>

\* bb_buserror: a bus error up to init_vgaprintf, answered by error_beep.
BusErrorBeep ==
  /\ pc = "devices"
  /\ pc' = "beep"
  /\ ClearMagic
  /\ UNCHANGED <<bank, memorySchatten, workVars, mapped, cold, passed, budget>>

\* bb_buserror2: a later bus error is reported on the screen, and the processor loops.
BusErrorHang ==
  /\ pc \in {"devices", "tables"}
  /\ pc' = "hang"
  /\ UNCHANGED <<bank, ramVars, workVars, mapped, history, budget>>

\* The slot whose blocks come next in SetPMMUTables.
EnterSlot(s) ==
  /\ slot' = s
  /\ todo' = FillTab(d5[s])
  /\ pc' = "test"

\* The rest of the device setup, then Init_PMMU with the NVRAM's fast flag; schatten = d5.
EnterPmmu ==
  /\ pc = "devices"
  /\ fastMemtest' \in BOOLEAN
  /\ sum' \in {sum, FALSE}
  /\ EnterSlot(0)
  /\ UNCHANGED <<bank, magic, memorySchatten, d5, mapped, history, budget>>

-----------------------------------------------------------------------------
(* SetPMMUTables: test the blocks of a slot, then map them *)

\* do_memtest on block b: a fast test compares only the first 16 bytes of each MB.
BlockGood(b) ==
  /\ b \notin bank[slot].head
  /\ b \notin bank[slot].body \/ fastMemtest

\* A key, read after a MB.
TestKey ==
  /\ pc = "test" /\ ~magic /\ todo # {}
  /\ keysLeft > 0
  /\ keysLeft' = keysLeft - 1
  /\ \E k \in Key : fastMemtest' = FastAfter(k, fastMemtest)
  /\ UNCHANGED <<pc, bank, ramVars, d5, slot, todo, mapped, history, resetsLeft>>

\* The blocks are taken from the lowest on.
NextBlock(b) == \A c \in todo : b <= c

\* A block is taken as good on a warm start and tested on a cold one. A failure is the end
\* of the machine in slot 0; in the others it hides the bank from later warm starts.
Passes(b) ==
  /\ passed' = passed \cup {<<slot, b>>}
  /\ UNCHANGED <<pc, ramVars, ran>>

Fails ==
  /\ memorySchatten' = [memorySchatten EXCEPT ![slot] = 0]
  /\ IF slot = 0 THEN pc' = "hang" /\ ClearMagic
                 ELSE UNCHANGED <<pc, magic, sum, ran>>
  /\ UNCHANGED passed

TestOutcome(b) ==
  IF magic THEN UNCHANGED <<pc, ramVars, passed, ran>>
  ELSE IF BlockGood(b) THEN Passes(b) ELSE Fails

\* A slip: a block that fails is tested again, for ever.
TestBlockRetries ==
  /\ pc = "test"
  /\ \E b \in todo :
       /\ NextBlock(b)
       /\ todo' = IF magic \/ BlockGood(b) THEN todo \ {b} ELSE todo
       /\ TestOutcome(b)
  /\ UNCHANGED <<bank, d5, slot, fastMemtest, mapped, cold, budget>>

\* One existing block of the slot.
TestBlock ==
  /\ pc = "test"
  /\ \E b \in todo :
       /\ NextBlock(b)
       /\ todo' = todo \ {b}
       /\ TestOutcome(b)
  /\ UNCHANGED <<bank, d5, slot, fastMemtest, mapped, cold, budget>>

\* The slot's blocks are mapped as the local copy of the bank types has them.
MapSlot ==
  /\ pc = "test" /\ todo = {}
  /\ mapped' = mapped \cup ({slot} \X FillTab(d5[slot]))
  /\ IF slot + 1 < NSlots
       THEN EnterSlot(slot + 1)
       ELSE pc' = "tables" /\ UNCHANGED <<slot, todo>>
  /\ UNCHANGED <<bank, ramVars, d5, fastMemtest, history, budget>>

\* The end of Init_PMMU, and update700checksum's first store: the magic.
SetMagic ==
  /\ pc = "tables"
  /\ magic' = TRUE
  /\ sum' = FALSE
  /\ pc' = "sum"
  /\ UNCHANGED <<bank, memorySchatten, workVars, mapped, history, budget>>

\* update700checksum's last store: the checksum that makes the sum MAGIC.
SetChecksum ==
  /\ pc = "sum"
  /\ sum' = TRUE
  /\ ran' = TRUE
  /\ pc' = "run"
  /\ UNCHANGED <<bank, magic, memorySchatten, workVars, mapped, cold, passed, budget>>

\* A running system writes over the variables at $700, the bank types among them.
SystemWrites ==
  /\ pc = "run" /\ sum
  /\ sum' = FALSE
  /\ \E s \in Slots, t \in 0..6 : memorySchatten' = [memorySchatten EXCEPT ![s] = t]
  /\ UNCHANGED <<pc, bank, magic, workVars, mapped, history, budget>>

-----------------------------------------------------------------------------
(* Resets *)

Reset ==
  /\ pc # "reset"
  /\ resetsLeft > 0
  /\ resetsLeft' = resetsLeft - 1
  /\ pc' = "reset"
  /\ mapped' = {} /\ todo' = {}
  /\ UNCHANGED <<bank, ramVars, d5, slot, fastMemtest, history, keysLeft>>

\* RAM is lost, and a SIMM may be exchanged.
PowerCycle ==
  /\ pc # "reset"
  /\ resetsLeft > 0
  /\ resetsLeft' = resetsLeft - 1
  /\ pc' = "reset"
  /\ \E s \in Slots, m \in Simms : bank' = [bank EXCEPT ![s] = m]
  /\ ClearMagic
  /\ memorySchatten' = [s \in Slots |-> 0]
  /\ mapped' = {} /\ todo' = {} /\ passed' = {}
  /\ UNCHANGED <<d5, slot, fastMemtest, cold, keysLeft>>

-----------------------------------------------------------------------------

Machine ==
  \/ WarmCheck \/ Detect \/ Slot0 \/ LowTest \/ Store \/ EnterPmmu
  \/ TestBlock \/ MapSlot \/ SetMagic \/ SetChecksum

Environment == BusErrorBeep \/ BusErrorHang \/ TestKey \/ SystemWrites \/ Reset \/ PowerCycle

Next == Machine \/ Environment

Spec == Init /\ [][Next]_vars

\* The processor never stops executing.
FairSpec == Spec /\ WF_vars(Machine)

-----------------------------------------------------------------------------
(* Properties *)

ControlType ==
  /\ pc \in {"reset", "detect", "slot0", "lowtest", "store", "devices", "test", "tables",
             "sum", "run", "beep", "hang"}
  /\ slot \in Slots
  /\ todo \in SUBSET Blocks

FlagType ==
  /\ magic \in BOOLEAN /\ sum \in BOOLEAN /\ fastMemtest \in BOOLEAN
  /\ cold \in BOOLEAN /\ ran \in BOOLEAN

ConfigType ==
  /\ bank \in [Slots -> Simms]
  /\ memorySchatten \in [Slots -> 0..6]
  /\ d5 \in [Slots -> 0..6]

BlockType == mapped \in SUBSET (Slots \X Blocks) /\ passed \in SUBSET (Slots \X Blocks)
BudgetType == keysLeft \in 0..MaxKeys /\ resetsLeft \in 0..MaxResets

TypeOK == ControlType /\ FlagType /\ ConfigType /\ BlockType /\ BudgetType

\* The patterns tell the SIMMs apart well enough: the blocks that a detected type claims
\* are different memory, whatever address lines the SIMM decodes.
NoMirrors ==
  \A s \in Slots : \A b, c \in FillTab(d5[s]) :
    pc \notin {"reset", "detect"} /\ b # c => Cell(bank[s], b) # Cell(bank[s], c)

\* A warm start, which tests nothing, maps only blocks that have passed the memory test
\* since the power came on: neither a reset in the middle of a test, nor a bank that
\* failed, nor variables overwritten at $700 get untested memory into the page tables.
WarmMapsOnlyTested == ~cold => mapped \subseteq passed

\* Everything that Init_PMMU and the loader put below 16 MB (page tables, TOS, the load
\* buffer) lies in memory that exists in one piece and has been tested since power-on.
LowMemoryIsSound ==
  pc \in {"tables", "sum", "run"} =>
    /\ {0} \X (0..3) \subseteq mapped \cap passed
    /\ ~bank[0].low

\* A warm start follows only a start that went through to the key polling, with no error
\* beep, no failure in slot 0, no cut-short cold start and no power cycle since.
WarmOnlyAfterFullStart == [][pc = "reset" /\ pc' = "slot0" => ran]_vars

\* Every start ends: in a machine that asks for keys, in the beep loop, or in a hang.
StartEnds == <>[](pc \in {"run", "beep", "hang"})

\* pmmu.c:280: "Block ausblenden" (a bank that fails the test is hidden).
FailedBankIsHidden ==
  pc = "run" => \A s \in Slots : memorySchatten[s] = 0 => mapped \cap ({s} \X Blocks) = {}
=============================================================================
