----------------------------- MODULE MemoryProofs -----------------------------
(***************************************************************************)
(* Proofs about Memory, for any number of banks and any SIMMs in them.       *)
(*                                                                         *)
(* The safety of a warm start rests on what magic and checksum together      *)
(* stand for (TrustInv): the bank types in RAM describe tested memory. During *)
(* a cold start the same is built up block by block (TestInv), and a warm     *)
(* start carries it along in the register (WarmInv).                         *)
(***************************************************************************)
EXTENDS Memory, TLAPS

Early == {"reset", "detect", "slot0", "lowtest", "store", "devices"}
Late == {"tables", "sum", "run"}

\* Every block of bank s that configuration cfg claims has passed.
BankTested(cfg, s) == \A b \in FillTab(cfg[s]) : <<s, b>> \in passed
Tested(cfg) == \A s \in Slots : BankTested(cfg, s)

\* What magic and checksum vouch for.
TrustInv ==
  /\ sum => magic
  /\ sum => /\ ran
            /\ Tested(memorySchatten)
            /\ ~bank[0].low

\* The magic is the mark of a warm start until update700checksum writes it.
MagicInv ==
  /\ pc \in {"detect", "slot0", "lowtest", "store", "devices", "test", "tables"} =>
       (cold <=> ~magic)
  /\ pc = "detect" => cold
  /\ pc = "sum" => magic

\* From the checks of slot 0 on, its 16 MB are there and the first MB is sound.
Slot0Inv ==
  pc \in {"lowtest", "store", "devices", "test"} \cup Late =>
    /\ d5[0] \in {3, 4, 5}
    /\ pc # "lowtest" => ~bank[0].low

\* A warm start has tested memory only in its register.
WarmInv ==
  ~cold /\ pc \in {"slot0", "lowtest", "store", "devices", "test"} \cup Late =>
    Tested(d5) /\ ~bank[0].low

\* Banks done by SetPMMUTables, and the blocks done of the bank in hand: passed, or the
\* bank is hidden. Bank 0 is never hidden in a start that goes on.
TestInv ==
  /\ pc = "devices" => memorySchatten = d5
  /\ pc \in {"test", "tables", "sum"} =>
       /\ \A s \in Slots : memorySchatten[s] \in {d5[s], 0}
       /\ memorySchatten[0] = d5[0]
  /\ pc = "test" =>
       /\ todo \subseteq FillTab(d5[slot])
       /\ (slot > 0) => {0} \X FillTab(d5[0]) \subseteq mapped
  /\ (pc = "test" /\ cold) =>
       /\ \A s \in Slots : (s < slot /\ memorySchatten[s] # 0) => BankTested(d5, s)
       /\ (memorySchatten[slot] # 0) =>
            \A b \in FillTab(d5[slot]) \ todo : <<slot, b>> \in passed
  /\ (pc \in {"tables", "sum"} /\ cold) =>
       \A s \in Slots : memorySchatten[s] # 0 => BankTested(d5, s)
  /\ pc \in Late => /\ {0} \X FillTab(d5[0]) \subseteq mapped
                    /\ BankTested(d5, 0)

MappedInv ==
  /\ pc \in Early => mapped = {}
  /\ WarmMapsOnlyTested

IInv == TrustInv /\ MagicInv /\ Slot0Inv /\ WarmInv /\ TestInv /\ MappedInv

-----------------------------------------------------------------------------
(* Type correctness *)

\* What fill_tab says of a bank type: blocks of the bank, none for type 0, and the first
\* 16 MB for the types that MemChk2 accepts in slot 0.
LEMMA FillTabFacts ==
  /\ \A t : FillTab(t) \subseteq Blocks
  /\ FillTab(0) = {}
  /\ \A t \in {3, 4, 5} : 0..3 \subseteq FillTab(t)
BY DEF FillTab, Blocks

\* Of the patterns written, one is the last to reach a bank's start.
LEMMA LastHit ==
  ASSUME NEW hits \in SUBSET (1..6), hits # {}
  PROVE  Max(hits) \in hits /\ \A h \in hits : h <= Max(hits)
<1>1. \E x \in hits : \A y \in hits : x >= y
  <2>1. CASE 6 \in hits
    BY <2>1
  <2>2. CASE 6 \notin hits /\ 5 \in hits
    BY <2>2
  <2>3. CASE 6 \notin hits /\ 5 \notin hits /\ 4 \in hits
    BY <2>3
  <2>4. CASE 6 \notin hits /\ 5 \notin hits /\ 4 \notin hits /\ 3 \in hits
    BY <2>4
  <2>5. CASE hits \cap {3, 4, 5, 6} = {} /\ 2 \in hits
    BY <2>5
  <2>6. CASE hits \cap {2, 3, 4, 5, 6} = {} /\ 1 \in hits
    BY <2>6
  <2>7. 1 \in hits \/ 2 \in hits \/ 3 \in hits \/ 4 \in hits \/ 5 \in hits \/ 6 \in hits
    <3>1. PICK x \in 1..6 : x \in hits
      OBVIOUS
    <3>2. x = 1 \/ x = 2 \/ x = 3 \/ x = 4 \/ x = 5 \/ x = 6
      OBVIOUS
    <3>3. QED
      BY <3>1, <3>2
  <2>8. QED
    BY <2>1, <2>2, <2>3, <2>4, <2>5, <2>6, <2>7
<1>2. QED
  BY <1>1 DEF Max

\* The six patterns.
LEMMA PatternFacts ==
  /\ DOMAIN Patterns = 1..6
  /\ Patterns[1] = <<5, 0>> /\ Patterns[2] = <<4, 4>> /\ Patterns[3] = <<6, 1>>
  /\ Patterns[4] = <<3, 8>> /\ Patterns[5] = <<2, 9>> /\ Patterns[6] = <<1, 2>>
BY DEF Patterns

\* Block 0 starts at the bank's start.
LEMMA StartOfBank == \A simm : Cell(simm, 0) = {}
<1>1. \A l \in {4, 8, 16, 32} : ((0 * 4) \div l) % 2 = 0
  OBVIOUS
<1>2. QED
  BY <1>1 DEF Cell, LinesOf

\* Whatever is fitted, the detection yields a bank type.
LEMMA BankTypeRange == \A simm : BankType(simm) \in 0..6
<1> TAKE simm
<1> DEFINE hits == {i \in DOMAIN Patterns : Cell(simm, Patterns[i][2]) = {}}
<1>1. hits \in SUBSET (1..6) /\ 1 \in hits
  BY PatternFacts, StartOfBank
<1>2. Max(hits) \in 1..6
  BY <1>1, LastHit
<1>3. Patterns[Max(hits)][1] \in 0..6
  BY <1>2, PatternFacts
<1>4. QED
  BY <1>3 DEF BankType

\* The first slot is there, and the next one as long as there is one.
LEMMA SlotFacts ==
  0 \in Slots /\ \A s \in Slots : s + 1 < NSlots => s + 1 \in Slots
BY NSlotsAssumption DEF Slots

\* No step of the firmware, of a key, of a reset or of a change of SIMMs leaves a variable
\* untyped.
THEOREM TypeInductive == TypeOK /\ [Next]_vars => TypeOK'
<1> SUFFICES ASSUME TypeOK, [Next]_vars PROVE TypeOK'
  OBVIOUS
<1> USE DEF TypeOK, ramVars, workVars, history, budget
<1>1. CASE WarmCheck
  <2> USE <1>1 DEF WarmCheck, WarmStart, ColdStart, ClearMagic
  <2>1. ControlType'
    BY SlotFacts DEF ControlType
  <2>2. FlagType'
    BY DEF FlagType
  <2>3. ConfigType'
    BY DEF ConfigType
  <2>4. (BlockType /\ BudgetType)'
    BY DEF BlockType, BudgetType
  <2>5. QED
    BY <2>1, <2>2, <2>3, <2>4
<1>2. CASE Detect
  <2> USE <1>2 DEF Detect
  <2>1. ControlType'
    BY SlotFacts DEF ControlType
  <2>2. ConfigType'
    BY BankTypeRange DEF ConfigType
  <2>3. (FlagType /\ BlockType /\ BudgetType)'
    BY DEF FlagType, BlockType, BudgetType
  <2>4. QED
    BY <2>1, <2>2, <2>3
<1>3. CASE Slot0
  <2> USE <1>3 DEF Slot0, ClearMagic
  <2>1. ControlType' /\ FlagType'
    BY DEF ControlType, FlagType
  <2>2. (ConfigType /\ BlockType /\ BudgetType)'
    BY DEF ConfigType, BlockType, BudgetType
  <2>3. QED
    BY <2>1, <2>2
<1>4. CASE LowTest
  BY <1>4 DEF LowTest, ControlType, FlagType, ConfigType, BlockType, BudgetType
<1>5. CASE Store
  <2> USE <1>5 DEF Store
  <2>1. ControlType' /\ FlagType'
    BY DEF ControlType, FlagType
  <2>2. (ConfigType /\ BlockType /\ BudgetType)'
    BY DEF ConfigType, BlockType, BudgetType
  <2>3. QED
    BY <2>1, <2>2
<1>6. CASE EnterPmmu
  <2> USE <1>6 DEF EnterPmmu, EnterSlot
  <2>1. ControlType'
    BY SlotFacts, FillTabFacts DEF ControlType
  <2>2. FlagType'
    BY DEF FlagType
  <2>3. (ConfigType /\ BlockType /\ BudgetType)'
    BY DEF ConfigType, BlockType, BudgetType
  <2>4. QED
    BY <2>1, <2>2, <2>3
<1>7. CASE TestBlock
  <2>1. PICK b \in todo : todo' = todo \ {b} /\ TestOutcome(b)
    BY <1>7 DEF TestBlock
  <2>2. UNCHANGED <<bank, d5, slot, fastMemtest, mapped, cold, budget>>
    BY <1>7 DEF TestBlock
  <2> USE <2>1, <2>2 DEF TestOutcome, Passes, Fails, ClearMagic
  <2>3. ControlType' /\ FlagType'
    BY DEF ControlType, FlagType
  <2>4. ConfigType'
    BY DEF ConfigType
  <2>5. BlockType'
    BY DEF BlockType, ControlType
  <2>6. BudgetType'
    BY DEF BudgetType
  <2>7. QED
    BY <2>3, <2>4, <2>5, <2>6
<1>8. CASE MapSlot
  <2> USE <1>8 DEF MapSlot, EnterSlot
  <2>1. ControlType'
    BY SlotFacts, FillTabFacts DEF ControlType
  <2>2. BlockType'
    BY FillTabFacts DEF BlockType, ControlType
  <2>3. (FlagType /\ ConfigType /\ BudgetType)'
    BY DEF FlagType, ConfigType, BudgetType
  <2>4. QED
    BY <2>1, <2>2, <2>3
<1>9. CASE SetMagic
  BY <1>9 DEF SetMagic, ControlType, FlagType, ConfigType, BlockType, BudgetType
<1>10. CASE SetChecksum
  BY <1>10 DEF SetChecksum, ControlType, FlagType, ConfigType, BlockType, BudgetType
<1>11. CASE BusErrorBeep
  BY <1>11 DEF BusErrorBeep, ClearMagic, ControlType, FlagType, ConfigType, BlockType,
               BudgetType
<1>12. CASE BusErrorHang
  BY <1>12 DEF BusErrorHang, ControlType, FlagType, ConfigType, BlockType, BudgetType
<1>13. CASE TestKey
  <2> USE <1>13 DEF TestKey
  <2>1. FlagType'
    BY DEF FlagType, FastAfter
  <2>2. BudgetType'
    BY BoundsAssumption DEF BudgetType
  <2>3. (ControlType /\ ConfigType /\ BlockType)'
    BY DEF ControlType, ConfigType, BlockType
  <2>4. QED
    BY <2>1, <2>2, <2>3
<1>14. CASE SystemWrites
  <2> USE <1>14 DEF SystemWrites
  <2>1. ConfigType' /\ FlagType'
    BY DEF ConfigType, FlagType
  <2>2. (ControlType /\ BlockType /\ BudgetType)'
    BY DEF ControlType, BlockType, BudgetType
  <2>3. QED
    BY <2>1, <2>2
<1>15. CASE Reset
  <2> USE <1>15 DEF Reset
  <2>1. BudgetType'
    BY BoundsAssumption DEF BudgetType
  <2>2. (ControlType /\ FlagType /\ ConfigType /\ BlockType)'
    BY DEF ControlType, FlagType, ConfigType, BlockType
  <2>3. QED
    BY <2>1, <2>2
<1>16. CASE PowerCycle
  <2> USE <1>16 DEF PowerCycle, ClearMagic
  <2>1. ConfigType'
    BY DEF ConfigType
  <2>2. BudgetType'
    BY BoundsAssumption DEF BudgetType
  <2>3. (ControlType /\ FlagType /\ BlockType)'
    BY DEF ControlType, FlagType, BlockType
  <2>4. QED
    BY <2>1, <2>2, <2>3
<1>17. CASE UNCHANGED vars
  BY <1>17 DEF vars, ControlType, FlagType, ConfigType, BlockType, BudgetType
<1>18. QED
  BY <1>1, <1>2, <1>3, <1>4, <1>5, <1>6, <1>7, <1>8, <1>9, <1>10, <1>11, <1>12, <1>13,
     <1>14, <1>15, <1>16, <1>17 DEF Next, Machine, Environment

\* The initial states are typed.
LEMMA InitIsTyped == Init => TypeOK
<1> SUFFICES ASSUME Init PROVE TypeOK
  OBVIOUS
<1> USE DEF Init
<1>1. ControlType /\ FlagType
  BY SlotFacts DEF ControlType, FlagType
<1>2. ConfigType
  BY DEF ConfigType
<1>3. BlockType
  BY DEF BlockType
<1>4. BudgetType
  BY BoundsAssumption DEF BudgetType
<1>5. QED
  BY <1>1, <1>2, <1>3, <1>4 DEF TypeOK

\* Every variable keeps its type, for any number of banks and any SIMMs.
THEOREM TypeCorrect == Spec => []TypeOK
BY InitIsTyped, TypeInductive, PTL DEF Spec

-----------------------------------------------------------------------------
(* Safety of the warm start *)

\* Every step keeps what the safety of a warm start rests on.
THEOREM SafetyInductive == TypeOK /\ TypeOK' /\ IInv /\ [Next]_vars => IInv'
<1> SUFFICES ASSUME TypeOK, TypeOK', IInv, [Next]_vars PROVE IInv'
  OBVIOUS
<1> USE DEF IInv, ramVars, workVars, history, budget
<1>1. CASE WarmCheck
  <2> USE <1>1 DEF WarmCheck, WarmStart, ColdStart, ClearMagic
  <2>1. WarmInv'
    <3>1. CASE magic /\ sum
      <4>1. Tested(memorySchatten) /\ ~bank[0].low
        BY <3>1 DEF TrustInv
      <4>2. Tested(d5)'
        BY <3>1, <4>1 DEF Tested, BankTested
      <4>3. QED
        BY <4>1, <4>2 DEF WarmInv
    <3>2. CASE ~(magic /\ sum)
      BY <3>2 DEF WarmInv
    <3>3. QED
      BY <3>1, <3>2
  <2>2. (TrustInv /\ MagicInv /\ Slot0Inv /\ TestInv /\ MappedInv)'
    BY DEF TrustInv, Tested, BankTested, MagicInv, Slot0Inv, Late, TestInv, MappedInv,
       WarmMapsOnlyTested, Early
  <2>3. QED
    BY <2>1, <2>2
<1>2. CASE Detect
  <2> USE <1>2 DEF Detect
  <2>1. WarmInv'
    BY DEF MagicInv, WarmInv
  <2>2. (TrustInv /\ MagicInv /\ Slot0Inv /\ TestInv /\ MappedInv)'
    BY DEF TrustInv, Tested, BankTested, MagicInv, Slot0Inv, Late, TestInv, MappedInv,
       WarmMapsOnlyTested, Early
  <2>3. QED
    BY <2>1, <2>2
<1>3. CASE Slot0
  <2> USE <1>3 DEF Slot0, ClearMagic
  <2>1. Slot0Inv'
    <3>1. CASE d5[0] \in {3, 4, 5} /\ magic
      BY <3>1 DEF Slot0Inv, Late, WarmInv, MagicInv
    <3>2. CASE d5[0] \in {3, 4, 5} /\ ~magic
      BY <3>2 DEF Slot0Inv, Late
    <3>3. CASE d5[0] \notin {3, 4, 5}
      BY <3>3 DEF Slot0Inv, Late
    <3>4. QED
      BY <3>1, <3>2, <3>3
  <2>2. (TrustInv /\ MagicInv /\ WarmInv /\ TestInv /\ MappedInv)'
    BY DEF TrustInv, Tested, BankTested, MagicInv, WarmInv, Late, TestInv, MappedInv,
       WarmMapsOnlyTested, Early
  <2>3. QED
    BY <2>1, <2>2
<1>4. CASE LowTest
  <2> USE <1>4 DEF LowTest
  <2>1. (TrustInv /\ MagicInv /\ Slot0Inv /\ WarmInv /\ TestInv /\ MappedInv)'
    BY DEF TrustInv, Tested, BankTested, MagicInv, Slot0Inv, Late, WarmInv, TestInv,
       MappedInv, WarmMapsOnlyTested, Early
  <2>2. QED
    BY <2>1
<1>5. CASE Store
  <2> USE <1>5 DEF Store
  <2>1. TrustInv'
    <3>1. CASE sum'
      <4>1. sum /\ magic /\ ran /\ ~bank[0].low
        BY <3>1 DEF TrustInv, TypeOK, FlagType
      <4>2. Tested(d5)
        BY <4>1 DEF MagicInv, WarmInv
      <4>3. Tested(memorySchatten)'
        BY <4>2 DEF Tested, BankTested
      <4>4. QED
        BY <4>1, <4>3 DEF TrustInv
    <3>2. CASE ~sum'
      BY <3>2 DEF TrustInv
    <3>3. QED
      BY <3>1, <3>2
  <2>2. (MagicInv /\ Slot0Inv /\ WarmInv /\ TestInv /\ MappedInv)'
    BY DEF MagicInv, Slot0Inv, Late, WarmInv, Tested, BankTested, TestInv, MappedInv,
       WarmMapsOnlyTested, Early
  <2>3. QED
    BY <2>1, <2>2
<1>6. CASE EnterPmmu
  <2> USE <1>6 DEF EnterPmmu, EnterSlot
  <2>1. TrustInv'
    <3>1. CASE sum'
      <4>1. sum
        BY <3>1 DEF TypeOK, FlagType
      <4>2. QED
        BY <4>1 DEF TrustInv, Tested, BankTested
    <3>2. CASE ~sum'
      BY <3>2 DEF TrustInv
    <3>3. QED
      BY <3>1, <3>2
  <2>2. TestInv'
    <3>1. FillTab(d5[0]) \ todo' = {}
      OBVIOUS
    <3>2. memorySchatten = d5 /\ d5[0] # 0
      BY DEF TestInv, Slot0Inv
    <3>3. \A s \in Slots : ~(s < 0)
      BY DEF Slots
    <3>4. QED
      BY <3>1, <3>2, <3>3 DEF TestInv, Late
  <2>3. (MagicInv /\ Slot0Inv /\ WarmInv /\ MappedInv)'
    BY DEF MagicInv, Slot0Inv, Late, WarmInv, Tested, BankTested, MappedInv,
       WarmMapsOnlyTested, Early
  <2>4. QED
    BY <2>1, <2>2, <2>3
<1>7. CASE TestBlock
  <2> USE <1>7 DEF TestBlock, TestOutcome, Passes, Fails, ClearMagic
  <2>1. TestInv'
    <3>1. PICK b \in todo : todo' = todo \ {b} /\ TestOutcome(b)
      OBVIOUS
    <3>2. CASE magic
      BY <3>1, <3>2 DEF TestInv, Late, MagicInv
    <3>3. CASE ~magic /\ BlockGood(b)
      <4>1. passed' = passed \cup {<<slot, b>>} /\ UNCHANGED <<pc, memorySchatten>>
        BY <3>1, <3>3
      <4>2. \A s \in Slots : BankTested(d5, s) => BankTested(d5, s)'
        BY <4>1 DEF BankTested
      <4>3. QED
        BY <3>1, <4>1, <4>2 DEF TestInv, Late
    <3>4. CASE ~magic /\ ~BlockGood(b) /\ slot = 0
      BY <3>1, <3>4 DEF TestInv, Late
    <3>5. CASE ~magic /\ ~BlockGood(b) /\ slot # 0
      <4>1. /\ memorySchatten' = [memorySchatten EXCEPT ![slot] = 0]
            /\ UNCHANGED <<pc, passed>>
        BY <3>1, <3>5
      <4>2. \A s \in Slots : memorySchatten'[s] \in {memorySchatten[s], 0}
        BY <4>1 DEF TypeOK, ConfigType
      <4>3. memorySchatten'[slot] = 0 /\ memorySchatten'[0] = memorySchatten[0]
        BY <3>5, <4>1, SlotFacts DEF TypeOK, ConfigType, ControlType
      <4>4. \A s \in Slots : BankTested(d5, s) => BankTested(d5, s)'
        BY <4>1 DEF BankTested
      <4>5. QED
        BY <3>1, <4>1, <4>2, <4>3, <4>4 DEF TestInv, Late
    <3>6. QED
      BY <3>2, <3>3, <3>4, <3>5
  <2>2. (TrustInv /\ MagicInv /\ Slot0Inv /\ WarmInv /\ MappedInv)'
    BY DEF TrustInv, Tested, BankTested, MagicInv, Slot0Inv, Late, WarmInv, MappedInv,
       WarmMapsOnlyTested, Early
  <2>3. QED
    BY <2>1, <2>2
<1>8. CASE MapSlot
  <2> USE <1>8 DEF MapSlot, EnterSlot
  <2>1. TestInv'
    <3>1. cold => \A s \in Slots : (s <= slot /\ memorySchatten[s] # 0) => BankTested(d5, s)
      BY DEF TestInv, BankTested, TypeOK, ControlType, Slots
    <3>2. \A s \in Slots : BankTested(d5, s) => BankTested(d5, s)'
      BY DEF BankTested
    <3>3. {0} \X FillTab(d5[0]) \subseteq mapped'
      <4>1. CASE slot = 0
        BY <4>1
      <4>2. CASE slot # 0
        BY <4>2 DEF TestInv, TypeOK, ControlType, Slots
      <4>3. QED
        BY <4>1, <4>2
    <3>4. CASE slot + 1 < NSlots
      <4>1. pc' = "test" /\ slot' = slot + 1 /\ todo' = FillTab(d5[slot + 1])
        BY <3>4
      <4>2. \A s \in Slots : s < slot + 1 => s <= slot
        BY DEF Slots, TypeOK, ControlType
      <4>3. FillTab(d5[slot']) \ todo' = {} /\ todo' \subseteq FillTab(d5[slot'])
        BY <4>1
      <4>4. QED
        BY <3>1, <3>2, <3>3, <4>1, <4>2, <4>3 DEF TestInv, Late
    <3>5. CASE ~(slot + 1 < NSlots)
      <4>1. pc' = "tables" /\ \A s \in Slots : s <= slot
        BY <3>5, NSlotsAssumption DEF Slots, TypeOK, ControlType
      <4>2. BankTested(d5, 0)
        <5>1. memorySchatten[0] # 0
          BY DEF TestInv, Slot0Inv
        <5>2. QED
          BY <3>1, <4>1, <5>1, SlotFacts DEF WarmInv, Tested
      <4>3. QED
        BY <3>1, <3>2, <3>3, <4>1, <4>2, SlotFacts DEF TestInv, Late
    <3>6. QED
      BY <3>4, <3>5
  <2>2. MappedInv'
    <3>1. pc' \notin Early
      BY DEF Early
    <3>2. CASE ~cold
      <4>1. {slot} \X FillTab(d5[slot]) \subseteq passed
        BY <3>2 DEF WarmInv, Tested, BankTested, TypeOK, ControlType
      <4>2. QED
        BY <3>1, <3>2, <4>1 DEF MappedInv, WarmMapsOnlyTested
    <3>3. CASE cold
      BY <3>1, <3>3 DEF MappedInv, WarmMapsOnlyTested
    <3>4. QED
      BY <3>2, <3>3
  <2>3. (TrustInv /\ MagicInv /\ Slot0Inv /\ WarmInv)'
    BY DEF TrustInv, Tested, BankTested, MagicInv, Slot0Inv, Late, WarmInv
  <2>4. QED
    BY <2>1, <2>2, <2>3
<1>9. CASE SetMagic
  <2> USE <1>9 DEF SetMagic
  <2>1. (TrustInv /\ MagicInv /\ Slot0Inv /\ WarmInv /\ TestInv /\ MappedInv)'
    BY DEF TrustInv, Tested, BankTested, MagicInv, Slot0Inv, Late, WarmInv, TestInv,
       MappedInv, WarmMapsOnlyTested, Early
  <2>2. QED
    BY <2>1
<1>10. CASE SetChecksum
  <2> USE <1>10 DEF SetChecksum
  <2>1. TrustInv'
    <3>1. \A s \in Slots : BankTested(memorySchatten, s)
      <4> SUFFICES ASSUME NEW s \in Slots PROVE BankTested(memorySchatten, s)
        OBVIOUS
      <4>1. CASE memorySchatten[s] = 0
        BY <4>1, FillTabFacts DEF BankTested
      <4>2. CASE memorySchatten[s] # 0
        <5>1. memorySchatten[s] = d5[s]
          BY <4>2 DEF TestInv
        <5>2. BankTested(d5, s)
          BY <4>2 DEF TestInv, WarmInv, Tested, Late
        <5>3. QED
          BY <5>1, <5>2 DEF BankTested
      <4>3. QED
        BY <4>1, <4>2
    <3>2. Tested(memorySchatten)'
      BY <3>1 DEF Tested, BankTested
    <3>3. magic /\ ~bank[0].low
      BY DEF MagicInv, Slot0Inv, Late
    <3>4. QED
      BY <3>2, <3>3 DEF TrustInv
  <2>2. (MagicInv /\ Slot0Inv /\ WarmInv /\ TestInv /\ MappedInv)'
    BY DEF MagicInv, Slot0Inv, Late, WarmInv, Tested, BankTested, TestInv, MappedInv,
       WarmMapsOnlyTested, Early
  <2>3. QED
    BY <2>1, <2>2
<1>11. CASE BusErrorBeep
  <2> USE <1>11 DEF BusErrorBeep, ClearMagic
  <2>1. (TrustInv /\ MagicInv /\ Slot0Inv /\ WarmInv /\ TestInv /\ MappedInv)'
    BY DEF TrustInv, Tested, BankTested, MagicInv, Slot0Inv, Late, WarmInv, TestInv,
       MappedInv, WarmMapsOnlyTested, Early
  <2>2. QED
    BY <2>1
<1>12. CASE BusErrorHang
  <2> USE <1>12 DEF BusErrorHang
  <2>1. (TrustInv /\ MagicInv /\ Slot0Inv /\ WarmInv /\ TestInv /\ MappedInv)'
    BY DEF TrustInv, Tested, BankTested, MagicInv, Slot0Inv, Late, WarmInv, TestInv,
       MappedInv, WarmMapsOnlyTested, Early
  <2>2. QED
    BY <2>1
<1>13. CASE TestKey
  <2> USE <1>13 DEF TestKey
  <2>1. (TrustInv /\ MagicInv /\ Slot0Inv /\ WarmInv /\ TestInv /\ MappedInv)'
    BY DEF TrustInv, Tested, BankTested, MagicInv, Slot0Inv, Late, WarmInv, TestInv,
       MappedInv, WarmMapsOnlyTested, Early
  <2>2. QED
    BY <2>1
<1>14. CASE SystemWrites
  <2> USE <1>14 DEF SystemWrites
  <2>1. (TrustInv /\ MagicInv /\ Slot0Inv /\ WarmInv /\ TestInv /\ MappedInv)'
    BY DEF TrustInv, Tested, BankTested, MagicInv, Slot0Inv, Late, WarmInv, TestInv,
       MappedInv, WarmMapsOnlyTested, Early
  <2>2. QED
    BY <2>1
<1>15. CASE Reset
  <2> USE <1>15 DEF Reset
  <2>1. (TrustInv /\ MagicInv /\ Slot0Inv /\ WarmInv /\ TestInv /\ MappedInv)'
    BY DEF TrustInv, Tested, BankTested, MagicInv, Slot0Inv, Late, WarmInv, TestInv,
       MappedInv, WarmMapsOnlyTested, Early
  <2>2. QED
    BY <2>1
<1>16. CASE PowerCycle
  <2> USE <1>16 DEF PowerCycle, ClearMagic
  <2>1. (TrustInv /\ MagicInv /\ Slot0Inv /\ WarmInv /\ TestInv /\ MappedInv)'
    BY DEF TrustInv, Tested, BankTested, MagicInv, Slot0Inv, Late, WarmInv, TestInv,
       MappedInv, WarmMapsOnlyTested, Early
  <2>2. QED
    BY <2>1
<1>17. CASE UNCHANGED vars
  BY <1>17 DEF vars, TrustInv, MagicInv, Slot0Inv, WarmInv, TestInv, MappedInv, Tested,
     BankTested, Late, Early, WarmMapsOnlyTested
<1>18. QED
  BY <1>1, <1>2, <1>3, <1>4, <1>5, <1>6, <1>7, <1>8, <1>9, <1>10, <1>11, <1>12, <1>13,
     <1>14, <1>15, <1>16, <1>17 DEF Next, Machine, Environment

-----------------------------------------------------------------------------
(* What the safety proof gives *)

\* The initial states satisfy the invariant: no RAM content is trusted yet.
LEMMA InitIsSafe == Init => IInv
BY SlotFacts
   DEF Init, IInv, TrustInv, MagicInv, Slot0Inv, WarmInv, TestInv, MappedInv,
       WarmMapsOnlyTested, Late, Early

\* The invariant gives the two safety properties.
LEMMA SafetyFollows == TypeOK /\ IInv => WarmMapsOnlyTested /\ LowMemoryIsSound
<1> SUFFICES ASSUME TypeOK, IInv PROVE WarmMapsOnlyTested /\ LowMemoryIsSound
  OBVIOUS
<1>1. WarmMapsOnlyTested
  BY DEF IInv, MappedInv
<1>2. ASSUME pc \in Late PROVE {0} \X (0..3) \subseteq mapped \cap passed /\ ~bank[0].low
  <2>1. 0..3 \subseteq FillTab(d5[0]) /\ ~bank[0].low
    BY <1>2, FillTabFacts DEF IInv, Slot0Inv, Late
  <2>2. {0} \X FillTab(d5[0]) \subseteq mapped /\ BankTested(d5, 0)
    BY <1>2 DEF IInv, TestInv
  <2>3. QED
    BY <2>1, <2>2 DEF BankTested
<1>3. QED
  BY <1>1, <1>2 DEF LowMemoryIsSound, Late

\* In every reachable state, for any number of banks and any SIMMs, whatever is pressed,
\* reset or overwritten: a warm start maps only memory tested since power-on, and what
\* Init_PMMU and the loader use below 16 MB exists and is tested.
THEOREM Safety == Spec => [](WarmMapsOnlyTested /\ LowMemoryIsSound)
<1>1. Init => TypeOK /\ IInv
  BY InitIsTyped, InitIsSafe
<1>2. TypeOK /\ IInv /\ [Next]_vars => TypeOK' /\ IInv'
  BY TypeInductive, SafetyInductive
<1>3. TypeOK /\ IInv => WarmMapsOnlyTested /\ LowMemoryIsSound
  BY SafetyFollows
<1>4. QED
  BY <1>1, <1>2, <1>3, PTL DEF Spec

\* In every reachable state, what Init_PMMU and the loader use below 16 MB is mapped,
\* exists and has passed its test (MemChk2's beeps and halts see to it).
THEOREM LowMemoryStaysSound == Spec => []LowMemoryIsSound
BY Safety, PTL

\* Only a start that went through to the key polling is followed by a warm one.
THEOREM WarmStartIsEarned == Spec => WarmOnlyAfterFullStart
<1>1. Init => TypeOK /\ IInv
  BY InitIsTyped, InitIsSafe
<1>2. TypeOK /\ IInv /\ [Next]_vars => TypeOK' /\ IInv'
  BY TypeInductive, SafetyInductive
<1>3. TypeOK /\ IInv /\ [Next]_vars => [pc = "reset" /\ pc' = "slot0" => ran]_vars
  <2> SUFFICES ASSUME IInv, Next, pc = "reset", pc' = "slot0" PROVE ran
    BY DEF vars
  <2>1. WarmCheck
    BY DEF Next, Machine, Environment, Detect, Slot0, LowTest, Store, EnterPmmu, TestBlock,
           MapSlot, SetMagic, SetChecksum, BusErrorBeep, BusErrorHang, TestKey,
           SystemWrites, Reset, PowerCycle
  <2>2. magic /\ sum
    BY <2>1 DEF WarmCheck, ColdStart
  <2>3. QED
    BY <2>2 DEF IInv, TrustInv
<1>4. QED
  BY <1>1, <1>2, <1>3, PTL DEF Spec, WarmOnlyAfterFullStart

-----------------------------------------------------------------------------
(* Detection *)

\* The bits of a block's number are the address lines it drives.
LEMMA LineBits ==
  \A b \in Blocks : /\ 4 \in LinesOf(b) <=> b % 2 = 1
                    /\ 8 \in LinesOf(b) <=> (b \div 2) % 2 = 1
                    /\ 16 \in LinesOf(b) <=> (b \div 4) % 2 = 1
                    /\ 32 \in LinesOf(b) <=> (b \div 8) % 2 = 1
BY DEF LinesOf, Blocks

\* The blocks the patterns are written to, by the lines they drive.
LEMMA PatternLines ==
  /\ LinesOf(2) = {8} /\ LinesOf(9) = {4, 32} /\ LinesOf(8) = {32}
  /\ LinesOf(1) = {4} /\ LinesOf(4) = {16}
BY DEF LinesOf

\* The lines that a bank of each type certainly decodes: those of the patterns that did
\* not reach its start.
LEMMA TypeLines ==
  \A simm : /\ BankType(simm) \in {2, 3, 4, 5, 6} => 8 \in simm.lines
            /\ BankType(simm) \in {3, 4, 5} => 4 \in simm.lines
            /\ BankType(simm) \in {4, 5, 6} => 32 \in simm.lines
            /\ BankType(simm) = 5 => 16 \in simm.lines
<1> TAKE simm
<1> DEFINE hits == {i \in DOMAIN Patterns : Cell(simm, Patterns[i][2]) = {}}
<1> DEFINE last == Max(hits)
<1>1. hits \in SUBSET (1..6) /\ 1 \in hits
  BY PatternFacts, StartOfBank
<1>2. last \in hits /\ last \in 1..6 /\ \A h \in 1..6 : h > last => h \notin hits
  <2>1. last \in hits /\ \A h \in hits : h <= last
    BY <1>1, LastHit
  <2> HIDE DEF hits, last
  <2>2. last \in 1..6
    BY <1>1, <2>1
  <2>3. QED
    BY <2>1, <2>2
<1>3. BankType(simm) \in {0, Patterns[last][1]}
  BY DEF BankType
<1>4. /\ 6 \notin hits => 8 \in simm.lines
      /\ 5 \notin hits => 4 \in simm.lines \/ 32 \in simm.lines
      /\ 4 \notin hits <=> 32 \in simm.lines
      /\ 3 \notin hits => 4 \in simm.lines
      /\ 2 \notin hits => 16 \in simm.lines
  BY PatternFacts, PatternLines DEF Cell
<1> HIDE DEF hits, last
<1>5. BankType(simm) \in {2, 3, 4, 5, 6} => last < 6
  BY <1>2, <1>3, PatternFacts
<1>6. BankType(simm) = 3 => last = 4
  BY <1>2, <1>3, PatternFacts
<1>7. BankType(simm) \in {4, 5} => last < 3
  BY <1>2, <1>3, PatternFacts
<1>8. BankType(simm) = 6 => last = 3
  BY <1>2, <1>3, PatternFacts
<1>9. BankType(simm) = 5 => last = 1
  BY <1>2, <1>3, PatternFacts
<1>10. QED
  BY <1>2, <1>4, <1>5, <1>6, <1>7, <1>8, <1>9

\* Whatever lines a SIMM decodes, the blocks its detected type claims are different
\* memory.
THEOREM DetectionSeparates ==
  \A simm : \A b, c \in FillTab(BankType(simm)) : b # c => Cell(simm, b) # Cell(simm, c)
<1> TAKE simm
<1> DEFINE t == BankType(simm)
<1> SUFFICES ASSUME NEW b \in FillTab(t), NEW c \in FillTab(t), b # c
             PROVE  Cell(simm, b) # Cell(simm, c)
  OBVIOUS
<1>1. b \in Blocks /\ c \in Blocks /\ t \in 1..6
  BY FillTabFacts, BankTypeRange
<1> HIDE DEF t
<1>2. PICK l \in {4, 8, 16, 32} :
        l \in simm.lines /\ (l \in LinesOf(b) <=> l \notin LinesOf(c))
  <2>1. CASE t = 1
    BY <2>1 DEF FillTab
  <2>2. CASE t = 2
    BY <2>2, <1>1, LineBits, TypeLines DEF FillTab, t
  <2>3. CASE t = 3
    BY <2>3, <1>1, LineBits, TypeLines DEF FillTab, t
  <2>4. CASE t = 4
    BY <2>4, <1>1, LineBits, TypeLines DEF FillTab, t
  <2>5. CASE t = 5
    BY <2>5, <1>1, LineBits, TypeLines DEF FillTab, t, Blocks
  <2>6. CASE t = 6
    BY <2>6, <1>1, LineBits, TypeLines DEF FillTab, t
  <2>7. QED
    BY <2>1, <2>2, <2>3, <2>4, <2>5, <2>6, <1>1
<1>3. QED
  BY <1>2 DEF Cell

\* The bank types in hand, and those that the checksum vouches for, are what the detection
\* finds for the SIMMs that are fitted, or 0.
DetectInv ==
  /\ pc # "reset" => \A s \in Slots : d5[s] \in {BankType(bank[s]), 0}
  /\ sum => \A s \in Slots : memorySchatten[s] \in {BankType(bank[s]), 0}

\* No step mistakes a bank: a SIMM is exchanged only with the power off.
LEMMA DetectInductive ==
  TypeOK /\ TypeOK' /\ IInv /\ DetectInv /\ [Next]_vars => DetectInv'
<1> SUFFICES ASSUME TypeOK, TypeOK', IInv, DetectInv, [Next]_vars PROVE DetectInv'
  OBVIOUS
<1> USE DEF DetectInv, ramVars, workVars, history, budget
<1>1. CASE WarmCheck
  BY <1>1 DEF WarmCheck, WarmStart, ColdStart, ClearMagic
<1>2. CASE Detect
  BY <1>2 DEF Detect, TypeOK, ConfigType, ControlType
<1>3. CASE Slot0 \/ LowTest \/ BusErrorBeep \/ BusErrorHang
  BY <1>3 DEF Slot0, LowTest, BusErrorBeep, BusErrorHang, ClearMagic
<1>4. CASE Store
  BY <1>4 DEF Store, TypeOK, FlagType
<1>5. CASE EnterPmmu
  <2>1. sum' => sum
    BY <1>5 DEF EnterPmmu, TypeOK, FlagType
  <2>2. UNCHANGED <<bank, memorySchatten, d5>> /\ pc # "reset"
    BY <1>5 DEF EnterPmmu
  <2>3. QED
    BY <2>1, <2>2
<1>6. CASE TestBlock
  <2>1. PICK b \in todo : todo' = todo \ {b} /\ TestOutcome(b)
    BY <1>6 DEF TestBlock
  <2>2. UNCHANGED <<bank, d5>> /\ pc = "test"
    BY <1>6 DEF TestBlock
  <2>3. sum' => sum
    BY <2>1 DEF TestOutcome, Passes, Fails, ClearMagic
  <2>4. \A s \in Slots : memorySchatten'[s] \in {memorySchatten[s], 0}
    BY <2>1 DEF TestOutcome, Passes, Fails, TypeOK, ConfigType
  <2>5. QED
    BY <2>2, <2>3, <2>4
<1>7. CASE MapSlot
  BY <1>7 DEF MapSlot, EnterSlot
<1>8. CASE SetMagic \/ TestKey \/ SystemWrites \/ Reset
  BY <1>8 DEF SetMagic, TestKey, SystemWrites, Reset
<1>9. CASE SetChecksum
  <2>1. \A s \in Slots : memorySchatten[s] \in {d5[s], 0}
    BY <1>9 DEF SetChecksum, IInv, TestInv
  <2>2. QED
    BY <1>9, <2>1 DEF SetChecksum
<1>10. CASE PowerCycle
  BY <1>10 DEF PowerCycle, ClearMagic
<1>11. CASE UNCHANGED vars
  BY <1>11 DEF vars
<1>12. QED
  BY <1>1, <1>2, <1>3, <1>4, <1>5, <1>6, <1>7, <1>8, <1>9, <1>10, <1>11
     DEF Next, Machine, Environment

\* In every reachable state, the blocks that the bank types in hand claim are different
\* memory, on warm starts as on cold ones.
THEOREM BanksAreNotMirrored == Spec => []NoMirrors
<1>1. Init => TypeOK /\ IInv /\ DetectInv
  <2>1. Init => DetectInv
    BY DEF Init, DetectInv
  <2>2. QED
    BY <2>1, InitIsTyped, InitIsSafe
<1>2. TypeOK /\ IInv /\ DetectInv /\ [Next]_vars => TypeOK' /\ IInv' /\ DetectInv'
  BY TypeInductive, SafetyInductive, DetectInductive
<1>3. DetectInv => NoMirrors
  BY DetectionSeparates, FillTabFacts DEF DetectInv, NoMirrors
<1>4. QED
  BY <1>1, <1>2, <1>3, PTL DEF Spec
=============================================================================
