---------------------------- MODULE BootFlowProofs ----------------------------
(***************************************************************************)
(* Proofs about BootFlow, for every choice of images, floppies and bounds.  *)
(* The inductive invariant says what each control location may rely on: the *)
(* device states load_tos and CopyRomTOS leave behind, which sequence the    *)
(* control is in, and what the load buffer and the TOS area hold.            *)
(***************************************************************************)
EXTENDS BootFlow, TLAPS

Loading == {"bpb", "dir", "file", "lt_end"}
Unpacking == {"unpack", "check", "run_tos"}
Live == {"tos", "crashed"}

\* The motor runs only inside load_tos (which a division by zero may end), the window is
\* at the ROM only inside CopyRomTOS
\* (or a reset has cut that short), and the monitor's jumper decision lasts.
DeviceInv ==
  /\ motor => pc \in Loading \cup {"trap"}
  /\ pciBase = "rom" => pc \in {"rom_copy", "startup"}
  /\ pc \in {"poll", "pause", "no_pause"} => ~jumperDisk

\* Which of the two sequences the control is in.
ViaInv ==
  /\ pc = "rom_copy" => via = "rom"
  /\ pc \in Loading \cup {"disktos"} => via = "disk"
  /\ pc \in Unpacking \cup Live => via \in {"rom", "disk"}
  /\ pc \in {"startup", "memtest"} => via = "none"

\* At the end of load_tos without an error the buffer holds the whole file, read now.
LoadedInv ==
  pc = "lt_end" /\ currErr = 0 /\ ~disk.empty =>
    buf.whole /\ buf.fresh /\ buf.src = "disk"

LiveInv == pc \in Live => target.os /\ mmuOn

\* After a cold start nothing in the TOS area looks like a system but what was unpacked
\* since.
FreshInv == cold /\ target.os /\ pc # "startup" => target.fresh

\* While keys are polled there is a poll left.
PollInv == pc = "poll" => polls \in 1..NPolls

TypeInv == TypeOK /\ PollInv

IInv ==
  /\ DeviceInv
  /\ ViaInv
  /\ LoadedInv
  /\ UnpacksWhatWasFetched
  /\ LiveInv
  /\ FreshInv

-----------------------------------------------------------------------------
(* Type correctness *)

\* The low word of the CACR is not zero, which is all the flow depends on.
LEMMA CacrLowIsPositive == CacrLow \in Nat \ {0}
BY DEF CacrLow

\* What a cold start and a power cycle leave in the load buffer and the TOS area.
LEMMA JunkIsTyped == JunkBuffer \in Buffer /\ JunkTarget \in Target
BY DEF JunkBuffer, JunkTarget, Buffer, Target, Junk, Image

\* The buffer after a fetch from the disk or from the ROM.
LEMMA FetchedIsTyped ==
  ASSUME EnvType
  PROVE  /\ \A all \in BOOLEAN : DiskBuffer(all) \in Buffer
         /\ [image |-> rom, whole |-> TRUE, src |-> "rom", fresh |-> TRUE] \in Buffer
BY ImagesAssumption DEF EnvType, DiskBuffer, Buffer, Disk

\* unpack_tos returns 0 or 1 and leaves a TOS area, whatever it is given.
LEMMA UnpackIsTyped ==
  ASSUME RamType, NEW flag \in Nat
  PROVE  /\ UnpackResult(buf, flag) \in {0, 1}
         /\ UnpackTarget(buf, flag) \in Target
<1>1. UnpackResult(buf, flag) \in {0, 1}
  BY DEF UnpackResult
<1>2. buf.image \in Image /\ buf.whole \in BOOLEAN
  BY DEF RamType, Buffer
<1>3. UnpackTarget(buf, flag) \in Target
  BY <1>2 DEF UnpackTarget, RamType, Target, Image
<1>4. QED
  BY <1>1, <1>3

\* One key, wherever it is read.
LEMMA TakeKeyIsTyped ==
  ASSUME TypeOK, NEW k \in Key, TakeKey(k)
  PROVE  TypeOK' /\ UNCHANGED <<pc, polls>>
<1> USE DEF TypeOK, TakeKey
<1>1. UserType'
  BY DEF UserType, DiskLoadAfter, PauseAfter, FastAfter
<1>2. BudgetType'
  BY BoundsAssumption DEF BudgetType
<1>3. (ControlType /\ DeviceType /\ EnvType /\ RamType /\ StartType)'
  BY DEF ControlType, DeviceType, EnvType, RamType, StartType, hwVars, envVars, ramVars,
         startVars
<1>4. QED
  BY <1>1, <1>2, <1>3

\* No step of the boot loop, of its user or of the system leaves a variable untyped.
THEOREM TypeInductive == TypeInv /\ [Next]_vars => TypeInv'
<1> SUFFICES ASSUME TypeInv, [Next]_vars PROVE TypeInv'
  OBVIOUS
<1> USE DEF TypeInv, PollInv, TypeOK, userVars, hwVars, envVars, ramVars, startVars,
            budget
<1>1. CASE Startup
  <2> USE <1>1 DEF Startup
  <2>1. ControlType' /\ PollInv'
    BY DEF ControlType
  <2>2. UserType'
    BY DEF UserType
  <2>3. DeviceType'
    BY DEF DeviceType
  <2>4. RamType'
    BY JunkIsTyped DEF RamType
  <2>5. StartType'
    BY DEF StartType
  <2>6. (EnvType /\ BudgetType)'
    BY DEF EnvType, BudgetType
  <2>7. QED
    BY <2>1, <2>2, <2>3, <2>4, <2>5, <2>6
<1>2. CASE MemtestDone
  <2> USE <1>2 DEF MemtestDone
  <2>1. ControlType' /\ PollInv'
    BY DEF ControlType
  <2>2. StartType'
    BY DEF StartType
  <2>3. (UserType /\ DeviceType /\ EnvType /\ RamType /\ BudgetType)'
    BY DEF UserType, DeviceType, EnvType, RamType, BudgetType
  <2>4. QED
    BY <2>1, <2>2, <2>3
<1>3. CASE NoMon
  <2> USE <1>3 DEF NoMon
  <2>1. ControlType' /\ PollInv'
    BY NPollsAssumption DEF ControlType
  <2>2. (UserType /\ DeviceType /\ EnvType /\ RamType /\ StartType /\ BudgetType)'
    BY DEF UserType, DeviceType, EnvType, RamType, StartType, BudgetType
  <2>3. QED
    BY <2>1, <2>2
<1>4. CASE PollIdle
  <2> USE <1>4 DEF PollIdle
  <2>1. ControlType' /\ PollInv'
    BY NPollsAssumption DEF ControlType
  <2>2. (UserType /\ DeviceType /\ EnvType /\ RamType /\ StartType /\ BudgetType)'
    BY DEF UserType, DeviceType, EnvType, RamType, StartType, BudgetType
  <2>3. QED
    BY <2>1, <2>2
<1>5. CASE PauseEnd
  <2> USE <1>5 DEF PauseEnd
  <2>1. ControlType' /\ PollInv'
    BY DEF ControlType
  <2>2. (UserType /\ DeviceType /\ EnvType /\ RamType /\ StartType /\ BudgetType)'
    BY DEF UserType, DeviceType, EnvType, RamType, StartType, BudgetType
  <2>3. QED
    BY <2>1, <2>2
<1>6. CASE Choose
  <2> USE <1>6 DEF Choose
  <2>1. ControlType' /\ PollInv'
    BY DEF ControlType
  <2>2. DeviceType'
    BY DEF DeviceType
  <2>3. (UserType /\ EnvType /\ RamType /\ StartType /\ BudgetType)'
    BY DEF UserType, EnvType, RamType, StartType, BudgetType
  <2>4. QED
    BY <2>1, <2>2, <2>3
<1>7. CASE RomCopied
  <2> USE <1>7 DEF RomCopied
  <2>1. ControlType' /\ PollInv'
    BY CacrLowIsPositive DEF ControlType
  <2>2. DeviceType'
    BY DEF DeviceType
  <2>3. RamType'
    BY FetchedIsTyped DEF RamType
  <2>4. (UserType /\ EnvType /\ StartType /\ BudgetType)'
    BY DEF UserType, EnvType, StartType, BudgetType
  <2>5. QED
    BY <2>1, <2>2, <2>3, <2>4
<1>8. CASE FlopStart
  <2> USE <1>8 DEF FlopStart
  <2>1. ControlType' /\ PollInv'
    BY DEF ControlType
  <2>2. DeviceType'
    BY DEF DeviceType
  <2>3. (UserType /\ EnvType /\ RamType /\ StartType /\ BudgetType)'
    BY DEF UserType, EnvType, RamType, StartType, BudgetType
  <2>4. QED
    BY <2>1, <2>2, <2>3
<1>9. CASE GetBpb
  <2> USE <1>9 DEF GetBpb
  <2>1. ControlType' /\ PollInv'
    BY DEF ControlType, FloppyOutcome
  <2>2. BudgetType'
    BY BoundsAssumption DEF BudgetType, FloppyOutcome
  <2>3. (UserType /\ DeviceType /\ EnvType /\ RamType /\ StartType)'
    BY DEF UserType, DeviceType, EnvType, RamType, StartType
  <2>4. QED
    BY <2>1, <2>2, <2>3
<1>10. CASE Fsfirst
  <2> USE <1>10 DEF Fsfirst
  <2>1. ControlType' /\ PollInv'
    BY DEF ControlType, FloppyOutcome
  <2>2. BudgetType'
    BY BoundsAssumption DEF BudgetType, FloppyOutcome
  <2>3. (UserType /\ DeviceType /\ EnvType /\ RamType /\ StartType)'
    BY DEF UserType, DeviceType, EnvType, RamType, StartType
  <2>4. QED
    BY <2>1, <2>2, <2>3
<1>11. CASE ReadFile
  <2> USE <1>11 DEF ReadFile
  <2>1. ControlType' /\ PollInv'
    BY DEF ControlType, FloppyOutcome
  <2>2. RamType'
    BY FetchedIsTyped DEF RamType
  <2>3. BudgetType'
    <3>1. /\ errorsLeft' = errorsLeft \/ (errorsLeft > 0 /\ errorsLeft' = errorsLeft - 1)
          /\ keysLeft' = keysLeft /\ resetsLeft' = resetsLeft
      BY DEF FloppyOutcome
    <3>2. QED
      BY <3>1, BoundsAssumption DEF BudgetType
  <2>4. (UserType /\ DeviceType /\ EnvType /\ StartType)'
    BY DEF UserType, DeviceType, EnvType, StartType
  <2>5. QED
    BY <2>1, <2>2, <2>3, <2>4
<1>12. CASE LoadEnd
  <2> USE <1>12 DEF LoadEnd
  <2>1. ControlType' /\ PollInv'
    BY CacrLowIsPositive DEF ControlType
  <2>2. DeviceType'
    BY DEF DeviceType
  <2>3. (UserType /\ EnvType /\ RamType /\ StartType /\ BudgetType)'
    BY DEF UserType, EnvType, RamType, StartType, BudgetType
  <2>4. QED
    BY <2>1, <2>2, <2>3
<1>13. CASE Unpack
  <2> USE <1>13 DEF Unpack
  <2>1. ControlType' /\ PollInv'
    BY CacrLowIsPositive, UnpackIsTyped DEF ControlType, DcacheD0
  <2>2. RamType'
    BY CacrLowIsPositive, UnpackIsTyped DEF RamType, DcacheD0
  <2>3. (UserType /\ DeviceType /\ EnvType /\ StartType /\ BudgetType)'
    BY DEF UserType, DeviceType, EnvType, StartType, BudgetType
  <2>4. QED
    BY <2>1, <2>2, <2>3
<1>14. CASE CheckUnpacked
  <2> USE <1>14 DEF CheckUnpacked
  <2>1. ControlType' /\ PollInv'
    BY DEF ControlType
  <2>2. (UserType /\ DeviceType /\ EnvType /\ RamType /\ StartType /\ BudgetType)'
    BY DEF UserType, DeviceType, EnvType, RamType, StartType, BudgetType
  <2>3. QED
    BY <2>1, <2>2
<1>15. CASE RunTos
  <2> USE <1>15 DEF RunTos
  <2>1. ControlType' /\ PollInv'
    BY DEF ControlType
  <2>2. UserType'
    BY DEF UserType
  <2>3. DeviceType'
    BY DEF DeviceType
  <2>4. (EnvType /\ RamType /\ StartType /\ BudgetType)'
    BY DEF EnvType, RamType, StartType, BudgetType
  <2>5. QED
    BY <2>1, <2>2, <2>3, <2>4
<1>16. CASE MemtestKey
  BY <1>16, TakeKeyIsTyped DEF MemtestKey
<1>17. CASE PollKey
  BY <1>17, TakeKeyIsTyped DEF PollKey
<1>18. CASE PauseKey
  BY <1>18, TakeKeyIsTyped DEF PauseKey
<1>19. CASE SwapDisk
  <2> USE <1>19 DEF SwapDisk
  <2>1. EnvType'
    BY DEF EnvType
  <2>2. BudgetType'
    BY BoundsAssumption DEF BudgetType
  <2>3. (ControlType /\ UserType /\ DeviceType /\ RamType /\ StartType)' /\ PollInv'
    BY DEF ControlType, UserType, DeviceType, RamType, StartType
  <2>4. QED
    BY <2>1, <2>2, <2>3
<1>20. CASE Reset
  <2> USE <1>20 DEF Reset
  <2>1. ControlType' /\ PollInv'
    BY DEF ControlType
  <2>2. DeviceType'
    BY DEF DeviceType
  <2>3. RamType'
    BY DEF RamType, Buffer, Target
  <2>4. StartType'
    BY DEF StartType
  <2>5. BudgetType'
    BY BoundsAssumption DEF BudgetType
  <2>6. (UserType /\ EnvType)'
    BY DEF UserType, EnvType
  <2>7. QED
    BY <2>1, <2>2, <2>3, <2>4, <2>5, <2>6
<1>21. CASE PowerCycle
  <2> USE <1>21 DEF PowerCycle
  <2>1. ControlType' /\ PollInv'
    BY DEF ControlType
  <2>2. DeviceType'
    BY DEF DeviceType
  <2>3. EnvType'
    BY DEF EnvType
  <2>4. RamType'
    BY JunkIsTyped DEF RamType
  <2>5. StartType'
    BY DEF StartType
  <2>6. BudgetType'
    BY BoundsAssumption DEF BudgetType
  <2>7. UserType'
    BY DEF UserType
  <2>8. QED
    BY <2>1, <2>2, <2>3, <2>4, <2>5, <2>6, <2>7
<1>22. CASE TosUsesMemory
  <2> USE <1>22 DEF TosUsesMemory
  <2>1. RamType'
    BY JunkIsTyped DEF RamType
  <2>2. (ControlType /\ UserType /\ DeviceType /\ EnvType /\ StartType /\ BudgetType)'
     /\ PollInv'
    BY DEF ControlType, UserType, DeviceType, EnvType, StartType, BudgetType
  <2>3. QED
    BY <2>1, <2>2
<1>23. CASE TosBusError
  <2> USE <1>23 DEF TosBusError
  <2>1. ControlType' /\ PollInv'
    BY DEF ControlType
  <2>2. (UserType /\ DeviceType /\ EnvType /\ RamType /\ StartType /\ BudgetType)'
    BY DEF UserType, DeviceType, EnvType, RamType, StartType, BudgetType
  <2>3. QED
    BY <2>1, <2>2
<1>24. CASE UNCHANGED vars
  BY <1>24 DEF vars, ControlType, UserType, DeviceType, EnvType, RamType, StartType,
     BudgetType
<1>25. QED
  BY <1>1, <1>2, <1>3, <1>4, <1>5, <1>6, <1>7, <1>8, <1>9, <1>10, <1>11, <1>12, <1>13,
     <1>14, <1>15, <1>16, <1>17, <1>18, <1>19, <1>20, <1>21, <1>22, <1>23, <1>24
  DEF Next, Machine, User, System

\* Every variable keeps its type, for any number of polls, images, floppies and inputs.
THEOREM TypeCorrect == Spec => []TypeOK
<1>1. Init => TypeInv
  <2> SUFFICES ASSUME Init PROVE TypeInv
    OBVIOUS
  <2> USE DEF Init
  <2>1. ControlType /\ PollInv
    BY CacrLowIsPositive, NPollsAssumption DEF ControlType, PollInv
  <2>2. UserType /\ DeviceType /\ EnvType /\ StartType
    BY DEF UserType, DeviceType, EnvType, StartType
  <2>3. RamType
    BY JunkIsTyped DEF RamType
  <2>4. BudgetType
    BY BoundsAssumption DEF BudgetType
  <2>5. QED
    BY <2>1, <2>2, <2>3, <2>4 DEF TypeInv, TypeOK
<1>2. QED
  BY <1>1, TypeInductive, PTL DEF Spec, TypeInv
-----------------------------------------------------------------------------
(* Safety *)

\* The invariant is inductive: every label of startup.s and tos.s finds what it relies on.
THEOREM SafetyInductive == TypeOK /\ IInv /\ [Next]_vars => IInv'
<1> SUFFICES ASSUME TypeOK, IInv, [Next]_vars PROVE IInv'
  OBVIOUS
<1>0. buf \in Buffer /\ target \in Target /\ motor \in BOOLEAN
  BY DEF TypeOK, RamType, DeviceType
<1> USE DEF IInv, DeviceInv, ViaInv, LoadedInv, UnpacksWhatWasFetched, LiveInv, FreshInv,
            Loading, Unpacking, Live, hwVars, envVars, ramVars, startVars
<1>1. CASE Startup
  BY <1>0, <1>1 DEF Startup, JunkTarget
<1>2. CASE MemtestDone
  BY <1>0, <1>2 DEF MemtestDone
<1>3. CASE NoMon
  BY <1>0, <1>3 DEF NoMon
<1>4. CASE PollIdle
  BY <1>0, <1>4 DEF PollIdle
<1>5. CASE PauseEnd
  BY <1>0, <1>5 DEF PauseEnd
<1>6. CASE Choose
  BY <1>0, <1>6 DEF Choose
<1>7. CASE RomCopied
  BY <1>0, <1>7 DEF RomCopied
<1>8. CASE FlopStart
  BY <1>0, <1>8 DEF FlopStart
<1>9. CASE GetBpb
  BY <1>0, <1>9 DEF GetBpb, FloppyOutcome
<1>10. CASE Fsfirst
  BY <1>0, <1>10 DEF Fsfirst, FloppyOutcome
<1>11. CASE ReadFile
  BY <1>0, <1>11 DEF ReadFile, FloppyOutcome, DiskBuffer
<1>12. CASE LoadEnd
  BY <1>0, <1>12 DEF LoadEnd
<1>13. CASE Unpack
  BY <1>0, <1>13 DEF Unpack, UnpackTarget
<1>14. CASE CheckUnpacked
  BY <1>0, <1>14 DEF CheckUnpacked
<1>15. CASE RunTos
  BY <1>0, <1>15 DEF RunTos
<1>16. CASE MemtestKey
  BY <1>0, <1>16 DEF MemtestKey, TakeKey
<1>17. CASE PollKey
  BY <1>0, <1>17 DEF PollKey, TakeKey
<1>18. CASE PauseKey
  BY <1>0, <1>18 DEF PauseKey, TakeKey
<1>19. CASE SwapDisk
  BY <1>0, <1>19 DEF SwapDisk
<1>20. CASE Reset
  BY <1>0, <1>20 DEF Reset
<1>21. CASE PowerCycle
  BY <1>0, <1>21 DEF PowerCycle, JunkTarget
<1>22. CASE TosUsesMemory
  BY <1>0, <1>22 DEF TosUsesMemory
<1>23. CASE TosBusError
  BY <1>0, <1>23 DEF TosBusError
<1>24. CASE UNCHANGED vars
  BY <1>24 DEF vars
<1>25. QED
  BY <1>1, <1>2, <1>3, <1>4, <1>5, <1>6, <1>7, <1>8, <1>9, <1>10, <1>11, <1>12, <1>13,
     <1>14, <1>15, <1>16, <1>17, <1>18, <1>19, <1>20, <1>21, <1>22, <1>23, <1>24
  DEF Next, Machine, User, System

\* What every label relies on holds in every reachable state.
THEOREM Safety == Spec => [](TypeOK /\ IInv)
<1>1. Init => IInv
  BY DEF Init, IInv, DeviceInv, ViaInv, LoadedInv, UnpacksWhatWasFetched, LiveInv, FreshInv,
         Loading, Unpacking, Live
<1>2. QED
  BY <1>1, SafetyInductive, TypeCorrect, PTL DEF Spec
\* A system is started with its memory protected, the motor off and the PCI window back at
\* the I/O base, on every path through load_tos, CopyRomTOS and the resets.
THEOREM SystemStartsInOrder == Spec => []StartsInOrder
<1>1. TypeOK /\ IInv => StartsInOrder
  BY DEF TypeOK, DeviceType, IInv, DeviceInv, LiveInv, StartsInOrder, Live, Loading
<1>2. QED
  BY <1>1, Safety, PTL

\* unpack_tos never works on a file that was read in part, or on an earlier attempt's image.
THEOREM UnpacksOnlyWhatWasFetched == Spec => []UnpacksWhatWasFetched
<1>1. IInv => UnpacksWhatWasFetched
  BY DEF IInv
<1>2. QED
  BY <1>1, Safety, PTL

\* After a cold start only a system unpacked since then is started.
THEOREM ColdStartRunsOnlyFresh == Spec => []ColdStartRunsFresh
<1>1. IInv => ColdStartRunsFresh
  BY DEF IInv, LiveInv, FreshInv, ColdStartRunsFresh, Live
<1>2. QED
  BY <1>1, Safety, PTL

-----------------------------------------------------------------------------
(* The boot loop implements BootPromise *)

\* Each step of the boot loop is a step of the promise, or one it does not see.
THEOREM StepKeepsPromise ==
  TypeOK /\ TypeOK' /\ IInv /\ IInv' /\ [Next]_vars => [Promise!Next]_Promise!vars
<1> SUFFICES ASSUME TypeOK, TypeOK', IInv, IInv', [Next]_vars
             PROVE  [Promise!Next]_Promise!vars
  OBVIOUS
<1>0. /\ ViaInv /\ ViaInv' /\ (pc \in {"poll", "pause", "no_pause"} => ~jumperDisk)
      /\ diskLoad \in BOOLEAN /\ diskLoad' \in BOOLEAN
      /\ jumperDisk \in BOOLEAN /\ jumperDisk' \in BOOLEAN
  BY DEF IInv, DeviceInv, TypeOK, UserType, EnvType
<1> USE DEF Phase, ViaInv, Loading, Unpacking, Live, hwVars, envVars, ramVars, startVars,
            userVars
<1>1. ASSUME Startup PROVE Promise!Listen
  BY <1>0, <1>1 DEF Startup, Promise!Listen
<1>2. ASSUME MemtestDone PROVE Promise!Listen
  BY <1>0, <1>2 DEF MemtestDone, Promise!Listen
<1>3. ASSUME NoMon PROVE Promise!Fetch \/ UNCHANGED Promise!vars
  BY <1>0, <1>3 DEF NoMon, Promise!Fetch, Promise!vars
<1>4. ASSUME PollIdle PROVE UNCHANGED Promise!vars
  BY <1>0, <1>4 DEF PollIdle, Promise!vars
<1>5. ASSUME PauseEnd PROVE UNCHANGED Promise!vars
  BY <1>0, <1>5 DEF PauseEnd, Promise!vars
<1>6. ASSUME Choose PROVE Promise!Fetch
  BY <1>0, <1>6 DEF Choose, Promise!Fetch
<1>7. ASSUME RomCopied PROVE Promise!Fetched
  BY <1>0, <1>7 DEF RomCopied, Promise!Fetched
<1>8. ASSUME FlopStart PROVE UNCHANGED Promise!vars
  BY <1>0, <1>8 DEF FlopStart, Promise!vars
<1>9. ASSUME GetBpb PROVE UNCHANGED Promise!vars
  BY <1>0, <1>9 DEF GetBpb, FloppyOutcome, Promise!vars
<1>10. ASSUME Fsfirst PROVE UNCHANGED Promise!vars
  BY <1>0, <1>10 DEF Fsfirst, FloppyOutcome, Promise!vars
<1>11. ASSUME ReadFile PROVE UNCHANGED Promise!vars
  BY <1>0, <1>11 DEF ReadFile, FloppyOutcome, Promise!vars
<1>12. ASSUME LoadEnd PROVE Promise!FetchFails \/ Promise!Fetched
  BY <1>0, <1>12 DEF LoadEnd, Promise!FetchFails, Promise!Fetched
<1>13. ASSUME Unpack PROVE UNCHANGED Promise!vars
  BY <1>0, <1>13 DEF Unpack, Promise!vars
<1>14. ASSUME CheckUnpacked PROVE Promise!FallBack \/ Promise!Refuse \/ UNCHANGED
   Promise!vars
  BY <1>0, <1>14 DEF CheckUnpacked, Promise!FallBack, Promise!Refuse, Promise!vars
<1>15. ASSUME RunTos PROVE Promise!Start \/ Promise!Refuse
  BY <1>0, <1>15 DEF RunTos, Promise!Start, Promise!Refuse
<1>16. ASSUME MemtestKey PROVE Promise!Listen
  BY <1>0, <1>16 DEF MemtestKey, TakeKey, Promise!Listen
<1>17. ASSUME PollKey PROVE Promise!Listen
  BY <1>0, <1>17 DEF PollKey, TakeKey, Promise!Listen
<1>18. ASSUME PauseKey PROVE Promise!Listen
  BY <1>0, <1>18 DEF PauseKey, TakeKey, Promise!Listen
<1>19. ASSUME SwapDisk PROVE UNCHANGED Promise!vars
  BY <1>0, <1>19 DEF SwapDisk, Promise!vars
<1>20. ASSUME Reset PROVE Promise!Restart
  BY <1>0, <1>20 DEF Reset, Promise!Restart
<1>21. ASSUME PowerCycle PROVE Promise!Restart
  BY <1>0, <1>21 DEF PowerCycle, Promise!Restart
<1>22. ASSUME TosUsesMemory PROVE UNCHANGED Promise!vars
  BY <1>0, <1>22 DEF TosUsesMemory, Promise!vars
<1>23. ASSUME TosBusError PROVE UNCHANGED Promise!vars
  BY <1>0, <1>23 DEF TosBusError, Promise!vars
<1>24. ASSUME UNCHANGED vars PROVE UNCHANGED Promise!vars
  BY <1>24 DEF vars, Promise!vars
<1>25. QED
  BY <1>1, <1>2, <1>3, <1>4, <1>5, <1>6, <1>7, <1>8, <1>9, <1>10, <1>11, <1>12, <1>13,
     <1>14, <1>15, <1>16, <1>17, <1>18, <1>19, <1>20, <1>21, <1>22, <1>23, <1>24
  DEF Next, Machine, User, System, Promise!Next

\* The boot loop implements what it promises its user, for any images and floppies.
THEOREM Refinement == Spec => KeepsPromise
<1>1. Init => Promise!Init
  BY DEF Init, Promise!Init, Phase
<1>2. QED
  BY <1>1, StepKeepsPromise, Safety, PTL DEF Spec, Promise!Spec, KeepsPromise
=============================================================================
