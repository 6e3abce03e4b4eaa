----------------------------- MODULE TextScreen ------------------------------
(***************************************************************************)
(* vgaprint.c: what the boot block prints, byte by byte, on the text screen of *)
(* 25 lines of 80 characters with their attributes. The position is kept three  *)
(* times over: as line and column, as the address the next character goes to,   *)
(* and as the position that control character 3 returns to.                  *)
(***************************************************************************)
EXTENDS Integers, TLAPS

Lines == 25
Columns == 80
Offsets == 0..Lines * 160 - 1  \* from SCREENBASE
Byte == 0..255
Control == {1, 2, 3, 8, 10, 13}

VARIABLES
  line, column,
  saved_line, saved_column,
  current,   \* from SCREENBASE
  color,
  state,     \* the next byte is an attribute
  did_init,
  screen

position == <<line, column, current>>
saved == <<saved_line, saved_column>>
vars == <<position, saved, color, state, did_init, screen>>

\* set_current
Address(l, c) == 160 * l + 2 * c

\* The memory has been cleared.
Init ==
  /\ line = 0 /\ column = 0 /\ saved_line = 0 /\ saved_column = 0 /\ current = 0
  /\ color = 0 /\ state = FALSE /\ did_init = FALSE
  /\ screen \in [Offsets -> Byte]

init_vgaprintf ==
  /\ line' = 3 /\ saved_line' = 3 /\ column' = 0 /\ saved_column' = 0
  /\ current' = Address(3, 0)
  /\ color' = 1 /\ state' = FALSE /\ did_init' = TRUE
  /\ UNCHANGED screen

-----------------------------------------------------------------------------
(* vgaputc; before init_vgaprintf it does nothing. *)

Attribute(c) ==
  /\ state
  /\ color' = c /\ state' = FALSE
  /\ UNCHANGED <<position, saved, screen>>

AttributeFollows ==
  /\ ~state
  /\ state' = TRUE
  /\ UNCHANGED <<position, saved, color, screen>>

Move(l, c) ==
  /\ line' = l /\ column' = c /\ current' = Address(l, c)
  /\ UNCHANGED <<saved, color, state, screen>>

Backspace == ~state /\ Move(line, IF column > 0 THEN column - 1 ELSE column)
Return == ~state /\ Move(line, 0)
RestorePosition == ~state /\ Move(saved_line, saved_column)

SavePosition ==
  /\ ~state
  /\ saved_line' = line /\ saved_column' = column
  /\ UNCHANGED <<position, color, state, screen>>

\* scroll_up
Scrolled(scr) ==
  [o \in Offsets |-> IF o < 160 * (Lines - 1) THEN scr[o + 160] ELSE 0]

\* To the next line, the contents of the screen being scr.
Feed(scr) ==
  /\ column' = 0
  /\ line' = IF line + 1 >= Lines THEN Lines - 1 ELSE line + 1
  /\ screen' = IF line + 1 >= Lines THEN Scrolled(scr) ELSE scr
  /\ current' = Address(line', 0)

Newline ==
  /\ ~state
  /\ Feed(screen)
  /\ UNCHANGED <<saved, color, state>>

Character(c) ==
  LET written == [screen EXCEPT ![current] = c, ![current + 1] = color]
  IN /\ ~state /\ c \notin Control
     /\ \/ column + 1 >= Columns /\ Feed(written)
        \/ /\ column + 1 < Columns
           /\ column' = column + 1 /\ current' = current + 2 /\ screen' = written
           /\ UNCHANGED line
     /\ UNCHANGED <<saved, color, state>>

vgaputc ==
  /\ did_init /\ UNCHANGED did_init
  /\ \/ AttributeFollows \/ Backspace \/ Return \/ RestorePosition \/ SavePosition \/ Newline
     \/ \E c \in Byte : Attribute(c) \/ Character(c)

Next == init_vgaprintf \/ vgaputc

Spec == Init /\ [][Next]_vars

-----------------------------------------------------------------------------
(* Both positions are on the screen and the address is the position's, whatever is printed:  *)
(* names and numbers that are read from disks and packages are printed too. So every byte    *)
(* that vgaputc writes, at current and at current + 1, is within the screen.                 *)

CursorOnScreen ==
  /\ line \in 0..Lines - 1 /\ column \in 0..Columns - 1
  /\ saved_line \in 0..Lines - 1 /\ saved_column \in 0..Columns - 1
  /\ current = Address(line, column)

\* An address on the screen is one of a character and its attribute.
LEMMA AddressInOffsets ==
  ASSUME NEW l \in 0..Lines - 1, NEW c \in 0..Columns - 1
  PROVE  Address(l, c) \in Offsets /\ Address(l, c) + 1 \in Offsets
BY DEF Lines, Columns, Address, Offsets

\* Below every place but those of the last line there is another.
LEMMA LineBelow ==
  ASSUME NEW o \in Offsets, o < 160 * (Lines - 1)
  PROVE  o + 160 \in Offsets
BY SMT DEF Offsets, Lines

\* A step of the output keeps the positions on the screen: a line ends in its last column, and
\* the last line is not left.
LEMMA CursorStep == CursorOnScreen /\ [Next]_vars => CursorOnScreen'
<1> SUFFICES ASSUME CursorOnScreen, [Next]_vars PROVE CursorOnScreen'
  OBVIOUS
<1> USE DEF Lines, Columns
<1>1. CASE init_vgaprintf
  BY <1>1 DEF CursorOnScreen, init_vgaprintf, Address
<1>2. CASE AttributeFollows
  BY <1>2 DEF CursorOnScreen, AttributeFollows, position, saved, Address
<1>3. CASE Backspace
  BY <1>3 DEF CursorOnScreen, Backspace, Move, saved, Address
<1>4. CASE Return
  BY <1>4 DEF CursorOnScreen, Return, Move, saved, Address
<1>5. CASE RestorePosition
  BY <1>5 DEF CursorOnScreen, RestorePosition, Move, saved, Address
<1>6. CASE SavePosition
  BY <1>6 DEF CursorOnScreen, SavePosition, position, Address
<1>7. CASE Newline
  BY <1>7 DEF CursorOnScreen, Newline, Feed, saved, Address
<1>8. ASSUME NEW c \in Byte, Attribute(c) PROVE CursorOnScreen'
  BY <1>8 DEF CursorOnScreen, Attribute, position, saved, Address
<1>9. ASSUME NEW c \in Byte, Character(c) PROVE CursorOnScreen'
  <2>1. CASE column + 1 >= Columns
    BY <1>9, <2>1 DEF CursorOnScreen, Character, Feed, saved, Address
  <2>2. CASE column + 1 < Columns
    BY <1>9, <2>2 DEF CursorOnScreen, Character, saved, Address
  <2> QED
    BY <2>1, <2>2 DEF CursorOnScreen
<1>10. CASE UNCHANGED vars
  BY <1>10 DEF CursorOnScreen, vars, position, saved, Address
<1> QED
  BY <1>1, <1>2, <1>3, <1>4, <1>5, <1>6, <1>7, <1>8, <1>9, <1>10 DEF Next, vgaputc

\* Whatever is printed, the cursor stays on the screen.
THEOREM CursorStaysOnScreen == Spec => []CursorOnScreen
<1>1. Init => CursorOnScreen
  BY DEF Init, CursorOnScreen, Lines, Columns, Address
<1> QED
  BY <1>1, CursorStep, PTL DEF Spec

\* A character is written within the screen: its place is on it, and the screen stays one of
\* bytes.
THEOREM WritesOnScreen ==
  Spec => [](current \in Offsets /\ current + 1 \in Offsets /\ screen \in [Offsets -> Byte])
<1> DEFINE Inv == color \in Byte /\ screen \in [Offsets -> Byte]
<1>1. Init => Inv
  BY DEF Init, Byte
<1>2. CursorOnScreen => current \in Offsets /\ current + 1 \in Offsets
  BY AddressInOffsets DEF CursorOnScreen
<1>3. Inv /\ [Next]_vars => Inv'
  <2> SUFFICES ASSUME Inv, [Next]_vars PROVE Inv'
    OBVIOUS
  <2>1. ASSUME NEW scr \in [Offsets -> Byte], Feed(scr) PROVE screen' \in [Offsets -> Byte]
    <3>1. Scrolled(scr) \in [Offsets -> Byte]
      <4>1. ASSUME NEW o \in Offsets, o < 160 * (Lines - 1) PROVE o + 160 \in Offsets
        BY <4>1, LineBelow
      <4>2. ASSUME NEW o \in Offsets
            PROVE  (IF o < 160 * (Lines - 1) THEN scr[o + 160] ELSE 0) \in Byte
        <5>1. 0 \in Byte
          BY DEF Byte
        <5> QED
          BY <5>1, <4>1
      <4> QED
        BY <4>2 DEF Scrolled
    <3> QED
      BY <2>1, <3>1 DEF Feed
  <2>2. ASSUME NEW c \in Byte
        PROVE  [screen EXCEPT ![current] = c, ![current + 1] = color] \in [Offsets -> Byte]
    BY <2>2
  <2>3. ASSUME NEW c \in Byte, Character(c) PROVE Inv'
    <3> DEFINE written == [screen EXCEPT ![current] = c, ![current + 1] = color]
    <3>1. CASE Feed(written)
      BY <2>3, <3>1, <2>1, <2>2 DEF Character
    <3>2. CASE screen' = written
      BY <2>3, <3>2, <2>2 DEF Character
    <3> QED
      BY <2>3, <3>1, <3>2 DEF Character
  <2>4. ASSUME NEW c \in Byte, Attribute(c) PROVE Inv'
    BY <2>4 DEF Attribute
  <2>5. CASE init_vgaprintf
    BY <2>5 DEF init_vgaprintf, Byte
  <2>6. CASE AttributeFollows \/ SavePosition
    BY <2>6 DEF AttributeFollows, SavePosition
  <2>7. CASE Backspace \/ Return \/ RestorePosition
    BY <2>7 DEF Backspace, Return, RestorePosition, Move
  <2>8. CASE Newline
    BY <2>8, <2>1 DEF Newline
  <2>9. CASE UNCHANGED vars
    BY <2>9 DEF vars
  <2> QED
    BY <2>3, <2>4, <2>5, <2>6, <2>7, <2>8, <2>9 DEF Next, vgaputc
<1> QED
  BY <1>1, <1>2, <1>3, CursorStaysOnScreen, PTL DEF Spec
=============================================================================
