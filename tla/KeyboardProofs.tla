--------------------------- MODULE KeyboardProofs ---------------------------
(***************************************************************************)
(* Proofs about Keyboard, for any set of keys and any bounds.                *)
(*                                                                         *)
(* Keyboard_OK is set by the acknowledgement of kb_c_Enable alone, so it has  *)
(* to be shown that this byte is the answer to that command and no other:    *)
(* at every point of the initialisation at most one message is on its way    *)
(* between the driver, the controller and the keyboard (StartInv). Once       *)
(* GetKey is polled, the bytes on their way are the scan codes of the keys    *)
(* typed, from a place on that follows from the keys returned (PollInv).      *)
(***************************************************************************)
EXTENDS Keyboard, TLAPS, SequenceTheorems

Byte == 0..255
KeyCodes == (1..255) \ {96, 128, 224}
ControllerCommands == {SelfTest, KbdTest, WriteMode, KbdDisable, KbdEnable}

Kbcs == [obf : Byte \cup {Nothing},
         ibf : {<<>>} \cup ({"command"} \X ControllerCommands) \cup ({"data"} \X Byte),
         answer : Byte \cup {Nothing}, enabled : BOOLEAN, modeNext : BOOLEAN,
         sound : BOOLEAN]
Kbds == [out : Seq(Byte), inbox : Byte \cup {Nothing}, param : BOOLEAN,
         scanning : BOOLEAN, test : BOOLEAN]

Starting == {"drain", "selftest", "selftested", "kbdtest", "kbdtested", "writemode", "mode",
             "off1", "reset", "between", "off2", "wait2", "disable", "setrate", "rate0",
             "enable", "enabled", "db_send", "db_recv"}

----------------------------------------------------------------------------
(* The types                                                                *)

DriverType ==
  /\ at \in Starting \cup Polling
  /\ ret \in {"between", "setrate", "rate0", "enable", "enabled"}
  /\ last_byte \in Byte /\ d1 \in Byte /\ z \in BOOLEAN /\ Keyboard_OK \in {0, 1}
  /\ resend_cnt \in 0..3 /\ (at \in {"db_send", "db_recv"} => resend_cnt > 0)
  /\ got \in Seq(1..255)

DeviceType == kbc \in Kbcs /\ kbd \in Kbds

HistoryType ==
  /\ typed \in Seq(KeyCodes) /\ calm \in BOOLEAN
  /\ budget \in [keys : Nat, resends : Nat, lost : Nat, late : Nat]

\* The byte whose presence GetKey has seen stays until GetKey reads it.
SeenInv == at \in {"gk_off", "gk_read", "gk_off2", "gk_read2"} => kbc.obf # Nothing

TypeInv == DriverType /\ DeviceType /\ HistoryType /\ SeenInv

----------------------------------------------------------------------------
(* The initialisation: what is on its way, as long as no answer was late     *)

KbdEmpty == kbd.out = <<>> /\ kbd.inbox = Nothing /\ ~kbd.test
NoAnswer == kbc.answer = Nothing /\ kbc.obf = Nothing

\* Nothing is on its way.
Idle == KbdEmpty /\ NoAnswer /\ kbc.ibf = <<>> /\ ~kbc.modeNext

\* At most the interface is still to be switched off.
SwitchingOff == /\ KbdEmpty /\ NoAnswer /\ ~kbc.modeNext
                /\ kbc.ibf \in {<<>>, <<"command", KbdDisable>>}

\* The controller tests, and its result is on its way.
Testing ==
  /\ KbdEmpty /\ ~kbc.modeNext
  /\ \/ kbc.ibf \in {<<"command", SelfTest>>, <<"command", KbdTest>>} /\ NoAnswer
     \/ kbc.ibf = <<>> /\ kbc.answer # Nothing /\ kbc.obf = Nothing
     \/ kbc.ibf = <<>> /\ kbc.answer = Nothing /\ kbc.obf # Nothing

\* The keyboard tests itself behind a reset, or the power-on reset code is on its way.
Restarting ==
  /\ kbc.ibf = <<>> /\ kbc.answer = Nothing /\ ~kbc.modeNext /\ kbd.inbox = Nothing
  /\ \/ kbd.test /\ kbd.out = <<>> /\ kbc.obf = Nothing /\ kbc.enabled
     \/ ~kbd.test /\ kbd.out = <<POR>> /\ kbc.obf = Nothing /\ kbc.enabled
     \/ ~kbd.test /\ kbd.out = <<>> /\ kbc.obf = POR

\* A byte for the keyboard is on its way.
Asking ==
  /\ NoAnswer /\ kbd.out = <<>> /\ ~kbd.test /\ ~kbc.modeNext
  /\ \/ kbc.ibf = <<"data", last_byte>> /\ kbd.inbox = Nothing
     \/ kbc.ibf = <<>> /\ kbd.inbox = last_byte /\ kbc.enabled

\* The keyboard restarts when this is its answer.
Restarts(a) == a = Ack /\ last_byte = Reset

\* Its answer is on its way, behind which the self-test of the keyboard may end.
Answering ==
  /\ kbc.ibf = <<>> /\ kbc.answer = Nothing /\ ~kbc.modeNext /\ kbd.inbox = Nothing
  /\ kbc.enabled
  /\ \E a \in {Ack, Resend} :
       /\ \/ kbc.obf = Nothing /\ kbd.out = <<a>> /\ (kbd.test <=> Restarts(a))
          \/ kbc.obf = a /\ kbd.out = <<>> /\ (kbd.test <=> Restarts(a))
          \/ kbc.obf = Nothing /\ kbd.out = <<a, POR>> /\ ~kbd.test /\ Restarts(a)
          \/ kbc.obf = a /\ kbd.out = <<POR>> /\ ~kbd.test /\ Restarts(a)
       /\ a = Ack /\ last_byte = Enable => kbd.scanning

\* The bytes for the keyboard, each with what follows it.
SendingOne == \E b \in Bytes : last_byte = b[2] /\ ret = b[3]

StartInv ==
  /\ at \in Starting => Keyboard_OK = 0 /\ got = <<>>
  /\ at \in {"db_send", "db_recv"} => SendingOne
  /\ at \in Starting /\ calm => typed = <<>>
  /\ at = "drain" /\ calm =>
       /\ kbc.ibf = <<>> /\ kbc.answer = Nothing /\ ~kbc.modeNext
       /\ kbd.inbox = Nothing /\ ~kbd.test /\ (kbc.enabled \/ kbd.out = <<>>)
  /\ at \in {"selftest", "kbdtest", "writemode", "off2", "disable", "setrate", "rate0",
             "enable", "enabled"} /\ calm => Idle
  /\ at \in {"selftested", "kbdtested"} /\ calm => Testing
  /\ at = "mode" /\ calm =>
       KbdEmpty /\ NoAnswer /\ (IF kbc.modeNext THEN kbc.ibf = <<>>
                                                ELSE kbc.ibf = <<"command", WriteMode>>)
  /\ at = "off1" /\ calm =>
       KbdEmpty /\ NoAnswer /\ kbc.ibf = (IF kbc.modeNext THEN <<"data", Mode>> ELSE <<>>)
  /\ at \in {"reset", "wait2", "db_send"} /\ calm => SwitchingOff
  /\ at = "db_recv" /\ calm => Idle \/ Asking \/ Answering
  /\ at = "between" /\ calm => Idle \/ Restarting
  /\ at = "enabled" /\ calm /\ z => kbd.scanning

----------------------------------------------------------------------------
(* GetKey: which of the scan codes is the next                               *)

\* The scan codes of the key that the driver calls v.
Width(v) == IF v < 128 THEN 2 ELSE 4
ScanCode(v, r) == IF v < 128 THEN (IF r = 1 THEN v ELSE v + 128)
                  ELSE IF r \in {1, 3} THEN Extended
                  ELSE IF r = 2 THEN v - 128 ELSE v

\* The bytes flight are the scan codes of the keys keys from the r-th of the n-th key on:
\* byte j is the pos[j]-th scan code of the key key[j].
Labels(flight, keys, key, pos) ==
  /\ \A j \in 1..Len(flight) :
       /\ key[j] \in 1..Len(keys) /\ pos[j] \in 1..Width(keys[key[j]])
       /\ flight[j] = ScanCode(keys[key[j]], pos[j])
       /\ IF pos[j] = Width(keys[key[j]])
          THEN key[j + 1] = key[j] + 1 /\ pos[j + 1] = 1
          ELSE key[j + 1] = key[j] /\ pos[j + 1] = pos[j] + 1
  /\ key[Len(flight) + 1] = Len(keys) + 1 /\ pos[Len(flight) + 1] = 1
Follows(flight, keys, n, r) ==
  \E key \in [1..Len(flight) + 1 -> Nat], pos \in [1..Len(flight) + 1 -> 1..4] :
    key[1] = n /\ pos[1] = r /\ Labels(flight, keys, key, pos)

\* The bytes on their way to the driver.
Flight == (IF kbc.obf = Nothing THEN <<>> ELSE <<kbc.obf>>) \o kbd.out

\* n keys are returned. Between two keys, the rest of the last of them may still come: its
\* break code, or the second half of it behind another E0.
Fresh(n) == \/ Follows(Flight, typed, n + 1, 1)
            \/ n > 0 /\ typed[n] < 128 /\ Follows(Flight, typed, n, 2)
            \/ n > 0 /\ typed[n] >= 128 /\ Follows(Flight, typed, n, 3)

\* Behind an E0: the key or its break code.
Torn(n) == \/ /\ n < Len(typed) /\ typed[n + 1] >= 128
              /\ Follows(Flight, typed, n + 1, 2)
           \/ n > 0 /\ typed[n] >= 128 /\ Follows(Flight, typed, n, 4)

KeysInv == Len(got) <= Len(typed) /\ \A i \in 1..Len(got) : got[i] = typed[i]

LinkInv == /\ kbd.scanning /\ ~kbd.test /\ kbd.inbox = Nothing
           /\ kbc.answer = Nothing /\ ~kbc.modeNext
           /\ kbc.ibf \in {<<>>, <<"command", KbdDisable>>, <<"command", KbdEnable>>}

CursorInv ==
  /\ at \in {"poll", "gk_off", "gk_read"} => Fresh(Len(got))
  /\ at \in {"gk_on", "gk_wait", "gk_off2", "gk_read2"} => Torn(Len(got))
  /\ at \in {"gk_beenden", "return"} =>
       IF d1 = 0 THEN Fresh(Len(got))
       ELSE /\ Len(got) < Len(typed) /\ typed[Len(got) + 1] = d1
            /\ Fresh(Len(got) + 1)

PollInv == Keyboard_OK = 1 /\ calm => LinkInv /\ KeysInv /\ CursorInv

Inv == TypeInv /\ StartInv /\ PollInv

----------------------------------------------------------------------------
(* Lemmas about the sequence of the scan codes                              *)

LEMMA WidthType == \A v : Width(v) \in {2, 4}
BY DEF Width

\* When no key was typed, nothing is on its way.
LEMMA NothingFollows == Follows(<<>>, <<>>, 1, 1)
<1> DEFINE key == [j \in 1..1 |-> 1]
           pos == [j \in 1..1 |-> 1]
<1>1. Len(<<>>) = 0
  OBVIOUS
<1>2. key \in [1..Len(<<>>) + 1 -> Nat] /\ pos \in [1..Len(<<>>) + 1 -> 1..4]
  BY <1>1
<1>3. key[1] = 1 /\ pos[1] = 1
  OBVIOUS
<1>4. Labels(<<>>, <<>>, key, pos)
  BY <1>1, <1>3 DEF Labels
<1> QED
  BY <1>2, <1>3, <1>4 DEF Follows

\* The first byte on its way is the scan code it stands for, and the rest follows from the
\* next on.
LEMMA NextFollows ==
  ASSUME NEW F \in Seq(Byte), NEW keys \in Seq(KeyCodes), NEW n, NEW r, F # <<>>,
         Follows(F, keys, n, r)
  PROVE  /\ n \in 1..Len(keys) /\ r \in 1..Width(keys[n])
         /\ F[1] = ScanCode(keys[n], r)
         /\ IF r = Width(keys[n]) THEN Follows(Tail(F), keys, n + 1, 1)
                                  ELSE Follows(Tail(F), keys, n, r + 1)
<1>1. PICK key \in [1..Len(F) + 1 -> Nat], pos \in [1..Len(F) + 1 -> 1..4] :
           key[1] = n /\ pos[1] = r /\ Labels(F, keys, key, pos)
  BY DEF Follows
<1>2. Len(F) \in Nat /\ Len(F) > 0 /\ Len(keys) \in Nat
  OBVIOUS
<1>3. 1 \in 1..Len(F)
  BY <1>2
<1>4. /\ key[1] \in 1..Len(keys) /\ pos[1] \in 1..Width(keys[key[1]])
      /\ F[1] = ScanCode(keys[key[1]], pos[1])
      /\ IF pos[1] = Width(keys[key[1]])
         THEN key[2] = key[1] + 1 /\ pos[2] = 1
         ELSE key[2] = key[1] /\ pos[2] = pos[1] + 1
  BY <1>1, <1>3 DEF Labels
<1> DEFINE G == Tail(F)
           k2 == [j \in 1..Len(G) + 1 |-> key[j + 1]]
           p2 == [j \in 1..Len(G) + 1 |-> pos[j + 1]]
<1>5. Len(G) = Len(F) - 1 /\ \A j \in 1..Len(G) : G[j] = F[j + 1]
  BY HeadTailProperties
<1>6. k2 \in [1..Len(G) + 1 -> Nat] /\ p2 \in [1..Len(G) + 1 -> 1..4]
  BY <1>2, <1>5
<1>7. Labels(G, keys, k2, p2)
  <2> SUFFICES ASSUME TRUE
               PROVE /\ \A j \in 1..Len(G) :
                         /\ k2[j] \in 1..Len(keys) /\ p2[j] \in 1..Width(keys[k2[j]])
                         /\ G[j] = ScanCode(keys[k2[j]], p2[j])
                         /\ IF p2[j] = Width(keys[k2[j]])
                            THEN k2[j + 1] = k2[j] + 1 /\ p2[j + 1] = 1
                            ELSE k2[j + 1] = k2[j] /\ p2[j + 1] = p2[j] + 1
                     /\ k2[Len(G) + 1] = Len(keys) + 1 /\ p2[Len(G) + 1] = 1
    BY DEF Labels
  <2>1. ASSUME NEW j \in 1..Len(G) + 1 PROVE k2[j] = key[j + 1] /\ p2[j] = pos[j + 1]
    OBVIOUS
  <2>2. k2[Len(G) + 1] = Len(keys) + 1 /\ p2[Len(G) + 1] = 1
    BY <1>1, <1>2, <1>5, <2>1 DEF Labels
  <2>3. ASSUME NEW j \in 1..Len(G)
        PROVE  /\ k2[j] \in 1..Len(keys) /\ p2[j] \in 1..Width(keys[k2[j]])
               /\ G[j] = ScanCode(keys[k2[j]], p2[j])
               /\ IF p2[j] = Width(keys[k2[j]])
                  THEN k2[j + 1] = k2[j] + 1 /\ p2[j + 1] = 1
                  ELSE k2[j + 1] = k2[j] /\ p2[j + 1] = p2[j] + 1
    <3>1. j + 1 \in 1..Len(F) /\ (j + 1) + 1 = j + 2
      BY <1>2, <1>5
    <3>2. k2[j] = key[j + 1] /\ p2[j] = pos[j + 1] /\ G[j] = F[j + 1]
      BY <1>2, <1>5, <2>1
    <3>3. k2[j + 1] = key[j + 2] /\ p2[j + 1] = pos[j + 2]
      BY <1>2, <1>5, <2>1
    <3>4. /\ key[j + 1] \in 1..Len(keys) /\ pos[j + 1] \in 1..Width(keys[key[j + 1]])
          /\ F[j + 1] = ScanCode(keys[key[j + 1]], pos[j + 1])
          /\ IF pos[j + 1] = Width(keys[key[j + 1]])
             THEN key[j + 2] = key[j + 1] + 1 /\ pos[j + 2] = 1
             ELSE key[j + 2] = key[j + 1] /\ pos[j + 2] = pos[j + 1] + 1
      BY <1>1, <3>1 DEF Labels
    <3> QED
      BY ONLY <3>2, <3>3, <3>4
  <2> QED
    BY ONLY <2>2, <2>3
<1>8. k2[1] = key[2] /\ p2[1] = pos[2]
  BY <1>2, <1>5
<1>9. Follows(G, keys, key[2], pos[2])
  BY ONLY <1>6, <1>7, <1>8 DEF Follows
<1> QED
  BY ONLY <1>1, <1>4, <1>9

\* A key that is typed comes behind all the others.
LEMMA TypedFollows ==
  ASSUME NEW F \in Seq(Byte), NEW keys \in Seq(KeyCodes), NEW n, NEW r, NEW v \in KeyCodes,
         NEW C \in Seq(Byte), Len(C) = Width(v),
         \A j \in 1..Width(v) : C[j] = ScanCode(v, j),
         Follows(F, keys, n, r)
  PROVE  Follows(F \o C, Append(keys, v), n, r)
<1>1. PICK key \in [1..Len(F) + 1 -> Nat], pos \in [1..Len(F) + 1 -> 1..4] :
           key[1] = n /\ pos[1] = r /\ Labels(F, keys, key, pos)
  BY DEF Follows
<1>2. PICK w : w = Width(v)
  OBVIOUS
<1>3. w \in {2, 4}
  BY <1>2, WidthType
<1>4. PICK l : l = Len(F)
  OBVIOUS
<1>5. l \in Nat /\ Len(keys) \in Nat
  BY <1>4
<1> DEFINE G == F \o C
           more == Append(keys, v)
           k2 == [j \in 1..Len(G) + 1 |-> IF j <= l THEN key[j]
                                          ELSE IF j <= l + w THEN Len(keys) + 1
                                          ELSE Len(keys) + 2]
           p2 == [j \in 1..Len(G) + 1 |-> IF j <= l THEN pos[j]
                                          ELSE IF j <= l + w THEN j - l ELSE 1]
<1>6. Len(G) = l + w /\ (\A j \in 1..l : G[j] = F[j]) /\ \A j \in 1..w : G[l + j] = C[j]
  <2>1. Len(G) = l + w
    BY <1>2, <1>4, ConcatProperties
  <2>2. \A j \in 1..l : G[j] = F[j]
    BY <1>4
  <2>3. \A j \in 1..w : G[l + j] = C[j]
    <3> SUFFICES ASSUME NEW j \in 1..w PROVE G[l + j] = C[j]
      OBVIOUS
    <3>1. l + j \in 1..Len(F) + Len(C) /\ l + j > Len(F) /\ (l + j) - Len(F) = j
      BY <1>2, <1>3, <1>4, <1>5
    <3> QED
      BY <3>1
  <2> QED
    BY <2>1, <2>2, <2>3
<1>7. /\ Len(more) = Len(keys) + 1 /\ more[Len(keys) + 1] = v
      /\ \A i \in 1..Len(keys) : more[i] = keys[i]
  BY AppendProperties
<1>8. k2 \in [1..Len(G) + 1 -> Nat] /\ p2 \in [1..Len(G) + 1 -> 1..4]
  <2> SUFFICES ASSUME NEW j \in 1..Len(G) + 1
               PROVE /\ (IF j <= l THEN key[j] ELSE IF j <= l + w THEN Len(keys) + 1
                         ELSE Len(keys) + 2) \in Nat
                     /\ (IF j <= l THEN pos[j] ELSE IF j <= l + w THEN j - l ELSE 1) \in 1..4
    OBVIOUS
  <2>1. j \in Nat /\ j >= 1
    BY <1>3, <1>5, <1>6
  <2>2. j <= l => key[j] \in Nat /\ pos[j] \in 1..4
    BY <1>4, <1>5, <2>1
  <2> QED
    BY ONLY <1>3, <1>5, <2>1, <2>2
<1>9. ASSUME NEW j \in 1..Len(G) + 1
      PROVE  /\ k2[j] = (IF j <= l THEN key[j] ELSE IF j <= l + w THEN Len(keys) + 1
                         ELSE Len(keys) + 2)
             /\ p2[j] = (IF j <= l THEN pos[j] ELSE IF j <= l + w THEN j - l ELSE 1)
  OBVIOUS
<1>10. key[l + 1] = Len(keys) + 1 /\ pos[l + 1] = 1
  BY <1>1, <1>4 DEF Labels
<1>11. Labels(G, more, k2, p2)
  <2> HIDE DEF k2, p2, G, more
  <2>1. k2[Len(G) + 1] = Len(more) + 1 /\ p2[Len(G) + 1] = 1
    BY <1>3, <1>5, <1>6, <1>7, <1>9
  <2>2. ASSUME NEW j \in 1..Len(G)
        PROVE  /\ k2[j] \in 1..Len(more) /\ p2[j] \in 1..Width(more[k2[j]])
               /\ G[j] = ScanCode(more[k2[j]], p2[j])
               /\ IF p2[j] = Width(more[k2[j]])
                  THEN k2[j + 1] = k2[j] + 1 /\ p2[j + 1] = 1
                  ELSE k2[j + 1] = k2[j] /\ p2[j + 1] = p2[j] + 1
    <3>1. j \in Nat /\ j >= 1 /\ j <= l + w
      BY <1>3, <1>5, <1>6
    <3>2. j \in 1..Len(G) + 1 /\ j + 1 \in 1..Len(G) + 1
      BY <1>3, <1>5, <1>6
    <3>3. CASE j <= l
      <4>1. /\ key[j] \in 1..Len(keys) /\ pos[j] \in 1..Width(keys[key[j]])
            /\ F[j] = ScanCode(keys[key[j]], pos[j])
            /\ IF pos[j] = Width(keys[key[j]])
               THEN key[j + 1] = key[j] + 1 /\ pos[j + 1] = 1
               ELSE key[j + 1] = key[j] /\ pos[j + 1] = pos[j] + 1
        BY <1>1, <1>4, <1>5, <3>1, <3>3 DEF Labels
      <4>2. k2[j] = key[j] /\ p2[j] = pos[j] /\ G[j] = F[j]
        BY <1>5, <1>6, <1>9, <3>1, <3>2, <3>3
      <4>3. k2[j + 1] = key[j + 1] /\ p2[j + 1] = pos[j + 1]
        <5>1. CASE j + 1 <= l
          BY <1>9, <3>2, <5>1
        <5>2. CASE j = l
          BY <1>3, <1>5, <1>9, <1>10, <3>2, <5>2
        <5> QED
          BY <1>5, <3>1, <3>3, <5>1, <5>2
      <4>4. more[key[j]] = keys[key[j]] /\ key[j] \in 1..Len(more)
        BY <1>5, <1>7, <4>1
      <4> QED
        BY ONLY <4>1, <4>2, <4>3, <4>4
    <3>4. CASE j > l
      <4>1. k2[j] = Len(keys) + 1 /\ p2[j] = j - l
        BY ONLY <1>5, <1>9, <3>1, <3>2, <3>4
      <4>2. more[k2[j]] = v /\ k2[j] \in 1..Len(more)
        BY ONLY <1>5, <1>7, <4>1
      <4>3. j - l \in 1..w /\ l + (j - l) = j
        BY ONLY <1>3, <1>5, <3>1, <3>4
      <4>4. G[j] = ScanCode(v, j - l)
        <5>1. G[l + (j - l)] = C[j - l]
          BY ONLY <1>6, <4>3
        <5>2. C[j - l] = ScanCode(v, j - l)
          BY <1>2, <4>3
        <5> QED
          BY ONLY <4>3, <5>1, <5>2
      <4>5. PICK i : i = j + 1
        OBVIOUS
      <4>6. /\ k2[i] = (IF i <= l THEN key[i] ELSE IF i <= l + w THEN Len(keys) + 1
                        ELSE Len(keys) + 2)
            /\ p2[i] = (IF i <= l THEN pos[i] ELSE IF i <= l + w THEN i - l ELSE 1)
        BY ONLY <1>9, <3>2, <4>5
      <4>7. CASE j - l = w
        <5>1. k2[j + 1] = Len(keys) + 2 /\ p2[j + 1] = 1
          BY ONLY <1>3, <1>5, <3>1, <4>5, <4>6, <4>7
        <5> QED
          BY ONLY <1>2, <1>5, <4>1, <4>2, <4>3, <4>4, <4>7, <5>1
      <4>8. CASE j - l # w
        <5>1. k2[j + 1] = Len(keys) + 1 /\ p2[j + 1] = (j - l) + 1
          BY ONLY <1>3, <1>5, <3>1, <3>4, <4>3, <4>5, <4>6, <4>8
        <5> QED
          BY ONLY <1>2, <1>5, <4>1, <4>2, <4>3, <4>4, <4>8, <5>1
      <4> QED
        BY ONLY <4>7, <4>8
    <3> QED
      BY ONLY <1>5, <3>1, <3>3, <3>4
  <2> QED
    BY ONLY <2>1, <2>2 DEF Labels
<1>12. k2[1] = key[1] /\ p2[1] = pos[1]
  <2>1. CASE l = 0
    BY <1>3, <1>6, <1>9, <1>10, <2>1
  <2>2. CASE l > 0
    BY <1>3, <1>5, <1>6, <1>9, <2>2
  <2> QED
    BY <1>5, <2>1, <2>2
<1>13. Follows(G, more, key[1], pos[1])
  BY ONLY <1>8, <1>11, <1>12 DEF Follows
<1> QED
  BY ONLY <1>1, <1>13

----------------------------------------------------------------------------
(* The steps of the devices                                                 *)

\* A record of a device stays one of its type when a field is given a value of its type.
LEMMA KbcField ==
  ASSUME NEW k \in Kbcs
  PROVE  /\ \A v \in Byte \cup {Nothing} : /\ [k EXCEPT !.obf = v] \in Kbcs
                                          /\ [k EXCEPT !.answer = v] \in Kbcs
         /\ \A v \in {<<>>} \cup ({"command"} \X ControllerCommands) \cup ({"data"} \X Byte) :
              [k EXCEPT !.ibf = v] \in Kbcs
         /\ \A v \in BOOLEAN : /\ [k EXCEPT !.enabled = v] \in Kbcs
                              /\ [k EXCEPT !.modeNext = v] \in Kbcs
BY DEF Kbcs

LEMMA KbdField ==
  ASSUME NEW k \in Kbds
  PROVE  /\ \A v \in Seq(Byte) : [k EXCEPT !.out = v] \in Kbds
         /\ \A v \in Byte \cup {Nothing} : [k EXCEPT !.inbox = v] \in Kbds
         /\ \A v \in BOOLEAN : /\ [k EXCEPT !.param = v] \in Kbds
                              /\ [k EXCEPT !.scanning = v] \in Kbds
                              /\ [k EXCEPT !.test = v] \in Kbds
BY DEF Kbds

LEMMA KbdFields ==
  ASSUME NEW k \in Kbds, NEW o \in Seq(Byte)
  PROVE  /\ [k EXCEPT !.out = o, !.scanning = FALSE, !.test = TRUE] \in Kbds
         /\ [k EXCEPT !.out = o, !.scanning = FALSE] \in Kbds
         /\ [k EXCEPT !.out = o, !.scanning = TRUE] \in Kbds
         /\ [k EXCEPT !.out = o, !.param = TRUE] \in Kbds
         /\ [k EXCEPT !.inbox = Nothing, !.param = FALSE] \in Kbds
         /\ [k EXCEPT !.inbox = Nothing, !.out = o] \in Kbds
         /\ [k EXCEPT !.test = FALSE, !.out = o, !.scanning = TRUE] \in Kbds
BY DEF Kbds

LEMMA FieldValues ==
  /\ TRUE \in BOOLEAN /\ FALSE \in BOOLEAN
OBVIOUS

\* What the controller does with what was written to it.
LEMMA Taken ==
  ASSUME TypeInv, KbcTakes
  PROVE  /\ kbc' \in Kbcs /\ kbc'.obf = kbc.obf /\ kbc'.ibf = <<>> /\ kbc.ibf # <<>>
         /\ \/ /\ kbc.ibf \in {<<"command", SelfTest>>, <<"command", KbdTest>>}
               /\ kbc'.answer # Nothing /\ kbc'.enabled = kbc.enabled
               /\ kbc'.modeNext = kbc.modeNext /\ kbd' = kbd
            \/ /\ kbc.ibf = <<"command", WriteMode>> /\ kbc'.modeNext
               /\ kbc'.answer = kbc.answer /\ kbc'.enabled = kbc.enabled /\ kbd' = kbd
            \/ /\ kbc.ibf \in {<<"command", KbdDisable>>, <<"command", KbdEnable>>}
               /\ kbc'.answer = kbc.answer /\ kbc'.modeNext = kbc.modeNext /\ kbd' = kbd
            \/ /\ \E b \in Byte : kbc.ibf = <<"data", b>>
               /\ kbc.modeNext /\ ~kbc'.modeNext /\ kbc'.enabled
               /\ kbc'.answer = kbc.answer /\ kbd' = kbd
            \/ /\ \E b \in Byte : kbc.ibf = <<"data", b>> /\ kbd' = [kbd EXCEPT !.inbox = b]
               /\ ~kbc.modeNext /\ ~kbc'.modeNext /\ kbd.inbox = Nothing /\ kbc'.enabled
               /\ kbc'.answer = kbc.answer
<1> USE DEF SelfTest, KbdTest, WriteMode, KbdDisable, KbdEnable, Nothing
<1>1. kbc \in Kbcs /\ kbc.ibf # <<>>
  BY DEF TypeInv, DeviceType, KbcTakes
<1>2. PICK free : free = [kbc EXCEPT !.ibf = <<>>]
  OBVIOUS
<1>3. free \in Kbcs /\ free.ibf = <<>> /\ free.obf = kbc.obf /\ free.answer = kbc.answer
      /\ free.enabled = kbc.enabled /\ free.modeNext = kbc.modeNext
  BY <1>1, <1>2 DEF Kbcs
<1>4. \/ \E c \in ControllerCommands : kbc.ibf = <<"command", c>>
      \/ \E b \in Byte : kbc.ibf = <<"data", b>>
  BY <1>1 DEF Kbcs
<1>5. CASE \E c \in ControllerCommands : kbc.ibf = <<"command", c>>
  <2>1. PICK c \in ControllerCommands : kbc.ibf = <<"command", c>>
    BY <1>5
  <2>2. kbc.ibf[1] = "command" /\ kbc.ibf[2] = c
    BY <2>1
  <2>9. kbd' = kbd
    BY <2>2 DEF KbcTakes
  <2>3. kbc' = CASE c = 170 -> [free EXCEPT !.answer = IF kbc.sound THEN 85 ELSE 252]
                  [] c = 171 -> [free EXCEPT !.answer = IF kbc.sound THEN 0 ELSE 1]
                  [] c = 96 -> [free EXCEPT !.modeNext = TRUE]
                  [] c = 173 -> [free EXCEPT !.enabled = FALSE]
                  [] c = 174 -> [free EXCEPT !.enabled = TRUE]
    BY <1>2, <2>2 DEF KbcTakes
  <2>4. CASE c = 170
    <3>4. PICK v : v = IF kbc.sound THEN 85 ELSE 252
      OBVIOUS
    <3>5. v \in Byte
      BY <3>4 DEF Byte
    <3>1. kbc' = [free EXCEPT !.answer = v]
      BY <2>3, <2>4, <3>4
    <3>2. kbc' \in Kbcs
      BY ONLY <1>3, <3>1, <3>5, KbcField
    <3>6. v \in {85, 252}
      BY <3>4
    <3>3. /\ kbc'.obf = free.obf /\ kbc'.ibf = <<>>
          /\ kbc'.answer \in {85, 252} /\ kbc'.enabled = free.enabled
          /\ kbc'.modeNext = free.modeNext
      BY ONLY <1>3, <3>1, <3>6 DEF Kbcs
    <3> QED
      BY ONLY <1>1, <1>3, <2>1, <2>9, <2>4, <3>2, <3>3
  <2>5. CASE c = 171
    <3>4. PICK v : v = IF kbc.sound THEN 0 ELSE 1
      OBVIOUS
    <3>5. v \in Byte
      BY <3>4 DEF Byte
    <3>1. kbc' = [free EXCEPT !.answer = v]
      BY <2>3, <2>5, <3>4
    <3>2. kbc' \in Kbcs
      BY ONLY <1>3, <3>1, <3>5, KbcField
    <3>6. v \in {0, 1}
      BY <3>4
    <3>3. /\ kbc'.obf = free.obf /\ kbc'.ibf = <<>>
          /\ kbc'.answer \in {0, 1} /\ kbc'.enabled = free.enabled
          /\ kbc'.modeNext = free.modeNext
      BY ONLY <1>3, <3>1, <3>6 DEF Kbcs
    <3> QED
      BY ONLY <1>1, <1>3, <2>1, <2>9, <2>5, <3>2, <3>3
  <2>6. CASE c = 96
    <3>1. kbc' = [free EXCEPT !.modeNext = TRUE]
      BY <2>3, <2>6
    <3>2. kbc' \in Kbcs
      BY ONLY <1>3, <3>1, KbcField, FieldValues
    <3>3. /\ kbc'.obf = free.obf /\ kbc'.ibf = <<>>
          /\ kbc'.answer = free.answer /\ kbc'.enabled = free.enabled
          /\ kbc'.modeNext
      BY ONLY <1>3, <3>1 DEF Kbcs
    <3> QED
      BY ONLY <1>1, <1>3, <2>1, <2>9, <2>6, <3>2, <3>3
  <2>7. CASE c = 173
    <3>1. kbc' = [free EXCEPT !.enabled = FALSE]
      BY <2>3, <2>7
    <3>2. kbc' \in Kbcs
      BY ONLY <1>3, <3>1, KbcField, FieldValues
    <3>3. /\ kbc'.obf = free.obf /\ kbc'.ibf = <<>>
          /\ kbc'.answer = free.answer /\ kbc'.modeNext = free.modeNext
      BY ONLY <1>3, <3>1 DEF Kbcs
    <3> QED
      BY ONLY <1>1, <1>3, <2>1, <2>9, <2>7, <3>2, <3>3
  <2>8. CASE c = 174
    <3>1. kbc' = [free EXCEPT !.enabled = TRUE]
      BY <2>3, <2>8
    <3>2. kbc' \in Kbcs
      BY ONLY <1>3, <3>1, KbcField, FieldValues
    <3>3. /\ kbc'.obf = free.obf /\ kbc'.ibf = <<>>
          /\ kbc'.answer = free.answer /\ kbc'.modeNext = free.modeNext
      BY ONLY <1>3, <3>1 DEF Kbcs
    <3> QED
      BY ONLY <1>1, <1>3, <2>1, <2>9, <2>8, <3>2, <3>3
  <2> QED
    BY <2>1, <2>4, <2>5, <2>6, <2>7, <2>8 DEF ControllerCommands
<1>6. CASE \E b \in Byte : kbc.ibf = <<"data", b>>
  <2>1. PICK b \in Byte : kbc.ibf = <<"data", b>>
    BY <1>6
  <2>2. kbc.ibf[1] = "data" /\ kbc.ibf[2] = b
    BY <2>1
  <2>3. \/ /\ kbc.modeNext /\ kbd' = kbd
           /\ kbc' = [free EXCEPT !.modeNext = FALSE, !.enabled = TRUE]
        \/ /\ ~kbc.modeNext /\ kbd.inbox = Nothing /\ kbd' = [kbd EXCEPT !.inbox = b]
           /\ kbc' = [free EXCEPT !.enabled = TRUE]
    BY <1>2, <2>2 DEF KbcTakes
  <2>4. kbc' \in Kbcs /\ kbc'.obf = kbc.obf /\ kbc'.ibf = <<>> /\ kbc'.enabled
        /\ kbc'.answer = kbc.answer /\ ~kbc'.modeNext
    BY ONLY <1>1, <1>3, <2>3 DEF Kbcs
  <2> QED
    BY ONLY <1>1, <2>1, <2>3, <2>4
<1> QED
  BY <1>4, <1>5, <1>6

\* What the keyboard answers.
LEMMA AnsweredIs ==
  ASSUME NEW k \in Kbds, NEW b \in Byte
  PROVE  /\ Answered(k, b) \in Kbds /\ Answered(k, b).inbox = Nothing
         /\ k.out = <<>> => Answered(k, b).out \in {<<Ack>>, <<Resend>>}
         /\ b = Reset => Answered(k, b).out = <<Ack>>
         /\ b = Enable => Answered(k, b).scanning
         /\ (Answered(k, b).test <=> k.test \/ b = Reset)
<1> USE DEF Reset, Enable, Disable, SetRate, Ack, Resend, Nothing
<1>1. PICK heard : heard = [k EXCEPT !.inbox = Nothing, !.param = FALSE]
  OBVIOUS
<1>2. heard \in Kbds /\ heard.inbox = Nothing /\ heard.out = k.out /\ heard.test = k.test
  BY <1>1 DEF Kbds
<1>3. <<Ack>> \in Seq(Byte) /\ <<Resend>> \in Seq(Byte)
  BY DEF Byte
<1>4. /\ k.out \in Seq(Byte)
      /\ <<Ack>> \o k.out \in Seq(Byte) /\ <<Resend>> \o k.out \in Seq(Byte)
  BY <1>3, ConcatProperties DEF Kbds
<1>5. k.out = <<>> => <<Ack>> \o k.out = <<Ack>> /\ <<Resend>> \o k.out = <<Resend>>
  BY <1>3, ConcatEmptySeq
<1>6. PICK q : q = <<Ack>> \o k.out
  OBVIOUS
<1>7. PICK w : w = <<Resend>> \o k.out
  OBVIOUS
<1>8. PICK one : one = <<Ack>>
  OBVIOUS
<1>9. PICK A : A = Answered(k, b)
  OBVIOUS
<1>16. A =
        CASE b = 255 -> [heard EXCEPT !.out = one, !.scanning = FALSE, !.test = TRUE]
          [] b = 244 -> [heard EXCEPT !.out = one, !.scanning = TRUE]
          [] b = 245 -> [heard EXCEPT !.out = one, !.scanning = FALSE]
          [] b = 243 -> [heard EXCEPT !.out = q, !.param = TRUE]
          [] ~(b \in {255, 244, 245} \/ b = 243) ->
               [heard EXCEPT !.out = IF k.param THEN q ELSE w]
  <2>1. [heard EXCEPT !.out = <<Ack>> \o @, !.param = TRUE]
           = [heard EXCEPT !.out = q, !.param = TRUE]
    BY <1>2, <1>6 DEF Kbds
  <2>2. [heard EXCEPT !.out = <<IF k.param THEN Ack ELSE Resend>> \o @]
           = [heard EXCEPT !.out = IF k.param THEN q ELSE w]
    <3>1. CASE k.param
      BY <1>2, <1>6, <3>1
    <3>2. CASE ~k.param
      BY <1>2, <1>7, <3>2
    <3> QED
      BY <3>1, <3>2
  <2> QED
    BY <1>1, <1>8, <1>9, <2>1, <2>2 DEF Answered, Empties
<1>10. one \in Seq(Byte) /\ q \in Seq(Byte) /\ w \in Seq(Byte)
       /\ (k.out = <<>> => q = <<250>> /\ w = <<254>>) /\ one = <<250>>
  BY <1>3, <1>4, <1>5, <1>6, <1>7, <1>8
<1>17. one \in Seq(Byte) /\ q \in Seq(Byte) /\ heard \in Kbds
  BY <1>2, <1>10
<1>11. ASSUME b = 255
      PROVE  /\ A \in Kbds /\ A.inbox = Nothing /\ (A.test <=> k.test \/ b = 255)
             /\ k.out = <<>> => A.out \in {<<250>>, <<254>>}
             /\ b = 255 => A.out = <<250>>
             /\ b = 244 => A.scanning
  <2>1. A = [heard EXCEPT !.out = one, !.scanning = FALSE, !.test = TRUE]
    BY ONLY <1>16, <1>11
  <2>2. A \in Kbds
    <3>1. [heard EXCEPT !.out = one, !.scanning = FALSE, !.test = TRUE] \in Kbds
      BY ONLY <1>17, KbdFields
    <3> QED
      BY ONLY <2>1, <3>1
  <2>3. A.inbox = Nothing /\ A.out = one /\ A.test
    BY ONLY <1>2, <2>1 DEF Kbds
  <2> QED
    BY ONLY <1>2, <1>10, <1>11, <2>2, <2>3
<1>12. ASSUME b = 244
      PROVE  /\ A \in Kbds /\ A.inbox = Nothing /\ (A.test <=> k.test \/ b = 255)
             /\ k.out = <<>> => A.out \in {<<250>>, <<254>>}
             /\ b = 255 => A.out = <<250>>
             /\ b = 244 => A.scanning
  <2>1. A = [heard EXCEPT !.out = one, !.scanning = TRUE]
    BY ONLY <1>16, <1>12
  <2>2. A \in Kbds
    <3>1. [heard EXCEPT !.out = one, !.scanning = TRUE] \in Kbds
      BY ONLY <1>17, KbdFields
    <3> QED
      BY ONLY <2>1, <3>1
  <2>3. A.inbox = Nothing /\ A.out = one /\ A.test = heard.test /\ A.scanning
    BY ONLY <1>2, <2>1 DEF Kbds
  <2> QED
    BY ONLY <1>2, <1>10, <1>12, <2>2, <2>3
<1>13. ASSUME b = 245
      PROVE  /\ A \in Kbds /\ A.inbox = Nothing /\ (A.test <=> k.test \/ b = 255)
             /\ k.out = <<>> => A.out \in {<<250>>, <<254>>}
             /\ b = 255 => A.out = <<250>>
             /\ b = 244 => A.scanning
  <2>1. A = [heard EXCEPT !.out = one, !.scanning = FALSE]
    BY ONLY <1>16, <1>13
  <2>2. A \in Kbds
    <3>1. [heard EXCEPT !.out = one, !.scanning = FALSE] \in Kbds
      BY ONLY <1>17, KbdFields
    <3> QED
      BY ONLY <2>1, <3>1
  <2>3. A.inbox = Nothing /\ A.out = one /\ A.test = heard.test
    BY ONLY <1>2, <2>1 DEF Kbds
  <2> QED
    BY ONLY <1>2, <1>10, <1>13, <2>2, <2>3
<1>14. ASSUME b = 243
      PROVE  /\ A \in Kbds /\ A.inbox = Nothing /\ (A.test <=> k.test \/ b = 255)
             /\ k.out = <<>> => A.out \in {<<250>>, <<254>>}
             /\ b = 255 => A.out = <<250>>
             /\ b = 244 => A.scanning
  <2>1. A = [heard EXCEPT !.out = q, !.param = TRUE]
    BY ONLY <1>16, <1>14
  <2>2. A \in Kbds
    <3>1. [heard EXCEPT !.out = q, !.param = TRUE] \in Kbds
      BY ONLY <1>17, KbdFields
    <3> QED
      BY ONLY <2>1, <3>1
  <2>3. A.inbox = Nothing /\ A.out = q /\ A.test = heard.test
    BY ONLY <1>2, <2>1 DEF Kbds
  <2> QED
    BY ONLY <1>2, <1>10, <1>14, <2>2, <2>3
<1>15. ASSUME ~(b \in {255, 244, 245} \/ b = 243)
      PROVE  /\ A \in Kbds /\ A.inbox = Nothing /\ (A.test <=> k.test \/ b = 255)
             /\ k.out = <<>> => A.out \in {<<250>>, <<254>>}
             /\ b = 255 => A.out = <<250>>
             /\ b = 244 => A.scanning
  <2>1. A = [heard EXCEPT !.out = IF k.param THEN q ELSE w]
    BY ONLY <1>16, <1>15
  <2>2. (IF k.param THEN q ELSE w) \in Seq(Byte)
    BY <1>10
  <2>3. A \in Kbds
    BY ONLY <1>2, <1>10, <2>1, <2>2 DEF Kbds
  <2>4. A.inbox = Nothing /\ A.out \in {q, w} /\ A.test = heard.test
    BY ONLY <1>2, <2>1 DEF Kbds
  <2> QED
    BY ONLY <1>2, <1>10, <1>15, <2>3, <2>4
<1> QED
  BY <1>9, <1>11, <1>12, <1>13, <1>14, <1>15

----------------------------------------------------------------------------
(* The types are kept                                                       *)

\* What is read from the controller is gone from it.
LEMMA Received ==
  ASSUME TypeInv, ReceiveData
  PROVE  /\ kbc' = [kbc EXCEPT !.obf = Nothing] /\ kbc' \in Kbcs
         /\ calm' \in BOOLEAN
         /\ budget' \in [keys : Nat, resends : Nat, lost : Nat, late : Nat]
         /\ calm' => calm /\ (kbc.obf # Nothing \/ ~Pending)
<1>1. /\ kbc \in Kbcs /\ calm \in BOOLEAN
      /\ budget \in [keys : Nat, resends : Nat, lost : Nat, late : Nat]
  BY DEF TypeInv, DeviceType, HistoryType
<1>2. kbc' = [kbc EXCEPT !.obf = Nothing]
  BY DEF ReceiveData
<1>3. kbc' \in Kbcs
  BY <1>1, <1>2, KbcField
<1>4. CASE (kbc.obf # Nothing \/ ~Pending) /\ UNCHANGED <<calm, budget>>
  BY <1>1, <1>2, <1>3, <1>4
<1>5. CASE /\ budget.late > 0 /\ budget' = [budget EXCEPT !.late = @ - 1]
           /\ calm' = FALSE
  <2>1. budget.late - 1 \in Nat
    BY <1>1, <1>5
  <2>2. budget' = [budget EXCEPT !.late = budget.late - 1]
    BY <1>1, <1>5
  <2>3. budget' \in [keys : Nat, resends : Nat, lost : Nat, late : Nat]
    BY <1>1, <2>1, <2>2
  <2> QED
    BY <1>2, <1>3, <1>5, <2>3
<1> QED
  BY <1>4, <1>5 DEF ReceiveData

\* What is written is one of the commands, or a byte of data.
LEMMA Written ==
  ASSUME TypeInv, NEW port, NEW byte, Write(port, byte),
         \/ port = "command" /\ byte \in ControllerCommands
         \/ port = "data" /\ byte \in Byte
  PROVE  kbc' \in Kbcs /\ kbc' = [kbc EXCEPT !.ibf = <<port, byte>>] /\ kbc.ibf = <<>>
<1>1. kbc \in Kbcs /\ kbc' = [kbc EXCEPT !.ibf = <<port, byte>>] /\ kbc.ibf = <<>>
  BY DEF TypeInv, DeviceType, Write
<1>2. PICK v : v = <<port, byte>>
  OBVIOUS
<1>3. v \in ({"command"} \X ControllerCommands) \cup ({"data"} \X Byte)
  BY <1>2
<1> QED
  BY <1>1, <1>2, <1>3, KbcField

\* The scan codes of a key are bytes, as many and in the order that Follows counts them.
LEMMA CodesOfKey ==
  ASSUME NEW k \in Keys
  PROVE  /\ GetKeyCode(k) \in KeyCodes /\ ScanCodes(k) \in Seq(Byte)
         /\ Len(ScanCodes(k)) = Width(GetKeyCode(k))
         /\ \A j \in 1..Width(GetKeyCode(k)) : ScanCodes(k)[j] = ScanCode(GetKeyCode(k), j)
<1>1. k \in Key
  BY KeysAssumption
<1>2. k.code \in 1..127 /\ k.code # 96 /\ k.ext \in BOOLEAN
  BY <1>1 DEF Key
<1>3. CASE k.ext
  <2>1. GetKeyCode(k) = k.code + 128 /\ Width(k.code + 128) = 4
    BY <1>2, <1>3 DEF GetKeyCode, Width
  <2>2. k.code + 128 \in KeyCodes
    BY <1>2 DEF KeyCodes
  <2>3. ScanCodes(k) = <<224, k.code, 224, k.code + 128>>
    BY <1>3 DEF ScanCodes, Extended
  <2>4. 224 \in Byte /\ k.code \in Byte /\ k.code + 128 \in Byte
    BY <1>2 DEF Byte
  <2>5. <<224, k.code, 224, k.code + 128>> \in Seq(Byte)
    BY <2>4
  <2>6. ASSUME NEW j \in 1..4
        PROVE  <<224, k.code, 224, k.code + 128>>[j] = ScanCode(k.code + 128, j)
    BY <1>2 DEF ScanCode, Extended
  <2> QED
    BY <2>1, <2>2, <2>3, <2>5, <2>6
<1>4. CASE ~k.ext
  <2>1. GetKeyCode(k) = k.code /\ Width(k.code) = 2
    BY <1>2, <1>4 DEF GetKeyCode, Width
  <2>2. k.code \in KeyCodes
    BY <1>2 DEF KeyCodes
  <2>3. ScanCodes(k) = <<k.code, k.code + 128>>
    BY <1>4 DEF ScanCodes
  <2>4. k.code \in Byte /\ k.code + 128 \in Byte
    BY <1>2 DEF Byte
  <2>5. <<k.code, k.code + 128>> \in Seq(Byte)
    BY <2>4
  <2>6. ASSUME NEW j \in 1..2
        PROVE  <<k.code, k.code + 128>>[j] = ScanCode(k.code, j)
    BY <1>2 DEF ScanCode
  <2> QED
    BY <2>1, <2>2, <2>3, <2>5, <2>6
<1> QED
  BY <1>2, <1>3, <1>4

LEMMA DeviceTypeStep == TypeInv /\ (Kbc \/ Kbd \/ Type) => TypeInv'
<1> SUFFICES ASSUME TypeInv, Kbc \/ Kbd \/ Type PROVE TypeInv'
  OBVIOUS
<1>1. DriverType /\ kbc \in Kbcs /\ kbd \in Kbds /\ HistoryType /\ SeenInv
  BY DEF TypeInv, DeviceType
<1>2. UNCHANGED driverVars
  BY DEF Kbc, Kbd, Type, KbcTakes, KbcAnswers, KbdSends, KbdAnswers, KbdWantsAgain, KbdLoses,
         KbdTested, driverVars
<1>3. DriverType'
  BY ONLY <1>1, <1>2 DEF DriverType, driverVars
<1>4. ASSUME kbc' \in Kbcs, kbd' \in Kbds, HistoryType',
             kbc.obf # Nothing => kbc'.obf # Nothing
      PROVE  TypeInv'
  BY ONLY <1>1, <1>2, <1>3, <1>4 DEF TypeInv, DeviceType, SeenInv, driverVars
<1>5. ASSUME UNCHANGED <<typed, calm, budget>> PROVE HistoryType'
  BY ONLY <1>1, <1>5 DEF HistoryType
<1>6. CASE KbcTakes
  <2>1. kbc' \in Kbcs /\ kbc'.obf = kbc.obf
    BY <1>6, Taken
  <2>2. kbd' \in Kbds
    BY <1>1, <1>6, Taken, KbdField
  <2> QED
    BY <1>4, <1>5, <1>6, <2>1, <2>2 DEF KbcTakes
<1>7. CASE KbcAnswers
  <2>1. PICK a : a = kbc.answer
    OBVIOUS
  <2>2. a \in Byte \cup {Nothing} /\ a # Nothing
    BY <1>1, <1>7, <2>1 DEF Kbcs, KbcAnswers
  <2>3. kbc' = [[kbc EXCEPT !.obf = a] EXCEPT !.answer = Nothing]
    BY <1>7, <2>1 DEF KbcAnswers
  <2>4. [kbc EXCEPT !.obf = a] \in Kbcs
    BY <1>1, <2>2, KbcField
  <2>5. kbc' \in Kbcs /\ kbc'.obf = a
    <3>1. PICK h : h = [kbc EXCEPT !.obf = a]
      OBVIOUS
    <3>2. h \in Kbcs /\ h.obf = a
      BY <1>1, <2>4, <3>1 DEF Kbcs
    <3>3. kbc' = [h EXCEPT !.answer = Nothing]
      BY <2>3, <3>1
    <3> QED
      BY <3>2, <3>3, KbcField DEF Kbcs
  <2> QED
    BY <1>1, <1>4, <1>5, <1>7, <2>2, <2>5 DEF KbcAnswers
<1>8. CASE KbdSends
  <2>1. PICK b : b = Head(kbd.out)
    OBVIOUS
  <2>2. kbd.out \in Seq(Byte) /\ kbd.out # <<>>
    BY <1>1, <1>8 DEF Kbds, KbdSends
  <2>3. b \in Byte /\ b # Nothing
    <3>1. b \in Byte
      BY <2>1, <2>2
    <3> QED
      BY <3>1 DEF Byte, Nothing
  <2>4. Tail(kbd.out) \in Seq(Byte)
    BY <2>2
  <2>5. kbc' \in Kbcs /\ kbc'.obf = b
    <3>1. kbc' = [kbc EXCEPT !.obf = b]
      BY <1>8, <2>1 DEF KbdSends
    <3> QED
      BY <1>1, <2>3, <3>1, KbcField DEF Kbcs
  <2>6. kbd' \in Kbds
    <3>1. kbd' = [kbd EXCEPT !.out = Tail(kbd.out)]
      BY <1>8 DEF KbdSends
    <3> QED
      BY <1>1, <2>4, <3>1, KbdField
  <2> QED
    BY <1>4, <1>5, <1>8, <2>3, <2>5, <2>6 DEF KbdSends
<1>9. CASE KbdAnswers
  <2>1. kbd.inbox \in Byte
    BY <1>1, <1>9 DEF KbdAnswers, Kbds
  <2>2. kbd' \in Kbds
    BY <1>1, <1>9, <2>1, AnsweredIs DEF KbdAnswers
  <2>3. HistoryType'
    BY <1>1, <1>9 DEF HistoryType, KbdAnswers
  <2> QED
    BY <1>1, <1>4, <1>9, <2>2, <2>3 DEF KbdAnswers
<1>10. CASE KbdWantsAgain
  <2>1. PICK o : o = <<Resend>> \o kbd.out
    OBVIOUS
  <2>2. o \in Seq(Byte)
    BY <1>1, <2>1 DEF Kbds, Resend, Byte
  <2>3. kbd' \in Kbds
    <3>1. kbd' = [kbd EXCEPT !.inbox = Nothing, !.out = o]
      BY <1>1, <1>10, <2>1 DEF KbdWantsAgain, Kbds
    <3>2. [kbd EXCEPT !.inbox = Nothing, !.out = o] \in Kbds
      BY <1>1, <2>2, KbdFields
    <3> QED
      BY <3>1, <3>2
  <2>4. HistoryType'
    <3>1. budget.resends - 1 \in Nat
      BY <1>1, <1>10 DEF HistoryType, KbdWantsAgain
    <3> QED
      BY <1>1, <1>10, <3>1 DEF HistoryType, KbdWantsAgain
  <2> QED
    BY <1>1, <1>4, <1>10, <2>3, <2>4 DEF KbdWantsAgain
<1>11. CASE KbdLoses
  <2>1. kbd' \in Kbds
    BY <1>1, <1>11, KbdField DEF KbdLoses
  <2>2. HistoryType'
    <3>1. budget.lost - 1 \in Nat
      BY <1>1, <1>11 DEF HistoryType, KbdLoses
    <3> QED
      BY <1>1, <1>11, <3>1 DEF HistoryType, KbdLoses
  <2> QED
    BY <1>1, <1>4, <1>11, <2>1, <2>2 DEF KbdLoses
<1>12. CASE KbdTested
  <2>1. PICK o : o = Append(kbd.out, POR)
    OBVIOUS
  <2>2. o \in Seq(Byte)
    BY <1>1, <2>1 DEF Kbds, POR, Byte
  <2>3. kbd' \in Kbds
    <3>1. kbd' = [kbd EXCEPT !.test = FALSE, !.out = o, !.scanning = TRUE]
      BY <1>1, <1>12, <2>1 DEF KbdTested, Kbds
    <3>2. [kbd EXCEPT !.test = FALSE, !.out = o, !.scanning = TRUE] \in Kbds
      BY <1>1, <2>2, KbdFields
    <3> QED
      BY <3>1, <3>2
  <2> QED
    BY <1>1, <1>4, <1>5, <1>12, <2>3 DEF KbdTested
<1>13. CASE Type
  <2>1. PICK k \in Keys : /\ kbd' = [kbd EXCEPT !.out = @ \o ScanCodes(k)]
                          /\ typed' = Append(typed, GetKeyCode(k))
    BY <1>13 DEF Type
  <2>2. PICK o : o = kbd.out \o ScanCodes(k)
    OBVIOUS
  <2>3. o \in Seq(Byte) /\ GetKeyCode(k) \in KeyCodes
    BY <1>1, <2>2, CodesOfKey, ConcatProperties DEF Kbds
  <2>4. kbd' \in Kbds
    <3>1. kbd' = [kbd EXCEPT !.out = o]
      BY <1>1, <2>1, <2>2 DEF Kbds
    <3> QED
      BY <1>1, <2>3, <3>1, KbdField
  <2>5. HistoryType'
    <3>1. budget.keys - 1 \in Nat
      BY <1>1, <1>13 DEF HistoryType, Type
    <3>2. typed' \in Seq(KeyCodes)
      BY <1>1, <2>1, <2>3, AppendProperties DEF HistoryType
    <3>3. calm' \in BOOLEAN
      BY <1>1, <1>13 DEF HistoryType, Type
    <3> QED
      BY <1>1, <1>13, <3>1, <3>2, <3>3 DEF HistoryType, Type
  <2> QED
    BY <1>1, <1>4, <1>13, <2>4, <2>5 DEF Type
<1> QED
  BY <1>6, <1>7, <1>8, <1>9, <1>10, <1>11, <1>12, <1>13 DEF Kbc, Kbd

LEMMA DriverTypeStep == TypeInv /\ (Driver \/ UNCHANGED vars) => TypeInv'
<1> SUFFICES ASSUME TypeInv, Driver \/ UNCHANGED vars PROVE TypeInv'
  OBVIOUS
<1> USE DEF Nothing
<1>1. DriverType /\ kbc \in Kbcs /\ kbd \in Kbds /\ HistoryType /\ SeenInv
  BY DEF TypeInv, DeviceType
<1>2. ASSUME UNCHANGED <<typed, calm, budget>> PROVE HistoryType'
  BY ONLY <1>1, <1>2 DEF HistoryType
<1>3. ASSUME kbd' = kbd PROVE kbd' \in Kbds
  BY <1>1, <1>3
<1>4. ASSUME ReceiveData, UNCHANGED <<kbd, typed>>
      PROVE  kbc' \in Kbcs /\ kbd' \in Kbds /\ HistoryType'
  BY <1>1, <1>4, Received DEF HistoryType
<1>5. CASE SendCommand
  <2>1. PICK c \in Commands : at = c[1] /\ Write("command", c[2]) /\ at' = c[3]
    BY <1>5 DEF SendCommand
  <2>2. c[2] \in ControllerCommands
    BY <2>1 DEF Commands, ControllerCommands
  <2>3. kbc' \in Kbcs /\ kbc' = [kbc EXCEPT !.ibf = <<"command", c[2]>>]
    BY <2>1, <2>2, Written
  <2>4. kbc'.obf = kbc.obf
    BY <1>1, <2>3 DEF Kbcs
  <2>5. /\ at' \in {"selftested", "kbdtested", "mode", "reset", "wait2", "gk_read", "gk_wait",
                   "gk_read2", "return"}
        /\ at' = "gk_read" => at = "gk_off"
        /\ at' = "gk_read2" => at = "gk_off2"
    BY <2>1 DEF Commands
  <2>6. DriverType'
    BY <1>1, <1>5, <2>5 DEF DriverType, SendCommand, Starting, Polling
  <2>7. SeenInv'
    BY <1>1, <2>4, <2>5 DEF SeenInv
  <2> QED
    BY <1>2, <1>3, <1>5, <2>3, <2>6, <2>7 DEF SendCommand, TypeInv, DeviceType
<1>6. CASE KbDobyte
  <2>1. \E b \in Bytes : last_byte' = b[2] /\ ret' = b[3]
    BY <1>6 DEF KbDobyte
  <2>2. last_byte' \in Byte /\ ret' \in {"between", "setrate", "rate0", "enable", "enabled"}
    BY <2>1 DEF Bytes, Byte, Reset, Disable, SetRate, Enable
  <2>3. DriverType'
    BY <1>1, <1>6, <2>2 DEF DriverType, KbDobyte, Starting, Polling
  <2>4. kbc' = kbc /\ at' = "db_send"
    BY <1>6 DEF KbDobyte
  <2>5. SeenInv'
    BY <2>4 DEF SeenInv
  <2> QED
    BY <1>1, <1>2, <1>3, <1>6, <2>3, <2>4, <2>5 DEF KbDobyte, TypeInv, DeviceType
<1>7. CASE DobyteSend
  <2>1. last_byte \in Byte
    BY <1>1 DEF DriverType
  <2>2. kbc' \in Kbcs
    BY <1>7, <2>1, Written DEF DobyteSend
  <2>3. DriverType'
    BY <1>1, <1>7 DEF DriverType, DobyteSend, Starting, Polling
  <2>4. SeenInv'
    BY <1>7 DEF DobyteSend, SeenInv
  <2> QED
    BY <1>2, <1>3, <1>7, <2>2, <2>3, <2>4 DEF DobyteSend, TypeInv, DeviceType
<1>8. CASE DobyteReceive
  <2>1. kbc' \in Kbcs /\ kbd' \in Kbds /\ HistoryType'
    BY <1>4, <1>8 DEF DobyteReceive
  <2>2. at = "db_recv" /\ resend_cnt \in 1..3
    BY <1>1, <1>8 DEF DobyteReceive, DriverType
  <2>3. /\ resend_cnt' \in 0..3 /\ at' \in {"db_send", ret}
        /\ at' = "db_send" => resend_cnt' > 0
    <3>1. CASE kbc.obf = Resend
      <4>1. /\ resend_cnt' = resend_cnt - 1
            /\ at' = IF resend_cnt' # 0 THEN "db_send" ELSE ret
        BY <1>8, <3>1 DEF DobyteReceive
      <4>2. ret # "db_send"
        BY <1>1 DEF DriverType
      <4> QED
        BY ONLY <2>2, <4>1, <4>2
    <3>2. CASE kbc.obf # Resend
      BY <1>1, <1>8, <2>2, <3>2 DEF DobyteReceive, DriverType
    <3> QED
      BY <3>1, <3>2
  <2>4. ret \in {"between", "setrate", "rate0", "enable", "enabled"}
    BY <1>1 DEF DriverType
  <2>5. UNCHANGED <<ret, last_byte, d1, Keyboard_OK, got>> /\ z' \in BOOLEAN
    BY <1>8 DEF DobyteReceive
  <2>6. at' \in Starting \cup Polling
    BY <2>3, <2>4 DEF Starting
  <2>7. DriverType'
    BY ONLY <1>1, <2>3, <2>4, <2>5, <2>6 DEF DriverType
  <2>8. SeenInv'
    BY <2>3, <2>4 DEF SeenInv
  <2> QED
    BY <2>1, <2>7, <2>8 DEF TypeInv, DeviceType
<1>9. CASE Drain
  <2>1. at' \in {"selftest", "drain"}
    BY <1>9 DEF Drain
  <2>2. DriverType' /\ SeenInv'
    BY <1>1, <1>9, <2>1 DEF DriverType, Drain, SeenInv, Starting
  <2> QED
    BY <1>4, <1>9, <2>2 DEF Drain, TypeInv, DeviceType
<1>10. CASE TestResult
  <2>1. at' \in {"kbdtest", "between", "writemode"}
    BY <1>10 DEF TestResult
  <2>2. DriverType' /\ SeenInv'
    BY <1>1, <1>10, <2>1 DEF DriverType, TestResult, SeenInv, Starting
  <2> QED
    BY <1>4, <1>10, <2>2 DEF TestResult, TypeInv, DeviceType
<1>11. CASE SendMode
  <2>1. kbc' \in Kbcs
    BY <1>11, Written DEF SendMode, Mode, Byte
  <2>2. DriverType' /\ SeenInv'
    BY <1>1, <1>11 DEF DriverType, SendMode, SeenInv, Starting
  <2> QED
    BY <1>2, <1>3, <1>11, <2>1, <2>2 DEF SendMode, TypeInv, DeviceType
<1>12. CASE InitKey2
  <2>1. DriverType' /\ SeenInv'
    BY <1>1, <1>12 DEF DriverType, InitKey2, SeenInv, Starting
  <2> QED
    BY <1>4, <1>12, <2>1 DEF InitKey2, TypeInv, DeviceType
<1>13. CASE KbWait
  <2>1. DriverType' /\ SeenInv'
    BY <1>1, <1>13 DEF DriverType, KbWait, SeenInv, Starting
  <2> QED
    BY <1>1, <1>2, <1>3, <1>13, <2>1 DEF KbWait, TypeInv, DeviceType
<1>14. CASE InitKey2Ends
  <2>1. DriverType' /\ SeenInv'
    BY <1>1, <1>14 DEF DriverType, InitKey2Ends, SeenInv, Polling
  <2> QED
    BY <1>1, <1>2, <1>3, <1>14, <2>1 DEF InitKey2Ends, TypeInv, DeviceType
<1>15. CASE GetKey
  <2>1. DriverType' /\ SeenInv'
    BY <1>1, <1>15 DEF DriverType, GetKey, SeenInv, Polling, Byte
  <2> QED
    BY <1>1, <1>2, <1>3, <1>15, <2>1 DEF GetKey, TypeInv, DeviceType
<1>16. CASE GetByte
  <2>1. at = "gk_read" /\ kbc.obf \in Byte
    BY <1>1, <1>16 DEF GetByte, SeenInv, Kbcs
  <2>2. at' \in {"gk_on", "gk_beenden"} /\ d1' \in Byte
    BY <1>16, <2>1 DEF GetByte, Byte
  <2>3. DriverType'
    BY <1>1, <1>16, <2>2 DEF DriverType, GetByte, Polling
  <2>4. SeenInv'
    BY <2>2 DEF SeenInv
  <2>5. kbc' \in Kbcs
    BY <1>1, <1>16, KbcField DEF GetByte
  <2> QED
    BY <1>2, <1>3, <1>16, <2>3, <2>4, <2>5 DEF GetByte, TypeInv, DeviceType
<1>17. CASE GetKeyWaits
  <2>1. DriverType' /\ SeenInv'
    BY <1>1, <1>17 DEF DriverType, GetKeyWaits, SeenInv, Polling
  <2> QED
    BY <1>1, <1>2, <1>3, <1>17, <2>1 DEF GetKeyWaits, TypeInv, DeviceType
<1>18. CASE GetSecondByte
  <2>1. d1' \in Byte
    <3>1. kbc.obf \in 0..127 => kbc.obf + 128 \in 0..255
      OBVIOUS
    <3>2. d1' = IF kbc.obf \in 0..127 THEN kbc.obf + 128 ELSE 0
      BY <1>18 DEF GetSecondByte
    <3> QED
      BY ONLY <3>1, <3>2 DEF Byte
  <2>2. DriverType' /\ SeenInv'
    BY <1>1, <1>18, <2>1 DEF DriverType, GetSecondByte, SeenInv, Polling
  <2> QED
    BY <1>4, <1>18, <2>2 DEF GetSecondByte, TypeInv, DeviceType
<1>19. CASE GetKeyReturns
  <2>1. got' \in Seq(1..255)
    <3>1. d1 \in Byte /\ got \in Seq(1..255)
      BY <1>1 DEF DriverType
    <3>2. CASE d1 = 0
      BY <1>19, <3>1, <3>2 DEF GetKeyReturns
    <3>3. CASE d1 # 0
      <4>1. d1 \in 1..255
        BY <3>1, <3>3 DEF Byte
      <4> QED
        BY <1>19, <3>1, <3>3, <4>1, AppendProperties DEF GetKeyReturns
    <3> QED
      BY <3>2, <3>3
  <2>2. DriverType' /\ SeenInv'
    BY <1>1, <1>19, <2>1 DEF DriverType, GetKeyReturns, SeenInv, Polling
  <2> QED
    BY <1>1, <1>2, <1>3, <1>19, <2>2 DEF GetKeyReturns, TypeInv, DeviceType
<1>20. CASE UNCHANGED vars
  BY <1>1, <1>20 DEF TypeInv, DriverType, DeviceType, HistoryType, SeenInv, vars, driverVars
<1> QED
  BY <1>5, <1>6, <1>7, <1>8, <1>9, <1>10, <1>11, <1>12, <1>13, <1>14, <1>15, <1>16, <1>17,
     <1>18, <1>19, <1>20 DEF Driver

LEMMA TypeStep == TypeInv /\ [Next]_vars => TypeInv'
BY DeviceTypeStep, DriverTypeStep DEF Next, Quiet

LEMMA TypeInit == Init => TypeInv
<1> SUFFICES ASSUME Init PROVE TypeInv
  OBVIOUS
<1> USE DEF Nothing
<1>1. <<>> \in Seq(Byte) /\ <<1, 129>> \in Seq(Byte)
  BY DEF Byte
<1>2. kbc \in Kbcs
  <2>1. kbc \in [obf : {-1, 224}, ibf : {<<>>}, answer : {-1}, enabled : BOOLEAN,
                modeNext : {FALSE}, sound : BOOLEAN]
    BY DEF Init, Extended
  <2>2. {-1, 224} \subseteq Byte \cup {-1} /\ FALSE \in BOOLEAN
    BY DEF Byte
  <2> QED
    BY ONLY <2>1, <2>2 DEF Kbcs, Nothing
<1>3. kbd \in Kbds
  BY <1>1 DEF Init, Kbds
<1>4. HistoryType
  <2>1. calm \in BOOLEAN /\ typed \in Seq(KeyCodes)
    BY DEF Init
  <2>2. MaxKeys \in Nat /\ MaxResends \in Nat /\ MaxLost \in Nat /\ MaxLate \in Nat
    BY KeyboardBounds
  <2> QED
    BY <2>1, <2>2 DEF Init, HistoryType
<1>5. DriverType /\ SeenInv
  <2>1. /\ at = "drain" /\ ret = "between" /\ last_byte = 0 /\ resend_cnt = 0
        /\ z = FALSE /\ d1 = 0 /\ Keyboard_OK = 0 /\ got = <<>>
    BY DEF Init
  <2>2. 0 \in Byte /\ 0 \in 0..3 /\ <<>> \in Seq(1..255) /\ at \in Starting
    BY <2>1 DEF Byte, Starting
  <2>3. SeenInv
    BY <2>1 DEF SeenInv
  <2> QED
    BY ONLY <2>1, <2>2, <2>3 DEF DriverType
<1> QED
  BY <1>2, <1>3, <1>4, <1>5 DEF TypeInv, DeviceType

----------------------------------------------------------------------------
(* The initialisation: at most one message is on its way                     *)

LEMMA ShortSequences ==
  \A a, b : /\ Head(<<a>>) = a /\ Tail(<<a>>) = <<>>
            /\ Head(<<a, b>>) = a /\ Tail(<<a, b>>) = <<b>>
            /\ Append(<<a>>, b) = <<a, b>> /\ Append(<<>>, b) = <<b>>
            /\ <<a>> \o <<>> = <<a>> /\ <<a>> # <<>> /\ <<a, b>> # <<>>
<1> TAKE a, b
<1>1. Head(<<a>>) = a /\ Head(<<a, b>>) = a /\ <<a>> # <<>> /\ <<a, b>> # <<>>
  OBVIOUS
<1>2. Tail(<<a>>) = <<>>
  OBVIOUS
<1>3. Tail(<<a, b>>) = <<b>>
  OBVIOUS
<1>4. Append(<<>>, b) = <<b>>
  OBVIOUS
<1>5. Append(<<a>>, b) = <<a, b>>
  <2>1. <<a>> \in Seq({a, b}) /\ <<a, b>> \in Seq({a, b}) /\ b \in {a, b}
    OBVIOUS
  <2>2. /\ Append(<<a>>, b) \in Seq({a, b}) /\ Len(Append(<<a>>, b)) = 2
        /\ Append(<<a>>, b)[1] = a /\ Append(<<a>>, b)[2] = b
    BY <2>1, AppendProperties
  <2>3. Len(<<a, b>>) = 2 /\ <<a, b>>[1] = a /\ <<a, b>>[2] = b
    OBVIOUS
  <2>4. PICK p, q : p = Append(<<a>>, b) /\ q = <<a, b>>
    OBVIOUS
  <2>5. p \in Seq({a, b}) /\ q \in Seq({a, b}) /\ Len(p) = Len(q)
    BY <2>1, <2>2, <2>3, <2>4
  <2>6. \A i \in 1..Len(p) : p[i] = q[i]
    BY <2>2, <2>3, <2>4
  <2>7. p = q
    BY ONLY <2>5, <2>6, SeqEqual
  <2> QED
    BY <2>4, <2>7
<1>6. <<a>> \o <<>> = <<a>>
  <2>1. <<a>> \in Seq({a})
    OBVIOUS
  <2> QED
    BY <2>1, ConcatEmptySeq
<1> QED
  BY ONLY <1>1, <1>2, <1>3, <1>4, <1>5, <1>6

\* A device does nothing when nothing is on its way, except that a key may be typed.
LEMMA IdleRests == Idle => ~(Kbc \/ Kbd)
BY DEF Idle, KbdEmpty, NoAnswer, Kbc, Kbd, KbcTakes, KbcAnswers, KbdSends, KbdAnswers,
       KbdWantsAgain, KbdLoses, KbdTested

\* The steps of the controller, and the answers to the controller's own tests.
LEMMA DeviceStartStep == TypeInv /\ StartInv /\ (Kbc \/ Kbd \/ Type) => StartInv'
<1> SUFFICES ASSUME TypeInv, StartInv, Kbc \/ Kbd \/ Type PROVE StartInv'
  OBVIOUS
<1>1. DriverType /\ kbc \in Kbcs /\ kbd \in Kbds
  BY DEF TypeInv, DeviceType
<1>2. UNCHANGED <<at, ret, last_byte, z, Keyboard_OK, got>> /\ (calm' => calm)
  <2>1. UNCHANGED driverVars
    BY DEF Kbc, Kbd, Type, KbcTakes, KbcAnswers, KbdSends, KbdAnswers, KbdWantsAgain, KbdLoses,
           KbdTested
  <2>2. ASSUME Type PROVE calm' => calm
    BY <2>2 DEF Type
  <2>3. ASSUME Kbc \/ Kbd PROVE calm' => calm
    BY <2>3 DEF Kbc, Kbd, KbcTakes, KbcAnswers, KbdSends, KbdAnswers, KbdWantsAgain, KbdLoses,
                KbdTested
  <2>4. calm' => calm
    BY <2>2, <2>3
  <2> QED
    BY ONLY <2>1, <2>4 DEF driverVars
<1>3. CASE ~(at \in Starting /\ calm')
  BY ONLY <1>2, <1>3, StartInv DEF StartInv, SendingOne, Starting
<1>4. CASE at \in Starting /\ calm'
  <2>1. Kbc \/ Kbd
    BY <1>4 DEF Type, Starting, Polling
  <2>2. typed' = <<>>
    <3>1. typed = <<>> /\ typed' \in {typed, <<>>}
      BY <1>2, <1>4, <2>1 DEF StartInv, Kbc, Kbd, KbcTakes, KbcAnswers, KbdSends, KbdAnswers,
                              KbdWantsAgain, KbdLoses, KbdTested
    <3> QED
      BY <3>1
  <2>3. ~Idle
    BY <2>1, IdleRests
  <2>4. CASE at = "drain"
    <3>1. /\ kbc.ibf = <<>> /\ kbc.answer = Nothing /\ ~kbc.modeNext
          /\ kbd.inbox = Nothing /\ ~kbd.test
      BY <1>2, <1>4, <2>4 DEF StartInv
    <3>2. KbdSends
      BY <2>1, <3>1 DEF Kbc, Kbd, KbcTakes, KbcAnswers, KbdAnswers, KbdWantsAgain, KbdLoses,
                        KbdTested
    <3>3. /\ kbc'.ibf = <<>> /\ kbc'.answer = Nothing /\ ~kbc'.modeNext /\ kbc'.enabled
          /\ kbd'.inbox = Nothing /\ ~kbd'.test
      BY <1>1, <3>1, <3>2 DEF KbdSends, Kbcs, Kbds
    <3> QED
      BY ONLY <1>2, <2>2, <2>4, <3>3, StartInv DEF StartInv
  <2>5. CASE at \in {"selftested", "kbdtested"}
    <3>1. Testing
      BY <1>2, <1>4, <2>5 DEF StartInv
    <3>2. KbcTakes \/ KbcAnswers
      BY <2>1, <3>1 DEF Testing, KbdEmpty, Kbc, Kbd, KbdSends, KbdAnswers, KbdWantsAgain,
                        KbdLoses, KbdTested
    <3>3. Testing'
      <4>1. CASE KbcTakes
        <5>1. kbc.ibf \in {<<"command", SelfTest>>, <<"command", KbdTest>>} /\ NoAnswer
          BY <3>1, <4>1 DEF Testing, KbcTakes
        <5>2. /\ kbc'.obf = Nothing /\ kbc'.ibf = <<>> /\ kbc'.answer # Nothing
              /\ ~kbc'.modeNext /\ kbd' = kbd
          BY <3>1, <4>1, <5>1, Taken DEF Testing, NoAnswer, SelfTest, KbdTest, WriteMode,
             KbdDisable, KbdEnable
        <5> QED
          BY <3>1, <5>2 DEF Testing, KbdEmpty
      <4>2. CASE KbcAnswers
        <5>1. kbc.ibf = <<>> /\ kbc.answer # Nothing
          BY <3>1, <4>2 DEF Testing, NoAnswer, KbcAnswers
        <5>2. /\ kbc'.obf # Nothing /\ kbc'.ibf = <<>> /\ kbc'.answer = Nothing
              /\ kbc'.modeNext = kbc.modeNext /\ kbd' = kbd
          BY <1>1, <4>2, <5>1 DEF KbcAnswers, Kbcs
        <5> QED
          BY <3>1, <5>2 DEF Testing, KbdEmpty
      <4> QED
        BY <3>2, <4>1, <4>2
    <3> QED
      BY ONLY <1>2, <2>2, <2>5, <3>3, StartInv DEF StartInv
  <2>6. CASE at = "mode"
    <3>1. KbdEmpty /\ NoAnswer /\ (IF kbc.modeNext THEN kbc.ibf = <<>>
                                                   ELSE kbc.ibf = <<"command", WriteMode>>)
      BY <1>2, <1>4, <2>6 DEF StartInv
    <3>2. KbcTakes
      BY <2>1, <3>1 DEF NoAnswer, KbdEmpty, Kbc, Kbd, KbcAnswers, KbdSends, KbdAnswers,
                        KbdWantsAgain, KbdLoses, KbdTested
    <3>3. kbc.ibf = <<"command", WriteMode>>
      BY <3>1, <3>2, Taken
    <3>4. /\ kbc'.obf = Nothing /\ kbc'.ibf = <<>> /\ kbc'.answer = Nothing
          /\ kbc'.modeNext /\ kbd' = kbd
      BY <3>1, <3>2, <3>3, Taken DEF NoAnswer, SelfTest, KbdTest, WriteMode, KbdDisable,
         KbdEnable
    <3>5. KbdEmpty' /\ NoAnswer'
      BY <3>1, <3>4 DEF KbdEmpty, NoAnswer
    <3> QED
      BY ONLY <1>2, <2>2, <2>6, <3>4, <3>5, StartInv DEF StartInv
  <2>7. CASE at = "off1"
    <3>1. KbdEmpty /\ NoAnswer /\ kbc.ibf = (IF kbc.modeNext THEN <<"data", Mode>> ELSE <<>>)
      BY <1>2, <1>4, <2>7 DEF StartInv
    <3>2. KbcTakes
      BY <2>1, <3>1 DEF NoAnswer, KbdEmpty, Kbc, Kbd, KbcAnswers, KbdSends, KbdAnswers,
                        KbdWantsAgain, KbdLoses, KbdTested
    <3>3. kbc.ibf = <<"data", Mode>> /\ kbc.modeNext
      BY <3>1, <3>2, Taken
    <3>4. /\ kbc'.obf = Nothing /\ kbc'.ibf = <<>> /\ kbc'.answer = Nothing
          /\ ~kbc'.modeNext /\ kbd' = kbd
      BY <3>1, <3>2, <3>3, Taken DEF NoAnswer
    <3>5. KbdEmpty' /\ NoAnswer'
      BY <3>1, <3>4 DEF KbdEmpty, NoAnswer
    <3> QED
      BY ONLY <1>2, <2>2, <2>7, <3>4, <3>5, StartInv DEF StartInv
  <2>8. CASE at \in {"reset", "wait2", "db_send"}
    <3>1. SwitchingOff
      BY <1>2, <1>4, <2>8 DEF StartInv
    <3>2. KbcTakes
      BY <2>1, <3>1 DEF SwitchingOff, NoAnswer, KbdEmpty, Kbc, Kbd, KbcAnswers, KbdSends,
                        KbdAnswers, KbdWantsAgain, KbdLoses, KbdTested
    <3>3. kbc.ibf = <<"command", KbdDisable>>
      BY <3>1, <3>2, Taken DEF SwitchingOff
    <3>4. /\ kbc'.obf = Nothing /\ kbc'.ibf = <<>> /\ kbc'.answer = Nothing
          /\ ~kbc'.modeNext /\ kbd' = kbd
      BY <3>1, <3>2, <3>3, Taken DEF SwitchingOff, NoAnswer, SelfTest, KbdTest, WriteMode,
         KbdDisable, KbdEnable
    <3>5. SwitchingOff'
      BY <3>1, <3>4 DEF KbdEmpty, NoAnswer, SwitchingOff
    <3> QED
      BY ONLY <1>2, <2>2, <2>8, <3>5, StartInv DEF StartInv, SendingOne
  <2>9. CASE at = "between"
    <3>1. Restarting
      BY <1>2, <1>4, <2>3, <2>9 DEF StartInv
    <3>2. KbdSends \/ KbdTested
      BY <2>1, <3>1 DEF Restarting, Kbc, Kbd, KbcTakes, KbcAnswers, KbdAnswers, KbdWantsAgain,
                        KbdLoses
    <3>3. Restarting'
      <4>1. CASE KbdSends
        <5>1. kbd.out = <<POR>> /\ kbc.obf = Nothing /\ ~kbd.test
          BY <3>1, <4>1 DEF Restarting, KbdSends
        <5>2. Head(kbd.out) = POR /\ Tail(kbd.out) = <<>>
          BY <5>1, ShortSequences
        <5>3. /\ kbc'.obf = POR /\ kbc'.ibf = kbc.ibf /\ kbc'.answer = kbc.answer
              /\ kbc'.modeNext = kbc.modeNext
              /\ kbd'.out = <<>> /\ kbd'.test = kbd.test /\ kbd'.inbox = kbd.inbox
          BY <1>1, <4>1, <5>2 DEF KbdSends, Kbcs, Kbds
        <5> QED
          BY <3>1, <5>1, <5>3 DEF Restarting
      <4>2. CASE KbdTested
        <5>1. kbd.out = <<>> /\ kbc.obf = Nothing /\ kbc.enabled
          BY <3>1, <4>2 DEF Restarting, KbdTested
        <5>2. Append(kbd.out, POR) = <<POR>>
          BY <5>1, ShortSequences
        <5>3. kbc' = kbc /\ kbd'.out = <<POR>> /\ ~kbd'.test /\ kbd'.inbox = kbd.inbox
          BY <1>1, <4>2, <5>2 DEF KbdTested, Kbds
        <5> QED
          BY <3>1, <5>1, <5>3 DEF Restarting
      <4> QED
        BY <3>2, <4>1, <4>2
    <3> QED
      BY ONLY <1>2, <2>2, <2>9, <3>3, StartInv DEF StartInv
  <2>10. CASE at = "db_recv"
    <3>1. Asking \/ Answering
      BY <1>2, <1>4, <2>3, <2>10 DEF StartInv
    <3>2. Idle' \/ Asking' \/ Answering'
      <4>1. CASE Asking
        <5>1. CASE KbcTakes
          <6>1. kbc.ibf = <<"data", last_byte>> /\ ~kbc.modeNext
            BY <4>1, <5>1 DEF Asking, KbcTakes
          <6>2. /\ kbc'.obf = Nothing /\ kbc'.ibf = <<>> /\ kbc'.answer = Nothing
                /\ ~kbc'.modeNext /\ kbc'.enabled /\ kbd' = [kbd EXCEPT !.inbox = last_byte]
            BY <4>1, <5>1, <6>1, Taken DEF Asking, NoAnswer
          <6>3. kbd'.inbox = last_byte /\ kbd'.out = <<>> /\ ~kbd'.test
            BY <1>1, <4>1, <6>2 DEF Kbds, Asking
          <6> QED
            BY <1>2, <6>2, <6>3 DEF Asking, NoAnswer
        <5>2. CASE KbdAnswers
          <6>1. /\ kbc.ibf = <<>> /\ kbd.inbox = last_byte /\ kbc.enabled /\ kbd.out = <<>>
                /\ ~kbd.test /\ NoAnswer /\ ~kbc.modeNext /\ last_byte \in Byte
            BY <1>1, <4>1, <5>2 DEF Asking, KbdAnswers, DriverType
          <6>2. kbd' = Answered(kbd, last_byte) /\ kbc' = kbc
            BY <5>2, <6>1 DEF KbdAnswers
          <6>3. /\ kbd'.inbox = Nothing /\ kbd'.out \in {<<Ack>>, <<Resend>>}
                /\ (last_byte = Reset => kbd'.out = <<Ack>>)
                /\ (last_byte = Enable => kbd'.scanning)
                /\ (kbd'.test <=> last_byte = Reset)
            BY <1>1, <6>1, <6>2, AnsweredIs
          <6>4. PICK a \in {Ack, Resend} : kbd'.out = <<a>>
            BY <6>3
          <6>5. last_byte = Reset => a = Ack
            BY <6>3, <6>4
          <6> QED
            BY ONLY <1>2, <6>1, <6>2, <6>3, <6>4, <6>5 DEF Answering, Restarts, NoAnswer
        <5>3. CASE KbdWantsAgain
          <6>1. /\ kbc.ibf = <<>> /\ kbc.enabled /\ kbd.out = <<>>
                /\ ~kbd.test /\ NoAnswer /\ ~kbc.modeNext
            BY <1>1, <4>1, <5>3 DEF Asking, KbdWantsAgain
          <6>2. <<Resend>> \o kbd.out = <<Resend>>
            BY <6>1, ShortSequences
          <6>3. kbd'.inbox = Nothing /\ kbd'.out = <<Resend>> /\ ~kbd'.test /\ kbc' = kbc
            BY <1>1, <5>3, <6>1, <6>2 DEF KbdWantsAgain, Kbds
          <6> QED
            BY ONLY <1>2, <6>1, <6>3 DEF Answering, Restarts, NoAnswer, Ack, Resend
        <5>4. CASE KbdLoses
          <6>1. /\ kbc.ibf = <<>> /\ kbd.out = <<>> /\ ~kbd.test /\ NoAnswer
                /\ ~kbc.modeNext
            BY <1>1, <4>1, <5>4 DEF Asking, KbdLoses
          <6>2. kbd'.inbox = Nothing /\ kbd'.out = <<>> /\ ~kbd'.test /\ kbc' = kbc
            BY <1>1, <5>4, <6>1 DEF KbdLoses, Kbds
          <6> QED
            BY <6>1, <6>2 DEF Idle, NoAnswer, KbdEmpty
        <5> QED
          BY <2>1, <4>1, <5>1, <5>2, <5>3, <5>4 DEF Asking, NoAnswer, Kbc, Kbd, KbcAnswers,
             KbdSends, KbdTested
      <4>2. CASE Answering
        <5>1. PICK a \in {Ack, Resend} :
                /\ \/ kbc.obf = Nothing /\ kbd.out = <<a>> /\ (kbd.test <=> Restarts(a))
                   \/ kbc.obf = a /\ kbd.out = <<>> /\ (kbd.test <=> Restarts(a))
                   \/ kbc.obf = Nothing /\ kbd.out = <<a, POR>> /\ ~kbd.test /\ Restarts(a)
                   \/ kbc.obf = a /\ kbd.out = <<POR>> /\ ~kbd.test /\ Restarts(a)
                /\ a = Ack /\ last_byte = Enable => kbd.scanning
          BY <4>2 DEF Answering
        <5>2. /\ kbc.ibf = <<>> /\ kbc.answer = Nothing /\ ~kbc.modeNext
              /\ kbd.inbox = Nothing /\ kbc.enabled
          BY <4>2 DEF Answering
        <5>3. a # Nothing /\ POR # Nothing
          BY <5>1 DEF Ack, Resend, Nothing, POR
        <5>4. Restarts(a)' <=> Restarts(a)
          BY <1>2 DEF Restarts
        <5>5. CASE KbdSends
          <6>1. kbc.obf = Nothing /\ kbd.out \in {<<a>>, <<a, POR>>}
            BY <5>1, <5>3, <5>5 DEF KbdSends
          <6>2. PICK rest : rest = Tail(kbd.out)
            OBVIOUS
          <6>3. /\ Head(kbd.out) = a
                /\ \/ rest = <<>> /\ kbd.out = <<a>>
                   \/ rest = <<POR>> /\ kbd.out = <<a, POR>>
            BY <6>1, <6>2, ShortSequences
          <6>4. /\ kbc'.obf = a /\ kbc'.ibf = kbc.ibf /\ kbc'.answer = kbc.answer
                /\ kbc'.modeNext = kbc.modeNext /\ kbc'.enabled = kbc.enabled
                /\ kbd'.out = rest /\ kbd'.test = kbd.test /\ kbd'.inbox = kbd.inbox
                /\ kbd'.scanning = kbd.scanning
            BY <1>1, <5>5, <6>2, <6>3 DEF KbdSends, Kbcs, Kbds
          <6>5. <<a>> # <<a, POR>>
            OBVIOUS
          <6>6. \/ rest = <<>> /\ (kbd.test <=> Restarts(a))
                \/ rest = <<POR>> /\ ~kbd.test /\ Restarts(a)
            BY ONLY <5>1, <5>3, <6>1, <6>3, <6>5
          <6> QED
            BY ONLY <1>2, <5>1, <5>2, <5>4, <6>4, <6>6 DEF Answering
        <5>6. CASE KbdTested
          <6>1. kbd.test /\ Restarts(a)
            BY <5>1, <5>6 DEF KbdTested
          <6>2. PICK o : o = Append(kbd.out, POR)
            OBVIOUS
          <6>3. \/ kbc.obf = Nothing /\ o = <<a, POR>>
                \/ kbc.obf = a /\ o = <<POR>>
            <7>1. /\ Append(<<a>>, POR) = <<a, POR>> /\ Append(<<>>, POR) = <<POR>>
              BY ShortSequences
            <7> QED
              BY ONLY <5>1, <6>1, <6>2, <7>1
          <6>4. kbc' = kbc /\ kbd'.out = o /\ ~kbd'.test /\ kbd'.inbox = kbd.inbox
                /\ kbd'.scanning
            BY <1>1, <5>6, <6>2 DEF KbdTested, Kbds
          <6> QED
            BY ONLY <1>2, <5>1, <5>2, <5>4, <6>1, <6>3, <6>4 DEF Answering
        <5> QED
          BY <2>1, <5>2, <5>5, <5>6 DEF Kbc, Kbd, KbcTakes, KbcAnswers, KbdAnswers,
             KbdWantsAgain, KbdLoses
      <4> QED
        BY <3>1, <4>1, <4>2
    <3> QED
      BY ONLY <1>2, <2>2, <2>10, <3>2, StartInv DEF StartInv, SendingOne
  <2> QED
    BY ONLY <1>2, <1>4, <2>3, <2>4, <2>5, <2>6, <2>7, <2>8, <2>9, <2>10, StartInv
       DEF StartInv, Starting
<1> QED
  BY <1>3, <1>4

\* What is left in the controller by the driver's reads and writes.
LEMMA ReceivedFields ==
  ASSUME TypeInv, ReceiveData
  PROVE  /\ kbc'.obf = Nothing /\ kbc'.ibf = kbc.ibf /\ kbc'.answer = kbc.answer
         /\ kbc'.modeNext = kbc.modeNext /\ kbc'.enabled = kbc.enabled
         /\ calm' => calm /\ (kbc.obf # Nothing \/ ~Pending)
<1>1. kbc \in Kbcs /\ kbc' = [kbc EXCEPT !.obf = Nothing]
  BY Received DEF TypeInv, DeviceType
<1>2. /\ kbc'.obf = Nothing /\ kbc'.ibf = kbc.ibf /\ kbc'.answer = kbc.answer
      /\ kbc'.modeNext = kbc.modeNext /\ kbc'.enabled = kbc.enabled
  BY ONLY <1>1 DEF Kbcs
<1> QED
  BY <1>2, Received

LEMMA WrittenFields ==
  ASSUME TypeInv, NEW port, NEW byte, Write(port, byte)
  PROVE  /\ kbc.ibf = <<>> /\ kbc'.obf = kbc.obf /\ kbc'.ibf = <<port, byte>>
         /\ kbc'.answer = kbc.answer /\ kbc'.modeNext = kbc.modeNext
         /\ kbc'.enabled = kbc.enabled
<1>1. kbc \in Kbcs /\ kbc' = [kbc EXCEPT !.ibf = <<port, byte>>] /\ kbc.ibf = <<>>
  BY DEF TypeInv, DeviceType, Write
<1> QED
  BY ONLY <1>1 DEF Kbcs

\* While GetKey is polled, the initialisation is over.
LEMMA PollingStart ==
  ASSUME at' \in Polling
  PROVE  StartInv'
BY DEF StartInv, Starting, Polling

\* A byte for the keyboard is done: it is answered, or was lost.
LEMMA DobyteReceiveStart ==
  ASSUME TypeInv, StartInv, DobyteReceive PROVE StartInv'
<1> USE DEF Nothing
<1>1. /\ at = "db_recv" /\ ReceiveData /\ z' = (kbc.obf = Ack)
      /\ UNCHANGED <<ret, last_byte, d1, Keyboard_OK, got, kbd, typed>>
  BY DEF DobyteReceive
<1>2. SendingOne /\ Keyboard_OK = 0 /\ got = <<>>
  BY <1>1 DEF StartInv, Starting
<1>3. \/ kbc.obf = Resend /\ at' \in {"db_send", ret}
      \/ kbc.obf # Resend /\ at' = ret
  BY DEF DobyteReceive
<1>4. /\ ret \in {"between", "setrate", "rate0", "enable", "enabled"}
      /\ last_byte = Reset <=> ret = "between"
      /\ ret = "enabled" => last_byte = Enable
  BY <1>2 DEF SendingOne, Bytes, Reset, Enable, Disable, SetRate
<1>5. /\ kbc'.obf = Nothing /\ kbc'.ibf = kbc.ibf /\ kbc'.answer = kbc.answer
      /\ kbc'.modeNext = kbc.modeNext /\ kbc'.enabled = kbc.enabled
      /\ calm' => calm /\ (kbc.obf # Nothing \/ ~Pending)
  BY <1>1, ReceivedFields
<1>6. SendingOne'
  BY ONLY <1>1, <1>2 DEF SendingOne
<1>7. CASE ~calm'
  BY ONLY <1>1, <1>2, <1>3, <1>4, <1>6, <1>7 DEF StartInv, Starting
<1>8. CASE calm'
  <2>1. calm /\ typed' = <<>> /\ (Idle \/ Asking \/ Answering)
    BY <1>1, <1>5, <1>8 DEF StartInv, Starting
  <2>2. kbc.obf # Nothing \/ ~Pending
    BY <1>5, <1>8
  <2>3. ~Asking
    <3>1. last_byte # Nothing
      BY DEF TypeInv, DriverType, Byte
    <3> QED
      BY <2>2, <3>1 DEF Asking, NoAnswer, Pending
  <2>4. CASE Idle
    <3>1. Idle'
      BY ONLY <1>1, <1>5, <2>4 DEF Idle, KbdEmpty, NoAnswer
    <3>2. at' = ret /\ ~z'
      <4>1. kbc.obf # Ack /\ kbc.obf # Resend
        BY <2>4 DEF Idle, NoAnswer, Resend, Ack
      <4>2. at' = ret
        BY ONLY <1>3, <4>1
      <4>3. ~z'
        BY ONLY <1>1, <4>1
      <4> QED
        BY <4>2, <4>3
    <3> QED
      BY ONLY <1>1, <1>2, <1>4, <1>6, <2>1, <3>1, <3>2 DEF StartInv, Starting
  <2>5. CASE Answering
    <3>1. PICK a \in {Ack, Resend} :
            /\ \/ kbc.obf = Nothing /\ kbd.out = <<a>> /\ (kbd.test <=> Restarts(a))
               \/ kbc.obf = a /\ kbd.out = <<>> /\ (kbd.test <=> Restarts(a))
               \/ kbc.obf = Nothing /\ kbd.out = <<a, POR>> /\ ~kbd.test /\ Restarts(a)
               \/ kbc.obf = a /\ kbd.out = <<POR>> /\ ~kbd.test /\ Restarts(a)
            /\ a = Ack /\ last_byte = Enable => kbd.scanning
      BY <2>5 DEF Answering
    <3>2. /\ kbc.ibf = <<>> /\ kbc.answer = Nothing /\ ~kbc.modeNext
          /\ kbd.inbox = Nothing /\ kbc.enabled
      BY <2>5 DEF Answering
    <3>3. kbc.obf = a
      <4>1. kbc.obf = Nothing => kbd.out # <<>>
        BY <3>1, ShortSequences DEF Ack, Resend
      <4> QED
        BY <2>2, <3>1, <3>2, <4>1 DEF Pending
    <3>4. \/ kbd.out = <<>> /\ (kbd.test <=> Restarts(a))
          \/ kbd.out = <<POR>> /\ ~kbd.test /\ Restarts(a)
      BY <3>1, <3>3 DEF Ack, Resend
    <3>5. CASE Restarts(a)
      <4>1. at' = "between"
        BY ONLY <1>3, <1>4, <3>3, <3>5 DEF Restarts, Ack, Resend
      <4>2. Restarting'
        BY ONLY <1>1, <1>5, <3>2, <3>4, <3>5 DEF Restarting
      <4> QED
        BY ONLY <1>1, <1>2, <2>1, <4>1, <4>2 DEF StartInv, Starting
    <3>6. CASE ~Restarts(a)
      <4>1. Idle'
        BY ONLY <1>1, <1>5, <3>2, <3>4, <3>6 DEF Idle, KbdEmpty, NoAnswer
      <4>2. SwitchingOff'
        BY ONLY <4>1 DEF SwitchingOff, Idle
      <4>3. at' = "enabled" /\ z' => kbd'.scanning
        BY ONLY <1>1, <1>3, <1>4, <3>1, <3>3 DEF Ack, Resend
      <4>4. at' \in {"db_send", ret}
        BY ONLY <1>3
      <4> QED
        BY ONLY <1>1, <1>2, <1>4, <1>6, <2>1, <4>1, <4>2, <4>3, <4>4 DEF StartInv, Starting
    <3> QED
      BY <3>5, <3>6
  <2> QED
    BY <2>1, <2>3, <2>4, <2>5
<1> QED
  BY <1>7, <1>8

LEMMA SendCommandStart ==
  ASSUME TypeInv, StartInv, SendCommand PROVE StartInv'
<1>1. PICK c \in Commands : at = c[1] /\ Write("command", c[2]) /\ at' = c[3]
  BY DEF SendCommand
<1>2. UNCHANGED <<Keyboard_OK, got, kbd, typed, calm>>
  BY DEF SendCommand
<1>3. /\ kbc.ibf = <<>> /\ kbc'.obf = kbc.obf /\ kbc'.ibf = <<"command", c[2]>>
      /\ kbc'.answer = kbc.answer /\ kbc'.modeNext = kbc.modeNext
  BY <1>1, WrittenFields
<1>4. CASE at \in Polling
  <2>1. at' \in Polling
    BY <1>1, <1>4 DEF Commands, Polling
  <2> QED
    BY <2>1, PollingStart
<1>5. CASE at \in {"selftest", "kbdtest"}
  <2>1. /\ kbc'.ibf \in {<<"command", SelfTest>>, <<"command", KbdTest>>}
        /\ at' \in {"selftested", "kbdtested"}
    BY <1>1, <1>3, <1>5 DEF Commands
  <2>2. calm => Idle /\ typed = <<>>
    BY <1>5 DEF StartInv, Starting
  <2>3. calm => Testing'
    BY <1>2, <1>3, <2>1, <2>2 DEF Idle, Testing, KbdEmpty, NoAnswer
  <2>4. Keyboard_OK = 0 /\ got = <<>>
    BY <1>5 DEF StartInv, Starting
  <2> QED
    BY ONLY <1>2, <2>1, <2>2, <2>3, <2>4 DEF StartInv, Starting
<1>6. CASE at = "writemode"
  <2>1. kbc'.ibf = <<"command", WriteMode>> /\ at' = "mode"
    <3>1. c[2] = WriteMode /\ c[3] = "mode"
      <4>1. c[1] = "writemode"
        BY <1>1, <1>6
      <4> QED
        BY ONLY <1>1, <4>1 DEF Commands
    <3> QED
      BY <1>1, <1>3, <3>1
  <2>2. calm => Idle /\ typed = <<>>
    BY <1>6 DEF StartInv, Starting
  <2>3. calm => KbdEmpty' /\ NoAnswer' /\ ~kbc'.modeNext
    BY <1>2, <1>3, <2>2 DEF Idle, KbdEmpty, NoAnswer
  <2>4. Keyboard_OK = 0 /\ got = <<>>
    BY <1>6 DEF StartInv, Starting
  <2> QED
    BY ONLY <1>2, <2>1, <2>2, <2>3, <2>4 DEF StartInv, Starting
<1>7. CASE at \in {"off1", "off2"}
  <2>1. kbc'.ibf = <<"command", KbdDisable>> /\ at' \in {"reset", "wait2"}
    BY <1>1, <1>3, <1>7 DEF Commands
  <2>2. calm => KbdEmpty /\ NoAnswer /\ typed = <<>> /\ ~kbc.modeNext
    <3>1. <<"data", Mode>> # <<>>
      OBVIOUS
    <3> QED
      BY <1>3, <1>7, <3>1 DEF StartInv, Starting, Idle
  <2>3. calm => SwitchingOff'
    BY <1>2, <1>3, <2>1, <2>2 DEF KbdEmpty, NoAnswer, SwitchingOff
  <2>4. Keyboard_OK = 0 /\ got = <<>>
    BY <1>7 DEF StartInv, Starting
  <2> QED
    BY ONLY <1>2, <2>1, <2>2, <2>3, <2>4 DEF StartInv, Starting
<1> QED
  BY <1>1, <1>4, <1>5, <1>6, <1>7 DEF Commands, Polling

LEMMA DriverStartStep == TypeInv /\ StartInv /\ (Driver \/ UNCHANGED vars) => StartInv'
<1> SUFFICES ASSUME TypeInv, StartInv, Driver \/ UNCHANGED vars PROVE StartInv'
  OBVIOUS
<1>1. ASSUME at \in Starting PROVE Keyboard_OK = 0 /\ got = <<>> /\ (calm => typed = <<>>)
  BY <1>1 DEF StartInv
<1>2. CASE KbDobyte
  <2>1. PICK b \in Bytes : at = b[1] /\ last_byte' = b[2] /\ ret' = b[3]
    BY <1>2 DEF KbDobyte
  <2>2. at \in {"reset", "disable", "setrate", "rate0", "enable"}
    BY <2>1 DEF Bytes
  <2>3. calm => SwitchingOff
    BY <2>2 DEF StartInv, Idle, SwitchingOff
  <2>4. at' = "db_send" /\ UNCHANGED <<Keyboard_OK, got, kbc, kbd, typed, calm>>
    BY <1>2 DEF KbDobyte
  <2>5. SendingOne' /\ (calm => SwitchingOff')
    BY ONLY <2>1, <2>3, <2>4 DEF SendingOne, SwitchingOff, KbdEmpty, NoAnswer
  <2>6. Keyboard_OK = 0 /\ got = <<>> /\ (calm => typed = <<>>)
    BY <1>1, <2>2 DEF Starting
  <2> QED
    BY ONLY <2>4, <2>5, <2>6 DEF StartInv, Starting
<1>3. CASE DobyteSend
  <2>1. /\ at = "db_send" /\ at' = "db_recv" /\ Write("data", last_byte)
        /\ UNCHANGED <<ret, last_byte, Keyboard_OK, got, kbd, typed, calm>>
    BY <1>3 DEF DobyteSend
  <2>2. /\ kbc.ibf = <<>> /\ kbc'.obf = kbc.obf /\ kbc'.ibf = <<"data", last_byte>>
        /\ kbc'.answer = kbc.answer /\ kbc'.modeNext = kbc.modeNext
    BY <2>1, WrittenFields
  <2>3. SendingOne /\ (calm => SwitchingOff)
    BY <2>1 DEF StartInv
  <2>4. SendingOne' /\ (calm => Asking')
    BY ONLY <2>1, <2>2, <2>3 DEF SendingOne, SwitchingOff, Asking, KbdEmpty, NoAnswer
  <2>5. Keyboard_OK = 0 /\ got = <<>> /\ (calm => typed = <<>>)
    BY <1>1, <2>1 DEF Starting
  <2> QED
    BY ONLY <2>1, <2>4, <2>5 DEF StartInv, Starting
<1>4. CASE Drain
  <2>1. /\ at = "drain" /\ ReceiveData /\ UNCHANGED <<Keyboard_OK, got, kbd, typed>>
        /\ at' = IF kbc.obf = Nothing THEN "selftest" ELSE "drain"
    BY <1>4 DEF Drain
  <2>2. /\ kbc'.obf = Nothing /\ kbc'.ibf = kbc.ibf /\ kbc'.answer = kbc.answer
        /\ kbc'.modeNext = kbc.modeNext /\ kbc'.enabled = kbc.enabled
        /\ calm' => calm /\ (kbc.obf # Nothing \/ ~Pending)
    BY <2>1, ReceivedFields
  <2>3. Keyboard_OK = 0 /\ got = <<>> /\ (calm => typed = <<>>)
    BY <1>1, <2>1 DEF Starting
  <2>4. calm => /\ kbc.ibf = <<>> /\ kbc.answer = Nothing /\ ~kbc.modeNext
                /\ kbd.inbox = Nothing /\ ~kbd.test /\ (kbc.enabled \/ kbd.out = <<>>)
    BY <2>1 DEF StartInv
  <2>5. calm' /\ at' = "selftest" => Idle'
    BY <2>1, <2>2, <2>4 DEF Idle, KbdEmpty, NoAnswer, Pending
  <2>6. at' \in {"selftest", "drain"}
    BY <2>1
  <2> QED
    BY ONLY <2>1, <2>2, <2>3, <2>4, <2>5, <2>6 DEF StartInv, Starting
<1>5. CASE TestResult
  <2>1. /\ at \in {"selftested", "kbdtested"} /\ at' \in {"kbdtest", "writemode", "between"}
        /\ ReceiveData /\ UNCHANGED <<Keyboard_OK, got, kbd, typed>>
    BY <1>5 DEF TestResult
  <2>2. /\ kbc'.obf = Nothing /\ kbc'.ibf = kbc.ibf /\ kbc'.answer = kbc.answer
        /\ kbc'.modeNext = kbc.modeNext
        /\ calm' => calm /\ (kbc.obf # Nothing \/ ~Pending)
    BY <2>1, ReceivedFields
  <2>3. Keyboard_OK = 0 /\ got = <<>> /\ (calm => typed = <<>>)
    BY <1>1, <2>1 DEF Starting
  <2>4. calm => Testing
    BY <2>1 DEF StartInv
  <2>5. calm' => Idle'
    BY <2>1, <2>2, <2>4 DEF Idle, KbdEmpty, NoAnswer, Pending, Testing
  <2> QED
    BY ONLY <2>1, <2>2, <2>3, <2>5 DEF StartInv, Starting
<1>6. CASE SendMode
  <2>1. /\ at = "mode" /\ at' = "off1" /\ Write("data", Mode)
        /\ UNCHANGED <<Keyboard_OK, got, kbd, typed, calm>>
    BY <1>6 DEF SendMode
  <2>2. /\ kbc.ibf = <<>> /\ kbc'.obf = kbc.obf /\ kbc'.ibf = <<"data", Mode>>
        /\ kbc'.answer = kbc.answer /\ kbc'.modeNext = kbc.modeNext
    BY <2>1, WrittenFields
  <2>3. Keyboard_OK = 0 /\ got = <<>> /\ (calm => typed = <<>>)
    BY <1>1, <2>1 DEF Starting
  <2>4. <<"command", WriteMode>> # <<>>
    OBVIOUS
  <2>5. calm => KbdEmpty /\ NoAnswer /\ kbc.modeNext
    BY <2>1, <2>2, <2>4 DEF StartInv
  <2>6. calm => KbdEmpty' /\ NoAnswer' /\ kbc'.modeNext
    BY <2>1, <2>2, <2>5 DEF KbdEmpty, NoAnswer
  <2> QED
    BY ONLY <2>1, <2>2, <2>3, <2>6 DEF StartInv, Starting
<1>7. CASE InitKey2
  <2>1. /\ at = "between" /\ at' = "off2"
        /\ ReceiveData /\ UNCHANGED <<Keyboard_OK, got, kbd, typed>>
    BY <1>7 DEF InitKey2
  <2>2. /\ kbc'.obf = Nothing /\ kbc'.ibf = kbc.ibf /\ kbc'.answer = kbc.answer
        /\ kbc'.modeNext = kbc.modeNext
        /\ calm' => calm /\ (kbc.obf # Nothing \/ ~Pending)
    BY <2>1, ReceivedFields
  <2>3. Keyboard_OK = 0 /\ got = <<>> /\ (calm => typed = <<>>)
    BY <1>1, <2>1 DEF Starting
  <2>4. calm => Idle \/ Restarting
    BY <2>1 DEF StartInv
  <2>5. <<POR>> # <<>>
    OBVIOUS
  <2>6. calm' => Idle'
    BY <2>1, <2>2, <2>4, <2>5 DEF Idle, KbdEmpty, NoAnswer, Pending, Restarting
  <2> QED
    BY ONLY <2>1, <2>2, <2>3, <2>6 DEF StartInv, Starting
<1>8. CASE KbWait
  <2>1. /\ at = "wait2" /\ at' = "disable" /\ kbc.ibf = <<>>
        /\ UNCHANGED <<Keyboard_OK, got, kbc, kbd, typed, calm>>
    BY <1>8 DEF KbWait
  <2>2. Keyboard_OK = 0 /\ got = <<>> /\ (calm => typed = <<>>)
    BY <1>1, <2>1 DEF Starting
  <2>3. calm => SwitchingOff
    BY <2>1 DEF StartInv
  <2>4. calm => Idle'
    BY ONLY <2>1, <2>3 DEF Idle, SwitchingOff, KbdEmpty, NoAnswer
  <2> QED
    BY ONLY <2>1, <2>2, <2>4 DEF StartInv, Starting
<1>9. CASE InitKey2Ends
  BY <1>9, PollingStart DEF InitKey2Ends, Polling
<1>10. CASE GetKey \/ GetByte \/ GetKeyWaits \/ GetSecondByte \/ GetKeyReturns
  <2>1. at' \in Polling
    BY <1>10 DEF GetKey, GetByte, GetKeyWaits, GetSecondByte, GetKeyReturns, Polling
  <2> QED
    BY <2>1, PollingStart
<1>11. CASE UNCHANGED vars
  BY <1>11, StartInv DEF StartInv, SendingOne, Idle, Asking, Answering, Restarts, Restarting,
     Testing, SwitchingOff, KbdEmpty, NoAnswer, vars, driverVars
<1> QED
  BY <1>2, <1>3, <1>4, <1>5, <1>6, <1>7, <1>8, <1>9, <1>10, <1>11, SendCommandStart,
     DobyteReceiveStart DEF Driver

LEMMA StartStep == TypeInv /\ StartInv /\ [Next]_vars => StartInv'
BY DeviceStartStep, DriverStartStep DEF Next, Quiet

LEMMA StartInit == Init => StartInv
<1> SUFFICES ASSUME Init PROVE StartInv
  OBVIOUS
<1>1. /\ at = "drain" /\ Keyboard_OK = 0 /\ got = <<>> /\ typed = <<>>
      /\ calm = (kbc.enabled \/ kbd.out = <<>>)
  BY DEF Init
<1>2. /\ kbc.ibf = <<>> /\ kbc.answer = Nothing /\ ~kbc.modeNext
      /\ kbd.inbox = Nothing /\ ~kbd.test
  BY DEF Init
<1> QED
  BY ONLY <1>1, <1>2 DEF StartInv, Starting

----------------------------------------------------------------------------
(* GetKey: the bytes on their way are the codes of the keys to return        *)

\* The flight with the controller's buffer full, and with it empty.
LEMMA FlightIs ==
  ASSUME NEW b \in Byte, NEW out \in Seq(Byte)
  PROVE  /\ <<b>> \o out \in Seq(Byte) /\ <<b>> \o out # <<>> /\ (<<b>> \o out)[1] = b
         /\ Tail(<<b>> \o out) = out /\ <<>> \o out = out
<1>1. <<b>> \in Seq(Byte) /\ Len(<<b>>) = 1 /\ <<b>>[1] = b
  OBVIOUS
<1> DEFINE F == <<b>> \o out
<1>2. /\ F \in Seq(Byte) /\ Len(F) = 1 + Len(out)
      /\ \A i \in 1..1 + Len(out) : F[i] = IF i <= 1 THEN <<b>>[i] ELSE out[i - 1]
  BY <1>1, ConcatProperties
<1>3. Len(out) \in Nat
  OBVIOUS
<1>4. F # <<>> /\ F[1] = b
  BY <1>1, <1>2, <1>3
<1>5. Tail(F) \in Seq(Byte) /\ Len(Tail(F)) = Len(out)
  BY <1>2, <1>3, <1>4, HeadTailProperties
<1>6. \A i \in 1..Len(Tail(F)) : Tail(F)[i] = out[i]
  <2> SUFFICES ASSUME NEW i \in 1..Len(Tail(F)) PROVE Tail(F)[i] = out[i]
    OBVIOUS
  <2>1. i \in Nat /\ i >= 1 /\ i <= Len(out)
    BY <1>3, <1>5
  <2>2. Tail(F)[i] = F[i + 1]
    BY <1>2, <1>4, HeadTailProperties
  <2>3. F[i + 1] = out[(i + 1) - 1]
    BY <1>2, <1>3, <2>1
  <2>4. (i + 1) - 1 = i
    BY <2>1
  <2> QED
    BY ONLY <2>2, <2>3, <2>4
<1>7. Tail(F) = out
  <2> HIDE DEF F
  <2>1. PICK t : t = Tail(F)
    OBVIOUS
  <2> QED
    BY <1>5, <1>6, <2>1, SeqEqual
<1>8. <<>> \o out = out
  BY ConcatEmptySeq
<1> QED
  BY <1>2, <1>4, <1>7, <1>8

\* What the invariants say while GetKey is polled and no answer was late.
Polled == TypeInv /\ LinkInv /\ KeysInv /\ CursorInv /\ at \in Polling

LEMMA FlightType ==
  ASSUME TypeInv
  PROVE  /\ Flight \in Seq(Byte) /\ kbd.out \in Seq(Byte)
         /\ kbc.obf = Nothing => Flight = kbd.out
         /\ kbc.obf # Nothing => /\ Flight = <<kbc.obf>> \o kbd.out /\ Flight # <<>>
                                 /\ Flight[1] = kbc.obf /\ Tail(Flight) = kbd.out
                                 /\ kbc.obf \in Byte
<1>1. kbd.out \in Seq(Byte) /\ kbc.obf \in Byte \cup {Nothing}
  BY DEF TypeInv, DeviceType, Kbcs, Kbds
<1>2. CASE kbc.obf = Nothing
  <2>1. Flight = <<>> \o kbd.out
    BY <1>2 DEF Flight
  <2>2. <<>> \o kbd.out = kbd.out
    BY <1>1, ConcatEmptySeq
  <2> QED
    BY <1>1, <1>2, <2>1, <2>2
<1>3. CASE kbc.obf # Nothing
  <2>1. Flight = <<kbc.obf>> \o kbd.out
    BY <1>3 DEF Flight
  <2>2. kbc.obf \in Byte
    BY <1>1, <1>3
  <2> QED
    BY <1>1, <1>3, <2>1, <2>2, FlightIs
<1> QED
  BY <1>2, <1>3

\* The place of the next code stays where it is when nothing is read or typed.
LEMMA CursorKept ==
  ASSUME CursorInv, Flight' = Flight, UNCHANGED <<at, typed, got, d1>>
  PROVE  CursorInv'
BY DEF CursorInv, Fresh, Torn

LEMMA KeysKept ==
  ASSUME KeysInv, UNCHANGED <<typed, got>>
  PROVE  KeysInv'
BY DEF KeysInv

\* A key that is typed changes neither the place of the next code nor the keys before it.
LEMMA TypedKept ==
  ASSUME Polled, Type
  PROVE  LinkInv' /\ KeysInv' /\ CursorInv'
<1>1. DriverType /\ kbc \in Kbcs /\ kbd \in Kbds /\ typed \in Seq(KeyCodes)
  BY DEF Polled, TypeInv, DeviceType, HistoryType
<1>2. PICK k \in Keys : /\ kbd' = [kbd EXCEPT !.out = @ \o ScanCodes(k)]
                        /\ typed' = Append(typed, GetKeyCode(k))
  BY DEF Type
<1>3. UNCHANGED <<at, got, d1, kbc>>
  BY DEF Type, driverVars
<1>4. PICK v, C : v = GetKeyCode(k) /\ C = ScanCodes(k)
  OBVIOUS
<1>5. /\ v \in KeyCodes /\ C \in Seq(Byte) /\ Len(C) = Width(v)
      /\ \A j \in 1..Width(v) : C[j] = ScanCode(v, j)
  BY <1>4, CodesOfKey
<1>6. /\ kbd'.out = kbd.out \o C /\ kbd'.inbox = kbd.inbox /\ kbd'.test = kbd.test
      /\ kbd'.scanning = kbd.scanning
  BY <1>1, <1>2, <1>4 DEF Kbds
<1>7. LinkInv'
  BY <1>3, <1>6 DEF Polled, LinkInv
<1>8. /\ typed' = Append(typed, v) /\ Len(typed') = Len(typed) + 1 /\ Len(typed) \in Nat
      /\ \A i \in 1..Len(typed) : typed'[i] = typed[i]
  BY <1>1, <1>2, <1>4, <1>5, AppendProperties
<1>9. Len(got) \in Nat /\ Len(got) <= Len(typed)
  BY <1>1 DEF Polled, KeysInv, DriverType
<1>10. KeysInv'
  BY <1>3, <1>8, <1>9 DEF Polled, KeysInv
<1>11. Flight \in Seq(Byte) /\ kbd.out \in Seq(Byte)
  BY FlightType DEF Polled
<1>12. Flight' = Flight \o C
  <2>1. PICK h : h = (IF kbc.obf = Nothing THEN <<>> ELSE <<kbc.obf>>)
    OBVIOUS
  <2>2. h \in Seq(Byte)
    BY <1>1, <2>1 DEF Kbcs
  <2>3. Flight = h \o kbd.out
    BY <2>1 DEF Flight
  <2>4. Flight' = h \o (kbd.out \o C)
    BY <1>3, <1>6, <2>1 DEF Flight
  <2>5. (h \o kbd.out) \o C = h \o (kbd.out \o C)
    <3>1. PICK o : o = kbd.out
      OBVIOUS
    <3>2. o \in Seq(Byte)
      BY <1>11, <3>1
    <3>3. C \in Seq(Byte)
      BY <1>5
    <3>4. (h \o o) \o C = h \o (o \o C)
      BY ONLY <2>2, <3>2, <3>3, ConcatAssociative
    <3> QED
      BY ONLY <3>1, <3>4
  <2> QED
    BY <2>3, <2>4, <2>5
<1>13. ASSUME NEW n, NEW r, Follows(Flight, typed, n, r)
       PROVE  Follows(Flight', typed', n, r)
  <2>1. Follows(Flight \o C, Append(typed, v), n, r)
    BY ONLY <1>1, <1>5, <1>11, <1>13, TypedFollows
  <2> QED
    BY ONLY <1>8, <1>12, <2>1
<1>14. ASSUME NEW n \in Nat, n <= Len(typed), Fresh(n)
       PROVE  Fresh(n)'
  <2>1. n > 0 => typed'[n] = typed[n]
    BY <1>8, <1>14
  <2> QED
    BY ONLY <1>13, <1>14, <2>1 DEF Fresh
<1>15. ASSUME NEW n \in Nat, n <= Len(typed), Torn(n)
       PROVE  Torn(n)'
  <2>1. n > 0 => typed'[n] = typed[n]
    BY <1>8, <1>15
  <2>2. n < Len(typed) => typed'[n + 1] = typed[n + 1] /\ n < Len(typed')
    BY <1>8, <1>15
  <2> QED
    BY ONLY <1>13, <1>15, <2>1, <2>2 DEF Torn
<1>16. CursorInv
  BY DEF Polled
<1>17. PICK g : g = Len(got)
  OBVIOUS
<1>18. g \in Nat /\ g <= Len(typed) /\ g = Len(got')
  BY <1>3, <1>9, <1>17
<1>19. ASSUME at \in {"poll", "gk_off", "gk_read"} PROVE CursorInv'
  <2>1. Fresh(g)
    BY ONLY <1>16, <1>17, <1>19 DEF CursorInv
  <2>2. Fresh(g)'
    BY ONLY <1>14, <1>18, <2>1
  <2> QED
    BY ONLY <1>3, <1>17, <1>18, <1>19, <2>2 DEF CursorInv, Fresh
<1>20. ASSUME at \in {"gk_on", "gk_wait", "gk_off2", "gk_read2"} PROVE CursorInv'
  <2>1. Torn(g)
    BY ONLY <1>16, <1>17, <1>20 DEF CursorInv
  <2>2. Torn(g)'
    BY ONLY <1>15, <1>18, <2>1
  <2> QED
    BY ONLY <1>3, <1>17, <1>18, <1>20, <2>2 DEF CursorInv, Torn
<1>21. ASSUME at \in {"gk_beenden", "return"} PROVE CursorInv'
  <2>1. ASSUME d1 = 0 PROVE CursorInv'
    <3>1. Fresh(g)
      BY ONLY <1>16, <1>17, <1>21, <2>1 DEF CursorInv
    <3>2. Fresh(g)'
      BY ONLY <1>14, <1>18, <3>1
    <3> QED
      BY ONLY <1>3, <1>17, <1>18, <1>21, <2>1, <3>2 DEF CursorInv, Fresh
  <2>2. ASSUME d1 # 0 PROVE CursorInv'
    <3>1. g < Len(typed) /\ typed[g + 1] = d1 /\ Fresh(g + 1)
      BY ONLY <1>16, <1>17, <1>21, <2>2 DEF CursorInv
    <3>2. g + 1 \in Nat /\ g + 1 <= Len(typed) /\ g + 1 \in 1..Len(typed) /\ g < Len(typed')
      BY ONLY <1>8, <1>18, <3>1
    <3>3. Fresh(g + 1)' /\ typed'[g + 1] = d1
      BY ONLY <1>8, <1>14, <3>1, <3>2
    <3> QED
      BY ONLY <1>3, <1>17, <1>18, <1>21, <2>2, <3>2, <3>3 DEF CursorInv, Fresh
  <2> QED
    BY <2>1, <2>2
<1>22. at \in {"poll", "gk_off", "gk_read", "gk_on", "gk_wait", "gk_off2", "gk_read2",
              "gk_beenden", "return"}
  BY DEF Polled, Polling
<1>23. CursorInv'
  BY ONLY <1>19, <1>20, <1>21, <1>22
<1> QED
  BY <1>7, <1>10, <1>23

\* The devices: the controller turns its interface on or off, or a byte moves on.
LEMMA DevicesKept ==
  ASSUME Polled, Kbc \/ Kbd
  PROVE  LinkInv' /\ KeysInv' /\ CursorInv'
<1>1. kbc \in Kbcs /\ kbd \in Kbds /\ LinkInv /\ TypeInv
  BY DEF Polled, TypeInv, DeviceType
<1>2. KbcTakes \/ KbdSends
  BY <1>1 DEF LinkInv, Kbc, Kbd, KbcAnswers, KbdAnswers, KbdWantsAgain, KbdLoses, KbdTested
<1>3. UNCHANGED <<at, got, d1, typed>>
  BY <1>2 DEF KbcTakes, KbdSends, driverVars
<1>4. ASSUME LinkInv', Flight' = Flight PROVE LinkInv' /\ KeysInv' /\ CursorInv'
  BY <1>3, <1>4, CursorKept, KeysKept DEF Polled
<1>5. CASE KbcTakes
  <2>1. kbc.ibf \in {<<"command", KbdDisable>>, <<"command", KbdEnable>>}
    BY <1>1, <1>5, Taken DEF LinkInv
  <2>2. /\ kbc'.obf = kbc.obf /\ kbc'.ibf = <<>> /\ kbc'.answer = kbc.answer
        /\ kbc'.modeNext = kbc.modeNext /\ kbd' = kbd
    BY <1>1, <1>5, <2>1, Taken DEF SelfTest, KbdTest, WriteMode, KbdDisable, KbdEnable
  <2>3. LinkInv' /\ Flight' = Flight
    BY <1>1, <2>2 DEF LinkInv, Flight
  <2> QED
    BY <1>4, <2>3
<1>6. CASE KbdSends
  <2>1. PICK b, t : b = Head(kbd.out) /\ t = Tail(kbd.out)
    OBVIOUS
  <2>2. kbd.out # <<>> /\ kbd.out \in Seq(Byte) /\ kbc.obf = Nothing
    BY <1>1, <1>6 DEF KbdSends, Kbds
  <2>3. b \in Byte /\ t \in Seq(Byte) /\ <<b>> \o t = kbd.out
    <3>1. b \in Byte /\ t \in Seq(Byte)
      BY <2>1, <2>2
    <3>2. /\ Len(t) = Len(kbd.out) - 1 /\ Len(kbd.out) \in Nat /\ Len(kbd.out) > 0
          /\ \A i \in 1..Len(t) : t[i] = kbd.out[i + 1]
      BY <2>1, <2>2, HeadTailProperties
    <3>3. kbd.out[1] = b
      BY <2>1, <2>2
    <3>4. PICK w : w = <<b>> \o t
      OBVIOUS
    <3>5. PICK o : o = kbd.out
      OBVIOUS
    <3>6. <<b>> \in Seq(Byte) /\ Len(<<b>>) = 1 /\ <<b>>[1] = b
      BY <3>1
    <3>7. /\ w \in Seq(Byte) /\ Len(w) = 1 + Len(t)
          /\ \A i \in 1..1 + Len(t) : w[i] = IF i <= 1 THEN <<b>>[i] ELSE t[i - 1]
      BY <3>1, <3>4, <3>6, ConcatProperties
    <3>8. Len(w) = Len(o)
      BY ONLY <3>2, <3>5, <3>7
    <3>9. ASSUME NEW i \in 1..Len(w) PROVE w[i] = o[i]
      <4>1. i \in Nat /\ i >= 1 /\ i <= Len(o) /\ i \in 1..1 + Len(t)
        BY ONLY <3>2, <3>5, <3>7, <3>8, <3>9
      <4>2. CASE i = 1
        BY ONLY <3>3, <3>5, <3>6, <3>7, <4>1, <4>2
      <4>3. CASE i > 1
        <5>1. w[i] = t[i - 1] /\ i - 1 \in 1..Len(t) /\ (i - 1) + 1 = i
          BY ONLY <3>2, <3>5, <3>7, <4>1, <4>3
        <5> QED
          BY ONLY <3>2, <3>5, <5>1
      <4> QED
        BY ONLY <4>1, <4>2, <4>3
    <3>10. w = o
      BY ONLY <2>2, <3>5, <3>7, <3>8, <3>9, SeqEqual
    <3> QED
      BY <3>1, <3>4, <3>5, <3>10
  <2>4. /\ kbc'.obf = b /\ kbc'.ibf = kbc.ibf /\ kbc'.answer = kbc.answer
        /\ kbc'.modeNext = kbc.modeNext
        /\ kbd'.out = t /\ kbd'.test = kbd.test /\ kbd'.inbox = kbd.inbox
        /\ kbd'.scanning = kbd.scanning
    BY <1>1, <1>6, <2>1 DEF KbdSends, Kbcs, Kbds
  <2>5. LinkInv'
    BY <1>1, <2>4 DEF LinkInv
  <2>6. Flight = kbd.out
    BY <1>1, <2>2, FlightType
  <2>7. b # Nothing
    BY <2>3 DEF Byte, Nothing
  <2>8. Flight' = <<b>> \o t
    BY <2>4, <2>7 DEF Flight
  <2> QED
    BY <1>4, <2>3, <2>5, <2>6, <2>8
<1> QED
  BY <1>2, <1>5, <1>6

\* What GetByte and GetSecondByte find, and what is left behind it.
LEMMA NextCode ==
  ASSUME Polled, kbc.obf # Nothing, NEW n, NEW r, Follows(Flight, typed, n, r)
  PROVE  /\ n \in 1..Len(typed) /\ typed[n] \in KeyCodes /\ r \in 1..Width(typed[n])
         /\ kbc.obf = ScanCode(typed[n], r) /\ kbc.obf \in Byte
         /\ IF r = Width(typed[n]) THEN Follows(kbd.out, typed, n + 1, 1)
                                   ELSE Follows(kbd.out, typed, n, r + 1)
<1>1. /\ Flight \in Seq(Byte) /\ Flight # <<>> /\ Flight[1] = kbc.obf
      /\ Tail(Flight) = kbd.out /\ kbc.obf \in Byte
  BY FlightType DEF Polled
<1>2. typed \in Seq(KeyCodes)
  BY DEF Polled, TypeInv, HistoryType
<1>3. PICK F, t : F = Flight /\ t = typed
  OBVIOUS
<1>4. /\ F \in Seq(Byte) /\ F # <<>> /\ t \in Seq(KeyCodes) /\ Follows(F, t, n, r)
  BY <1>1, <1>2, <1>3
<1>5. /\ n \in 1..Len(t) /\ r \in 1..Width(t[n])
      /\ F[1] = ScanCode(t[n], r)
      /\ IF r = Width(t[n]) THEN Follows(Tail(F), t, n + 1, 1)
                            ELSE Follows(Tail(F), t, n, r + 1)
  BY ONLY <1>4, NextFollows
<1>6. t[n] \in KeyCodes
  BY <1>4, <1>5
<1> QED
  BY ONLY <1>1, <1>3, <1>5, <1>6

\* The first byte of a call: a key without E0, the break code of the last one, or an E0.
LEMMA GetByteKept ==
  ASSUME Polled, GetByte PROVE LinkInv' /\ KeysInv' /\ CursorInv'
<1>1. /\ at = "gk_read" /\ kbc' = [kbc EXCEPT !.obf = Nothing]
      /\ d1' = (IF kbc.obf < 128 THEN kbc.obf ELSE 0)
      /\ at' = (IF kbc.obf = Extended THEN "gk_on" ELSE "gk_beenden")
      /\ UNCHANGED <<got, kbd, typed>>
  BY DEF GetByte
<1>2. kbc \in Kbcs /\ kbc.obf # Nothing /\ got \in Seq(1..255)
  BY <1>1 DEF Polled, TypeInv, DeviceType, SeenInv, DriverType
<1>3. /\ kbc'.obf = Nothing /\ kbc'.ibf = kbc.ibf /\ kbc'.answer = kbc.answer
      /\ kbc'.modeNext = kbc.modeNext
  BY ONLY <1>1, <1>2 DEF Kbcs
<1>4. LinkInv' /\ KeysInv'
  BY <1>1, <1>3, KeysKept DEF Polled, LinkInv
<1>5. Flight' = kbd.out
  <2>1. kbd.out \in Seq(Byte)
    BY FlightType DEF Polled
  <2>2. <<>> \o kbd.out = kbd.out
    BY <2>1, ConcatEmptySeq
  <2> QED
    BY <1>1, <1>3, <2>2 DEF Flight
<1>6. PICK g : g = Len(got)
  OBVIOUS
<1>7. g \in Nat /\ g <= Len(typed) /\ Len(typed) \in Nat /\ g = Len(got') /\ typed' = typed
  BY <1>1, <1>2, <1>6 DEF Polled, KeysInv, TypeInv, HistoryType
<1>8. Fresh(g)
  BY <1>1, <1>6 DEF Polled, CursorInv
<1>9. ASSUME at' = "gk_beenden", d1' = 0, Fresh(g)' PROVE CursorInv'
  BY ONLY <1>7, <1>9 DEF CursorInv, Fresh
<1>10. CASE Follows(Flight, typed, g + 1, 1)
  <2>1. /\ g + 1 \in 1..Len(typed) /\ typed[g + 1] \in KeyCodes
        /\ kbc.obf = ScanCode(typed[g + 1], 1)
        /\ IF 1 = Width(typed[g + 1]) THEN Follows(kbd.out, typed, (g + 1) + 1, 1)
                                      ELSE Follows(kbd.out, typed, g + 1, 1 + 1)
    BY ONLY <1>2, <1>10, Polled, NextCode
  <2>2. Follows(kbd.out, typed, g + 1, 2)
    BY <2>1, WidthType
  <2>3. PICK v : v = typed[g + 1]
    OBVIOUS
  <2>4. v \in 1..255 /\ kbc.obf = ScanCode(v, 1)
    BY <2>1, <2>3 DEF KeyCodes
  <2>5. CASE v < 128
    <3>1. kbc.obf = v /\ kbc.obf # Extended
      BY ONLY <2>4, <2>5 DEF ScanCode, Extended
    <3>2. at' = "gk_beenden" /\ d1' = v /\ v # 0
      BY ONLY <1>1, <2>4, <2>5, <3>1
    <3>3. Fresh(g + 1)'
      <4>1. typed'[g + 1] < 128 /\ Follows(Flight', typed', g + 1, 2) /\ g + 1 > 0
        BY ONLY <1>5, <1>7, <2>2, <2>3, <2>5
      <4> QED
        BY ONLY <4>1 DEF Fresh
    <3>4. Len(got') < Len(typed') /\ typed'[Len(got') + 1] = d1'
      BY ONLY <1>7, <2>1, <2>3, <3>2
    <3>5. CursorInv'
      BY ONLY <1>7, <3>2, <3>3, <3>4 DEF CursorInv, Fresh
    <3> QED
      BY <1>4, <3>5
  <2>6. CASE v >= 128
    <3>1. kbc.obf = Extended
      BY ONLY <2>4, <2>6 DEF ScanCode
    <3>2. at' = "gk_on"
      BY ONLY <1>1, <3>1
    <3>3. /\ g < Len(typed') /\ typed'[g + 1] >= 128
          /\ Follows(Flight', typed', g + 1, 2)
      BY ONLY <1>5, <1>7, <2>1, <2>2, <2>3, <2>6
    <3>4. CursorInv'
      BY ONLY <1>7, <3>2, <3>3 DEF CursorInv, Torn
    <3> QED
      BY <1>4, <3>4
  <2> QED
    BY <2>4, <2>5, <2>6
<1>11. CASE g > 0 /\ typed[g] < 128 /\ Follows(Flight, typed, g, 2)
  <2>1. /\ typed[g] \in KeyCodes /\ kbc.obf = ScanCode(typed[g], 2)
        /\ IF 2 = Width(typed[g]) THEN Follows(kbd.out, typed, g + 1, 1)
                                  ELSE Follows(kbd.out, typed, g, 2 + 1)
    BY ONLY <1>2, <1>11, Polled, NextCode
  <2>2. Follows(kbd.out, typed, g + 1, 1)
    BY <1>11, <2>1 DEF Width
  <2>3. PICK v : v = typed[g]
    OBVIOUS
  <2>4. v \in 1..127 /\ v # 96
    BY <1>11, <2>1, <2>3 DEF KeyCodes
  <2>5. kbc.obf = v + 128 /\ kbc.obf # Extended /\ kbc.obf \in 129..255
    BY <2>1, <2>3, <2>4 DEF ScanCode, Extended
  <2>6. at' = "gk_beenden" /\ d1' = 0
    BY ONLY <1>1, <2>5
  <2>7. Fresh(g)'
    BY ONLY <1>5, <1>7, <2>2 DEF Fresh
  <2> QED
    BY <1>4, <1>9, <2>6, <2>7
<1>12. CASE g > 0 /\ typed[g] >= 128 /\ Follows(Flight, typed, g, 3)
  <2>1. /\ typed[g] \in KeyCodes /\ kbc.obf = ScanCode(typed[g], 3)
        /\ IF 3 = Width(typed[g]) THEN Follows(kbd.out, typed, g + 1, 1)
                                  ELSE Follows(kbd.out, typed, g, 3 + 1)
    BY ONLY <1>2, <1>12, Polled, NextCode
  <2>2. Follows(kbd.out, typed, g, 4)
    BY <2>1, WidthType
  <2>3. PICK v : v = typed[g]
    OBVIOUS
  <2>4. v \in 128..255
    BY <1>12, <2>1, <2>3 DEF KeyCodes
  <2>5. kbc.obf = Extended
    BY <2>1, <2>3, <2>4 DEF ScanCode
  <2>6. at' = "gk_on"
    BY ONLY <1>1, <2>5
  <2>7. g > 0 /\ typed'[g] >= 128 /\ Follows(Flight', typed', g, 4)
    BY ONLY <1>5, <1>7, <1>12, <2>2
  <2>8. CursorInv'
    BY ONLY <1>7, <2>6, <2>7 DEF CursorInv, Torn
  <2> QED
    BY <1>4, <2>8
<1> QED
  BY <1>8, <1>10, <1>11, <1>12 DEF Fresh

\* The byte behind an E0: a key, or its break code.
LEMMA GetSecondByteKept ==
  ASSUME Polled, GetSecondByte PROVE LinkInv' /\ KeysInv' /\ CursorInv'
<1>1. /\ at = "gk_read2" /\ kbc' = [kbc EXCEPT !.obf = Nothing] /\ at' = "gk_beenden"
      /\ d1' = (IF kbc.obf \in 0..127 THEN kbc.obf + 128 ELSE 0)
      /\ UNCHANGED <<got, kbd, typed>>
  BY DEF GetSecondByte, ReceiveData
<1>2. kbc \in Kbcs /\ kbc.obf # Nothing /\ got \in Seq(1..255)
  BY <1>1 DEF Polled, TypeInv, DeviceType, SeenInv, DriverType
<1>3. /\ kbc'.obf = Nothing /\ kbc'.ibf = kbc.ibf /\ kbc'.answer = kbc.answer
      /\ kbc'.modeNext = kbc.modeNext
  BY ONLY <1>1, <1>2 DEF Kbcs
<1>4. LinkInv' /\ KeysInv'
  BY <1>1, <1>3, KeysKept DEF Polled, LinkInv
<1>5. Flight' = kbd.out
  <2>1. kbd.out \in Seq(Byte)
    BY FlightType DEF Polled
  <2>2. <<>> \o kbd.out = kbd.out
    BY <2>1, ConcatEmptySeq
  <2> QED
    BY <1>1, <1>3, <2>2 DEF Flight
<1>6. PICK g : g = Len(got)
  OBVIOUS
<1>7. g \in Nat /\ g <= Len(typed) /\ Len(typed) \in Nat /\ g = Len(got') /\ typed' = typed
  BY <1>1, <1>2, <1>6 DEF Polled, KeysInv, TypeInv, HistoryType
<1>8. Torn(g)
  BY <1>1, <1>6 DEF Polled, CursorInv
<1>9. CASE g < Len(typed) /\ typed[g + 1] >= 128 /\ Follows(Flight, typed, g + 1, 2)
  <2>1. /\ typed[g + 1] \in KeyCodes /\ kbc.obf = ScanCode(typed[g + 1], 2)
        /\ IF 2 = Width(typed[g + 1]) THEN Follows(kbd.out, typed, (g + 1) + 1, 1)
                                      ELSE Follows(kbd.out, typed, g + 1, 2 + 1)
    BY ONLY <1>2, <1>9, Polled, NextCode
  <2>2. PICK v : v = typed[g + 1]
    OBVIOUS
  <2>3. v \in 129..255
    <3>1. v \in KeyCodes /\ v >= 128
      BY ONLY <1>9, <2>1, <2>2
    <3> QED
      BY ONLY <3>1 DEF KeyCodes
  <2>4. Follows(kbd.out, typed, g + 1, 3)
    BY <2>1, <2>2, <2>3 DEF Width
  <2>5. kbc.obf = v - 128 /\ kbc.obf \in 0..127
    BY <2>1, <2>2, <2>3 DEF ScanCode
  <2>6. d1' = v /\ v # 0
    BY ONLY <1>1, <2>3, <2>5
  <2>7. Fresh(g + 1)'
    <3>1. typed'[g + 1] >= 128 /\ Follows(Flight', typed', g + 1, 3) /\ g + 1 > 0
      BY ONLY <1>5, <1>7, <1>9, <2>4
    <3> QED
      BY ONLY <3>1 DEF Fresh
  <2>8. Len(got') < Len(typed') /\ typed'[Len(got') + 1] = d1'
    BY ONLY <1>7, <1>9, <2>2, <2>6
  <2>9. CursorInv'
    BY ONLY <1>1, <1>7, <2>6, <2>7, <2>8 DEF CursorInv, Fresh
  <2> QED
    BY <1>4, <2>9
<1>10. CASE g > 0 /\ typed[g] >= 128 /\ Follows(Flight, typed, g, 4)
  <2>1. /\ typed[g] \in KeyCodes /\ kbc.obf = ScanCode(typed[g], 4)
        /\ IF 4 = Width(typed[g]) THEN Follows(kbd.out, typed, g + 1, 1)
                                  ELSE Follows(kbd.out, typed, g, 4 + 1)
    BY ONLY <1>2, <1>10, Polled, NextCode
  <2>2. PICK v : v = typed[g]
    OBVIOUS
  <2>3. v \in 129..255
    BY <1>10, <2>1, <2>2 DEF KeyCodes
  <2>4. Follows(kbd.out, typed, g + 1, 1)
    BY <2>1, <2>2, <2>3 DEF Width
  <2>5. kbc.obf = v
    BY <2>1, <2>2, <2>3 DEF ScanCode
  <2>6. d1' = 0
    BY ONLY <1>1, <2>3, <2>5
  <2>7. Fresh(g)'
    BY ONLY <1>5, <1>7, <2>4 DEF Fresh
  <2>8. CursorInv'
    BY ONLY <1>1, <1>7, <2>6, <2>7 DEF CursorInv, Fresh
  <2> QED
    BY <1>4, <2>8
<1> QED
  BY <1>8, <1>9, <1>10 DEF Torn

\* A key that is returned is the next one that was typed.
LEMMA GetKeyReturnsKept ==
  ASSUME Polled, GetKeyReturns PROVE LinkInv' /\ KeysInv' /\ CursorInv'
<1>1. /\ at = "return" /\ at' = "poll" /\ got' = (IF d1 # 0 THEN Append(got, d1) ELSE got)
      /\ UNCHANGED <<kbc, kbd, typed>>
  BY DEF GetKeyReturns
<1>2. got \in Seq(1..255) /\ d1 \in Byte /\ typed \in Seq(KeyCodes)
  BY DEF Polled, TypeInv, DriverType, HistoryType
<1>3. LinkInv' /\ Flight' = Flight
  BY <1>1 DEF Polled, LinkInv, Flight
<1>4. PICK g : g = Len(got)
  OBVIOUS
<1>5. g \in Nat /\ g <= Len(typed) /\ Len(typed) \in Nat /\ \A i \in 1..g : got[i] = typed[i]
  BY <1>2, <1>4 DEF Polled, KeysInv
<1>6. IF d1 = 0 THEN Fresh(g) ELSE g < Len(typed) /\ typed[g + 1] = d1 /\ Fresh(g + 1)
  BY <1>1, <1>4 DEF Polled, CursorInv
<1>7. CASE d1 = 0
  <2>1. got' = got
    BY <1>1, <1>7
  <2>2. KeysInv'
    BY <1>1, <2>1, KeysKept DEF Polled
  <2>3. CursorInv'
    BY ONLY <1>1, <1>3, <1>4, <1>6, <1>7, <2>1 DEF CursorInv, Fresh
  <2> QED
    BY <1>3, <2>2, <2>3
<1>8. CASE d1 # 0
  <2>1. d1 \in 1..255 /\ got' = Append(got, d1)
    BY <1>1, <1>2, <1>8 DEF Byte
  <2>2. Len(got') = g + 1 /\ got'[g + 1] = d1 /\ \A i \in 1..g : got'[i] = got[i]
    BY <1>2, <1>4, <2>1, AppendProperties
  <2>3. KeysInv'
    <3>1. ASSUME NEW i \in 1..g + 1 PROVE got'[i] = typed[i]
      <4>1. i = g + 1 \/ i \in 1..g
        BY <1>5
      <4> QED
        BY <1>5, <1>6, <1>8, <2>2, <4>1
    <3> QED
      BY <1>1, <1>5, <1>6, <1>8, <2>2, <3>1 DEF KeysInv
  <2>4. PICK h : h = g + 1
    OBVIOUS
  <2>5. Fresh(h) /\ Len(got') = h
    BY <1>6, <1>8, <2>2, <2>4
  <2>6. CursorInv'
    BY ONLY <1>1, <1>3, <2>5 DEF CursorInv, Fresh
  <2> QED
    BY <1>3, <2>3, <2>6
<1> QED
  BY <1>7, <1>8

LEMMA DriverKept ==
  ASSUME Polled, Driver PROVE LinkInv' /\ KeysInv' /\ CursorInv'
<1>1. \/ SendCommand \/ GetKey \/ GetByte \/ GetKeyWaits \/ GetSecondByte \/ GetKeyReturns
  <2>1. at \in Polling
    BY DEF Polled
  <2>2. ~(KbDobyte \/ DobyteSend \/ DobyteReceive \/ Drain \/ TestResult \/ SendMode
          \/ InitKey2 \/ KbWait \/ InitKey2Ends)
    BY <2>1 DEF Polling, KbDobyte, Bytes, DobyteSend, DobyteReceive, Drain, TestResult,
                SendMode, InitKey2, KbWait, InitKey2Ends
  <2> QED
    BY <2>2 DEF Driver
<1>2. ASSUME LinkInv', Flight' = Flight, CursorInv', UNCHANGED <<typed, got>>
      PROVE  LinkInv' /\ KeysInv' /\ CursorInv'
  BY <1>2, KeysKept DEF Polled
<1>3. CASE SendCommand
  <2>1. PICK c \in Commands : at = c[1] /\ Write("command", c[2]) /\ at' = c[3]
    BY <1>3 DEF SendCommand
  <2>2. UNCHANGED <<d1, got, kbd, typed>>
    BY <1>3 DEF SendCommand
  <2>3. /\ kbc'.obf = kbc.obf /\ kbc'.ibf = <<"command", c[2]>>
        /\ kbc'.answer = kbc.answer /\ kbc'.modeNext = kbc.modeNext
    BY <2>1, WrittenFields DEF Polled
  <2>4. /\ c[2] \in {KbdDisable, KbdEnable}
        /\ \/ at = "gk_off" /\ at' = "gk_read"
           \/ at \in {"gk_on", "gk_off2"} /\ at' \in {"gk_wait", "gk_read2"}
           \/ at = "gk_beenden" /\ at' = "return"
    BY <2>1 DEF Polled, Polling, Commands
  <2>5. LinkInv' /\ Flight' = Flight
    BY <2>2, <2>3, <2>4 DEF Polled, LinkInv, Flight
  <2>6. CursorInv
    BY DEF Polled
  <2>7. CursorInv'
    BY ONLY <2>2, <2>4, <2>5, <2>6 DEF CursorInv, Fresh, Torn
  <2> QED
    BY <1>2, <2>2, <2>5, <2>7
<1>4. CASE GetKey
  <2>1. at = "poll" /\ at' = "gk_off" /\ UNCHANGED <<got, kbc, kbd, typed>>
    BY <1>4 DEF GetKey
  <2>2. LinkInv' /\ Flight' = Flight
    BY <2>1 DEF Polled, LinkInv, Flight
  <2>3. CursorInv
    BY DEF Polled
  <2>4. CursorInv'
    BY ONLY <2>1, <2>2, <2>3 DEF CursorInv, Fresh
  <2> QED
    BY <1>2, <2>1, <2>2, <2>4
<1>5. CASE GetKeyWaits
  <2>1. at = "gk_wait" /\ at' = "gk_off2" /\ UNCHANGED <<got, kbc, kbd, typed>>
    BY <1>5 DEF GetKeyWaits
  <2>2. LinkInv' /\ Flight' = Flight
    BY <2>1 DEF Polled, LinkInv, Flight
  <2>3. CursorInv
    BY DEF Polled
  <2>4. CursorInv'
    BY ONLY <2>1, <2>2, <2>3 DEF CursorInv, Torn
  <2> QED
    BY <1>2, <2>1, <2>2, <2>4
<1> QED
  BY <1>1, <1>3, <1>4, <1>5, GetByteKept, GetSecondByteKept, GetKeyReturnsKept

\* Polling starts with a keyboard that scans and nothing on its way.
LEMMA PollingStarts ==
  ASSUME TypeInv, StartInv, InitKey2Ends, Keyboard_OK' = 1, calm'
  PROVE  LinkInv' /\ KeysInv' /\ CursorInv'
<1>1. /\ at = "enabled" /\ at' = "poll" /\ UNCHANGED <<got, kbc, kbd, typed, calm>>
      /\ Keyboard_OK' = IF z THEN 1 ELSE Keyboard_OK
  BY DEF InitKey2Ends
<1>2. Keyboard_OK = 0 /\ got = <<>> /\ typed = <<>> /\ Idle /\ (z => kbd.scanning)
  BY <1>1 DEF StartInv, Starting
<1>3. kbd.scanning
  BY <1>1, <1>2
<1>4. LinkInv'
  BY <1>1, <1>2, <1>3 DEF LinkInv, Idle, KbdEmpty, NoAnswer
<1>5. Flight' = <<>> \o <<>>
  BY <1>1, <1>2 DEF Flight, Idle, KbdEmpty, NoAnswer
<1>6. <<>> \o <<>> = <<>>
  <2>1. <<>> \in Seq(Byte)
    OBVIOUS
  <2> QED
    BY <2>1, ConcatEmptySeq
<1>7. Flight' = <<>> /\ Len(got') = 0 /\ typed' = <<>> /\ 0 + 1 = 1
  BY <1>1, <1>2, <1>5, <1>6
<1>8. KeysInv'
  BY <1>7 DEF KeysInv
<1>9. CursorInv'
  BY ONLY <1>1, <1>7, NothingFollows DEF CursorInv, Fresh
<1> QED
  BY <1>4, <1>8, <1>9

LEMMA PollStep == TypeInv /\ StartInv /\ PollInv /\ [Next]_vars => PollInv'
<1> SUFFICES ASSUME TypeInv, StartInv, PollInv, [Next]_vars, Keyboard_OK' = 1, calm'
             PROVE  LinkInv' /\ KeysInv' /\ CursorInv'
  BY DEF PollInv
<1>1. calm
  <2>1. CASE Type
    BY <2>1 DEF Type
  <2>2. CASE Kbc \/ Kbd
    BY <2>2 DEF Kbc, Kbd, KbcTakes, KbcAnswers, KbdSends, KbdAnswers, KbdWantsAgain, KbdLoses,
                KbdTested
  <2>3. CASE Driver
    <3>1. CASE ReceiveData
      BY <3>1, Received
    <3>2. CASE ~ReceiveData
      BY <2>3, <3>2 DEF Driver, SendCommand, KbDobyte, DobyteSend, DobyteReceive, Drain,
         TestResult, SendMode, InitKey2, KbWait, InitKey2Ends, GetKey, GetByte, GetKeyWaits,
         GetSecondByte, GetKeyReturns
    <3> QED
      BY <3>1, <3>2
  <2>4. CASE UNCHANGED vars
    BY <2>4 DEF vars
  <2> QED
    BY <2>1, <2>2, <2>3, <2>4 DEF Next, Quiet
<1>2. CASE at \in Starting
  <2>1. Keyboard_OK = 0
    BY <1>2 DEF StartInv
  <2>2. InitKey2Ends
    BY <2>1 DEF Next, Driver, Kbc, Kbd, Type, Quiet, vars, driverVars, KbcTakes, KbcAnswers,
       KbdSends, KbdAnswers, KbdWantsAgain, KbdLoses, KbdTested, SendCommand, KbDobyte,
       DobyteSend, DobyteReceive, Drain, TestResult, SendMode, InitKey2, KbWait, GetKey,
       GetByte, GetKeyWaits, GetSecondByte, GetKeyReturns
  <2> QED
    BY <2>2, PollingStarts
<1>3. CASE at \in Polling
  <2>1. Keyboard_OK = 1
    <3>1. ~InitKey2Ends
      BY <1>3 DEF Polling, InitKey2Ends
    <3> QED
      BY <3>1 DEF Next, Driver, Kbc, Kbd, Type, Quiet, vars, driverVars, KbcTakes, KbcAnswers,
         KbdSends, KbdAnswers, KbdWantsAgain, KbdLoses, KbdTested, SendCommand, KbDobyte,
         DobyteSend, DobyteReceive, Drain, TestResult, SendMode, InitKey2, KbWait, GetKey,
         GetByte, GetKeyWaits, GetSecondByte, GetKeyReturns
  <2>2. Polled
    BY <1>1, <1>3, <2>1 DEF PollInv, Polled
  <2>3. CASE UNCHANGED vars
    BY <2>2, <2>3 DEF Polled, LinkInv, KeysInv, CursorInv, Fresh,
           Torn, Flight, vars, driverVars
  <2> QED
    BY <2>2, <2>3, TypedKept, DevicesKept, DriverKept DEF Next, Quiet
<1> QED
  BY <1>2, <1>3 DEF TypeInv, DriverType

----------------------------------------------------------------------------
(* The theorems                                                             *)

\* The invariant holds in every reachable state.
THEOREM Inductive == Spec => []Inv
<1>1. Init => Inv
  <2> SUFFICES ASSUME Init PROVE Inv
    OBVIOUS
  <2>1. Keyboard_OK = 0
    BY DEF Init
  <2> QED
    BY <2>1, TypeInit, StartInit DEF Inv, PollInv
<1>2. Inv /\ [Next]_vars => Inv'
  BY TypeStep, StartStep, PollStep DEF Inv
<1> QED
  BY <1>1, <1>2, PTL DEF Spec

\* Every variable keeps its type: a byte is sent only while a try is left, GetKey returns
\* only codes of keys, and the controller is sent only commands that it knows.
THEOREM TypeCorrect == Spec => []TypeOK
<1>1. Inv => TypeOK
  <2> SUFFICES ASSUME TypeInv PROVE TypeOK
    BY DEF Inv
  <2>1. DriverType /\ kbc \in Kbcs /\ kbd \in Kbds /\ typed \in Seq(KeyCodes)
    BY DEF TypeInv, DeviceType, HistoryType
  <2>2. at \in {c[1] : c \in Commands \cup Bytes}
           \cup {"drain", "selftested", "kbdtested", "mode", "between", "wait2", "enabled",
                 "db_send", "db_recv", "poll", "gk_read", "gk_wait", "gk_read2", "return"}
    <3>1. /\ <<"selftest", SelfTest, "selftested">> \in Commands
          /\ <<"kbdtest", KbdTest, "kbdtested">> \in Commands
          /\ <<"writemode", WriteMode, "mode">> \in Commands
          /\ <<"off1", KbdDisable, "reset">> \in Commands
          /\ <<"off2", KbdDisable, "wait2">> \in Commands
          /\ <<"gk_off", KbdDisable, "gk_read">> \in Commands
          /\ <<"gk_on", KbdEnable, "gk_wait">> \in Commands
          /\ <<"gk_off2", KbdDisable, "gk_read2">> \in Commands
          /\ <<"gk_beenden", KbdEnable, "return">> \in Commands
      BY DEF Commands
    <3>2. /\ <<"reset", Reset, "between">> \in Bytes
          /\ <<"disable", Disable, "setrate">> \in Bytes
          /\ <<"setrate", SetRate, "rate0">> \in Bytes
          /\ <<"rate0", 0, "enable">> \in Bytes
          /\ <<"enable", Enable, "enabled">> \in Bytes
      BY DEF Bytes
    <3>3. {"selftest", "kbdtest", "writemode", "off1", "off2", "gk_off", "gk_on", "gk_off2",
           "gk_beenden", "reset", "disable", "setrate", "rate0", "enable"}
             \subseteq {d[1] : d \in Commands \cup Bytes}
      BY <3>1, <3>2
    <3> QED
      BY ONLY <2>1, <3>3 DEF DriverType, Starting, Polling
  <2>3. kbc.obf \in -1..255 /\ kbc.answer \in -1..255 /\ kbd.inbox \in -1..255
    <3>1. Byte \cup {Nothing} \subseteq -1..255
      BY DEF Byte, Nothing
    <3> QED
      BY <2>1, <3>1 DEF Kbcs, Kbds
  <2>4. kbc.ibf \in {<<>>} \cup ({"command", "data"} \X (0..255))
    <3>1. ControllerCommands \subseteq 0..255 /\ Byte \subseteq 0..255
      BY DEF ControllerCommands, SelfTest, KbdTest, WriteMode, KbdDisable, KbdEnable, Byte
    <3>2. kbc.ibf \in {<<>>} \cup ({"command"} \X ControllerCommands)
                             \cup ({"data"} \X Byte)
      BY <2>1 DEF Kbcs
    <3> QED
      BY ONLY <3>1, <3>2
  <2>5. kbd.out \in Seq(0..255) /\ typed \in Seq(1..255)
    <3>1. KeyCodes \subseteq 1..255
      BY DEF KeyCodes
    <3>2. typed \in Seq(1..255)
      BY <2>1, <3>1, SeqMonotonic
    <3> QED
      BY <2>1, <3>2 DEF Kbds, Byte
  <2> QED
    BY <2>1, <2>2, <2>3, <2>4, <2>5 DEF TypeOK, DriverType, Byte
<1> QED
  BY <1>1, Inductive, PTL

\* Keyboard_OK tells the truth, whatever the keyboard asks to be sent again or never answers
\* and whatever is typed, as long as no answer comes behind its time-out: the keyboard scans
\* its keys, and the keys returned are the keys typed, whole and in their order.
THEOREM OkIsTrue == Spec => []OkMeansKeys
<1>1. Inv => OkMeansKeys
  <2> SUFFICES ASSUME Inv, Keyboard_OK = 1, calm
               PROVE  kbd.scanning /\ IsPrefix(got, typed)
    BY DEF OkMeansKeys
  <2>1. LinkInv /\ KeysInv
    BY DEF Inv, PollInv
  <2>2. got \in Seq(1..255) /\ typed \in Seq(KeyCodes)
    BY DEF Inv, TypeInv, DriverType, HistoryType
  <2>3. Len(got) \in Nat /\ Len(typed) \in Nat /\ Len(got) <= Len(typed)
    BY <2>1, <2>2 DEF KeysInv
  <2>4. SubSeq(got, 1, Len(got)) = SubSeq(typed, 1, Len(got))
    <3>1. SubSeq(got, 1, Len(got)) = [i \in 1..Len(got) |-> got[i]]
      BY <2>2, <2>3
    <3>2. SubSeq(typed, 1, Len(got)) = [i \in 1..Len(got) |-> typed[i]]
      BY <2>2, <2>3
    <3> QED
      BY <2>1, <3>1, <3>2 DEF KeysInv
  <2> QED
    BY <2>1, <2>3, <2>4 DEF LinkInv, IsPrefix
<1> QED
  BY <1>1, Inductive, PTL

=============================================================================
