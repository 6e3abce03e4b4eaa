------------------------------ MODULE Keyboard ------------------------------
(***************************************************************************)
(* The keyboard driver (keyboard.s): InitKey, InitKey2, GetKey and the        *)
(* routines they share, beside the keyboard controller (8042) and the        *)
(* keyboard. All three run at once. A wait for the controller's input buffer  *)
(* is the guard of the write behind it; a wait with a time-out in             *)
(* kb_ReceiveData ends when there is nothing to come or, a bounded number of  *)
(* times, when what comes is late. The typematic rate itself is left out.    *)
(***************************************************************************)
EXTENDS Integers, Sequences, SequencesExt

CONSTANTS
  Keys,        \* the keys the user may type
  MaxKeys,     \* bound: keys typed
  MaxResends,  \* bound: bytes the keyboard asks to be sent again
  MaxLost,     \* bound: bytes the keyboard never answers
  MaxLate      \* bound: answers that come behind the time-out

\* A key: its make code, and whether it is sent behind E0. No key has the make code 60
\* (hexadecimal): its break code would be E0.
Key == [code : (1..127) \ {96}, ext : BOOLEAN]
ASSUME KeysAssumption == Keys \subseteq Key
ASSUME KeyboardBounds == {MaxKeys, MaxResends, MaxLost, MaxLate} \subseteq Nat

VARIABLES
  at,           \* where the driver is
  ret,          \* where kb_dobyte returns to
  last_byte, resend_cnt,
  z,            \* the Z flag kb_dobyte leaves: acknowledged
  d1,           \* D1 of GetKey: the key to return
  Keyboard_OK,
  kbc,          \* the controller
  kbd,          \* the keyboard
  typed,        \* history: keys typed since the keyboard last emptied its buffer
  got,          \* history: keys GetKey has returned
  calm,         \* history: so far no answer was late, and no key typed before GetKey
  budget        \* what is left of the four bounds

driverVars == <<at, ret, last_byte, resend_cnt, z, d1, Keyboard_OK, got>>
vars == <<driverVars, kbc, kbd, typed, calm, budget>>

Nothing == -1    \* an empty buffer; also what kb_ReceiveData returns at a time-out

SelfTest == 170
KbdTest == 171
WriteMode == 96
KbdDisable == 173
KbdEnable == 174
Mode == 100      \* system flag, mouse off, scan code conversion
SetRate == 243
Enable == 244
Disable == 245
Reset == 255
POR == 170
Ack == 250
Resend == 254
Extended == 224

\* What the driver calls the key that was typed.
GetKeyCode(k) == IF k.ext THEN k.code + 128 ELSE k.code
ScanCodes(k) == IF k.ext THEN <<Extended, k.code, Extended, k.code + 128>>
                         ELSE <<k.code, k.code + 128>>

----------------------------------------------------------------------------
(* The controller and the keyboard                                          *)

\* The controller takes what was written to its command or data register.
KbcTakes ==
  LET free == [kbc EXCEPT !.ibf = <<>>]
      port == kbc.ibf[1]
      byte == kbc.ibf[2]
  IN /\ kbc.ibf # <<>>
     /\ \/ /\ port = "command"
           /\ kbc' = CASE byte = SelfTest ->
                            [free EXCEPT !.answer = IF kbc.sound THEN 85 ELSE 252]
                       [] byte = KbdTest ->
                            [free EXCEPT !.answer = IF kbc.sound THEN 0 ELSE 1]
                       [] byte = WriteMode -> [free EXCEPT !.modeNext = TRUE]
                       [] byte = KbdDisable -> [free EXCEPT !.enabled = FALSE]
                       [] byte = KbdEnable -> [free EXCEPT !.enabled = TRUE]
           /\ UNCHANGED kbd
        \/ /\ port = "data" /\ kbc.modeNext
           /\ kbc' = [free EXCEPT !.modeNext = FALSE, !.enabled = TRUE]
           /\ UNCHANGED kbd
        \/ /\ port = "data" /\ ~kbc.modeNext /\ kbd.inbox = Nothing
           /\ kbc' = [free EXCEPT !.enabled = TRUE]
           /\ kbd' = [kbd EXCEPT !.inbox = byte]
  /\ UNCHANGED <<driverVars, typed, calm, budget>>

KbcAnswers ==
  /\ kbc.answer # Nothing /\ kbc.obf = Nothing
  /\ kbc' = [kbc EXCEPT !.obf = kbc.answer, !.answer = Nothing]
  /\ UNCHANGED <<driverVars, kbd, typed, calm, budget>>

\* The keyboard sends its next byte, when the interface is on and the buffer free.
KbdSends ==
  /\ kbd.out # <<>> /\ kbc.enabled /\ kbc.obf = Nothing /\ kbc.answer = Nothing
  /\ kbc' = [kbc EXCEPT !.obf = Head(kbd.out)]
  /\ kbd' = [kbd EXCEPT !.out = Tail(@)]
  /\ UNCHANGED <<driverVars, typed, calm, budget>>

\* Answers go out before scan codes; three commands empty the keyboard's buffer.
Empties(b) == b \in {Reset, Enable, Disable}
Answered(k, b) ==
  LET heard == [k EXCEPT !.inbox = Nothing, !.param = FALSE]
  IN CASE b = Reset -> [heard EXCEPT !.out = <<Ack>>, !.scanning = FALSE, !.test = TRUE]
       [] b = Enable -> [heard EXCEPT !.out = <<Ack>>, !.scanning = TRUE]
       [] b = Disable -> [heard EXCEPT !.out = <<Ack>>, !.scanning = FALSE]
       [] b = SetRate -> [heard EXCEPT !.out = <<Ack>> \o @, !.param = TRUE]
       [] ~(Empties(b) \/ b = SetRate) ->
            [heard EXCEPT !.out = <<IF k.param THEN Ack ELSE Resend>> \o @]

KbdAnswers ==
  /\ kbd.inbox # Nothing /\ ~kbd.test
  /\ kbd' = Answered(kbd, kbd.inbox)
  /\ typed' = IF Empties(kbd.inbox) THEN <<>> ELSE typed
  /\ UNCHANGED <<driverVars, kbc, calm, budget>>

KbdWantsAgain ==
  /\ kbd.inbox # Nothing /\ ~kbd.test /\ budget.resends > 0
  /\ kbd' = [kbd EXCEPT !.inbox = Nothing, !.out = <<Resend>> \o @]
  /\ budget' = [budget EXCEPT !.resends = @ - 1]
  /\ UNCHANGED <<driverVars, kbc, typed, calm>>

KbdLoses ==
  /\ kbd.inbox # Nothing /\ budget.lost > 0
  /\ kbd' = [kbd EXCEPT !.inbox = Nothing]
  /\ budget' = [budget EXCEPT !.lost = @ - 1]
  /\ UNCHANGED <<driverVars, kbc, typed, calm>>

\* The self-test behind a reset ends: power-on reset code, and scanning is on.
KbdTested ==
  /\ kbd.test
  /\ kbd' = [kbd EXCEPT !.test = FALSE, !.out = Append(@, POR), !.scanning = TRUE]
  /\ UNCHANGED <<driverVars, kbc, typed, calm, budget>>

\* CheckKeys polls GetKey: InitKey and InitKey2 are over.
Polling == {"poll", "gk_off", "gk_read", "gk_on", "gk_wait", "gk_off2", "gk_read2",
            "gk_beenden", "return"}

\* The user types a key: make and break codes.
Type ==
  /\ kbd.scanning /\ budget.keys > 0
  /\ \E k \in Keys :
       /\ kbd' = [kbd EXCEPT !.out = @ \o ScanCodes(k)]
       /\ typed' = Append(typed, GetKeyCode(k))
  /\ calm' = (calm /\ at \in Polling)
  /\ budget' = [budget EXCEPT !.keys = @ - 1]
  /\ UNCHANGED <<driverVars, kbc>>

----------------------------------------------------------------------------
(* kb_SendCommand, kb_SendData, kb_wait, kb_ReceiveData                     *)

Write(port, byte) == /\ kbc.ibf = <<>>
                     /\ kbc' = [kbc EXCEPT !.ibf = <<port, byte>>]

\* Is a byte on its way to the driver?
Pending == \/ kbc.ibf # <<>> \/ kbc.answer # Nothing
           \/ kbd.inbox # Nothing \/ kbd.test \/ (kbd.out # <<>> /\ kbc.enabled)

\* kb_ReceiveData returns kbc.obf: the byte there, or Nothing when the time is over.
ReceiveData ==
  /\ kbc' = [kbc EXCEPT !.obf = Nothing]
  /\ \/ /\ kbc.obf # Nothing \/ ~Pending
        /\ UNCHANGED <<calm, budget>>
     \/ /\ kbc.obf = Nothing /\ Pending /\ budget.late > 0
        /\ budget' = [budget EXCEPT !.late = @ - 1]
        /\ calm' = FALSE

\* The commands to the controller: where, which, and what follows.
Commands == {<<"selftest", SelfTest, "selftested">>, <<"kbdtest", KbdTest, "kbdtested">>,
             <<"writemode", WriteMode, "mode">>, <<"off1", KbdDisable, "reset">>,
             <<"off2", KbdDisable, "wait2">>,
             <<"gk_off", KbdDisable, "gk_read">>, <<"gk_on", KbdEnable, "gk_wait">>,
             <<"gk_off2", KbdDisable, "gk_read2">>, <<"gk_beenden", KbdEnable, "return">>}

SendCommand ==
  /\ \E c \in Commands : at = c[1] /\ Write("command", c[2]) /\ at' = c[3]
  /\ UNCHANGED <<ret, last_byte, resend_cnt, z, d1, Keyboard_OK, got, kbd, typed, calm,
                 budget>>

----------------------------------------------------------------------------
(* kb_dobyte                                                                *)

\* The bytes for the keyboard: where, which, and what follows.
Bytes == {<<"reset", Reset, "between">>, <<"disable", Disable, "setrate">>,
          <<"setrate", SetRate, "rate0">>, <<"rate0", 0, "enable">>,
          <<"enable", Enable, "enabled">>}

KbDobyte ==
  /\ \E b \in Bytes : at = b[1] /\ last_byte' = b[2] /\ ret' = b[3]
  /\ resend_cnt' = 3 /\ at' = "db_send"
  /\ UNCHANGED <<z, d1, Keyboard_OK, got, kbc, kbd, typed, calm, budget>>

DobyteSend ==
  /\ at = "db_send" /\ Write("data", last_byte)
  /\ at' = "db_recv"
  /\ UNCHANGED <<ret, last_byte, resend_cnt, z, d1, Keyboard_OK, got, kbd, typed, calm,
                 budget>>

\* A slip: the tries are counted down behind the test.
DobyteReceiveLate ==
  /\ at = "db_recv" /\ ReceiveData
  /\ z' = (kbc.obf = Ack)
  /\ IF kbc.obf = Resend
     THEN /\ resend_cnt' = resend_cnt - 1
          /\ at' = IF resend_cnt # 0 THEN "db_send" ELSE ret
     ELSE at' = ret /\ UNCHANGED resend_cnt
  /\ UNCHANGED <<ret, last_byte, d1, Keyboard_OK, got, kbd, typed>>

\* A slip: the tries are not counted.
DobyteReceiveAlways ==
  /\ at = "db_recv" /\ ReceiveData
  /\ z' = (kbc.obf = Ack)
  /\ at' = IF kbc.obf = Resend THEN "db_send" ELSE ret
  /\ UNCHANGED <<ret, last_byte, resend_cnt, d1, Keyboard_OK, got, kbd, typed>>

DobyteReceive ==
  /\ at = "db_recv" /\ ReceiveData
  /\ z' = (kbc.obf = Ack)
  /\ IF kbc.obf = Resend
     THEN /\ resend_cnt' = resend_cnt - 1
          /\ at' = IF resend_cnt' # 0 THEN "db_send" ELSE ret
     ELSE at' = ret /\ UNCHANGED resend_cnt
  /\ UNCHANGED <<ret, last_byte, d1, Keyboard_OK, got, kbd, typed>>

----------------------------------------------------------------------------
(* InitKey and InitKey2                                                     *)

Drain ==
  /\ at = "drain" /\ ReceiveData
  /\ at' = IF kbc.obf = Nothing THEN "selftest" ELSE "drain"
  /\ UNCHANGED <<ret, last_byte, resend_cnt, z, d1, Keyboard_OK, got, kbd, typed>>

\* The results of the two tests; any other ends InitKey.
TestResult ==
  /\ \/ at = "selftested" /\ at' = IF kbc.obf = 85 THEN "kbdtest" ELSE "between"
     \/ at = "kbdtested" /\ at' = IF kbc.obf = 0 THEN "writemode" ELSE "between"
  /\ ReceiveData
  /\ UNCHANGED <<ret, last_byte, resend_cnt, z, d1, Keyboard_OK, got, kbd, typed>>

SendMode ==
  /\ at = "mode" /\ Write("data", Mode)
  /\ at' = "off1"
  /\ UNCHANGED <<ret, last_byte, resend_cnt, z, d1, Keyboard_OK, got, kbd, typed, calm,
                 budget>>

\* InitKey2, called much later: the power-on reset code, whatever comes.
InitKey2 ==
  /\ at = "between" /\ ReceiveData
  /\ at' = "off2"
  /\ UNCHANGED <<ret, last_byte, resend_cnt, z, d1, Keyboard_OK, got, kbd, typed>>

\* kb_wait: the controller has taken the command.
KbWait ==
  /\ at = "wait2" /\ kbc.ibf = <<>>
  /\ at' = "disable"
  /\ UNCHANGED <<ret, last_byte, resend_cnt, z, d1, Keyboard_OK, got, kbc, kbd, typed, calm,
                 budget>>

InitKey2Ends ==
  /\ at = "enabled"
  /\ Keyboard_OK' = IF z THEN 1 ELSE Keyboard_OK
  /\ at' = "poll"
  /\ UNCHANGED <<ret, last_byte, resend_cnt, z, d1, got, kbc, kbd, typed, calm, budget>>

----------------------------------------------------------------------------
(* GetKey, which CheckKeys polls                                            *)

GetKey ==
  /\ at = "poll" /\ kbc.obf # Nothing
  /\ at' = "gk_off" /\ d1' = 0
  /\ UNCHANGED <<ret, last_byte, resend_cnt, z, Keyboard_OK, got, kbc, kbd, typed, calm,
                 budget>>

\* A slip: the code behind E0 is left for the next call.
GetByteTorn ==
  /\ at = "gk_read" /\ kbc.ibf = <<>>
  /\ kbc' = [kbc EXCEPT !.obf = Nothing]
  /\ d1' = IF kbc.obf < 128 THEN kbc.obf ELSE 0
  /\ at' = "gk_beenden"
  /\ UNCHANGED <<ret, last_byte, resend_cnt, z, Keyboard_OK, got, kbd, typed, calm, budget>>

\* A slip: the interface is not turned on again for the code behind E0.
GetByteOff ==
  /\ at = "gk_read" /\ kbc.ibf = <<>>
  /\ kbc' = [kbc EXCEPT !.obf = Nothing]
  /\ d1' = IF kbc.obf < 128 THEN kbc.obf ELSE 0
  /\ at' = IF kbc.obf = Extended THEN "gk_wait" ELSE "gk_beenden"
  /\ UNCHANGED <<ret, last_byte, resend_cnt, z, Keyboard_OK, got, kbd, typed, calm, budget>>

\* Behind kb_wait: the byte. Break codes and answers of the keyboard return no key.
GetByte ==
  /\ at = "gk_read" /\ kbc.ibf = <<>>
  /\ kbc' = [kbc EXCEPT !.obf = Nothing]
  /\ d1' = IF kbc.obf < 128 THEN kbc.obf ELSE 0
  /\ at' = IF kbc.obf = Extended THEN "gk_on" ELSE "gk_beenden"
  /\ UNCHANGED <<ret, last_byte, resend_cnt, z, Keyboard_OK, got, kbd, typed, calm, budget>>

\* gk_wl1: behind E0, without a time-out, until the second byte is there.
GetKeyWaits ==
  /\ at = "gk_wait" /\ kbc.ibf = <<>> /\ kbc.obf # Nothing
  /\ at' = "gk_off2"
  /\ UNCHANGED <<ret, last_byte, resend_cnt, z, d1, Keyboard_OK, got, kbc, kbd, typed, calm,
                 budget>>

GetSecondByte ==
  /\ at = "gk_read2" /\ kbc.ibf = <<>> /\ ReceiveData
  /\ d1' = IF kbc.obf \in 0..127 THEN kbc.obf + 128 ELSE 0
  /\ at' = "gk_beenden"
  /\ UNCHANGED <<ret, last_byte, resend_cnt, z, Keyboard_OK, got, kbd, typed>>

GetKeyReturns ==
  /\ at = "return"
  /\ got' = IF d1 # 0 THEN Append(got, d1) ELSE got
  /\ at' = "poll"
  /\ UNCHANGED <<ret, last_byte, resend_cnt, z, d1, Keyboard_OK, kbc, kbd, typed, calm,
                 budget>>

----------------------------------------------------------------------------
(* The specification                                                        *)

\* A reset at any time: bytes may be left over, the interface may be off.
Init ==
  /\ at = "drain" /\ ret = "between" /\ last_byte = 0 /\ resend_cnt = 0
  /\ z = FALSE /\ d1 = 0 /\ Keyboard_OK = 0
  /\ kbc \in [obf : {Nothing, Extended}, ibf : {<<>>}, answer : {Nothing},
              enabled : BOOLEAN, modeNext : {FALSE}, sound : BOOLEAN]
  /\ kbd \in [out : {<<>>, <<1, 129>>}, inbox : {Nothing}, param : {FALSE},
              scanning : BOOLEAN, test : {FALSE}]
  /\ typed = <<>> /\ got = <<>> /\ calm = (kbc.enabled \/ kbd.out = <<>>)
  /\ budget = [keys |-> MaxKeys, resends |-> MaxResends, lost |-> MaxLost, late |-> MaxLate]

Kbc == KbcTakes \/ KbcAnswers
Kbd == KbdSends \/ KbdAnswers \/ KbdWantsAgain \/ KbdLoses \/ KbdTested
Driver == \/ SendCommand \/ KbDobyte \/ DobyteSend \/ DobyteReceive
          \/ Drain \/ TestResult \/ SendMode \/ InitKey2 \/ KbWait \/ InitKey2Ends
          \/ GetKey \/ GetByte \/ GetKeyWaits \/ GetSecondByte \/ GetKeyReturns
\* The polling goes on although nobody types.
Quiet == at = "poll" /\ kbc.obf = Nothing /\ UNCHANGED vars
Next == Driver \/ Kbc \/ Kbd \/ Type \/ Quiet

\* The processor, the controller and the keyboard run on; nobody has to type.
Fairness == WF_vars(Driver) /\ WF_vars(Kbc) /\ WF_vars(KbdSends)
            /\ WF_vars(KbdAnswers) /\ WF_vars(KbdTested)
Spec == Init /\ [][Next]_vars /\ Fairness

----------------------------------------------------------------------------
(* Properties                                                               *)

\* Every variable has the values of the code and the devices; a byte that is about to be
\* sent has a try left.
TypeOK ==
  /\ at \in {c[1] : c \in Commands \cup Bytes}
           \cup {"drain", "selftested", "kbdtested", "mode", "between", "wait2", "enabled",
                 "db_send", "db_recv", "poll", "gk_read", "gk_wait", "gk_read2", "return"}
  /\ ret \in {"between", "setrate", "rate0", "enable", "enabled"}
  /\ last_byte \in 0..255 /\ d1 \in 0..255 /\ z \in BOOLEAN /\ Keyboard_OK \in 0..1
  /\ resend_cnt \in 0..3 /\ (at = "db_send" => resend_cnt > 0)
  /\ kbc.obf \in -1..255 /\ kbc.answer \in -1..255
  /\ kbc.ibf \in {<<>>} \cup ({"command", "data"} \X (0..255))
  /\ kbd.out \in Seq(0..255) /\ kbd.inbox \in -1..255
  /\ typed \in Seq(1..255) /\ got \in Seq(1..255)

\* Keyboard_OK, which TOS is given, tells the truth when no answer was late and nobody
\* typed before GetKey was polled: the keyboard scans its keys, whatever was sent again
\* or lost, and GetKey returns them in their order. No E0 is torn from its code, and no
\* answer of the keyboard is taken for a key.
OkMeansKeys == (Keyboard_OK = 1 /\ calm) => kbd.scanning /\ IsPrefix(got, typed)

\* A key that is typed is returned in the end: the second wait of GetKey, which has no
\* time-out, ends, and GetKey leaves the interface on.
TypedIsReturned == (Keyboard_OK = 1 /\ calm /\ typed # <<>>) ~> (got = typed)

\* The initialisation ends, with a keyboard that answers late, never, or always asks
\* again, with keys that are typed, and with a controller that fails its tests.
InitKeyEnds == <>(at = "poll")

=============================================================================
