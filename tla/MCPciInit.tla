------------------------------ MODULE MCPciInit ------------------------------
(***************************************************************************)
(* Small machines: the motherboard's bridge and IDE port in slot 1, any two   *)
(* of a handful of cards in slots 2 and 3 and any of a few in slot 4, and an   *)
(* NVRAM that is good, old, damaged or dead.                                 *)
(***************************************************************************)
EXTENDS PciInit

None == [k |-> "none", size |-> 0]
K(k, n) == [k |-> k, size |-> 2^n]

Card(pin, kinds) ==
  [layout0 |-> TRUE, multi |-> FALSE, vga |-> FALSE, vme |-> FALSE, pin |-> pin,
   kind |-> [r \in Regs |-> IF r \in DOMAIN kinds THEN kinds[r] ELSE None]]

Vga == [Card(1, (0 :> K("mem", 26)) @@ (Rom :> K("mem", 16))) EXCEPT !.vga = TRUE]
OldVga == [Card(0, <<>>) EXCEPT !.vga = TRUE]
Net == Card(1, (0 :> K("io", 5)) @@ (1 :> K("mem", 12)) @@ (Rom :> K("mem", 16)))
Scsi == Card(2, (0 :> K("io", 8)) @@ (1 :> K("mem", 14)) @@ (3 :> K("mem", 10)))
Odd == Card(5, (0 :> K("mem1m", 12)) @@ (2 :> K("mem", 4)) @@ (4 :> K("io", 2)))
Vme == [Card(1, (0 :> K("mem", 7)) @@ (1 :> K("io", 7)) @@ (2 :> K("mem", 25)))
          EXCEPT !.vme = TRUE]
Low1M == Card(2, 1 :> K("mem1m", 12))
Bridge == [Card(0, <<>>) EXCEPT !.layout0 = FALSE]
Wide == Card(1, (0 :> K("mem64", 14)) @@ (1 :> [k |-> "upper", size |-> 0])
                @@ (2 :> K("mem", 16)) @@ (4 :> K("io", 5)))

Lone64 == Card(3, (1 :> K("mem64", 14)) @@ (2 :> [k |-> "upper", size |-> 0]))
\* The loop of init_BARs leaves this one two registers behind the last.
Triple64 == Card(4, [r \in 0..5 |-> IF r % 2 = 0 THEN K("mem64", 14)
                                    ELSE [k |-> "upper", size |-> 0]])

\* This one takes it on to the subsystem's IDs.
Far64 == Card(1, [r \in {0, 1, 4, 5} |-> IF r % 2 = 0 THEN K("mem64", 14)
                                         ELSE [k |-> "upper", size |-> 0]])
\* Here the last one's answer is met at the ROM's register.
LastIo == Card(1, (0 :> K("mem64", 14)) @@ (1 :> [k |-> "upper", size |-> 0])
                  @@ (5 :> K("io", 2)))

\* A slot: nothing, one card, or functions of one card, the first of which may say so or not.
One(c) == 0 :> c
Slot2 == {One(Vga), One(OldVga), One(Net), One(Bridge)}
Slot3 == {<<>>, One(Scsi), One(Vme), One(Vga),
          (0 :> [Net EXCEPT !.multi = TRUE]) @@ (3 :> Scsi), (0 :> Net) @@ (3 :> Scsi)}
Slot4 == {<<>>, One(Odd), One(Low1M), One([Low1M EXCEPT !.vga = TRUE]),
          One(Lone64), One(Triple64), One(Far64), 2 :> Vga}
Board == (0 :> [Card(0, <<>>) EXCEPT !.multi = TRUE]) @@ (1 :> Card(1, 4 :> K("io", 4)))

Plug(slots) ==
  [f \in {g \in Fcts : g[1] \in DOMAIN slots /\ g[2] \in DOMAIN slots[g[1]]} |->
     slots[f[1]][f[2]]]

Buses == {Plug(<<Board, a, b, c>>) : a \in Slot2, b \in Slot3, c \in Slot4}
AllLines ==
  LET pin3 == One([Scsi EXCEPT !.pin = 3])
  IN Plug(<<Board, One(Vga), pin3, One(Net), pin3>>)

Blank(b) == [fill |-> b, at |-> [c \in Cells |-> b]]
Stored(a, b) == Guarded([Blank(0) EXCEPT !.at[49] = a, !.at[50] = b, !.at[Language] = 1])

\* Interrupts 9 and 11; 5, 10 and 11; the same one twice, and another; one that is not to be
\* had; none.
Settings == {Stored(185, 0), Stored(165, 11), Stored(153, 0), Stored(153, 10), Stored(25, 0),
             Stored(0, 9)}

Good(s) == [nv |-> s, stored |-> s]
Damaged(s) == {[nv |-> [s EXCEPT !.at[c] = b], stored |-> s] :
                 c \in Cells, b \in {0, 1, 70, 127, 254, 255}}
Dead(s) == {[nv |-> Blank(b), stored |-> s] : b \in {0, 255}}

MCMachines ==
  {[bus |-> b, nv |-> n.nv, stored |-> n.stored] :
     b \in Buses, n \in {Good(Stored(185, 0)), Good(Stored(153, 10))}}
  \cup {[bus |-> AllLines, nv |-> n.nv, stored |-> n.stored] :
          n \in UNION {Damaged(s) \cup Dead(s) \cup {Good(s)} : s \in Settings}}

\* The same with a 64-bit card, alone or among others.
WideMachines ==
  LET s == Stored(185, 0)
  IN {[bus |-> Plug(<<Board, a, One(Wide), c>>), nv |-> s, stored |-> s] :
        a \in Slot2, c \in Slot4 \cup {One(LastIo)}}
=============================================================================
