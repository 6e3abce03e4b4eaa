----------------------------- MODULE MCVgaSetup ------------------------------
(***************************************************************************)
(* The machines of MCPciInit with an S3 card or with one that its BIOS sets up, *)
(* and in one of them a card left in every possible way.                     *)
(***************************************************************************)
EXTENDS VgaSetup, MCPciInit

\* A card as its last user left it: the values of the registers that lock others.
Left(s3, awake, mmio, color, cr11, cr38, cr39, sr8, data, bios) ==
  [s3 |-> s3, awake |-> awake, mmio |-> mmio, color |-> color,
   seq |-> 8 :> sr8, crtc |-> 17 :> cr11 @@ 56 :> cr38 @@ 57 :> cr39, gc |-> <<>>,
   attr |-> <<>>, at |-> 0, data |-> data, on |-> TRUE, bios |-> bios]

Cold == Left(TRUE, FALSE, FALSE, FALSE, 0, 0, 0, 0, TRUE, <<>>)
Other == Left(FALSE, TRUE, FALSE, FALSE, 142, 0, 0, 0, TRUE, <<>>)

\* All ways an S3 card may be left; one that is asleep does not ask for memory accesses.
AllLeft ==
  {Left(TRUE, a, m, c, cr11, cr38, cr39, sr8, d, <<>>) :
     a \in BOOLEAN, m \in BOOLEAN, c \in BOOLEAN, cr11 \in {0, 142}, cr38 \in {0, 72},
     cr39 \in {0, 165}, sr8 \in {0, 6}, d \in BOOLEAN}
AnyLeft == {c \in AllLeft : c.mmio => c.awake}

\* What a BIOS may write: its interrupt, the command, the status, a register of its own.
Call(where, bytes) == [where |-> where, bytes |-> bytes]
Calls == {Call(4, <<b>>) : b \in {0, 7}} \cup {Call(4, <<7, 0>>), Call(6, <<0, 128>>)}
         \cup {Call(4, <<7, 0, 0, 160>>), Call(7, <<32>>)}
         \cup {Call(60, <<11>>), Call(64, <<1, 2, 3, 4>>), Call(64, <<5, 6>>),
               Call(66, <<7, 8>>)}
         \cup {Call(64 + o, <<9 + o>>) : o \in 0..3}
Programs == {<<a, b>> : a \in Calls, b \in Calls}

Lone == Plug(<<Board, One(Vga), <<>>, <<>>>>)
With(m, c) == [bus |-> m.bus, nv |-> m.nv, stored |-> m.stored, card |-> c]
Usual == [bus |-> Lone, nv |-> Stored(185, 0), stored |-> Stored(185, 0)]

MCSetups ==
  {With(m, c) : m \in {n \in MCMachines : n.bus # AllLines}, c \in {Cold, Other}}
  \cup {With(m, Other) : m \in {n \in MCMachines : n.bus = AllLines}}
  \cup {With(Usual, c) : c \in AnyLeft}
  \cup {With(Usual, [Other EXCEPT !.bios = p]) : p \in Programs}
=============================================================================
