---------------------------- MODULE MCFloppyRead ----------------------------
(***************************************************************************)
(* FloppyRead with floppies of a few tracks: two and three sectors per track, *)
(* one and two sides, files that begin amid a track and run over several.    *)
(***************************************************************************)
EXTENDS FloppyRead

CONSTANT None

Tos(cluster, size) == [name |-> "TOS.IMG", cluster |-> cluster, size |-> size]
Other == [name |-> "other", cluster |-> 2, size |-> 1]

\* Two sides of two sectors, clusters of two; three sectors of file from number 6.
TwoSided ==
  [id |-> "two-sided", bps |-> 512, spc |-> 2, res |-> 1, fats |-> 2, ndirs |-> 16,
   nsects |-> 16, spf |-> 1, spt |-> 2, nsides |-> 2, realSpt |-> 2, realSides |-> 2,
   tracks |-> 4, root |-> (0 :> Other) @@ (1 :> Tos(3, 1300)), chain |-> <<3, 4>>,
   bad |-> {}]

\* One side of three sectors; the entry is the last of its sector, in small letters;
\* five sectors of file from number 5.
OneSided ==
  [TwoSided EXCEPT !.id = "one-sided", !.spc = 1, !.nsects = 12, !.spt = 3, !.nsides = 1,
     !.realSpt = 3, !.realSides = 1,
     !.root = 15 :> [name |-> "tos.img", cluster |-> 3, size |-> 2560],
     !.chain = <<3, 4, 5, 6, 7>>]

Empty == [TwoSided EXCEPT !.id = "empty", !.root = 0 :> Tos(0, 0), !.chain = <<>>]
BadSector == [TwoSided EXCEPT !.id = "bad", !.bad = {7}]
BadRoot == [TwoSided EXCEPT !.id = "bad root", !.bad = {3}]
\* The entry is the first of the second sector of the root directory.
FarEntry == [TwoSided EXCEPT !.id = "far", !.ndirs = 32, !.root = 16 :> Tos(3, 512)]
NoBoot == [TwoSided EXCEPT !.id = "no boot sector", !.bps = 58853]
NoClusters == [TwoSided EXCEPT !.id = "no clusters", !.spc = 0]
NoGeometry == [TwoSided EXCEPT !.id = "no geometry", !.spt = 0]

MCDisks == {TwoSided, OneSided, Empty, BadSector, BadRoot, FarEntry, NoBoot, NoClusters,
            NoGeometry}

=============================================================================
