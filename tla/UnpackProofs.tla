---------------------------- MODULE UnpackProofs -----------------------------
(***************************************************************************)
(* Proofs about Unpack, for any files in the load buffer and whatever        *)
(* huft_build, the lookup in its tables and the checksum compute.            *)
(*                                                                         *)
(* uncompress_data reports success in one place only, behind the comparison   *)
(* with the header's length and checksum, and nothing is put out after that    *)
(* (CheckedInv). The loop over the packages behind the TOS walks the chain:    *)
(* as many packages lie before the one it is at as it has copied (ChainInv).  *)
(***************************************************************************)
EXTENDS Unpack, TLAPS, FiniteSetTheorems, SequenceTheorems, NaturalsInduction,
        WellFoundedInduction

Inflating == {"block", "stored", "bitlengths", "lengths", "codes", "copy", "flush"}
Stages == Inflating \cup {"unpack", "result", "packages", "done"}
Packed == ~buffer.old /\ from.compr_type # COMPR_NONE

StageInv ==
  /\ buffer \in Buffers /\ from = Header(0)
  /\ pc \in Stages
  /\ pc # "done" => verdict = -1
  /\ pc \notin {"packages", "done"} => placed = <<>> /\ pkg = 0

CheckedInv ==
  (pc = "result" /\ res = 0) \/ pc = "packages" \/ (verdict = 1 /\ Packed)
    => Checked(out) = 0

\* A package copied, and where the bytes before it end.
Copy == [from : Nat, to : Nat, bytes : Nat]
EndBefore(at, p, i) ==
  IF i = 1 THEN at[0].orig_len ELSE p[i - 1].to + HeaderSize + at[p[i - 1].from].compressed_len
Follow(at, p, i) ==
  /\ p[i].from \in DOMAIN at
  /\ p[i].to - EndBefore(at, p, i) \in 0..15 /\ p[i].to % 16 = 0
  /\ p[i].bytes >= HeaderSize + at[p[i].from].compressed_len
  /\ Cardinality({a \in DOMAIN at : a < p[i].from}) = i

\* Where the loop is: at the package copied last, or at the TOS.
IsAt(at, p, k) ==
  /\ k \in DOMAIN at /\ k = IF p = <<>> THEN 0 ELSE p[Len(p)].from
  /\ \A i \in 1..Len(p) : p[i].from <= k
  /\ Cardinality({a \in DOMAIN at : a < k}) = Len(p)
\* Nothing is left behind k, or the next does not fit.
AllCopied(at, k, to) ==
  \A a \in DOMAIN at : a > k =>
    \E b \in DOMAIN at : /\ b > k /\ (\A c \in DOMAIN at : c > k => b <= c)
                         /\ to + at[b].orig_len > RomSize
ChainInv ==
  /\ placed \in Seq(Copy)
  /\ \A i \in 1..Len(placed) : Follow(buffer.at, placed, i)
  /\ pc = "packages" =>
       /\ IsAt(buffer.at, placed, pkg)
       /\ dest = EndBefore(buffer.at, placed, Len(placed) + 1) /\ dest \in Nat
  /\ verdict = 1 /\ Packed =>
       /\ dest \in Nat
       /\ \E k \in DOMAIN buffer.at : /\ IsAt(buffer.at, placed, k)
                                      /\ AllCopied(buffer.at, k, dest)

----------------------------------------------------------------------------
(* What the steps of inflate leave alone, and where they lead               *)

LEMMA ReturnsTo ==
  ASSUME NEW r, Return(r)
  PROVE  pc' \in Inflating \cup {"result"} /\ (pc' = "result" => res' # 0)
BY DEF Return, Inflating

LEMMA BuildsTo ==
  ASSUME NEW litlen, NEW dist, NEW tolerated, Build(litlen, dist, tolerated)
  PROVE  pc' \in Inflating \cup {"result"} /\ (pc' = "result" => res' # 0)
BY ReturnsTo DEF Build, Codes, Inflating

\* No step of inflate touches the package's header, all begin at one of its stages, and success
\* is reported only once length and checksum agree.
LEMMA InflateIs ==
  ASSUME inflate
  PROVE  /\ UNCHANGED inputs /\ pc \in Inflating
         /\ pc' \in Inflating \cup {"result"}
         /\ pc' = "result" /\ res' = 0 => Checked(out') = 0
<1> DEFINE Leads == pc' \in Inflating \cup {"result"} /\ (pc' = "result" => res' # 0)
           Begins == UNCHANGED inputs /\ pc \in Inflating
<1>1. ASSUME NEW t, BlockIs(t) PROVE Begins
  BY <1>1 DEF BlockIs, Inflating
<1>2. ASSUME NEW stage \in Inflating, InBlock(stage) PROVE Begins
  BY <1>2 DEF InBlock
<1>3. CASE Finish
  BY <1>3 DEF Finish, Inflating
<1>4. CASE BadBlock
  BY <1>1, <1>4, ReturnsTo DEF BadBlock
<1>5. CASE StoredBlock
  <2>1. Leads
    BY <1>5, ReturnsTo DEF StoredBlock, Inflating
  <2> QED
    BY <1>1, <1>5, <2>1 DEF StoredBlock
<1>6. CASE StoredByte
  BY <1>2, <1>6 DEF StoredByte, InBlock, Inflating
<1>7. CASE StoredEnd
  BY <1>2, <1>7, ReturnsTo DEF StoredEnd, InBlock, Inflating
<1>8. CASE FixedBlock
  BY <1>1, <1>8, BuildsTo DEF FixedBlock
<1>9. CASE DynamicBlock
  <2>1. Leads
    BY <1>9, ReturnsTo DEF DynamicBlock, Inflating
  <2> QED
    BY <1>1, <1>9, <2>1 DEF DynamicBlock
<1>10. CASE BuildLengths
  <2>1. Leads
    BY <1>10, ReturnsTo DEF BuildLengths, LengthTable, Inflating
  <2> QED
    BY <1>2, <1>10, <2>1 DEF BuildLengths, Inflating
<1>11. CASE LengthCode
  <2>1. Leads
    BY <1>11, ReturnsTo DEF LengthCode, InBlock, Inflating
  <2> QED
    BY <1>2, <1>11, <2>1 DEF LengthCode, Inflating
<1>12. CASE BuildTables
  BY <1>2, <1>12, BuildsTo DEF BuildTables, Inflating
<1>13. CASE LiteralByte
  BY <1>2, <1>13 DEF LiteralByte, Decode, InBlock, Inflating
<1>14. CASE BlockEnds
  BY <1>2, <1>14, ReturnsTo DEF BlockEnds, Decode, Inflating
<1>15. CASE BadCode
  BY <1>2, <1>15, ReturnsTo DEF BadCode, Decode, Inflating
<1>16. CASE Match
  <2>1. Leads
    BY <1>16, ReturnsTo DEF Match, Inflating
  <2> QED
    BY <1>2, <1>16, <2>1 DEF Match, Decode, Inflating
<1>17. CASE CopyPiece
  BY <1>2, <1>17 DEF CopyPiece, InBlock, Inflating
<1> QED
  BY <1>3, <1>4, <1>5, <1>6, <1>7, <1>8, <1>9, <1>10, <1>11, <1>12, <1>13, <1>14, <1>15,
     <1>16, <1>17 DEF inflate

----------------------------------------------------------------------------
(* The stages                                                               *)

LEMMA BufferIs ==
  ASSUME StageInv
  PROVE  IsChain(buffer.at) /\ IsInput(buffer) /\ from = buffer.at[0]
BY BuffersAssumption DEF StageInv, Header, IsChain

LEMMA StageInit == Init => StageInv
BY DEF Init, StageInv, Stages, Header

LEMMA StageInductive == StageInv /\ [Next]_vars => StageInv'
<1> SUFFICES ASSUME StageInv, [Next]_vars PROVE StageInv'
  OBVIOUS
<1>1. CASE UNCHANGED vars
  BY <1>1 DEF StageInv, vars, inflate_vars, inputs, package_vars, Header
<1>2. CASE UnpackOld
  BY <1>2 DEF StageInv, UnpackOld, Over, inputs, package_vars, Header, Stages
<1>3. CASE Refuse
  BY <1>3 DEF StageInv, Refuse, Over, inputs, package_vars, Header, Stages
<1>4. CASE CopyStored
  BY <1>4 DEF StageInv, CopyStored, Over, inputs, package_vars, Header, Stages
<1>5. CASE Uncompress
  BY <1>5 DEF StageInv, Uncompress, Accepts, uncompress_data, inputs, package_vars, Header,
              Stages, Inflating
<1>6. CASE Inflates
  BY <1>6, InflateIs DEF StageInv, Inflates, inputs, package_vars, Header, Stages, Inflating
<1>7. CASE Uncompressed
  BY <1>7 DEF StageInv, Uncompressed, Over, inputs, Header, Stages
<1>8. CASE NextPackage
  BY <1>8 DEF StageInv, NextPackage, Over, inputs, Header, Stages
<1> QED
  BY <1>1, <1>2, <1>3, <1>4, <1>5, <1>6, <1>7, <1>8 DEF Next, Ended

----------------------------------------------------------------------------
(* Nothing is declared unpacked unchecked                                   *)

LEMMA CheckedInit == Init => CheckedInv
BY DEF Init, CheckedInv

LEMMA CheckedInductive == StageInv /\ CheckedInv /\ [Next]_vars => CheckedInv'
<1> SUFFICES ASSUME StageInv, CheckedInv, [Next]_vars PROVE CheckedInv'
  OBVIOUS
<1>1. ASSUME UNCHANGED <<from, out>> PROVE Checked(out)' = Checked(out)
  BY <1>1 DEF Checked
<1>2. CASE UNCHANGED vars
  <2>1. UNCHANGED <<from, out, pc, res, verdict, buffer>>
    BY <1>2 DEF vars, inflate_vars, inputs, window
  <2> QED
    BY <1>1, <2>1 DEF CheckedInv, Packed
<1>3. CASE UnpackOld
  BY <1>3 DEF CheckedInv, UnpackOld, Over, Packed
<1>4. CASE Refuse
  BY <1>4 DEF CheckedInv, Refuse, Over
<1>5. CASE CopyStored
  BY <1>5 DEF CheckedInv, CopyStored, Over, Packed, inputs
<1>6. CASE Uncompress
  BY <1>6 DEF CheckedInv, Uncompress, uncompress_data, StageInv, Accepts
<1>7. CASE Inflates
  <2>1. /\ pc \in Inflating /\ pc' \in Inflating \cup {"result"} /\ verdict' = verdict
        /\ UNCHANGED inputs /\ (pc' = "result" /\ res' = 0 => Checked(out') = 0)
    BY <1>7, InflateIs DEF Inflates
  <2>2. verdict' # 1 /\ pc' # "packages"
    BY <2>1 DEF StageInv, Inflating
  <2>3. from' = from
    BY <2>1 DEF inputs
  <2>4. Checked(out)' = Checked(out')
    BY <2>3 DEF Checked
  <2> QED
    BY <2>1, <2>2, <2>4 DEF CheckedInv
<1>8. CASE Uncompressed
  BY <1>1, <1>8 DEF CheckedInv, Uncompressed, Over, StageInv, inputs, window
<1>9. CASE NextPackage
  BY <1>1, <1>9 DEF CheckedInv, NextPackage, Over, StageInv, inputs, window
<1> QED
  BY <1>2, <1>3, <1>4, <1>5, <1>6, <1>7, <1>8, <1>9 DEF Next, Ended

----------------------------------------------------------------------------
(* The chain of packages                                                    *)

LEMMA RoundsUp ==
  ASSUME NEW n \in Nat
  PROVE  /\ RoundUp(n) \in Nat /\ RoundUp(n) - n \in 0..15 /\ RoundUp(n) % 16 = 0
BY DEF RoundUp

\* What follows a package in the chain is the next of its packages.
LEMMA FollowsIs ==
  ASSUME NEW at, IsChain(at), NEW k \in DOMAIN at
  PROVE  /\ Follows(at, k) \in Nat /\ k < Follows(at, k)
         /\ \A a \in DOMAIN at : k < a => Follows(at, k) \in DOMAIN at /\ Follows(at, k) <= a
<1>1. k \in Nat /\ at[k].compressed_len \in Nat
  BY DEF IsChain
<1>2. PICK n \in Nat : n = k + at[k].compressed_len + HeaderSize
  BY <1>1 DEF HeaderSize
<1>3. k < n
  BY <1>1, <1>2 DEF HeaderSize
<1>4. Follows(at, k) = RoundUp(n)
  BY <1>2 DEF Follows
<1>5. RoundUp(n) \in Nat /\ n <= RoundUp(n)
  <2>1. PICK r : r = RoundUp(n)
    OBVIOUS
  <2>2. r \in Nat /\ r - n \in 0..15
    BY <2>1, RoundsUp
  <2> QED
    BY <2>1, <2>2
<1> QED
  BY <1>1, <1>3, <1>4, <1>5 DEF IsChain

\* So many packages lie before it: those before the one it follows, and that one.
LEMMA CountIs ==
  ASSUME NEW at, IsChain(at), NEW k \in DOMAIN at, NEW m \in Nat,
         Cardinality({a \in DOMAIN at : a < k}) = m
  PROVE  Cardinality({a \in DOMAIN at : a < Follows(at, k)}) = m + 1
<1> DEFINE B == {a \in DOMAIN at : a < k}
           next == Follows(at, k)
<1>1. next \in Nat /\ k < next /\ k \in Nat /\ DOMAIN at \subseteq Nat
  BY FollowsIs DEF IsChain
<1>2. \A a \in DOMAIN at : a < next <=> a < k \/ a = k
  BY <1>1, FollowsIs
<1>3. {a \in DOMAIN at : a < next} = B \cup {k}
  BY <1>2
<1>4. k \notin B
  BY <1>1
<1>5. IsFiniteSet(B)
  BY FS_Subset DEF IsChain
<1> QED
  BY <1>3, <1>4, <1>5, FS_AddElement

LEMMA ChainInit == Init => ChainInv
BY DEF Init, ChainInv

\* The first package behind the TOS, when it has been unpacked.
LEMMA ChainBegins ==
  ASSUME StageInv, placed = <<>>, pkg = 0, placed' = placed, pkg' = pkg, UNCHANGED buffer,
         dest' = from.orig_len, pc' = "packages", verdict' # 1
  PROVE  ChainInv'
<1>1. PICK at : at = buffer.at
  OBVIOUS
<1>2. IsChain(at) /\ from = at[0]
  BY <1>1, BufferIs
<1>3. {a \in DOMAIN at : a < 0} = {}
  BY <1>2 DEF IsChain
<1>4. Cardinality({a \in DOMAIN at : a < 0}) = 0
  BY <1>3, FS_EmptySet
<1>5. IsAt(at, <<>>, 0)
  BY <1>2, <1>4 DEF IsAt, IsChain
<1>6. at[0].orig_len \in Nat
  BY <1>2 DEF IsChain
<1>7. EndBefore(at, <<>>, 0 + 1) = at[0].orig_len
  BY DEF EndBefore
<1> QED
  BY <1>1, <1>2, <1>5, <1>6, <1>7 DEF ChainInv

\* A package is copied behind the ones before it.
LEMMA ChainGrows ==
  ASSUME NEW at, IsChain(at), NEW p \in Seq(Copy), NEW k, IsAt(at, p, k),
         \A i \in 1..Len(p) : Follow(at, p, i),
         NEW dst \in Nat, dst = EndBefore(at, p, Len(p) + 1),
         NEW c \in Copy, c.from = Follows(at, k), c.from \in DOMAIN at, c.to = RoundUp(dst),
         c.bytes = at[c.from].compressed_len + HeaderSize + 15
  PROVE  /\ Append(p, c) \in Seq(Copy) /\ IsAt(at, Append(p, c), c.from)
         /\ \A i \in 1..Len(p) + 1 : Follow(at, Append(p, c), i)
         /\ EndBefore(at, Append(p, c), Len(p) + 2)
              = c.to + at[c.from].compressed_len + HeaderSize
<1>0. Len(p) \in Nat
  BY LenProperties
<1>01. PICK n \in Nat : n = Len(p)
  BY <1>0
<1>02. PICK q : q = Append(p, c)
  OBVIOUS
<1>1. n = Len(p) /\ q = Append(p, c)
  BY <1>01, <1>02
<1>2. /\ q \in Seq(Copy) /\ Len(q) = n + 1 /\ q[n + 1] = c
      /\ \A i \in 1..n : q[i] = p[i]
  BY <1>1, AppendProperties
<1>3. k \in DOMAIN at /\ k \in Nat /\ at[c.from].compressed_len \in Nat /\ c.from \in Nat
  BY DEF IsAt, IsChain
<1>4. k < c.from
  BY <1>3, FollowsIs
<1>5. Cardinality({a \in DOMAIN at : a < c.from}) = n + 1
  <2>1. Cardinality({a \in DOMAIN at : a < k}) = n
    BY <1>1 DEF IsAt
  <2>2. Cardinality({a \in DOMAIN at : a < Follows(at, k)}) = n + 1
    BY <1>3, <2>1, CountIs
  <2> QED
    BY <2>2
<1>6. \A i \in 1..n + 1 : EndBefore(at, q, i) = EndBefore(at, p, i)
  <2> SUFFICES ASSUME NEW i \in 1..n + 1, i # 1
               PROVE  EndBefore(at, q, i) = EndBefore(at, p, i)
    BY DEF EndBefore
  <2>1. i - 1 \in 1..n
    BY <1>1
  <2> QED
    BY <1>2, <2>1 DEF EndBefore
<1>7. \A i \in 1..n : Follow(at, q, i)
  <2> SUFFICES ASSUME NEW i \in 1..n PROVE Follow(at, q, i)
    OBVIOUS
  <2>1. q[i] = p[i] /\ EndBefore(at, q, i) = EndBefore(at, p, i)
    BY <1>1, <1>2, <1>6
  <2>2. Follow(at, p, i)
    BY <1>1
  <2> QED
    BY <2>1, <2>2 DEF Follow
<1>8. Follow(at, q, n + 1)
  <2>1. EndBefore(at, q, n + 1) = dst
    BY <1>1, <1>6
  <2>2. c.to - dst \in 0..15 /\ c.to % 16 = 0
    BY RoundsUp
  <2>3. c.bytes >= HeaderSize + at[c.from].compressed_len
    BY <1>3 DEF HeaderSize
  <2> QED
    BY <1>2, <1>5, <2>1, <2>2, <2>3 DEF Follow
<1>9. \A i \in 1..n + 1 : Follow(at, q, i)
  <2> SUFFICES ASSUME NEW i \in 1..n + 1 PROVE Follow(at, q, i)
    OBVIOUS
  <2>1. i \in 1..n \/ i = n + 1
    BY <1>1
  <2> QED
    BY <1>7, <1>8, <2>1
<1>10. IsAt(at, q, c.from)
  <2>1. q # <<>> /\ q[Len(q)].from = c.from
    BY <1>1, <1>2
  <2>2. \A i \in 1..n : q[i].from <= c.from
    <3> SUFFICES ASSUME NEW i \in 1..n PROVE q[i].from <= c.from
      OBVIOUS
    <3>1. p[i] \in Copy /\ q[i] = p[i]
      BY <1>1, <1>2, ElementOfSeq
    <3>2. p[i].from <= k
      BY <1>1 DEF IsAt
    <3> QED
      BY <1>3, <1>4, <3>1, <3>2 DEF Copy
  <2>3. \A i \in 1..Len(q) : q[i].from <= c.from
    <3> SUFFICES ASSUME NEW i \in 1..n + 1 PROVE q[i].from <= c.from
      BY <1>2
    <3>1. i \in 1..n \/ i = n + 1
      BY <1>1
    <3> QED
      BY <1>2, <1>3, <2>2, <3>1
  <2> QED
    BY <1>2, <1>5, <2>1, <2>3 DEF IsAt
<1>11. EndBefore(at, q, n + 2) = c.to + at[c.from].compressed_len + HeaderSize
  <2>1. n + 2 # 1 /\ n + 2 - 1 = n + 1
    BY <1>1
  <2>2. EndBefore(at, q, n + 2) = c.to + HeaderSize + at[c.from].compressed_len
    BY <1>2, <2>1 DEF EndBefore
  <2> QED
    <3>1. PICK x \in Nat, y \in Nat : x = c.to /\ y = at[c.from].compressed_len
      BY <1>3 DEF Copy
    <3>2. PICK h \in Nat : h = HeaderSize
      BY DEF HeaderSize
    <3>3. EndBefore(at, q, n + 2) = x + h + y
      BY <2>2, <3>1, <3>2
    <3>4. x + h + y = x + y + h
      OBVIOUS
    <3> QED
      BY <3>1, <3>2, <3>3, <3>4
<1> QED
  BY <1>1, <1>2, <1>9, <1>10, <1>11

\* A LONG that has wrapped is less than it was.
LEMMA ModAtMost ==
  ASSUME NEW x \in Nat, NEW w \in Nat \ {0}
  PROVE  x % w <= x
<1>1. x % w \in Int /\ x % w <= w - 1
  OBVIOUS
<1>2. CASE x >= w
  BY <1>1, <1>2
<1>3. CASE x < w
  <2>1. x % w = x
    BY <1>3
  <2> QED
    BY <2>1
<1> QED
  BY <1>2, <1>3

LEMMA ChainStep ==
  ASSUME StageInv, ChainInv, NextPackage
  PROVE  ChainInv'
<1>1. PICK at : at = buffer.at
  OBVIOUS
<1>2. IsChain(at)
  BY <1>1, BufferIs
<1>3. /\ IsAt(at, placed, pkg) /\ dest = EndBefore(at, placed, Len(placed) + 1)
      /\ dest \in Nat /\ placed \in Seq(Copy)
      /\ \A i \in 1..Len(placed) : Follow(at, placed, i)
  BY <1>1 DEF ChainInv, NextPackage
<1>4. pkg \in DOMAIN at /\ buffer' = buffer /\ verdict = -1
  BY <1>1, <1>3 DEF IsAt, NextPackage, StageInv
<1>5. PICK next, to : next = Follows(at, pkg) /\ to = RoundUp(dest)
  OBVIOUS
<1>6. next = RoundUp(pkg + Header(pkg).compressed_len + HeaderSize)
  BY <1>1, <1>4, <1>5 DEF Follows, Header
<1>7. to \in Nat
  BY <1>3, <1>5, RoundsUp
<1>8. /\ next \in Nat /\ pkg < next
      /\ \A a \in DOMAIN at : pkg < a => next \in DOMAIN at /\ next <= a
  BY <1>2, <1>4, <1>5, FollowsIs
<1>9. next \in DOMAIN at =>
        /\ Header(next) = at[next] /\ at[next].magic
        /\ at[next].compressed_len \in Nat /\ at[next].orig_len \in Nat
  <2>1. next # 0
    BY <1>2, <1>4, <1>8 DEF IsChain
  <2> QED
    BY <1>1, <1>2, <2>1 DEF Header, IsChain
<1>10. CASE \/ ~Header(next).magic
            \/ (TosBase + to + Header(next).orig_len) % Word > TosBase + RomSize
  <2>1. verdict' = 1 /\ pc' = "done" /\ dest' = to /\ placed' = placed
    BY <1>5, <1>6, <1>10 DEF NextPackage, Over
  <2>2. AllCopied(at, pkg, to)
    <3> SUFFICES ASSUME NEW a \in DOMAIN at, a > pkg
                 PROVE  \E b \in DOMAIN at :
                          /\ b > pkg /\ (\A c \in DOMAIN at : c > pkg => b <= c)
                          /\ to + at[b].orig_len > RomSize
      BY DEF AllCopied
    <3>1. DOMAIN at \subseteq Nat
      BY <1>2 DEF IsChain
    <3>2. next \in DOMAIN at
      BY <1>4, <1>8, <3>1
    <3>3. to + at[next].orig_len > RomSize
      <4>1. PICK x \in Nat : x = TosBase + to + at[next].orig_len
        BY <1>2, <1>7, <3>2, SizesAssumption DEF IsChain, TosBase
      <4>2. x % Word > TosBase + RomSize
        BY <1>9, <1>10, <3>2, <4>1
      <4>3. x % Word <= x
        <5>1. PICK w \in Nat \ {0} : w = Word
          BY SizesAssumption
        <5> QED
          BY <5>1, ModAtMost
      <4>4. TosBase \in Nat /\ at[next].orig_len \in Nat
        <5>1. TosBase \in Nat
          BY SizesAssumption DEF TosBase
        <5> QED
          BY <1>2, <3>2, <5>1 DEF IsChain
      <4>5. x % Word \in Int
        BY SizesAssumption
      <4> QED
        BY <1>7, <4>1, <4>2, <4>3, <4>4, <4>5, SizesAssumption
    <3>4. next > pkg /\ \A c \in DOMAIN at : c > pkg => next <= c
      BY <1>4, <1>8, <3>1
    <3> QED
      BY <3>2, <3>3, <3>4
  <2> QED
    BY <1>1, <1>3, <1>4, <1>7, <2>1, <2>2 DEF ChainInv
<1>11. CASE ~(\/ ~Header(next).magic
              \/ (TosBase + to + Header(next).orig_len) % Word > TosBase + RomSize)
  <2>1. next \in DOMAIN at
    BY <1>1, <1>11 DEF Header, NoHeader
  <2>2. PICK c : c = [from |-> next, to |-> to,
                      bytes |-> Header(next).compressed_len + HeaderSize + 15]
    OBVIOUS
  <2>3. /\ placed' = Append(placed, c) /\ pkg' = next /\ pc' = "packages" /\ verdict' = verdict
        /\ dest' = to + Behind(Header(next))
    BY <1>5, <1>6, <1>11, <2>2 DEF NextPackage
  <2>4. c \in Copy
    BY <1>7, <1>8, <1>9, <2>1, <2>2 DEF Copy, HeaderSize
  <2>5. /\ c.from = Follows(at, pkg) /\ c.from \in DOMAIN at /\ c.to = RoundUp(dest)
        /\ c.bytes = at[c.from].compressed_len + HeaderSize + 15
    BY <1>5, <1>9, <2>1, <2>2
  <2>6. /\ Append(placed, c) \in Seq(Copy) /\ IsAt(at, Append(placed, c), c.from)
        /\ \A i \in 1..Len(placed) + 1 : Follow(at, Append(placed, c), i)
        /\ EndBefore(at, Append(placed, c), Len(placed) + 2)
             = c.to + at[c.from].compressed_len + HeaderSize
    BY <1>2, <1>3, <2>4, <2>5, ChainGrows
  <2>7. Len(Append(placed, c)) = Len(placed) + 1 /\ Len(placed) + 1 + 1 = Len(placed) + 2
    BY <1>3
  <2>8. dest' = c.to + at[c.from].compressed_len + HeaderSize /\ dest' \in Nat
    BY <1>7, <1>9, <2>1, <2>2, <2>3 DEF Behind, HeaderSize
  <2> QED
    BY <1>1, <1>4, <2>2, <2>3, <2>6, <2>7, <2>8 DEF ChainInv
<1> QED
  BY <1>10, <1>11

LEMMA ChainInductive == StageInv /\ ChainInv /\ [Next]_vars => ChainInv'
<1> SUFFICES ASSUME StageInv, ChainInv, [Next]_vars PROVE ChainInv'
  OBVIOUS
<1>1. ASSUME UNCHANGED <<buffer, placed, pkg, dest, pc, verdict, from>> PROVE ChainInv'
  BY <1>1 DEF ChainInv, Packed
<1>2. ASSUME UNCHANGED <<buffer, placed>>, pc' # "packages", verdict' = 1 => ~Packed'
      PROVE  ChainInv'
  BY <1>2 DEF ChainInv
<1>3. CASE UNCHANGED vars
  BY <1>1, <1>3 DEF vars, inflate_vars, inputs, package_vars
<1>4. CASE UnpackOld
  BY <1>2, <1>4 DEF UnpackOld, Over, Packed, package_vars
<1>5. CASE Refuse
  BY <1>2, <1>5 DEF Refuse, Over, package_vars
<1>6. CASE CopyStored
  BY <1>2, <1>6 DEF CopyStored, Over, Packed, package_vars, inputs
<1>7. CASE Uncompress
  BY <1>2, <1>7 DEF Uncompress, uncompress_data, Accepts, StageInv, package_vars
<1>8. CASE Inflates
  BY <1>2, <1>8, InflateIs DEF Inflates, StageInv, Inflating, package_vars
<1>9. CASE Uncompressed
  <2>1. /\ pc = "result" /\ verdict = -1 /\ placed = <<>> /\ pkg = 0
        /\ UNCHANGED <<placed, pkg, buffer>>
    BY <1>9 DEF Uncompressed, StageInv
  <2>2. CASE res # 0
    BY <1>2, <1>9, <2>1, <2>2 DEF Uncompressed, Over
  <2>3. CASE res = 0
    BY <1>9, <2>1, <2>3, ChainBegins DEF Uncompressed
  <2> QED
    BY <2>2, <2>3
<1>10. CASE NextPackage
  BY <1>10, ChainStep
<1> QED
  BY <1>3, <1>4, <1>5, <1>6, <1>7, <1>8, <1>9, <1>10 DEF Next, Ended

LEMMA Inductive == Spec => [](StageInv /\ CheckedInv /\ ChainInv)
<1>1. Init => StageInv /\ CheckedInv /\ ChainInv
  BY StageInit, CheckedInit, ChainInit
<1>2. /\ StageInv /\ CheckedInv /\ ChainInv
      /\ [Next]_vars
      => (StageInv /\ CheckedInv /\ ChainInv)'
  BY StageInductive, CheckedInductive, ChainInductive
<1> QED
  BY <1>1, <1>2, PTL DEF Spec

----------------------------------------------------------------------------
(* Reading bits                                                             *)

\* The inputs are bits and bytes, and what is found where no entry is has the size of one.
InputInv ==
  /\ from.bits \in Seq({0, 1}) /\ flip \in Nat /\ fill \in Byte
  /\ wild.e \in 0..Literal \cup {Invalid} /\ wild.v \in Nat /\ wild.v <= MaxWord
  /\ wild.b \in Byte

LEMMA BitIs ==
  ASSUME InputInv, NEW p \in Nat, p # 0
  PROVE  Bit(p) \in {0, 1}
<1>1. CASE p <= Len(from.bits)
  <2>1. from.bits[p] \in {0, 1}
    <3>1. p \in 1..Len(from.bits)
      BY <1>1, LenProperties DEF InputInv
    <3> QED
      BY <3>1, ElementOfSeq DEF InputInv
  <2> QED
    BY <1>1, <2>1 DEF Bit
<1>2. CASE ~(p <= Len(from.bits))
  <2>1. PICK k \in 0..7 : k = (p - 1) % 8
    OBVIOUS
  <2>2. fill \in Nat
    BY DEF InputInv, Byte
  <2>3. (fill \div 2^k) % 2 \in {0, 1}
    <3>1. k = 0 \/ k = 1 \/ k = 2 \/ k = 3 \/ k = 4 \/ k = 5 \/ k = 6 \/ k = 7
      OBVIOUS
    <3>2. \E m \in Nat : m > 0 /\ 2^k = m
      <4>1. CASE k = 0
        <5>1. 2^0 = 1
          OBVIOUS
        <5> QED
          BY <4>1, <5>1
      <4>2. CASE k = 1
        <5>1. 2^1 = 2
          OBVIOUS
        <5> QED
          BY <4>2, <5>1
      <4>3. CASE k = 2
        <5>1. 2^2 = 4
          OBVIOUS
        <5> QED
          BY <4>3, <5>1
      <4>4. CASE k = 3
        <5>1. 2^3 = 8
          OBVIOUS
        <5> QED
          BY <4>4, <5>1
      <4>5. CASE k = 4
        <5>1. 2^4 = 16
          OBVIOUS
        <5> QED
          BY <4>5, <5>1
      <4>6. CASE k = 5
        <5>1. 2^5 = 32
          OBVIOUS
        <5> QED
          BY <4>6, <5>1
      <4>7. CASE k = 6
        <5>1. 2^6 = 64
          OBVIOUS
        <5> QED
          BY <4>7, <5>1
      <4>8. CASE k = 7
        <5>1. 2^7 = 128
          OBVIOUS
        <5> QED
          BY <4>8, <5>1
      <4> QED
        BY <3>1, <4>1, <4>2, <4>3, <4>4, <4>5, <4>6, <4>7, <4>8
    <3> QED
      BY <2>2, <3>2
  <2> QED
    BY <1>2, <2>1, <2>3 DEF Bit
<1> QED
  BY <1>1, <1>2

\* A set of numbers that is not empty has a least one.
LEMMA LeastNat ==
  ASSUME NEW T, T \subseteq Nat, T # {}
  PROVE  \E x \in T : \A y \in T : x <= y
<1> DEFINE R == {ss \in Nat \X Nat : ss[1] < ss[2]}
<1>1. IsWellFoundedOn(R, Nat)
  BY NatLessThanWellFounded DEF OpToRel
<1>2. \E x \in T : \A y \in T : <<y, x>> \notin R
  <2> HIDE DEF R
  <2> QED
    BY <1>1, WFMin
<1>3. PICK x \in T : \A y \in T : <<y, x>> \notin R
  BY <1>2
<1>4. \A y \in T : ~(y < x)
  BY <1>3
<1> QED
  BY <1>4

\* The number that i bits up to bit p make, the last of them lowest.
IsValue(g, p, m) ==
  g = [i \in 0..m |-> IF i = 0 THEN 0 ELSE Bit(p - i) + 2 * g[i - 1]]

LEMMA ValueExists ==
  ASSUME NEW p, NEW m \in Nat
  PROVE  \E g : IsValue(g, p, m)
<1> DEFINE T == {n \in Nat : ~\E g : IsValue(g, p, n)}
<1>1. SUFFICES ASSUME T # {} PROVE FALSE
  OBVIOUS
<1>2. PICK n \in T : \A k \in T : n <= k
  <2>1. T \subseteq Nat
    OBVIOUS
  <2> HIDE DEF T
  <2> QED
    BY <1>1, <2>1, LeastNat
<1>3. n \in Nat /\ ~\E g : IsValue(g, p, n)
  OBVIOUS
<1>4. CASE n = 0
  <2> DEFINE h == [k \in 0..0 |-> 0]
  <2>1. h = [k \in 0..0 |-> IF k = 0 THEN 0 ELSE Bit(p - k) + 2 * h[k - 1]]
    OBVIOUS
  <2> QED
    BY <1>3, <1>4, <2>1 DEF IsValue
<1>5. CASE n # 0
  <2>1. n - 1 \in Nat /\ n - 1 < n
    BY <1>3, <1>5
  <2>2. PICK g : IsValue(g, p, n - 1)
    BY <1>2, <2>1
  <2> DEFINE h == [k \in 0..n |-> IF k = n THEN Bit(p - n) + 2 * g[n - 1] ELSE g[k]]
  <2>3. \A k \in 0..n - 1 : g[k] = IF k = 0 THEN 0 ELSE Bit(p - k) + 2 * g[k - 1]
    BY <2>2 DEF IsValue
  <2>4. \A k \in 0..n : h[k] = IF k = 0 THEN 0 ELSE Bit(p - k) + 2 * h[k - 1]
    <3> SUFFICES ASSUME NEW k \in 0..n
                 PROVE  h[k] = IF k = 0 THEN 0 ELSE Bit(p - k) + 2 * h[k - 1]
      OBVIOUS
    <3>1. CASE k = 0
      BY <1>3, <1>5, <2>3, <3>1
    <3>2. CASE k # 0
      <4>1. k - 1 \in 0..n /\ k - 1 # n /\ k - 1 \in 0..n - 1
        BY <1>3, <3>2
      <4>2. h[k - 1] = g[k - 1]
        BY <4>1
      <4>3. h[k] = Bit(p - k) + 2 * g[k - 1]
        <5>1. CASE k = n
          BY <5>1
        <5>2. CASE k # n
          <6>1. k \in 0..n - 1
            BY <1>3, <5>2
          <6> QED
            BY <2>3, <3>2, <5>2, <6>1
        <5> QED
          BY <5>1, <5>2
      <4> QED
        BY <3>2, <4>2, <4>3
    <3> QED
      BY <3>1, <3>2
  <2>5. h = [k \in 0..n |-> h[k]]
    OBVIOUS
  <2>6. IsValue(h, p, n)
    <3> HIDE DEF h
    <3> QED
      BY <2>4, <2>5 DEF IsValue
  <2> QED
    BY <1>3, <2>6
<1> QED
  BY <1>4, <1>5

LEMMA BitsAre ==
  ASSUME NEW p \in Nat, NEW n \in Nat
  PROVE  \E value : /\ Bits(p, n) = value[n] /\ value[0] = 0
                    /\ \A i \in 1..n : value[i] = Bit(p + n - i) + 2 * value[i - 1]
<1>1. \E g : g = [i \in 0..n |-> IF i = 0 THEN 0 ELSE Bit(p + n - i) + 2 * g[i - 1]]
  <2>1. PICK g : IsValue(g, p + n, n)
    BY ValueExists
  <2> QED
    BY <2>1 DEF IsValue
<1> DEFINE value == CHOOSE g : g = [i \in 0..n |-> IF i = 0 THEN 0
                                                 ELSE Bit(p + n - i) + 2 * g[i - 1]]
<1>2. value = [i \in 0..n |-> IF i = 0 THEN 0 ELSE Bit(p + n - i) + 2 * value[i - 1]]
  BY <1>1
<1>3. Bits(p, n) = value[n]
  BY DEF Bits
<1>4. PICK v : v = value
  OBVIOUS
<1> HIDE DEF value
<1>5. \A i \in 0..n : v[i] = IF i = 0 THEN 0 ELSE Bit(p + n - i) + 2 * v[i - 1]
  BY <1>2, <1>4
<1> QED
  BY <1>3, <1>4, <1>5

LEMMA BitsBound ==
  ASSUME InputInv, NEW p \in Nat, p # 0, NEW n \in Nat, n <= 16
  PROVE  /\ Bits(p, n) \in Nat /\ Bits(p, n) <= MaxWord
         /\ n <= 13 => Bits(p, n) <= 8191
         /\ n = 8 => Bits(p, n) <= 255
         /\ n = 3 => Bits(p, n) <= 7
<1>1. PICK v : /\ Bits(p, n) = v[n] /\ v[0] = 0
               /\ \A i \in 1..n : v[i] = Bit(p + n - i) + 2 * v[i - 1]
  BY BitsAre
<1>2. \A i \in 1..n : Bit(p + n - i) \in {0, 1}
  <2> SUFFICES ASSUME NEW i \in 1..n PROVE Bit(p + n - i) \in {0, 1}
    OBVIOUS
  <2>1. PICK q \in Nat : q = p + n - i /\ q # 0
    OBVIOUS
  <2> QED
    BY <2>1, BitIs
<1>3. ASSUME NEW i \in 1..n, NEW m \in Nat, v[i - 1] \in Nat, v[i - 1] <= m
      PROVE  v[i] \in Nat /\ v[i] <= 2 * m + 1
  <2>1. PICK b \in {0, 1}, w \in Nat : b = Bit(p + n - i) /\ w = v[i - 1]
    BY <1>2, <1>3
  <2>2. v[i] = b + 2 * w /\ w <= m
    BY <1>1, <1>3, <2>1
  <2> QED
    BY <2>2
<1>4. n >= 1 => v[1] \in Nat /\ v[1] <= 1
  BY <1>1, <1>3
<1>5. n >= 2 => v[2] \in Nat /\ v[2] <= 3
  BY <1>1, <1>3, <1>4
<1>6. n >= 3 => v[3] \in Nat /\ v[3] <= 7
  BY <1>1, <1>3, <1>5
<1>7. n >= 4 => v[4] \in Nat /\ v[4] <= 15
  BY <1>1, <1>3, <1>6
<1>8. n >= 5 => v[5] \in Nat /\ v[5] <= 31
  BY <1>1, <1>3, <1>7
<1>9. n >= 6 => v[6] \in Nat /\ v[6] <= 63
  BY <1>1, <1>3, <1>8
<1>10. n >= 7 => v[7] \in Nat /\ v[7] <= 127
  BY <1>1, <1>3, <1>9
<1>11. n >= 8 => v[8] \in Nat /\ v[8] <= 255
  BY <1>1, <1>3, <1>10
<1>12. n >= 9 => v[9] \in Nat /\ v[9] <= 511
  BY <1>1, <1>3, <1>11
<1>13. n >= 10 => v[10] \in Nat /\ v[10] <= 1023
  BY <1>1, <1>3, <1>12
<1>14. n >= 11 => v[11] \in Nat /\ v[11] <= 2047
  BY <1>1, <1>3, <1>13
<1>15. n >= 12 => v[12] \in Nat /\ v[12] <= 4095
  BY <1>1, <1>3, <1>14
<1>16. n >= 13 => v[13] \in Nat /\ v[13] <= 8191
  BY <1>1, <1>3, <1>15
<1>17. n >= 14 => v[14] \in Nat /\ v[14] <= 16383
  BY <1>1, <1>3, <1>16
<1>18. n >= 15 => v[15] \in Nat /\ v[15] <= 32767
  BY <1>1, <1>3, <1>17
<1>19. n >= 16 => v[16] \in Nat /\ v[16] <= 65535
  BY <1>1, <1>3, <1>18
<1> QED
  <2>1. n = 0 \/ n = 1 \/ n = 2 \/ n = 3 \/ n = 4 \/ n = 5 \/ n = 6 \/ n = 7 \/ n = 8
          \/ n = 9 \/ n = 10 \/ n = 11 \/ n = 12 \/ n = 13 \/ n = 14 \/ n = 15 \/ n = 16
    OBVIOUS
  <2> QED
    BY <1>1, <2>1, <1>4, <1>5, <1>6, <1>7, <1>8, <1>9, <1>10, <1>11, <1>12, <1>13, <1>14,
       <1>15, <1>16, <1>17, <1>18, <1>19 DEF MaxWord

----------------------------------------------------------------------------
(* The types of what inflate works with                                     *)

WindowInv ==
  /\ slide \in [0..WSIZE - 1 -> Byte] /\ wp \in 0..WSIZE - 1
  /\ out \in Seq(Byte) /\ Len(out) < MaxOut + WSIZE
  /\ pc \in Inflating \cup {"unpack"} => Len(out) < MaxOut \/ wp = 0
MemoryInv == heap \in 0..HeapTop /\ saved \in 0..HeapTop
TablesInv ==
  /\ Decodable(tl) /\ Decodable(td) /\ ll \in Seq(0..15)
  /\ size[1] \in Nat /\ size[1] <= 286 /\ size[2] \in Nat /\ size[2] <= 30
  /\ pc = "bitlengths" => Len(ll) = 19
  /\ pc = "lengths" => Len(ll) <= size[1] + size[2]
StreamInv ==
  /\ pos \in Nat /\ pos # 0 /\ last \in BOOLEAN /\ res \in 0..5
  /\ todo \in Nat /\ todo <= MaxWord /\ d \in 0..WSIZE - 1
InflateInv == InputInv /\ WindowInv /\ MemoryInv /\ TablesInv /\ StreamInv

LEMMA MeaningIs ==
  ASSUME InputInv, NEW tree, Decodable(tree), NEW p \in Nat, p # 0
  PROVE  LET r == Meaning(tree, p)
         IN /\ r.e \in 0..Literal \cup {Invalid}
            /\ r.v \in Nat /\ r.v <= MaxWord /\ r.next \in Nat /\ r.next # 0
<1>1. wild.b \in Nat
  <2>1. wild.b \in Byte
    BY DEF InputInv
  <2> QED
    BY <2>1 DEF Byte
<1>2. CASE tree.tabs = <<>>
  <2>1. Meaning(tree, p) = [e |-> wild.e, v |-> wild.v, next |-> p + 0 + wild.b]
    BY <1>2 DEF Meaning
  <2>2. p + 0 + wild.b \in Nat /\ p + 0 + wild.b # 0
    BY <1>1
  <2> QED
    BY <2>1, <2>2 DEF InputInv
<1>3. CASE tree.tabs # <<>>
  <2>1. PICK q : q = decode(tree, Bits(p, 16))
    OBVIOUS
  <2>2. IsSymbol(q)
    <3>1. PICK w : w = Bits(p, 16)
      OBVIOUS
    <3>2. w \in Nat /\ w <= MaxWord
      BY <3>1, BitsBound
    <3>3. MaxWord \in Int
      BY DEF MaxWord
    <3>4. w \in 0..MaxWord
      BY <3>2, <3>3
    <3> QED
      BY <1>3, <2>1, <3>1, <3>4 DEF Decodable
  <2>3. PICK m \in Nat : m = IF pc = "codes" THEN wild.b ELSE 0
    BY <1>1
  <2>4. CASE q.e = Garbage
    <3>1. Meaning(tree, p) = [e |-> wild.e, v |-> wild.v, next |-> p + q.used + m]
      BY <1>3, <2>1, <2>3, <2>4 DEF Meaning
    <3>2. p + q.used + m \in Nat /\ p + q.used + m # 0
      BY <2>2 DEF IsSymbol
    <3> QED
      BY <3>1, <3>2 DEF InputInv
  <2>5. CASE q.e # Garbage
    <3>1. Meaning(tree, p) = [e |-> q.e, v |-> q.v, next |-> p + q.used]
      BY <1>3, <2>1, <2>5 DEF Meaning
    <3>2. /\ q.e \in 0..13 \cup {EndOfBlock, Literal, Invalid} /\ q.v \in Nat
          /\ q.v <= 24577 /\ q.used \in Nat
      BY <2>2, <2>5 DEF IsSymbol
    <3>3. q.e \in 0..Literal \cup {Invalid} /\ q.v <= MaxWord
      BY <3>2 DEF EndOfBlock, Literal, Invalid, MaxWord
    <3>4. p + q.used \in Nat /\ p + q.used # 0
      BY <3>2
    <3> QED
      BY <3>1, <3>2, <3>3, <3>4
  <2> QED
    BY <2>4, <2>5
<1> QED
  BY <1>2, <1>3

----------------------------------------------------------------------------
(* The window                                                               *)

LEMMA PutOut ==
  ASSUME NEW s \in [0..WSIZE - 1 -> Byte], NEW n \in 0..WSIZE
  PROVE  /\ [i \in 1..n |-> s[i - 1]] \in Seq(Byte)
         /\ Len([i \in 1..n |-> s[i - 1]]) = n
<1>1. \A i \in 1..n : s[i - 1] \in Byte
  BY InflateAssumption
<1> QED
  BY <1>1

LEMMA FilledIs ==
  ASSUME WindowInv, Len(out) < MaxOut, NEW s \in [0..WSIZE - 1 -> Byte], NEW w \in 0..WSIZE,
         Filled(s, w)
  PROVE  WindowInv'
<1>1. WSIZE \in Nat /\ WSIZE # 0 /\ MaxOut \in Nat /\ Len(out) \in Nat
  BY InflateAssumption, LenProperties DEF WindowInv
<1>2. CASE w = WSIZE
  <2> DEFINE more == [i \in 1..WSIZE |-> s[i - 1]]
  <2>1. more \in Seq(Byte) /\ Len(more) = WSIZE
    <3>1. WSIZE \in 0..WSIZE
      BY <1>1
    <3> QED
      BY <3>1, PutOut
  <2>2. wp' = 0 /\ out' = out \o more /\ slide' = s
    BY <1>2 DEF Filled
  <2> HIDE DEF more
  <2>3. out' \in Seq(Byte) /\ Len(out') = Len(out) + WSIZE
    BY <2>1, <2>2, ConcatProperties DEF WindowInv
  <2>4. Len(out') < MaxOut + WSIZE /\ 0 \in 0..WSIZE - 1
    BY <1>1, <2>3
  <2> QED
    BY <2>2, <2>3, <2>4 DEF WindowInv
<1>3. CASE w # WSIZE
  <2>1. wp' = w /\ out' = out /\ slide' = s /\ w \in 0..WSIZE - 1
    BY <1>1, <1>3 DEF Filled
  <2> QED
    BY <1>1, <2>1 DEF WindowInv
<1> QED
  BY <1>2, <1>3

LEMMA PutKeeps ==
  ASSUME WindowInv, NEW byte \in Byte, Put(byte)
  PROVE  WindowInv'
<1>1. [slide EXCEPT ![wp] = byte] \in [0..WSIZE - 1 -> Byte]
  BY DEF WindowInv
<1>2. wp + 1 \in 0..WSIZE
  BY InflateAssumption DEF WindowInv
<1> QED
  BY <1>1, <1>2, FilledIs DEF Put

\* The window after each byte of a match.
IsCopy(g, n) ==
  g = [i \in 0..n |-> IF i = 0 THEN slide
                      ELSE [g[i - 1] EXCEPT ![wp + i - 1] = g[i - 1][d + i - 1]]]

LEMMA CopyExists ==
  ASSUME NEW m \in Nat
  PROVE  \E g : IsCopy(g, m)
<1> DEFINE T == {n \in Nat : ~\E g : IsCopy(g, n)}
<1>1. SUFFICES ASSUME T # {} PROVE FALSE
  OBVIOUS
<1>2. PICK n \in T : \A k \in T : n <= k
  <2>1. T \subseteq Nat
    OBVIOUS
  <2> HIDE DEF T
  <2> QED
    BY <1>1, <2>1, LeastNat
<1>3. n \in Nat /\ ~\E g : IsCopy(g, n)
  OBVIOUS
<1>4. CASE n = 0
  <2> DEFINE h == [k \in 0..0 |-> slide]
  <2>1. h = [k \in 0..0 |-> IF k = 0 THEN slide
                            ELSE [h[k - 1] EXCEPT ![wp + k - 1] = h[k - 1][d + k - 1]]]
    OBVIOUS
  <2> QED
    BY <1>3, <1>4, <2>1 DEF IsCopy
<1>5. CASE n # 0
  <2>1. n - 1 \in Nat /\ n - 1 < n
    BY <1>3, <1>5
  <2>2. PICK g : IsCopy(g, n - 1)
    BY <1>2, <2>1
  <2> DEFINE Next_(s, k) == [s EXCEPT ![wp + k - 1] = s[d + k - 1]]
             h == [k \in 0..n |-> IF k = n THEN Next_(g[n - 1], n) ELSE g[k]]
  <2>3. \A k \in 0..n - 1 : g[k] = IF k = 0 THEN slide ELSE Next_(g[k - 1], k)
    BY <2>2 DEF IsCopy
  <2>4. \A k \in 0..n : h[k] = IF k = 0 THEN slide ELSE Next_(h[k - 1], k)
    <3> HIDE DEF Next_
    <3> SUFFICES ASSUME NEW k \in 0..n
                 PROVE  h[k] = IF k = 0 THEN slide ELSE Next_(h[k - 1], k)
      OBVIOUS
    <3>1. CASE k = 0
      BY <1>3, <1>5, <2>3, <3>1
    <3>2. CASE k # 0
      <4>1. k - 1 \in 0..n /\ k - 1 # n /\ k - 1 \in 0..n - 1
        BY <1>3, <3>2
      <4>2. h[k - 1] = g[k - 1]
        BY <4>1
      <4>3. h[k] = Next_(g[k - 1], k)
        <5>1. CASE k = n
          BY <5>1
        <5>2. CASE k # n
          <6>1. k \in 0..n - 1
            BY <1>3, <5>2
          <6> QED
            BY <2>3, <3>2, <5>2, <6>1
        <5> QED
          BY <5>1, <5>2
      <4> QED
        BY <3>2, <4>2, <4>3
    <3> QED
      BY <3>1, <3>2
  <2>5. h = [k \in 0..n |-> h[k]]
    OBVIOUS
  <2>6. IsCopy(h, n)
    <3> HIDE DEF h
    <3> QED
      BY <2>4, <2>5 DEF IsCopy
  <2> QED
    BY <1>3, <2>6
<1> QED
  BY <1>4, <1>5

\* Copying in the window, without going beyond it, leaves bytes in it.
LEMMA CopiedIs ==
  ASSUME WindowInv, StreamInv, NEW n \in Nat, d + n <= WSIZE, wp + n <= WSIZE
  PROVE  Copied(n) \in [0..WSIZE - 1 -> Byte]
<1> DEFINE W == [0..WSIZE - 1 -> Byte]
<1>1. \E g : g = [i \in 0..n |-> IF i = 0 THEN slide
                                 ELSE [g[i - 1] EXCEPT ![wp + i - 1] = g[i - 1][d + i - 1]]]
  BY CopyExists DEF IsCopy
<1> DEFINE after == CHOOSE g : g = [i \in 0..n |->
                      IF i = 0 THEN slide
                      ELSE [g[i - 1] EXCEPT ![wp + i - 1] = g[i - 1][d + i - 1]]]
<1>2. after = [i \in 0..n |-> IF i = 0 THEN slide
                 ELSE [after[i - 1] EXCEPT ![wp + i - 1] = after[i - 1][d + i - 1]]]
  BY <1>1
<1>3. Copied(n) = after[n]
  BY DEF Copied
<1>4. PICK a : a = after
  OBVIOUS
<1> HIDE DEF after
<1>5. \A i \in 0..n : a[i] = IF i = 0 THEN slide
                             ELSE [a[i - 1] EXCEPT ![wp + i - 1] = a[i - 1][d + i - 1]]
  BY <1>2, <1>4
<1>6. WSIZE \in Nat /\ wp \in 0..WSIZE - 1 /\ d \in 0..WSIZE - 1 /\ slide \in W
  BY InflateAssumption DEF WindowInv, StreamInv
<1>7. PICK w0 \in 0..WSIZE - 1, d0 \in 0..WSIZE - 1 : w0 = wp /\ d0 = d
  BY <1>6
<1> DEFINE T == {i \in 0..n : a[i] \notin W}
<1>8. T = {}
  <2> SUFFICES ASSUME T # {} PROVE FALSE
    OBVIOUS
  <2>1. PICK m \in T : \A k \in T : m <= k
    <3>1. T \subseteq Nat
      OBVIOUS
    <3> HIDE DEF T
    <3> QED
      BY <3>1, LeastNat
  <2>2. m \in 0..n /\ a[m] \notin W
    BY <2>1
  <2>3. m # 0
    BY <1>5, <1>6, <2>2
  <2>4. m - 1 \in 0..n /\ m - 1 < m
    BY <2>2, <2>3
  <2>5. a[m - 1] \in W
    BY <2>1, <2>4
  <2>6. w0 + m - 1 \in 0..WSIZE - 1 /\ d0 + m - 1 \in 0..WSIZE - 1
    BY <1>6, <1>7, <2>2, <2>3
  <2>7. a[m - 1][d0 + m - 1] \in Byte
    BY <2>5, <2>6
  <2>8. a[m] = [a[m - 1] EXCEPT ![w0 + m - 1] = a[m - 1][d0 + m - 1]]
    BY <1>5, <1>7, <2>2, <2>3
  <2>9. a[m] \in W
    BY <2>5, <2>7, <2>8
  <2> QED
    BY <2>2, <2>9
<1>9. a[n] \in W
  BY <1>8
<1> QED
  BY <1>3, <1>4, <1>9

----------------------------------------------------------------------------
(* The steps of inflate                                                     *)

\* What huft_build makes of any lengths of codes of the alphabets it is asked for.
HuftBuilds == \A b \in Seq(0..15) : BuildsTrees(b)

Rest == MemoryInv /\ TablesInv /\ StreamInv

LEMMA WindowStep == InflateInv /\ inflate => WindowInv'
<1> SUFFICES ASSUME InflateInv, inflate PROVE WindowInv'
  OBVIOUS
<1> USE DEF InflateInv
<1>1. ASSUME UNCHANGED window PROVE WindowInv'
  BY <1>1, InflateIs DEF WindowInv, window
<1>2. CASE BadBlock \/ StoredBlock \/ FixedBlock \/ DynamicBlock
  BY <1>1, <1>2 DEF BadBlock, StoredBlock, FixedBlock, DynamicBlock, BlockIs
<1>3. CASE StoredEnd \/ BuildLengths \/ LengthCode \/ BuildTables
  BY <1>1, <1>3 DEF StoredEnd, BuildLengths, LengthCode, BuildTables
<1>4. CASE BlockEnds \/ BadCode \/ Match
  BY <1>1, <1>4 DEF BlockEnds, BadCode, Match
<1>5. CASE StoredByte
  <2>1. PICK v : v = Bits(pos, 8)
    OBVIOUS
  <2>2. v \in Nat /\ v <= 255
    BY <2>1, BitsBound DEF StreamInv
  <2>3. v \in Byte
    BY <2>2 DEF Byte
  <2> QED
    BY <1>5, <2>1, <2>3, PutKeeps DEF StoredByte
<1>6. CASE LiteralByte
  <2>1. Symbol.v % 256 \in Byte
    <3>1. PICK v \in Nat : v = Symbol.v
      BY MeaningIs DEF Symbol, TablesInv, StreamInv
    <3>2. v % 256 \in 0..255
      BY ONLY v \in Nat
    <3> QED
      BY <3>1, <3>2 DEF Byte
  <2> QED
    BY <1>6, <2>1, PutKeeps DEF LiteralByte
<1>7. CASE CopyPiece
  <2>1. PICK e : e = Piece(d, wp)
    OBVIOUS
  <2>2. e \in Nat /\ d + e <= WSIZE /\ wp + e \in 0..WSIZE
    BY <1>7, <2>1, InflateAssumption DEF Piece, StreamInv, WindowInv
  <2>3. Copied(e) \in [0..WSIZE - 1 -> Byte]
    <3>1. wp + e <= WSIZE
      BY <2>2
    <3> QED
      BY <2>2, <3>1, CopiedIs
  <2> QED
    BY <1>7, <2>1, <2>2, <2>3, FilledIs DEF CopyPiece
<1>8. CASE Finish
  <2> DEFINE more == [i \in 1..wp |-> slide[i - 1]]
  <2>1. wp \in 0..WSIZE /\ wp \in Nat /\ wp < WSIZE /\ WSIZE \in Nat
    BY InflateAssumption DEF WindowInv
  <2>2. more \in Seq(Byte) /\ Len(more) = wp
    BY <2>1, PutOut DEF WindowInv
  <2>3. out' = out \o more /\ pc' = "result" /\ slide' = slide /\ wp' = wp /\ pc = "flush"
    BY <1>8 DEF Finish
  <2> HIDE DEF more
  <2>4. out' \in Seq(Byte) /\ Len(out') = Len(out) + wp /\ Len(out) \in Nat
    BY <2>2, <2>3, ConcatProperties, LenProperties DEF WindowInv
  <2>5. Len(out) < MaxOut \/ wp = 0
    BY <2>3 DEF WindowInv, Inflating
  <2>6. Len(out') < MaxOut + WSIZE
    BY <2>1, <2>4, <2>5, InflateAssumption DEF WindowInv
  <2> QED
    BY <2>3, <2>4, <2>6 DEF WindowInv, Inflating
<1> QED
  BY <1>2, <1>3, <1>4, <1>5, <1>6, <1>7, <1>8 DEF inflate

LEMMA ReturnIs ==
  ASSUME NEW r, Return(r)
  PROVE  /\ res' = r /\ heap' = saved'
         /\ pc' \in {"result", "flush", "block"}
BY DEF Return

LEMMA BlockBegins ==
  ASSUME InflateInv, NEW t, BlockIs(t)
  PROVE  saved' = heap /\ last' \in BOOLEAN /\ d' = d
BY DEF BlockIs

LEMMA TablesStay ==
  ASSUME TablesInv, UNCHANGED tables, pc' \notin {"bitlengths", "lengths"}
  PROVE  TablesInv'
BY DEF TablesInv, tables, Decodable, IsSymbol

\* A block ends: all it changes besides is where the stream is read.
LEMMA ReturnKeeps ==
  ASSUME Rest, NEW r \in 0..5, Return(r), saved' \in 0..HeapTop, last' \in BOOLEAN,
         pos' \in Nat, pos' # 0, UNCHANGED <<tables, todo, d>>
  PROVE  Rest'
<1>1. MemoryInv'
  BY ReturnIs DEF MemoryInv
<1>2. TablesInv'
  BY ReturnIs, TablesStay DEF Rest
<1>3. StreamInv'
  BY ReturnIs DEF Rest, StreamInv
<1> QED
  BY <1>1, <1>2, <1>3 DEF Rest

\* Both tables are built and fit in the heap, or an error is returned.
LEMMA BuildKeeps ==
  ASSUME Rest, NEW litlen, NEW dist, IsTree(litlen), IsTree(dist), NEW tolerated \in {0, 1},
         Build(litlen, dist, tolerated), saved' \in 0..HeapTop, last' \in BOOLEAN,
         pos' \in Nat, pos' # 0, UNCHANGED <<todo, d>>
  PROVE  Rest'
<1> DEFINE r1 == Built(litlen, heap)
           r2 == Built(dist, heap + litlen.mem)
<1>1. litlen.mem \in Nat /\ dist.mem \in Nat /\ litlen.ret \in 0..3 /\ dist.ret \in 0..3
  BY DEF IsTree
<1>2. r1 \in 0..3 /\ r2 \in 0..3
  BY <1>1 DEF Built
<1>3. CASE r1 # 0
  <2>1. Return(r1) /\ UNCHANGED tables
    BY <1>3 DEF Build
  <2> HIDE DEF r1, r2
  <2>2. r1 \in 0..5
    BY <1>2
  <2> QED
    BY <2>1, <2>2, ReturnKeeps
<1>4. CASE r1 = 0 /\ r2 > tolerated
  <2>1. Return(r2) /\ UNCHANGED tables
    BY <1>4 DEF Build
  <2> HIDE DEF r1, r2
  <2>2. r2 \in 0..5
    BY <1>2
  <2> QED
    BY <2>1, <2>2, ReturnKeeps
<1>5. CASE r1 = 0 /\ ~(r2 > tolerated)
  <2>1. Codes(litlen, dist, heap)
    BY <1>5 DEF Build
  <2>2. r1 = 0 /\ r2 <= 1
    BY <1>2, <1>5
  <2>3. heap + litlen.mem + dist.mem \in 0..HeapTop
    <3>1. PICK m \in Nat, n \in Nat : m = litlen.mem /\ n = dist.mem
      BY <1>1
    <3>2. heap + m + n <= HeapTop
      BY <1>1, <2>2, <3>1, InflateAssumption DEF Built, Rest, MemoryInv
    <3> QED
      BY <3>1, <3>2, InflateAssumption DEF Rest, MemoryInv
  <2>4. Decodable(litlen) /\ Decodable(dist)
    BY <1>1, <2>2 DEF Built, IsTree
  <2>5. /\ tl' = litlen /\ td' = dist /\ UNCHANGED <<ll, size, res>> /\ pc' = "codes"
        /\ heap' = heap + litlen.mem + dist.mem
    BY <2>1 DEF Codes
  <2>6. MemoryInv'
    BY <2>3, <2>5 DEF MemoryInv
  <2>7. TablesInv'
    <3>1. Decodable(tl)' /\ Decodable(td)'
      BY <2>4, <2>5 DEF Decodable, IsSymbol
    <3> QED
      BY <2>5, <3>1 DEF Rest, TablesInv
  <2>8. StreamInv'
    BY <2>5 DEF Rest, StreamInv
  <2> QED
    BY <2>6, <2>7, <2>8 DEF Rest
<1> QED
  BY <1>3, <1>4, <1>5

LEMMA NextBits ==
  ASSUME InputInv, NEW p \in Nat, p # 0, NEW n \in Nat, n <= 16
  PROVE  Bits(p, n) \in Nat /\ Bits(p, n) <= MaxWord
BY BitsBound

LEMMA StoredBlockStep == InflateInv /\ StoredBlock => Rest'
<1> SUFFICES ASSUME InflateInv, StoredBlock PROVE Rest'
  OBVIOUS
<1>1. /\ saved' = heap /\ last' \in BOOLEAN /\ d' = d /\ UNCHANGED tables
      /\ heap \in 0..HeapTop
  BY BlockBegins DEF StoredBlock, InflateInv, MemoryInv
<1>2. PICK p : p = ((pos + 9) \div 8) * 8 + 1
  OBVIOUS
<1>3. p \in Nat /\ p # 0
  BY <1>2 DEF InflateInv, StreamInv
<1>4. PICK n : n = Bits(p, 16)
  OBVIOUS
<1>5. n \in Nat /\ n <= MaxWord
  BY <1>3, <1>4, NextBits DEF InflateInv
<1>6. \/ pos' = p + 32 /\ todo' = n /\ pc' = "stored" /\ UNCHANGED <<heap, res>>
      \/ pos' = p + 16 /\ UNCHANGED todo /\ Return(1)
  BY <1>2, <1>4 DEF StoredBlock
<1>7. CASE pos' = p + 32 /\ todo' = n /\ pc' = "stored" /\ UNCHANGED <<heap, res>>
  <2>1. TablesInv'
    BY <1>1, <1>7, TablesStay DEF InflateInv
  <2>2. MemoryInv' /\ StreamInv'
    BY <1>1, <1>3, <1>5, <1>7 DEF InflateInv, MemoryInv, StreamInv
  <2> QED
    BY <2>1, <2>2 DEF Rest
<1>8. CASE pos' = p + 16 /\ UNCHANGED todo /\ Return(1)
  BY <1>1, <1>3, <1>8, ReturnKeeps DEF InflateInv, Rest
<1> QED
  BY <1>6, <1>7, <1>8

LEMMA StoredByteStep == InflateInv /\ StoredByte => Rest'
<1> SUFFICES ASSUME InflateInv, StoredByte PROVE Rest'
  OBVIOUS
<1>1. TablesInv'
  BY TablesStay DEF InflateInv, StoredByte, InBlock
<1>2. MemoryInv' /\ StreamInv'
  BY DEF InflateInv, StoredByte, InBlock, MemoryInv, StreamInv, MaxWord
<1> QED
  BY <1>1, <1>2 DEF Rest

LEMMA FixedAre ==
  ASSUME HuftBuilds
  PROVE  IsTree(FixedTl) /\ IsTree(FixedTd)
<1>1. PICK b : b = FixedLengths
  OBVIOUS
<1>2. b \in Seq(0..15) /\ Len(b) <= 288
  BY <1>1 DEF FixedLengths
<1>3. IsTree(build(b, 257, cplens, cplext, 7, HeapTop))
  BY <1>2 DEF HuftBuilds, BuildsTrees
<1>4. PICK f : f = [i \in 1..30 |-> 5]
  OBVIOUS
<1>5. f \in Seq(0..15) /\ Len(f) <= 30
  BY <1>4
<1>6. IsTree(build(f, 0, cpdist, cpdext, 5, HeapTop))
  BY <1>5 DEF HuftBuilds, BuildsTrees
<1> QED
  BY <1>1, <1>3, <1>4, <1>6 DEF FixedTl, FixedTd

LEMMA FixedBlockStep == HuftBuilds /\ InflateInv /\ FixedBlock => Rest'
<1> SUFFICES ASSUME HuftBuilds, InflateInv, FixedBlock PROVE Rest'
  OBVIOUS
<1>1. /\ saved' \in 0..HeapTop /\ last' \in BOOLEAN /\ UNCHANGED <<todo, d>>
      /\ pos' \in Nat /\ pos' # 0
  BY BlockBegins DEF FixedBlock, InflateInv, MemoryInv, StreamInv
<1>2. Build(FixedTl, FixedTd, 1)
  BY DEF FixedBlock
<1> QED
  BY <1>1, <1>2, FixedAre, BuildKeeps DEF InflateInv, Rest

LEMMA BadBlockStep == InflateInv /\ BadBlock => Rest'
<1> SUFFICES ASSUME InflateInv, BadBlock PROVE Rest'
  OBVIOUS
<1>1. /\ saved' \in 0..HeapTop /\ last' \in BOOLEAN /\ UNCHANGED <<tables, todo, d>>
      /\ pos' \in Nat /\ pos' # 0 /\ Return(2)
  BY BlockBegins DEF BadBlock, InflateInv, MemoryInv, StreamInv
<1> QED
  BY <1>1, ReturnKeeps DEF InflateInv, Rest

\* The lengths in the header of a block are given in the order of border, which has all.
LEMMA BorderHasAll == \A i \in 0..18 : \E j \in 1..19 : border[j] = i
<1> SUFFICES ASSUME NEW i \in 0..18 PROVE \E j \in 1..19 : border[j] = i
  OBVIOUS
<1>1. i = 0 \/ i = 1 \/ i = 2 \/ i = 3 \/ i = 4 \/ i = 5 \/ i = 6 \/ i = 7 \/ i = 8
        \/ i = 9 \/ i = 10 \/ i = 11 \/ i = 12 \/ i = 13 \/ i = 14 \/ i = 15 \/ i = 16
        \/ i = 17 \/ i = 18
  OBVIOUS
<1>2. /\ border[4] = 0 /\ border[18] = 1 /\ border[16] = 2 /\ border[14] = 3
      /\ border[12] = 4 /\ border[10] = 5 /\ border[8] = 6 /\ border[6] = 7
      /\ border[5] = 8 /\ border[7] = 9 /\ border[9] = 10 /\ border[11] = 11
      /\ border[13] = 12 /\ border[15] = 13 /\ border[17] = 14 /\ border[19] = 15
      /\ border[1] = 16 /\ border[2] = 17 /\ border[3] = 18
  BY DEF border
<1> QED
  BY <1>1, <1>2

LEMMA DynamicBlockStep == InflateInv /\ DynamicBlock => Rest'
<1> SUFFICES ASSUME InflateInv, DynamicBlock PROVE Rest'
  OBVIOUS
<1>1. /\ saved' = heap /\ last' \in BOOLEAN /\ UNCHANGED <<todo, d>>
      /\ heap \in 0..HeapTop /\ pos \in Nat /\ pos # 0
  BY BlockBegins DEF DynamicBlock, InflateInv, MemoryInv, StreamInv
<1>2. PICK nl : nl = 257 + Bits(pos + 3, 5)
  OBVIOUS
<1>3. PICK nd : nd = 1 + Bits(pos + 8, 5)
  OBVIOUS
<1>4. PICK nb : nb = 4 + Bits(pos + 13, 4)
  OBVIOUS
<1>5. nl \in Nat /\ nd \in Nat /\ nb \in Nat
  <2>1. pos + 3 \in Nat /\ pos + 3 # 0 /\ pos + 8 \in Nat /\ pos + 8 # 0
          /\ pos + 13 \in Nat /\ pos + 13 # 0
    BY <1>1
  <2>2. Bits(pos + 3, 5) \in Nat /\ Bits(pos + 8, 5) \in Nat /\ Bits(pos + 13, 4) \in Nat
    BY <2>1, NextBits DEF InflateInv
  <2> QED
    BY <1>2, <1>3, <1>4, <2>2
<1> DEFINE place(i) == CHOOSE j \in 1..19 : border[j] = i
           lengths == [i \in 1..19 |-> IF place(i - 1) > nb THEN 0
                                       ELSE Bits(pos + 14 + 3 * place(i - 1), 3)]
<1>6. \/ (nl > 286 \/ nd > 30) /\ pos' = pos + 17 /\ Return(1) /\ UNCHANGED tables
      \/ /\ ~(nl > 286 \/ nd > 30)
         /\ pos' = pos + 17 + 3 * nb /\ size' = <<nl, nd>> /\ ll' = lengths
         /\ pc' = "bitlengths" /\ UNCHANGED <<tl, td, heap, res>>
  BY <1>2, <1>3, <1>4 DEF DynamicBlock
<1>7. \A i \in 1..19 : place(i - 1) \in 1..19
  <2> SUFFICES ASSUME NEW i \in 1..19 PROVE place(i - 1) \in 1..19
    OBVIOUS
  <2>1. i - 1 \in 0..18
    OBVIOUS
  <2> QED
    BY <2>1, BorderHasAll
<1> HIDE DEF place
<1>8. lengths \in Seq(0..15) /\ Len(lengths) = 19
  <2>1. \A i \in 1..19 : lengths[i] \in 0..15
    <3> SUFFICES ASSUME NEW i \in 1..19,
                        NEW p \in Nat, p = pos + 14 + 3 * place(i - 1), p # 0
                 PROVE  Bits(p, 3) \in 0..15
      BY <1>1, <1>7
    <3>1. PICK v : v = Bits(p, 3)
      OBVIOUS
    <3>2. v \in Nat /\ v <= 7
      BY <3>1, BitsBound DEF InflateInv
    <3> QED
      BY <3>1, <3>2
  <2>2. lengths \in [1..19 -> 0..15]
    BY <2>1
  <2> QED
    BY <2>2
<1> HIDE DEF lengths
<1>9. CASE (nl > 286 \/ nd > 30) /\ pos' = pos + 17 /\ Return(1) /\ UNCHANGED tables
  <2>1. pos' \in Nat /\ pos' # 0 /\ saved' \in 0..HeapTop
    BY <1>1, <1>9
  <2> QED
    BY <1>1, <1>9, <2>1, ReturnKeeps DEF InflateInv, Rest
<1>10. CASE /\ ~(nl > 286 \/ nd > 30)
            /\ pos' = pos + 17 + 3 * nb /\ size' = <<nl, nd>> /\ ll' = lengths
            /\ pc' = "bitlengths" /\ UNCHANGED <<tl, td, heap, res>>
  <2>1. TablesInv'
    <3>1. Decodable(tl)' /\ Decodable(td)'
      BY <1>10 DEF InflateInv, TablesInv, Decodable, IsSymbol
    <3>2. size'[1] = nl /\ size'[2] = nd /\ nl <= 286 /\ nd <= 30
      BY <1>5, <1>10
    <3> QED
      BY <1>5, <1>8, <1>10, <3>1, <3>2 DEF TablesInv
  <2>2. MemoryInv' /\ StreamInv'
    BY <1>1, <1>5, <1>10 DEF InflateInv, MemoryInv, StreamInv
  <2> QED
    BY <2>1, <2>2 DEF Rest
<1> QED
  BY <1>6, <1>9, <1>10

LEMMA StoredEndStep == InflateInv /\ StoredEnd => Rest'
<1> SUFFICES ASSUME InflateInv, StoredEnd PROVE Rest'
  OBVIOUS
<1>1. /\ saved' \in 0..HeapTop /\ last' \in BOOLEAN /\ UNCHANGED <<tables, todo, d>>
      /\ pos' \in Nat /\ pos' # 0 /\ Return(0)
  BY DEF StoredEnd, InBlock, copying, InflateInv, MemoryInv, StreamInv
<1> QED
  BY <1>1, ReturnKeeps DEF InflateInv, Rest

LEMMA BuildLengthsStep == HuftBuilds /\ InflateInv /\ BuildLengths => Rest'
<1> SUFFICES ASSUME HuftBuilds, InflateInv, BuildLengths PROVE Rest'
  OBVIOUS
<1>1. /\ saved' = saved /\ saved \in 0..HeapTop /\ last' \in BOOLEAN /\ UNCHANGED <<todo, d>>
      /\ pos' = pos /\ pos \in Nat /\ pos # 0 /\ pc = "bitlengths"
  BY DEF BuildLengths, InBlock, copying, InflateInv, MemoryInv, StreamInv
<1>2. PICK tree : tree = build(ll, 19, <<>>, <<>>, 7, HeapTop)
  OBVIOUS
<1>3. IsTree(tree)
  BY <1>1, <1>2 DEF HuftBuilds, BuildsTrees, InflateInv, TablesInv
<1>4. LengthTable(tree, Built(tree, heap))
  BY <1>2 DEF BuildLengths
<1>5. PICK r : r = Built(tree, heap)
  OBVIOUS
<1>6. r \in 0..5
  BY <1>3, <1>5 DEF Built, IsTree
<1>7. CASE r # 0
  <2>1. Return(r) /\ UNCHANGED tables
    BY <1>4, <1>5, <1>7 DEF LengthTable
  <2> QED
    BY <1>1, <1>6, <2>1, ReturnKeeps DEF InflateInv, Rest
<1>8. CASE r = 0
  <2>1. /\ tl' = tree /\ ll' = <<>> /\ UNCHANGED <<td, size, res>>
        /\ heap' = heap + tree.mem /\ pc' = "lengths"
    BY <1>4, <1>5, <1>8 DEF LengthTable
  <2>2. tree.mem \in Nat /\ heap + tree.mem <= HeapTop /\ Decodable(tree)
    BY <1>3, <1>5, <1>8, InflateAssumption DEF Built, IsTree, InflateInv, MemoryInv
  <2>3. MemoryInv'
    BY <1>1, <2>1, <2>2, InflateAssumption DEF InflateInv, MemoryInv
  <2>4. TablesInv'
    <3>1. Decodable(tl)' /\ Decodable(td)'
      BY <2>1, <2>2 DEF InflateInv, TablesInv, Decodable, IsSymbol
    <3>2. ll' \in Seq(0..15) /\ Len(ll') = 0
      BY <2>1, EmptySeq
    <3> QED
      BY <2>1, <3>1, <3>2 DEF InflateInv, TablesInv
  <2>5. StreamInv'
    BY <1>1, <2>1 DEF InflateInv, StreamInv
  <2> QED
    BY <2>3, <2>4, <2>5 DEF Rest
<1> QED
  BY <1>7, <1>8

LEMMA LengthCodeStep == InflateInv /\ LengthCode => Rest'
<1> SUFFICES ASSUME InflateInv, LengthCode PROVE Rest'
  OBVIOUS
<1>1. /\ saved' = saved /\ saved \in 0..HeapTop /\ last' \in BOOLEAN /\ UNCHANGED <<todo, d>>
      /\ pos \in Nat /\ pos # 0 /\ pc = "lengths" /\ Decodable(tl) /\ ll \in Seq(0..15)
      /\ UNCHANGED <<tl, td, size>>
  BY DEF LengthCode, InBlock, copying, InflateInv, MemoryInv, StreamInv, TablesInv
<1>2. PICK r : r = Meaning(tl, pos)
  OBVIOUS
<1>3. r.v \in Nat /\ r.next \in Nat /\ r.next # 0
  BY <1>1, <1>2, MeaningIs DEF InflateInv
<1>4. PICK bits \in {0, 2, 3, 7} :
        bits = IF r.v < 16 THEN 0 ELSE IF r.v = 16 THEN 2 ELSE IF r.v = 17 THEN 3 ELSE 7
  OBVIOUS
<1>5. PICK more : more = Bits(r.next, bits)
  OBVIOUS
<1>6. more \in Nat
  <2>1. bits \in Nat /\ bits <= 16
    BY <1>4
  <2> QED
    BY <1>3, <1>5, <2>1, NextBits DEF InflateInv
<1>7. PICK times \in Nat :
        times = IF r.v < 16 THEN 1 ELSE (IF r.v <= 17 THEN 3 ELSE 11) + more
  BY <1>6
<1>8. PICK l : l = IF r.v < 16 THEN r.v ELSE IF r.v = 16 /\ ll # <<>> THEN Last(ll) ELSE 0
  OBVIOUS
<1>9. l \in 0..15
  <2>1. ll # <<>> => Last(ll) \in 0..15
    <3> SUFFICES ASSUME ll # <<>> PROVE Last(ll) \in 0..15
      OBVIOUS
    <3>1. Len(ll) \in 1..Len(ll)
      BY <1>1, EmptySeq, LenProperties
    <3> QED
      BY <1>1, <3>1, ElementOfSeq DEF Last
  <2> QED
    BY <1>3, <1>8, <2>1
<1>10. /\ pos' = r.next + bits
       /\ IF Len(ll) + times > size[1] + size[2]
          THEN Return(1) /\ UNCHANGED ll
          ELSE ll' = ll \o [i \in 1..times |-> l] /\ UNCHANGED <<heap, pc, res>>
  BY <1>2, <1>4, <1>5, <1>7, <1>8 DEF LengthCode
<1>11. pos' \in Nat /\ pos' # 0
  BY <1>3, <1>4, <1>10
<1>12. CASE Len(ll) + times > size[1] + size[2]
  BY <1>1, <1>10, <1>11, <1>12, ReturnKeeps DEF InflateInv, Rest, tables
<1>13. CASE ~(Len(ll) + times > size[1] + size[2])
  <2> DEFINE run == [i \in 1..times |-> l]
  <2>1. run \in Seq(0..15) /\ Len(run) = times
    BY <1>9
  <2>2. ll' = ll \o run /\ UNCHANGED <<heap, pc, res>>
    BY <1>10, <1>13
  <2> HIDE DEF run
  <2>3. ll' \in Seq(0..15) /\ Len(ll') = Len(ll) + times
    BY <1>1, <2>1, <2>2, ConcatProperties
  <2>4. TablesInv'
    <3>1. Decodable(tl)' /\ Decodable(td)'
      BY <1>1 DEF InflateInv, TablesInv, Decodable, IsSymbol
    <3>2. Len(ll') <= size[1] + size[2]
      BY <1>1, <1>13, <2>3, LenProperties DEF InflateInv, TablesInv
    <3> QED
      BY <1>1, <2>2, <2>3, <3>1, <3>2 DEF InflateInv, TablesInv
  <2>5. MemoryInv' /\ StreamInv'
    BY <1>1, <1>11, <2>2 DEF InflateInv, MemoryInv, StreamInv
  <2> QED
    BY <2>4, <2>5 DEF Rest
<1> QED
  BY <1>12, <1>13

LEMMA BuildTablesStep == HuftBuilds /\ InflateInv /\ BuildTables => Rest'
<1> SUFFICES ASSUME HuftBuilds, InflateInv, BuildTables PROVE Rest'
  OBVIOUS
<1>1. /\ saved' = saved /\ saved \in 0..HeapTop /\ last' \in BOOLEAN /\ UNCHANGED <<todo, d>>
      /\ pos' = pos /\ pos \in Nat /\ pos # 0
      /\ ll \in Seq(0..15) /\ Len(ll) = size[1] + size[2]
      /\ size[1] \in Nat /\ size[1] <= 286 /\ size[2] \in Nat /\ size[2] <= 30
  BY DEF BuildTables, InBlock, copying, InflateInv, MemoryInv, StreamInv, TablesInv
<1>2. PICK n1 \in Nat, n2 \in Nat : n1 = size[1] /\ n2 = size[2]
  BY <1>1
<1>3. PICK s1 : s1 = SubSeq(ll, 1, size[1])
  OBVIOUS
<1>4. PICK s2 : s2 = SubSeq(ll, size[1] + 1, Len(ll))
  OBVIOUS
<1>5. s1 \in Seq(0..15) /\ Len(s1) <= 288
  <2>1. s1 = SubSeq(ll, 1, n1) /\ 1 \in 1..Len(ll) + 1 /\ n1 \in 1 - 1..Len(ll)
    BY <1>1, <1>2, <1>3
  <2>2. s1 \in Seq(0..15) /\ Len(s1) = n1 - 1 + 1
    BY <1>1, <2>1, SubSeqProperties
  <2> QED
    BY <1>1, <1>2, <2>2
<1>6. s2 \in Seq(0..15) /\ Len(s2) <= 30
  <2>1. PICK m : m = n1 + 1
    OBVIOUS
  <2>2. PICK n : n = Len(ll)
    OBVIOUS
  <2>3. s2 = SubSeq(ll, m, n)
    BY <1>2, <1>4, <2>1, <2>2
  <2>4. m \in Int /\ n \in Int /\ n - m + 1 <= 30 /\ m >= 1
    <3>1. n = n1 + n2 /\ n2 <= 30
      BY <1>1, <1>2, <2>2
    <3> QED
      BY ONLY <2>1, <3>1, n1 \in Nat, n2 \in Nat
  <2>5. \A i \in m..n : ll[i] \in 0..15
    <3> SUFFICES ASSUME NEW i \in m..n PROVE ll[i] \in 0..15
      OBVIOUS
    <3>1. i \in 1..Len(ll)
      BY <2>2, <2>4
    <3> QED
      BY <1>1, <3>1, ElementOfSeq
  <2>6. s2 \in Seq(0..15) /\ Len(s2) = IF m <= n THEN n - m + 1 ELSE 0
    BY <2>3, <2>4, <2>5, SubSeqProperties
  <2> QED
    BY <2>4, <2>6
<1>7. IsTree(build(s1, 257, cplens, cplext, lbits, HeapTop))
  BY <1>5 DEF HuftBuilds, BuildsTrees
<1>8. IsTree(build(s2, 0, cpdist, cpdext, dbits, HeapTop))
  BY <1>6 DEF HuftBuilds, BuildsTrees
<1>9. Build(build(s1, 257, cplens, cplext, lbits, HeapTop),
            build(s2, 0, cpdist, cpdext, dbits, HeapTop), 0)
  BY <1>3, <1>4 DEF BuildTables
<1>10. pos' \in Nat /\ pos' # 0 /\ saved' \in 0..HeapTop
  BY <1>1
<1> QED
  BY <1>1, <1>7, <1>8, <1>9, <1>10, BuildKeeps DEF InflateInv, Rest

LEMMA SymbolIs ==
  ASSUME InflateInv
  PROVE  /\ Symbol.e \in 0..Literal \cup {Invalid}
         /\ Symbol.v \in Nat /\ Symbol.v <= MaxWord /\ Symbol.next \in Nat /\ Symbol.next # 0
BY MeaningIs DEF Symbol, InflateInv, TablesInv, StreamInv

LEMMA LiteralByteStep == InflateInv /\ LiteralByte => Rest'
<1> SUFFICES ASSUME InflateInv, LiteralByte PROVE Rest'
  OBVIOUS
<1>1. /\ UNCHANGED <<tables, saved, last, todo, d, heap, res>> /\ pc' = "codes"
      /\ pos' = Symbol.next
  BY DEF LiteralByte, Decode, InBlock, copying
<1>2. TablesInv'
  BY <1>1, TablesStay DEF InflateInv
<1>3. MemoryInv' /\ StreamInv'
  BY <1>1, SymbolIs DEF InflateInv, MemoryInv, StreamInv
<1> QED
  BY <1>2, <1>3 DEF Rest

LEMMA BlockEndsStep == InflateInv /\ (BlockEnds \/ BadCode) => Rest'
<1> SUFFICES ASSUME InflateInv, BlockEnds \/ BadCode PROVE Rest'
  OBVIOUS
<1>1. /\ UNCHANGED <<tables, saved, last, todo, d>> /\ pos' = Symbol.next
      /\ \E r \in 0..5 : Return(r)
  BY DEF BlockEnds, BadCode, Decode, InBlock, copying
<1>2. pos' \in Nat /\ pos' # 0 /\ saved' \in 0..HeapTop /\ last' \in BOOLEAN
  BY <1>1, SymbolIs DEF InflateInv, MemoryInv, StreamInv
<1> QED
  BY <1>1, <1>2, ReturnKeeps DEF InflateInv, Rest

LEMMA MatchStep == InflateInv /\ Match => Rest'
<1> SUFFICES ASSUME InflateInv, Match PROVE Rest'
  OBVIOUS
<1>1. /\ UNCHANGED <<tables, saved, last>> /\ Symbol.e < EndOfBlock
      /\ saved \in 0..HeapTop /\ last \in BOOLEAN
  BY DEF Match, Decode, InBlock, InflateInv, MemoryInv, StreamInv
<1>2. PICK length : length = Symbol
  OBVIOUS
<1>3. /\ length.e \in 0..14 /\ length.v \in Nat
      /\ length.next \in Nat /\ length.next # 0
  BY <1>1, <1>2, SymbolIs DEF EndOfBlock, Literal, Invalid
<1>4. PICK q \in Nat : q = length.next + length.e /\ q # 0
  BY <1>3
<1>5. PICK back : back = Meaning(td, q)
  OBVIOUS
<1>6. /\ back.e \in 0..Literal \cup {Invalid}
      /\ back.v \in Nat /\ back.next \in Nat /\ back.next # 0
  BY <1>4, <1>5, MeaningIs DEF InflateInv, TablesInv
<1>7. IF back.e = Invalid
      THEN pos' = back.next /\ Return(1) /\ UNCHANGED copying
      ELSE /\ pos' = back.next + back.e
           /\ todo' = (length.v + Bits(length.next, length.e)) % (MaxWord + 1)
           /\ d' = (wp - back.v - Bits(back.next, back.e)) % WSIZE
           /\ pc' = "copy" /\ UNCHANGED <<heap, res>>
  BY <1>2, <1>4, <1>5 DEF Match
<1>8. CASE back.e = Invalid
  <2>1. UNCHANGED <<todo, d>> /\ Return(1) /\ pos' \in Nat /\ pos' # 0
    BY <1>6, <1>7, <1>8 DEF copying
  <2> QED
    BY <1>1, <2>1, ReturnKeeps DEF InflateInv, Rest
<1>9. CASE back.e # Invalid
  <2>1. /\ pos' = back.next + back.e /\ pc' = "copy" /\ UNCHANGED <<heap, res>>
        /\ todo' = (length.v + Bits(length.next, length.e)) % (MaxWord + 1)
        /\ d' = (wp - back.v - Bits(back.next, back.e)) % WSIZE
    BY <1>7, <1>9
  <2>2. back.e \in Nat /\ back.e <= 16
    BY <1>6, <1>9 DEF EndOfBlock, Literal
  <2>3. pos' \in Nat /\ pos' # 0
    BY <1>6, <2>1, <2>2
  <2>4. todo' \in Nat /\ todo' <= MaxWord
    <3>1. PICK m : m = Bits(length.next, length.e)
      OBVIOUS
    <3>2. m \in Nat
      <4>1. length.e \in Nat /\ length.e <= 16
        BY <1>3
      <4> QED
        BY <1>3, <3>1, <4>1, NextBits DEF InflateInv
    <3>3. PICK x \in Nat : x = length.v + m
      BY <1>3, <3>2
    <3>4. x % 65536 \in Nat /\ x % 65536 <= 65535
      BY ONLY x \in Nat
    <3> QED
      BY <2>1, <3>1, <3>3, <3>4 DEF MaxWord
  <2>5. d' \in 0..WSIZE - 1
    <3>1. PICK m : m = Bits(back.next, back.e)
      OBVIOUS
    <3>2. m \in Nat
      BY <1>6, <2>2, <3>1, NextBits DEF InflateInv
    <3>3. PICK x \in Int : x = wp - back.v - m
      BY <1>6, <3>2, InflateAssumption DEF InflateInv, WindowInv
    <3>4. WSIZE \in Nat /\ WSIZE > 0
      BY InflateAssumption
    <3>5. x % WSIZE \in 0..WSIZE - 1
      BY ONLY <3>4, x \in Int
    <3> QED
      BY <2>1, <3>1, <3>3, <3>5
  <2>6. TablesInv'
    BY <1>1, <2>1, TablesStay DEF InflateInv
  <2>7. MemoryInv' /\ StreamInv'
    BY <1>1, <2>1, <2>3, <2>4, <2>5 DEF InflateInv, MemoryInv, StreamInv
  <2> QED
    BY <2>6, <2>7 DEF Rest
<1> QED
  BY <1>8, <1>9

LEMMA CopyPieceStep == InflateInv /\ CopyPiece => Rest'
<1> SUFFICES ASSUME InflateInv, CopyPiece PROVE Rest'
  OBVIOUS
<1>1. PICK e : e = Piece(d, wp)
  OBVIOUS
<1>2. /\ UNCHANGED <<tables, saved, last, heap, pos, res>>
      /\ pc' \in {"codes", "copy"} /\ todo' = todo - e /\ d' = (d + e) % WSIZE
  BY <1>1 DEF CopyPiece, InBlock
<1>3. e \in Nat /\ e <= todo
  BY <1>1, <1>2, InflateAssumption DEF Piece, InflateInv, StreamInv, WindowInv
<1>4. d' \in 0..WSIZE - 1
  <2>1. PICK x \in Int : x = d + e
    BY <1>3, InflateAssumption DEF InflateInv, StreamInv
  <2>2. WSIZE \in Nat /\ WSIZE > 0
    BY InflateAssumption
  <2>3. x % WSIZE \in 0..WSIZE - 1
    BY ONLY <2>2, x \in Int
  <2> QED
    BY <1>2, <2>1, <2>3
<1>5. todo' \in Nat /\ todo' <= MaxWord
  BY <1>2, <1>3 DEF InflateInv, StreamInv, MaxWord
<1>6. TablesInv'
  BY <1>2, TablesStay DEF InflateInv
<1>7. MemoryInv' /\ StreamInv'
  BY <1>2, <1>4, <1>5 DEF InflateInv, MemoryInv, StreamInv
<1> QED
  BY <1>6, <1>7 DEF Rest

LEMMA FinishStep == InflateInv /\ Finish => Rest'
<1> SUFFICES ASSUME InflateInv, Finish PROVE Rest'
  OBVIOUS
<1>1. /\ UNCHANGED <<tables, todo, d, heap, saved, pos, last>> /\ pc' = "result"
      /\ res' \in {0, 4, 5}
  BY DEF Finish, Checked, copying, memory
<1>2. TablesInv'
  BY <1>1, TablesStay DEF InflateInv
<1>3. MemoryInv' /\ StreamInv'
  BY <1>1 DEF InflateInv, MemoryInv, StreamInv
<1> QED
  BY <1>2, <1>3 DEF Rest

LEMMA InflateStep == HuftBuilds /\ InflateInv /\ inflate => InflateInv'
<1> SUFFICES ASSUME HuftBuilds, InflateInv, inflate PROVE InflateInv'
  OBVIOUS
<1>1. Rest'
  BY BadBlockStep, StoredBlockStep, StoredByteStep, StoredEndStep, FixedBlockStep,
     DynamicBlockStep, BuildLengthsStep, LengthCodeStep, BuildTablesStep, LiteralByteStep,
     BlockEndsStep, MatchStep, CopyPieceStep, FinishStep DEF inflate
<1>2. InputInv'
  BY InflateIs DEF InflateInv, InputInv, inputs
<1> QED
  BY <1>1, <1>2, WindowStep DEF InflateInv, Rest

----------------------------------------------------------------------------
(* The types of the rest                                                    *)

PackageInv ==
  /\ pc = "packages" => pkg \in DOMAIN buffer.at
  /\ pkg \in Nat /\ dest \in Nat /\ verdict \in -1..1 /\ error \in 0..5
TypeInv == InflateInv /\ PackageInv

LEMMA TypeInit == Init => TypeInv
<1> SUFFICES ASSUME Init PROVE TypeInv
  OBVIOUS
<1>1. IsChain(buffer.at) /\ IsInput(buffer) /\ from = buffer.at[0]
  BY StageInit, BufferIs
<1>2. InputInv
  BY <1>1 DEF Init, IsInput, InputInv
<1>3. WindowInv
  BY <1>2, InflateAssumption, EmptySeq DEF Init, WindowInv, InputInv
<1>4. MemoryInv /\ TablesInv /\ StreamInv
  <2>1. MemoryInv
    BY InflateAssumption DEF Init, MemoryInv
  <2>2. Decodable(NoTree) /\ tl = NoTree /\ td = NoTree
    BY DEF Init, Decodable, NoTree
  <2>3. ll = <<>> /\ size = <<0, 0>> /\ pc = "unpack"
    BY DEF Init
  <2>4. ll \in Seq(0..15)
    BY <2>3, EmptySeq
  <2>5. TablesInv
    BY <2>2, <2>3, <2>4 DEF TablesInv
  <2>6. 0 <= MaxWord /\ 0 \in 0..WSIZE - 1
    BY InflateAssumption DEF MaxWord
  <2>7. pos = 1 /\ res = 0 /\ todo = 0 /\ d = 0
    BY DEF Init
  <2>8. last \in BOOLEAN
    BY DEF Init
  <2>9. StreamInv
    BY <2>6, <2>7, <2>8 DEF StreamInv
  <2> QED
    BY <2>1, <2>5, <2>9
<1>5. PackageInv
  BY DEF Init, PackageInv
<1> QED
  BY <1>2, <1>3, <1>4, <1>5 DEF TypeInv, InflateInv

LEMMA NextPackageIs ==
  ASSUME PackageInv, IsChain(buffer.at), NextPackage
  PROVE  PackageInv'
<1>1. PICK at : at = buffer.at
  OBVIOUS
<1>2. /\ pkg \in DOMAIN at /\ pc = "packages" /\ UNCHANGED buffer
      /\ \A a \in DOMAIN at : Header(a) = at[a]
      /\ \A a : a \notin DOMAIN at => ~Header(a).magic
  BY <1>1 DEF NextPackage, PackageInv, Header, NoHeader
<1>3. /\ DOMAIN at \subseteq Nat
      /\ \A a \in DOMAIN at : at[a].compressed_len \in Nat
  BY <1>1 DEF IsChain
<1>4. PICK to : to = RoundUp(dest)
  OBVIOUS
<1>5. to \in Nat
  BY <1>4, RoundsUp DEF PackageInv
<1>6. PICK next : next = RoundUp(pkg + Header(pkg).compressed_len + HeaderSize)
  OBVIOUS
<1>7. next \in Nat
  <2>1. PICK x \in Nat, y \in Nat : x = pkg /\ y = Header(pkg).compressed_len
    BY <1>2, <1>3
  <2>2. x + y + HeaderSize \in Nat
    BY DEF HeaderSize
  <2> QED
    BY <1>6, <2>1, <2>2, RoundsUp
<1>8. PICK h : h = Header(next)
  OBVIOUS
<1>9. /\ pkg' = next
      /\ IF ~h.magic \/ (TosBase + to + h.orig_len) % Word > TosBase + RomSize
         THEN Over(1, 0) /\ dest' = to
         ELSE dest' = to + Behind(h) /\ UNCHANGED <<pc, verdict, error>>
  BY <1>4, <1>6, <1>8 DEF NextPackage
<1>10. CASE ~h.magic \/ (TosBase + to + h.orig_len) % Word > TosBase + RomSize
  BY <1>5, <1>7, <1>9, <1>10 DEF PackageInv, Over
<1>11. CASE ~(~h.magic \/ (TosBase + to + h.orig_len) % Word > TosBase + RomSize)
  <2>1. next \in DOMAIN at /\ h = at[next]
    BY <1>2, <1>8, <1>11
  <2>2. h.compressed_len \in Nat
    BY <1>3, <2>1
  <2>3. to + Behind(h) \in Nat
    BY <1>5, <2>2 DEF Behind, HeaderSize
  <2> QED
    BY <1>1, <1>2, <1>7, <1>9, <1>11, <2>1, <2>3 DEF PackageInv
<1> QED
  BY <1>10, <1>11

LEMMA TypeStep == HuftBuilds /\ StageInv /\ ChainInv /\ TypeInv /\ [Next]_vars => TypeInv'
<1> SUFFICES ASSUME HuftBuilds, StageInv, ChainInv, TypeInv, [Next]_vars PROVE TypeInv'
  OBVIOUS
<1> USE DEF TypeInv
<1>1. ASSUME UNCHANGED <<inputs, tables, copying, memory, pos, last>>, res' \in 0..5,
             pc' \notin {"bitlengths", "lengths"}
      PROVE  InputInv' /\ Rest'
  <2>1. InputInv'
    BY <1>1 DEF InflateInv, InputInv, inputs, IsSymbol
  <2>2. TablesInv'
    BY <1>1, TablesStay DEF InflateInv
  <2>3. MemoryInv' /\ StreamInv'
    BY <1>1 DEF InflateInv, MemoryInv, StreamInv, memory, copying
  <2> QED
    BY <2>1, <2>2, <2>3 DEF Rest
<1>2. CASE UNCHANGED vars
  BY <1>2 DEF vars, inflate_vars, inputs, tables, copying, window, memory, package_vars,
     InflateInv, InputInv, IsSymbol, WindowInv, MemoryInv, TablesInv, Decodable, StreamInv,
     PackageInv
<1>3. IsChain(buffer.at) /\ IsInput(buffer) /\ from = buffer.at[0]
  BY BufferIs
<1>4. CASE UnpackOld
  <2>1. InputInv' /\ Rest'
    BY <1>1, <1>4 DEF UnpackOld, Over, InflateInv, StreamInv
  <2>2. WindowInv'
    BY <1>3, <1>4 DEF UnpackOld, Over, InflateInv, WindowInv, IsInput, Inflating
  <2>3. PackageInv'
    BY <1>4 DEF UnpackOld, Over, PackageInv, package_vars
  <2> QED
    BY <2>1, <2>2, <2>3 DEF InflateInv, Rest
<1>5. CASE Refuse
  <2>1. InputInv' /\ Rest'
    BY <1>1, <1>5 DEF Refuse, Over, InflateInv, StreamInv
  <2>2. WindowInv'
    BY <1>5 DEF Refuse, Over, InflateInv, WindowInv, window, Inflating
  <2>3. PackageInv'
    <3>1. PackageError(from) \in 0..5
      BY DEF PackageError
    <3> QED
      BY <1>5, <3>1 DEF Refuse, Over, PackageInv, package_vars
  <2> QED
    BY <2>1, <2>2, <2>3 DEF InflateInv, Rest
<1>6. CASE CopyStored
  <2>1. InputInv' /\ Rest'
    BY <1>1, <1>6 DEF CopyStored, Over, InflateInv, StreamInv
  <2>2. WindowInv'
    <3>1. PICK n : n = from.orig_len
      OBVIOUS
    <3>2. n \in Nat /\ n <= Len(buffer.raw) /\ Len(buffer.raw) \in Nat
      BY <1>3, <1>6, <3>1, LenProperties DEF CopyStored, IsChain, IsInput
    <3>3. \A i \in 1..n : buffer.raw[i] \in Byte
      <4> SUFFICES ASSUME NEW i \in 1..n PROVE buffer.raw[i] \in Byte
        OBVIOUS
      <4>1. i \in 1..Len(buffer.raw)
        BY <3>2
      <4> QED
        BY <1>3, <4>1, ElementOfSeq DEF IsInput
    <3>4. out' = SubSeq(buffer.raw, 1, n)
      BY <1>6, <3>1 DEF CopyStored
    <3>5. n \in Int /\ 1 \in Int
      BY <3>2
    <3>6. out' \in Seq(Byte) /\ Len(out') = IF 1 <= n THEN n - 1 + 1 ELSE 0
      BY <3>3, <3>4, <3>5, SubSeqProperties
    <3>7. Len(out') < MaxOut + WSIZE
      BY <1>3, <3>2, <3>6, InflateAssumption DEF IsInput
    <3> QED
      BY <1>6, <3>6, <3>7 DEF CopyStored, Over, InflateInv, WindowInv, Inflating
  <2>3. PackageInv'
    BY <1>6 DEF CopyStored, Over, PackageInv, package_vars
  <2> QED
    BY <2>1, <2>2, <2>3 DEF InflateInv, Rest
<1>7. CASE Uncompress
  <2>1. /\ UNCHANGED <<tables, copying, window, inputs, pos, last, saved>>
        /\ pc = "unpack" /\ heap' = WSIZE /\ res' = 0 /\ pc' = "block"
    BY <1>7, InflateAssumption DEF Uncompress, Accepts, uncompress_data
  <2>2. InputInv'
    BY <2>1 DEF InflateInv, InputInv, inputs, IsSymbol
  <2>3. TablesInv'
    BY <2>1, TablesStay DEF InflateInv
  <2>4. MemoryInv' /\ StreamInv'
    BY <2>1, InflateAssumption DEF InflateInv, MemoryInv, StreamInv, copying
  <2>5. WindowInv'
    BY <2>1 DEF InflateInv, WindowInv, window, Inflating
  <2>6. PackageInv'
    BY <1>7, <2>1 DEF Uncompress, PackageInv, package_vars
  <2> QED
    BY <2>2, <2>3, <2>4, <2>5, <2>6 DEF InflateInv
<1>8. CASE Inflates
  <2>1. InflateInv'
    BY <1>8, InflateStep DEF Inflates
  <2>2. PackageInv'
    BY <1>8, InflateIs DEF Inflates, Inflating, PackageInv, package_vars
  <2> QED
    BY <2>1, <2>2
<1>9. CASE Uncompressed
  <2>1. /\ UNCHANGED <<inputs, tables, copying, window, memory, pos, last, res, buffer, pkg>>
        /\ pc = "result" /\ pc' \in {"done", "packages"} /\ dest' \in {dest, from.orig_len}
        /\ verdict' \in {verdict, 0} /\ error' \in {error, res}
    BY <1>9 DEF Uncompressed, Over
  <2>2. InputInv' /\ Rest'
    BY <1>1, <2>1 DEF InflateInv, StreamInv
  <2>3. WindowInv'
    BY <2>1 DEF InflateInv, WindowInv, window, Inflating
  <2>4. pkg = 0 /\ 0 \in DOMAIN buffer.at /\ from.orig_len \in Nat
    BY <1>3, <2>1 DEF StageInv, IsChain
  <2>5. PackageInv'
    BY <2>1, <2>4 DEF PackageInv, InflateInv, StreamInv
  <2> QED
    BY <2>2, <2>3, <2>5 DEF InflateInv, Rest
<1>10. CASE NextPackage
  <2>1. /\ UNCHANGED <<inputs, tables, copying, window, memory, pos, last, res, buffer>>
        /\ pc = "packages" /\ pc' \in {"done", "packages"}
    BY <1>10 DEF NextPackage, Over
  <2>2. InputInv' /\ Rest'
    BY <1>1, <2>1 DEF InflateInv, StreamInv
  <2>3. WindowInv'
    BY <2>1 DEF InflateInv, WindowInv, window, Inflating
  <2>4. PackageInv'
    BY <1>3, <1>10, NextPackageIs
  <2> QED
    BY <2>2, <2>3, <2>4 DEF InflateInv, Rest
<1> QED
  BY <1>2, <1>4, <1>5, <1>6, <1>7, <1>8, <1>9, <1>10 DEF Next, Ended

LEMMA TypesStay == Spec => [](HuftBuilds => TypeInv)
<1>1. Init => (HuftBuilds => TypeInv)
  BY TypeInit
<1>2. StageInv /\ ChainInv /\ (HuftBuilds => TypeInv) /\ [Next]_vars
        => (HuftBuilds => TypeInv)'
  BY TypeStep DEF HuftBuilds, BuildsTrees, IsTree, Decodable, IsSymbol
<1> QED
  BY <1>1, <1>2, Inductive, PTL DEF Spec

----------------------------------------------------------------------------
(* The theorems                                                             *)

\* What the length and the checksum tell: that the bytes put out are those that were packed, or
\* happen to have both in common with them.
ChecksumTells == Checked(out) = 0 => out = buffer.original

\* package.c, unpack_tos: what is declared unpacked is what was packed, as far as length and
\* checksum tell: none of the ways through inflate goes round their comparison, and nothing is
\* put out behind it.
THEOREM UnpackedWasChecked == Spec => [](ChecksumTells => UnpackedIsOriginal)
<1>1. CheckedInv => (ChecksumTells => UnpackedIsOriginal)
  BY DEF CheckedInv, ChecksumTells, UnpackedIsOriginal, Packed
<1> QED
  BY <1>1, Inductive, PTL

\* The packages that are left are those behind the one that the loop has come to.
LEMMA LeftIs ==
  ASSUME NEW at, IsChain(at), NEW p \in Seq(Copy), NEW k, IsAt(at, p, k),
         NEW to \in Nat, AllCopied(at, k, to)
  PROVE  LET left == {a \in DOMAIN at : \A i \in DOMAIN p : a > p[i].from} \ {0}
         IN left = {} \/ (Min(left) \in DOMAIN at /\ to + at[Min(left)].orig_len > RomSize)
<1> DEFINE left == {a \in DOMAIN at : \A i \in DOMAIN p : a > p[i].from} \ {0}
<1>1. DOMAIN at \subseteq Nat /\ k \in Nat /\ DOMAIN p = 1..Len(p) /\ Len(p) \in Nat
  <2>1. DOMAIN at \subseteq Nat /\ k \in DOMAIN at
    BY DEF IsChain, IsAt
  <2>2. DOMAIN p = 1..Len(p) /\ Len(p) \in Nat
    BY LenProperties
  <2> QED
    BY <2>1, <2>2
<1>2. \A i \in 1..Len(p) : p[i].from \in Nat /\ p[i].from <= k
  BY <1>1, ElementOfSeq DEF IsAt, Copy
<1>3. \A a \in DOMAIN at : a \in left <=> a > k
  <2> SUFFICES ASSUME NEW a \in DOMAIN at PROVE a \in left <=> a > k
    OBVIOUS
  <2>1. ASSUME a > k PROVE a \in left
    BY <1>1, <1>2, <2>1
  <2>2. ASSUME a \in left PROVE a > k
    <3>1. CASE p = <<>>
      BY <1>1, <2>2, <3>1 DEF IsAt
    <3>2. CASE p # <<>>
      <4>1. Len(p) \in 1..Len(p) /\ k = p[Len(p)].from
        <5>1. Len(p) # 0
          BY <3>2, EmptySeq
        <5>2. k = p[Len(p)].from
          BY <3>2 DEF IsAt
        <5> QED
          BY <1>1, <5>1, <5>2
      <4> QED
        BY <1>1, <2>2, <4>1
    <3> QED
      BY <3>1, <3>2
  <2> QED
    BY <2>1, <2>2
<1> HIDE DEF left
<1>4. ASSUME left # {} PROVE Min(left) \in DOMAIN at /\ to + at[Min(left)].orig_len > RomSize
  <2>1. left \subseteq DOMAIN at
    BY DEF left
  <2>2. PICK b \in DOMAIN at : /\ b > k /\ (\A c \in DOMAIN at : c > k => b <= c)
                               /\ to + at[b].orig_len > RomSize
    BY <1>3, <1>4, <2>1 DEF AllCopied
  <2>3. b \in left /\ \A c \in left : b <= c
    BY <1>3, <2>1, <2>2
  <2>4. Min(left) = b
    BY <1>1, <2>1, <2>3 DEF Min
  <2> QED
    BY <2>2, <2>4
<1>5. left = {} \/ (Min(left) \in DOMAIN at /\ to + at[Min(left)].orig_len > RomSize)
  BY <1>4
<1> QED
  BY ONLY <1>5 DEF left

\* package.c, the loop at 109: for any chain of packages behind the TOS, they are copied whole,
\* in the order of the file and each to the first place divisible by 16 after the one before,
\* up to the file's end or to one that would not fit unpacked.
THEOREM PackagesAreCopied == Spec => []PackagesFollow
<1>1. ASSUME StageInv, ChainInv PROVE PackagesFollow
  <2>1. PICK at : at = buffer.at
    OBVIOUS
  <2>2. IsChain(at) /\ from = at[0] /\ placed \in Seq(Copy)
    BY <1>1, <2>1, BufferIs DEF ChainInv
  <2>3. \A a \in DOMAIN at : Header(a) = at[a]
    BY <2>1 DEF Header
  <2>4. Len(placed) \in Nat /\ DOMAIN placed = 1..Len(placed)
    BY <2>2
  <2>5. \A i \in DOMAIN placed : Follow(at, placed, i)
    BY <1>1, <2>1, <2>4 DEF ChainInv
  <2>6. ASSUME NEW i \in DOMAIN placed
        PROVE  LET end == IF i = 1 THEN from.orig_len
                          ELSE LET p == placed[i - 1]
                               IN p.to + HeaderSize + Header(p.from).compressed_len
               IN /\ placed[i].to - end \in 0..15 /\ placed[i].to % 16 = 0
                  /\ placed[i].bytes >= HeaderSize + Header(placed[i].from).compressed_len
                  /\ Cardinality({a \in DOMAIN buffer.at : a < placed[i].from}) = i
    <3>1. Follow(at, placed, i)
      BY <2>5
    <3>2. i # 1 => i - 1 \in DOMAIN placed
      BY <2>4
    <3>3. i # 1 => Header(placed[i - 1].from) = at[placed[i - 1].from]
      BY <2>3, <2>5, <3>2 DEF Follow
    <3>4. EndBefore(at, placed, i) = IF i = 1 THEN from.orig_len
                                     ELSE LET p == placed[i - 1]
                                          IN p.to + HeaderSize + Header(p.from).compressed_len
      BY <2>2, <3>3 DEF EndBefore
    <3> QED
      BY <2>1, <2>3, <3>1, <3>4 DEF Follow
  <2>7. ASSUME pc = "done", verdict = 1, Packed
        PROVE  LET left == {a \in DOMAIN buffer.at :
                              \A i \in DOMAIN placed : a > placed[i].from} \ {0}
               IN left = {} \/ dest + Header(Min(left)).orig_len > RomSize
    <3>1. PICK k \in DOMAIN at : IsAt(at, placed, k) /\ AllCopied(at, k, dest)
      BY <1>1, <2>1, <2>7 DEF ChainInv
    <3>2. dest \in Nat
      BY <1>1, <2>7 DEF ChainInv
    <3> DEFINE left == {a \in DOMAIN at : \A i \in DOMAIN placed : a > placed[i].from} \ {0}
    <3>3. left = {} \/ (Min(left) \in DOMAIN at /\ dest + at[Min(left)].orig_len > RomSize)
      BY <2>2, <3>1, <3>2, LeftIs
    <3>4. left = {} \/ dest + Header(Min(left)).orig_len > RomSize
      <4> HIDE DEF left
      <4> QED
        BY <2>3, <3>3
    <3> QED
      BY <2>1, <3>4
  <2> QED
    BY <2>6, <2>7 DEF PackagesFollow, Packed
<1> QED
  BY <1>1, Inductive, PTL

\* inflate.c: the copying stays in the window and ends with the match, the heap is not overrun,
\* and the block's lengths are those of its alphabets, for any file, any bit of it read wrongly
\* and any memory behind it, as long as what huft_build returns are tables.
THEOREM TypeCorrect == Spec => [](HuftBuilds => TypeOK)
<1>1. StageInv /\ (HuftBuilds => TypeInv) => (HuftBuilds => TypeOK)
  <2> SUFFICES ASSUME StageInv, TypeInv PROVE TypeOK
    OBVIOUS
  <2>1. /\ pos \in Nat /\ last \in BOOLEAN /\ res \in 0..5
        /\ todo \in 0..MaxWord /\ d \in 0..WSIZE - 1
    BY DEF TypeInv, InflateInv, StreamInv, MaxWord
  <2>2. slide \in [0..WSIZE - 1 -> 0..255] /\ wp \in 0..WSIZE - 1 /\ Len(out) < MaxOut + WSIZE
    BY DEF TypeInv, InflateInv, WindowInv, Byte
  <2>3. heap <= HeapTop /\ saved \in 0..HeapTop
    BY InflateAssumption DEF TypeInv, InflateInv, MemoryInv
  <2>4. pc = "lengths" => Len(ll) <= size[1] + size[2]
    BY DEF TypeInv, InflateInv, TablesInv
  <2> QED
    BY <2>1, <2>2, <2>3, <2>4 DEF TypeOK, TypeInv, PackageInv, StageInv, Stages, Inflating
<1> QED
  BY <1>1, TypesStay, Inductive, PTL
=============================================================================
