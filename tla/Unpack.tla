------------------------------- MODULE Unpack -------------------------------
(***************************************************************************)
(* package.c: unpack_tos checks the package in the load buffer, puts the TOS  *)
(* it holds where the ROM is to be, and the packages after it behind that.   *)
(*                                                                         *)
(* The load buffer is a function from addresses (from 0x00F00000 on) to the    *)
(* package headers found there; what follows a header is its data. Sizes and *)
(* addresses are scaled, but for the header's size and the rounding by 16.    *)
(***************************************************************************)
EXTENDS Inflate

CONSTANTS Buffers,  \* what may be in the load buffer, and the bit read wrongly, 0 for none
          RomSize,  \* bytes from 0x00E00000 to 0x00E80000
          Word,     \* of a LONG
          CompInd   \* the boot block's compatibility index

Byte == 0..255
HeaderSize == 92  \* sizeof(PKG_HEADER)
PKGTYPE_TOS == 1
COMPR_NONE == 0

RoundUp(n) == ((n + 15) \div 16) * 16

\* The file in the load buffer: one package behind the other, and nothing else.
Follows(at, a) == RoundUp(a + at[a].compressed_len + HeaderSize)
IsChain(at) ==
  /\ IsFiniteSet(DOMAIN at) /\ DOMAIN at \subseteq Nat /\ 0 \in DOMAIN at
  /\ \A a \in DOMAIN at :
       /\ at[a].compressed_len \in Nat /\ at[a].orig_len \in Nat
       /\ a # 0 => at[a].magic
  /\ \A a, b \in DOMAIN at : a < b => Follows(at, a) \in DOMAIN at /\ Follows(at, a) <= b

\* Its bytes and bits, the memory behind it, and what may be read where no table entry is: b
\* bits at address 0, or through garbage pointers, lead to e and v.
IsInput(b) ==
  /\ b.raw \in Seq(Byte) /\ Len(b.raw) < MaxOut + WSIZE
  /\ b.at[0].compr_type = COMPR_NONE => b.at[0].orig_len <= Len(b.raw)
  /\ b.at[0].bits \in Seq({0, 1}) /\ b.faults \subseteq Nat /\ b.fills \subseteq Byte
  /\ \A w \in b.wild :
       w.e \in 0..Literal \cup {Invalid} /\ w.v \in Nat /\ w.v <= MaxWord /\ w.b \in Byte
ASSUME BuffersAssumption == \A b \in Buffers : IsChain(b.at) /\ IsInput(b)
ASSUME SizesAssumption == RomSize \in Nat /\ Word \in Nat \ {0} /\ CompInd \in Nat

VARIABLES buffer, compind_flag, pkg, dest, placed, verdict, error

package_vars == <<pkg, dest, placed>>
vars == <<inflate_vars, buffer, compind_flag, package_vars, verdict, error>>

NoHeader == [magic |-> FALSE, orig_len |-> 0]

Header(address) == IF address \in DOMAIN buffer.at THEN buffer.at[address] ELSE NoHeader

Init ==
  /\ buffer \in Buffers /\ compind_flag \in {0, 1}
  /\ from = Header(0)
  /\ flip \in buffer.faults /\ fill \in buffer.fills /\ wild \in buffer.wild
  /\ pc = "unpack" /\ pos = 1 /\ last = FALSE /\ res = 0
  /\ tl = NoTree /\ td = NoTree /\ ll = <<>> /\ size = <<0, 0>>
  /\ todo = 0 /\ d = 0
  /\ slide = [i \in 0..WSIZE - 1 |-> fill] /\ wp = 0 /\ out = <<>>
  /\ heap = 0 /\ saved = 0
  /\ pkg = 0 /\ dest = 0 /\ placed = <<>>
  /\ verdict = -1 /\ error = 0

\* What stops the package before anything is unpacked: the number of the message, 0 for none.
PackageError(h) ==
  IF ~h.magic \/ h.header_version # 1 \/ h.pkg_type # PKGTYPE_TOS \/ h.compr_type > 2 THEN 1
  ELSE IF (h.orig_len + HeaderSize) % Word > RomSize THEN 2
  ELSE IF h.orig_len > 2 * RomSize THEN 3 ELSE 0

TooNew(h) == h.pkg_id > CompInd /\ compind_flag = 1

Over(v, n) == verdict' = v /\ error' = n /\ pc' = "done"

UnpackOld ==
  /\ pc = "unpack" /\ buffer.old
  /\ out' = buffer.raw
  /\ Over(1, 0)
  /\ UNCHANGED <<inputs, tables, copying, slide, wp, memory, pos, last, res, buffer,
                 compind_flag, package_vars>>

Refuse ==
  /\ pc = "unpack" /\ ~buffer.old
  /\ PackageError(from) # 0 \/ TooNew(from)
  /\ Over(0, PackageError(from))
  /\ UNCHANGED <<inputs, tables, copying, window, memory, pos, last, res, buffer,
                 compind_flag, package_vars>>

Accepts == pc = "unpack" /\ ~buffer.old /\ PackageError(from) = 0 /\ ~TooNew(from)

CopyStored ==
  /\ Accepts /\ from.compr_type = COMPR_NONE
  /\ out' = SubSeq(buffer.raw, 1, from.orig_len)
  /\ Over(1, 0)
  /\ UNCHANGED <<inputs, tables, copying, slide, wp, memory, pos, last, res, buffer,
                 compind_flag, package_vars>>

Uncompress ==
  /\ Accepts /\ from.compr_type # COMPR_NONE
  /\ uncompress_data
  /\ UNCHANGED <<out, buffer, compind_flag, package_vars, verdict, error>>

Inflates == inflate /\ UNCHANGED <<buffer, compind_flag, package_vars, verdict, error>>

Uncompressed ==
  /\ pc = "result"
  /\ IF res # 0 THEN Over(0, res) /\ UNCHANGED dest
     ELSE pc' = "packages" /\ dest' = from.orig_len /\ UNCHANGED <<verdict, error>>
  /\ UNCHANGED <<inputs, tables, copying, window, memory, pos, last, res, buffer,
                 compind_flag, pkg, placed>>

\* A slip: room is made for the data of a package, not for its header.
BehindData(h) == h.compressed_len

\* What a package takes.
Behind(h) == h.compressed_len + HeaderSize

\* 0x00E00000, which is 28 times 0x00080000: where the TOS is put. All of `dest`, `to` and
\* `placed` counts from there.
TosBase == 28 * RomSize

\* One turn of the loop over the packages behind the TOS: `placed` tells where each was copied
\* from and to and how many bytes. The test is made in a LONG.
NextPackage ==
  /\ pc = "packages"
  /\ LET to == RoundUp(dest)
         next == RoundUp(pkg + Header(pkg).compressed_len + HeaderSize)
         h == Header(next)
     IN /\ pkg' = next
        /\ IF ~h.magic \/ (TosBase + to + h.orig_len) % Word > TosBase + RomSize
           THEN Over(1, 0) /\ dest' = to /\ UNCHANGED placed
           ELSE /\ placed' =
                     Append(placed, [from |-> next, to |-> to,
                                     bytes |-> h.compressed_len + HeaderSize + 15])
                /\ dest' = to + Behind(h)
                /\ UNCHANGED <<pc, verdict, error>>
  /\ UNCHANGED <<inputs, tables, copying, window, memory, pos, last, res, buffer,
                 compind_flag>>

\* unpack_tos has returned, or the stream has run on beyond the bound.
Ended == (pc = "done" \/ Len(out) >= MaxOut) /\ UNCHANGED vars

Next ==
  \/ UnpackOld \/ Refuse \/ CopyStored \/ Uncompress \/ Inflates \/ Uncompressed
  \/ NextPackage \/ Ended

Spec == Init /\ [][Next]_vars

----------------------------------------------------------------------------
\* The copying stays in the window and ends with the match, the heap is not overrun, and the
\* block's lengths are those of its alphabets.
TypeOK ==
  /\ pc \in {"unpack", "block", "stored", "bitlengths", "lengths", "codes", "copy", "flush",
             "result", "packages", "done"}
  /\ pos \in Nat /\ last \in BOOLEAN /\ res \in 0..5
  /\ slide \in [0..WSIZE - 1 -> 0..255] /\ wp \in 0..WSIZE - 1
  /\ Len(out) < MaxOut + WSIZE
  /\ todo \in 0..MaxWord /\ d \in 0..WSIZE - 1
  /\ heap <= HeapTop /\ saved \in 0..HeapTop
  /\ pc = "lengths" => Len(ll) <= size[1] + size[2]
  /\ pkg \in Nat /\ dest \in Nat
  /\ verdict \in -1..1 /\ error \in 0..5

\* uncompress_data: what unpack_tos declares unpacked is what was packed, whatever bit of the
\* file was read wrongly.
UnpackedIsOriginal ==
  verdict = 1 /\ ~buffer.old /\ from.compr_type # COMPR_NONE => out = buffer.original

\* unpack_tos: a file that was packed by the book and read without an error is never refused,
\* and no more is put out for it on the way than it holds.
GoodUnpacks ==
  buffer.good /\ flip = 0 /\ ~TooNew(from) =>
    /\ out = SubSeq(buffer.original, 1, Len(out))
    /\ pc = "done" => verdict = 1 /\ out = buffer.original

\* package.c, the loop at 109: the packages behind the TOS are copied whole and in the order
\* of the file, each to the first place divisible by 16 after the one before; the loop ends
\* where the file does, or before a package that would not fit unpacked.
PackagesFollow ==
  /\ \A i \in DOMAIN placed :
       LET end == IF i = 1 THEN from.orig_len
                  ELSE LET p == placed[i - 1]
                       IN p.to + HeaderSize + Header(p.from).compressed_len
       IN /\ placed[i].to - end \in 0..15 /\ placed[i].to % 16 = 0
          /\ placed[i].bytes >= HeaderSize + Header(placed[i].from).compressed_len
          /\ Cardinality({a \in DOMAIN buffer.at : a < placed[i].from}) = i
  /\ pc = "done" /\ verdict = 1 /\ ~buffer.old /\ from.compr_type # COMPR_NONE =>
       LET left == {a \in DOMAIN buffer.at : \A i \in DOMAIN placed : a > placed[i].from} \ {0}
       IN left = {} \/ dest + Header(Min(left)).orig_len > RomSize

\* package.c:107: "copy remaining PKGs unmodified to the end of the ROM".
PackagesStayInRom == \A i \in DOMAIN placed : placed[i].to + placed[i].bytes <= RomSize
=============================================================================
