-------------------------------- MODULE Bytes --------------------------------
(***************************************************************************)
(* Byte buffers and the integers stored in them: elf/endian.hpp, the       *)
(* bounds-checked helpers of elf/file.hpp and the big-endian conversions   *)
(* of ps3patch.  A buffer is a sequence of bytes; the byte at file offset  *)
(* o is buf[o + 1].                                                        *)
(*                                                                         *)
(* ByteBase is the number of values of a byte, 256 in the code.  Every     *)
(* width below follows from it, so TLC can check the same definitions with *)
(* a smaller byte: with ByteBase = 13 a 64-bit field still fits the        *)
(* integers of TLC, and the struct sizes of the code (64, 56, ...) still   *)
(* fit a 16-bit field.                                                     *)
(***************************************************************************)
EXTENDS Integers, Sequences

CONSTANT ByteBase

ASSUME ByteBaseAssumption == ByteBase \in Nat /\ ByteBase >= 2

Byte == 0 .. ByteBase - 1

\* The number of values of uint16_t, uint32_t and uint64_t.
U16 == ByteBase * ByteBase
U32 == U16 * U16
U64 == U32 * U32

\* Mutant: the narrowing cast is missing.
CastNotNarrowed(v, w) == v

\* A value cast to an unsigned integer of w bytes.
Cast(v, w) == CASE w = 2 -> v % U16 [] w = 4 -> v % U32 [] w = 8 -> v % U64

-----------------------------------------------------------------------------
(***************************************************************************)
(* Endianed<T, Order>: the w bytes that represent v, most significant byte *)
(* first for "Big" and last for "Little".                                  *)
(***************************************************************************)
BE2(v) == << v \div ByteBase, v % ByteBase >>
BE4(v) == BE2(v \div U16) \o BE2(v % U16)
BE8(v) == BE4(v \div U32) \o BE4(v % U32)

Stored(v, w, e) ==
  LET x  == Cast(v, w)
      be == CASE w = 2 -> BE2(x) [] w = 4 -> BE4(x) [] w = 8 -> BE8(x)
  IN  [k \in 1..w |-> IF e = "Big" THEN be[k] ELSE be[w + 1 - k]]

\* The value of 2, 4 or 8 bytes of d, most significant first, from index i.
Val2(d, i) == d[i] * ByteBase + d[i + 1]
Val4(d, i) == Val2(d, i) * U16 + Val2(d, i + 2)
Val8(d, i) == Val4(d, i) * U32 + Val4(d, i + 4)

\* Endianed::get on the w bytes at offset p of s.
Load(s, p, w, e) ==
  LET d == [k \in 1..w |-> IF e = "Big" THEN s[p + k] ELSE s[p + w + 1 - k]]
  IN  CASE w = 2 -> Val2(d, 1) [] w = 4 -> Val4(d, 1) [] w = 8 -> Val8(d, 1)

\* Endianed::set on the w bytes at offset p of the struct s.
Store(s, p, w, e, v) ==
  SubSeq(s, 1, p) \o Stored(v, w, e) \o SubSeq(s, p + w + 1, Len(s))

-----------------------------------------------------------------------------
(***************************************************************************)
(* Regions of a buffer.                                                    *)
(***************************************************************************)
Slice(buf, off, n) == SubSeq(buf, off + 1, off + n)

Zeros(n) == [i \in 1..n |-> 0]

\* Does [offset, offset + count * elemSize) fit in the buffer?  The first
\* conjunct guards the uint64_t product against overflow.
regionFits(bufferSize, offset, count, elemSize) ==
  /\ ~ (count # 0 /\ elemSize > (U64 - 1) \div count)
  /\ offset <= bufferSize
  /\ (count * elemSize) % U64 <= bufferSize - offset

\* Mutant: resize without the size test cuts the buffer off.
EnsureCapacityAlwaysResizes(buf, size) ==
  IF size > Len(buf) THEN buf \o Zeros(size - Len(buf)) ELSE SubSeq(buf, 1, size)

\* ensureCapacity: grow with zeros to the required size.
ensureCapacity(buf, size) ==
  IF size > Len(buf) THEN buf \o Zeros(size - Len(buf)) ELSE buf

\* writeStruct: ensureCapacity, then memcpy over the bytes at off.
writeStruct(buf, off, s) ==
  LET grown == ensureCapacity(buf, off + Len(s))
  IN  SubSeq(grown, 1, off) \o s \o SubSeq(grown, off + Len(s) + 1, Len(grown))

\* The items of a table laid out one after the other, sz bytes each.
Flatten(items, sz) ==
  [k \in 1..(Len(items) * sz) |-> items[((k - 1) \div sz) + 1][((k - 1) % sz) + 1]]

writeTable(buf, off, items, sz) ==
  IF items = << >> THEN buf ELSE writeStruct(buf, off, Flatten(items, sz))

ReadTable(buf, off, n, sz) == [i \in 1..n |-> Slice(buf, off + (i - 1) * sz, sz)]
=============================================================================
