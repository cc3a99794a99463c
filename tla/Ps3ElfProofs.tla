----------------------------- MODULE Ps3ElfProofs -----------------------------
(***************************************************************************)
(* Lemmas about what ps3patch does with a file in memory, for every input, *)
(* every path and every value of the constants: what each step can return, *)
(* and what the file it produces holds.                                    *)
(***************************************************************************)
EXTENDS Ps3Elf, ElfProofs

\* The reasons to stop before the output is opened.
Codes == ErrorCode \cup {"NotBig64"}

Refuses(r) == \E c \in Codes : r = Err(c)

\* A refusal is not a value.
LEMMA RefusedNotOk ==
  ASSUME NEW r, Refuses(r)
  PROVE  r.ok = FALSE
  BY DEF Refuses, Err

-----------------------------------------------------------------------------
(* Reading a file through its segments. *)

\* Four bytes are a 32-bit number.
LEMMA Val4Type ==
  ASSUME NEW d \in Seq(Byte), NEW i \in Nat, i >= 1, i + 3 <= Len(d)
  PROVE  Val4(d, i) \in Nat /\ Val4(d, i) < U32
<1> DEFINE N1(x) == x \in Nat /\ x < ByteBase
           N2(x) == x \in Nat /\ x < U16
<1>0. ByteBase \in Nat /\ U16 \in Nat /\ U32 \in Nat /\ Len(d) \in Nat
  BY Moduli
<1>1. \A k \in 1..Len(d) : N1(d[k])
  BY <1>0 DEF Byte
<1>2. N1(d[i]) /\ N1(d[i + 1]) /\ N1(d[i + 2]) /\ N1(d[i + 2 + 1])
  <2>1. i \in 1..Len(d) /\ i + 1 \in 1..Len(d) /\ i + 2 \in 1..Len(d) /\ i + 2 + 1 \in 1..Len(d)
    BY <1>0
  <2> QED  BY <2>1, <1>1
<1>3. ASSUME NEW j \in Nat, N1(d[j]), N1(d[j + 1]) PROVE N2(Val2(d, j))
  BY ONLY <1>0, <1>3, Combine DEF Val2, U16
<1>4. N2(Val2(d, i)) /\ N2(Val2(d, i + 2))
  <2>1. i + 2 \in Nat
    OBVIOUS
  <2> QED  BY <1>2, <1>3, <2>1
<1> QED  BY ONLY <1>0, <1>4, Combine DEF Val4, U32

\* An address has an offset that is not past the end, or none.
LEMMA TranslationResult ==
  ASSUME NEW f \in FileType, Sized(f), NEW a \in Nat
  PROVE  \/ vaddrToFileOffset(f, a) = Err("OffsetOutOfBounds")
         \/ \E o \in Nat : o <= Len(f.raw) /\ vaddrToFileOffset(f, a) = Ok(o)
<1>1. CASE Hits(f, a) = {}
  BY <1>1, NoSegment
<1>2. CASE Hits(f, a) # {}
  <2>1. Hits(f, a) \subseteq Nat
    BY DEF Hits
  <2>2. PICK i \in Hits(f, a) : \A j \in Hits(f, a) : i <= j
    BY <1>2, <2>1, LeastNatural
  <2>3. vaddrToFileOffset(f, a) =
          IF OffsetIn(f, i, a) > Len(f.raw) THEN Err("OffsetOutOfBounds") ELSE Ok(OffsetIn(f, i, a))
    BY <2>2, FirstSegment
  <2>4. OffsetIn(f, i, a) \in Nat
    BY OffsetType
  <2>5. Len(f.raw) \in Nat
    BY FileFacts
  <2> QED  BY <2>3, <2>4, <2>5
<1> QED  BY <1>1, <1>2

\* Bytes are read if they are all there.
LEMMA ReadResult ==
  ASSUME NEW f \in FileType, Sized(f), NEW o \in Nat, NEW n \in Nat
  PROVE  \/ readAt(f, o, n) = Err("OffsetOutOfBounds")
         \/ /\ readAt(f, o, n) = Ok(Slice(f.raw, o, n)) /\ o + n <= Len(f.raw)
            /\ Slice(f.raw, o, n) \in Seq(Byte) /\ Len(Slice(f.raw, o, n)) = n
<1> DEFINE rw == f.raw
<1>0. rw \in Seq(Byte) /\ Len(rw) \in Nat
  BY FileFacts
<1>d. readAt(f, o, n) = IF ~ regionFits(Len(rw), o, n, 1) THEN Err("OffsetOutOfBounds") ELSE Ok(Slice(rw, o, n))
  BY DEF readAt
<1> HIDE DEF rw
<1>1. CASE ~ regionFits(Len(rw), o, n, 1)
  BY <1>1, <1>d
<1>2. CASE regionFits(Len(rw), o, n, 1)
  <2>0. PICK m \in Nat : m = 1
    OBVIOUS
  <2>1. o + n * m <= Len(rw)
    BY <2>0, <1>0, <1>2, RegionFitsMeans
  <2>2. o + n <= Len(rw)
    BY <2>0, <2>1
  <2>3. Slice(rw, o, n) \in Seq(Byte) /\ Len(Slice(rw, o, n)) = n
    BY <1>0, <2>2, SliceShape
  <2> QED  BY <1>2, <1>d, <2>2, <2>3 DEF rw
<1> QED  BY <1>1, <1>2

\* A header field of the file is a number.
LEMMA HeaderField ==
  ASSUME NEW f \in FileType, Sized(f), NEW name \in HeaderNames
  PROVE  H(f, name) \in Nat
<1> DEFINE c == f.class
           e == f.data
           s == f.header
<1>1. c \in Class /\ e \in Endian /\ s \in Seq(Byte) /\ Len(s) = EhdrSize(c)
  BY FileFacts
<1>2. H(f, name) = LoadField(s, Ehdr(c)[name], e)
  BY DEF H
<1> HIDE DEF c, e, s
<1> QED  BY <1>1, <1>2, HeaderFieldType

-----------------------------------------------------------------------------
(* The entry descriptor. *)

\* e is the descriptor at offset off of f, d its bytes.
DescriptorAt(f, e, off, d) ==
  /\ H(f, "e_machine") = EM_PPC64
  /\ off \in Nat /\ off + 8 <= Len(f.raw)
  /\ vaddrToFileOffset(f, H(f, "e_entry")) = Ok(off)
  /\ d = Slice(f.raw, off, 8) /\ d \in Seq(Byte) /\ Len(d) = 8
  /\ e = [codeAddress |-> readBigEndian32(d, 0), tocValue |-> readBigEndian32(d, 4)]
  /\ e.codeAddress \in Nat /\ e.codeAddress < U32
  /\ e.tocValue \in Nat /\ e.tocValue < U32

\* resolveEntryDescriptor finds one, of two 32-bit numbers, or refuses.
LEMMA EntryResult ==
  ASSUME NEW f \in FileType, Sized(f)
  PROVE  \/ Refuses(resolveEntryDescriptor(f))
         \/ \E e, off, d : DescriptorAt(f, e, off, d) /\ resolveEntryDescriptor(f) = Ok(e)
<1> DEFINE a == H(f, "e_entry")
           t == vaddrToFileOffset(f, a)
<1>c. {"Unsupported", "OffsetOutOfBounds", "TruncatedFile"} \subseteq Codes
  BY DEF Codes, ErrorCode
<1>1. CASE H(f, "e_machine") # EM_PPC64
  BY <1>1, <1>c DEF resolveEntryDescriptor, Refuses
<1>2. CASE H(f, "e_machine") = EM_PPC64
  <2>0. a \in Nat
    BY HeaderField DEF HeaderNames
  <2>d. resolveEntryDescriptor(f) =
          AndThen(Reported(t, "OffsetOutOfBounds"), LAMBDA off :
          AndThen(Reported(readAt(f, off, 8), "TruncatedFile"), LAMBDA d :
          Ok([codeAddress |-> readBigEndian32(d, 0), tocValue |-> readBigEndian32(d, 4)])))
    BY <1>2 DEF resolveEntryDescriptor
  <2> HIDE DEF a
  <2>1. \/ t = Err("OffsetOutOfBounds")
        \/ \E o \in Nat : o <= Len(f.raw) /\ t = Ok(o)
    BY <2>0, TranslationResult
  <2>2. CASE t = Err("OffsetOutOfBounds")
    <3> HIDE DEF t
    <3> QED  BY <2>2, <2>d, <1>c DEF AndThen, Reported, Err, Refuses
  <2>3. CASE \E o \in Nat : o <= Len(f.raw) /\ t = Ok(o)
    <3>1. PICK off \in Nat : off <= Len(f.raw) /\ t = Ok(off)
      BY <2>3
    <3> DEFINE d == Slice(f.raw, off, 8)
               r == readAt(f, off, 8)
               e == [codeAddress |-> readBigEndian32(d, 0), tocValue |-> readBigEndian32(d, 4)]
    <3>2. resolveEntryDescriptor(f) =
            AndThen(Reported(r, "TruncatedFile"), LAMBDA x :
              Ok([codeAddress |-> readBigEndian32(x, 0), tocValue |-> readBigEndian32(x, 4)]))
      <4> HIDE DEF t
      <4> QED  BY <2>d, <3>1 DEF AndThen, Reported, Ok
    <3>3. \/ r = Err("OffsetOutOfBounds")
          \/ r = Ok(d) /\ off + 8 <= Len(f.raw) /\ d \in Seq(Byte) /\ Len(d) = 8
      <4>1. PICK n \in Nat : n = 8
        OBVIOUS
      <4> QED  BY <4>1, ReadResult
    <3> HIDE DEF r, d
    <3>4. CASE r = Err("OffsetOutOfBounds")
      BY <3>2, <3>4, <1>c DEF AndThen, Reported, Err, Refuses
    <3>5. CASE r = Ok(d) /\ off + 8 <= Len(f.raw) /\ d \in Seq(Byte) /\ Len(d) = 8
      <4>1. resolveEntryDescriptor(f) = Ok(e)
        BY <3>2, <3>5 DEF AndThen, Reported, Ok
      <4>2. /\ readBigEndian32(d, 0) \in Nat /\ readBigEndian32(d, 0) < U32
            /\ readBigEndian32(d, 4) \in Nat /\ readBigEndian32(d, 4) < U32
        <5>1. ASSUME NEW i \in Nat, i \in {1, 5} PROVE Val4(d, i) \in Nat /\ Val4(d, i) < U32
          <6>1. d \in Seq(Byte) /\ i >= 1 /\ i + 3 <= Len(d)
            BY ONLY <3>5, <5>1
          <6> QED  BY ONLY <6>1, <5>1, Val4Type
        <5> QED  BY <5>1 DEF readBigEndian32
      <4>3. DescriptorAt(f, e, off, d)
        BY <3>1, <3>5, <4>2, <1>2 DEF DescriptorAt, d, t, a
      <4> QED  BY <4>1, <4>3
    <3> QED  BY <3>3, <3>4, <3>5
  <2> QED  BY <2>1, <2>2, <2>3
<1> QED  BY <1>1, <1>2

-----------------------------------------------------------------------------
(* The file the tool works on. *)

\* f is the big-endian 64-bit file parsed from b.
Loaded(f, b) ==
  /\ f \in FileType /\ Sized(f) /\ Kept(f, b, {}) /\ Coherent(f) /\ f.raw = b
  /\ f.class = 64 /\ f.data = "Big"
  /\ H(f, "e_phoff") + Len(f.phdrs) * PhdrSize(f.class) <= Len(b)
  /\ Len(f.phdrs) > 0 => H(f, "e_phentsize") = PhdrSize(f.class)
  /\ parseAny(b) = Ok(f)

\* main.cpp takes a file of that kind, or refuses.
LEMMA FileResult ==
  ASSUME NEW b \in Seq(Byte)
  PROVE  \/ Refuses(ps3File(b))
         \/ \E f : Loaded(f, b) /\ ps3File(b) = Ok(f)
<1> DEFINE r == parseAny(b)
           f == r.value
<1>d. ps3File(b) = IF r.ok THEN (IF f.class = 64 /\ f.data = "Big" THEN Ok(f) ELSE Err("NotBig64")) ELSE r
  BY DEF ps3File, AndThen
<1>1. CASE ~ r.ok
  <2>1. \E c \in ErrorCode : r = Err(c)
    BY <1>1, ParseMeans
  <2> HIDE DEF r
  <2> QED  BY <1>1, <1>d, <2>1 DEF Refuses, Codes
<1>2. CASE r.ok
  <2>1. r = Ok(f)
    BY <1>2, ParseMeans
  <2>2. /\ f \in FileType /\ Sized(f) /\ Kept(f, b, {}) /\ Coherent(f) /\ f.raw = b
        /\ H(f, "e_phoff") + Len(f.phdrs) * PhdrSize(f.class) <= Len(b)
        /\ Len(f.phdrs) > 0 => H(f, "e_phentsize") = PhdrSize(f.class)
    BY <1>2, ParseEstablishes
  <2>3. CASE f.class = 64 /\ f.data = "Big"
    <3>1. Loaded(f, b)
      BY <2>1, <2>2, <2>3 DEF Loaded
    <3> HIDE DEF f, r
    <3>2. ps3File(b) = Ok(f)
      BY <1>2, <1>d, <2>3
    <3> QED  BY <3>1, <3>2
  <2>4. CASE ~ (f.class = 64 /\ f.data = "Big")
    <3> HIDE DEF f, r
    <3> QED  BY <1>2, <1>d, <2>4 DEF Refuses, Codes
  <2> QED  BY <2>3, <2>4
<1> QED  BY <1>1, <1>2

-----------------------------------------------------------------------------
(* The address of the new segment. *)

\* A bounded set of naturals has a greatest element.
LEMMA GreatestNatural ==
  ASSUME NEW T, T # {}, NEW m \in Nat, \A x \in T : x \in Nat /\ x < m
  PROVE  \E x \in T : \A y \in T : y <= x
<1> DEFINE D == {m - x : x \in T}
<1>1. D \subseteq Nat /\ D # {}
  OBVIOUS
<1>2. PICK d \in D : \A y \in D : d <= y
  BY ONLY <1>1, LeastNatural
<1>3. PICK x \in T : d = m - x
  BY <1>2
<1>4. ASSUME NEW y \in T PROVE y <= x
  <2>1. m - x <= m - y
    BY <1>2, <1>3
  <2> QED  BY ONLY <2>1, <1>3, <1>4, \A z \in T : z \in Nat /\ z < m, m \in Nat
<1> QED  BY <1>4

\* highestEnd is the end of a PT_LOAD segment, or 0, and no other ends later.
LEMMA HighestEnd ==
  ASSUME NEW f \in FileType, Sized(f)
  PROVE  /\ highestEnd(f) \in Nat /\ highestEnd(f) < U64
         /\ highestEnd(f) = 0 \/ \E i \in LoadSegments(f) : highestEnd(f) = SegmentEnd(f, i)
         /\ \A i \in LoadSegments(f) : SegmentEnd(f, i) \in Nat /\ SegmentEnd(f, i) <= highestEnd(f)
<1> DEFINE ends == {0} \cup {SegmentEnd(f, i) : i \in LoadSegments(f)}
<1>u. U64 \in Nat /\ U64 > 0
  BY Moduli
<1>1. ASSUME NEW i \in LoadSegments(f) PROVE SegmentEnd(f, i) \in Nat /\ SegmentEnd(f, i) < U64
  <2> DEFINE a == P(f, i, "p_vaddr")
             b == P(f, i, "p_memsz")
             x == a + b
  <2>1. i \in 1..Len(f.phdrs)
    BY DEF LoadSegments
  <2>2. a \in Nat /\ b \in Nat
    BY <2>1, SegmentFieldType DEF PhdrNames
  <2> HIDE DEF a, b
  <2>3. x \in Nat
    BY <2>2
  <2> HIDE DEF x
  <2>4. x % U64 \in Nat /\ x % U64 < U64
    BY <2>3, <1>u, DivMod
  <2> QED  BY <2>4 DEF SegmentEnd, x, a, b
<1>2. ends # {} /\ \A x \in ends : x \in Nat /\ x < U64
  BY <1>1, <1>u
<1>3. \E x \in ends : \A y \in ends : y <= x
  <2> HIDE DEF ends
  <2> QED  BY ONLY <1>2, <1>u, GreatestNatural
<1>4. highestEnd(f) = CHOOSE e \in ends : \A d \in ends : d <= e
  BY DEF highestEnd
<1>5. highestEnd(f) \in ends /\ \A y \in ends : y <= highestEnd(f)
  <2> HIDE DEF ends
  <2> QED  BY <1>3, <1>4
<1> QED  BY <1>1, <1>2, <1>5

\* The new segment's address is a 32-bit number; when 64 KB above the highest
\* end still fit, it is not below that end, less than 64 KB above it, and has
\* 64 KB above itself, too.
LEMMA AddressFound ==
  ASSUME NEW f \in FileType, Sized(f)
  PROVE  /\ TrampolineAddr(f) \in Nat /\ TrampolineAddr(f) < U32
         /\ highestEnd(f) + U16 <= U32 =>
              /\ highestEnd(f) <= TrampolineAddr(f) /\ TrampolineAddr(f) < highestEnd(f) + U16
              /\ TrampolineAddr(f) + U16 <= U32
<1> DEFINE e == highestEnd(f)
           w == (e + U16 - 1) % U64
           u == (w \div U16) * U16
<1>1. e \in Nat /\ e < U64
  BY HighestEnd
<1>u. /\ U16 \in Nat /\ U16 > 0 /\ U32 \in Nat /\ U32 > 0 /\ U64 \in Nat /\ U64 > 0
      /\ U32 < U64 /\ U32 = U16 * U16
  BY Moduli
<1>2. TrampolineAddr(f) = Cast(u, 4)
  BY <1>u DEF TrampolineAddr, alignUp, SEGMENT_ALIGN
<1> HIDE DEF e
<1>3. w \in Nat
  <2> DEFINE x == e + U16 - 1
  <2>1. x \in Nat
    BY <1>1, <1>u
  <2> HIDE DEF x
  <2>2. x % U64 \in Nat
    BY <2>1, <1>u, DivMod
  <2> QED  BY <2>2 DEF x
<1>4. /\ w \div U16 \in Nat /\ w % U16 \in Nat /\ w % U16 < U16 /\ w = u + (w % U16)
  <2> HIDE DEF w
  <2> QED  BY <1>3, <1>u, DivMod
<1>5. u \in Nat
  <2> HIDE DEF w
  <2> QED  BY <1>4, <1>3, <1>u
<1> HIDE DEF u
<1>6. Cast(u, 4) = u % U32 /\ u % U32 \in Nat /\ u % U32 < U32
  BY <1>5, <1>u, DivMod DEF Cast
<1>7. ASSUME e + U16 <= U32 PROVE e <= Cast(u, 4) /\ Cast(u, 4) < e + U16 /\ Cast(u, 4) + U16 <= U32
  <2>1. w = e + U16 - 1 /\ w < U32
    <3> DEFINE x == e + U16 - 1
    <3>1. x \in Nat /\ x < U64 /\ x < U32
      BY <1>1, <1>u, <1>7
    <3> HIDE DEF x
    <3>2. x % U64 = x
      BY ONLY <3>1, <1>u
    <3> QED  BY <3>1, <3>2 DEF x
  <2> DEFINE z == w % U16
             q == w \div U16
  <2>2. z \in Nat /\ z < U16 /\ e + U16 - 1 = u + z
    BY <1>4, <2>1
  <2>3. q \in Nat /\ q < U16
    <3> HIDE DEF w
    <3>1. w < U16 * U16
      BY <2>1, <1>u
    <3> QED  BY <3>1, <1>3, <1>4, <1>u, DivUpper
  <2>4. u = q * U16
    BY DEF u
  <2> HIDE DEF z, q
  <2>5. u + U16 <= U32
    <3>1. q + 1 <= U16 /\ q + 1 \in Nat
      BY ONLY <2>3, <1>u
    <3>2. (q + 1) * U16 <= U16 * U16
      BY ONLY <3>1, <1>u
    <3>3. (q + 1) * U16 = q * U16 + U16
      BY ONLY <2>3, <1>u
    <3> QED  BY ONLY <2>4, <3>2, <3>3, <1>u
  <2>6. e <= u /\ u < e + U16 /\ u < U32
    BY ONLY <2>2, <2>5, <1>1, <1>5, <1>u
  <2>7. u % U32 = u
    BY ONLY <2>6, <1>5, <1>u
  <2> QED  BY <2>5, <2>6, <2>7, <1>6
<1> QED  BY <1>2, <1>6, <1>7 DEF e

-----------------------------------------------------------------------------
(* Jumps and the blob. *)

\* What a buffer of four bytes holds.
LEMMA FourBytes ==
  ASSUME NEW w, w \in Seq(Byte), Len(w) = 4
  PROVE  \A j \in 1..4 : w[j] \in Byte
  OBVIOUS

\* A jump is one instruction or five.
LEMMA JumpShape ==
  ASSUME NEW a, NEW t \in Nat, t < U32
  PROVE  /\ Jump(a, t) \in Seq(Byte)
         /\ Len(Jump(a, t)) = 4 * jumpLength(a, t) /\ Len(Jump(a, t)) \in {4, 20}
<1> DEFINE n == 4 * jumpLength(a, t)
           w == BE4(t)
<1>1. n \in {4, 20}
  BY DEF jumpLength
<1>2. w \in Seq(Byte) /\ Len(w) = 4
  BY BE4Correct
<1> HIDE DEF w
<1>b. \A j \in 1..4 : w[j] \in Byte
  BY ONLY <1>2, FourBytes
<1>3. Jump(a, t) = [k \in 1..n |-> w[((k - 1) % 4) + 1]]
  BY DEF Jump, w
<1>4. ASSUME NEW k \in 1..n PROVE w[((k - 1) % 4) + 1] \in Byte
  <2>1. ((k - 1) % 4) + 1 \in 1..4
    BY <1>1
  <2> QED  BY <2>1, <1>b
<1> HIDE DEF n
<1>5. n \in Nat
  BY <1>1
<1>6. Jump(a, t) \in [1..n -> Byte]
  BY <1>3, <1>4
<1>7. Jump(a, t) \in Seq(Byte) /\ Len(Jump(a, t)) = n
  BY <1>5, <1>6, BytesOf
<1> QED  BY <1>7, <1>1 DEF n

\* t begins with s.
Begins(t, s) == Len(s) <= Len(t) /\ \A i \in 1..Len(s) : t[i] = s[i]

\* s holds the bytes d at offset o.
Holds(s, o, d) == o + Len(d) <= Len(s) /\ \A i \in 1..Len(d) : s[o + i] = d[i]

\* t is s with u put behind it.
Appended(t, s, u) ==
  t \in Seq(Byte) /\ Len(t) = Len(s) + Len(u) /\ Begins(t, s) /\ Holds(t, Len(s), u)

\* That is what concatenation does.
LEMMA ConcatAppends ==
  ASSUME NEW s \in Seq(Byte), NEW u \in Seq(Byte)
  PROVE  Appended(s \o u, s, u)
<1>1. Len(s) \in Nat /\ Len(u) \in Nat
  OBVIOUS
<1> QED  BY <1>1, Concat DEF Appended, Begins, Holds

\* What is in a buffer stays there when more is put behind it.
LEMMA StillThere ==
  ASSUME NEW s \in Seq(Byte), NEW t \in Seq(Byte), Begins(t, s), NEW o \in Nat,
         NEW d \in Seq(Byte), Holds(s, o, d)
  PROVE  Holds(t, o, d)
<1>1. Len(s) \in Nat /\ Len(d) \in Nat /\ Len(t) \in Nat
  OBVIOUS
<1>2. ASSUME NEW i \in 1..Len(d) PROVE t[o + i] = d[i]
  <2>1. o + i \in 1..Len(s)
    BY <1>1 DEF Holds
  <2> QED  BY <2>1 DEF Begins, Holds
<1> QED  BY <1>1, <1>2 DEF Begins, Holds

\* What begins with the beginning of s begins with it.
LEMMA BeginsAll ==
  ASSUME NEW s \in Seq(Byte), NEW t \in Seq(Byte), NEW u \in Seq(Byte), Begins(t, s), Begins(u, t)
  PROVE  Begins(u, s)
<1>1. Len(s) \in Nat /\ Len(t) \in Nat /\ Len(u) \in Nat
  OBVIOUS
<1> QED  BY <1>1 DEF Begins

\* Where the displaced instructions are in the blob.
ResumeOffset == MagicSize + PrefixCount * 4

\* The blob holds the magic, the displaced instructions and the jump back at
\* their places, and is shorter than 64 KB.
Assembles(blob, displaced, back) ==
  /\ blob \in Seq(Byte) /\ Len(blob) < U16
  /\ Holds(blob, 0, TRAMPOLINE_MAGIC)
  /\ Holds(blob, ResumeOffset, displaced)
  /\ Holds(blob, ResumeOffset + Len(displaced), back)

\* The blob as it is laid out has its three parts where Assembles puts them.
LEMMA BlobShape ==
  ASSUME NEW entry, entry.tocValue \in Nat, entry.tocValue < U32, NEW addr,
         NEW disp \in Seq(Byte), NEW back \in Seq(Byte), NEW path \in Seq(Byte),
         Len(disp) \in {4, 20}, Len(back) \in {4, 20}, Len(path) \in 1..MaxPath,
         resumeAddr(addr) + Len(disp) + Len(back) \in Nat
  PROVE  Assembles(Blob(entry, addr, disp, back, path), disp, back)
<1> DEFINE a  == BE4((resumeAddr(addr) + Len(disp) + Len(back)) % U32)
           b  == BE4(entry.tocValue)
           z  == Zeros((PrefixCount - 2) * 4)
           s0 == TRAMPOLINE_MAGIC
           s1 == s0 \o a
           s2 == s1 \o b
           s3 == s2 \o z
           s4 == s3 \o disp
           s5 == s4 \o back
           s6 == s5 \o path
           s7 == s6 \o << 0 >>
           pz == Zeros((-Len(s7)) % 4)
           s8 == s7 \o pz
<1>d. Blob(entry, addr, disp, back, path) = s8
  BY DEF Blob, padded
<1>u. U32 \in Nat /\ U32 > 0 /\ U16 \in Nat /\ ByteBase \in Nat /\ ByteBase > 1
  BY Moduli
<1>p. /\ PrefixCount \in Nat /\ PrefixCount >= 2 /\ MaxPath \in Nat
      /\ (PrefixCount - 2) * 4 \in Nat /\ MagicSize = 8
  BY Ps3ElfAssumption DEF MagicSize
<1>0. s0 \in Seq(Byte) /\ Len(s0) = 8
  <2>1. PICK n \in Nat : n = 8
    OBVIOUS
  <2>2. s0 \in [1..n -> Byte]
    BY <2>1, Ps3ElfAssumption DEF MagicSize
  <2> HIDE DEF s0
  <2> QED  BY <2>1, <2>2, BytesOf
<1>a. a \in Seq(Byte) /\ Len(a) = 4
  <2> DEFINE x == resumeAddr(addr) + Len(disp) + Len(back)
  <2>1. x \in Nat
    OBVIOUS
  <2> HIDE DEF x
  <2>2. x % U32 \in Nat /\ x % U32 < U32
    BY <2>1, <1>u, DivMod
  <2>3. BE4(x % U32) \in Seq(Byte) /\ Len(BE4(x % U32)) = 4
    BY <2>2, BE4Correct
  <2> QED  BY <2>3 DEF x
<1>b. b \in Seq(Byte) /\ Len(b) = 4
  BY BE4Correct
<1>z. z \in Seq(Byte) /\ Len(z) = (PrefixCount - 2) * 4
  BY <1>p, ZerosShape
<1>n. << 0 >> \in Seq(Byte) /\ Len(<< 0 >>) = 1
  <2>1. 0 \in Byte
    BY <1>u DEF Byte
  <2> QED  BY <2>1
<1> HIDE DEF a, b, z, s0
<1>1. Appended(s1, s0, a)
  BY <1>0, <1>a, ConcatAppends
<1> HIDE DEF s1
<1>2. s1 \in Seq(Byte) /\ Appended(s2, s1, b)
  BY <1>1, <1>b, ConcatAppends DEF Appended
<1> HIDE DEF s2
<1>3. s2 \in Seq(Byte) /\ Appended(s3, s2, z)
  BY <1>2, <1>z, ConcatAppends DEF Appended
<1> HIDE DEF s3
<1>4. s3 \in Seq(Byte) /\ Appended(s4, s3, disp)
  BY <1>3, ConcatAppends DEF Appended
<1> HIDE DEF s4
<1>5. s4 \in Seq(Byte) /\ Appended(s5, s4, back)
  BY <1>4, ConcatAppends DEF Appended
<1> HIDE DEF s5
<1>6. s5 \in Seq(Byte) /\ Appended(s6, s5, path)
  BY <1>5, ConcatAppends DEF Appended
<1> HIDE DEF s6
<1>7. s6 \in Seq(Byte) /\ Appended(s7, s6, << 0 >>)
  BY <1>6, <1>n, ConcatAppends DEF Appended
<1> HIDE DEF s7
<1>8. s7 \in Seq(Byte) /\ Len(s7) \in Nat
  BY <1>7 DEF Appended
<1>9. /\ (-Len(s7)) % 4 \in 0..3
      /\ pz \in Seq(Byte) /\ Len(pz) = (-Len(s7)) % 4
  <2>1. (-Len(s7)) % 4 \in 0..3
    BY <1>8
  <2>2. pz \in Seq(Byte) /\ Len(pz) = (-Len(s7)) % 4
    <3> DEFINE m == (-Len(s7)) % 4
    <3>1. m \in Nat
      BY <2>1
    <3> HIDE DEF m
    <3>2. Zeros(m) \in Seq(Byte) /\ Len(Zeros(m)) = m
      BY ONLY <3>1, ByteBaseAssumption, ZerosShape
    <3> QED  BY <3>2 DEF m
  <2> QED  BY <2>1, <2>2
<1> HIDE DEF pz
<1>10. Appended(s8, s7, pz) /\ s8 \in Seq(Byte)
  BY <1>8, <1>9, ConcatAppends DEF Appended
<1> HIDE DEF s8
<1>l. /\ Len(s3) = ResumeOffset /\ Len(s4) = ResumeOffset + Len(disp)
      /\ Len(s5) = ResumeOffset + Len(disp) + Len(back)
      /\ Len(s7) = Len(s5) + Len(path) + 1 /\ Len(s8) = Len(s7) + Len(pz)
  <2>1. /\ Len(s1) = Len(s0) + Len(a) /\ Len(s2) = Len(s1) + Len(b) /\ Len(s3) = Len(s2) + Len(z)
        /\ Len(s4) = Len(s3) + Len(disp) /\ Len(s5) = Len(s4) + Len(back)
        /\ Len(s6) = Len(s5) + Len(path) /\ Len(s7) = Len(s6) + Len(<< 0 >>) /\ Len(s8) = Len(s7) + Len(pz)
    BY ONLY <1>1, <1>2, <1>3, <1>4, <1>5, <1>6, <1>7, <1>10 DEF Appended
  <2>2. Len(disp) \in Nat /\ Len(back) \in Nat /\ Len(path) \in Nat
    OBVIOUS
  <2> QED  BY ONLY <2>1, <2>2, <1>0, <1>a, <1>b, <1>z, <1>n, <1>p, <1>8 DEF ResumeOffset
<1>s. Len(s8) < U16
  <2> DEFINE N == 8 + (PrefixCount + 10) * 4 + MaxPath + 1
             n == Len(s7)
             R == (-N) % 4
             r == (-n) % 4
  <2>1. N + ((-N) % 4) < U16
    <3>1. blobSize(5, 5, MaxPath) = N + ((-N) % 4)
      <4>1. PrefixCount + 5 + 5 = PrefixCount + 10
        BY ONLY <1>p
      <4> QED  BY ONLY <4>1 DEF blobSize, MagicSize, N
    <3> QED  BY <3>1, Ps3ElfAssumption
  <2>2. N \in Nat /\ n \in Nat /\ n <= N
    <3>1. Len(disp) \in Nat /\ Len(disp) <= 20 /\ Len(back) \in Nat /\ Len(back) <= 20
      <4>1. \A x \in {4, 20} : x \in Nat /\ x <= 20
        OBVIOUS
      <4> QED  BY ONLY <4>1, Len(disp) \in {4, 20}, Len(back) \in {4, 20}
    <3>2. Len(path) \in Nat /\ Len(path) <= MaxPath
      BY ONLY <1>p, Len(path) \in 1..MaxPath
    <3> QED  BY ONLY <3>1, <3>2, <1>l, <1>p DEF ResumeOffset
  <2>3. Len(s8) = n + ((-n) % 4)
    BY <1>l, <1>9
  <2> HIDE DEF N, n
  <2>4. n + ((-n) % 4) <= N + ((-N) % 4)
    BY ONLY <2>2
  <2>5. N + ((-N) % 4) \in Nat /\ n + ((-n) % 4) \in Nat
    BY ONLY <2>2
  <2> QED  BY ONLY <2>1, <2>3, <2>4, <2>5, <1>u
<1>b0. Begins(s8, s0) /\ Begins(s8, s4) /\ Begins(s8, s5)
  <2>1. /\ Begins(s1, s0) /\ Begins(s2, s1) /\ Begins(s3, s2) /\ Begins(s4, s3) /\ Begins(s5, s4)
        /\ Begins(s6, s5) /\ Begins(s7, s6) /\ Begins(s8, s7)
    BY ONLY <1>1, <1>2, <1>3, <1>4, <1>5, <1>6, <1>7, <1>10 DEF Appended
  <2>t. /\ s0 \in Seq(Byte) /\ s1 \in Seq(Byte) /\ s2 \in Seq(Byte) /\ s3 \in Seq(Byte) /\ s4 \in Seq(Byte)
        /\ s5 \in Seq(Byte) /\ s6 \in Seq(Byte) /\ s7 \in Seq(Byte) /\ s8 \in Seq(Byte)
    BY ONLY <1>0, <1>2, <1>3, <1>4, <1>5, <1>6, <1>7, <1>8, <1>10
  <2>2. Begins(s8, s6)
    BY ONLY <2>1, <2>t, BeginsAll
  <2>3. Begins(s8, s5)
    BY ONLY <2>1, <2>2, <2>t, BeginsAll
  <2>4. Begins(s8, s4)
    BY ONLY <2>1, <2>3, <2>t, BeginsAll
  <2>5. Begins(s8, s3)
    BY ONLY <2>1, <2>4, <2>t, BeginsAll
  <2>6. Begins(s8, s2)
    BY ONLY <2>1, <2>5, <2>t, BeginsAll
  <2>7. Begins(s8, s1)
    BY ONLY <2>1, <2>6, <2>t, BeginsAll
  <2>8. Begins(s8, s0)
    BY ONLY <2>1, <2>7, <2>t, BeginsAll
  <2> QED  BY <2>3, <2>4, <2>8
<1>t. s4 \in Seq(Byte) /\ s5 \in Seq(Byte) /\ s8 \in Seq(Byte) /\ disp \in Seq(Byte) /\ back \in Seq(Byte)
  BY <1>5, <1>6, <1>10
<1>11. Holds(s8, 0, TRAMPOLINE_MAGIC)
  BY <1>b0, <1>0 DEF Begins, Holds, s0
<1>r. ResumeOffset \in Nat /\ Len(disp) \in Nat /\ ResumeOffset + Len(disp) \in Nat
  BY <1>p DEF ResumeOffset
<1>12. Holds(s8, ResumeOffset, disp)
  <2>1. Holds(s4, ResumeOffset, disp)
    BY ONLY <1>4, <1>l DEF Appended
  <2> QED  BY ONLY <2>1, <1>t, <1>b0, <1>r, StillThere
<1>13. Holds(s8, ResumeOffset + Len(disp), back)
  <2> DEFINE o == ResumeOffset + Len(disp)
  <2>1. Holds(s5, o, back)
    BY ONLY <1>5, <1>l DEF Appended
  <2>2. o \in Nat
    BY <1>r
  <2> HIDE DEF o
  <2>3. Holds(s8, o, back)
    BY ONLY <2>1, <2>2, <1>t, <1>b0, StillThere
  <2> QED  BY <2>3 DEF o
<1> QED  BY <1>d, <1>10, <1>s, <1>11, <1>12, <1>13 DEF Assembles

-----------------------------------------------------------------------------
(* buildTrampoline. *)

JumpIn(entry, addr) == Jump(entry.codeAddress, codeBaseAddr(addr))

JumpBack(entry, addr) ==
  Jump((resumeAddr(addr) + Len(JumpIn(entry, addr))) % U32,
       (entry.codeAddress + Len(JumpIn(entry, addr))) % U32)

\* tr is the trampoline for the entry, found at offset off of f: the window at
\* the entry is in the file, and its bytes are in the blob.
Built(f, entry, addr, tr, off) ==
  /\ off \in Nat /\ vaddrToFileOffset(f, entry.codeAddress) = Ok(off)
  /\ off + Len(JumpIn(entry, addr)) <= Len(f.raw)
  /\ addr % 4 = 0 /\ entry.codeAddress % 4 = 0
  /\ tr.entryPatchAddr = entry.codeAddress
  /\ tr.entryPatchBytes = JumpIn(entry, addr)
  /\ Assembles(tr.blob, Slice(f.raw, off, Len(JumpIn(entry, addr))), JumpBack(entry, addr))

\* The two jumps are buffers of one instruction or five.
LEMMA Jumps ==
  ASSUME NEW entry, entry.codeAddress \in Nat, NEW addr \in Nat
  PROVE  /\ JumpIn(entry, addr) \in Seq(Byte) /\ Len(JumpIn(entry, addr)) \in {4, 20}
         /\ JumpBack(entry, addr) \in Seq(Byte) /\ Len(JumpBack(entry, addr)) \in {4, 20}
         /\ codeBaseAddr(addr) \in Nat /\ resumeAddr(addr) \in Nat
         /\ codeBaseAddr(addr) < U32 /\ resumeAddr(addr) < U32
<1>u. U32 \in Nat /\ U32 > 0
  BY Moduli
<1>m. \A x \in Nat : x % U32 \in Nat /\ x % U32 < U32
  BY <1>u, DivMod
<1>p. PrefixCount * 4 \in Nat /\ MagicSize \in Nat
  BY Ps3ElfAssumption DEF MagicSize
<1>1. codeBaseAddr(addr) \in Nat /\ codeBaseAddr(addr) < U32
  <2>1. addr + MagicSize \in Nat
    BY <1>p
  <2> QED  BY <2>1, <1>m DEF codeBaseAddr
<1>2. resumeAddr(addr) \in Nat /\ resumeAddr(addr) < U32
  <2>1. codeBaseAddr(addr) + PrefixCount * 4 \in Nat
    BY <1>1, <1>p
  <2> QED  BY <2>1, <1>m DEF resumeAddr
<1>3. JumpIn(entry, addr) \in Seq(Byte) /\ Len(JumpIn(entry, addr)) \in {4, 20}
  BY <1>1, JumpShape DEF JumpIn
<1>4. JumpBack(entry, addr) \in Seq(Byte) /\ Len(JumpBack(entry, addr)) \in {4, 20}
  <2> DEFINE x == entry.codeAddress + Len(JumpIn(entry, addr))
  <2>1. x \in Nat
    BY <1>3
  <2>2. x % U32 \in Nat /\ x % U32 < U32
    BY <2>1, <1>m
  <2> QED  BY <2>2, JumpShape DEF JumpBack
<1> QED  BY <1>1, <1>2, <1>3, <1>4

\* It builds one or refuses.
LEMMA TrampolineResult ==
  ASSUME NEW f \in FileType, Sized(f), NEW entry,
         entry.codeAddress \in Nat, entry.tocValue \in Nat, entry.tocValue < U32,
         NEW addr \in Nat, NEW path \in Seq(Byte)
  PROVE  \/ Refuses(buildTrampoline(f, entry, addr, path))
         \/ \E tr, off : Built(f, entry, addr, tr, off) /\ buildTrampoline(f, entry, addr, path) = Ok(tr)
<1> DEFINE at == vaddrToFileOffset(f, entry.codeAddress)
           ji == JumpIn(entry, addr)
           jb == JumpBack(entry, addr)
           info == [patched |-> isAlreadyPatched(f), mapped |-> at.ok,
                    left |-> IF at.ok THEN Len(f.raw) - at.value ELSE 0]
           ck == checks(info, entry.codeAddress, addr, Len(ji) \div 4, Len(path))
           as == Assembled(f, entry, addr, ji, at.value, path)
<1>d. buildTrampoline(f, entry, addr, path) = IF ck.ok THEN as ELSE ck
  BY DEF buildTrampoline, Checked, AndThen, JumpIn
<1>j. ji \in Seq(Byte) /\ Len(ji) \in {4, 20} /\ jb \in Seq(Byte) /\ Len(jb) \in {4, 20} /\ resumeAddr(addr) \in Nat
  BY Jumps
<1>c. ErrorCode \subseteq Codes
  BY DEF Codes
<1>1. \/ \E x \in ErrorCode : ck = Err(x)
      \/ /\ ck = Ok("checked") /\ Len(path) \in 1..MaxPath /\ addr % 4 = 0 /\ entry.codeAddress % 4 = 0
         /\ info.mapped /\ ~ (info.left < (Len(ji) \div 4) * 4)
  <2> HIDE DEF info, ji
  <2> QED  BY DEF checks, ErrorCode
<1>2. CASE \E x \in ErrorCode : ck = Err(x)
  <2>1. PICK x \in ErrorCode : ck = Err(x)
    BY <1>2
  <2> HIDE DEF ck, as
  <2> QED  BY <2>1, <1>d, <1>c DEF Err, Refuses
<1>3. CASE /\ ck = Ok("checked") /\ Len(path) \in 1..MaxPath /\ addr % 4 = 0 /\ entry.codeAddress % 4 = 0
           /\ info.mapped /\ ~ (info.left < (Len(ji) \div 4) * 4)
  <2>1. buildTrampoline(f, entry, addr, path) = as
    <3> HIDE DEF ck, as
    <3> QED  BY <1>d, <1>3 DEF Ok
  <2>2. PICK off \in Nat : at = Ok(off) /\ off <= Len(f.raw)
    <3>1. at.ok
      BY <1>3
    <3>2. \/ at = Err("OffsetOutOfBounds")
          \/ \E o \in Nat : o <= Len(f.raw) /\ at = Ok(o)
      BY TranslationResult
    <3> HIDE DEF at
    <3> QED  BY <3>1, <3>2 DEF Err
  <2>3. at.ok /\ at.value = off
    <3> HIDE DEF at
    <3> QED  BY <2>2 DEF Ok
  <2>4. off + Len(ji) <= Len(f.raw)
    <3>1. ~ (Len(f.raw) - off < (Len(ji) \div 4) * 4)
      BY <1>3, <2>3
    <3>2. Len(f.raw) \in Nat
      BY FileFacts
    <3>3. (Len(ji) \div 4) * 4 = Len(ji) /\ Len(ji) \in Nat
      <4>1. \A x \in {4, 20} : (x \div 4) * 4 = x /\ x \in Nat
        OBVIOUS
      <4> QED  BY ONLY <4>1, <1>j
    <3> QED  BY ONLY <3>1, <3>2, <3>3, off \in Nat
  <2> DEFINE disp == Slice(f.raw, off, Len(ji))
             blob == Blob(entry, addr, disp, jb, path)
             tr == [blob |-> blob, entryPatchBytes |-> ji, entryPatchAddr |-> entry.codeAddress]
  <2>5. disp \in Seq(Byte) /\ Len(disp) = Len(ji)
    <3> DEFINE rw == f.raw
               n == Len(ji)
    <3>1. rw \in Seq(Byte) /\ off + n <= Len(rw) /\ n \in Nat
      BY <2>4, <1>j, FileFacts
    <3> HIDE DEF rw, n
    <3>2. Slice(rw, off, n) \in Seq(Byte) /\ Len(Slice(rw, off, n)) = n
      BY ONLY <3>1, off \in Nat, SliceShape
    <3> QED  BY <3>2 DEF rw, n
  <2>6. as = IF ~ Relocates(disp) THEN Err("RelocationFailed") ELSE Ok(tr)
    BY <2>3 DEF Assembled, JumpBack
  <2>7. CASE ~ Relocates(disp)
    <3>1. "RelocationFailed" \in Codes
      BY DEF Codes, ErrorCode
    <3> QED  BY <2>1, <2>6, <2>7, <3>1 DEF Refuses
  <2>8. CASE Relocates(disp)
    <3>1. Assembles(blob, disp, jb)
      <4> HIDE DEF disp, jb, ji
      <4>1. disp \in Seq(Byte) /\ jb \in Seq(Byte) /\ Len(disp) \in {4, 20} /\ Len(jb) \in {4, 20}
            /\ resumeAddr(addr) + Len(disp) + Len(jb) \in Nat
        <5>1. \A x \in {4, 20} : x \in Nat
          OBVIOUS
        <5> QED  BY ONLY <2>5, <1>j, <5>1
      <4> QED  BY <4>1, <1>3, BlobShape
    <3>2. Built(f, entry, addr, tr, off)
      <4>1. /\ tr.entryPatchAddr = entry.codeAddress /\ tr.entryPatchBytes = ji /\ tr.blob = blob
        OBVIOUS
      <4> HIDE DEF tr, blob
      <4> QED  BY <2>2, <2>4, <1>3, <3>1, <4>1 DEF Built
    <3> HIDE DEF tr, as
    <3>3. buildTrampoline(f, entry, addr, path) = Ok(tr)
      BY <2>1, <2>6, <2>8
    <3> QED  BY <3>2, <3>3
  <2> QED  BY <2>7, <2>8
<1> QED  BY <1>1, <1>2, <1>3

-----------------------------------------------------------------------------
(* The whole patch. *)

\* One patch of the bytes b: f is the file parsed from them, entry its entry, tr
\* the trampoline for it, off the place of the entry, g the file with the new
\* segment and h the one with the entry overwritten.
Job(b, f, entry, tr, off, g, h) ==
  /\ Loaded(f, b) /\ ps3File(b) = Ok(f)
  /\ (\E at, d : DescriptorAt(f, entry, at, d)) /\ resolveEntryDescriptor(f) = Ok(entry)
  /\ ~ isAlreadyPatched(f)
  /\ Built(f, entry, TrampolineAddr(f), tr, off)
  /\ g = addLoadSegment(f, TrampolineAddr(f), tr.blob, PF_R_X, SEGMENT_ALIGN)
  /\ g \in FileType /\ Sized(g) /\ Extended(g, f, TrampolineAddr(f), tr.blob, PF_R_X, SEGMENT_ALIGN)
  /\ Reheaded(g, f)
  /\ h \in FileType /\ Sized(h) /\ PatchedAt(h, g, off, tr.entryPatchBytes)

\* The segment is added behind the others: the entry is where it was.
LEMMA EntryStays ==
  ASSUME NEW f \in FileType, Sized(f), NEW g \in FileType, Sized(g), NEW T, NEW data \in Seq(Byte), NEW fl, NEW al,
         Extended(g, f, T, data, fl, al), NEW a \in Nat, vaddrToFileOffset(f, a).ok
  PROVE  vaddrToFileOffset(g, a) = vaddrToFileOffset(f, a)
<1> DEFINE ps == f.phdrs
           pt == g.phdrs
           ph == LoadPhdr(f, T, Len(data), fl, al)
<1>1. /\ ps \in Seq(Seq(Byte)) /\ pt \in Seq(Seq(Byte)) /\ pt = Append(ps, ph)
      /\ Len(f.raw) \in Nat /\ Len(g.raw) \in Nat /\ Len(g.raw) = Len(f.raw) + Len(data) /\ Len(data) \in Nat
      /\ g.class = f.class /\ g.data = f.data
  BY SMTT(30), FileFacts DEF Extended
<1>2. Len(pt) = Len(ps) + 1 /\ (\A i \in 1..Len(ps) : pt[i] = ps[i]) /\ Len(ps) \in Nat
  <2> HIDE DEF ps, pt, ph
  <2> QED  BY ONLY <1>1
<1>3. /\ Len(f.phdrs) \in Nat /\ Len(g.phdrs) \in Nat /\ Len(g.phdrs) >= Len(f.phdrs)
      /\ \A i \in 1..Len(f.phdrs) : g.phdrs[i] = f.phdrs[i]
  BY <1>2
<1>4. Len(g.raw) >= Len(f.raw)
  BY ONLY <1>1
<1>5. \A i \in Hits(f, a) : OffsetIn(f, i, a) \in Nat
  BY OffsetType
<1> QED  BY <1>1, <1>3, <1>4, <1>5, TranslationKept

\* patchFile refuses, or is such a job and returns what serialize() makes of it.
LEMMA PatchResult ==
  ASSUME NEW b \in Seq(Byte), NEW path \in Seq(Byte)
  PROVE  \/ Refuses(patchFile(b, path))
         \/ \E f, entry, tr, off, g, h :
              Job(b, f, entry, tr, off, g, h) /\ patchFile(b, path) = Ok(serialize(h))
<1> DEFINE pf == ps3File(b)
           rest(f) == AndThen(resolveEntryDescriptor(f), LAMBDA entry :
                        IF isAlreadyPatched(f) THEN Err("AlreadyPatched")
                        ELSE AndThen(Ok(TrampolineAddr(f)), LAMBDA addr :
                             AndThen(buildTrampoline(f, entry, addr, path), LAMBDA tr :
                             Apply(f, addr, tr))))
<1>d. patchFile(b, path) = IF pf.ok THEN rest(pf.value) ELSE pf
  BY DEF patchFile, AndThen
<1>1. CASE Refuses(pf)
  <2> HIDE DEF pf, rest
  <2>1. patchFile(b, path) = pf
    BY <1>1, <1>d, RefusedNotOk
  <2> QED  BY <1>1, <2>1
<1>2. CASE \E f : Loaded(f, b) /\ pf = Ok(f)
  <2>1. PICK f : Loaded(f, b) /\ pf = Ok(f)
    BY <1>2
  <2>f. f \in FileType /\ Sized(f)
    BY <2>1 DEF Loaded
  <2>2. patchFile(b, path) = rest(f)
    <3> HIDE DEF pf, rest
    <3> QED  BY <1>d, <2>1 DEF Ok
  <2> DEFINE rd == resolveEntryDescriptor(f)
             T  == TrampolineAddr(f)
             more(entry) == IF isAlreadyPatched(f) THEN Err("AlreadyPatched")
                            ELSE AndThen(buildTrampoline(f, entry, T, path), LAMBDA tr : Apply(f, T, tr))
  <2>3. rest(f) = IF rd.ok THEN more(rd.value) ELSE rd
    BY DEF AndThen, Ok
  <2> HIDE DEF rest
  <2>4. CASE Refuses(rd)
    <3> HIDE DEF rd, more
    <3>1. patchFile(b, path) = rd
      BY <2>2, <2>3, <2>4, RefusedNotOk
    <3> QED  BY <2>4, <3>1
  <2>5. CASE \E e, at, d : DescriptorAt(f, e, at, d) /\ rd = Ok(e)
    <3>1. PICK entry, at, d : DescriptorAt(f, entry, at, d) /\ rd = Ok(entry)
      BY <2>5
    <3>2. patchFile(b, path) = more(entry)
      <4> HIDE DEF rd, more
      <4> QED  BY <2>2, <2>3, <3>1 DEF Ok
    <3>3. CASE isAlreadyPatched(f)
      <4>1. "AlreadyPatched" \in Codes
        BY DEF Codes, ErrorCode
      <4> QED  BY <3>2, <3>3, <4>1 DEF Refuses
    <3>4. CASE ~ isAlreadyPatched(f)
      <4> DEFINE bt == buildTrampoline(f, entry, T, path)
      <4>1. patchFile(b, path) = IF bt.ok THEN Apply(f, T, bt.value) ELSE bt
        BY <3>2, <3>4 DEF AndThen
      <4>2. T \in Nat /\ T < U32
        BY <2>f, AddressFound
      <4>3. Refuses(bt) \/ \E tr, off : Built(f, entry, T, tr, off) /\ bt = Ok(tr)
        <5> HIDE DEF T
        <5> QED  BY SMTT(60), <2>f, <3>1, <4>2, TrampolineResult DEF DescriptorAt
      <4>4. CASE Refuses(bt)
        <5> HIDE DEF bt
        <5>1. patchFile(b, path) = bt
          BY <4>1, <4>4, RefusedNotOk
        <5> QED  BY <4>4, <5>1
      <4>5. CASE \E tr, off : Built(f, entry, T, tr, off) /\ bt = Ok(tr)
        <5>1. PICK tr, off : Built(f, entry, T, tr, off) /\ bt = Ok(tr)
          BY <4>5
        <5>2. patchFile(b, path) = Apply(f, T, tr)
          <6> HIDE DEF bt
          <6> QED  BY <4>1, <5>1 DEF Ok
        <5> DEFINE g  == addLoadSegment(f, T, tr.blob, PF_R_X, SEGMENT_ALIGN)
                   vo == vaddrToFileOffset(g, tr.entryPatchAddr)
                   pb == patchBytesAt(g, off, tr.entryPatchBytes)
        <5>3. tr.blob \in Seq(Byte) /\ tr.entryPatchAddr = entry.codeAddress
              /\ tr.entryPatchBytes = JumpIn(entry, T) /\ off \in Nat
              /\ vaddrToFileOffset(f, entry.codeAddress) = Ok(off)
          BY <5>1 DEF Built, Assembles
        <5>4. /\ g \in FileType /\ Sized(g) /\ Extended(g, f, T, tr.blob, PF_R_X, SEGMENT_ALIGN)
              /\ Reheaded(g, f)
          <6>1. PF_R_X \in Nat /\ SEGMENT_ALIGN \in Nat
            BY Moduli DEF PF_R_X, SEGMENT_ALIGN
          <6> HIDE DEF T
          <6> QED  BY <6>1, <2>f, <4>2, <5>3, AddShape
        <5>e. entry.codeAddress \in Nat
          BY <3>1 DEF DescriptorAt
        <5>5. vo = Ok(off)
          <6> HIDE DEF g, T
          <6>1. vaddrToFileOffset(f, entry.codeAddress).ok
            BY <5>3 DEF Ok
          <6>2. vaddrToFileOffset(g, entry.codeAddress) = vaddrToFileOffset(f, entry.codeAddress)
            BY ONLY <6>1, <2>f, <5>3, <5>4, <5>e, EntryStays
          <6> QED  BY <6>2, <5>3
        <5>6. patchFile(b, path) = IF pb.ok THEN Ok(serialize(pb.value)) ELSE pb
          <6>1. Apply(f, T, tr) = AndThen(vo, LAMBDA x :
                  AndThen(patchBytesAt(g, x, tr.entryPatchBytes), LAMBDA done : Ok(serialize(done))))
            BY DEF Apply, AndThen, Ok
          <6> HIDE DEF g, vo, T
          <6> QED  BY <5>2, <6>1, <5>5 DEF AndThen, Ok
        <5>j. JumpIn(entry, T) \in Seq(Byte)
          BY <5>e, <4>2, Jumps
        <5> HIDE DEF g
        <5>7. CASE ~ pb.ok
          <6>1. pb = Err("OffsetOutOfBounds")
            BY <5>7 DEF patchBytesAt, Ok
          <6>2. "OffsetOutOfBounds" \in Codes
            BY DEF Codes, ErrorCode
          <6> HIDE DEF pb
          <6> QED  BY <5>6, <5>7, <6>1, <6>2 DEF Refuses
        <5>8. CASE pb.ok
          <6> DEFINE h == pb.value
                     bs == tr.entryPatchBytes
          <6>1. h \in FileType /\ Sized(h) /\ PatchedAt(h, g, off, bs)
            <7>1. tr.entryPatchBytes \in Seq(Byte)
              BY <5>3, <5>j
            <7> QED  BY ONLY <7>1, <5>3, <5>4, <5>8, PatchShape
          <6> HIDE DEF h, pb
          <6>2. patchFile(b, path) = Ok(serialize(h))
            BY <5>6, <5>8 DEF h
          <6>3. Job(b, f, entry, tr, off, g, h)
            BY <2>1, <3>1, <3>4, <5>1, <5>4, <6>1 DEF Job, g
          <6> QED  BY <6>2, <6>3
        <5> QED  BY <5>7, <5>8
      <4> QED  BY <4>3, <4>4, <4>5
    <3> QED  BY <3>3, <3>4
  <2> QED  BY <2>f, <2>4, <2>5, EntryResult
<1> QED  BY <1>1, <1>2, FileResult

-----------------------------------------------------------------------------
(* The file that is written. *)

\* dst is what the tool reads from out, the output of a job: the header and the
\* tables of the file in memory.  The program headers are the last bytes.
Output(out, b, f, tr, off, g, h, dst) ==
  /\ out \in Seq(Byte) /\ dst \in FileType /\ Sized(dst) /\ ps3File(out) = Ok(dst)
  /\ dst.class = 64 /\ dst.data = "Big" /\ dst.raw = out
  /\ dst.header = g.header /\ dst.phdrs = g.phdrs /\ dst.shdrs = f.shdrs
  /\ H(dst, "e_phoff") = Len(b) + Len(tr.blob) /\ H(dst, "e_phnum") = Len(f.phdrs) + 1
  /\ Len(out) = Len(b) + Len(tr.blob) + (Len(f.phdrs) + 1) * 56
  /\ \A o \in 0..(Len(h.raw) - 1) : o \notin HeaderOffsets(f) \cup ShdrOffsets(f) => out[o + 1] = h.raw[o + 1]
  /\ \A o \in 0..(Len(b) - 1) :
       o \notin off..(off + Len(tr.entryPatchBytes) - 1)
         \cup FieldOffsets(64, "e_phoff") \cup FieldOffsets(64, "e_phnum") => out[o + 1] = b[o + 1]

\* A file of this kind that was loaded has a segment.
LEMMA HasSegment ==
  ASSUME NEW f \in FileType, NEW a, vaddrToFileOffset(f, a).ok
  PROVE  Len(f.phdrs) > 0
<1>1. PICK i \in Hits(f, a) : TRUE
  BY Translated
<1>2. i \in 1..Len(f.phdrs) /\ Len(f.phdrs) \in Nat
  BY DEF Hits, FileType
<1> QED  BY <1>2

\* What a job leaves in memory.
Ready(b, f, off, bs, g, h) ==
  /\ Coherent(h) /\ SoundLayout(h) /\ h.class = 64 /\ h.data = "Big"
  /\ Kept(h, b, off..(off + Len(bs) - 1) \cup FieldOffsets(64, "e_phoff") \cup FieldOffsets(64, "e_phnum"))
  /\ H(h, "e_phoff") = Len(h.raw) /\ H(h, "e_phnum") = Len(f.phdrs) + 1
  /\ HeaderOffsets(h) = HeaderOffsets(f) /\ ShdrOffsets(h) = ShdrOffsets(f)
  /\ h.header = g.header /\ h.phdrs = g.phdrs /\ h.shdrs = f.shdrs
  /\ H(h, "e_shoff") + Len(h.shdrs) * ShdrSize(64) <= Len(b)

\* The state of the pipeline before serialize(), from the steps that led to it.
LEMMA JobReady ==
  ASSUME NEW b \in Seq(Byte), NEW f, NEW entry, NEW tr, NEW off, NEW g, NEW h,
         Job(b, f, entry, tr, off, g, h), Regular(f)
  PROVE  Ready(b, f, off, tr.entryPatchBytes, g, h) /\ Len(h.raw) = Len(b) + Len(tr.blob)
           /\ Len(h.phdrs) = Len(f.phdrs) + 1
<1> DEFINE T  == TrampolineAddr(f)
           bs == tr.entryPatchBytes
           D0 == FieldOffsets(64, "e_phoff") \cup FieldOffsets(64, "e_phnum")
           D  == D0 \cup off..(off + Len(bs) - 1)
           n  == Len(f.phdrs)
<1>l. /\ f \in FileType /\ Sized(f) /\ Kept(f, b, {}) /\ Coherent(f) /\ f.raw = b
      /\ f.class = 64 /\ f.data = "Big"
      /\ n > 0 => H(f, "e_phentsize") = PhdrSize(f.class)
  BY DEF Job, Loaded
<1>j. /\ Built(f, entry, T, tr, off) /\ g = addLoadSegment(f, T, tr.blob, PF_R_X, SEGMENT_ALIGN)
      /\ g \in FileType /\ Sized(g) /\ Extended(g, f, T, tr.blob, PF_R_X, SEGMENT_ALIGN)
      /\ Reheaded(g, f)
      /\ h \in FileType /\ Sized(h) /\ PatchedAt(h, g, off, bs)
      /\ \E at, d : DescriptorAt(f, entry, at, d)
  BY DEF Job
<1>r. Len(b) + U16 <= U32 /\ n + 1 < U16 /\ HeaderOffsets(f) \cap ShdrOffsets(f) = {}
  BY <1>l DEF Regular
<1>b. /\ tr.blob \in Seq(Byte) /\ Len(tr.blob) < U16 /\ Len(tr.blob) \in Nat /\ Len(b) \in Nat
      /\ off \in Nat /\ bs = JumpIn(entry, T)
  BY <1>j DEF Built, Assembles
<1>u. U16 \in Nat /\ U32 \in Nat
  BY Moduli
<1>T. T \in Nat
  BY <1>l, AddressFound
<1>s. bs \in Seq(Byte)
  <2>1. entry.codeAddress \in Nat
    BY <1>j DEF DescriptorAt
  <2> HIDE DEF T
  <2> QED  BY <2>1, <1>b, <1>T, Jumps
<1>1. Len(f.raw) + Len(tr.blob) < U32
  BY <1>l, <1>r, <1>b, <1>u
<1>2. Kept(f, b, D0)
  <2>1. {} \subseteq D0
    OBVIOUS
  <2> HIDE DEF D0
  <2> QED  BY ONLY <1>l, <2>1, KeptMore
<1>3. Kept(g, b, D0) /\ Coherent(g) /\ H(g, "e_phoff") = Len(g.raw)
  <2>1. FieldOffsets(f.class, "e_phoff") \cup FieldOffsets(f.class, "e_phnum") \subseteq D0
    BY <1>l
  <2>2. PF_R_X \in Nat /\ SEGMENT_ALIGN \in Nat
    BY Moduli DEF PF_R_X, SEGMENT_ALIGN
  <2> DEFINE data == tr.blob
             fl == PF_R_X
             al == SEGMENT_ALIGN
             x  == addLoadSegment(f, T, data, fl, al)
  <2>3. f \in FileType /\ Sized(f) /\ Coherent(f) /\ data \in Seq(Byte) /\ fl \in Nat /\ al \in Nat
        /\ Len(f.raw) + Len(data) < U32
    BY <1>l, <1>b, <1>1, <2>2
  <2>4. Kept(x, b, D0) /\ Coherent(x) /\ H(x, "e_phoff") = Len(x.raw)
    <3> HIDE DEF D0, T, data, fl, al
    <3> QED  BY <2>1, <2>3, <1>2, <1>T, AddLoadSegmentKeeps
  <2>5. g = x
    BY <1>j
  <2> HIDE DEF x, D0
  <2> QED  BY ONLY <2>4, <2>5
<1>4. Coherent(h) /\ Kept(h, b, D) /\ \A name : H(h, name) = H(g, name)
  <2>1. g \in FileType /\ Sized(g) /\ PatchedAt(h, g, off, bs) /\ off \in Nat
    BY <1>j, <1>b
  <2> HIDE DEF D0, bs
  <2>3. \A name : H(h, name) = H(g, name)
    BY <2>1 DEF PatchedAt, H
  <2>2. Coherent(h) /\ Kept(h, b, D0 \cup off..(off + Len(bs) - 1))
    <3>1. Kept(g, b, D0) /\ Coherent(g) /\ bs \in Seq(Byte) /\ b \in Seq(Byte)
      BY <1>3, <1>s
    <3> QED  BY ONLY <3>1, <2>1, PatchKeeps
  <2> QED  BY <2>2, <2>3 DEF D
<1>5. /\ h.class = 64 /\ h.data = "Big" /\ h.header = g.header /\ h.phdrs = g.phdrs /\ h.shdrs = f.shdrs
      /\ Len(h.raw) = Len(b) + Len(tr.blob) /\ Len(g.raw) = Len(h.raw)
  BY <1>j, <1>l DEF PatchedAt, Extended
<1>6. Len(g.phdrs) = n + 1 /\ n \in Nat
  <2> DEFINE ps == f.phdrs
             ph == LoadPhdr(f, T, Len(tr.blob), PF_R_X, SEGMENT_ALIGN)
  <2>1. ps \in Seq(Seq(Byte)) /\ g.phdrs = Append(ps, ph) /\ g.phdrs \in Seq(Seq(Byte))
    BY <1>j, <1>l, FileFacts DEF Extended
  <2> HIDE DEF ps, ph
  <2>2. Len(g.phdrs) = Len(ps) + 1 /\ Len(ps) \in Nat
    BY ONLY <2>1
  <2> QED  BY <2>2 DEF ps
<1>7. H(h, "e_phnum") = n + 1
  <2>1. H(h, "e_phnum") = (n + 1) % U16
    BY <1>4, <1>j, <1>6 DEF Reheaded
  <2> HIDE DEF n
  <2>2. (n + 1) % U16 = n + 1
    BY ONLY <1>6, <1>r, <1>u
  <2> QED  BY <2>1, <2>2
<1>8. H(h, "e_shoff") = H(f, "e_shoff") /\ H(h, "e_phentsize") = H(f, "e_phentsize")
  <2>1. {"e_shoff", "e_phentsize"} \subseteq HeaderNames \ {"e_phoff", "e_phnum"}
    BY DEF HeaderNames
  <2>2. \A name \in HeaderNames \ {"e_phoff", "e_phnum"} : H(g, name) = H(f, name)
    BY <1>j DEF Reheaded
  <2> QED  BY <2>1, <2>2, <1>4
<1>9. HeaderOffsets(h) = HeaderOffsets(f) /\ ShdrOffsets(h) = ShdrOffsets(f)
  BY <1>5, <1>8, <1>l DEF HeaderOffsets, ShdrOffsets
<1>10. H(h, "e_shoff") \in Nat /\ H(h, "e_shoff") + Len(h.shdrs) * ShdrSize(64) <= Len(b)
  BY <1>4, <1>5 DEF Kept, KeptShdrs, TableOf
<1>11. H(h, "e_phoff") = Len(h.raw)
  BY <1>3, <1>4, <1>5
<1>12. SoundLayout(h)
  <2>1. H(h, "e_phentsize") = PhdrSize(h.class)
    <3>1. vaddrToFileOffset(f, entry.codeAddress).ok
      BY <1>j DEF Built, Ok
    <3>2. n > 0
      BY <1>l, <3>1, HasSegment
    <3> QED  BY <3>2, <1>8, <1>l, <1>5
  <2>2. Len(h.phdrs) < U16
    BY <1>5, <1>6, <1>r
  <2>z. EhdrSize(64) = 64 /\ PhdrSize(64) = 56 /\ ShdrSize(64) = 64
    BY DEF EhdrSize, PhdrSize, ShdrSize
  <2>3. \A o \in PhdrOffsets(h) : o \in Int /\ o >= Len(h.raw)
    <3>1. PhdrOffsets(h) = Len(h.raw)..(Len(h.raw) + (n + 1) * 56 - 1)
      BY <1>5, <1>6, <1>11, <2>z DEF PhdrOffsets
    <3>2. Len(h.raw) \in Nat /\ (n + 1) * 56 \in Nat
      BY <1>5, <1>6, <1>b
    <3> QED  BY <3>1, <3>2
  <2>4. \A o \in ShdrOffsets(h) : o \in Int /\ o < Len(b)
    <3> DEFINE so == H(h, "e_shoff")
               k  == Len(h.shdrs) * ShdrSize(64)
    <3>1. ShdrOffsets(h) = so..(so + k - 1)
      BY <1>5 DEF ShdrOffsets
    <3>2. so \in Nat /\ k \in Nat /\ so + k <= Len(b)
      <4>1. Len(h.shdrs) \in Nat
        BY <1>j, FileFacts
      <4> QED  BY <4>1, <1>10, <2>z
    <3> HIDE DEF so, k
    <3> QED  BY <3>1, <3>2, <1>b
  <2>5. \A o \in HeaderOffsets(h) : o \in Int /\ o < Len(h.raw)
    <3> DEFINE z == EhdrSize(h.class)
               m == Len(h.raw)
    <3>1. HeaderOffsets(h) = 0..(z - 1)
      BY DEF HeaderOffsets
    <3>2. z = 64
      BY <1>5, <2>z
    <3>3. Len(h.header) = z /\ Len(h.header) <= m
      BY <1>j DEF Sized
    <3>4. m \in Nat
      BY <1>j, FileFacts
    <3> HIDE DEF z, m
    <3>5. \A o \in 0..(z - 1) : o \in Int /\ o < m
      BY ONLY <3>2, <3>3, <3>4
    <3> QED  BY <3>1, <3>5 DEF m
  <2>6. PhdrOffsets(h) \cap ShdrOffsets(h) = {} /\ HeaderOffsets(h) \cap PhdrOffsets(h) = {}
    <3>1. Len(h.raw) \in Int /\ Len(b) \in Int /\ Len(b) <= Len(h.raw)
      BY <1>5, <1>b
    <3> QED  BY ONLY <2>3, <2>4, <2>5, <3>1
  <2>7. HeaderOffsets(h) \cap ShdrOffsets(h) = {}
    BY <1>9, <1>r
  <2> QED  BY <2>1, <2>2, <2>6, <2>7 DEF SoundLayout
<1>13. D = off..(off + Len(bs) - 1) \cup FieldOffsets(64, "e_phoff") \cup FieldOffsets(64, "e_phnum")
  OBVIOUS
<1> HIDE DEF D, D0, bs, n
<1> QED  BY <1>4, <1>5, <1>6, <1>7, <1>9, <1>10, <1>11, <1>12, <1>13 DEF Ready, n, bs

\* A table written at the end of the buffer is the new end.
LEMMA TableAtEnd ==
  ASSUME NEW buf \in Seq(Byte), NEW sz, NEW items, Entries(items, sz)
  PROVE  Len(writeTable(buf, Len(buf), items, sz)) = Len(buf) + Len(items) * sz
<1> DEFINE fl == Flatten(items, sz)
           m  == Len(buf)
<1>0. items \in Seq(Seq(Byte)) /\ sz \in Nat /\ sz > 0 /\ \A i \in 1..Len(items) : Len(items[i]) = sz
  BY DEF Entries
<1>1. fl \in Seq(Byte) /\ Len(fl) = Len(items) * sz
  BY <1>0, FlattenShape
<1>2. m \in Nat
  OBVIOUS
<1>3. CASE items = << >>
  <2>1. Len(items) * sz = 0
    BY <1>3, <1>0
  <2> QED  BY <1>3, <2>1, <1>2 DEF writeTable
<1>4. CASE items # << >>
  <2> HIDE DEF fl
  <2>1. writeTable(buf, m, items, sz) = writeStruct(buf, m, fl)
    BY <1>4 DEF writeTable, fl
  <2>2. Len(writeStruct(buf, m, fl)) = IF m + Len(fl) > Len(buf) THEN m + Len(fl) ELSE Len(buf)
    <3> HIDE DEF m
    <3> QED  BY <1>1, <1>2, WriteStructShape
  <2>3. Len(fl) \in Nat
    BY <1>1
  <2>4. Len(writeStruct(buf, m, fl)) = m + Len(fl)
    BY ONLY <2>2, <2>3, <1>2
  <2> QED  BY <2>1, <2>4, <1>1
<1> QED  BY <1>3, <1>4

\* serialize() of a file whose program headers come last ends with them.
LEMMA SerializeLength ==
  ASSUME NEW f \in FileType, Sized(f), H(f, "e_phoff") = Len(f.raw), H(f, "e_shoff") \in Nat,
         H(f, "e_shoff") + Len(f.shdrs) * ShdrSize(f.class) <= Len(f.raw)
  PROVE  Len(serialize(f)) = Len(f.raw) + Len(f.phdrs) * PhdrSize(f.class)
<1> DEFINE hd == f.header
           rw == f.raw
           ps == PhdrSize(f.class)
           ss == ShdrSize(f.class)
           so == H(f, "e_shoff")
           b1 == writeStruct(rw, 0, hd)
           b2 == writeTable(b1, Len(rw), f.phdrs, ps)
           b3 == writeTable(b2, so, f.shdrs, ss)
<1>d. serialize(f) = b3
  BY DEF serialize
<1>0. /\ hd \in Seq(Byte) /\ rw \in Seq(Byte) /\ Len(hd) <= Len(rw) /\ Len(rw) \in Nat
      /\ so \in Nat /\ so + Len(f.shdrs) * ss <= Len(rw)
      /\ Len(f.phdrs) \in Nat
  BY FileFacts
<1>e. Entries(f.phdrs, ps) /\ Entries(f.shdrs, ss) /\ ps \in Nat
  <2> DEFINE c == f.class
  <2>1. c \in Class
    BY FileFacts
  <2> HIDE DEF c
  <2>2. PhdrSize(c) \in Nat /\ PhdrSize(c) > 0 /\ ShdrSize(c) \in Nat /\ ShdrSize(c) > 0
    BY ONLY <2>1 DEF Class, PhdrSize, ShdrSize
  <2>3. f.phdrs \in Seq(Seq(Byte)) /\ f.shdrs \in Seq(Seq(Byte))
    BY FileFacts
  <2>4. /\ \A i \in 1..Len(f.phdrs) : Len(f.phdrs[i]) = PhdrSize(c)
        /\ \A i \in 1..Len(f.shdrs) : Len(f.shdrs[i]) = ShdrSize(c)
    BY DEF Sized, c
  <2> QED  BY <2>2, <2>3, <2>4 DEF Entries, c
<1> HIDE DEF hd, rw, ps, ss, so
<1>1. b1 \in Seq(Byte) /\ Len(b1) = Len(rw)
  BY <1>0, HeaderWritten
<1> HIDE DEF b1
<1>2. Written(b2, b1, Len(rw), f.phdrs, ps)
  BY <1>0, <1>1, <1>e, WriteTableShape
<1>3. Len(b2) = Len(rw) + Len(f.phdrs) * ps
  <2>1. Len(writeTable(b1, Len(b1), f.phdrs, ps)) = Len(b1) + Len(f.phdrs) * ps
    BY <1>1, <1>e, TableAtEnd
  <2> QED  BY <2>1, <1>1
<1>4. b2 \in Seq(Byte) /\ Len(b2) >= Len(rw) /\ Len(b2) \in Nat
  BY <1>1, <1>2 DEF Written
<1> HIDE DEF b2
<1>5. Written(b3, b2, so, f.shdrs, ss)
  BY <1>0, <1>4, <1>e, WriteTableShape
<1> DEFINE k == Len(f.shdrs) * ss
<1>6. so + k <= Len(rw)
  BY <1>0
<1>7. so + k <= Len(b2) => Len(b3) = Len(b2)
  BY <1>5 DEF Written
<1>8. k \in Nat
  <2>1. Len(f.shdrs) \in Nat /\ ss \in Nat
    BY <1>e, FileFacts DEF Entries
  <2> QED  BY <2>1
<1> HIDE DEF k, b3
<1>9. so + k <= Len(b2)
  BY ONLY <1>0, <1>4, <1>6, <1>8
<1> QED  BY <1>d, <1>3, <1>7, <1>9 DEF rw, ps

\* What the output of a job is.
LEMMA JobOutput ==
  ASSUME NEW b \in Seq(Byte), NEW f, NEW entry, NEW tr, NEW off, NEW g, NEW h,
         Job(b, f, entry, tr, off, g, h), Regular(f)
  PROVE  \E dst : Output(serialize(h), b, f, tr, off, g, h, dst)
<1> DEFINE out == serialize(h)
           v   == parseAny(out).value
           bs  == tr.entryPatchBytes
           D   == off..(off + Len(bs) - 1) \cup FieldOffsets(64, "e_phoff") \cup FieldOffsets(64, "e_phnum")
           n   == Len(f.phdrs)
<1>r. Ready(b, f, off, bs, g, h) /\ Len(h.raw) = Len(b) + Len(tr.blob) /\ Len(h.phdrs) = n + 1
  BY JobReady
<1>1. /\ Coherent(h) /\ SoundLayout(h) /\ h.class = 64 /\ h.data = "Big" /\ Kept(h, b, D)
      /\ H(h, "e_phoff") = Len(h.raw) /\ H(h, "e_phnum") = n + 1
      /\ HeaderOffsets(h) = HeaderOffsets(f) /\ ShdrOffsets(h) = ShdrOffsets(f)
      /\ h.header = g.header /\ h.phdrs = g.phdrs /\ h.shdrs = f.shdrs
      /\ H(h, "e_shoff") + Len(h.shdrs) * ShdrSize(64) <= Len(b)
  BY <1>r DEF Ready
<1>2. h \in FileType /\ Sized(h)
  BY DEF Job
<1>3. /\ parseAny(out).ok
      /\ v.class = 64 /\ v.data = "Big" /\ v.header = h.header
      /\ v.phdrs = h.phdrs /\ v.shdrs = h.shdrs /\ v.raw = out
  BY <1>1, <1>2, Reparse
<1>4. /\ out \in Seq(Byte)
      /\ \A o \in 0..(Len(b) - 1) : o \notin D => out[o + 1] = b[o + 1]
  <2> HIDE DEF D
  <2> QED  BY <1>1, <1>2, SerializeKeeps
<1>5. v \in FileType /\ Sized(v) /\ ps3File(out) = Ok(v)
  <2> HIDE DEF out
  <2>1. v \in FileType /\ Sized(v)
    BY <1>3, <1>4, ParseEstablishes
  <2>2. parseAny(out) = Ok(v)
    BY <1>3, <1>4, ParseMeans
  <2> QED  BY <2>1, <1>3 DEF ps3File, AndThen
<1>6. H(v, "e_phoff") = Len(b) + Len(tr.blob) /\ H(v, "e_phnum") = n + 1
  <2>1. \A name : H(v, name) = H(h, name)
    <3> HIDE DEF v, out
    <3> QED  BY <1>1, <1>3 DEF H
  <2> QED  BY <2>1, <1>1, <1>r
<1>7. Len(out) = Len(b) + Len(tr.blob) + (n + 1) * 56
  <2>1. H(h, "e_shoff") \in Nat
    BY <1>2, HeaderField DEF HeaderNames
  <2>2. Len(b) <= Len(h.raw) /\ Len(b) \in Nat /\ Len(h.raw) \in Nat
    BY <1>1, <1>2, FileFacts DEF Kept, KeptRaw
  <2>3. H(h, "e_shoff") + Len(h.shdrs) * ShdrSize(h.class) <= Len(h.raw)
    <3> DEFINE k == H(h, "e_shoff") + Len(h.shdrs) * ShdrSize(64)
    <3>1. k \in Nat
      <4>1. Len(h.shdrs) \in Nat /\ ShdrSize(64) = 64
        BY <1>2, FileFacts DEF ShdrSize
      <4> QED  BY <4>1, <2>1
    <3>2. k <= Len(b)
      BY <1>1
    <3> HIDE DEF k
    <3>3. k <= Len(h.raw)
      BY ONLY <3>1, <3>2, <2>2
    <3> QED  BY <3>3, <1>1 DEF k
  <2>4. Len(out) = Len(h.raw) + Len(h.phdrs) * PhdrSize(h.class)
    BY <1>1, <1>2, <2>1, <2>3, SerializeLength
  <2>5. PhdrSize(h.class) = 56
    BY <1>1 DEF PhdrSize
  <2> QED  BY <2>4, <2>5, <1>r
<1>8. \A o \in 0..(Len(h.raw) - 1) : o \notin HeaderOffsets(f) \cup ShdrOffsets(f) => out[o + 1] = h.raw[o + 1]
  <2>1. \A o \in 0..(Len(h.raw) - 1) :
          o \notin HeaderOffsets(h) \cup PhdrOffsets(h) \cup ShdrOffsets(h) => out[o + 1] = h.raw[o + 1]
    BY <1>2, SerializeShape
  <2>2. \A o \in 0..(Len(h.raw) - 1) : o \notin PhdrOffsets(h)
    <3> DEFINE m == Len(h.raw)
               k == m + Len(h.phdrs) * PhdrSize(h.class) - 1
    <3>1. PhdrOffsets(h) = m..k
      BY <1>1 DEF PhdrOffsets
    <3>2. m \in Nat
      BY <1>2, FileFacts
    <3> HIDE DEF m, k
    <3>3. \A o \in 0..(m - 1) : o \notin m..k
      BY ONLY <3>2
    <3> QED  BY <3>1, <3>3 DEF m
  <2> HIDE DEF out
  <2> QED  BY <2>1, <2>2, <1>1
<1> HIDE DEF v, out, n
<1>9. Output(out, b, f, tr, off, g, h, v)
  BY <1>1, <1>3, <1>4, <1>5, <1>6, <1>7, <1>8 DEF Output, n
<1> QED  BY <1>9 DEF out

-----------------------------------------------------------------------------
(* The new segment, as a reader of the output finds it. *)

\* dst has the segments of f and one more, of size bytes at address T, which are
\* in the file where f ended.
Added(dst, f, T, size) ==
  /\ Len(f.phdrs) \in Nat /\ Len(dst.phdrs) = Len(f.phdrs) + 1
  /\ \A i \in 1..Len(f.phdrs) : dst.phdrs[i] = f.phdrs[i]
  /\ dst.class = f.class /\ dst.data = f.data
  /\ P(dst, Len(dst.phdrs), "p_type") = PT_LOAD
  /\ P(dst, Len(dst.phdrs), "p_offset") = Len(f.raw)
  /\ P(dst, Len(dst.phdrs), "p_vaddr") = T
  /\ P(dst, Len(dst.phdrs), "p_filesz") = size
  /\ P(dst, Len(dst.phdrs), "p_memsz") = size

\* After addLoadSegment the table is the old one and one more entry.
LEMMA SegmentAdded ==
  ASSUME NEW f \in FileType, Sized(f), NEW g \in FileType, NEW dst,
         NEW T \in Nat, NEW data \in Seq(Byte), NEW fl \in Nat, NEW al \in Nat,
         T < U32, Len(f.raw) + Len(data) < U32, Extended(g, f, T, data, fl, al),
         dst.phdrs = g.phdrs, dst.class = g.class, dst.data = g.data
  PROVE  Added(dst, f, T, Len(data))
<1> DEFINE c  == f.class
           e  == f.data
           sz == Len(data)
           m  == Len(f.raw)
           ps == f.phdrs
           pt == dst.phdrs
           ph == LoadPhdr(f, T, sz, fl, al)
<1>0. /\ c \in Class /\ sz \in Nat /\ m \in Nat /\ m + sz < U32
      /\ ps \in Seq(Seq(Byte)) /\ pt \in Seq(Seq(Byte)) /\ pt = Append(ps, ph)
      /\ dst.class = c /\ dst.data = e
  BY SMTT(30), FileFacts DEF Extended, FileType
<1>1. Len(pt) = Len(ps) + 1 /\ pt[Len(ps) + 1] = ph /\ Len(ps) \in Nat /\ \A i \in 1..Len(ps) : pt[i] = ps[i]
  <2> HIDE DEF ps, pt, ph
  <2> QED  BY ONLY <1>0
<1>2. pt[Len(pt)] = ph
  BY <1>1
<1>3. \A name : P(dst, Len(pt), name) = LoadField(ph, Phdr(c)[name], e)
  BY <1>0, <1>2 DEF P
<1>4. Describes(ph, c, e, m, T, sz, fl, al)
  <2>1. sz \in Nat
    BY <1>0
  <2> HIDE DEF sz
  <2> QED  BY <2>1, LoadPhdrShape
<1> HIDE DEF c, e, sz, m, ps, pt, ph
<1>5. /\ LoadField(ph, Phdr(c)["p_type"], e) = Cast(PT_LOAD, Phdr(c)["p_type"][2])
      /\ LoadField(ph, Phdr(c)["p_offset"], e) = Cast(m, Phdr(c)["p_offset"][2])
      /\ LoadField(ph, Phdr(c)["p_vaddr"], e) = Cast(T, Phdr(c)["p_vaddr"][2])
      /\ LoadField(ph, Phdr(c)["p_filesz"], e) = Cast(sz, Phdr(c)["p_filesz"][2])
      /\ LoadField(ph, Phdr(c)["p_memsz"], e) = Cast(sz, Phdr(c)["p_memsz"][2])
  BY ONLY <1>4 DEF Describes
<1>6. \A name \in PhdrNames, v \in Nat : v < U32 => Cast(v, Phdr(c)[name][2]) = v
  BY ONLY <1>0, PhdrLayout, CastIdentity
<1>7. PT_LOAD \in Nat /\ PT_LOAD < U32 /\ m < U32 /\ sz < U32
  <2>1. U32 \in Nat /\ 1 < U32
    BY Moduli
  <2> QED  BY ONLY <1>0, <2>1 DEF PT_LOAD
<1>8. {"p_type", "p_offset", "p_vaddr", "p_filesz", "p_memsz"} \subseteq PhdrNames
  BY DEF PhdrNames
<1>9. /\ P(dst, Len(pt), "p_type") = PT_LOAD /\ P(dst, Len(pt), "p_offset") = m
      /\ P(dst, Len(pt), "p_vaddr") = T /\ P(dst, Len(pt), "p_filesz") = sz /\ P(dst, Len(pt), "p_memsz") = sz
  BY <1>0, <1>3, <1>5, <1>6, <1>7, <1>8
<1> QED  BY <1>0, <1>1, <1>9 DEF Added, c, e, sz, m, ps, pt

\* A read of a region inside the file returns its bytes.
LEMMA ReadInside ==
  ASSUME NEW f \in FileType, Sized(f), NEW o \in Nat, NEW n \in Nat, n < U16, o + n <= Len(f.raw)
  PROVE  readAt(f, o, n) = Ok(Slice(f.raw, o, n))
<1> DEFINE m == Len(f.raw)
<1>0. m \in Nat
  BY FileFacts
<1>1. PICK k \in Nat : k = 1
  OBVIOUS
<1>2. k < U16 /\ o + n * k <= m
  <2>1. 1 < U16 /\ n * 1 = n
    BY Moduli
  <2> QED  BY <1>1, <2>1
<1>3. regionFits(m, o, n, k)
  <2> HIDE DEF m
  <2> QED  BY <1>0, <1>2, RegionFitsWhen
<1> QED  BY <1>1, <1>3 DEF readAt

\* The region of a buffer that holds the bytes d is d.
LEMMA SliceHolds ==
  ASSUME NEW s \in Seq(Byte), NEW o \in Nat, NEW d \in Seq(Byte), Holds(s, o, d)
  PROVE  Slice(s, o, Len(d)) = d
<1> DEFINE n == Len(d)
           t == Slice(s, o, n)
<1>1. n \in Nat /\ o + n <= Len(s) /\ \A i \in 1..n : s[o + i] = d[i]
  BY DEF Holds
<1>2. t \in Seq(Byte) /\ Len(t) = n /\ \A i \in 1..n : t[i] = s[o + i]
  <2> HIDE DEF n
  <2> QED  BY <1>1, SliceShape
<1> HIDE DEF t
<1>3. Len(t) = Len(d) /\ \A i \in 1..Len(t) : t[i] = d[i]
  BY <1>1, <1>2
<1>4. t = d
  BY ONLY <1>2, <1>3, d \in Seq(Byte), SameBytes
<1> QED  BY <1>4 DEF t

\* What the tables of an output are.
LEMMA OutputAdded ==
  ASSUME NEW b \in Seq(Byte), NEW f, NEW entry, NEW tr, NEW off, NEW g, NEW h, NEW out, NEW dst,
         Job(b, f, entry, tr, off, g, h), Regular(f), Output(out, b, f, tr, off, g, h, dst)
  PROVE  Added(dst, f, TrampolineAddr(f), Len(tr.blob))
<1> DEFINE T    == TrampolineAddr(f)
           data == tr.blob
           fl   == PF_R_X
           al   == SEGMENT_ALIGN
<1>1. /\ f \in FileType /\ Sized(f) /\ f.raw = b /\ f.class = 64 /\ f.data = "Big"
      /\ g \in FileType /\ Extended(g, f, T, data, fl, al)
      /\ Built(f, entry, T, tr, off)
  BY DEF Job, Loaded
<1>2. T \in Nat /\ T < U32
  BY <1>1, AddressFound
<1>3. data \in Seq(Byte) /\ Len(data) < U16
  BY <1>1 DEF Built, Assembles
<1>4. Len(f.raw) + Len(data) < U32
  <2>1. Len(f.raw) + U16 <= U32 /\ U16 \in Nat /\ U32 \in Nat /\ Len(f.raw) \in Nat /\ Len(data) \in Nat
    BY <1>1, <1>3, Moduli DEF Regular
  <2>2. \A x, y, u, v \in Nat : x + u <= v /\ y < u => x + y < v
    OBVIOUS
  <2> QED  BY ONLY <2>1, <2>2, <1>3
<1>5. fl \in Nat /\ al \in Nat
  BY Moduli DEF PF_R_X, SEGMENT_ALIGN
<1>6. dst.phdrs = g.phdrs /\ dst.class = g.class /\ dst.data = g.data
  BY <1>1 DEF Output, Extended
<1> HIDE DEF T, data, fl, al
<1>7. Added(dst, f, T, Len(data))
  BY <1>1, <1>2, <1>3, <1>4, <1>5, <1>6, SegmentAdded
<1> QED  BY <1>7 DEF T, data

\* An address of the input keeps its place.
LEMMA OutputTranslates ==
  ASSUME NEW b \in Seq(Byte), NEW f, NEW entry, NEW tr, NEW off, NEW g, NEW h, NEW out, NEW dst,
         Job(b, f, entry, tr, off, g, h), Regular(f), Output(out, b, f, tr, off, g, h, dst),
         NEW a \in Nat, vaddrToFileOffset(f, a).ok
  PROVE  vaddrToFileOffset(dst, a) = vaddrToFileOffset(f, a)
<1>1. /\ f \in FileType /\ Sized(f) /\ f.raw = b
      /\ dst \in FileType /\ Sized(dst) /\ dst.raw = out
  BY DEF Job, Loaded, Output
<1>2. Len(f.phdrs) \in Nat /\ Len(dst.phdrs) \in Nat /\ Len(f.raw) \in Nat /\ Len(dst.raw) \in Nat
  BY <1>1, FileFacts
<1>3. /\ Len(dst.phdrs) >= Len(f.phdrs) /\ dst.class = f.class /\ dst.data = f.data
      /\ \A i \in 1..Len(f.phdrs) : dst.phdrs[i] = f.phdrs[i]
  BY <1>2, OutputAdded DEF Added
<1>4. Len(dst.raw) >= Len(f.raw)
  <2>1. Len(dst.raw) = Len(f.raw) + Len(tr.blob) + (Len(f.phdrs) + 1) * 56
    BY <1>1 DEF Output
  <2>2. Len(tr.blob) \in Nat
    BY DEF Job, Built, Assembles
  <2> DEFINE x == Len(f.raw)
             y == Len(tr.blob)
             z == (Len(f.phdrs) + 1) * 56
  <2>3. x \in Nat /\ y \in Nat /\ z \in Nat /\ Len(dst.raw) = x + y + z
    BY ONLY <2>1, <2>2, <1>2
  <2> HIDE DEF x, y, z
  <2>4. Len(dst.raw) >= x
    BY ONLY <2>3
  <2> QED  BY <2>4 DEF x
<1>5. \A i \in Hits(f, a) : OffsetIn(f, i, a) \in Nat
  BY <1>1, OffsetType
<1> QED  BY <1>2, <1>3, <1>4, <1>5, TranslationKept

\* The blob is where the input ended.
LEMMA OutputBlob ==
  ASSUME NEW b \in Seq(Byte), NEW f, NEW entry, NEW tr, NEW off, NEW g, NEW h, NEW out, NEW dst,
         Job(b, f, entry, tr, off, g, h), Regular(f), Output(out, b, f, tr, off, g, h, dst)
  PROVE  Holds(out, Len(b), tr.blob)
<1> DEFINE T    == TrampolineAddr(f)
           data == tr.blob
           bs   == tr.entryPatchBytes
           hr   == h.raw
           gr   == g.raw
           m    == Len(b)
<1>1. /\ f \in FileType /\ Sized(f) /\ f.raw = b /\ Built(f, entry, T, tr, off)
      /\ Extended(g, f, T, data, PF_R_X, SEGMENT_ALIGN) /\ PatchedAt(h, g, off, bs)
  BY DEF Job, Loaded
<1>2. /\ m \in Nat /\ data \in Seq(Byte) /\ Len(data) \in Nat /\ off \in Nat
      /\ bs = JumpIn(entry, T) /\ off + Len(JumpIn(entry, T)) <= Len(b)
  BY <1>1 DEF Built, Assembles
<1>s. Len(bs) \in Nat /\ off + Len(bs) <= m
  <2>1. entry.codeAddress \in Nat
    BY DEF Job, DescriptorAt
  <2>2. T \in Nat
    BY <1>1, AddressFound
  <2> HIDE DEF T
  <2>3. JumpIn(entry, T) \in Seq(Byte)
    BY <2>1, <2>2, Jumps
  <2> QED  BY <2>3, <1>2
<1>3. /\ gr = b \o data /\ Len(gr) = m + Len(data) /\ Len(hr) = Len(gr)
      /\ \A i \in 1..Len(gr) : i \notin (off + 1)..(off + Len(bs)) => hr[i] = gr[i]
  BY <1>1 DEF Extended, PatchedAt
<1>4. \A i \in 1..Len(data) : gr[m + i] = data[i]
  BY <1>2, <1>3, Concat
<1>5. /\ Len(out) = m + Len(data) + (Len(f.phdrs) + 1) * 56
      /\ \A o \in 0..(Len(hr) - 1) : o \notin HeaderOffsets(f) \cup ShdrOffsets(f) => out[o + 1] = hr[o + 1]
  BY DEF Output
<1>6. \A o \in HeaderOffsets(f) \cup ShdrOffsets(f) : o \in Int /\ o < m
  <2>1. ASSUME NEW o \in HeaderOffsets(f) PROVE o \in Int /\ o < m
    <3>1. o \in 0..(Len(f.header) - 1) /\ Len(f.header) <= m
      BY <1>1 DEF HeaderOffsets, Sized
    <3>2. Len(f.header) \in Nat
      BY <1>1, FileFacts
    <3> QED  BY <3>1, <3>2, <1>2
  <2>2. ASSUME NEW o \in ShdrOffsets(f) PROVE o \in Int /\ o < m
    <3> DEFINE so == H(f, "e_shoff")
               k  == Len(f.shdrs) * ShdrSize(f.class)
    <3>1. o \in so..(so + k - 1)
      BY DEF ShdrOffsets
    <3>2. so \in Nat /\ so + k <= m
      BY DEF Job, Loaded, Kept, KeptShdrs, TableOf
    <3>3. k \in Nat
      <4>1. Len(f.shdrs) \in Nat
        BY <1>1, FileFacts
      <4>2. ShdrSize(f.class) \in Nat
        BY DEF ShdrSize
      <4> QED  BY <4>1, <4>2
    <3> HIDE DEF so, k
    <3> QED  BY <3>1, <3>2, <3>3, <1>2
  <2> QED  BY <2>1, <2>2
<1> HIDE DEF T, data, bs, hr, gr, m
<1>7. ASSUME NEW i \in 1..Len(data) PROVE out[m + i] = data[i]
  <2>1. m + i - 1 \in 0..(Len(hr) - 1) /\ m + i \in 1..Len(gr) /\ m + i \notin (off + 1)..(off + Len(bs))
        /\ (m + i - 1) + 1 = m + i /\ m + i - 1 >= m
    BY ONLY <1>2, <1>3, <1>s, <1>7
  <2>2. m + i - 1 \notin HeaderOffsets(f) \cup ShdrOffsets(f)
    BY <2>1, <1>2, <1>6
  <2>3. out[m + i] = hr[m + i]
    <3>1. out[(m + i - 1) + 1] = hr[(m + i - 1) + 1]
      BY <1>5, <2>1, <2>2
    <3> QED  BY <3>1, <2>1
  <2>4. hr[m + i] = gr[m + i]
    BY <2>1, <1>3
  <2> QED  BY <2>3, <2>4, <1>4
<1>8. m + Len(data) <= Len(out)
  <2>1. Len(f.phdrs) \in Nat
    BY <1>1, FileFacts
  <2> QED  BY <2>1, <1>5, <1>2
<1> QED  BY <1>7, <1>8 DEF Holds, m, data

\* 64 KB are more than the fixed part of the blob.
LEMMA SegmentRoom ==
  U16 \in Nat /\ U16 > 56
<1>1. blobSize(5, 5, MaxPath) < U16 /\ PrefixCount \in Nat /\ PrefixCount >= 2 /\ MaxPath \in Nat
  BY Ps3ElfAssumption
<1> DEFINE N == 8 + (PrefixCount + 5 + 5) * 4 + MaxPath + 1
<1>2. N \in Nat /\ N > 56
  BY <1>1
<1>3. N + ((-N) % 4) < U16
  BY <1>1 DEF blobSize, MagicSize
<1> HIDE DEF N
<1>4. N + ((-N) % 4) \in Nat /\ N + ((-N) % 4) >= N
  BY ONLY <1>2
<1>5. U16 \in Nat
  BY Moduli
<1> QED  BY ONLY <1>2, <1>3, <1>4, <1>5

\* The magic is a buffer of eight bytes.
LEMMA MagicShape ==
  TRAMPOLINE_MAGIC \in Seq(Byte) /\ Len(TRAMPOLINE_MAGIC) = 8
<1>1. PICK n \in Nat : n = 8
  OBVIOUS
<1>2. TRAMPOLINE_MAGIC \in [1..n -> Byte]
  BY <1>1, Ps3ElfAssumption DEF MagicSize
<1> QED  BY <1>1, <1>2, BytesOf

\* The header fields but e_phoff and e_phnum are those of the input.
LEMMA OutputHeader ==
  ASSUME NEW b, NEW f, NEW entry, NEW tr, NEW off, NEW g, NEW h, NEW out, NEW dst,
         Job(b, f, entry, tr, off, g, h), Output(out, b, f, tr, off, g, h, dst),
         NEW name \in HeaderNames, name \notin {"e_phoff", "e_phnum"}
  PROVE  H(dst, name) = H(f, name)
<1>1. H(g, name) = H(f, name)
  BY DEF Job, Reheaded
<1>2. dst.header = g.header /\ dst.class = g.class /\ dst.data = g.data
  BY DEF Output, Job, Loaded, Extended
<1> QED  BY <1>1, <1>2 DEF H

\* The new segment begins with the magic.
LEMMA OutputPatched ==
  ASSUME NEW b \in Seq(Byte), NEW f, NEW entry, NEW tr, NEW off, NEW g, NEW h, NEW out, NEW dst,
         Job(b, f, entry, tr, off, g, h), Regular(f), Output(out, b, f, tr, off, g, h, dst)
  PROVE  Len(dst.phdrs) \in Trampolines(dst)
<1> DEFINE n  == Len(dst.phdrs)
           m  == Len(b)
           bl == tr.blob
           mg == TRAMPOLINE_MAGIC
<1>1. /\ n \in 1..n /\ P(dst, n, "p_type") = PT_LOAD /\ P(dst, n, "p_offset") = m
      /\ P(dst, n, "p_filesz") = Len(bl)
  <2>1. f.raw = b
    BY DEF Job, Loaded
  <2> QED  BY <2>1, OutputAdded DEF Added
<1>2. bl \in Seq(Byte) /\ Holds(bl, 0, mg)
  BY DEF Job, Built, Assembles
<1>3. Holds(out, m, bl)
  BY OutputBlob
<1>4. mg \in Seq(Byte) /\ Len(mg) = 8
  BY MagicShape
<1>o. out \in Seq(Byte) /\ dst \in FileType /\ Sized(dst) /\ dst.raw = out
  BY DEF Output
<1>5. /\ out \in Seq(Byte) /\ dst \in FileType /\ Sized(dst) /\ dst.raw = out /\ m \in Nat /\ Len(out) \in Nat
  BY <1>o
<1> HIDE DEF m, bl, mg
<1>6. Len(bl) \in Nat /\ Len(bl) >= 8
  BY <1>2, <1>4 DEF Holds
<1>7. Holds(out, m, mg)
  <2>1. m + 8 <= Len(out)
    BY ONLY <1>3, <1>5, <1>6 DEF Holds
  <2>2. ASSUME NEW i \in 1..8 PROVE out[m + i] = mg[i]
    <3>1. i \in 1..Len(bl) /\ 0 + i = i
      BY ONLY <1>6, <2>2
    <3>2. bl[i] = mg[i]
      BY <1>2, <1>4, <3>1 DEF Holds
    <3> QED  BY <3>1, <3>2, <1>3 DEF Holds
  <2> QED  BY <2>1, <2>2, <1>4 DEF Holds
<1>8. Slice(out, m, 8) = mg
  BY <1>4, <1>5, <1>7, SliceHolds
<1>9. readAt(dst, m, 8) = Ok(mg)
  <2>1. PICK k \in Nat : k = 8
    OBVIOUS
  <2>2. k < U16 /\ m + k <= Len(out)
    BY <2>1, <1>7, <1>4, SegmentRoom DEF Holds
  <2>3. readAt(dst, m, k) = Ok(Slice(out, m, k))
    BY <2>2, <1>5, ReadInside
  <2> QED  BY <2>1, <2>3, <1>8
<1> QED  BY <1>1, <1>6, <1>9 DEF Trampolines, LoadSegments, MagicSize, mg

-----------------------------------------------------------------------------
(* The entry of the output. *)

\* A descriptor inside the file is read.
LEMMA EntryRead ==
  ASSUME NEW f \in FileType, Sized(f), NEW at \in Nat, at + 8 <= Len(f.raw),
         H(f, "e_machine") = EM_PPC64, vaddrToFileOffset(f, H(f, "e_entry")) = Ok(at)
  PROVE  resolveEntryDescriptor(f) =
           Ok([codeAddress |-> readBigEndian32(Slice(f.raw, at, 8), 0),
               tocValue    |-> readBigEndian32(Slice(f.raw, at, 8), 4)])
<1> DEFINE t == vaddrToFileOffset(f, H(f, "e_entry"))
           d == Slice(f.raw, at, 8)
           r == readAt(f, at, 8)
<1>1. r = Ok(d)
  <2>1. PICK k \in Nat : k = 8
    OBVIOUS
  <2>2. k < U16 /\ at + k <= Len(f.raw)
    BY <2>1, SegmentRoom
  <2>3. readAt(f, at, k) = Ok(Slice(f.raw, at, k))
    BY <2>2, ReadInside
  <2> QED  BY <2>1, <2>3
<1>2. resolveEntryDescriptor(f) =
        AndThen(Reported(t, "OffsetOutOfBounds"), LAMBDA x :
        AndThen(Reported(readAt(f, x, 8), "TruncatedFile"), LAMBDA y :
        Ok([codeAddress |-> readBigEndian32(y, 0), tocValue |-> readBigEndian32(y, 4)])))
  BY DEF resolveEntryDescriptor
<1>t. t = Ok(at)
  OBVIOUS
<1>3. resolveEntryDescriptor(f) =
        AndThen(Reported(r, "TruncatedFile"), LAMBDA y :
          Ok([codeAddress |-> readBigEndian32(y, 0), tocValue |-> readBigEndian32(y, 4)]))
  <2> HIDE DEF t
  <2> QED  BY ONLY <1>2, <1>t DEF AndThen, Reported, Ok
<1> HIDE DEF r, d
<1>4. resolveEntryDescriptor(f) = Ok([codeAddress |-> readBigEndian32(d, 0), tocValue |-> readBigEndian32(d, 4)])
  BY <1>1, <1>3 DEF AndThen, Reported, Ok
<1> QED  BY <1>4 DEF d

\* The output has a descriptor where the input has one.
LEMMA OutputEntry ==
  ASSUME NEW b \in Seq(Byte), NEW f, NEW entry, NEW tr, NEW off, NEW g, NEW h, NEW out, NEW dst,
         Job(b, f, entry, tr, off, g, h), Regular(f), Output(out, b, f, tr, off, g, h, dst),
         NEW at, NEW d, DescriptorAt(f, entry, at, d)
  PROVE  resolveEntryDescriptor(dst) =
           Ok([codeAddress |-> readBigEndian32(Slice(out, at, 8), 0),
               tocValue    |-> readBigEndian32(Slice(out, at, 8), 4)])
<1> DEFINE a == H(f, "e_entry")
<1>1. /\ H(f, "e_machine") = EM_PPC64 /\ at \in Nat /\ at + 8 <= Len(f.raw)
      /\ vaddrToFileOffset(f, a) = Ok(at)
  BY DEF DescriptorAt
<1>2. f \in FileType /\ Sized(f) /\ dst \in FileType /\ Sized(dst) /\ dst.raw = out /\ f.raw = b
  BY DEF Job, Loaded, Output
<1>3. H(dst, "e_machine") = H(f, "e_machine") /\ H(dst, "e_entry") = a
  BY OutputHeader DEF HeaderNames
<1>4. a \in Nat
  BY <1>2, HeaderField DEF HeaderNames
<1>5. vaddrToFileOffset(dst, a) = Ok(at)
  <2>1. vaddrToFileOffset(f, a).ok
    BY <1>1 DEF Ok
  <2> HIDE DEF a
  <2> QED  BY <2>1, <1>1, <1>4, OutputTranslates
<1>6. at + 8 <= Len(out)
  <2> DEFINE m == Len(b)
             k == Len(tr.blob)
             n == Len(f.phdrs)
  <2>1. m \in Nat /\ k \in Nat /\ n \in Nat
    BY <1>2, FileFacts DEF Job, Built, Assembles
  <2>2. Len(out) = m + k + (n + 1) * 56
    BY DEF Output
  <2>3. at + 8 <= m
    BY <1>1, <1>2
  <2> HIDE DEF m, k, n
  <2> QED  BY ONLY <2>1, <2>2, <2>3, <1>1
<1> HIDE DEF a
<1> QED  BY <1>1, <1>2, <1>3, <1>5, <1>6, EntryRead

\* Where the window and the descriptor of a job are.
LEMMA JobPlaces ==
  ASSUME NEW b, NEW f, NEW entry, NEW tr, NEW off, NEW g, NEW h, Job(b, f, entry, tr, off, g, h),
         NEW at, NEW d, DescriptorAt(f, entry, at, d)
  PROVE  /\ Window(f) = off..(off + Len(tr.entryPatchBytes) - 1)
         /\ DescriptorOffsets(f) = at..(at + 7)
<1>1. /\ resolveEntryDescriptor(f) = Ok(entry)
      /\ vaddrToFileOffset(f, entry.codeAddress) = Ok(off)
      /\ tr.entryPatchBytes = JumpIn(entry, TrampolineAddr(f))
      /\ vaddrToFileOffset(f, H(f, "e_entry")) = Ok(at)
  BY DEF Job, Built, DescriptorAt
<1>2. /\ resolveEntryDescriptor(f).value = entry
      /\ vaddrToFileOffset(f, entry.codeAddress).value = off
      /\ vaddrToFileOffset(f, H(f, "e_entry")).value = at
  BY <1>1 DEF Ok
<1>3. Window(f) = off..(off + Len(tr.entryPatchBytes) - 1)
  BY <1>1, <1>2 DEF Window, JumpIn
<1>4. DescriptorOffsets(f) = at..(at + 7)
  BY <1>2 DEF DescriptorOffsets
<1> QED  BY <1>3, <1>4

\* A descriptor apart from the window and the header is as it was.
LEMMA OutputEntryKept ==
  ASSUME NEW b \in Seq(Byte), NEW f, NEW entry, NEW tr, NEW off, NEW g, NEW h, NEW out, NEW dst,
         Job(b, f, entry, tr, off, g, h), Regular(f), Output(out, b, f, tr, off, g, h, dst),
         DescriptorOffsets(f) \cap (Window(f) \cup HeaderOffsets(f)) = {}
  PROVE  resolveEntryDescriptor(dst) = Ok(entry)
<1>1. PICK at, d : DescriptorAt(f, entry, at, d)
  BY DEF Job
<1>2. /\ at \in Nat /\ at + 8 <= Len(b) /\ d = Slice(b, at, 8) /\ d \in Seq(Byte) /\ Len(d) = 8
      /\ entry = [codeAddress |-> readBigEndian32(d, 0), tocValue |-> readBigEndian32(d, 4)]
  BY <1>1 DEF DescriptorAt, Job, Loaded
<1>3. /\ out \in Seq(Byte) /\ Len(out) \in Nat /\ Len(b) \in Nat /\ Len(b) <= Len(out)
  <2>1. out \in Seq(Byte) /\ Len(out) = Len(b) + Len(tr.blob) + (Len(f.phdrs) + 1) * 56
    BY DEF Output
  <2> DEFINE m == Len(b)
             k == Len(tr.blob)
             n == Len(f.phdrs)
  <2>2. m \in Nat /\ k \in Nat /\ n \in Nat
    BY FileFacts DEF Job, Built, Assembles, Loaded
  <2>3. Len(out) = m + k + (n + 1) * 56
    BY <2>1
  <2> HIDE DEF m, k, n
  <2>4. m <= Len(out)
    BY ONLY <2>2, <2>3
  <2>5. Len(out) \in Nat
    <3>1. out \in Seq(Byte)
      BY <2>1
    <3> QED  BY ONLY <3>1
  <2> QED  BY <2>1, <2>4, <2>5, <2>2 DEF m
<1>p. /\ Window(f) = off..(off + Len(tr.entryPatchBytes) - 1)
      /\ DescriptorOffsets(f) = at..(at + 7)
  BY <1>1, JobPlaces
<1>4. ASSUME NEW i \in 1..8 PROVE out[at + i] = d[i]
  <2>0. (at + i - 1) + 1 = at + i /\ at + i - 1 \in 0..(Len(b) - 1) /\ at + i - 1 \in at..(at + 7)
    BY <1>2, <1>3
  <2>1. at + i - 1 \in DescriptorOffsets(f)
    BY <2>0, <1>p
  <2>2. at + i - 1 \notin off..(off + Len(tr.entryPatchBytes) - 1) /\ at + i - 1 \notin HeaderOffsets(f)
    <3>1. at + i - 1 \notin Window(f) /\ at + i - 1 \notin HeaderOffsets(f)
      BY ONLY <2>1, DescriptorOffsets(f) \cap (Window(f) \cup HeaderOffsets(f)) = {}
    <3> QED  BY ONLY <3>1, <1>p
  <2>3. at + i - 1 \notin FieldOffsets(64, "e_phoff") /\ at + i - 1 \notin FieldOffsets(64, "e_phnum")
    <3>1. HeaderOffsets(f) = 0..63
      BY DEF HeaderOffsets, EhdrSize, Job, Loaded
    <3>2. FieldOffsets(64, "e_phoff") \subseteq 0..63 /\ FieldOffsets(64, "e_phnum") \subseteq 0..63
      BY DEF FieldOffsets, Ehdr, Elf64_Ehdr
    <3> QED  BY <3>1, <3>2, <2>2
  <2>4. out[(at + i - 1) + 1] = b[(at + i - 1) + 1]
    BY <2>0, <2>2, <2>3 DEF Output
  <2>5. d[i] = b[at + i]
    <3>1. PICK k \in Nat : k = 8
      OBVIOUS
    <3>2. \A j \in 1..k : Slice(b, at, k)[j] = b[at + j]
      BY <3>1, <1>2, SliceShape
    <3> QED  BY <3>1, <3>2, <1>2
  <2> QED  BY <2>0, <2>4, <2>5
<1>5. Holds(out, at, d)
  <2>1. at + 8 <= Len(out)
    BY ONLY <1>2, <1>3
  <2> QED  BY <2>1, <1>2, <1>4 DEF Holds
<1>6. Slice(out, at, 8) = d
  BY <1>2, <1>3, <1>5, SliceHolds
<1> QED  BY <1>1, <1>2, <1>6, OutputEntry

\* A part of the output is refused: it ends before the program headers do.
LEMMA TornOutput ==
  ASSUME NEW b \in Seq(Byte), NEW f, NEW entry, NEW tr, NEW off, NEW g, NEW h, NEW out, NEW dst,
         Job(b, f, entry, tr, off, g, h), Regular(f), Output(out, b, f, tr, off, g, h, dst),
         NEW n \in Nat, n < Len(out)
  PROVE  Refuses(ps3File(SubSeq(out, 1, n)))
<1> DEFINE t == SubSeq(out, 1, n)
<1>0. out \in Seq(Byte) /\ dst \in FileType /\ Sized(dst) /\ ps3File(out) = Ok(dst) /\ dst.class = 64 /\ dst.data = "Big"
  BY DEF Output
<1>1. t \in Seq(Byte) /\ Len(t) = n /\ \A i \in 1..n : t[i] = out[i]
  <2>1. n <= Len(out) /\ Len(out) \in Nat
    BY <1>0
  <2>2. Slice(out, 0, n) = t
    BY DEF Slice
  <2> HIDE DEF t
  <2> QED  BY <1>0, <2>1, <2>2, PrefixShape
<1> HIDE DEF t
<1> SUFFICES ASSUME NEW x, Loaded(x, t) PROVE FALSE
  BY <1>1, FileResult DEF t
<1>2. /\ x \in FileType /\ Sized(x) /\ Kept(x, t, {}) /\ Coherent(x) /\ x.raw = t /\ x.class = 64 /\ x.data = "Big"
      /\ H(x, "e_phoff") + Len(x.phdrs) * PhdrSize(64) <= Len(t)
  BY DEF Loaded
<1>3. PICK y : Loaded(y, out) /\ ps3File(out) = Ok(y)
  <2>1. ~ Refuses(ps3File(out))
    <3> DEFINE r == ps3File(out)
    <3>1. r = Ok(dst)
      BY <1>0
    <3> HIDE DEF r
    <3>2. r.ok = TRUE
      BY <3>1 DEF Ok
    <3>3. ~ Refuses(r)
      BY ONLY <3>2, RefusedNotOk
    <3> QED  BY <3>3 DEF r
  <2> QED  BY <2>1, <1>0, FileResult
<1>4. y = dst
  <2> DEFINE r == ps3File(out)
  <2>1. r = Ok(dst) /\ r = Ok(y)
    BY <1>0, <1>3
  <2> HIDE DEF r
  <2> QED  BY <2>1 DEF Ok
<1>5. x.header = dst.header
  <2> DEFINE xh == x.header
             dh == dst.header
  <2>1. xh \in Seq(Byte) /\ dh \in Seq(Byte) /\ Len(xh) = 64 /\ Len(dh) = 64 /\ Len(xh) <= n
    BY <1>0, <1>1, <1>2, FileFacts DEF EhdrSize
  <2>e. EhdrSize(64) - 1 = 63
    BY DEF EhdrSize
  <2>2. \A o \in 0..63 : xh[o + 1] = t[o + 1]
    <3>1. \A o \in 0..(EhdrSize(x.class) - 1) : xh[o + 1] = t[o + 1]
      BY <1>2 DEF Kept, KeptHeader
    <3> QED  BY <3>1, <2>e, <1>2
  <2>3. \A o \in 0..63 : dh[o + 1] = out[o + 1]
    <3>1. \A o \in 0..(EhdrSize(dst.class) - 1) : dh[o + 1] = out[o + 1]
      BY <1>3, <1>4 DEF Loaded, Kept, KeptHeader
    <3> QED  BY <3>1, <2>e, <1>0
  <2> HIDE DEF xh, dh
  <2>4. ASSUME NEW i \in 1..Len(xh) PROVE xh[i] = dh[i]
    <3>1. i - 1 \in 0..63 /\ (i - 1) + 1 = i /\ i \in 1..n
      BY <2>1
    <3>2. xh[i] = t[i] /\ dh[i] = out[i]
      <4>1. xh[(i - 1) + 1] = t[(i - 1) + 1] /\ dh[(i - 1) + 1] = out[(i - 1) + 1]
        BY <2>2, <2>3, <3>1
      <4> QED  BY <4>1, <3>1
    <3> QED  BY <3>1, <3>2, <1>1
  <2>5. xh = dh
    <3>1. Len(xh) = Len(dh)
      BY ONLY <2>1
    <3> QED  BY ONLY <3>1, <2>1, <2>4, SameBytes
  <2> QED  BY <2>5 DEF xh, dh
<1>6. \A name : H(x, name) = H(dst, name)
  BY <1>0, <1>2, <1>5 DEF H
<1> DEFINE m == Len(b)
           k == Len(tr.blob)
           q == Len(f.phdrs)
           z == Len(x.phdrs)
<1>7. m \in Nat /\ k \in Nat /\ q \in Nat /\ z \in Nat
  <2>1. z \in Nat
    BY <1>2, FileFacts
  <2>2. m \in Nat /\ k \in Nat /\ q \in Nat
    BY FileFacts DEF Job, Built, Assembles, Loaded
  <2> QED  BY <2>1, <2>2
<1>8. Len(out) = m + k + (q + 1) * 56 /\ H(dst, "e_phoff") = m + k /\ H(dst, "e_phnum") = q + 1
  BY DEF Output
<1>9. z % U16 = q + 1
  BY <1>2, <1>6, <1>8 DEF Coherent
<1>10. m + k + z * 56 <= n
  <2>1. PhdrSize(64) = 56
    BY DEF PhdrSize
  <2> QED  BY <1>1, <1>2, <1>6, <1>8, <2>1
<1>11. U16 \in Nat /\ U16 > 0
  BY Moduli
<1> HIDE DEF m, k, q, z
<1>12. z >= q + 1
  <2>1. z % U16 <= z
    <3>1. z \div U16 \in Nat /\ z % U16 \in Nat /\ z = (z \div U16) * U16 + (z % U16)
      BY <1>7, <1>11, DivMod
    <3>2. (z \div U16) * U16 \in Nat
      <4> DEFINE v == z \div U16
      <4>1. v \in Nat
        BY <3>1
      <4> HIDE DEF v
      <4>2. v * U16 \in Nat
        BY ONLY <4>1, <1>11
      <4> QED  BY <4>2 DEF v
    <3> DEFINE u == (z \div U16) * U16
               w == z % U16
    <3>3. u \in Nat /\ w \in Nat /\ z = u + w
      BY <3>1, <3>2
    <3> HIDE DEF u, w
    <3>4. w <= z
      BY ONLY <3>3
    <3> QED  BY <3>4 DEF w
  <2> QED  BY <2>1, <1>9
<1> QED  BY ONLY <1>7, <1>8, <1>10, <1>12, n \in Nat, n < Len(out)

-----------------------------------------------------------------------------
(* The address space of a program with room above its segments. *)

\* Its segments end without wrapping, the file-backed part not after the rest.
LEMMA RoomySegment ==
  ASSUME NEW f \in FileType, Sized(f), Roomy(f), NEW i \in LoadSegments(f)
  PROVE  /\ SegmentEnd(f, i) \in Nat /\ SegmentEnd(f, i) + U16 <= U32
         /\ \A a \in Nat : Backs(f, i, a) => a < SegmentEnd(f, i)
<1> DEFINE v == P(f, i, "p_vaddr")
           s == P(f, i, "p_filesz")
           m == P(f, i, "p_memsz")
<1>1. v \in Nat /\ s \in Nat /\ m \in Nat
  <2>1. i \in 1..Len(f.phdrs)
    BY DEF LoadSegments
  <2> QED  BY <2>1, SegmentFieldType DEF PhdrNames
<1>2. s <= m /\ v + m <= U32 - U16
  BY DEF Roomy
<1>3. SegmentEnd(f, i) = (v + m) % U64 /\ \A a : Backs(f, i, a) => a < (v + s) % U64
  BY DEF SegmentEnd, Backs
<1>u. U16 \in Nat /\ U32 \in Nat /\ U64 \in Nat /\ U32 < U64
  BY Moduli
<1> HIDE DEF v, s, m
<1>4. ASSUME NEW x \in Nat, x < U64 PROVE x % U64 = x
  BY ONLY <1>4, <1>u
<1>5. v + m \in Nat /\ v + s \in Nat /\ v + m < U64 /\ v + s < U64 /\ v + s <= v + m /\ (v + m) + U16 <= U32
  BY ONLY <1>1, <1>2, <1>u
<1>6. (v + m) % U64 = v + m /\ (v + s) % U64 = v + s
  BY ONLY <1>4, <1>5
<1>7. ASSUME NEW a \in Nat, Backs(f, i, a) PROVE a < SegmentEnd(f, i)
  <2>1. a < v + s
    BY <1>3, <1>6, <1>7
  <2>2. a < v + m
    BY ONLY <2>1, <1>5, <1>7
  <2> QED  BY <2>2, <1>3, <1>6
<1> QED  BY <1>3, <1>5, <1>6, <1>7

\* The new segment is above them all, and so is what it backs; it is less than
\* 64 KB above the highest.
LEMMA RoomAbove ==
  ASSUME NEW f \in FileType, Sized(f), Roomy(f)
  PROVE  /\ TrampolineAddr(f) \in Nat /\ TrampolineAddr(f) + U16 <= U32
         /\ \A e \in {0} \cup {SegmentEnd(f, i) : i \in LoadSegments(f)} : e <= TrampolineAddr(f)
         /\ \E e \in {0} \cup {SegmentEnd(f, i) : i \in LoadSegments(f)} : TrampolineAddr(f) < e + U16
         /\ \A a \in Nat : a >= TrampolineAddr(f) => Hits(f, a) = {}
<1> DEFINE T == TrampolineAddr(f)
           e == highestEnd(f)
<1>u. U16 \in Nat /\ U32 \in Nat /\ U16 < U32
  BY Moduli
<1>1. e \in Nat /\ e + U16 <= U32
  <2>1. e \in Nat /\ (e = 0 \/ \E i \in LoadSegments(f) : e = SegmentEnd(f, i))
    BY HighestEnd
  <2>2. \A i \in LoadSegments(f) : SegmentEnd(f, i) + U16 <= U32
    BY RoomySegment
  <2> HIDE DEF e
  <2> QED  BY <2>1, <2>2, <1>u
<1>2. T \in Nat /\ e <= T /\ T < e + U16 /\ T + U16 <= U32
  BY <1>1, AddressFound
<1>3. /\ \A i \in LoadSegments(f) : SegmentEnd(f, i) \in Nat /\ SegmentEnd(f, i) <= e
      /\ e \in {0} \cup {SegmentEnd(f, i) : i \in LoadSegments(f)}
  BY HighestEnd
<1> HIDE DEF T, e
<1>4. \A i \in LoadSegments(f) : SegmentEnd(f, i) <= T
  BY <1>1, <1>2, <1>3
<1>5. ASSUME NEW a \in Nat, a >= T, NEW i \in Hits(f, a) PROVE FALSE
  <2>1. i \in LoadSegments(f) /\ Backs(f, i, a)
    BY DEF Hits, Backs, LoadSegments
  <2>2. a < SegmentEnd(f, i) /\ SegmentEnd(f, i) \in Nat
    BY <2>1, RoomySegment
  <2>3. SegmentEnd(f, i) <= T
    BY <2>1, <1>4
  <2> QED  BY ONLY <2>2, <2>3, <1>2, <1>5
<1>6. \A a \in Nat : a >= T => Hits(f, a) = {}
  BY <1>5
<1>7. \A y \in {0} \cup {SegmentEnd(f, i) : i \in LoadSegments(f)} : y <= T
  BY <1>2, <1>4
<1> QED  BY <1>2, <1>3, <1>6, <1>7 DEF T

\* An address of the program is not in the last 64 KB.
LEMMA BackedLow ==
  ASSUME NEW f \in FileType, Sized(f), Roomy(f), NEW a \in Nat, vaddrToFileOffset(f, a).ok
  PROVE  a + U16 < U32
<1>1. PICK i \in Hits(f, a) : TRUE
  BY Translated
<1>2. i \in LoadSegments(f) /\ Backs(f, i, a)
  BY DEF Hits, Backs, LoadSegments
<1>3. a < SegmentEnd(f, i) /\ SegmentEnd(f, i) \in Nat /\ SegmentEnd(f, i) + U16 <= U32
  BY <1>2, RoomySegment
<1>4. U16 \in Nat /\ U32 \in Nat
  BY Moduli
<1> QED  BY ONLY <1>3, <1>4, a \in Nat

\* What the blob holds at offset k is read from the output at T + k.
LEMMA OutputReads ==
  ASSUME NEW b \in Seq(Byte), NEW f, NEW entry, NEW tr, NEW off, NEW g, NEW h, NEW out, NEW dst,
         Job(b, f, entry, tr, off, g, h), Regular(f), Roomy(f), Output(out, b, f, tr, off, g, h, dst),
         NEW k \in Nat, NEW d \in Seq(Byte), Len(d) > 0, Holds(tr.blob, k, d)
  PROVE  /\ vaddrToFileOffset(dst, TrampolineAddr(f) + k) = Ok(Len(b) + k)
         /\ readAt(dst, Len(b) + k, Len(d)) = Ok(d)
<1> DEFINE T  == TrampolineAddr(f)
           m  == Len(b)
           bl == tr.blob
           sz == Len(tr.blob)
           n  == Len(f.phdrs)
           a  == T + k
<1>1. f \in FileType /\ Sized(f) /\ f.raw = b
  BY DEF Job, Loaded
<1>2. bl \in Seq(Byte) /\ sz < U16
  BY DEF Job, Built, Assembles
<1>3. sz \in Nat /\ m \in Nat /\ Len(d) \in Nat /\ k + Len(d) <= sz
  BY <1>2 DEF Holds
<1>4. T \in Nat /\ T + U16 <= U32 /\ \A x \in Nat : x >= T => Hits(f, x) = {}
  BY <1>1, RoomAbove
<1>u. U16 \in Nat /\ U32 \in Nat /\ U64 \in Nat /\ U32 < U64
  BY Moduli
<1>r. m + U16 <= U32
  BY <1>1 DEF Regular
<1>5. /\ n \in Nat /\ Len(dst.phdrs) = n + 1 /\ (\A i \in 1..n : dst.phdrs[i] = f.phdrs[i])
      /\ dst.class = f.class /\ dst.data = f.data
      /\ P(dst, n + 1, "p_type") = PT_LOAD /\ P(dst, n + 1, "p_offset") = m
      /\ P(dst, n + 1, "p_vaddr") = T /\ P(dst, n + 1, "p_filesz") = sz
  BY <1>1, OutputAdded DEF Added
<1>o. out \in Seq(Byte) /\ dst \in FileType /\ Sized(dst) /\ dst.raw = out
  BY DEF Output
<1>l. Len(out) \in Nat
  BY ONLY <1>o
<1>6. Holds(out, m, bl)
  BY OutputBlob
<1>7. m + sz <= Len(out)
  BY <1>6 DEF Holds
<1> HIDE DEF T, m, bl, sz, n
<1>8. a \in Nat /\ a >= T /\ a < T + sz /\ T + sz < U64
  BY ONLY <1>2, <1>3, <1>4, <1>u, k \in Nat, Len(d) > 0
<1>9. Hits(dst, a) = {n + 1}
  <2>1. n + 1 \in Hits(dst, a)
    <3>1. (P(dst, n + 1, "p_vaddr") + P(dst, n + 1, "p_filesz")) % U64 = T + sz
      <4> DEFINE x == T + sz
      <4>1. x \in Nat /\ x < U64
        BY ONLY <1>3, <1>4, <1>8
      <4> HIDE DEF x
      <4>2. x % U64 = x
        BY ONLY <4>1, <1>u
      <4> QED  BY <4>2, <1>5 DEF x
    <3>2. Backs(dst, n + 1, a)
      BY <3>1, <1>5, <1>8 DEF Backs
    <3>3. n + 1 \in 1..Len(dst.phdrs)
      BY ONLY <1>5
    <3> QED  BY <3>2, <3>3 DEF Hits
  <2>2. ASSUME NEW i \in Hits(dst, a) PROVE i = n + 1
    <3>1. i \in 1..(n + 1) /\ Backs(dst, i, a)
      BY <1>5 DEF Hits
    <3>2. CASE i \in 1..n
      <4>1. \A name : P(dst, i, name) = P(f, i, name)
        BY <1>5, <3>2 DEF P
      <4>2. Backs(f, i, a)
        BY <4>1, <3>1 DEF Backs
      <4>3. i \in Hits(f, a)
        BY <4>2, <3>2 DEF Hits, n
      <4> QED  BY <4>3, <1>4, <1>8
    <3> QED  BY <3>1, <3>2, <1>5
  <2> QED  BY <2>1, <2>2
<1>10. OffsetIn(dst, n + 1, a) = m + k
  <2> DEFINE x == m + k
  <2>1. x \in Nat /\ x < U64 /\ m + (a - T) = x
    BY ONLY <1>2, <1>3, <1>4, <1>r, <1>u, k \in Nat
  <2> HIDE DEF x
  <2>2. x % U64 = x
    BY ONLY <2>1, <1>u
  <2> QED  BY <2>1, <2>2, <1>5 DEF OffsetIn, x
<1>11. vaddrToFileOffset(dst, a) = Ok(m + k)
  <2>1. n + 1 \in Hits(dst, a) /\ \A j \in Hits(dst, a) : n + 1 <= j
    BY <1>9, <1>5
  <2>2. vaddrToFileOffset(dst, a) = IF OffsetIn(dst, n + 1, a) > Len(dst.raw) THEN Err("OffsetOutOfBounds")
                                    ELSE Ok(OffsetIn(dst, n + 1, a))
    <3> HIDE DEF a
    <3> QED  BY <2>1, FirstSegment
  <2>3. ~ (m + k > Len(dst.raw))
    <3>1. ~ (m + k > Len(out))
      BY ONLY <1>3, <1>7, <1>l, k \in Nat
    <3> QED  BY <3>1, <1>o
  <2> QED  BY <2>2, <2>3, <1>10
<1>12. Holds(out, m + k, d)
  <2>1. m + k + Len(d) <= Len(out)
    BY ONLY <1>3, <1>7, <1>l, k \in Nat
  <2>2. ASSUME NEW i \in 1..Len(d) PROVE out[m + k + i] = d[i]
    <3>1. k + i \in 1..sz /\ m + (k + i) = m + k + i
      BY ONLY <1>3, <2>2, k \in Nat
    <3>2. out[m + (k + i)] = bl[k + i]
      BY <3>1, <1>6 DEF Holds, sz, bl
    <3>3. bl[k + i] = d[i]
      BY <2>2 DEF Holds, bl
    <3> QED  BY <3>1, <3>2, <3>3
  <2> QED  BY <2>1, <2>2 DEF Holds
<1>13. readAt(dst, m + k, Len(d)) = Ok(d)
  <2> DEFINE o == m + k
             s == Len(d)
  <2>1. o \in Nat /\ s \in Nat /\ s < U16 /\ o + s <= Len(dst.raw)
    <3>1. o + s <= Len(out)
      BY <1>12 DEF Holds
    <3>2. o \in Nat /\ s < U16
      BY ONLY <1>2, <1>3, <1>u, k \in Nat
    <3> QED  BY <3>1, <3>2, <1>3, <1>o
  <2>2. Slice(out, o, s) = d
    <3> HIDE DEF o
    <3> QED  BY <2>1, <1>12, <1>o, SliceHolds DEF o
  <2> HIDE DEF o, s
  <2>3. readAt(dst, o, s) = Ok(Slice(out, o, s))
    BY <2>1, <1>o, ReadInside
  <2> QED  BY <2>2, <2>3 DEF o, s
<1> QED  BY <1>11, <1>13 DEF a, T, m

\* The jump is at the entry, if nothing is written over it.
LEMMA OutputJump ==
  ASSUME NEW b \in Seq(Byte), NEW f, NEW entry, NEW tr, NEW off, NEW g, NEW h, NEW out, NEW dst,
         Job(b, f, entry, tr, off, g, h), Regular(f), Output(out, b, f, tr, off, g, h, dst),
         Window(f) \cap (HeaderOffsets(f) \cup ShdrOffsets(f)) = {}
  PROVE  /\ Holds(out, off, tr.entryPatchBytes)
         /\ tr.entryPatchBytes \in Seq(Byte) /\ Len(tr.entryPatchBytes) \in {4, 20}
         /\ off \in Nat
<1> DEFINE T  == TrampolineAddr(f)
           bs == tr.entryPatchBytes
           hr == h.raw
<1>1. PICK at, d : DescriptorAt(f, entry, at, d)
  BY DEF Job
<1>2. Window(f) = off..(off + Len(bs) - 1)
  BY <1>1, JobPlaces
<1>3. bs = JumpIn(entry, T) /\ off \in Nat /\ PatchedAt(h, g, off, bs) /\ h \in FileType /\ Sized(h)
  BY DEF Job, Built
<1>4. bs \in Seq(Byte) /\ Len(bs) \in {4, 20}
  <2>1. entry.codeAddress \in Nat
    BY <1>1 DEF DescriptorAt
  <2>2. T \in Nat
    BY AddressFound DEF Job, Loaded
  <2> HIDE DEF T
  <2> QED  BY <2>1, <2>2, <1>3, Jumps
<1>5. off + Len(bs) <= Len(hr) /\ \A i \in 1..Len(bs) : hr[off + i] = bs[i]
  BY <1>3 DEF PatchedAt
<1>6. \A o \in 0..(Len(hr) - 1) : o \notin HeaderOffsets(f) \cup ShdrOffsets(f) => out[o + 1] = hr[o + 1]
  BY DEF Output
<1>7. Len(hr) \in Nat /\ Len(hr) <= Len(out) /\ Len(out) \in Nat
  <2> DEFINE m == Len(b)
             k == Len(tr.blob)
             n == Len(f.phdrs)
  <2>0. m \in Nat /\ k \in Nat /\ n \in Nat
    BY FileFacts DEF Job, Built, Assembles, Loaded
  <2>1. Len(out) = m + k + (n + 1) * 56
    BY DEF Output
  <2>2. Len(hr) = m + k
    BY DEF Job, Loaded, Extended, PatchedAt
  <2> HIDE DEF m, k, n, hr
  <2> QED  BY ONLY <2>0, <2>1, <2>2
<1>8. Len(bs) \in Nat
  BY ONLY <1>4
<1> HIDE DEF bs, hr, T
<1>9. ASSUME NEW i \in 1..Len(bs) PROVE out[off + i] = bs[i]
  <2>1. (off + i - 1) + 1 = off + i /\ off + i - 1 \in 0..(Len(hr) - 1) /\ off + i - 1 \in off..(off + Len(bs) - 1)
    BY ONLY <1>3, <1>5, <1>7, <1>8, <1>9
  <2>2. off + i - 1 \notin HeaderOffsets(f) \cup ShdrOffsets(f)
    <3>1. off + i - 1 \in Window(f)
      BY <2>1, <1>2
    <3> QED  BY ONLY <3>1, Window(f) \cap (HeaderOffsets(f) \cup ShdrOffsets(f)) = {}
  <2>3. out[(off + i - 1) + 1] = hr[(off + i - 1) + 1]
    BY <1>6, <2>1, <2>2
  <2> QED  BY <2>1, <2>3, <1>5
<1>10. off + Len(bs) <= Len(out)
  BY ONLY <1>3, <1>5, <1>7, <1>8
<1> QED  BY <1>3, <1>4, <1>9, <1>10 DEF Holds, bs

\* out was made of the regular file b.
Patches(out, b, f, entry, tr, off, g, h, dst) ==
  /\ Job(b, f, entry, tr, off, g, h) /\ Regular(f) /\ Output(out, b, f, tr, off, g, h, dst)
  /\ Added(dst, f, TrampolineAddr(f), Len(tr.blob))
  /\ ps3File(b).value = f /\ ps3File(out).value = dst /\ resolveEntryDescriptor(f).value = entry

\* That is how patchFile returns something.
LEMMA PatchedFile ==
  ASSUME NEW b \in Seq(Byte), NEW path \in Seq(Byte), NEW out, patchFile(b, path) = Ok(out),
         Regular(ps3File(b).value)
  PROVE  \E f, entry, tr, off, g, h, dst : Patches(out, b, f, entry, tr, off, g, h, dst)
<1> DEFINE r == patchFile(b, path)
<1>1. r = Ok(out)
  OBVIOUS
<1>2. ~ Refuses(r)
  <2> HIDE DEF r
  <2>1. r.ok = TRUE
    BY <1>1 DEF Ok
  <2> QED  BY ONLY <2>1, RefusedNotOk
<1>3. PICK f, entry, tr, off, g, h : Job(b, f, entry, tr, off, g, h) /\ r = Ok(serialize(h))
  BY <1>2, PatchResult
<1>4. out = serialize(h)
  <2> HIDE DEF r
  <2> QED  BY <1>1, <1>3 DEF Ok
<1>5. ps3File(b) = Ok(f) /\ resolveEntryDescriptor(f) = Ok(entry)
  BY <1>3 DEF Job
<1>6. ps3File(b).value = f /\ resolveEntryDescriptor(f).value = entry
  BY <1>5 DEF Ok
<1>7. Regular(f)
  BY <1>6
<1>8. PICK dst : Output(out, b, f, tr, off, g, h, dst)
  BY <1>3, <1>4, <1>7, JobOutput
<1>9. ps3File(out).value = dst
  <2>1. ps3File(out) = Ok(dst)
    BY <1>8 DEF Output
  <2> QED  BY <2>1 DEF Ok
<1>10. Added(dst, f, TrampolineAddr(f), Len(tr.blob))
  BY <1>3, <1>7, <1>8, OutputAdded
<1>11. Patches(out, b, f, entry, tr, off, g, h, dst)
  BY <1>3, <1>6, <1>7, <1>8, <1>9, <1>10 DEF Patches
<1> QED  BY <1>11

-----------------------------------------------------------------------------
(* The output, taken for an input. *)

\* A refusal of ps3File is one of patchFile.
LEMMA NotAFile ==
  ASSUME NEW b, NEW path, Refuses(ps3File(b))
  PROVE  Refuses(patchFile(b, path))
<1> DEFINE r == ps3File(b)
<1>1. r.ok = FALSE /\ Refuses(r)
  BY RefusedNotOk
<1>2. r.ok = FALSE => patchFile(b, path) = r
  BY DEF patchFile, AndThen
<1> HIDE DEF r
<1> QED  BY <1>1, <1>2

\* It is refused because it is patched already, whatever the jump was written
\* over; and a part of it is refused too.
LEMMA AgainRefused ==
  ASSUME NEW b \in Seq(Byte), NEW path \in Seq(Byte), NEW out, patchFile(b, path) = Ok(out),
         Regular(ps3File(b).value), NEW again
  PROVE  /\ out \in Seq(Byte) /\ Len(out) > 0
         /\ patchFile(out, again) = Err("AlreadyPatched")
         /\ \A n \in Nat : n < Len(out) =>
              Refuses(ps3File(SubSeq(out, 1, n))) /\ Refuses(patchFile(SubSeq(out, 1, n), again))
<1>1. PICK f, entry, tr, off, g, h, dst : Patches(out, b, f, entry, tr, off, g, h, dst)
  BY PatchedFile
<1>2. Job(b, f, entry, tr, off, g, h) /\ Regular(f) /\ Output(out, b, f, tr, off, g, h, dst)
  BY <1>1 DEF Patches
<1>3. out \in Seq(Byte) /\ ps3File(out) = Ok(dst)
  BY <1>2 DEF Output
<1>4. Len(out) > 0
  <2> DEFINE m == Len(b)
             k == Len(tr.blob)
             n == Len(f.phdrs)
  <2>1. tr.blob \in Seq(Byte) /\ f.phdrs \in Seq(Seq(Byte))
    BY <1>2 DEF Job, Built, Assembles, Loaded, FileType
  <2>2. m \in Nat /\ k \in Nat /\ n \in Nat
    BY ONLY <2>1, b \in Seq(Byte)
  <2>3. Len(out) = m + k + (n + 1) * 56
    BY <1>2 DEF Output
  <2> HIDE DEF m, k, n
  <2> QED  BY ONLY <2>2, <2>3
<1>5. \A n \in Nat : n < Len(out) =>
        Refuses(ps3File(SubSeq(out, 1, n))) /\ Refuses(patchFile(SubSeq(out, 1, n), again))
  <2>1. ASSUME NEW n \in Nat, n < Len(out) PROVE Refuses(ps3File(SubSeq(out, 1, n)))
    BY ONLY <1>2, <2>1, b \in Seq(Byte), TornOutput
  <2> QED  BY <2>1, NotAFile
<1>6. patchFile(out, again) = Err("AlreadyPatched")
  <2>1. PICK at, d : DescriptorAt(f, entry, at, d)
    BY <1>2 DEF Job
  <2> DEFINE e == [codeAddress |-> readBigEndian32(Slice(out, at, 8), 0),
                   tocValue    |-> readBigEndian32(Slice(out, at, 8), 4)]
             r == resolveEntryDescriptor(dst)
             q == ps3File(out)
  <2>2. r = Ok(e)
    BY ONLY <1>2, <2>1, b \in Seq(Byte), OutputEntry
  <2>3. isAlreadyPatched(dst)
    <3>1. Len(dst.phdrs) \in Trampolines(dst)
      BY ONLY <1>2, b \in Seq(Byte), OutputPatched
    <3> QED  BY <3>1 DEF isAlreadyPatched
  <2>4. q.ok /\ q.value = dst /\ r.ok => patchFile(out, again) = Err("AlreadyPatched")
    BY <2>3 DEF patchFile, AndThen
  <2> HIDE DEF e, r, q
  <2>5. r.ok = TRUE
    BY <2>2 DEF Ok
  <2>6. q = Ok(dst)
    BY <1>3 DEF q
  <2>7. q.ok = TRUE /\ q.value = dst
    BY <2>6 DEF Ok
  <2> QED  BY <2>4, <2>5, <2>7
<1> QED  BY ONLY <1>3, <1>4, <1>5, <1>6

-----------------------------------------------------------------------------
(* The report on the output. *)

\* The report on a file with entry e.
Report(f, e) ==
  [header |-> [name \in {"e_machine", "e_type", "e_flags", "e_entry"} |-> H(f, name)],
   unusual |-> ~ hasTypicalEFlags(f),
   entry |-> e,
   patched |-> isAlreadyPatched(f),
   segments |-> [i \in 1..Len(f.phdrs) |-> SegmentLine(f, i)]]

\* If the entry resolves, formatInfo succeeds with this report.
LEMMA ReportOf ==
  ASSUME NEW f, NEW e, resolveEntryDescriptor(f) = Ok(e)
  PROVE  formatInfo(f) = Ok(Report(f, e)) /\ formatInfo(f).value = Report(f, e)
<1> DEFINE r == resolveEntryDescriptor(f)
<1>1. r = Ok(e)
  OBVIOUS
<1>2. formatInfo(f) = IF r.ok THEN Ok(Report(f, r.value)) ELSE r
  BY DEF formatInfo, AndThen, Report
<1> HIDE DEF r
<1>3. r.ok = TRUE /\ r.value = e
  BY <1>1 DEF Ok
<1>4. formatInfo(f) = Ok(Report(f, e))
  BY <1>2, <1>3
<1>5. \A x : Ok(x).value = x
  BY DEF Ok
<1> QED  BY ONLY <1>4, <1>5

\* What a report on a file made from an ordinary one has in common with the
\* report on that one.
ReportsAgree(r, src) ==
  /\ r.patched
  /\ r.header = src.header /\ r.entry = src.entry
  /\ Len(r.segments) = Len(src.segments) + 1
  /\ SubSeq(r.segments, 1, Len(src.segments)) = src.segments

\* The report on an output and the report on its input.
LEMMA OutputReport ==
  ASSUME NEW b \in Seq(Byte), NEW f, NEW entry, NEW tr, NEW off, NEW g, NEW h, NEW out, NEW dst,
         Patches(out, b, f, entry, tr, off, g, h, dst), Ordinary(f)
  PROVE  /\ formatInfo(f).value = Report(f, entry) /\ formatInfo(dst) = Ok(Report(dst, entry))
         /\ ReportsAgree(Report(dst, entry), Report(f, entry))
<1>1. /\ Job(b, f, entry, tr, off, g, h) /\ Regular(f) /\ Output(out, b, f, tr, off, g, h, dst)
      /\ Added(dst, f, TrampolineAddr(f), Len(tr.blob))
  BY DEF Patches
<1>2. resolveEntryDescriptor(f) = Ok(entry)
  BY <1>1 DEF Job
<1>3. resolveEntryDescriptor(dst) = Ok(entry)
  <2>1. DescriptorOffsets(f) \cap (Window(f) \cup HeaderOffsets(f)) = {}
    BY DEF Ordinary
  <2> QED  BY ONLY <1>1, <2>1, b \in Seq(Byte), OutputEntryKept
<1>4. formatInfo(f).value = Report(f, entry) /\ formatInfo(dst) = Ok(Report(dst, entry))
  BY ONLY <1>2, <1>3, ReportOf
<1>5. isAlreadyPatched(dst)
  <2>1. Len(dst.phdrs) \in Trampolines(dst)
    BY ONLY <1>1, b \in Seq(Byte), OutputPatched
  <2> QED  BY <2>1 DEF isAlreadyPatched
<1>6. Report(dst, entry).header = Report(f, entry).header
  <2>1. {"e_machine", "e_type", "e_flags", "e_entry"} \subseteq HeaderNames \ {"e_phoff", "e_phnum"}
    BY DEF HeaderNames
  <2>2. \A name \in {"e_machine", "e_type", "e_flags", "e_entry"} : H(dst, name) = H(f, name)
    <3> TAKE name \in {"e_machine", "e_type", "e_flags", "e_entry"}
    <3>1. name \in HeaderNames /\ name \notin {"e_phoff", "e_phnum"}
      BY ONLY <2>1, name \in {"e_machine", "e_type", "e_flags", "e_entry"}
    <3> QED  BY ONLY <3>1, <1>1, OutputHeader
  <2>3. [name \in {"e_machine", "e_type", "e_flags", "e_entry"} |-> H(dst, name)]
          = [name \in {"e_machine", "e_type", "e_flags", "e_entry"} |-> H(f, name)]
    BY ONLY <2>2
  <2> QED  BY ONLY <2>3 DEF Report
<1> DEFINE n    == Len(f.phdrs)
           news == [i \in 1..Len(dst.phdrs) |-> SegmentLine(dst, i)]
           olds == [i \in 1..n |-> SegmentLine(f, i)]
<1>7. n \in Nat /\ Len(dst.phdrs) = n + 1
  BY <1>1 DEF Added
<1>8. \A i \in 1..n : SegmentLine(dst, i) = SegmentLine(f, i)
  <2> TAKE i \in 1..n
  <2>1. dst.phdrs[i] = f.phdrs[i] /\ dst.class = f.class /\ dst.data = f.data
    BY <1>1 DEF Added
  <2>2. \A name : P(dst, i, name) = P(f, i, name)
    BY ONLY <2>1 DEF P
  <2>3. [name \in {"p_vaddr", "p_offset", "p_filesz", "p_memsz"} |-> P(dst, i, name)]
          = [name \in {"p_vaddr", "p_offset", "p_filesz", "p_memsz"} |-> P(f, i, name)]
    BY ONLY <2>2
  <2> QED  BY ONLY <2>2, <2>3 DEF SegmentLine
<1>9. Len(news) = n + 1 /\ Len(olds) = n /\ SubSeq(news, 1, n) = olds
  <2> DEFINE S == {SegmentLine(dst, i) : i \in 1..(n + 1)} \cup {SegmentLine(f, i) : i \in 1..n}
  <2>1. news \in Seq(S) /\ olds \in Seq(S)
    <3>1. news \in [1..(n + 1) -> S]
      BY <1>7
    <3>2. olds \in [1..n -> S]
      BY <1>7
    <3>3. n + 1 \in Nat
      BY ONLY <1>7
    <3>4. ASSUME NEW Q, NEW m \in Nat, NEW s \in [1..m -> Q] PROVE s \in Seq(Q)
      BY ONLY m \in Nat, s \in [1..m -> Q]
    <3> HIDE DEF news, olds, S
    <3>5. news \in Seq(S)
      BY ONLY <3>1, <3>3, <3>4
    <3>6. olds \in Seq(S)
      BY ONLY <3>2, <1>7, <3>4
    <3> QED  BY ONLY <3>5, <3>6
  <2>2. Len(news) = n + 1 /\ Len(olds) = n
    BY <1>7
  <2>3. \A i \in 1..n : news[i] = olds[i]
    BY <1>7, <1>8
  <2> HIDE DEF news, olds, S
  <2>4. SubSeq(news, 1, n) \in Seq(S) /\ Len(SubSeq(news, 1, n)) = n
    BY ONLY <1>7, <2>1, <2>2
  <2>5. \A i \in 1..n : SubSeq(news, 1, n)[i] = news[i]
    BY ONLY <1>7, <2>1, <2>2
  <2> QED  BY ONLY <1>7, <2>1, <2>2, <2>3, <2>4, <2>5
<1>10. ReportsAgree(Report(dst, entry), Report(f, entry))
  <2>1. Report(dst, entry).segments = news /\ Report(f, entry).segments = olds
    BY DEF Report
  <2>2. Report(dst, entry).entry = Report(f, entry).entry /\ Report(dst, entry).patched
    BY <1>5 DEF Report
  <2> HIDE DEF news, olds, n
  <2> QED  BY ONLY <1>6, <1>9, <2>1, <2>2 DEF ReportsAgree
<1> QED  BY ONLY <1>4, <1>10

-----------------------------------------------------------------------------
(* How many trampolines a file has. *)

\* What the code reads at offset from, of a file where one of the eight bytes is
\* not the magic's.
LEMMA NotTheMagic ==
  ASSUME NEW f \in FileType, Sized(f), NEW from \in Nat, from + 8 <= Len(f.raw),
         NEW k \in 0..7, f.raw[from + k + 1] # TRAMPOLINE_MAGIC[k + 1]
  PROVE  readAt(f, from, MagicSize) # Ok(TRAMPOLINE_MAGIC)
<1>1. PICK n \in Nat : n = 8
  OBVIOUS
<1>2. f.raw \in Seq(Byte)
  BY DEF FileType
<1>3. U16 \in Nat /\ n < U16 /\ from + n <= Len(f.raw) /\ MagicSize = n
  BY ONLY <1>1, SegmentRoom, from + 8 <= Len(f.raw) DEF MagicSize
<1>4. readAt(f, from, n) = Ok(Slice(f.raw, from, n))
  BY ONLY <1>1, <1>3, f \in FileType, Sized(f), from \in Nat, ReadInside
<1>5. Slice(f.raw, from, n)[k + 1] = f.raw[from + k + 1]
  <2> HIDE DEF MagicSize
  <2>1. k + 1 \in 1..n /\ from + (k + 1) = from + k + 1
    BY ONLY <1>1, k \in 0..7, from \in Nat
  <2>2. \A i \in 1..n : Slice(f.raw, from, n)[i] = f.raw[from + i]
    BY ONLY <1>1, <1>2, <1>3, from \in Nat, SliceShape
  <2> QED  BY ONLY <2>1, <2>2
<1>6. Slice(f.raw, from, n) # TRAMPOLINE_MAGIC
  BY ONLY <1>5, f.raw[from + k + 1] # TRAMPOLINE_MAGIC[k + 1]
<1>7. \A x, y : Ok(x) = Ok(y) => x = y
  <2>1. \A x : Ok(x).value = x
    BY DEF Ok
  <2> QED  BY ONLY <2>1
<1> QED  BY ONLY <1>3, <1>4, <1>6, <1>7

\* A file made from an ordinary one has one trampoline, the last segment.
LEMMA OutputOnce ==
  ASSUME NEW b \in Seq(Byte), NEW f, NEW entry, NEW tr, NEW off, NEW g, NEW h, NEW out, NEW dst,
         Patches(out, b, f, entry, tr, off, g, h, dst), Ordinary(f), Unmarked(f)
  PROVE  Trampolines(dst) = {Len(dst.phdrs)} /\ Len(dst.phdrs) \in 1..Len(dst.phdrs)
<1>1. /\ Job(b, f, entry, tr, off, g, h) /\ Regular(f) /\ Output(out, b, f, tr, off, g, h, dst)
      /\ Added(dst, f, TrampolineAddr(f), Len(tr.blob)) /\ resolveEntryDescriptor(f).value = entry
  BY DEF Patches
<1>2. Len(dst.phdrs) \in Trampolines(dst)
  BY ONLY <1>1, b \in Seq(Byte), OutputPatched
<1> DEFINE n  == Len(f.phdrs)
           bs == tr.entryPatchBytes
<1>3. n \in Nat /\ Len(dst.phdrs) = n + 1 /\ n + 1 \in 1..(n + 1)
  <2>1. n \in Nat /\ Len(dst.phdrs) = n + 1
    BY <1>1 DEF Added
  <2> HIDE DEF n
  <2> QED  BY ONLY <2>1
<1>4. ASSUME NEW i \in 1..n PROVE i \notin Trampolines(dst)
  <2>1. dst.phdrs[i] = f.phdrs[i] /\ dst.class = f.class /\ dst.data = f.data
    BY <1>1 DEF Added
  <2>2. \A name : P(dst, i, name) = P(f, i, name)
    BY ONLY <2>1 DEF P
  <2>3. SUFFICES ASSUME i \in LoadSegments(f), P(f, i, "p_filesz") >= MagicSize
                 PROVE  readAt(dst, P(f, i, "p_offset"), MagicSize) # Ok(TRAMPOLINE_MAGIC)
    BY <2>2 DEF Trampolines, LoadSegments
  <2> DEFINE from == P(f, i, "p_offset")
  <2>4. f \in FileType /\ Sized(f) /\ f.raw = b /\ dst \in FileType /\ Sized(dst) /\ dst.raw = out
    BY <1>1 DEF Job, Loaded, Output
  <2>5. from \in Nat
    <3>1. "p_offset" \in PhdrNames
      BY DEF PhdrNames
    <3> QED  BY <3>1, <2>4, SegmentFieldType
  <2>6. /\ Jump(entry.codeAddress, codeBaseAddr(TrampolineAddr(f))) = bs
        /\ vaddrToFileOffset(f, entry.codeAddress) = Ok(off)
    BY <1>1 DEF Job, Built, JumpIn
  <2>7. vaddrToFileOffset(f, entry.codeAddress).value = off
    <3>1. \A r : r = Ok(off) => r.value = off
      BY DEF Ok
    <3> QED  BY ONLY <3>1, <2>6
  <2>8. Window(f) = off..(off + Len(bs) - 1)
    <3>1. PICK at, d : DescriptorAt(f, entry, at, d)
      BY <1>1 DEF Job
    <3> QED  BY ONLY <1>1, <3>1, JobPlaces
  <2> DEFINE fields == FieldOffsets(64, "e_phoff") \cup FieldOffsets(64, "e_phnum")
             left(o) == IF o \in Window(f) THEN bs[o - off + 1] ELSE b[o + 1]
  <2>9. from + 8 <= Len(b) /\ \E k \in 0..7 : from + k \notin fields /\ TRAMPOLINE_MAGIC[k + 1] # left(from + k)
    <3>1. /\ from + MagicSize <= Len(f.raw)
          /\ \E k \in 0..(MagicSize - 1) :
               /\ from + k \notin fields
               /\ TRAMPOLINE_MAGIC[k + 1] #
                    IF from + k \in Window(f)
                    THEN Jump(entry.codeAddress, codeBaseAddr(TrampolineAddr(f)))[from + k - off + 1]
                    ELSE f.raw[from + k + 1]
      BY <2>3, <2>7, <1>1 DEF Unmarked
    <3>2. MagicSize = 8 /\ 0..(MagicSize - 1) = 0..7
      BY DEF MagicSize
    <3>3. PICK k \in 0..(MagicSize - 1) :
            /\ from + k \notin fields
            /\ TRAMPOLINE_MAGIC[k + 1] #
                 IF from + k \in Window(f)
                 THEN Jump(entry.codeAddress, codeBaseAddr(TrampolineAddr(f)))[from + k - off + 1]
                 ELSE f.raw[from + k + 1]
      BY ONLY <3>1
    <3>4. k \in 0..7 /\ from + k \notin fields
      BY ONLY <3>2, <3>3
    <3>5. TRAMPOLINE_MAGIC[k + 1] # left(from + k)
      <4> DEFINE o == from + k
      <4>1. TRAMPOLINE_MAGIC[k + 1] #
              IF o \in Window(f) THEN Jump(entry.codeAddress, codeBaseAddr(TrampolineAddr(f)))[o - off + 1]
              ELSE f.raw[o + 1]
        <5>1. off \in Nat
          BY <1>1 DEF Job, Built
        <5>2. k \in Nat
          BY ONLY <3>4
        <5> HIDE DEF from
        <5>3. from + k - off + 1 = o - off + 1
          BY ONLY <5>1, <5>2, <2>5
        <5> QED  BY ONLY <3>3, <5>3
      <4>2. TRAMPOLINE_MAGIC[k + 1] # left(o)
        <5> HIDE DEF o, from, bs
        <5> QED  BY ONLY <4>1, <2>4, <2>6
      <4> QED  BY ONLY <4>2
    <3>6. from + 8 <= Len(b)
      BY ONLY <3>1, <3>2, <2>4
    <3> HIDE DEF from, left, fields
    <3> QED  BY ONLY <3>4, <3>5, <3>6
  <2>10. PICK k \in 0..7 : from + k \notin fields /\ TRAMPOLINE_MAGIC[k + 1] # left(from + k)
    BY <2>9
  <2> DEFINE o == from + k
  <2>11. o \in 0..(Len(b) - 1) /\ o \in Nat
    <3>1. Len(b) \in Nat
      OBVIOUS
    <3> HIDE DEF from
    <3> QED  BY ONLY <3>1, <2>5, <2>9, k \in 0..7
  <2>12. o \notin fields /\ TRAMPOLINE_MAGIC[k + 1] # left(o)
    BY <2>10
  <2>13. out[o + 1] = left(o)
    <3> HIDE DEF from, bs, n, o
    <3>1. CASE o \in Window(f)
      <4>0. Window(f) \cap (HeaderOffsets(f) \cup ShdrOffsets(f)) = {}
        BY DEF Ordinary
      <4>1. Holds(out, off, bs) /\ bs \in Seq(Byte) /\ off \in Nat
        BY ONLY <1>1, <4>0, b \in Seq(Byte), OutputJump DEF bs
      <4>2. o \in off..(off + Len(bs) - 1)
        BY ONLY <3>1, <2>8
      <4>3. Len(bs) \in Nat
        BY ONLY <4>1
      <4>4. o - off + 1 \in 1..Len(bs) /\ off + (o - off + 1) = o + 1
        BY ONLY <4>1, <4>2, <4>3, <2>11
      <4>5. out[o + 1] = bs[o - off + 1]
        BY ONLY <4>1, <4>4 DEF Holds
      <4> QED  BY ONLY <4>5, <3>1
    <3>2. CASE o \notin Window(f)
      <4>1. \A x \in 0..(Len(b) - 1) : x \notin off..(off + Len(bs) - 1) \cup fields => out[x + 1] = b[x + 1]
        BY <1>1 DEF Output, bs
      <4>2. o \notin off..(off + Len(bs) - 1) \cup fields
        BY ONLY <3>2, <2>8, <2>12
      <4> QED  BY ONLY <4>1, <4>2, <3>2, <2>11
    <3> QED  BY <3>1, <3>2
  <2>14. from + 8 <= Len(out)
    <3>1. tr.blob \in Seq(Byte)
      BY <1>1 DEF Job, Built, Assembles
    <3> DEFINE m == Len(b)
               l == Len(tr.blob)
    <3>2. Len(out) = m + l + (n + 1) * 56
      BY <1>1 DEF Output
    <3>3. m \in Nat /\ l \in Nat /\ n \in Nat
      BY ONLY <3>1, <1>3, b \in Seq(Byte)
    <3> HIDE DEF from, m, l, n
    <3>4. from + 8 <= m
      BY <2>9 DEF m
    <3> QED  BY ONLY <3>2, <3>3, <3>4, <2>5
  <2>15. out[from + k + 1] # TRAMPOLINE_MAGIC[k + 1]
    BY ONLY <2>12, <2>13
  <2> HIDE DEF from, bs, n
  <2> QED  BY ONLY <2>4, <2>5, <2>14, <2>15, k \in 0..7, NotTheMagic DEF from
<1> HIDE DEF n
<1>5. \A i \in Trampolines(dst) : i \in 1..(n + 1)
  BY <1>3 DEF Trampolines, LoadSegments
<1>6. \A i \in 1..(n + 1) : i \in 1..n \/ i = n + 1
  BY ONLY <1>3
<1> QED  BY ONLY <1>2, <1>3, <1>4, <1>5, <1>6
=============================================================================
