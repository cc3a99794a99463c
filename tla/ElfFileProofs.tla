---------------------------- MODULE ElfFileProofs ----------------------------
(***************************************************************************)
(* TLAPS proofs about ElfFile, for every set of inputs, every argument of  *)
(* the mutators, every bound and every ByteBase: each property the runs    *)
(* check of one object, from the inductive invariant IInv.  What an        *)
(* operation does to a file is proved in ElfProofs.                        *)
(***************************************************************************)
EXTENDS ElfFile, ElfProofs

\* The offsets the caller may have changed: by a patch, or through one of the
\* header fields the mutators assign.
Touched == DOMAIN patched \cup MutableFields(file.class)

\* The two copies an object keeps agree with the buffer it was parsed from
\* everywhere else, the cached header describes the cached tables, and the raw
\* bytes hold every patch.
Intact ==
  /\ parseAny(input).ok
  /\ Sized(file)
  /\ Kept(file, input, Touched)
  /\ Coherent(file)
  /\ \A o \in DOMAIN patched : file.raw[o + 1] = patched[o]

\* The inductive invariant.
IInv == TypeOK /\ (status = "open" => Intact)

-----------------------------------------------------------------------------
(* The invariant is inductive. *)

\* The invariant holds before any call.
LEMMA InitIInv == Init => IInv
<1> SUFFICES ASSUME Init PROVE IInv
  OBVIOUS
<1>1. file \in FileType
  BY DEF Init, NoFile, FileType
<1>2. ops \in 0..MaxOps
  BY ElfFileAssumption DEF Init
<1> QED  BY <1>1, <1>2 DEF Init, IInv, TypeOK, NoPatches

\* parseAny of any buffer, fresh or just written, leaves the invariant true.
LEMMA AdoptIInv ==
  ASSUME NEW b \in Seq(Byte), Len(b) <= FileLimit, Adopt(b), ops' \in 0..MaxOps
  PROVE  IInv'
<1>e. DOMAIN NoPatches = {}
  BY DEF NoPatches
<1>1. CASE parseAny(b).ok
  <2>1. status' = "open" /\ err' = "none" /\ file' = parseAny(b).value /\ input' = b /\ patched' = NoPatches
    BY <1>1 DEF Adopt
  <2>2. file' \in FileType /\ Sized(file') /\ Kept(file', b, {}) /\ Coherent(file') /\ file'.raw = b
    BY <1>1, <2>1, ParseEstablishes
  <2>3. Kept(file', b, Touched')
    BY <2>2, KeptMore
  <2>4. TypeOK'
    BY <2>1, <2>2, <1>e DEF TypeOK, Sized, Kept, KeptRaw
  <2>5. Intact'
    BY <1>1, <1>e, <2>1, <2>2, <2>3 DEF Intact
  <2> QED  BY <2>4, <2>5 DEF IInv
<1>2. CASE ~ parseAny(b).ok
  <2>1. status' = "rejected" /\ err' \in ErrorCode /\ file' = NoFile /\ input' = b /\ patched' = NoPatches
    BY <1>2, ParseMeans DEF Adopt
  <2>2. file' \in FileType
    BY <2>1 DEF NoFile, FileType
  <2>3. TypeOK'
    BY <2>1, <2>2, <1>e DEF TypeOK
  <2> QED  BY <2>1, <2>3 DEF IInv
<1> QED  BY <1>1, <1>2

\* What the invariant says of an open object, for the steps below.
LEMMA OpenFacts ==
  ASSUME IInv, status = "open"
  PROVE  /\ file \in FileType /\ input \in Seq(Byte) /\ Sized(file) /\ Coherent(file)
         /\ Kept(file, input, Touched) /\ parseAny(input).ok
         /\ \A o \in DOMAIN patched : file.raw[o + 1] = patched[o]
         /\ DOMAIN patched \subseteq 0..(Len(file.raw) - 1)
         /\ Len(file.raw) \in Nat /\ Len(file.raw) <= FileLimit
         /\ FileLimit \in Nat /\ FileLimit < U32
  BY FileFacts, ElfFileAssumption DEF IInv, Intact, TypeOK

\* The argument of AddLoadSegmentKeeps, read off an open object and a segment.
LEMMA SegmentStep ==
  ASSUME IInv, NEW s \in Segments, CallAddLoadSegment(s)
  PROVE  /\ status = "open" /\ s.vaddr \in Nat /\ s.data \in Seq(Byte) /\ s.flags \in Nat /\ s.align \in Nat
         /\ Len(file.raw) + Len(s.data) <= FileLimit
         /\ file' \in FileType /\ Sized(file') /\ Coherent(file') /\ Kept(file', input, Touched)
         /\ Extended(file', file, s.vaddr, s.data, s.flags, s.align)
<1> DEFINE va == s.vaddr
           d  == s.data
           fl == s.flags
           al == s.align
           D  == Touched
           b  == input
<1>1. va \in Nat /\ d \in Seq(Byte) /\ fl \in Nat /\ al \in Nat
  BY ElfFileAssumption
<1>2. /\ status = "open" /\ Len(file.raw) + Len(d) <= FileLimit
      /\ file' = addLoadSegment(file, va, d, fl, al)
  BY DEF CallAddLoadSegment, Call
<1>3. Sized(file) /\ Coherent(file) /\ Kept(file, b, D) /\ file \in FileType /\ b \in Seq(Byte)
  BY <1>2, OpenFacts
<1>4. Len(file.raw) + Len(d) < U32
  <2> DEFINE m == Len(file.raw)
             n == Len(d)
  <2>1. m \in Nat /\ n \in Nat /\ FileLimit \in Nat /\ FileLimit < U32 /\ U32 \in Nat
    <3>1. m \in Nat
      BY <1>2, OpenFacts
    <3>2. n \in Nat
      BY <1>1
    <3>3. FileLimit \in Nat /\ FileLimit < U32
      BY ElfFileAssumption
    <3>4. U32 \in Nat
      BY Moduli
    <3> QED  BY <3>1, <3>2, <3>3, <3>4
  <2>2. m + n <= FileLimit
    BY <1>2
  <2> HIDE DEF m, n
  <2>3. m + n < U32
    BY ONLY <2>1, <2>2
  <2> QED  BY <2>3 DEF m, n
<1>5. FieldOffsets(file.class, "e_phoff") \cup FieldOffsets(file.class, "e_phnum") \subseteq D
  BY DEF Touched, MutableFields
<1> HIDE DEF va, d, fl, al, D, b
<1>6. LET g == addLoadSegment(file, va, d, fl, al)
      IN  /\ g \in FileType /\ Sized(g) /\ Kept(g, b, D) /\ Coherent(g)
          /\ Extended(g, file, va, d, fl, al)
  BY <1>1, <1>3, <1>4, <1>5, AddLoadSegmentKeeps
<1> QED  BY <1>1, <1>2, <1>6 DEF va, d, fl, al, D, b

\* Every call preserves the invariant.
LEMMA NextIInv == IInv /\ [Next]_vars => IInv'
<1> SUFFICES ASSUME IInv, [Next]_vars PROVE IInv'
  OBVIOUS
<1>t. /\ file \in FileType /\ input \in Seq(Byte) /\ ops \in 0..MaxOps /\ MaxOps \in Nat
      /\ err \in ErrorCode \cup {"none"}
      /\ \A o \in DOMAIN patched : patched[o] \in Byte
  BY ElfFileAssumption DEF IInv, TypeOK
<1>c. ASSUME Call PROVE status = "open" /\ ops' \in 0..MaxOps
  BY <1>c, <1>t DEF Call
<1>1. ASSUME NEW b \in Inputs, ParseInput(b) PROVE IInv'
  <2>1. b \in Seq(Byte) /\ Len(b) <= FileLimit
    BY ElfFileAssumption
  <2>2. Adopt(b) /\ ops' \in 0..MaxOps
    BY <1>1, <1>t DEF ParseInput
  <2> QED  BY <2>1, <2>2, AdoptIInv
<1>2. ASSUME NEW a \in EntryAddrs, CallSetEntry(a) PROVE IInv'
  <2>1. /\ Call /\ file' = setEntry(file, a) /\ err' = "none" /\ status' = status
        /\ input' = input /\ patched' = patched /\ a \in Nat
    BY <1>2, ElfFileAssumption DEF CallSetEntry
  <2>o. status = "open" /\ ops' \in 0..MaxOps
    BY <2>1, <1>c
  <2>d. FieldOffsets(file.class, "e_entry") \subseteq Touched
    BY DEF Touched, MutableFields
  <2>2. /\ file' \in FileType /\ Sized(file') /\ Kept(file', input, Touched) /\ Coherent(file')
        /\ file'.raw = file.raw /\ file'.class = file.class
    <3>1. file'.class = file.class
      BY <2>1, <1>t DEF setEntry, FileType
    <3> QED  BY <2>1, <2>o, <2>d, <3>1, OpenFacts, SetEntryKeeps
  <2>3. TypeOK'
    BY <2>1, <2>o, <2>2, <1>t, OpenFacts DEF TypeOK, Sized, Kept, KeptRaw
  <2>4. Intact'
    BY <2>1, <2>o, <2>2, OpenFacts DEF Intact, Touched
  <2> QED  BY <2>3, <2>4 DEF IInv
<1>3. ASSUME NEW off \in PatchOffsets, NEW bs \in PatchBytes, CallPatch(off, bs) PROVE IInv'
  <2>0. off \in Nat /\ bs \in Seq(Byte) /\ Len(bs) \in Nat
    BY ElfFileAssumption
  <2>1. Call /\ status' = status /\ input' = input
    BY <1>3 DEF CallPatch
  <2>o. status = "open" /\ ops' \in 0..MaxOps
    BY <2>1, <1>c
  <2>2. CASE patchBytesAt(file, off, bs).ok
    <3> DEFINE n == Len(bs)
               m == Len(file.raw)
               r == file.raw
               q == file'.raw
    <3>1. /\ file' = patchBytesAt(file, off, bs).value /\ err' = "none"
          /\ patched' = Overwrite(patched, off, bs)
      BY <1>3, <2>2 DEF CallPatch
    <3>2. /\ file' \in FileType /\ Sized(file') /\ Coherent(file')
          /\ Kept(file', input, Touched \cup off..(off + n - 1))
          /\ Len(q) = m /\ off + n <= m /\ file'.class = file.class
          /\ \A i \in 1..n : q[off + i] = bs[i]
          /\ \A i \in 1..m : i \notin (off + 1)..(off + n) => q[i] = r[i]
      <4> DEFINE D == Touched
                 b == input
                 g == patchBytesAt(file, off, bs).value
      <4>1. file \in FileType /\ b \in Seq(Byte) /\ Sized(file) /\ Coherent(file) /\ Kept(file, b, D)
        BY <2>o, OpenFacts
      <4> HIDE DEF D, b
      <4>2. g \in FileType /\ Sized(g) /\ PatchedAt(g, file, off, bs)
        BY <4>1, <2>0, <2>2, PatchShape
      <4> HIDE DEF g
      <4>3. Coherent(g) /\ Kept(g, b, D \cup off..(off + Len(bs) - 1))
        BY <4>1, <4>2, <2>0, PatchKeeps
      <4> QED  BY <3>1, <4>2, <4>3 DEF D, b, g, PatchedAt
    <3>d. /\ DOMAIN patched' = DOMAIN patched \cup off..(off + n - 1)
          /\ \A o \in DOMAIN patched' : patched'[o] = IF o \in off..(off + n - 1) THEN bs[o - off + 1] ELSE patched[o]
      BY <3>1 DEF Overwrite
    <3>m. n \in Nat /\ m \in Nat /\ DOMAIN patched \subseteq 0..(m - 1) /\ m <= FileLimit
      BY <2>0, <2>o, OpenFacts
    <3>p. \A o \in DOMAIN patched : r[o + 1] = patched[o]
      BY <2>o, OpenFacts
    <3>3. \A o \in DOMAIN patched' : patched'[o] \in Byte
      BY <3>1, <2>0, <1>t DEF Overwrite
    <3>4. DOMAIN patched' \subseteq 0..(m - 1)
      <4> HIDE DEF n, m
      <4>1. off..(off + n - 1) \subseteq 0..(m - 1)
        BY <3>m, <3>2, <2>0
      <4> QED  BY <4>1, <3>m, <3>d
    <3>5. TypeOK'
      BY <2>1, <2>o, <3>1, <3>2, <3>3, <3>4, <3>m, <1>t DEF TypeOK, Sized, Kept, KeptRaw
    <3>6. Kept(file', input, Touched')
      <4>1. Touched' = Touched \cup off..(off + n - 1)
        BY <3>2, <3>d DEF Touched
      <4> QED  BY <4>1, <3>2
    <3>7. ASSUME NEW o \in DOMAIN patched' PROVE q[o + 1] = patched'[o]
      <4> HIDE DEF n, m, r, q
      <4>1. CASE o \in off..(off + n - 1)
        <5>1. o - off + 1 \in 1..n /\ off + (o - off + 1) = o + 1
          BY <4>1, <3>m, <2>0
        <5> QED  BY <5>1, <4>1, <3>2, <3>d
      <4>2. CASE o \notin off..(off + n - 1)
        <5>1. o \in DOMAIN patched /\ o \in 0..(m - 1)
          BY <4>2, <3>d, <3>m
        <5>2. o + 1 \in 1..m /\ o + 1 \notin (off + 1)..(off + n)
          BY <5>1, <4>2, <3>m, <2>0
        <5> QED  BY <5>1, <5>2, <4>2, <3>2, <3>d, <3>p
      <4> QED  BY <4>1, <4>2
    <3>8. Intact'
      BY <2>1, <2>o, <3>2, <3>6, <3>7, OpenFacts DEF Intact
    <3> QED  BY <3>5, <3>8 DEF IInv
  <2>3. CASE ~ patchBytesAt(file, off, bs).ok
    <3>1. /\ err' = patchBytesAt(file, off, bs).code /\ file' = file /\ patched' = patched
      BY <1>3, <2>3 DEF CallPatch
    <3>2. err' \in ErrorCode
      BY <3>1, <2>3 DEF patchBytesAt, Ok, Err, ErrorCode
    <3>3. TypeOK'
      BY <2>1, <2>o, <3>1, <3>2, <1>t DEF TypeOK, IInv
    <3>4. Intact'
      BY <2>1, <2>o, <3>1 DEF Intact, IInv, Touched
    <3> QED  BY <3>3, <3>4 DEF IInv
  <2> QED  BY <2>2, <2>3
<1>4. ASSUME NEW s \in Segments, CallAddLoadSegment(s) PROVE IInv'
  <2> DEFINE n == Len(s.data)
             m == Len(file.raw)
             r == file.raw
  <2>1. Call /\ err' = "none" /\ status' = status /\ input' = input /\ patched' = patched
    BY <1>4 DEF CallAddLoadSegment
  <2>o. status = "open" /\ ops' \in 0..MaxOps
    BY <2>1, <1>c
  <2>2. /\ s.data \in Seq(Byte) /\ m + n <= FileLimit
        /\ file' \in FileType /\ Sized(file') /\ Coherent(file') /\ Kept(file', input, Touched)
        /\ file'.class = file.class /\ file'.raw = r \o s.data /\ Len(file'.raw) = m + n
    BY <1>4, SegmentStep DEF Extended
  <2>3. n \in Nat /\ m \in Nat /\ DOMAIN patched \subseteq 0..(m - 1) /\ r \in Seq(Byte)
    BY <2>2, <2>o, OpenFacts, FileFacts
  <2>4. DOMAIN patched' \subseteq 0..(Len(file'.raw) - 1)
    <3> HIDE DEF n, m
    <3>2. 0..(m - 1) \subseteq 0..(m + n - 1)
      BY <2>3
    <3> QED  BY <3>2, <2>1, <2>2, <2>3
  <2>5. TypeOK'
    BY <2>1, <2>o, <2>2, <2>4, <1>t DEF TypeOK, Sized, Kept, KeptRaw
  <2>6. \A o \in DOMAIN patched : file'.raw[o + 1] = patched[o]
    <3>1. \A i \in 1..m : file'.raw[i] = r[i]
      <4> DEFINE d == s.data
      <4>1. d \in Seq(Byte) /\ file'.raw = r \o d
        BY <2>2
      <4> HIDE DEF d, r
      <4>2. \A i \in 1..Len(r) : (r \o d)[i] = r[i]
        BY <4>1, <2>3, Concat
      <4> QED  BY <4>1, <4>2 DEF r
    <3>2. \A o \in DOMAIN patched : o + 1 \in 1..m
      <4> HIDE DEF m
      <4> QED  BY <2>3
    <3>3. \A o \in DOMAIN patched : r[o + 1] = patched[o]
      BY <2>o, OpenFacts
    <3> HIDE DEF m, r
    <3> QED  BY <3>1, <3>2, <3>3
  <2>7. Intact'
    BY <2>1, <2>o, <2>2, <2>6, OpenFacts DEF Intact, Touched
  <2> QED  BY <2>5, <2>7 DEF IInv
<1>5. ASSUME SaveAndReopen PROVE IInv'
  <2>1. Call /\ Len(serialize(file)) <= FileLimit /\ Adopt(serialize(file))
    BY <1>5 DEF SaveAndReopen
  <2>2. serialize(file) \in Seq(Byte)
    BY <2>1, <1>c, OpenFacts, SerializeKeeps
  <2> QED  BY <2>1, <2>2, <1>c, AdoptIInv
<1>6. CASE UNCHANGED vars
  BY <1>6 DEF vars, IInv, TypeOK, Intact, Touched
<1> QED  BY <1>1, <1>2, <1>3, <1>4, <1>5, <1>6 DEF Next

-----------------------------------------------------------------------------
(* The theorems. *)

\* For every set of inputs and arguments, every ByteBase and every bound: the
\* object stays well typed, its cached structs keep the sizes of the C++
\* structs, and no patch lands outside the buffer (patchBytesAt, regionFits).
THEOREM TypeCorrect == Spec => []TypeOK
<1>1. IInv => TypeOK
  BY DEF IInv
<1> QED  BY InitIInv, NextIInv, <1>1, PTL DEF Spec

\* For every set of inputs and arguments: whatever mutators ran, serialize()
\* writes every byte of the input that was neither patched nor is part of
\* e_entry, e_phoff or e_phnum back to its old offset.
THEOREM InputKept == Spec => []InputBytesKept
<1>1. IInv => InputBytesKept
  <2> SUFFICES ASSUME IInv, status = "open"
               PROVE  \A o \in 0..(Len(input) - 1) :
                        o \notin Touched => serialize(file)[o + 1] = input[o + 1]
    BY DEF InputBytesKept, Touched
  <2> QED  BY OpenFacts, SerializeKeeps
<1> QED  BY InitIInv, NextIInv, <1>1, PTL DEF Spec

\* For every buffer parse() accepts, however its tables overlap each other or
\* the header: serialize() of the object as parsed is that buffer.
THEOREM RoundTripHolds == Spec => []RoundTrip
<1>1. IInv => RoundTrip
  BY OpenFacts, SerializeParsed DEF RoundTrip
<1> QED  BY InitIInv, NextIInv, <1>1, PTL DEF Spec

\* Whatever calls came after it: a byte patchBytesAt wrote outside the header
\* and the two tables is in the file serialize() writes.
THEOREM PatchesKept == Spec => []PatchesSurvive
<1>1. IInv => PatchesSurvive
  <2> DEFINE out     == serialize(file)
             covered == HeaderOffsets(file) \cup PhdrOffsets(file) \cup ShdrOffsets(file)
  <2> SUFFICES ASSUME IInv, status = "open", NEW o \in DOMAIN patched \ covered
               PROVE  out[o + 1] = patched[o]
    BY DEF PatchesSurvive
  <2>1. o \in 0..(Len(file.raw) - 1) /\ o \notin covered /\ file.raw[o + 1] = patched[o]
    BY OpenFacts
  <2>2. \A x \in 0..(Len(file.raw) - 1) : x \notin covered => out[x + 1] = file.raw[x + 1]
    BY OpenFacts, SerializeShape
  <2> QED  BY <2>1, <2>2
<1> QED  BY InitIInv, NextIInv, <1>1, PTL DEF Spec

\* In every layout without overlaps: parseAny accepts what serialize() wrote
\* and finds the header, the segments and the sections that were in memory.
THEOREM ReparseHolds == Spec => []ReparseAgrees
<1>1. IInv => ReparseAgrees
  <2> SUFFICES ASSUME IInv, status = "open", SoundLayout(file)
               PROVE  LET r == parseAny(serialize(file))
                      IN  r.ok /\ \A k \in {"class", "data", "header", "phdrs", "shdrs"} : r.value[k] = file[k]
    BY DEF ReparseAgrees
  <2>1. /\ parseAny(serialize(file)).ok
        /\ parseAny(serialize(file)).value.class = file.class
        /\ parseAny(serialize(file)).value.data = file.data
        /\ parseAny(serialize(file)).value.header = file.header
        /\ parseAny(serialize(file)).value.phdrs = file.phdrs
        /\ parseAny(serialize(file)).value.shdrs = file.shdrs
    BY OpenFacts, Reparse
  <2> QED  BY <2>1
<1> QED  BY InitIInv, NextIInv, <1>1, PTL DEF Spec

\* For every address, every call with every argument, and every saving and reopening
\* of a file whose layout is sound: an address that was mapped keeps its file
\* offset (addLoadSegment, patchBytesAt, setEntry, serialize and parse).
THEOREM TranslationKeeps == Spec => TranslationStable
<1>1. ASSUME IInv, [Next]_vars, status = "open", SaveAndReopen => SoundLayout(file),
             NEW a \in Addresses, vaddrToFileOffset(file, a).ok
      PROVE  vaddrToFileOffset(file', a) = vaddrToFileOffset(file, a)
  <2>f. file \in FileType /\ Sized(file) /\ Coherent(file)
    BY <1>1, OpenFacts
  <2>h. a \in Nat /\ \A i \in Hits(file, a) : OffsetIn(file, i, a) \in Nat
    <3>1. a \in Nat
      BY Moduli, ElfFileAssumption
    <3> QED  BY <3>1, <2>f, OffsetType
  <2>l. Len(file.phdrs) \in Nat /\ Len(file.raw) \in Nat
    BY <2>f, FileFacts
  <2>1. ASSUME /\ file'.class = file.class /\ file'.data = file.data
               /\ Len(file'.phdrs) \in Nat /\ Len(file'.phdrs) >= Len(file.phdrs)
               /\ \A i \in 1..Len(file.phdrs) : file'.phdrs[i] = file.phdrs[i]
               /\ Len(file'.raw) \in Nat /\ Len(file'.raw) >= Len(file.raw)
        PROVE  vaddrToFileOffset(file', a) = vaddrToFileOffset(file, a)
    BY <2>1, <2>h, <2>l, <1>1, TranslationKept
  <2>2. ASSUME NEW b \in Inputs, ParseInput(b) PROVE FALSE
    BY <2>2, <1>1 DEF ParseInput
  <2>3. ASSUME NEW e \in EntryAddrs, CallSetEntry(e)
        PROVE  vaddrToFileOffset(file', a) = vaddrToFileOffset(file, a)
    <3>1. /\ file'.class = file.class /\ file'.data = file.data
          /\ file'.phdrs = file.phdrs /\ file'.raw = file.raw
      BY <2>3, <2>f DEF CallSetEntry, setEntry, FileType
    <3> QED  BY <3>1, <2>l, <2>1
  <2>4. ASSUME NEW off \in PatchOffsets, NEW bs \in PatchBytes, CallPatch(off, bs)
        PROVE  vaddrToFileOffset(file', a) = vaddrToFileOffset(file, a)
    <3> DEFINE r == patchBytesAt(file, off, bs)
    <3>1. CASE r.ok
      <4>1. file' = r.value
        BY <2>4, <3>1 DEF CallPatch
      <4>2. PatchedAt(r.value, file, off, bs)
        BY <3>1, PatchShape, <2>f, ElfFileAssumption
      <4> QED  BY <4>1, <4>2, <2>l, <2>1 DEF PatchedAt
    <3>2. CASE ~ r.ok
      <4>1. file' = file
        BY <2>4, <3>2 DEF CallPatch
      <4> QED  BY <4>1
    <3> QED  BY <3>1, <3>2
  <2>5. ASSUME NEW s \in Segments, CallAddLoadSegment(s)
        PROVE  vaddrToFileOffset(file', a) = vaddrToFileOffset(file, a)
    <3>1. /\ s.data \in Seq(Byte) /\ file' \in FileType /\ Sized(file')
          /\ file'.class = file.class /\ file'.data = file.data
          /\ file'.phdrs = Append(file.phdrs, LoadPhdr(file, s.vaddr, Len(s.data), s.flags, s.align))
          /\ Len(file'.raw) = Len(file.raw) + Len(s.data)
      BY <1>1, <2>5, SegmentStep DEF Extended
    <3>2. /\ Len(file'.phdrs) \in Nat /\ Len(file'.phdrs) >= Len(file.phdrs)
          /\ \A i \in 1..Len(file.phdrs) : file'.phdrs[i] = file.phdrs[i]
      <4> DEFINE ps == file.phdrs
                 ph == LoadPhdr(file, s.vaddr, Len(s.data), s.flags, s.align)
                 pt == file'.phdrs
      <4>1. ps \in Seq(Seq(Byte)) /\ pt \in Seq(Seq(Byte)) /\ pt = Append(ps, ph)
        BY <3>1, <2>f, FileFacts
      <4> HIDE DEF ps, ph, pt
      <4>2. Len(ps) \in Nat /\ Len(pt) = Len(ps) + 1 /\ \A i \in 1..Len(ps) : pt[i] = ps[i]
        BY ONLY <4>1
      <4> QED  BY <4>2 DEF ps, pt
    <3>3. Len(file'.raw) \in Nat /\ Len(file'.raw) >= Len(file.raw)
      <4> DEFINE m == Len(file.raw)
                 n == Len(s.data)
      <4>1. m \in Nat /\ n \in Nat /\ Len(file'.raw) = m + n
        BY <3>1, <2>f, FileFacts
      <4> HIDE DEF m, n
      <4>2. m + n \in Nat /\ m + n >= m
        BY ONLY <4>1
      <4> QED  BY <4>1, <4>2 DEF m
    <3> QED  BY <3>1, <3>2, <3>3, <2>1
  <2>6. ASSUME SaveAndReopen
        PROVE  vaddrToFileOffset(file', a) = vaddrToFileOffset(file, a)
    <3> DEFINE out == serialize(file)
               v   == parseAny(out).value
    <3>1. /\ parseAny(out).ok /\ v.class = file.class /\ v.data = file.data
          /\ v.phdrs = file.phdrs /\ v.raw = out
      BY <1>1, <2>6, <2>f, Reparse
    <3>2. file' = v
      BY <2>6, <3>1 DEF SaveAndReopen, Adopt
    <3>3. Len(out) \in Nat /\ Len(out) >= Len(file.raw)
      BY <2>f, SerializeShape
    <3> HIDE DEF out, v
    <3> QED  BY <3>1, <3>2, <3>3, <2>l, <2>1
  <2>7. CASE UNCHANGED vars
    BY <2>7 DEF vars
  <2> QED  BY <1>1, <2>2, <2>3, <2>4, <2>5, <2>6, <2>7 DEF Next
<1>2. IInv /\ [Next]_vars => KeepsTranslation
  BY <1>1 DEF KeepsTranslation
<1> QED  BY InitIInv, NextIInv, <1>2, PTL DEF Spec, TranslationStable

\* What backs an address has it, unless the range of the segment wraps: then
\* nothing is backed.
LEMMA HasMeansBacks ==
  ASSUME NEW f \in FileType, Sized(f), NEW i \in 1..Len(f.phdrs), NEW a \in Nat
  PROVE  Backs(f, i, a) => HasAddress(f, i, a)
<1> DEFINE v == P(f, i, "p_vaddr")
           n == P(f, i, "p_filesz")
           t == P(f, i, "p_type")
<1>1. v \in Nat /\ n \in Nat /\ v < U64 /\ n < U64 /\ U64 \in Nat /\ U64 > 0
  BY SegmentFieldBound, Moduli DEF PhdrNames
<1>2. Backs(f, i, a) <=> t = PT_LOAD /\ a >= v /\ a < (v + n) % U64
  BY DEF Backs
<1>3. HasAddress(f, i, a) <=> t = PT_LOAD /\ v + n < U64 /\ a \in v..(v + n - 1)
  BY DEF HasAddress
<1> HIDE DEF v, n, t
<1>4. v + n < U64 => (v + n) % U64 = v + n
  <2> DEFINE x == v + n
  <2>1. x \in Nat
    BY ONLY <1>1
  <2> HIDE DEF x
  <2>2. x < U64 => x % U64 = x
    BY ONLY <1>1, <2>1
  <2> QED  BY <2>2 DEF x
<1>5. v + n >= U64 => (v + n) % U64 <= v
  <2> SUFFICES ASSUME v + n >= U64 PROVE (v + n) % U64 <= v
    OBVIOUS
  <2> DEFINE x == v + n - U64
  <2>1. x \in Nat /\ x < U64 /\ v + n = x + U64 /\ x <= v
    BY ONLY <1>1, v + n >= U64
  <2> HIDE DEF x
  <2>2. (x + U64) % U64 = x
    BY ONLY <1>1, <2>1
  <2> QED  BY <2>1, <2>2
<1> DEFINE w == (v + n) % U64
<1>6. w \in Nat
  <2> DEFINE x == v + n
  <2>1. x \in Nat
    BY ONLY <1>1
  <2> HIDE DEF x
  <2> QED  BY <2>1, <1>1, DivMod DEF x
<1> HIDE DEF w
<1>7. Backs(f, i, a) => t = PT_LOAD /\ v + n < U64 /\ a \in v..(v + n - 1)
  BY <1>1, <1>2, <1>4, <1>5, <1>6 DEF w
<1> QED  BY <1>3, <1>7

\* For every segment added, segmentData returns its data.  If it lies within the
\* address space of the file's class, each of its addresses that no older segment
\* has resolves, and reading there returns the data (addLoadSegment, segmentData,
\* vaddrToFileOffset, readAt).  An older segment that wraps
\* around the address space has none.
THEOREM SegmentReadable == Spec => NewSegmentReadable
<1>1. ASSUME IInv, NEW s \in Segments, CallAddLoadSegment(s), s.vaddr + Len(s.data) < AddressLimit(file),
             NEW k \in 0..(Len(s.data) - 1),
             ~ \E i \in 1..Len(file.phdrs) : HasAddress(file, i, s.vaddr + k)
      PROVE  ReadsByte(file', s.vaddr + k, s.data[k + 1])
  <2> DEFINE va == s.vaddr
             d  == s.data
             fl == s.flags
             al == s.align
             a  == va + k
             m  == Len(file.raw)
             n  == Len(d)
  <2>1. /\ status = "open" /\ va \in Nat /\ d \in Seq(Byte) /\ fl \in Nat /\ al \in Nat
        /\ file' \in FileType /\ Sized(file')
        /\ Extended(file', file, va, d, fl, al)
        /\ m + n <= FileLimit
    BY <1>1, SegmentStep
  <2>2. file \in FileType /\ Sized(file) /\ m \in Nat /\ FileLimit \in Nat /\ FileLimit < U32
    BY <1>1, <2>1, OpenFacts
  <2>3. n \in Nat /\ U32 \in Nat /\ va + n < AddressLimit(file) /\ k \in 0..(n - 1)
    BY <1>1, <2>1, Moduli
  <2>4. Hits(file, a) = {}
    <3>1. a \in Nat
      BY <2>1
    <3> QED  BY <1>1, <2>2, <3>1, HasMeansBacks DEF Hits
  <2> HIDE DEF va, d, fl, al, m, n
  <2>5. m + n < U32 /\ k \in Nat /\ k < n /\ a = va + k
    BY ONLY <2>1, <2>2, <2>3
  <2> HIDE DEF a
  <2>6. ReadsByte(file', a, d[k + 1])
    BY <2>1, <2>2, <2>3, <2>4, <2>5, AddedSegment DEF m, n, AddressLimit
  <2> QED  BY <2>6 DEF va, d, a
<1>2. ASSUME IInv, NEW s \in Segments, CallAddLoadSegment(s)
      PROVE  segmentData(file', Len(file'.phdrs)) = Ok(s.data)
  <2>1. /\ status = "open" /\ s.vaddr \in Nat /\ s.data \in Seq(Byte) /\ s.flags \in Nat /\ s.align \in Nat
        /\ file' \in FileType /\ Sized(file')
        /\ Extended(file', file, s.vaddr, s.data, s.flags, s.align)
        /\ Len(file.raw) + Len(s.data) <= FileLimit
    BY <1>2, SegmentStep
  <2>2. file \in FileType /\ Sized(file) /\ Len(file.raw) \in Nat /\ FileLimit \in Nat /\ FileLimit < U32
    BY <1>2, <2>1, OpenFacts
  <2> DEFINE va == s.vaddr
             d  == s.data
             fl == s.flags
             al == s.align
             m  == Len(file.raw)
             n  == Len(d)
  <2>3. n \in Nat /\ U32 \in Nat
    BY <2>1, Moduli
  <2>4. m + n <= FileLimit
    BY <2>1
  <2> HIDE DEF m, n
  <2>5. m + n < U32
    <3>1. m \in Nat
      BY <2>2 DEF m
    <3> QED  BY ONLY <2>2, <2>3, <2>4, <3>1
  <2>6. va \in Nat /\ d \in Seq(Byte) /\ fl \in Nat /\ al \in Nat /\ Extended(file', file, va, d, fl, al)
    BY <2>1
  <2> HIDE DEF va, d, fl, al
  <2>7. segmentData(file', Len(file'.phdrs)) = Ok(d)
    BY <2>1, <2>2, <2>5, <2>6, AddedData DEF m, n
  <2> QED  BY <2>7 DEF d
<1>3. IInv => AddIsReadable
  BY <1>1, <1>2 DEF AddIsReadable, ReadsByte
<1> QED  BY InitIInv, NextIInv, <1>3, PTL DEF Spec, NewSegmentReadable
=============================================================================
