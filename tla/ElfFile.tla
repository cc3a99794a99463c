------------------------------- MODULE ElfFile -------------------------------
(***************************************************************************)
(* One elf::ElfFile object and the caller that drives it: parse a buffer,  *)
(* call the mutators in any order with any arguments, write the result     *)
(* with serialize() and parse that again.                                  *)
(*                                                                         *)
(* The object caches the header and both tables next to the raw bytes they *)
(* were read from, so every mutator changes one of two copies of the same  *)
(* data and serialize() has to merge them.  The properties say that the    *)
(* merge loses nothing.                                                    *)
(***************************************************************************)
EXTENDS Elf

CONSTANTS
  Inputs,       \* buffers handed to parseAny
  EntryAddrs,   \* arguments of setEntry
  PatchOffsets, \* offsets and
  PatchBytes,   \*   contents given to patchBytesAt
  Segments,     \* arguments of addLoadSegment: [vaddr, data, flags, align]
  Addresses,    \* arguments of vaddrToFileOffset
  MaxOps,       \* bound: mutator and save calls on one object
  FileLimit     \* bound: the size of a file stays below a 32-bit offset

ASSUME ElfFileAssumption ==
  /\ Inputs \subseteq Seq(Byte)
  /\ EntryAddrs \subseteq Nat
  /\ PatchOffsets \subseteq Nat
  /\ PatchBytes \subseteq Seq(Byte)
  /\ Segments \subseteq [vaddr : Nat, data : Seq(Byte), flags : Nat, align : Nat]
  /\ Addresses \subseteq 0..(U64 - 1)
  /\ MaxOps \in Nat
  /\ FileLimit \in Nat /\ FileLimit < U32
  /\ \A b \in Inputs : Len(b) <= FileLimit

VARIABLES
  status,   \* "closed", "open", or "rejected" when parseAny returned an error
  err,      \* the ErrorCode of the last call, or "none"
  file,     \* header_, phdrs_, shdrs_, raw_ of the object
  input,    \* history: the buffer this object was parsed from
  patched,  \* history: file offset -> the byte last written there
  ops       \* history: calls made, bounded by MaxOps

vars == << status, err, file, input, patched, ops >>

NoFile    == [class |-> 64, data |-> "Big", header |-> << >>, phdrs |-> << >>,
              shdrs |-> << >>, raw |-> << >>]
NoPatches == [o \in {} |-> 0]

\* Types, the sizes of the cached structs, and that every write stayed inside
\* the buffer: regionFits in patchBytesAt must hold for offsets near 2^64 too.
TypeOK ==
  /\ status \in {"closed", "open", "rejected"}
  /\ err \in ErrorCode \cup {"none"}
  /\ file \in FileType
  /\ input \in Seq(Byte)
  /\ ops \in 0..MaxOps
  /\ \A o \in DOMAIN patched : patched[o] \in Byte
  /\ status = "open" =>
       /\ Len(file.header) = EhdrSize(file.class)
       /\ \A i \in 1..Len(file.phdrs) : Len(file.phdrs[i]) = PhdrSize(file.class)
       /\ \A i \in 1..Len(file.shdrs) : Len(file.shdrs[i]) = ShdrSize(file.class)
       /\ Len(file.header) <= Len(input) /\ Len(input) <= Len(file.raw)
       /\ Len(file.raw) <= FileLimit
       /\ DOMAIN patched \subseteq 0..(Len(file.raw) - 1)

-----------------------------------------------------------------------------
Init ==
  /\ status = "closed"
  /\ err = "none"
  /\ file = NoFile
  /\ input = << >>
  /\ patched = NoPatches
  /\ ops = 0

\* What parseAny leaves its caller with.
Adopt(b) ==
  LET r == parseAny(b)
  IN  /\ input' = b
      /\ patched' = NoPatches
      /\ \/ r.ok /\ status' = "open" /\ err' = "none" /\ file' = r.value
         \/ ~ r.ok /\ status' = "rejected" /\ err' = r.code /\ file' = NoFile

ParseInput(b) ==
  /\ status = "closed"
  /\ Adopt(b)
  /\ UNCHANGED ops

\* Every call on the object counts against MaxOps.
Call ==
  /\ status = "open"
  /\ ops < MaxOps
  /\ ops' = ops + 1

CallSetEntry(a) ==
  /\ Call
  /\ file' = setEntry(file, a)
  /\ err' = "none"
  /\ UNCHANGED << status, input, patched >>

Overwrite(p, off, bs) ==
  [o \in DOMAIN p \cup off..(off + Len(bs) - 1) |->
     IF o \in off..(off + Len(bs) - 1) THEN bs[o - off + 1] ELSE p[o]]

CallPatch(off, bs) ==
  LET r == patchBytesAt(file, off, bs)
  IN  /\ Call
      /\ \/ r.ok /\ file' = r.value /\ err' = "none" /\ patched' = Overwrite(patched, off, bs)
         \/ ~ r.ok /\ err' = r.code /\ UNCHANGED << file, patched >>
      /\ UNCHANGED << status, input >>

CallAddLoadSegment(s) ==
  /\ Len(file.raw) + Len(s.data) <= FileLimit
  /\ Call
  /\ file' = addLoadSegment(file, s.vaddr, s.data, s.flags, s.align)
  /\ err' = "none"
  /\ UNCHANGED << status, input, patched >>

\* serialize() to disk, and parseAny of what was written.
SaveAndReopen ==
  /\ Call
  /\ Len(serialize(file)) <= FileLimit
  /\ Adopt(serialize(file))

Next ==
  \/ \E b \in Inputs : ParseInput(b)
  \/ \E a \in EntryAddrs : CallSetEntry(a)
  \/ \E off \in PatchOffsets, bs \in PatchBytes : CallPatch(off, bs)
  \/ \E s \in Segments : CallAddLoadSegment(s)
  \/ SaveAndReopen

Spec == Init /\ [][Next]_vars

-----------------------------------------------------------------------------
(***************************************************************************)
(* Properties.                                                             *)
(***************************************************************************)

\* The comment on serialize(): a file that has not been mutated is written
\* back byte for byte, whatever its tables overlap.
RoundTrip ==
  status = "open" /\ file = parseAny(input).value => serialize(file) = input

\* "leaving everything else copied verbatim from the originally-parsed bytes":
\* after any sequence of mutators, a byte of the input that no patch wrote and
\* that is not one of the three header fields the mutators assign is still
\* there at its old offset.  In particular a growing program header table
\* never lands on data.
InputBytesKept ==
  status = "open" =>
    LET out == serialize(file)
    IN  \A o \in 0..(Len(input) - 1) :
          o \notin DOMAIN patched \cup MutableFields(file.class) => out[o + 1] = input[o + 1]

\* A byte patchBytesAt wrote is in the written file, unless serialize()
\* covers its place with the cached header or a cached table.
PatchesSurvive ==
  status = "open" =>
    LET out     == serialize(file)
        covered == HeaderOffsets(file) \cup PhdrOffsets(file) \cup ShdrOffsets(file)
    IN  \A o \in DOMAIN patched \ covered : out[o + 1] = patched[o]

\* serialize() and parse() agree on the mutated object too: the header, the
\* segments and the sections read back are the ones in memory.
ReparseAgrees ==
  status = "open" /\ SoundLayout(file) =>
    LET r == parseAny(serialize(file))
    IN  r.ok /\ \A k \in {"class", "data", "header", "phdrs", "shdrs"} : r.value[k] = file[k]

\* The caller looks an address up again after the object has changed (main.cpp), or
\* the loader does in the file: an address that resolved before a call resolves to
\* the same offset after it, and also after saving and reopening a file whose
\* layout is sound.
KeepsTranslation ==
  status = "open" /\ (SaveAndReopen => SoundLayout(file)) =>
    \A a \in Addresses : vaddrToFileOffset(file, a).ok =>
      vaddrToFileOffset(file', a) = vaddrToFileOffset(file, a)

\* No call on an object moves what is mapped.
TranslationStable == [][KeepsTranslation]_vars

\* Segment i has the byte at address a in the file.  Where the range of the segment
\* would wrap at 2^64 it has none.
HasAddress(f, i, a) ==
  LET v == P(f, i, "p_vaddr")
      n == P(f, i, "p_filesz")
  IN  P(f, i, "p_type") = PT_LOAD /\ v + n < U64 /\ a \in v..(v + n - 1)

\* The end of the addresses a file of this class can name.
AddressLimit(f) == IF f.class = 32 THEN U32 ELSE U64

\* The segment addLoadSegment has just added has its data as its contents.  It is
\* found at its address, up to the end of the address space, and holds the data
\* there, unless an older segment has that address: one that wraps around must not
\* capture it.
AddIsReadable ==
  \A s \in Segments : CallAddLoadSegment(s) =>
    /\ segmentData(file', Len(file'.phdrs)) = Ok(s.data)
    /\ s.vaddr + Len(s.data) < AddressLimit(file) =>
         \A k \in 0..(Len(s.data) - 1) :
           \/ \E i \in 1..Len(file.phdrs) : HasAddress(file, i, s.vaddr + k)
           \/ LET r == vaddrToFileOffset(file', s.vaddr + k)
              IN  r.ok /\ readAt(file', r.value, 1) = Ok(<< s.data[k + 1] >>)

\* Every step that adds a segment makes it readable.
NewSegmentReadable == [][AddIsReadable]_vars

\* "Translate a virtual (runtime/loaded) address to the file offset that backs it":
\* an address is found at the offset where p_offset places its byte.  p_offset is not
\* validated and the sum wraps, past the test of the result, so this does not hold.
OffsetsBacked ==
  status = "open" =>
    \A a \in Addresses : vaddrToFileOffset(file, a).ok =>
      \E i \in 1..Len(file.phdrs) :
        /\ HasAddress(file, i, a)
        /\ vaddrToFileOffset(file, a).value = P(file, i, "p_offset") + (a - P(file, i, "p_vaddr"))
=============================================================================
