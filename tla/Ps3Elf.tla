-------------------------------- MODULE Ps3Elf --------------------------------
(***************************************************************************)
(* What ps3patch does with a file in memory: ps3patch/toc.hpp,             *)
(* isAlreadyPatched of trampoline.hpp, info.hpp, and the part of main.cpp  *)
(* between reading the input and writing the output, over the ELF          *)
(* operations of module Elf.                                               *)
(*                                                                         *)
(* The instructions are left to module Trampoline.  A jump is here one     *)
(* word or five that name their target, the fixed prefix of the blob is    *)
(* its length and the two addresses it refers to, and a displaced word is  *)
(* moved as it is or cannot be moved.                                      *)
(***************************************************************************)
EXTENDS Elf, Layout

CONSTANTS
  TRAMPOLINE_MAGIC,  \* the eight bytes "SP3PATCH"
  EM_PPC64,          \* 21 in the code
  Relocates(_)       \* can these displaced instructions be relocated?

ASSUME Ps3ElfAssumption ==
  /\ TRAMPOLINE_MAGIC \in [1..MagicSize -> Byte]
  /\ EM_PPC64 \in 0..(U16 - 1)
  /\ Reach \in Nat /\ PrefixCount \in Nat /\ MaxPath \in Nat
  /\ PrefixCount >= 2
  /\ blobSize(5, 5, MaxPath) < U16   \* as 8 + 59 * 4 + 1024 is less than 0x10000

PF_R_X     == 5
SEGMENT_ALIGN == U16    \* 0x10000

-----------------------------------------------------------------------------
(***************************************************************************)
(* toc.hpp.                                                                *)
(***************************************************************************)
\* Mutant: a field of eight bytes.
ReadBigEndianWide(bytes, offset) == Val8(bytes, 1)

readBigEndian32(bytes, offset) == Val4(bytes, offset + 1)

hasTypicalEFlags(f) == H(f, "e_flags") = 0

\* An error of another operation is reported with a code of its own.
Reported(r, code) == IF r.ok THEN r ELSE Err(code)

\* e_entry is the address of a descriptor: the code's address, then the TOC's.
resolveEntryDescriptor(f) ==
  IF H(f, "e_machine") # EM_PPC64 THEN Err("Unsupported")
  ELSE AndThen(Reported(vaddrToFileOffset(f, H(f, "e_entry")), "OffsetOutOfBounds"), LAMBDA off :
       AndThen(Reported(readAt(f, off, 8), "TruncatedFile"), LAMBDA d :
       Ok([codeAddress |-> readBigEndian32(d, 0), tocValue |-> readBigEndian32(d, 4)])))

-----------------------------------------------------------------------------
(***************************************************************************)
(* isAlreadyPatched, and the --info report.                                *)
(***************************************************************************)
LoadSegments(f) == {i \in 1..Len(f.phdrs) : P(f, i, "p_type") = PT_LOAD}

\* The segments that begin with the magic.
Trampolines(f) ==
  {i \in LoadSegments(f) :
     /\ P(f, i, "p_filesz") >= MagicSize
     /\ readAt(f, P(f, i, "p_offset"), MagicSize) = Ok(TRAMPOLINE_MAGIC)}

\* Mutant: only the first segment is looked at.
IsAlreadyPatchedFirstOnly(f) == 1 \in Trampolines(f)

isAlreadyPatched(f) == Trampolines(f) # {}

\* The letters R, W and X for 4, 2 and 1; other flags are not shown.
segmentFlagsToString(flags) == {bit \in {1, 2, 4} : (flags \div bit) % 2 = 1}

segmentTypeToString(type) ==
  LET names == << "NULL", "LOAD", "DYNAMIC", "INTERP", "NOTE" >>
  IN  IF type < Len(names) THEN << names[type + 1] >> ELSE << "0x", type >>

SegmentLine(f, i) ==
  [type  |-> segmentTypeToString(P(f, i, "p_type")),
   flags |-> segmentFlagsToString(P(f, i, "p_flags")),
   place |-> [name \in {"p_vaddr", "p_offset", "p_filesz", "p_memsz"} |-> P(f, i, name)]]

formatInfo(f) ==
  AndThen(resolveEntryDescriptor(f), LAMBDA entry :
    Ok([header |-> [name \in {"e_machine", "e_type", "e_flags", "e_entry"} |-> H(f, name)],
        unusual |-> ~ hasTypicalEFlags(f),
        entry |-> entry,
        patched |-> isAlreadyPatched(f),
        segments |-> [i \in 1..Len(f.phdrs) |-> SegmentLine(f, i)]]))

-----------------------------------------------------------------------------
(***************************************************************************)
(* main.cpp: the address of the new segment.  The sums are uint64_t, the   *)
(* result is cut to uint32_t.                                              *)
(***************************************************************************)
SegmentEnd(f, i) == (P(f, i, "p_vaddr") + P(f, i, "p_memsz")) % U64

highestEnd(f) ==
  LET ends == {0} \cup {SegmentEnd(f, i) : i \in LoadSegments(f)}
  IN  CHOOSE e \in ends : \A d \in ends : d <= e

\* Mutant: a value that is aligned already is aligned up, which skips a page.
AlignSkipsPage(value, align) == (value \div align + 1) * align

alignUp(value, align) ==
  IF align = 0 THEN value ELSE (((value + align - 1) % U64) \div align) * align

TrampolineAddr(f) == Cast(alignUp(highestEnd(f), SEGMENT_ALIGN), 4)

-----------------------------------------------------------------------------
(***************************************************************************)
(* buildTrampoline without the instructions.                               *)
(***************************************************************************)
codeBaseAddr(trampolineAddr) == (trampolineAddr + MagicSize) % U32

\* Mutant: the magic is forgotten.
ResumeAddrWithoutMagic(trampolineAddr) == (trampolineAddr + PrefixCount * 4) % U32

resumeAddr(trampolineAddr) == (codeBaseAddr(trampolineAddr) + PrefixCount * 4) % U32

\* The bytes of the smallest jump.
Jump(fromAddr, toAddr) ==
  [k \in 1..(4 * jumpLength(fromAddr, toAddr)) |-> BE4(toAddr)[((k - 1) % 4) + 1]]

\* Zeros up to a multiple of four.
padded(bytes) == bytes \o Zeros((-Len(bytes)) % 4)

\* The path follows the code; back is the jump-back.
Blob(entry, trampolineAddr, displaced, back, sprxPath) ==
  padded(TRAMPOLINE_MAGIC
           \o BE4((resumeAddr(trampolineAddr) + Len(displaced) + Len(back)) % U32)
           \o BE4(entry.tocValue) \o Zeros((PrefixCount - 2) * 4)
           \o displaced \o back \o sprxPath \o << 0 >>)

\* The displaced instructions are read from the file at offset off.
Assembled(f, entry, trampolineAddr, jumpIn, off, sprxPath) ==
  IF ~ Relocates(Slice(f.raw, off, Len(jumpIn))) THEN Err("RelocationFailed")
  ELSE Ok([blob |-> Blob(entry, trampolineAddr, Slice(f.raw, off, Len(jumpIn)),
                         Jump((resumeAddr(trampolineAddr) + Len(jumpIn)) % U32,
                              (entry.codeAddress + Len(jumpIn)) % U32), sprxPath),
           entryPatchBytes |-> jumpIn,
           entryPatchAddr  |-> entry.codeAddress])

\* at is where the entry is in the file.
Checked(f, entry, trampolineAddr, jumpIn, at, sprxPath) ==
  AndThen(checks([patched |-> isAlreadyPatched(f), mapped |-> at.ok,
                  left |-> IF at.ok THEN Len(f.raw) - at.value ELSE 0],
                 entry.codeAddress, trampolineAddr, Len(jumpIn) \div 4, Len(sprxPath)),
          LAMBDA c : Assembled(f, entry, trampolineAddr, jumpIn, at.value, sprxPath))

buildTrampoline(f, entry, trampolineAddr, sprxPath) ==
  Checked(f, entry, trampolineAddr, Jump(entry.codeAddress, codeBaseAddr(trampolineAddr)),
          vaddrToFileOffset(f, entry.codeAddress), sprxPath)

-----------------------------------------------------------------------------
(***************************************************************************)
(* main.cpp from the bytes read to the bytes to write, or the reason to    *)
(* stop.                                                                   *)
(***************************************************************************)
ps3File(bytes) ==
  AndThen(parseAny(bytes), LAMBDA f :
    IF f.class = 64 /\ f.data = "Big" THEN Ok(f) ELSE Err("NotBig64"))

\* Add the segment, then overwrite the entry, found anew in the grown file.
Apply(f, trampolineAddr, tramp) ==
  AndThen(Ok(addLoadSegment(f, trampolineAddr, tramp.blob, PF_R_X, SEGMENT_ALIGN)), LAMBDA grown :
  AndThen(vaddrToFileOffset(grown, tramp.entryPatchAddr), LAMBDA at :
  AndThen(patchBytesAt(grown, at, tramp.entryPatchBytes), LAMBDA done :
  Ok(serialize(done)))))

patchFile(bytes, sprxPath) ==
  AndThen(ps3File(bytes), LAMBDA f :
  AndThen(resolveEntryDescriptor(f), LAMBDA entry :
    IF isAlreadyPatched(f) THEN Err("AlreadyPatched")
    ELSE AndThen(Ok(TrampolineAddr(f)), LAMBDA addr :
         AndThen(buildTrampoline(f, entry, addr, sprxPath), LAMBDA tramp :
         Apply(f, addr, tramp)))))

-----------------------------------------------------------------------------
(***************************************************************************)
(* Ordinary programs.  The code does not ask for any of this, and what it  *)
(* writes can be damaged without it.                                       *)
(***************************************************************************)

\* A file of less than 4 GB with room in e_phnum and a section table apart from
\* the header.
Regular(f) ==
  /\ Len(f.raw) + U16 <= U32
  /\ Len(f.phdrs) + 1 < U16
  /\ HeaderOffsets(f) \cap ShdrOffsets(f) = {}

\* Segments that end before the last 64 KB of the address space, with no more
\* bytes in the file than in memory.
Roomy(f) ==
  \A i \in LoadSegments(f) :
    /\ P(f, i, "p_filesz") <= P(f, i, "p_memsz")
    /\ P(f, i, "p_vaddr") + P(f, i, "p_memsz") <= U32 - U16

\* The file offsets of the instructions to displace, and of the descriptor.
Window(f) ==
  LET code == resolveEntryDescriptor(f).value.codeAddress
      at   == vaddrToFileOffset(f, code).value
  IN  at..(at + Len(Jump(code, codeBaseAddr(TrampolineAddr(f)))) - 1)

DescriptorOffsets(f) ==
  LET at == vaddrToFileOffset(f, H(f, "e_entry")).value IN at..(at + 7)

\* The jump does not go over the descriptor, serialize() does not write the header
\* or the section table over the jump, and the descriptor is not in the header.
Ordinary(f) ==
  /\ Regular(f) /\ Roomy(f)
  /\ Window(f) \cap (HeaderOffsets(f) \cup ShdrOffsets(f) \cup DescriptorOffsets(f)) = {}
  /\ DescriptorOffsets(f) \cap HeaderOffsets(f) = {}

\* Every segment begins inside the file, and one of its first bytes, as the jump
\* and the header leave them, is not the magic's.
Unmarked(f) ==
  \A i \in LoadSegments(f) :
    P(f, i, "p_filesz") >= MagicSize =>
      LET code == resolveEntryDescriptor(f).value.codeAddress
          at   == vaddrToFileOffset(f, code).value
          from == P(f, i, "p_offset")
      IN  /\ from + MagicSize <= Len(f.raw)
          /\ \E k \in 0..(MagicSize - 1) :
               /\ from + k \notin FieldOffsets(64, "e_phoff") \cup FieldOffsets(64, "e_phnum")
               /\ TRAMPOLINE_MAGIC[k + 1] #
                    IF from + k \in Window(f)
                    THEN Jump(code, codeBaseAddr(TrampolineAddr(f)))[from + k - at + 1]
                    ELSE f.raw[from + k + 1]
=============================================================================
