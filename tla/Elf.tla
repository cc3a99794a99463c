--------------------------------- MODULE Elf ---------------------------------
(***************************************************************************)
(* libelf: the on-disk layouts of elf/types.hpp and the operations of      *)
(* elf::ElfFile<Is64, E> (elf/file.hpp) as operators on a file value       *)
(*    [class, data, header, phdrs, shdrs, raw]                             *)
(* class is 64 or 32 (Is64), data "Big" or "Little" (E).  The header and   *)
(* the table entries are kept as the bytes of the C++ structs, which is    *)
(* what memcpy leaves in them; a field is converted when it is read        *)
(* (Load) or assigned (Store), as Endianed does.                           *)
(***************************************************************************)
EXTENDS Bytes, Result

CONSTANT ELFMAG        \* e_ident[0..3], the bytes 0x7F 'E' 'L' 'F'

ASSUME ElfMagAssumption == ELFMAG \in [1..4 -> Byte]

EI_NIDENT == 16
PT_LOAD   == 1

-----------------------------------------------------------------------------
(***************************************************************************)
(* Struct layouts: a field is the pair <<offset, width>>.                  *)
(***************************************************************************)
Elf64_Ehdr == [e_type |-> <<16, 2>>, e_machine |-> <<18, 2>>, e_version |-> <<20, 4>>,
  e_entry |-> <<24, 8>>, e_phoff |-> <<32, 8>>, e_shoff |-> <<40, 8>>, e_flags |-> <<48, 4>>,
  e_ehsize |-> <<52, 2>>, e_phentsize |-> <<54, 2>>, e_phnum |-> <<56, 2>>,
  e_shentsize |-> <<58, 2>>, e_shnum |-> <<60, 2>>, e_shstrndx |-> <<62, 2>>]

Elf32_Ehdr == [e_type |-> <<16, 2>>, e_machine |-> <<18, 2>>, e_version |-> <<20, 4>>,
  e_entry |-> <<24, 4>>, e_phoff |-> <<28, 4>>, e_shoff |-> <<32, 4>>, e_flags |-> <<36, 4>>,
  e_ehsize |-> <<40, 2>>, e_phentsize |-> <<42, 2>>, e_phnum |-> <<44, 2>>,
  e_shentsize |-> <<46, 2>>, e_shnum |-> <<48, 2>>, e_shstrndx |-> <<50, 2>>]

Elf64_Phdr == [p_type |-> <<0, 4>>, p_flags |-> <<4, 4>>, p_offset |-> <<8, 8>>,
  p_vaddr |-> <<16, 8>>, p_paddr |-> <<24, 8>>, p_filesz |-> <<32, 8>>,
  p_memsz |-> <<40, 8>>, p_align |-> <<48, 8>>]

Elf32_Phdr == [p_type |-> <<0, 4>>, p_offset |-> <<4, 4>>, p_vaddr |-> <<8, 4>>,
  p_paddr |-> <<12, 4>>, p_filesz |-> <<16, 4>>, p_memsz |-> <<20, 4>>,
  p_flags |-> <<24, 4>>, p_align |-> <<28, 4>>]

Ehdr(c) == IF c = 64 THEN Elf64_Ehdr ELSE Elf32_Ehdr
Phdr(c) == IF c = 64 THEN Elf64_Phdr ELSE Elf32_Phdr

EhdrSize(c) == IF c = 64 THEN 64 ELSE 52
PhdrSize(c) == IF c = 64 THEN 56 ELSE 32
ShdrSize(c) == IF c = 64 THEN 64 ELSE 40

LoadField(s, fld, e)     == Load(s, fld[1], fld[2], e)
StoreField(s, fld, e, v) == Store(s, fld[1], fld[2], e, v)

\* The members of an ElfFile object.
FileType == [class : {32, 64}, data : {"Big", "Little"}, header : Seq(Byte),
             phdrs : Seq(Seq(Byte)), shdrs : Seq(Seq(Byte)), raw : Seq(Byte)]

H(f, name)    == LoadField(f.header, Ehdr(f.class)[name], f.data)
P(f, i, name) == LoadField(f.phdrs[i], Phdr(f.class)[name], f.data)

-----------------------------------------------------------------------------
(***************************************************************************)
(* ElfFile<c, e>::parse, its checks in the order of the code, and          *)
(* parseAny, which picks the instantiation from e_ident.                   *)
(***************************************************************************)
ClassByte(c) == IF c = 64 THEN 2 ELSE 1
DataByte(e)  == IF e = "Big" THEN 2 ELSE 1

Parsed(b, c, e) ==
  LET h == Slice(b, 0, EhdrSize(c))
      Fld(name) == LoadField(h, Ehdr(c)[name], e)
  IN  [class |-> c, data |-> e, header |-> h, raw |-> b,
       phdrs |-> ReadTable(b, Fld("e_phoff"), Fld("e_phnum"), PhdrSize(c)),
       shdrs |-> ReadTable(b, Fld("e_shoff"), Fld("e_shnum"), ShdrSize(c))]

parse(b, c, e) ==
  LET h == Slice(b, 0, EhdrSize(c))
      Fld(name) == LoadField(h, Ehdr(c)[name], e)
  IN  IF Len(b) < EhdrSize(c) THEN Err("TruncatedFile")
      ELSE IF Slice(h, 0, 4) # ELFMAG THEN Err("BadMagic")
      ELSE IF h[5] # ClassByte(c) THEN Err("UnsupportedClass")
      ELSE IF h[6] # DataByte(e) THEN Err("UnsupportedDataEncoding")
      ELSE IF \/ Fld("e_ehsize") # EhdrSize(c)
              \/ Fld("e_phnum") > 0 /\ Fld("e_phentsize") # PhdrSize(c)
              \/ Fld("e_shnum") > 0 /\ Fld("e_shentsize") # ShdrSize(c)
           THEN Err("InconsistentHeaderSize")
      ELSE IF \/ ~ regionFits(Len(b), Fld("e_phoff"), Fld("e_phnum"), PhdrSize(c))
              \/ ~ regionFits(Len(b), Fld("e_shoff"), Fld("e_shnum"), ShdrSize(c))
           THEN Err("OffsetOutOfBounds")
      ELSE IF Fld("e_shnum") > 0 /\ Fld("e_shstrndx") >= Fld("e_shnum")
           THEN Err("IndexOutOfBounds")
      ELSE Ok(Parsed(b, c, e))

parseAny(b) ==
  IF Len(b) < EI_NIDENT THEN Err("TruncatedFile")
  ELSE IF Slice(b, 0, 4) # ELFMAG THEN Err("BadMagic")
  ELSE IF b[5] \notin {ClassByte(32), ClassByte(64)} THEN Err("UnsupportedClass")
  ELSE IF b[6] \notin {DataByte("Little"), DataByte("Big")} THEN Err("UnsupportedDataEncoding")
  ELSE parse(b, IF b[5] = ClassByte(64) THEN 64 ELSE 32,
                IF b[6] = DataByte("Big") THEN "Big" ELSE "Little")

-----------------------------------------------------------------------------
(***************************************************************************)
(* Mutators.  The two that can fail or that touch the bytes return a       *)
(* Result; none of them checks more than the code does.                    *)
(***************************************************************************)
setEntry(f, addr) ==
  [f EXCEPT !.header = StoreField(f.header, Ehdr(f.class).e_entry, f.data, addr)]

\* Mutant: the copy stops one byte short.
PatchBytesAtShort(f, offset, bytes) ==
  IF ~ regionFits(Len(f.raw), offset, Len(bytes), 1) THEN Err("OffsetOutOfBounds")
  ELSE Ok([f EXCEPT !.raw = writeStruct(f.raw, offset, SubSeq(bytes, 1, Len(bytes) - 1))])

patchBytesAt(f, offset, bytes) ==
  IF ~ regionFits(Len(f.raw), offset, Len(bytes), 1) THEN Err("OffsetOutOfBounds")
  ELSE Ok([f EXCEPT !.raw = writeStruct(f.raw, offset, bytes)])

\* The program header addLoadSegment appends: Phdr ph{} and its assignments.
LoadPhdr(f, vaddr, size, flags, align) ==
  LET Put(s, fld, v) == StoreField(s, fld, f.data, v)
      L  == Phdr(f.class)
      s1 == Put(Zeros(PhdrSize(f.class)), L.p_type, PT_LOAD)
      s2 == Put(s1, L.p_flags, flags)
      s3 == Put(s2, L.p_offset, Len(f.raw))
      s4 == Put(s3, L.p_vaddr, vaddr)
      s5 == Put(s4, L.p_paddr, vaddr)
      s6 == Put(s5, L.p_filesz, size)
      s7 == Put(s6, L.p_memsz, size)
  IN  Put(s7, L.p_align, align)

\* Mutants: the table grows where it is; e_phnum keeps its old value; the new
\* entry is inserted before the others.
AddLoadSegmentTableInPlace(f, vaddr, data, flags, align) ==
  LET phdrs == Append(f.phdrs, LoadPhdr(f, vaddr, Len(data), flags, align))
  IN  [f EXCEPT !.raw = f.raw \o data, !.phdrs = phdrs,
         !.header = StoreField(f.header, Ehdr(f.class).e_phnum, f.data, Len(phdrs))]

AddLoadSegmentStaleCount(f, vaddr, data, flags, align) ==
  [f EXCEPT !.raw = f.raw \o data,
            !.phdrs = Append(f.phdrs, LoadPhdr(f, vaddr, Len(data), flags, align)),
            !.header = StoreField(f.header, Ehdr(f.class).e_phoff, f.data, Len(f.raw \o data))]

AddLoadSegmentInFront(f, vaddr, data, flags, align) ==
  LET raw   == f.raw \o data
      phdrs == << LoadPhdr(f, vaddr, Len(data), flags, align) >> \o f.phdrs
      L     == Ehdr(f.class)
  IN  [f EXCEPT !.raw = raw, !.phdrs = phdrs,
         !.header = StoreField(StoreField(f.header, L.e_phnum, f.data, Len(phdrs)),
                               L.e_phoff, f.data, Len(raw))]

addLoadSegment(f, vaddr, data, flags, align) ==
  LET raw   == f.raw \o data
      phdrs == Append(f.phdrs, LoadPhdr(f, vaddr, Len(data), flags, align))
      L     == Ehdr(f.class)
  IN  [f EXCEPT !.raw = raw, !.phdrs = phdrs,
         !.header = StoreField(StoreField(f.header, L.e_phnum, f.data, Len(phdrs)),
                               L.e_phoff, f.data, Len(raw))]

-----------------------------------------------------------------------------
(***************************************************************************)
(* Readers.                                                                *)
(***************************************************************************)
readAt(f, offset, length) ==
  IF ~ regionFits(Len(f.raw), offset, length, 1) THEN Err("OffsetOutOfBounds")
  ELSE Ok(Slice(f.raw, offset, length))

\* Mutant: one comparison of the distance, in unsigned numbers, for the two bounds.
BacksByDistance(f, i, vaddr) ==
  /\ P(f, i, "p_type") = PT_LOAD
  /\ (vaddr - P(f, i, "p_vaddr")) % U64 < P(f, i, "p_filesz")

\* Only the file-backed part of a PT_LOAD segment; the sum wraps at 2^64.
Backs(f, i, vaddr) ==
  /\ P(f, i, "p_type") = PT_LOAD
  /\ vaddr >= P(f, i, "p_vaddr")
  /\ vaddr < (P(f, i, "p_vaddr") + P(f, i, "p_filesz")) % U64

vaddrToFileOffset(f, vaddr) ==
  LET hits == {i \in 1..Len(f.phdrs) : Backs(f, i, vaddr)}
      i    == CHOOSE k \in hits : \A j \in hits : k <= j
      off  == (P(f, i, "p_offset") + (vaddr - P(f, i, "p_vaddr"))) % U64
  IN  IF hits = {} \/ off > Len(f.raw) THEN Err("OffsetOutOfBounds") ELSE Ok(off)

segmentData(f, i) ==
  IF i \notin 1..Len(f.phdrs) THEN Err("IndexOutOfBounds")
  ELSE readAt(f, P(f, i, "p_offset"), P(f, i, "p_filesz"))

serialize(f) ==
  LET b1 == writeStruct(f.raw, 0, f.header)
      b2 == writeTable(b1, H(f, "e_phoff"), f.phdrs, PhdrSize(f.class))
  IN  writeTable(b2, H(f, "e_shoff"), f.shdrs, ShdrSize(f.class))

-----------------------------------------------------------------------------
(***************************************************************************)
(* Where the parts of a file lie.                                          *)
(***************************************************************************)

\* The file offsets of a header field, of the header, and of the two tables.
FieldOffsets(c, name) ==
  LET fld == Ehdr(c)[name] IN fld[1]..(fld[1] + fld[2] - 1)

MutableFields(c) ==
  FieldOffsets(c, "e_entry") \cup FieldOffsets(c, "e_phoff") \cup FieldOffsets(c, "e_phnum")

HeaderOffsets(f) == 0..(EhdrSize(f.class) - 1)
PhdrOffsets(f)   == H(f, "e_phoff")..(H(f, "e_phoff") + Len(f.phdrs) * PhdrSize(f.class) - 1)
ShdrOffsets(f)   == H(f, "e_shoff")..(H(f, "e_shoff") + Len(f.shdrs) * ShdrSize(f.class) - 1)

\* When may a written file be expected to parse back to the same tables: the
\* entry size is the expected one even if the table was empty at first, the
\* count fits e_phnum, and no table lies over the header or the other table.
SoundLayout(f) ==
  /\ H(f, "e_phentsize") = PhdrSize(f.class)
  /\ Len(f.phdrs) < U16
  /\ HeaderOffsets(f) \cap (PhdrOffsets(f) \cup ShdrOffsets(f)) = {}
  /\ PhdrOffsets(f) \cap ShdrOffsets(f) = {}
=============================================================================
