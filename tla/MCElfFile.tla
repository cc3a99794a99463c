------------------------------ MODULE MCElfFile ------------------------------
(***************************************************************************)
(* Instances of ElfFile for TLC: small images of every class and           *)
(* encoding, well formed and malformed, with 13 values to a byte.          *)
(***************************************************************************)
EXTENDS ElfFile, Images

MCElfMag == << 7, 5, 12, 6 >>

\* An image: header, program headers, five bytes of code, section headers.
Code == << 3, 4, 7, 6, 5 >>

CodeAt(c, np)    == EhdrSize(c) + np * PhdrSize(c)
ShdrAt(c, np)    == CodeAt(c, np) + Len(Code)

Image(c, e, phdrs, shnum, fields) ==
  LET np == Len(phdrs)
  IN  serialize([class |-> c, data |-> e,
        header |-> MkHeader(c, e, << <<"e_phoff", EhdrSize(c)>>, <<"e_phnum", np>>,
                     <<"e_shoff", ShdrAt(c, np)>>, <<"e_shnum", shnum>> >> \o fields),
        phdrs |-> phdrs,
        shdrs |-> [k \in 1..shnum |-> MkShdr(c, k)],
        raw |-> Zeros(CodeAt(c, np)) \o Code])

OneLoad(c, e) == << MkPhdr(c, e, PT_LOAD, CodeAt(c, 1), 16, 5, 8) >>
Plain(c, e)   == Image(c, e, OneLoad(c, e), 1, << >>)

Kinds == {32, 64} \X {"Big", "Little"}

\* Two segments over the same addresses and a non-loaded one before them.
Overlapping(c, e) ==
  Image(c, e, << MkPhdr(c, e, 4, 0, 16, 5, 5),
                 MkPhdr(c, e, PT_LOAD, CodeAt(c, 3), 16, 2, 2),
                 MkPhdr(c, e, PT_LOAD, CodeAt(c, 3) + 1, 16, 4, 4) >>, 0, << >>)

\* A segment whose file part runs past the end of the file, and one whose
\* address range wraps at 2^64 (Elf64 only: an Elf32 field is narrower).
TailPastEnd(c, e) ==
  Image(c, e, << MkPhdr(c, e, PT_LOAD, CodeAt(c, 1) + 4, 16, 9, 9) >>, 0, << >>)
Wrapping(e) ==
  Image(64, e, << MkPhdr(64, e, PT_LOAD, U64 - 2, U64 - 3, 9, 9) >>, 0, << >>)

\* A segment whose place in the file wraps, though its addresses do not.
OffsetWraps(e) ==
  Image(64, e, << MkPhdr(64, e, PT_LOAD, U64 - 2, 16, 9, 9) >>, 0, << >>)

\* The section table laid over the end of the header, the program table over
\* its start, and a file without any program header.
ShdrOverHeader(c, e) ==
  Image(c, e, OneLoad(c, e), 1, << <<"e_shoff", EhdrSize(c) - 8>> >>)
PhdrOverHeader(c, e) ==
  LET b == Image(c, e, << >>, 0, << <<"e_phoff", 8>>, <<"e_phnum", 1>> >>)
  IN  b \o Zeros(8)
NoPhdrs(c, e) ==
  Image(c, e, << >>, 1, << <<"e_phentsize", 0>>, <<"e_phoff", 0>> >>)

WellFormed ==
  UNION { { Plain(k[1], k[2]), Overlapping(k[1], k[2]), TailPastEnd(k[1], k[2]),
            ShdrOverHeader(k[1], k[2]), PhdrOverHeader(k[1], k[2]), NoPhdrs(k[1], k[2]) }
          : k \in Kinds } \cup { Wrapping("Big"), OffsetWraps("Big") }

\* One image for every error parse() reports.
Broken(c, e) ==
  { SubSeq(Plain(c, e), 1, 10), SubSeq(Plain(c, e), 1, EhdrSize(c) - 1),
    [Plain(c, e) EXCEPT ![2] = 0], [Plain(c, e) EXCEPT ![5] = 3], [Plain(c, e) EXCEPT ![6] = 0],
    Image(c, e, OneLoad(c, e), 1, << <<"e_ehsize", 1>> >>),
    Image(c, e, OneLoad(c, e), 1, << <<"e_phentsize", 1>> >>),
    Image(c, e, OneLoad(c, e), 1, << <<"e_shentsize", 1>> >>),
    Image(c, e, OneLoad(c, e), 1, << <<"e_shstrndx", 1>> >>),
    SubSeq(Plain(c, e), 1, Len(Plain(c, e)) - 1),
    SubSeq(Plain(c, e), 1, EhdrSize(c) + 3) }

MCInputs    == WellFormed \cup Broken(64, "Big") \cup Broken(32, "Little")
MCAddrs     == { U32 + 3 }
\* Inside the header, inside the first program header, in the code, past the
\* end, and an offset whose sum with a length wraps.
MCOffsets   == { 30, 70, EhdrSize(64) + PhdrSize(64) + 3, U64 - 1 }
MCBytes     == { << 11, 10 >> }
\* Low addresses, which only a segment that wraps could also claim; across the start of
\* other segments; and the last addresses of all that can be found.
MCSegments  == { [vaddr |-> 3, data |-> << 1, 2, 3 >>, flags |-> 5, align |-> 512],
                 [vaddr |-> 15, data |-> << 4, 4 >>, flags |-> 5, align |-> 512],
                 [vaddr |-> U64 - 3, data |-> << 2, 6 >>, flags |-> 5, align |-> 512] }
\* The addresses of these segments and of the ones in the images, and their neighbours.
MCAddresses == 0..6 \cup 14..26 \cup (U64 - 4)..(U64 - 1)
=============================================================================
