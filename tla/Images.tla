------------------------------- MODULE Images -------------------------------
(***************************************************************************)
(* Structs and headers for the images of the MC modules.                   *)
(***************************************************************************)
EXTENDS Elf, SequencesExt

\* A struct of n bytes with the given fields, as << name, value >> pairs.
Struct(n, layout, e, fields) ==
  FoldLeft(LAMBDA s, p : StoreField(s, layout[p[1]], e, p[2]), Zeros(n), fields)

MkPhdr(c, e, type, off, vaddr, filesz, memsz) ==
  Struct(PhdrSize(c), Phdr(c), e,
    << <<"p_type", type>>, <<"p_offset", off>>, <<"p_vaddr", vaddr>>,
       <<"p_filesz", filesz>>, <<"p_memsz", memsz>> >>)

MkShdr(c, k) == [i \in 1..ShdrSize(c) |-> (i + k) % ByteBase]

MkHeader(c, e, fields) ==
  LET s == Struct(EhdrSize(c), Ehdr(c), e,
             << <<"e_type", 2>>, <<"e_entry", 16>>, <<"e_ehsize", EhdrSize(c)>>,
                <<"e_phentsize", PhdrSize(c)>>, <<"e_shentsize", ShdrSize(c)>> >> \o fields)
  IN  [i \in 1..Len(s) |-> IF i <= 4 THEN ELFMAG[i]
                           ELSE IF i = 5 THEN ClassByte(c)
                           ELSE IF i = 6 THEN DataByte(e) ELSE s[i]]
=============================================================================
