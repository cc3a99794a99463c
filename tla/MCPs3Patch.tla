------------------------------ MODULE MCPs3Patch ------------------------------
(***************************************************************************)
(* Instances of Ps3Patch for TLC, with 12 values to a byte: 144 is then    *)
(* 0x10000 and 20736 is 2^32.  A branch reaches 608 bytes, the prefix of   *)
(* the blob has three instructions, a path at most three characters.       *)
(***************************************************************************)
EXTENDS Ps3Patch, Images

MCElfMag == << 7, 5, 11, 6 >>
MCMagic  == << 9, 8, 3, 8, 1, 10, 2, 4 >>

\* A displaced instruction that begins with 11 is a branch out of reach.
MCRelocates(words) == \A k \in 1..Len(words) : (k - 1) % 4 = 0 => words[k] # 11

\* A segment with its contents: [vaddr, data, bss]; a program is a sequence of
\* these, the address of its descriptor and header fields that are unusual.
Program(c, e, segs, entry, fields, shnum) ==
  LET n      == Len(segs)
      start  == EhdrSize(c) + n * PhdrSize(c)
      Off(i) == start + FoldLeft(LAMBDA sum, s : sum + Len(s.data), 0, SubSeq(segs, 1, i - 1))
  IN  serialize([class |-> c, data |-> e,
        header |-> MkHeader(c, e, << <<"e_machine", 21>>, <<"e_entry", entry>>,
                     <<"e_phoff", EhdrSize(c)>>, <<"e_phnum", n>>,
                     <<"e_shoff", IF shnum = 0 THEN 0 ELSE Off(n + 1)>>,
                     <<"e_shnum", shnum>> >> \o fields),
        phdrs |-> [i \in 1..n |-> MkPhdr(c, e, PT_LOAD, Off(i), segs[i].vaddr, Len(segs[i].data),
                                         Len(segs[i].data) + segs[i].bss)],
        shdrs |-> [k \in 1..shnum |-> MkShdr(c, k)],
        raw |-> Zeros(start) \o FlattenSeq([i \in 1..n |-> segs[i].data])])

Seg(vaddr, data, bss) == [vaddr |-> vaddr, data |-> data, bss |-> bss]

Words(n) == [k \in 1..(4 * n) |-> (k * 5) % 11]

Descriptor(code) == BE4(code) \o BE4(3000)

\* Code at the given address, and data with the descriptor in it at 720.
Two(code, words, fields, shnum) ==
  Program(64, "Big", << Seg(code, words, 0), Seg(716, Words(1) \o Descriptor(code), 24) >>,
          720, fields, shnum)

Near   == Two(288, Words(6), << >>, 1)                \* one instruction is displaced
Far    == Two(144, Words(6), << >>, 1)                \* five are
Flags  == Two(288, Words(6), << <<"e_flags", 7>> >>, 1)
\* No section table, and a last segment that patching does not look at.
Bare   == Program(64, "Big", << Seg(288, Words(6), 0), Seg(716, Words(1) \o Descriptor(288), 24),
                                Seg(800, Words(4), 0) >>, 720, << >>, 0)
\* Jumps that just reach, and the jump back does not; a last segment that ends
\* exactly at a multiple of 64 KB; the highest address that can be given out.
Edge   == Program(64, "Big", << Seg(268, Words(6), 0), Seg(716, Words(1) \o Descriptor(268), 136) >>,
                  720, << >>, 0)
Top    == Program(64, "Big", << Seg(U32 - 200, Words(6), 0),
                                Seg(U32 - 160, Descriptor(U32 - 200), 8) >>, U32 - 160, << >>, 0)
\* The end of the file is not needed to patch it.
CodeLast == Program(64, "Big", << Seg(716, Descriptor(288), 0), Seg(288, Words(6), 0) >>, 716, << >>, 0)
\* The descriptor in the word after the only instruction.
Tight  == Program(64, "Big", << Seg(288, Words(1) \o Descriptor(288), 0), Seg(716, Words(2), 8) >>,
                  292, << >>, 0)

Clean == {Near, Bare, Far, Edge, Top, Flags, CodeLast, Tight}

\* One input for every refusal.
Refused ==
  { SubSeq(Near, 1, 10), Two(288, Words(6), << <<"e_machine", 20>> >>, 1),
    Program(32, "Big", << Seg(288, Words(2), 0) >>, 288, << >>, 0),
    Program(64, "Little", << Seg(288, Words(2), 0) >>, 288, << >>, 0),
    Two(288, Words(6), << <<"e_entry", 740>> >>, 1),                         \* in the bss
    Program(64, "Big", << Seg(288, Words(2), 0) >>, 292, << >>, 0),          \* cut descriptor
    Two(290, Words(6), << >>, 1),                                            \* not aligned
    Two(288, << 11 >> \o Words(6), << >>, 1),                                \* not relocatable
    Program(64, "Big", << Seg(716, Descriptor(144), 0), Seg(144, Words(2), 0) >>, 716, << >>, 0),
    Program(64, "Big", << Seg(716, Descriptor(900), 0), Seg(144, Words(2), 0) >>, 716, << >>, 0) }

\* Marked by hand: the magic begins the second segment.
Marked ==
  Program(64, "Big", << Seg(288, Words(2) \o Descriptor(288), 0), Seg(720, MCMagic, 0) >>, 296, << >>, 1)

Disk(a) == [p \in Paths |-> IF p = "a" THEN a ELSE NoFile]

MCDisks == {Disk(b) : b \in Clean \cup Refused \cup {Marked}}
MCClean == {Disk(b) : b \in Clean}

\* The theorems about ordinary programs are about these, and about Tight as long
\* as the jump into it is short.
ASSUME CleanIsOrdinary ==
  \A b \in Clean \ {Tight} :
    patchFile(b, << 3, 4 >>).ok => Ordinary(ps3File(b).value) /\ Unmarked(ps3File(b).value)

\* A segment that ends in the last 64 KB, with another one at address 0.
High ==
  Program(64, "Big", << Seg(0, Words(4) \o Descriptor(0), 0), Seg(U32 - 100, Words(2), 8) >>,
          16, << >>, 0)

MCHigh  == {Disk(High)}
MCTail  == {Disk(CodeLast)}

MCPatch   == { << "a", "b", << 3, 4 >> >> }
MCInPlace == { << "a", "a", << 3, 4 >> >> }
MCInvocations ==
  MCPatch \cup { << "b", "a", << 5 >> >>, << "a", "a", << 5 >> >>, << "c", "b", << 5 >> >>,
                 << "a", "b", << >> >>, << "a", "b", << 1, 1, 1, 1 >> >>,
                 << "--info", "a" >>, << "--info", "b" >>, << "--info", "c" >>,
                 << >>, << "a", "b" >> }

\* Cut inside the header, after it, in the contents, before the last segment of
\* Bare, and in the last table.
MCTears(n) == {k \in {0, 40, 64, 200, 268, n - 56, n - 1} : k \in 0..(n - 1)}
\* Cut at every second word, and inside the last entry of the table.
MCManyTears(n) == {k \in 0..(n - 1) : k % 8 = 0 \/ k > n - 9}
=============================================================================
