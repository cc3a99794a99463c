-------------------------------- MODULE MCBoot --------------------------------
(***************************************************************************)
(* Boot with games whose first instructions are the interesting ones, and  *)
(* trampolines near, at the edge of, and beyond the reach of a branch.     *)
(***************************************************************************)
EXTENDS Boot

blr == Form(19, 20, 0, 32)
bl(d) == encodeBranch(d, 0, 1)
b(d)  == encodeBranch(d, 0, 0)

\* A function that saves LR, opens a frame and leaves through CTR.
Prologue == << encodeMflr(0), encodeStd(0, 1, 16), encodeStdu(1, 1, -112), encodeLd(4, 1, 0),
               encodeAddi(3, 4, 5), encodeMtctr(12), encodeBctr >>
\* A jump over the next instructions.
Skip     == << b(12), encodeLi(3, 1), encodeLi(4, 1), encodeLi(5, 1), blr, blr >>
\* A call whose callee saves its return address; the call returns into the
\* displaced window.
CallOut  == << bl(16), encodeLd(5, 1, 16), encodeAddi(6, 5, 0), b(0),
               encodeMflr(0), encodeStd(0, 1, 16), encodeMtlr(0), blr >>
\* Conditional forms: a test and a counted loop.
Test(d)  == << encodeBranchConditional(12, 2, d, 0, 0), encodeLi(3, 1), blr,
               encodeLi(3, 2), blr, blr >>
Count    == << encodeBranchConditional(16, 0, 8, 0, 1), encodeMfctr(3), blr, blr, blr >>
\* Branches that do not depend on their address.
Absolute == << encodeBranch(4096, 1, 1), encodeLi(3, 1), blr, blr, blr >>
Return   == << blr, blr, blr, blr, blr >>
ByCount  == << encodeBctr, blr, blr, blr, blr >>
\* Instructions that neither read nor write r12 and CTR, and are not branches.
Quiet    == << encodeMflr(0), encodeStd(0, 1, 16), encodeStdu(1, 1, -112), encodeLd(4, 1, 0),
               encodeAddi(3, 4, 5), encodeMtlr(4), encodeLi(7, 7), blr >>
\* The last displaced instruction of a long jump leaves the window.
QuietOut == << encodeMflr(0), encodeLi(3, 1), encodeLi(4, 1), encodeLi(5, 1),
               encodeBranch(4096, 1, 0), blr >>
\* A loop inside the window of a long jump: instruction 4 goes back to 2.
Loop     == << encodeLi(3, 1), encodeLi(4, 1), encodeLi(5, 1),
               encodeBranch(65544, 1, 0), blr, blr >>
\* The first instruction waits for itself.
Spin     == << b(0), blr >>

Scene(code, tramp, text) ==
  [code |-> code, toc |-> 4660, text |-> text, trampolineAddr |-> tramp, path |-> << 47, 97 >>,
   patched |-> FALSE, mapped |-> TRUE, cut |-> 4 * Len(text)]

Entry == 65536
\* The last address from which both jumps are short.
LastNear == Entry + 33554432 - 4 * (fixedPrefixInstrCount + 2)

Refusals ==
  { [Scene(Entry, 131072, Skip) EXCEPT !.path = << >>],
    [Scene(Entry, 131072, Skip) EXCEPT !.path = [k \in 1..1024 |-> 47]],
    Scene(Entry, 131074, Skip), Scene(Entry + 2, 131072, Skip),
    [Scene(Entry, 131072, Skip) EXCEPT !.patched = TRUE],
    [Scene(Entry, 131072, Skip) EXCEPT !.mapped = FALSE],
    [Scene(Entry, 131072, Skip) EXCEPT !.cut = 3],
    [Scene(Entry, Entry + 67108864, Quiet) EXCEPT !.cut = 16],
    Scene(Entry, 131072, Test(12)), Scene(Entry, Entry + 67108864, Skip) }

MCNear ==
  { Scene(Entry, t, x) : t \in {131072, LastNear},
      x \in {Prologue, Skip, CallOut, Absolute, Return, ByCount} }
  \cup { Scene(130816, 131072, x) : x \in {Test(12), Test(-20), Count} }
  \cup { [Scene(Entry, 131072, Prologue) EXCEPT !.path = p, !.toc = 0] :
           p \in {<< 47 >>, << 47, 98, 99 >>, << 47, 98, 99, 100 >>} }
  \cup Refusals

MCFar ==
  { Scene(Entry, t, x) : t \in {LastNear + 4, Entry + 33554432, Entry + 67108864}, x \in {Quiet, QuietOut} }

MCScenes == MCNear \cup MCFar

\* The theorems of BootProofs and ResumeProofs that are about trampolines and TOCs
\* in the lower half of the address space are about these.
ASSUME ScenesLow == \A sc \in MCScenes : Low(sc) /\ LowToc(sc)

\* The game uses r12 and CTR.
MCFarScratch == { Scene(Entry, Entry + 67108864, Prologue) }

\* A branch of the game goes to a displaced instruction.
MCIntoWindow == { Scene(Entry, 131072, Spin), Scene(Entry, Entry + 67108864, Loop) }

\* The trampoline above the middle of the address space.
MCHigh == { Scene(Entry, AddrMod \div 2 + 131072, Quiet) }

MCAnswers == { Reg(77), Extended(-5) }
=============================================================================
