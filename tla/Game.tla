--------------------------------- MODULE Game ---------------------------------
(***************************************************************************)
(* What patching promises not to change: the original program, run from    *)
(* its real entry point on the processor, until it leaves the part of its  *)
(* code that is modelled.  External: the game and the loader that starts   *)
(* it are not in the repository.  The processor is a parameter: it is the  *)
(* one that runs the patched program.                                      *)
(*                                                                         *)
(* A scene is one patching job:                                            *)
(*   code, toc       the words of the entry descriptor                     *)
(*   text            the game's instruction words from code on             *)
(*   trampolineAddr, path, patched, mapped, cut                            *)
(*                   the other arguments of buildTrampoline; only the      *)
(*                   first cut bytes of the text are in the file           *)
(***************************************************************************)
EXTENDS Integers, Sequences

CONSTANTS
  Scenes, StackTop,                              \* see Boot
  Regs, Reg(_), Decode(_), Executed, Exec(_,_,_) \* the processor, see Ppu and Isa

VARIABLES scene, cpu

gameVars == << scene, cpu >>

\* The registers at entry, all different; r1 and r2 are what the loader sets.
EntryRegs(toc) ==
  [r \in Regs |-> CASE r = 1 -> Reg(StackTop) [] r = 2 -> toc [] OTHER -> << 9, r, 9, r >>]

Start(sc, toc) ==
  [pc |-> sc.code, gpr |-> EntryRegs(toc), lr |-> Reg(4), ctr |-> << 8, 8, 8, 8 >>, mem |-> << >>]

TextAddrs(sc) == { sc.code + 4 * (k - 1) : k \in 1..Len(sc.text) }

\* The word at an address of the text.
TextWord(sc, a) == sc.text[((a - sc.code) \div 4) + 1]

GameInit == scene \in Scenes /\ cpu = Start(scene, Reg(scene.toc))

GameStep ==
  LET i == Decode(TextWord(scene, cpu.pc))
  IN  /\ cpu.pc \in TextAddrs(scene)
      /\ i.op \in Executed
      /\ \E taken \in BOOLEAN : cpu' = Exec(cpu, i, taken)
      /\ UNCHANGED scene

GameSpec == GameInit /\ [][GameStep]_gameVars
=============================================================================
