------------------------------ MODULE Trampoline ------------------------------
(***************************************************************************)
(* ps3patch/trampoline.hpp and ps3patch/syscalls.hpp: the code that is     *)
(* injected, the relocation of the instructions it displaces, and the      *)
(* layout of the blob.                                                     *)
(*                                                                         *)
(* buildTrampoline asks three things of the file, which are the fields of  *)
(* its argument file here: patched (isAlreadyPatched), mapped (does        *)
(* entry.codeAddress resolve to a file offset) and bytes (the bytes of the *)
(* file from that offset to its end).                                      *)
(***************************************************************************)
EXTENDS Ppc, Result

TRAMPOLINE_MAGIC == << 83, 80, 51, 80, 65, 84, 67, 72 >>
kMaxPathLength   == 1023

-----------------------------------------------------------------------------
(***************************************************************************)
(* syscalls.hpp.                                                           *)
(***************************************************************************)
SYS_PRX_LOAD_MODULE  == 480
SYS_PRX_START_MODULE == 481
SYSCALL_SEQUENCE_INSTR_COUNT == 14

encodeSc == << 17, 2 >>

\* Mutant: the number is loaded and the trap is not there.
MakeSyscallTrapWithoutSc(number) == << encodeLi(11, number), encodeLi(0, 0) >>

makeSyscallTrap(number) == << encodeLi(11, number), encodeSc >>

makeLoadModuleCall(pathAddress) ==
  loadImmediate32(3, pathAddress) \o << encodeLi(4, 0), encodeLi(5, 0) >>
    \o makeSyscallTrap(SYS_PRX_LOAD_MODULE)

\* Mutants: the zeroed registers begin with the id's; one argument too many.
MakeStartModuleCallIdLost ==
  [k \in 1..5 |-> encodeLi(2 + k, 0)] \o makeSyscallTrap(SYS_PRX_START_MODULE)

MakeStartModuleCallLonger ==
  [k \in 1..6 |-> encodeLi(3 + k, 0)] \o makeSyscallTrap(SYS_PRX_START_MODULE)

makeStartModuleCall ==
  [k \in 1..5 |-> encodeLi(3 + k, 0)] \o makeSyscallTrap(SYS_PRX_START_MODULE)

makeLoadAndStartModule(pathAddress) == makeLoadModuleCall(pathAddress) \o makeStartModuleCall

-----------------------------------------------------------------------------
(***************************************************************************)
(* The frame that saves r0, r3-r12, LR and CTR around the system calls.    *)
(***************************************************************************)
FRAME_SIZE == 256
SAVE_BASE  == 128
PROLOGUE_INSTR_COUNT  == 16
EPILOGUE_INSTR_COUNT  == 16
TOC_FIXUP_INSTR_COUNT == 3

buildPrologue ==
  << encodeStdu(1, 1, -FRAME_SIZE), encodeStd(0, 1, SAVE_BASE),
     encodeMflr(0), encodeStd(0, 1, SAVE_BASE + 8),
     encodeMfctr(0), encodeStd(0, 1, SAVE_BASE + 16) >>
  \o [k \in 1..10 |-> encodeStd(k + 2, 1, SAVE_BASE + 16 + 8 * k)]

buildEpilogue ==
  << encodeLd(0, 1, SAVE_BASE + 8), encodeMtlr(0),
     encodeLd(0, 1, SAVE_BASE + 16), encodeMtctr(0) >>
  \o [k \in 1..10 |-> encodeLd(k + 2, 1, SAVE_BASE + 16 + 8 * k)]
  \o << encodeLd(0, 1, SAVE_BASE), encodeAddi(1, 1, FRAME_SIZE) >>

-----------------------------------------------------------------------------
(***************************************************************************)
(* Jumps, displaced instructions and bytes.                                *)
(***************************************************************************)
fixedPrefixInstrCount ==
  PROLOGUE_INSTR_COUNT + SYSCALL_SEQUENCE_INSTR_COUNT + EPILOGUE_INSTR_COUNT + TOC_FIXUP_INSTR_COUNT

L == INSTANCE Layout WITH Reach <- 33554432, PrefixCount <- fixedPrefixInstrCount,
                          MaxPath <- kMaxPathLength

makeMinimalJump(fromAddr, toAddr) ==
  IF L!reaches(fromAddr, toAddr) THEN << encodeBranch(toAddr - fromAddr, 0, 0) >>
  ELSE makeAbsoluteJump(toAddr)

\* Mutant: every displaced instruction is copied as it is.
RelocateVerbatim(w, originalAddr, newAddr) == w

\* One displaced instruction: only a relative branch depends on its address.
relocateInstruction(w, originalAddr, newAddr) ==
  LET decoded == classify(w)
  IN  IF decoded.kind = "DirectRelative"
      THEN relocateBranch(decoded, originalAddr, newAddr)
      ELSE w

relocateDisplacedInstructions(original, originalBaseAddr, newBaseAddr) ==
  LET out == [i \in 1..Len(original) |->
                relocateInstruction(original[i], (originalBaseAddr + (i - 1) * 4) % AddrMod,
                                                 (newBaseAddr + (i - 1) * 4) % AddrMod)]
  IN  IF \E i \in 1..Len(original) : out[i] = Invalid THEN Err("RelocationFailed") ELSE Ok(out)

WordBytes(w) ==
  << w[1] * 4 + (w[2] \div 16777216), (w[2] \div 65536) % 256, (w[2] \div 256) % 256, w[2] % 256 >>

toBigEndianBytes(instrs) ==
  [k \in 1..(4 * Len(instrs)) |-> WordBytes(instrs[((k - 1) \div 4) + 1])[((k - 1) % 4) + 1]]

\* The instruction word in the four bytes of b after the first p.
WordAt(b, p) ==
  << b[p + 1] \div 4, (b[p + 1] % 4) * 16777216 + b[p + 2] * 65536 + b[p + 3] * 256 + b[p + 4] >>

-----------------------------------------------------------------------------
(***************************************************************************)
(* The layout of the code, its assembly, and buildTrampoline.              *)
(***************************************************************************)
codeBaseAddr(trampolineAddr) == (trampolineAddr + Len(TRAMPOLINE_MAGIC)) % AddrMod
resumeAddr(trampolineAddr)   == (codeBaseAddr(trampolineAddr) + fixedPrefixInstrCount * 4) % AddrMod

\* Mutants: the jump-back returns to the patched entry, or is measured from the
\* wrong base; the path is looked for without counting the jump-back.
JumpBackToEntry(codeAddress, trampolineAddr, displacedCount) ==
  makeMinimalJump((resumeAddr(trampolineAddr) + displacedCount * 4) % AddrMod, codeAddress)

JumpBackToItself(codeAddress, trampolineAddr, displacedCount) ==
  makeMinimalJump((resumeAddr(trampolineAddr) + displacedCount * 4) % AddrMod,
                  (resumeAddr(trampolineAddr) + displacedCount * 4) % AddrMod)

PathAddressTooLow(trampolineAddr, displacedCount, jumpBackCount) ==
  (codeBaseAddr(trampolineAddr) + (fixedPrefixInstrCount + displacedCount) * 4) % AddrMod

jumpBack(codeAddress, trampolineAddr, displacedCount) ==
  makeMinimalJump((resumeAddr(trampolineAddr) + displacedCount * 4) % AddrMod,
                  (codeAddress + displacedCount * 4) % AddrMod)

pathAddress(trampolineAddr, displacedCount, jumpBackCount) ==
  (codeBaseAddr(trampolineAddr) + (fixedPrefixInstrCount + displacedCount + jumpBackCount) * 4) % AddrMod

\* Magic, code, the null-terminated path, and zeros up to a multiple of 4.
blobOf(code, sprxPath) ==
  LET bytes == TRAMPOLINE_MAGIC \o toBigEndianBytes(code) \o sprxPath \o << 0 >>
  IN  bytes \o [k \in 1..((-Len(bytes)) % 4) |-> 0]

buildTrampoline(file, entry, trampolineAddr, sprxPath) ==
  LET codeAddress    == entry.codeAddress
      jumpIn         == makeMinimalJump(codeAddress, codeBaseAddr(trampolineAddr))
      displacedCount == Len(jumpIn)
      displaced      == [i \in 1..displacedCount |-> WordAt(file.bytes, (i - 1) * 4)]
      relocated      == relocateDisplacedInstructions(displaced, codeAddress, resumeAddr(trampolineAddr))
      back           == jumpBack(codeAddress, trampolineAddr, displacedCount)
      syscallInstrs  == makeLoadAndStartModule(pathAddress(trampolineAddr, displacedCount, Len(back)))
      code           == buildPrologue \o syscallInstrs \o buildEpilogue
                          \o loadImmediate32(2, entry.tocValue) \o relocated.value \o back
      checked        == L!checks([patched |-> file.patched, mapped |-> file.mapped,
                                  left |-> Len(file.bytes)],
                                 codeAddress, trampolineAddr, displacedCount, Len(sprxPath))
  IN  IF ~ checked.ok                  THEN checked
      ELSE IF ~ relocated.ok           THEN relocated
      ELSE IF \/ Len(syscallInstrs) # SYSCALL_SEQUENCE_INSTR_COUNT
              \/ Len(code) # fixedPrefixInstrCount + displacedCount + Len(back)
                                       THEN Err("Unsupported")
      ELSE Ok([blob            |-> blobOf(code, sprxPath),
               entryPatchBytes |-> toBigEndianBytes(jumpIn),
               trampolineAddr  |-> trampolineAddr,
               entryPatchAddr  |-> codeAddress,
               displacedInstructionCount |-> displacedCount])
=============================================================================
