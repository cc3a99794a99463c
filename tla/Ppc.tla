--------------------------------- MODULE Ppc ---------------------------------
(***************************************************************************)
(* The ppc library: the instruction encoders of ppc/encode.hpp and the     *)
(* branch classifier and relocator of ppc/decode.hpp.                      *)
(*                                                                         *)
(* An instruction word is the pair << primary opcode, other 26 bits >>,    *)
(* with every field at the width it has in the code, so the 32 bits of a   *)
(* word fit the integers of TLC.  An address is a uint32_t.  HalfMod is    *)
(* the number of values of half an address, 2^16 in the code; TLC uses     *)
(* 2^15, so that an address fits too.  An encoder that throws              *)
(* std::invalid_argument and a function that returns std::nullopt return   *)
(* Invalid.  A bool that is a bit of an instruction or a field of          *)
(* DecodedBranch is 0 or 1.                                                *)
(***************************************************************************)
EXTENDS Integers, Sequences

CONSTANT HalfMod

AddrMod == HalfMod * HalfMod

ASSUME HalfModAssumption ==
  /\ HalfMod \in Nat
  /\ HalfMod >= 8192
  /\ HalfMod <= 65536         \* half an address fits an immediate
  /\ AddrMod >= 67108864      \* a displacement is shorter than the address space
  /\ HalfMod % 4 = 0

Address == 0 .. AddrMod - 1
Word    == {n \in Nat : n < 64} \X {n \in Nat : n < 67108864}
Invalid == << >>

\* The fields 0:5, 6:10, 11:15 and 16:31 of a word.
Form(opcd, a, b, c) == << opcd, (a % 32) * 2097152 + (b % 32) * 65536 + c >>

SPR_LR  == 8
SPR_CTR == 9

-----------------------------------------------------------------------------
(***************************************************************************)
(* Encoders.                                                               *)
(***************************************************************************)
encodeAddi(rd, ra, simm)  == Form(14, rd, ra, simm % 65536)
encodeLi(rd, simm)        == encodeAddi(rd, 0, simm)
encodeAddis(rd, ra, simm) == Form(15, rd, ra, simm % 65536)
encodeLis(rd, simm)       == encodeAddis(rd, 0, simm)
encodeOri(ra, rs, uimm)   == Form(24, rs, ra, uimm % 65536)

\* Mutant: the two halves of the register number are not swapped.
EncodeSprFieldUnswapped(spr) == spr % 1024

encodeSprField(spr) == (spr % 32) * 32 + ((spr \div 32) % 32)

encodeMtspr(rs, spr) == << 31, (rs % 32) * 2097152 + encodeSprField(spr) * 2048 + 467 * 2 >>
encodeMfspr(rt, spr) == << 31, (rt % 32) * 2097152 + encodeSprField(spr) * 2048 + 339 * 2 >>

encodeMtlr(rs)  == encodeMtspr(rs, SPR_LR)
encodeMflr(rt)  == encodeMfspr(rt, SPR_LR)
encodeMtctr(rs) == encodeMtspr(rs, SPR_CTR)
encodeMfctr(rt) == encodeMfspr(rt, SPR_CTR)

\* d \div 4 modulo 2^14: the code divides a multiple of 4.
encodeStdForm(opcd, xo, rs, ra, d) ==
  IF d % 4 # 0 \/ d > 32764 \/ d < -32768 THEN Invalid
  ELSE Form(opcd, rs, ra, ((d \div 4) % 16384) * 4 + (xo % 4))

encodeStd(rs, ra, d)  == encodeStdForm(62, 0, rs, ra, d)
encodeStdu(rs, ra, d) == encodeStdForm(62, 1, rs, ra, d)
encodeLd(rt, ra, d)   == encodeStdForm(58, 0, rt, ra, d)
encodeLdu(rt, ra, d)  == encodeStdForm(58, 1, rt, ra, d)

\* The code stores mb as it is in bits 21:26.
encodeRldicl(ra, rs, sh, mb, rc) ==
  Form(30, rs, ra, (sh % 32) * 2048 + (mb % 64) * 32 + ((sh \div 32) % 2) * 2 + rc)

encodeClrldi(ra, rs, n) == encodeRldicl(ra, rs, 0, n, 0)

encodeBctr == Form(19, 20, 0, 528 * 2)

\* Mutant: the range check takes the number of instructions for bytes.
EncodeBranchQuarterRange(target, absolute, link) ==
  IF target % 4 # 0 \/ target > 8388607 \/ target < -8388608 THEN Invalid
  ELSE << 18, (target % 67108864) + 2 * absolute + link >>

\* I-form.  target is a multiple of 4, so masking the low bits changes nothing.
encodeBranch(target, absolute, link) ==
  IF target % 4 # 0 \/ target > 33554428 \/ target < -33554432 THEN Invalid
  ELSE << 18, (target % 67108864) + 2 * absolute + link >>

\* B-form.
encodeBranchConditional(bo, bi, target, absolute, link) ==
  IF target % 4 # 0 \/ target > 32764 \/ target < -32768 THEN Invalid
  ELSE Form(16, bo, bi, (target % 65536) + 2 * absolute + link)

\* static_cast<int16_t> of the upper half of an address.
SignedHalf(h) == IF h >= HalfMod \div 2 THEN h - HalfMod ELSE h

loadImmediate32(reg, value) ==
  << encodeLis(reg, SignedHalf(value \div HalfMod)),
     encodeOri(reg, reg, value % HalfMod),
     encodeClrldi(reg, reg, 32) >>

makeAbsoluteJump(target) ==
  loadImmediate32(12, target) \o << encodeMtctr(12), encodeBctr >>

-----------------------------------------------------------------------------
(***************************************************************************)
(* classify and relocateBranch.                                            *)
(***************************************************************************)

\* Mutant: the field is taken as unsigned.
SignExtendMissing(value, mod) == value

\* signExtend of a field whose values are 0 .. mod - 1.
SignExtend(value, mod) == IF value >= mod \div 2 THEN value - mod ELSE value

\* struct DecodedBranch.
DecodedBranch(kind, link, isConditionalForm, bo, bi, displacement, absoluteTarget) ==
  [kind |-> kind, link |-> link, isConditionalForm |-> isConditionalForm, bo |-> bo, bi |-> bi,
   displacement |-> displacement, absoluteTarget |-> absoluteTarget]

\* A b/ba/bc/bca with target field field: the AA bit says what it holds.
Direct(low, isConditionalForm, bo, bi, field) ==
  IF (low \div 2) % 2 = 1
  THEN DecodedBranch("DirectAbsolute", low % 2, isConditionalForm, bo, bi, 0, field % AddrMod)
  ELSE DecodedBranch("DirectRelative", low % 2, isConditionalForm, bo, bi, field, 0)

classify(w) ==
  LET low == w[2]
      xo  == (low \div 2) % 1024
  IN  CASE w[1] = 18 -> Direct(low, 0, 0, 0, SignExtend(low - (low % 4), 67108864))
        [] w[1] = 16 -> Direct(low, 1, (low \div 2097152) % 32, (low \div 65536) % 32,
                               SignExtend((low % 65536) - (low % 4), 65536))
        [] w[1] = 19 /\ xo = 16  -> DecodedBranch("ToLinkRegister", low % 2, 0, 0, 0, 0, 0)
        [] w[1] = 19 /\ xo = 528 -> DecodedBranch("ToCountRegister", low % 2, 0, 0, 0, 0, 0)
        [] OTHER -> DecodedBranch("NotABranch", 0, 0, 0, 0, 0, 0)

\* Mutants: the correction has the wrong sign; a conditional branch is widened
\* into an unconditional one.
RelocateBranchWrongSign(branch, originalAddr, newAddr) ==
  IF branch.kind # "DirectRelative" THEN Invalid
  ELSE LET d == branch.displacement + (newAddr - originalAddr)
       IN  IF branch.isConditionalForm = 1
           THEN encodeBranchConditional(branch.bo, branch.bi, d, 0, branch.link)
           ELSE encodeBranch(d, 0, branch.link)

RelocateBranchWidened(branch, originalAddr, newAddr) ==
  IF branch.kind # "DirectRelative" THEN Invalid
  ELSE encodeBranch(((originalAddr + branch.displacement) % AddrMod) - newAddr, 0, branch.link)

relocateBranch(branch, originalAddr, newAddr) ==
  LET originalTarget  == (originalAddr + branch.displacement) % AddrMod
      newDisplacement == originalTarget - newAddr
  IN  IF branch.kind # "DirectRelative" THEN Invalid
      ELSE IF newDisplacement < -(AddrMod \div 2) \/ newDisplacement > AddrMod \div 2 - 1 THEN Invalid
      ELSE IF branch.isConditionalForm = 1
           THEN encodeBranchConditional(branch.bo, branch.bi, newDisplacement, 0, branch.link)
           ELSE encodeBranch(newDisplacement, 0, branch.link)
=============================================================================
