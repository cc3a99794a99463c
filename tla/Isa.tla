--------------------------------- MODULE Isa ---------------------------------
(***************************************************************************)
(* What an instruction word says: the formats of the Power ISA (v2.06)     *)
(* that the encoders of ppc/encode.hpp produce.  External: none of this is *)
(* in the repository; it is what its encoders are written against, and it  *)
(* is written down here independently of classify.                         *)
(***************************************************************************)
EXTENDS Ppc

(***************************************************************************)
(* Two numbers are split: the halves of an SPR number are swapped, and the *)
(* 6-bit MB field of rldicl has its most significant bit last.             *)
(***************************************************************************)
Signed16(n) == IF n >= 32768 THEN n - 65536 ELSE n

Decode(w) ==
  LET low == w[2]
      t   == low \div 2097152
      a   == (low \div 65536) % 32
      c   == low % 65536
      spr == ((low \div 2048) % 32) * 32 + a
      mb  == (c \div 32) % 64
      aa  == (low \div 2) % 2
      lk  == low % 2
      li  == low - (low % 4)
  IN  CASE w[1] = 14 -> [op |-> "addi", t |-> t, a |-> a, imm |-> Signed16(c)]
        [] w[1] = 15 -> [op |-> "addis", t |-> t, a |-> a, imm |-> Signed16(c)]
        [] w[1] = 24 -> [op |-> "ori", t |-> a, a |-> t, imm |-> c]
        [] w[1] = 30 /\ (c \div 4) % 8 = 0 ->
             [op |-> "rldicl", t |-> a, a |-> t, sh |-> ((c \div 2) % 2) * 32 + (c \div 2048),
              mb |-> (mb % 2) * 32 + (mb \div 2), rc |-> lk]
        [] w[1] = 31 /\ low % 2048 = 934 -> [op |-> "mtspr", t |-> t, spr |-> spr]
        [] w[1] = 31 /\ low % 2048 = 678 -> [op |-> "mfspr", t |-> t, spr |-> spr]
        [] w[1] = 58 /\ c % 4 = 0 -> [op |-> "ld", t |-> t, a |-> a, imm |-> Signed16(c)]
        [] w[1] = 58 /\ c % 4 = 1 -> [op |-> "ldu", t |-> t, a |-> a, imm |-> Signed16(c - 1)]
        [] w[1] = 62 /\ c % 4 = 0 -> [op |-> "std", t |-> t, a |-> a, imm |-> Signed16(c)]
        [] w[1] = 62 /\ c % 4 = 1 -> [op |-> "stdu", t |-> t, a |-> a, imm |-> Signed16(c - 1)]
        [] w[1] = 18 -> [op |-> "b", aa |-> aa, lk |-> lk,
                         imm |-> IF li >= 33554432 THEN li - 67108864 ELSE li]
        [] w[1] = 16 -> [op |-> "bc", bo |-> t, bi |-> a, aa |-> aa, lk |-> lk,
                         imm |-> Signed16(c - (c % 4))]
        [] w[1] = 19 /\ (low \div 2) % 1024 = 16 -> [op |-> "bclr", bo |-> t, bi |-> a, lk |-> lk]
        [] w[1] = 19 /\ (low \div 2) % 1024 = 528 -> [op |-> "bcctr", bo |-> t, bi |-> a, lk |-> lk]
        [] w[1] = 17 /\ (low \div 2) % 2 = 1 -> [op |-> "sc"]
        [] OTHER -> [op |-> "illegal"]

\* The target of a b or bc at address pc.
DirectTarget(i, pc) == IF i.aa = 1 THEN i.imm % AddrMod ELSE (pc + i.imm) % AddrMod
=============================================================================
