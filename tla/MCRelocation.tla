---------------------------- MODULE MCRelocation ----------------------------
(***************************************************************************)
(* Relocation at the edges of the branch fields and of the address space.  *)
(***************************************************************************)
EXTENDS Relocation

Rs == {0, 12, 31}

Branches ==
  { [op |-> "b", imm |-> d, aa |-> x, lk |-> y] :
      d \in {-33554436, -33554432, -8, 0, 2, 4, 33554428, 33554432},
      x \in 0..1, y \in 0..1 }
  \cup
  { [op |-> "bc", bo |-> o, bi |-> 31, imm |-> d, aa |-> x, lk |-> y] :
      o \in {4, 20}, d \in {-32772, -32768, -4, 6, 8, 32764, 32768},
      x \in 0..1, y \in 0..1 }

Moves ==
  { [op |-> o, t |-> t, a |-> a, imm |-> n] :
      o \in {"addi", "addis"}, t \in Rs, a \in Rs, n \in {-32768, -1, 0, 480, 32767} }
  \cup { [op |-> "ori", t |-> t, a |-> a, imm |-> n] : t \in Rs, a \in Rs, n \in {0, 32768, 65535} }
  \cup { [op |-> o, t |-> t, spr |-> s] : o \in {"mtspr", "mfspr"}, t \in Rs, s \in {8, 9, 272} }
  \cup { [op |-> "rldicl", t |-> t, a |-> a, sh |-> s, mb |-> m, rc |-> 0] :
           t \in Rs, a \in Rs, s \in {0, 1, 32, 63}, m \in {0, 63} }
  \cup { [op |-> "bcctr", bo |-> 20, bi |-> 0, lk |-> 0], [op |-> "sc"],
         [op |-> "bclr", bo |-> 20, bi |-> 0, lk |-> 0], [op |-> "bclr", bo |-> 12, bi |-> 2, lk |-> 1] }

Stores ==
  { [op |-> o, t |-> t, a |-> 1, imm |-> d] :
      o \in {"std", "stdu", "ld", "ldu"}, t \in Rs, d \in {-32772, -32768, -256, 3, 128, 32764, 32768} }

MCInstrs == Branches \cup Moves \cup Stores

\* Near, at the edge of a direct branch, out of reach, and around address 0.
MCAddresses == {0, 4, 65536, 65536 + 32764, 65536 + 32768, 65536 + 33554428, 65536 + 33554432,
                AddrMod \div 2, AddrMod - 4}
=============================================================================
