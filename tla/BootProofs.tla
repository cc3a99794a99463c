------------------------------ MODULE BootProofs ------------------------------
(***************************************************************************)
(* The injected code, word by word, up to the second system call: what     *)
(* the blob holds (Loaded), where the processor is after how many system   *)
(* calls and what the registers hold there (Booted), and the theorems on   *)
(* the blob's layout, the jump-in and the two calls that follow.           *)
(***************************************************************************)
EXTENDS Boot, PpcProofs

USE DEF Flag, Five

-----------------------------------------------------------------------------
(***************************************************************************)
(* The words buildTrampoline emits.                                        *)
(***************************************************************************)

\* c is the m elements of x and the n elements of y.
Joins(S, c, x, y, m, n) ==
  /\ c \in Seq(S) /\ Len(c) = m + n
  /\ \A k \in 1..m : c[k] = x[k]
  /\ \A k \in 1..n : c[m + k] = y[k]

\* Two pieces of code or data, one after the other.
LEMMA Joined ==
  ASSUME NEW S, NEW x \in Seq(S), NEW y \in Seq(S), NEW m, NEW n, Len(x) = m, Len(y) = n
  PROVE  Joins(S, x \o y, x, y, m, n)
<1>2. Len(x) \in Nat /\ Len(y) \in Nat /\ x \o y \in Seq(S) /\ Len(x \o y) = Len(x) + Len(y)
  BY ONLY x \in Seq(S), y \in Seq(S)
<1>3. \A k \in 1..Len(x) : (x \o y)[k] = x[k]
  BY ONLY x \in Seq(S), y \in Seq(S)
<1>4. \A k \in 1..Len(y) : (x \o y)[Len(x) + k] = y[k]
  BY ONLY x \in Seq(S), y \in Seq(S)
<1> QED  BY ONLY Len(x) = m, Len(y) = n, <1>2, <1>3, <1>4 DEF Joins

\* loadImmediate32 (encode.hpp:186-194): what the processor sees of it.
LEMMA ImmediateWords ==
  ASSUME NEW reg \in Five, NEW v \in Address
  PROVE  /\ loadImmediate32(reg, v) \in Seq(Word) /\ Len(loadImmediate32(reg, v)) = 3
         /\ Decode(loadImmediate32(reg, v)[1]) =
              [op |-> "addis", t |-> reg, a |-> 0, imm |-> SignedHalf(v \div HalfMod)]
         /\ Decode(loadImmediate32(reg, v)[2]) = [op |-> "ori", t |-> reg, a |-> reg, imm |-> v % HalfMod]
         /\ Decode(loadImmediate32(reg, v)[3]) =
              [op |-> "rldicl", t |-> reg, a |-> reg, sh |-> 0, mb |-> 16, rc |-> 0]
<1> DEFINE hi == v \div HalfMod
           lo == v % HalfMod
           s  == SignedHalf(hi)
<1>1. hi \in Nat /\ hi < HalfMod /\ lo \in Nat /\ lo < 65536
  BY SMT, HalfModAssumption DEF Address, AddrMod
<1> HIDE DEF hi, lo
<1>2. s \in Int /\ s >= -32768 /\ s <= 32767
  BY SMT, <1>1, HalfModAssumption DEF SignedHalf
<1> HIDE DEF s
<1>3. 0 \in Five /\ 0 \in Flag /\ 0 \in Nat /\ 32 \in Nat /\ 0 < 64 /\ 32 < 64 /\ Rotated(32) = 16
  BY SMT DEF Rotated
<1>4. /\ encodeLis(reg, s) \in Word
      /\ Decode(encodeLis(reg, s)) = [op |-> "addis", t |-> reg, a |-> 0, imm |-> s]
  BY <1>2, <1>3, EncodedImmediate DEF encodeLis
<1>5. /\ encodeOri(reg, reg, lo) \in Word
      /\ Decode(encodeOri(reg, reg, lo)) = [op |-> "ori", t |-> reg, a |-> reg, imm |-> lo]
  BY <1>1, EncodedOri
<1>6. /\ encodeClrldi(reg, reg, 32) \in Word
      /\ Decode(encodeClrldi(reg, reg, 32)) =
           [op |-> "rldicl", t |-> reg, a |-> reg, sh |-> 0, mb |-> 16, rc |-> 0]
  BY <1>3, EncodedRldicl DEF encodeClrldi
<1>7. loadImmediate32(reg, v) = << encodeLis(reg, s), encodeOri(reg, reg, lo), encodeClrldi(reg, reg, 32) >>
  BY DEF loadImmediate32, s, hi, lo
<1>8. /\ loadImmediate32(reg, v) \in Seq(Word) /\ Len(loadImmediate32(reg, v)) = 3
  BY ONLY <1>4, <1>5, <1>6, <1>7
<1> QED  BY ONLY <1>4, <1>5, <1>6, <1>7, <1>8 DEF s, hi, lo

\* Its operations.
LEMMA ImmediateOps ==
  ASSUME NEW reg \in Five, NEW v \in Address, NEW j \in 0..2
  PROVE  Decode(loadImmediate32(reg, v)[j + 1]).op \in {"addis", "ori", "rldicl"}
<1> DEFINE l == loadImmediate32(reg, v)
           e == SignedHalf(v \div HalfMod)
           f == v % HalfMod
<1>1. /\ Decode(l[1]) = [op |-> "addis", t |-> reg, a |-> 0, imm |-> e]
      /\ Decode(l[2]) = [op |-> "ori", t |-> reg, a |-> reg, imm |-> f]
      /\ Decode(l[3]) = [op |-> "rldicl", t |-> reg, a |-> reg, sh |-> 0, mb |-> 16, rc |-> 0]
  BY ImmediateWords
<1> HIDE DEF e, f, l
<1>2. Decode(l[1]).op = "addis" /\ Decode(l[2]).op = "ori" /\ Decode(l[3]).op = "rldicl"
  BY ONLY <1>1
<1>3. j + 1 = 1 \/ j + 1 = 2 \/ j + 1 = 3
  OBVIOUS
<1>4. Decode(l[j + 1]).op \in {"addis", "ori", "rldicl"}
  BY ONLY <1>2, <1>3
<1> QED  BY ONLY <1>4 DEF l

\* buildPrologue (trampoline.hpp:98-111) stores registers and moves LR and CTR.
LEMMA PrologueWords ==
  LET p == buildPrologue
      std(t, d) == [op |-> "std", t |-> t, a |-> 1, imm |-> d]
  IN  /\ p \in Seq(Word) /\ Len(p) = 16
      /\ Decode(p[1]) = [op |-> "stdu", t |-> 1, a |-> 1, imm |-> -256]
      /\ Decode(p[2]) = std(0, 128)
      /\ Decode(p[3]) = [op |-> "mfspr", t |-> 0, spr |-> 8] /\ Decode(p[4]) = std(0, 136)
      /\ Decode(p[5]) = [op |-> "mfspr", t |-> 0, spr |-> 9] /\ Decode(p[6]) = std(0, 144)
      /\ \A k \in 1..10 : Decode(p[6 + k]) = std(k + 2, 144 + 8 * k)
<1> DEFINE std(t, d) == [op |-> "std", t |-> t, a |-> 1, imm |-> d]
           w1 == encodeStdu(1, 1, -FRAME_SIZE)
           w2 == encodeStd(0, 1, SAVE_BASE)
           w3 == encodeMflr(0)
           w4 == encodeStd(0, 1, SAVE_BASE + 8)
           w5 == encodeMfctr(0)
           w6 == encodeStd(0, 1, SAVE_BASE + 16)
           x == << w1, w2, w3, w4, w5, w6 >>
           y == [k \in 1..10 |-> encodeStd(k + 2, 1, SAVE_BASE + 16 + 8 * k)]
           c == x \o y
<1>0. 0 \in Five /\ 1 \in Five /\ BDRange(-256) /\ BDRange(128) /\ BDRange(136) /\ BDRange(144)
      /\ -256 \in Int /\ 128 \in Int /\ 136 \in Int /\ 144 \in Int
  BY SMT DEF BDRange
<1>1. ASSUME NEW r \in Five, NEW d \in Int, BDRange(d)
      PROVE  encodeStd(r, 1, d) \in Word /\ Decode(encodeStd(r, 1, d)) = std(r, d)
  BY <1>0, <1>1, EncodedStorage
<1>2. SAVE_BASE = 128 /\ SAVE_BASE + 8 = 136 /\ SAVE_BASE + 16 = 144 /\ -FRAME_SIZE = -256
  BY DEF SAVE_BASE, FRAME_SIZE
<1>3. w1 \in Word /\ Decode(w1) = [op |-> "stdu", t |-> 1, a |-> 1, imm |-> -256]
  BY <1>0, <1>2, EncodedStorage
<1>4. /\ w2 \in Word /\ Decode(w2) = std(0, 128) /\ w4 \in Word /\ Decode(w4) = std(0, 136)
      /\ w6 \in Word /\ Decode(w6) = std(0, 144)
  BY <1>0, <1>1, <1>2
<1>5. /\ w3 \in Word /\ Decode(w3) = [op |-> "mfspr", t |-> 0, spr |-> 8]
      /\ w5 \in Word /\ Decode(w5) = [op |-> "mfspr", t |-> 0, spr |-> 9]
  <2>1. 8 \in Nat /\ 9 \in Nat /\ 8 < 1024 /\ 9 < 1024
    BY SMT
  <2> QED  BY <1>0, <2>1, EncodedSpr DEF encodeMflr, encodeMfctr, SPR_LR, SPR_CTR
<1>6. ASSUME NEW k \in 1..10
      PROVE  LET w == encodeStd(k + 2, 1, SAVE_BASE + 16 + 8 * k)
             IN  w \in Word /\ Decode(w) = std(k + 2, 144 + 8 * k)
  <2> DEFINE d == SAVE_BASE + 16 + 8 * k
             r == k + 2
  <2>1. d \in Int /\ BDRange(d) /\ r \in Five /\ d = 144 + 8 * k
    BY SMT DEF BDRange, SAVE_BASE
  <2> HIDE DEF d, r
  <2>2. encodeStd(r, 1, d) \in Word /\ Decode(encodeStd(r, 1, d)) = std(r, d)
    BY <1>1, <2>1
  <2> QED  BY <2>1, <2>2 DEF d, r
<1>7. y \in Seq(Word) /\ Len(y) = 10 /\ \A k \in 1..10 : Decode(y[k]) = std(k + 2, 144 + 8 * k)
  <2> HIDE DEF std
  <2> QED  BY <1>6
<1>8. buildPrologue = c
  BY DEF buildPrologue
<1> HIDE DEF w1, w2, w3, w4, w5, w6, y, std
<1>9. x \in Seq(Word) /\ Len(x) = 6
      /\ x[1] = w1 /\ x[2] = w2 /\ x[3] = w3 /\ x[4] = w4 /\ x[5] = w5 /\ x[6] = w6
  BY ONLY <1>3, <1>4, <1>5
<1> HIDE DEF x
<1>10. Joins(Word, c, x, y, 6, 10)
  BY <1>7, <1>9, Joined
<1> HIDE DEF c
<1>11. /\ c \in Seq(Word) /\ Len(c) = 16
       /\ c[1] = x[1] /\ c[2] = x[2] /\ c[3] = x[3] /\ c[4] = x[4] /\ c[5] = x[5] /\ c[6] = x[6]
       /\ \A k \in 1..10 : c[6 + k] = y[k]
  BY ONLY <1>10 DEF Joins
<1>12. \A k \in 1..10 : Decode(c[6 + k]) = std(k + 2, 144 + 8 * k)
  BY ONLY <1>7, <1>11
<1> QED  BY ONLY <1>3, <1>4, <1>5, <1>8, <1>9, <1>11, <1>12 DEF std

LEMMA PrologueOps == \A k \in 1..16 : Decode(buildPrologue[k]).op \in {"std", "stdu", "mfspr"}
<1> DEFINE c == buildPrologue
<1>1. /\ Decode(c[1]).op = "stdu" /\ Decode(c[2]).op = "std" /\ Decode(c[3]).op = "mfspr"
      /\ Decode(c[4]).op = "std" /\ Decode(c[5]).op = "mfspr" /\ Decode(c[6]).op = "std"
      /\ \A k \in 1..10 : Decode(c[6 + k]).op = "std"
  <2> DEFINE std(t, d) == [op |-> "std", t |-> t, a |-> 1, imm |-> d]
  <2>1. /\ Decode(c[1]) = [op |-> "stdu", t |-> 1, a |-> 1, imm |-> -256]
        /\ Decode(c[2]) = std(0, 128)
        /\ Decode(c[3]) = [op |-> "mfspr", t |-> 0, spr |-> 8] /\ Decode(c[4]) = std(0, 136)
        /\ Decode(c[5]) = [op |-> "mfspr", t |-> 0, spr |-> 9] /\ Decode(c[6]) = std(0, 144)
        /\ \A k \in 1..10 : Decode(c[6 + k]) = std(k + 2, 144 + 8 * k)
    BY PrologueWords
  <2>2. \A t, d : std(t, d).op = "std"
    OBVIOUS
  <2> HIDE DEF c, std
  <2> QED  BY ONLY <2>1, <2>2
<1> HIDE DEF c
<1>2. ASSUME NEW k \in 1..16 PROVE Decode(c[k]).op \in {"std", "stdu", "mfspr"}
  <2>1. CASE k \in 1..6
    <3>1. k = 1 \/ k = 2 \/ k = 3 \/ k = 4 \/ k = 5 \/ k = 6
      BY <2>1
    <3> QED  BY ONLY <1>1, <3>1
  <2>2. CASE k \notin 1..6
    <3>1. k - 6 \in 1..10 /\ 6 + (k - 6) = k
      BY <2>2
    <3> QED  BY ONLY <1>1, <3>1
  <2> QED  BY <2>1, <2>2
<1> QED  BY <1>2 DEF c

\* An immediate that needs no sign.
Small == {n \in Nat : n < 1024}

\* An instruction li.
LEMMA LiWord ==
  ASSUME NEW r \in Five, NEW n \in Small
  PROVE  /\ encodeLi(r, n) \in Word
         /\ Decode(encodeLi(r, n)) = [op |-> "addi", t |-> r, a |-> 0, imm |-> n]
<1>1. 0 \in Five /\ n \in Int /\ n >= -32768 /\ n <= 32767
  BY SMT DEF Small
<1> QED  BY <1>1, EncodedImmediate DEF encodeLi

\* makeSyscallTrap (syscalls.hpp): the number in r11, and the trap.
LEMMA TrapWords ==
  ASSUME NEW n \in Small
  PROVE  /\ makeSyscallTrap(n) \in Seq(Word) /\ Len(makeSyscallTrap(n)) = 2
         /\ Decode(makeSyscallTrap(n)[1]) = [op |-> "addi", t |-> 11, a |-> 0, imm |-> n]
         /\ Decode(makeSyscallTrap(n)[2]) = [op |-> "sc"]
<1>1. 11 \in Five
  BY SMT
<1>2. /\ encodeLi(11, n) \in Word
      /\ Decode(encodeLi(11, n)) = [op |-> "addi", t |-> 11, a |-> 0, imm |-> n]
  BY <1>1, LiWord
<1>3. encodeSc \in Word /\ Decode(encodeSc) = [op |-> "sc"]
  BY EncodedRegister
<1>4. makeSyscallTrap(n) = << encodeLi(11, n), encodeSc >>
  BY DEF makeSyscallTrap
<1>5. makeSyscallTrap(n) \in Seq(Word) /\ Len(makeSyscallTrap(n)) = 2
  BY ONLY <1>2, <1>3, <1>4
<1> QED  BY ONLY <1>2, <1>3, <1>4, <1>5

\* makeLoadModuleCall (syscalls.hpp): the path in r3, zeros in r4 and r5.
LEMMA LoadWords ==
  ASSUME NEW p \in Address
  PROVE  LET s == makeLoadModuleCall(p)
         IN  /\ s \in Seq(Word) /\ Len(s) = 7
             /\ \A k \in 1..3 : s[k] = loadImmediate32(3, p)[k]
             /\ Decode(s[4]) = [op |-> "addi", t |-> 4, a |-> 0, imm |-> 0]
             /\ Decode(s[5]) = [op |-> "addi", t |-> 5, a |-> 0, imm |-> 0]
             /\ Decode(s[6]) = [op |-> "addi", t |-> 11, a |-> 0, imm |-> 480]
             /\ Decode(s[7]) = [op |-> "sc"]
<1> DEFINE x == loadImmediate32(3, p)
           z == << encodeLi(4, 0), encodeLi(5, 0) >>
           y == makeSyscallTrap(480)
<1>0. 3 \in Five /\ 4 \in Five /\ 5 \in Five /\ 0 \in Small /\ 480 \in Small
  BY SMT DEF Small
<1>1. x \in Seq(Word) /\ Len(x) = 3
  BY <1>0, ImmediateWords
<1>2. /\ encodeLi(4, 0) \in Word /\ Decode(encodeLi(4, 0)) = [op |-> "addi", t |-> 4, a |-> 0, imm |-> 0]
      /\ encodeLi(5, 0) \in Word /\ Decode(encodeLi(5, 0)) = [op |-> "addi", t |-> 5, a |-> 0, imm |-> 0]
  BY <1>0, LiWord
<1>3. /\ z \in Seq(Word) /\ Len(z) = 2 /\ z[1] = encodeLi(4, 0) /\ z[2] = encodeLi(5, 0)
  BY ONLY <1>2
<1>4. /\ y \in Seq(Word) /\ Len(y) = 2
      /\ Decode(y[1]) = [op |-> "addi", t |-> 11, a |-> 0, imm |-> 480] /\ Decode(y[2]) = [op |-> "sc"]
  BY <1>0, TrapWords
<1>5. makeLoadModuleCall(p) = (x \o z) \o y
  BY DEF makeLoadModuleCall, SYS_PRX_LOAD_MODULE
<1> HIDE DEF x, y, z
<1> DEFINE u == x \o z
           c == u \o y
<1>6. Joins(Word, u, x, z, 3, 2)
  BY <1>1, <1>3, Joined
<1>7. u \in Seq(Word) /\ Len(u) = 5
  BY ONLY <1>6 DEF Joins
<1>j. Joins(Word, c, u, y, 5, 2)
  <2> HIDE DEF u
  <2> QED  BY <1>7, <1>4, Joined
<1> HIDE DEF u, c
<1>8. makeLoadModuleCall(p) = c
  BY <1>5 DEF u, c
<1>9. u[4] = z[1] /\ u[5] = z[2] /\ u[1] = x[1] /\ u[2] = x[2] /\ u[3] = x[3]
  BY ONLY <1>6 DEF Joins
<1>10. /\ c \in Seq(Word) /\ Len(c) = 7
       /\ c[1] = u[1] /\ c[2] = u[2] /\ c[3] = u[3] /\ c[4] = u[4] /\ c[5] = u[5]
       /\ c[6] = y[1] /\ c[7] = y[2]
  BY ONLY <1>j DEF Joins
<1>11. \A k \in 1..3 : c[k] = x[k]
  BY ONLY <1>9, <1>10
<1> QED  BY ONLY <1>2, <1>3, <1>4, <1>8, <1>9, <1>10, <1>11 DEF x

\* makeStartModuleCall (syscalls.hpp): zeros in r4 to r8; r3 is left alone.
LEMMA StartWords ==
  LET s == makeStartModuleCall
  IN  /\ s \in Seq(Word) /\ Len(s) = 7
      /\ \A k \in 1..5 : Decode(s[k]) = [op |-> "addi", t |-> 3 + k, a |-> 0, imm |-> 0]
      /\ Decode(s[6]) = [op |-> "addi", t |-> 11, a |-> 0, imm |-> 481]
      /\ Decode(s[7]) = [op |-> "sc"]
<1> DEFINE x == [k \in 1..5 |-> encodeLi(3 + k, 0)]
           y == makeSyscallTrap(481)
           c == x \o y
<1>0. 0 \in Small /\ 481 \in Small
  BY SMT DEF Small
<1>1. ASSUME NEW k \in 1..5
      PROVE  /\ encodeLi(3 + k, 0) \in Word
             /\ Decode(encodeLi(3 + k, 0)) = [op |-> "addi", t |-> 3 + k, a |-> 0, imm |-> 0]
  <2> DEFINE r == 3 + k
  <2>1. r \in Five
    BY SMT
  <2> HIDE DEF r
  <2>2. /\ encodeLi(r, 0) \in Word /\ Decode(encodeLi(r, 0)) = [op |-> "addi", t |-> r, a |-> 0, imm |-> 0]
    BY <1>0, <2>1, LiWord
  <2> QED  BY <2>2 DEF r
<1>2. /\ x \in Seq(Word) /\ Len(x) = 5
      /\ \A k \in 1..5 : Decode(x[k]) = [op |-> "addi", t |-> 3 + k, a |-> 0, imm |-> 0]
  BY <1>1
<1>3. /\ y \in Seq(Word) /\ Len(y) = 2
      /\ Decode(y[1]) = [op |-> "addi", t |-> 11, a |-> 0, imm |-> 481] /\ Decode(y[2]) = [op |-> "sc"]
  BY <1>0, TrapWords
<1>4. makeStartModuleCall = c
  BY DEF makeStartModuleCall, SYS_PRX_START_MODULE
<1> HIDE DEF x, y
<1>5. Joins(Word, c, x, y, 5, 2)
  BY <1>2, <1>3, Joined
<1> HIDE DEF c
<1>6. /\ c \in Seq(Word) /\ Len(c) = 7 /\ c[6] = y[1] /\ c[7] = y[2]
      /\ \A k \in 1..5 : c[k] = x[k]
  BY ONLY <1>5 DEF Joins
<1> QED  BY ONLY <1>2, <1>3, <1>4, <1>6

\* The two calls (syscalls.hpp, makeLoadAndStartModule).
LEMMA SyscallWords ==
  ASSUME NEW p \in Address
  PROVE  Joins(Word, makeLoadAndStartModule(p), makeLoadModuleCall(p), makeStartModuleCall, 7, 7)
BY LoadWords, StartWords, Joined DEF makeLoadAndStartModule

\* buildEpilogue (trampoline.hpp:113-126).
LEMMA EpilogueWords ==
  LET p == buildEpilogue
      ld(t, d) == [op |-> "ld", t |-> t, a |-> 1, imm |-> d]
  IN  /\ p \in Seq(Word) /\ Len(p) = 16
      /\ Decode(p[1]) = ld(0, 136) /\ Decode(p[2]) = [op |-> "mtspr", t |-> 0, spr |-> 8]
      /\ Decode(p[3]) = ld(0, 144) /\ Decode(p[4]) = [op |-> "mtspr", t |-> 0, spr |-> 9]
      /\ \A k \in 1..10 : Decode(p[4 + k]) = ld(k + 2, 144 + 8 * k)
      /\ Decode(p[15]) = ld(0, 128)
      /\ Decode(p[16]) = [op |-> "addi", t |-> 1, a |-> 1, imm |-> 256]
<1> DEFINE ld(t, d) == [op |-> "ld", t |-> t, a |-> 1, imm |-> d]
           w1 == encodeLd(0, 1, SAVE_BASE + 8)
           w2 == encodeMtlr(0)
           w3 == encodeLd(0, 1, SAVE_BASE + 16)
           w4 == encodeMtctr(0)
           w5 == encodeLd(0, 1, SAVE_BASE)
           w6 == encodeAddi(1, 1, FRAME_SIZE)
           x == << w1, w2, w3, w4 >>
           y == [k \in 1..10 |-> encodeLd(k + 2, 1, SAVE_BASE + 16 + 8 * k)]
           z == << w5, w6 >>
           u == x \o y
           c == u \o z
<1>0. 0 \in Five /\ 1 \in Five /\ BDRange(128) /\ BDRange(136) /\ BDRange(144)
      /\ 128 \in Int /\ 136 \in Int /\ 144 \in Int /\ 256 \in Int /\ 256 >= -32768 /\ 256 <= 32767
  BY SMT DEF BDRange
<1>1. ASSUME NEW r \in Five, NEW d \in Int, BDRange(d)
      PROVE  encodeLd(r, 1, d) \in Word /\ Decode(encodeLd(r, 1, d)) = ld(r, d)
  BY <1>0, <1>1, EncodedStorage
<1>2. SAVE_BASE = 128 /\ SAVE_BASE + 8 = 136 /\ SAVE_BASE + 16 = 144 /\ FRAME_SIZE = 256
  BY DEF SAVE_BASE, FRAME_SIZE
<1>3. /\ w1 \in Word /\ Decode(w1) = ld(0, 136) /\ w3 \in Word /\ Decode(w3) = ld(0, 144)
      /\ w5 \in Word /\ Decode(w5) = ld(0, 128)
  BY <1>0, <1>1, <1>2
<1>4. /\ w2 \in Word /\ Decode(w2) = [op |-> "mtspr", t |-> 0, spr |-> 8]
      /\ w4 \in Word /\ Decode(w4) = [op |-> "mtspr", t |-> 0, spr |-> 9]
  <2>1. 8 \in Nat /\ 9 \in Nat /\ 8 < 1024 /\ 9 < 1024
    BY SMT
  <2> QED  BY <1>0, <2>1, EncodedSpr DEF encodeMtlr, encodeMtctr, SPR_LR, SPR_CTR
<1>5. w6 \in Word /\ Decode(w6) = [op |-> "addi", t |-> 1, a |-> 1, imm |-> 256]
  BY <1>0, <1>2, EncodedImmediate
<1>6. ASSUME NEW k \in 1..10
      PROVE  LET w == encodeLd(k + 2, 1, SAVE_BASE + 16 + 8 * k)
             IN  w \in Word /\ Decode(w) = ld(k + 2, 144 + 8 * k)
  <2> DEFINE d == SAVE_BASE + 16 + 8 * k
             r == k + 2
  <2>1. d \in Int /\ BDRange(d) /\ r \in Five /\ d = 144 + 8 * k
    BY SMT DEF BDRange, SAVE_BASE
  <2> HIDE DEF d, r
  <2>2. encodeLd(r, 1, d) \in Word /\ Decode(encodeLd(r, 1, d)) = ld(r, d)
    BY <1>1, <2>1
  <2> QED  BY <2>1, <2>2 DEF d, r
<1>7. y \in Seq(Word) /\ Len(y) = 10 /\ \A k \in 1..10 : Decode(y[k]) = ld(k + 2, 144 + 8 * k)
  <2> HIDE DEF ld
  <2> QED  BY <1>6
<1>8. buildEpilogue = c
  BY DEF buildEpilogue
<1> HIDE DEF w1, w2, w3, w4, w5, w6, y, ld
<1>9. /\ x \in Seq(Word) /\ Len(x) = 4 /\ x[1] = w1 /\ x[2] = w2 /\ x[3] = w3 /\ x[4] = w4
      /\ z \in Seq(Word) /\ Len(z) = 2 /\ z[1] = w5 /\ z[2] = w6
  BY ONLY <1>3, <1>4, <1>5
<1> HIDE DEF x, z
<1>10. Joins(Word, u, x, y, 4, 10)
  BY <1>7, <1>9, Joined
<1> HIDE DEF u
<1>11. /\ u \in Seq(Word) /\ Len(u) = 14 /\ \A k \in 1..10 : u[4 + k] = y[k]
       /\ u[1] = x[1] /\ u[2] = x[2] /\ u[3] = x[3] /\ u[4] = x[4]
  BY ONLY <1>10 DEF Joins
<1>12. Joins(Word, c, u, z, 14, 2)
  BY <1>9, <1>11, Joined
<1> HIDE DEF c
<1>13. /\ c \in Seq(Word) /\ Len(c) = 16 /\ c[15] = z[1] /\ c[16] = z[2]
       /\ \A k \in 1..14 : c[k] = u[k]
  BY ONLY <1>12 DEF Joins
<1>14. c[1] = u[1] /\ c[2] = u[2] /\ c[3] = u[3] /\ c[4] = u[4]
  BY ONLY <1>13
<1>15. ASSUME NEW k \in 1..10 PROVE Decode(c[4 + k]) = ld(k + 2, 144 + 8 * k)
  <2>1. 4 + k \in 1..14
    OBVIOUS
  <2> QED  BY ONLY <1>7, <1>11, <1>13, <2>1, k \in 1..10
<1> QED  BY ONLY <1>3, <1>4, <1>5, <1>8, <1>9, <1>11, <1>13, <1>14, <1>15 DEF ld

\* The long jump is loadImmediate32 and a branch to CTR.
LongJump(s, toAddr) ==
  /\ s \in Seq(Word) /\ Len(s) = 5
  /\ \A k \in 1..3 : s[k] = loadImmediate32(12, toAddr)[k]
  /\ Decode(s[4]) = [op |-> "mtspr", t |-> 12, spr |-> 9]
  /\ Decode(s[5]) = [op |-> "bcctr", bo |-> 20, bi |-> 0, lk |-> 0]

\* The short one is a branch.
ShortJump(s, fromAddr, toAddr) ==
  /\ s \in Seq(Word) /\ Len(s) = 1
  /\ Decode(s[1]) = [op |-> "b", imm |-> toAddr - fromAddr, aa |-> 0, lk |-> 0]

\* makeMinimalJump (trampoline.hpp:131-142) is one of the two.
LEMMA JumpWords ==
  ASSUME NEW fromAddr \in Address, NEW toAddr \in Address
  PROVE  \/ ShortJump(makeMinimalJump(fromAddr, toAddr), fromAddr, toAddr)
         \/ LongJump(makeMinimalJump(fromAddr, toAddr), toAddr)
<1>1. CASE L!reaches(fromAddr, toAddr)
  <2> DEFINE d == toAddr - fromAddr
             w == encodeBranch(d, 0, 0)
  <2>1. d \in Int /\ LIRange(d) /\ 0 \in Flag
    BY SMT, <1>1, AddrModFacts DEF LIRange, L!reaches, Address
  <2>2. makeMinimalJump(fromAddr, toAddr) = << w >>
    BY <1>1 DEF makeMinimalJump
  <2> HIDE DEF d
  <2>3. w \in Word /\ Decode(w) = [op |-> "b", imm |-> d, aa |-> 0, lk |-> 0]
    BY <2>1, EncodedBranch
  <2> HIDE DEF w
  <2>4. << w >> \in Seq(Word) /\ Len(<< w >>) = 1 /\ << w >>[1] = w
    BY ONLY <2>3
  <2> QED  BY <2>2, <2>3, <2>4 DEF ShortJump, d
<1>2. CASE ~ L!reaches(fromAddr, toAddr)
  <2> DEFINE x == loadImmediate32(12, toAddr)
             y == << encodeMtctr(12), encodeBctr >>
             c == x \o y
  <2>0. 12 \in Five /\ 9 \in Nat /\ 9 < 1024
    BY SMT
  <2>1. makeMinimalJump(fromAddr, toAddr) = c
    BY <1>2 DEF makeMinimalJump, makeAbsoluteJump
  <2>2. x \in Seq(Word) /\ Len(x) = 3
    BY <2>0, ImmediateWords
  <2>3. /\ encodeMtctr(12) \in Word /\ Decode(encodeMtctr(12)) = [op |-> "mtspr", t |-> 12, spr |-> 9]
        /\ encodeBctr \in Word /\ Decode(encodeBctr) = [op |-> "bcctr", bo |-> 20, bi |-> 0, lk |-> 0]
    BY <2>0, EncodedSpr, EncodedRegister DEF encodeMtctr, SPR_CTR
  <2>4. y \in Seq(Word) /\ Len(y) = 2 /\ y[1] = encodeMtctr(12) /\ y[2] = encodeBctr
    BY ONLY <2>3
  <2> HIDE DEF x, y
  <2>5. Joins(Word, c, x, y, 3, 2)
    BY <2>2, <2>4, Joined
  <2> HIDE DEF c
  <2>6. c \in Seq(Word) /\ Len(c) = 5 /\ (\A k \in 1..3 : c[k] = x[k]) /\ c[4] = y[1] /\ c[5] = y[2]
    BY ONLY <2>5 DEF Joins
  <2>7. LongJump(c, toAddr)
    BY ONLY <2>3, <2>4, <2>6 DEF LongJump, x
  <2> QED  BY <2>1, <2>7
<1> QED  BY <1>1, <1>2

-----------------------------------------------------------------------------
(***************************************************************************)
(* Words as bytes.                                                         *)
(***************************************************************************)
Octet == {n \in Nat : n < 256}

\* The bytes of a word make the word.
LEMMA WordBack ==
  ASSUME NEW w \in Word
  PROVE  /\ \A i \in 1..4 : WordBytes(w)[i] \in Octet
         /\ \A b, p : (\A i \in 1..4 : b[p + i] = WordBytes(w)[i]) => WordAt(b, p) = w
<1>1. PICK a \in Nat, v \in Nat : w = << a, v >> /\ a < 64 /\ v < 67108864
  BY SMT DEF Word
<1> DEFINE b1 == a * 4 + (v \div 16777216)
           b2 == (v \div 65536) % 256
           b3 == (v \div 256) % 256
           b4 == v % 256
<1>2. WordBytes(w) = << b1, b2, b3, b4 >>
  BY <1>1 DEF WordBytes
<1>3. PICK q1 \in Int : q1 = v \div 16777216 /\ q1 >= 0 /\ q1 < 4
  BY SMT, <1>1
<1>4. PICK q2 \in Int : q2 = v \div 65536 /\ q2 >= 0 /\ q2 < 1024
  BY SMT, <1>1
<1>5. PICK q3 \in Int : q3 = v \div 256 /\ q3 >= 0
  BY SMT, <1>1
<1>6. /\ b1 \in Nat /\ b1 < 256 /\ b1 \div 4 = a /\ b1 % 4 = q1
  BY SMT, <1>1, <1>3
<1>7. /\ b2 \in Nat /\ b2 < 256 /\ b3 \in Nat /\ b3 < 256 /\ b4 \in Nat /\ b4 < 256
  BY SMT, <1>4, <1>5
<1>8. q2 = q1 * 256 + b2
  <2>1. q1 = q2 \div 256
    BY SMT, <1>3, <1>4
  <2> QED  BY SMT, <2>1, <1>4, <1>3
<1>9. q3 = q2 * 256 + b3
  <2>1. q2 = q3 \div 256
    BY SMT, <1>5, <1>4
  <2> QED  BY SMT, <2>1, <1>4, <1>5
<1>10. v = q3 * 256 + b4
  BY SMT, <1>5
<1> HIDE DEF b1, b2, b3, b4
<1>11. v = q1 * 16777216 + b2 * 65536 + b3 * 256 + b4
  BY ONLY SMT, <1>7, <1>8, <1>9, <1>10, q1 \in Int, q2 \in Int, q3 \in Int, v \in Nat
<1>12. ASSUME NEW b, NEW p, \A i \in 1..4 : b[p + i] = WordBytes(w)[i] PROVE WordAt(b, p) = w
  <2>1. b[p + 1] = b1 /\ b[p + 2] = b2 /\ b[p + 3] = b3 /\ b[p + 4] = b4
    BY <1>12, <1>2
  <2> QED  BY <2>1, <1>6, <1>11, <1>1 DEF WordAt
<1> QED  BY <1>2, <1>6, <1>7, <1>12 DEF Octet

\* toBigEndianBytes (trampoline.hpp): four bytes to a word, in order.
LEMMA BytesOf ==
  ASSUME NEW s \in Seq(Word)
  PROVE  LET t == toBigEndianBytes(s)
         IN  /\ t \in Seq(Octet) /\ Len(t) = 4 * Len(s)
             /\ \A j \in 0..(Len(s) - 1) : \A i \in 1..4 : t[4 * j + i] = WordBytes(s[j + 1])[i]
<1> DEFINE t == toBigEndianBytes(s)
           n == Len(s)
           B(k) == WordBytes(s[((k - 1) \div 4) + 1])[((k - 1) % 4) + 1]
<1>1. n \in Nat /\ \A k \in 1..n : s[k] \in Word
  OBVIOUS
<1>2. t = [k \in 1..(4 * n) |-> B(k)]
  BY DEF toBigEndianBytes
<1>3. ASSUME NEW k \in 1..(4 * n) PROVE B(k) \in Octet
  <2> DEFINE j == ((k - 1) \div 4) + 1
             i == ((k - 1) % 4) + 1
  <2>1. j \in 1..n /\ i \in 1..4
    BY <1>1
  <2> HIDE DEF i, j
  <2>2. WordBytes(s[j])[i] \in Octet
    BY <2>1, <1>1, WordBack
  <2> QED  BY <2>2 DEF i, j
<1>4. ASSUME NEW j \in 0..(n - 1), NEW i \in 1..4 PROVE t[4 * j + i] = WordBytes(s[j + 1])[i]
  <2> DEFINE k == 4 * j + i
  <2>1. k \in 1..(4 * n) /\ (k - 1) \div 4 = j /\ (k - 1) % 4 = i - 1
    BY <1>1
  <2> HIDE DEF k
  <2>2. t[k] = B(k)
    BY <1>2, <2>1
  <2>3. B(k) = WordBytes(s[j + 1])[(i - 1) + 1]
    BY <2>1
  <2>4. (i - 1) + 1 = i
    OBVIOUS
  <2> QED  BY ONLY <2>2, <2>3, <2>4 DEF k
<1> HIDE DEF B
<1>5. t \in Seq(Octet) /\ Len(t) = 4 * n
  <2>1. 4 * n \in Nat
    BY <1>1
  <2> QED  BY ONLY <1>2, <1>3, <2>1
<1> QED  BY <1>4, <1>5

\* What relocateInstruction returns is a word, if it is anything.
LEMMA MovedWord ==
  ASSUME NEW w \in Word, NEW o \in Address, NEW n \in Address, relocateInstruction(w, o, n) # Invalid
  PROVE  relocateInstruction(w, o, n) \in Word
<1>1. CASE classify(w).kind # "DirectRelative"
  BY <1>1 DEF relocateInstruction
<1>2. CASE classify(w).kind = "DirectRelative"
  <2>0. relocateInstruction(w, o, n) = relocateBranch(classify(w), o, n) /\ 0 \in Flag
    BY SMT, <1>2 DEF relocateInstruction
  <2>1. ASSUME NEW d \in Int, NEW lk \in Flag, classify(w) = RelativeB(d, lk)
        PROVE  relocateInstruction(w, o, n) \in Word
    <3>1. PICK e \in Int : e = Relocated(d, o, n)
      BY SMT, RelocatedType
    <3>2. relocateBranch(RelativeB(d, lk), o, n) \in {Invalid, encodeBranch(e, 0, lk)}
      BY SMT, <3>1 DEF relocateBranch, RelativeB, DecodedBranch, Relocated
    <3>3. encodeBranch(e, 0, lk) = Invalid \/ encodeBranch(e, 0, lk) \in Word
      BY <2>0, EncodedBranch
    <3> QED  BY ONLY <2>0, <2>1, <3>2, <3>3, relocateInstruction(w, o, n) # Invalid
  <2>2. ASSUME NEW d \in Int, NEW lk \in Flag, NEW bo \in Five, NEW bi \in Five, classify(w) = RelativeBc(bo, bi, d, lk)
        PROVE  relocateInstruction(w, o, n) \in Word
    <3>1. PICK e \in Int : e = Relocated(d, o, n)
      BY SMT, RelocatedType
    <3>2. relocateBranch(RelativeBc(bo, bi, d, lk), o, n) \in {Invalid, encodeBranchConditional(bo, bi, e, 0, lk)}
      BY SMT, <3>1 DEF relocateBranch, RelativeBc, DecodedBranch, Relocated
    <3>3. encodeBranchConditional(bo, bi, e, 0, lk) = Invalid \/ encodeBranchConditional(bo, bi, e, 0, lk) \in Word
      BY <2>0, EncodedBranchConditional
    <3> QED  BY ONLY <2>0, <2>2, <3>2, <3>3, relocateInstruction(w, o, n) # Invalid
  <2> QED  BY <1>2, <2>1, <2>2, RelativeIsBOrBc
<1> QED  BY <1>1, <1>2

-----------------------------------------------------------------------------
(***************************************************************************)
(* The blob of a patching job.                                             *)
(***************************************************************************)
JumpIn == makeMinimalJump(scene.code, CodeBase)
Back   == jumpBack(scene.code, scene.trampolineAddr, Displaced)

\* m is what relocateDisplacedInstructions makes of the first words of the game.
MovedWords(m) ==
  /\ m \in Seq(Word) /\ Len(m) = Displaced
  /\ \A i \in 1..Displaced :
       LET w == relocateInstruction(scene.text[i], (scene.code + (i - 1) * 4) % AddrMod,
                                                   (Resume + (i - 1) * 4) % AddrMod)
       IN  m[i] = w /\ w # Invalid

\* The code around the displaced instructions m.
Injected(m) ==
  buildPrologue \o makeLoadAndStartModule(PathAt) \o buildEpilogue
    \o loadImmediate32(2, scene.toc) \o m \o Back

\* The addresses of a job are addresses, its jumps are words.
LEMMA JobTypes ==
  ASSUME scene \in Scenes
  PROVE  /\ scene.code \in Address /\ scene.trampolineAddr \in Address /\ scene.toc \in Address
         /\ CodeBase \in Address /\ Resume \in Address /\ PathAt \in Address
         /\ JumpIn \in Seq(Word) /\ Displaced = Len(JumpIn) /\ Displaced \in {1, 5}
         /\ Back \in Seq(Word) /\ Len(Back) \in {1, 5}
<1>0. scene.code \in Address /\ scene.trampolineAddr \in Address /\ scene.toc \in Address
  BY BootAssumption
<1>1. \A x \in Int : x % AddrMod \in Address
  BY SMT, AddrModFacts DEF Address
<1>2. Address \subseteq Int
  BY SMT, AddrModFacts DEF Address
<1>i. scene.code \in Int /\ scene.trampolineAddr \in Int
  BY ONLY Zenon, <1>0, <1>2
<1>3. Len(TRAMPOLINE_MAGIC) = 8 /\ fixedPrefixInstrCount = 49
  BY DEF TRAMPOLINE_MAGIC, fixedPrefixInstrCount, PROLOGUE_INSTR_COUNT, SYSCALL_SEQUENCE_INSTR_COUNT,
         EPILOGUE_INSTR_COUNT, TOC_FIXUP_INSTR_COUNT
<1>4. CodeBase \in Address
  <2>1. CodeBase = (scene.trampolineAddr + 8) % AddrMod
    BY <1>3 DEF CodeBase, codeBaseAddr
  <2>2. scene.trampolineAddr + 8 \in Int
    BY ONLY <1>i
  <2> QED  BY ONLY Zenon, <1>1, <2>1, <2>2
<1>5. Resume \in Address
  <2>1. Resume = (CodeBase + 49 * 4) % AddrMod
    BY <1>3 DEF Resume, resumeAddr, CodeBase
  <2>2. CodeBase + 49 * 4 \in Int
    BY <1>4, <1>2
  <2> QED  BY ONLY Zenon, <1>1, <2>1, <2>2
<1>6. ASSUME NEW from \in Address, NEW to \in Address
      PROVE  makeMinimalJump(from, to) \in Seq(Word) /\ Len(makeMinimalJump(from, to)) \in {1, 5}
  BY JumpWords DEF ShortJump, LongJump
<1>7. JumpIn \in Seq(Word) /\ Len(JumpIn) \in {1, 5}
  BY <1>0, <1>4, <1>6 DEF JumpIn
<1>8. Displaced = Len(JumpIn)
  BY DEF Displaced, JumpIn
<1>9. Back \in Seq(Word) /\ Len(Back) \in {1, 5}
  <2> DEFINE a == (Resume + Displaced * 4) % AddrMod
             b == (scene.code + Displaced * 4) % AddrMod
  <2>1. Displaced \in Int
    BY <1>7, <1>8
  <2>2. a \in Address /\ b \in Address
    <3>1. Resume + Displaced * 4 \in Int /\ scene.code + Displaced * 4 \in Int
      <4>1. Resume \in Int
        BY ONLY Zenon, <1>2, <1>5
      <4> QED  BY ONLY <1>i, <4>1, <2>1
    <3> QED  BY ONLY Zenon, <1>1, <3>1
  <2>3. Back = makeMinimalJump(a, b)
    BY DEF Back, jumpBack, Resume
  <2> HIDE DEF a, b
  <2> QED  BY <2>2, <2>3, <1>6
<1>10. PathAt \in Address
  <2>1. Displaced \in Int /\ Len(Back) \in Int
    BY <1>7, <1>8, <1>9
  <2>2. PathAt = (CodeBase + (49 + Displaced + Len(Back)) * 4) % AddrMod
    BY <1>3 DEF PathAt, pathAddress, CodeBase, Back
  <2>3. CodeBase + (49 + Displaced + Len(Back)) * 4 \in Int
    BY ONLY <1>2, <1>4, <2>1
  <2> QED  BY ONLY Zenon, <1>1, <2>2, <2>3
<1> QED  BY <1>0, <1>4, <1>5, <1>7, <1>8, <1>9, <1>10

\* The code that is injected: its length, and its pieces.
LEMMA InjectedWords ==
  ASSUME scene \in Scenes, NEW m \in Seq(Word), Len(m) = Displaced
  PROVE  /\ Injected(m) \in Seq(Word) /\ Len(Injected(m)) = 49 + Displaced + Len(Back)
         /\ \A k \in 1..16 : Injected(m)[k] = buildPrologue[k]
         /\ \A k \in 1..14 : Injected(m)[16 + k] = makeLoadAndStartModule(PathAt)[k]
         /\ \A k \in 1..16 : Injected(m)[30 + k] = buildEpilogue[k]
         /\ \A k \in 1..3 : Injected(m)[46 + k] = loadImmediate32(2, scene.toc)[k]
         /\ \A k \in 1..Displaced : Injected(m)[49 + k] = m[k]
         /\ \A k \in 1..Len(Back) : Injected(m)[49 + Displaced + k] = Back[k]
<1> DEFINE P == buildPrologue
           C == makeLoadAndStartModule(PathAt)
           E == buildEpilogue
           I == loadImmediate32(2, scene.toc)
           d == Displaced
           b == Len(Back)
           s1 == P \o C
           s2 == s1 \o E
           s3 == s2 \o I
           s4 == s3 \o m
           s5 == s4 \o Back
<1>0. 2 \in Five
  BY SMT
<1>1. /\ P \in Seq(Word) /\ Len(P) = 16 /\ E \in Seq(Word) /\ Len(E) = 16
      /\ I \in Seq(Word) /\ Len(I) = 3
  BY <1>0, PrologueWords, EpilogueWords, ImmediateWords, JobTypes
<1>2. C \in Seq(Word) /\ Len(C) = 14
  <2>1. Joins(Word, C, makeLoadModuleCall(PathAt), makeStartModuleCall, 7, 7)
    BY SyscallWords, JobTypes
  <2> HIDE DEF C
  <2> QED  BY ONLY <2>1 DEF Joins
<1>3. Back \in Seq(Word) /\ d \in Nat /\ b \in Nat /\ m \in Seq(Word) /\ Len(m) = d /\ Len(Back) = b
  BY JobTypes
<1>4. Injected(m) = s5
  BY DEF Injected
<1> HIDE DEF P, C, E, I, d, b
<1>5. Joins(Word, s1, P, C, 16, 14)
  BY <1>1, <1>2, Joined
<1> HIDE DEF s1
<1>6. s1 \in Seq(Word) /\ Len(s1) = 30
  BY ONLY <1>5 DEF Joins
<1>7. Joins(Word, s2, s1, E, 30, 16)
  BY <1>1, <1>6, Joined
<1> HIDE DEF s2
<1>8. s2 \in Seq(Word) /\ Len(s2) = 46
  BY ONLY <1>7 DEF Joins
<1>9. Joins(Word, s3, s2, I, 46, 3)
  BY <1>1, <1>8, Joined
<1> HIDE DEF s3
<1>10. s3 \in Seq(Word) /\ Len(s3) = 49
  BY ONLY <1>9 DEF Joins
<1>11. Joins(Word, s4, s3, m, 49, d)
  BY <1>3, <1>10, Joined
<1> HIDE DEF s4
<1>12. s4 \in Seq(Word) /\ Len(s4) = 49 + d
  BY ONLY <1>11 DEF Joins
<1>13. Joins(Word, s5, s4, Back, 49 + d, b)
  BY <1>3, <1>12, Joined
<1> HIDE DEF s5
<1>14. s5 \in Seq(Word) /\ Len(s5) = 49 + d + b
  BY ONLY <1>13 DEF Joins
<1>15. \A k \in 1..49 : s5[k] = s3[k]
  <2> TAKE k \in 1..49
  <2>1. k \in 1..(49 + d)
    BY <1>3
  <2>2. s5[k] = s4[k]
    BY ONLY <2>1, <1>13 DEF Joins
  <2>3. s4[k] = s3[k]
    BY ONLY <1>11, k \in 1..49 DEF Joins
  <2> QED  BY ONLY <2>2, <2>3
<1>16. \A k \in 1..30 : s5[k] = s1[k]
  <2> TAKE k \in 1..30
  <2>1. k \in 1..46 /\ k \in 1..49
    OBVIOUS
  <2>2. s3[k] = s2[k]
    BY ONLY <2>1, <1>9 DEF Joins
  <2>3. s2[k] = s1[k]
    BY ONLY <1>7, k \in 1..30 DEF Joins
  <2> QED  BY ONLY <1>15, <2>1, <2>2, <2>3
<1>17. \A k \in 1..16 : s5[k] = P[k]
  <2> TAKE k \in 1..16
  <2>1. k \in 1..30
    OBVIOUS
  <2>2. s1[k] = P[k]
    BY ONLY <1>5, k \in 1..16 DEF Joins
  <2> QED  BY ONLY <2>1, <2>2, <1>16
<1>18. \A k \in 1..14 : s5[16 + k] = C[k]
  <2> TAKE k \in 1..14
  <2>1. 16 + k \in 1..30
    OBVIOUS
  <2>2. s1[16 + k] = C[k]
    BY ONLY <1>5, k \in 1..14 DEF Joins
  <2> QED  BY ONLY <2>1, <2>2, <1>16
<1>19. \A k \in 1..16 : s5[30 + k] = E[k]
  <2> TAKE k \in 1..16
  <2>1. 30 + k \in 1..46 /\ 30 + k \in 1..49
    OBVIOUS
  <2>2. s3[30 + k] = s2[30 + k]
    BY ONLY <2>1, <1>9 DEF Joins
  <2>3. s2[30 + k] = E[k]
    BY ONLY <1>7, k \in 1..16 DEF Joins
  <2> QED  BY ONLY <1>15, <2>1, <2>2, <2>3
<1>20. \A k \in 1..3 : s5[46 + k] = I[k]
  <2> TAKE k \in 1..3
  <2>1. 46 + k \in 1..49
    OBVIOUS
  <2>2. s3[46 + k] = I[k]
    BY ONLY <1>9, k \in 1..3 DEF Joins
  <2> QED  BY ONLY <1>15, <2>1, <2>2
<1>21. \A k \in 1..d : s5[49 + k] = m[k]
  <2> TAKE k \in 1..d
  <2>1. 49 + k \in 1..(49 + d)
    BY <1>3
  <2>2. s5[49 + k] = s4[49 + k]
    BY ONLY <2>1, <1>13 DEF Joins
  <2>3. s4[49 + k] = m[k]
    BY ONLY <1>11, k \in 1..d DEF Joins
  <2> QED  BY ONLY <2>2, <2>3
<1>22. \A k \in 1..b : s5[49 + d + k] = Back[k]
  BY ONLY <1>13 DEF Joins
<1> QED  BY ONLY <1>4, <1>14, <1>17, <1>18, <1>19, <1>20, <1>21, <1>22 DEF d, b, P, C, E, I

\* Magic, code, path and its null (blobOf), where they are in the blob.
LEMMA BlobBytes ==
  ASSUME NEW c \in Seq(Word), NEW path \in Seq(Octet)
  PROVE  LET n    == Len(c)
             blob == blobOf(c, path)
             size == 8 + 4 * n + Len(path) + 1
         IN  /\ blob \in Seq(Octet) /\ Len(blob) = size + ((-size) % 4)
             /\ \A k \in 1..(4 * n) : blob[8 + k] = toBigEndianBytes(c)[k]
             /\ \A k \in 1..Len(path) : blob[8 + 4 * n + k] = path[k]
             /\ blob[8 + 4 * n + Len(path) + 1] = 0
<1> DEFINE n == Len(c)
           p == Len(path)
           M == TRAMPOLINE_MAGIC
           B == toBigEndianBytes(c)
           N == << 0 >>
           s1 == M \o B
           s2 == s1 \o path
           s3 == s2 \o N
           size == 8 + 4 * n + p + 1
           f  == (-size) % 4
           Z  == [k \in 1..f |-> 0]
           s4 == s3 \o Z
<1>1. n \in Nat /\ p \in Nat /\ 4 * n \in Nat
  OBVIOUS
<1>2. M \in Seq(Octet) /\ Len(M) = 8
  BY DEF TRAMPOLINE_MAGIC, Octet
<1>3. B \in Seq(Octet) /\ Len(B) = 4 * n
  BY BytesOf
<1>4. N \in Seq(Octet) /\ Len(N) = 1 /\ N[1] = 0
  BY DEF Octet
<1> DEFINE q == 4 * n
<1>q. q \in Nat /\ Len(B) = q /\ size = 8 + q + p + 1
  BY <1>1, <1>3
<1>5. f \in Nat
  BY ONLY <1>q, <1>1
<1>6. Z \in Seq(Octet) /\ Len(Z) = f
  <2> HIDE DEF f
  <2> QED  BY <1>5 DEF Octet
<1> HIDE DEF n, p, M, B, N, q, Z, f, size
<1>7. Joins(Octet, s1, M, B, 8, q)
  BY <1>2, <1>3, <1>q, Joined
<1> HIDE DEF s1
<1>8. s1 \in Seq(Octet) /\ Len(s1) = 8 + q
  BY ONLY <1>7 DEF Joins
<1>9. Joins(Octet, s2, s1, path, 8 + q, p)
  BY <1>8, Joined DEF p
<1> HIDE DEF s2
<1>10. s2 \in Seq(Octet) /\ Len(s2) = 8 + q + p
  BY ONLY <1>9 DEF Joins
<1>11. Joins(Octet, s3, s2, N, 8 + q + p, 1)
  BY <1>10, <1>4, Joined
<1> HIDE DEF s3
<1>12. s3 \in Seq(Octet) /\ Len(s3) = size
  BY ONLY <1>11, <1>q DEF Joins
<1>13. Joins(Octet, s4, s3, Z, size, f)
  BY <1>12, <1>6, Joined
<1>14. blobOf(c, path) = s4
  <2>1. Len(M \o B \o path \o << 0 >>) = size
    BY <1>12 DEF s3, s2, s1, N
  <2>2. s4 = (M \o B \o path \o << 0 >>) \o [k \in 1..((-size) % 4) |-> 0]
    BY DEF s4, s3, s2, s1, N, Z, f
  <2> QED  BY <2>1, <2>2 DEF blobOf, M, B
<1> HIDE DEF s4
<1>15. s4 \in Seq(Octet) /\ Len(s4) = size + f
  BY ONLY <1>13 DEF Joins
<1>16. \A k \in 1..q : s4[8 + k] = B[k]
  <2> TAKE k \in 1..q
  <2>1. 8 + k \in 1..(8 + q) /\ 8 + k \in 1..(8 + q + p) /\ 8 + k \in 1..size
    BY ONLY <1>q, <1>1
  <2>2. s4[8 + k] = s3[8 + k]
    BY ONLY <1>13, <2>1 DEF Joins
  <2>3. s3[8 + k] = s2[8 + k]
    BY ONLY <1>11, <2>1 DEF Joins
  <2>4. s2[8 + k] = s1[8 + k]
    BY ONLY <1>9, <2>1 DEF Joins
  <2>5. s1[8 + k] = B[k]
    BY ONLY <1>7, k \in 1..q DEF Joins
  <2> QED  BY ONLY <2>2, <2>3, <2>4, <2>5
<1>17. \A k \in 1..p : s4[8 + q + k] = path[k]
  <2> TAKE k \in 1..p
  <2>1. 8 + q + k \in 1..(8 + q + p) /\ 8 + q + k \in 1..size
    BY ONLY <1>q, <1>1
  <2>2. s4[8 + q + k] = s3[8 + q + k]
    BY ONLY <1>13, <2>1 DEF Joins
  <2>3. s3[8 + q + k] = s2[8 + q + k]
    BY ONLY <1>11, <2>1 DEF Joins
  <2>4. s2[8 + q + k] = path[k]
    BY ONLY <1>9, k \in 1..p DEF Joins
  <2> QED  BY ONLY <2>2, <2>3, <2>4
<1>18. s4[8 + q + p + 1] = 0
  <2>1. 8 + q + p + 1 \in 1..size /\ 1 \in 1..1
    BY ONLY <1>q, <1>1
  <2>2. s4[8 + q + p + 1] = s3[8 + q + p + 1]
    BY ONLY <1>13, <2>1 DEF Joins
  <2>3. s3[8 + q + p + 1] = N[1]
    BY ONLY <1>11, <2>1 DEF Joins
  <2> QED  BY ONLY <2>2, <2>3, <1>4
<1> QED  BY ONLY <1>14, <1>15, <1>16, <1>17, <1>18 DEF q, n, p, B, f, size

\* What Patch asks buildTrampoline for.
Job ==
  buildTrampoline([patched |-> scene.patched, mapped |-> scene.mapped,
                   bytes |-> SubSeq(toBigEndianBytes(scene.text), 1, scene.cut)],
                  [codeAddress |-> scene.code, tocValue |-> scene.toc],
                  scene.trampolineAddr, scene.path)

\* What buildTrampoline has checked before it emits code.
Checked ==
  /\ Len(scene.path) <= kMaxPathLength
  /\ scene.trampolineAddr % 4 = 0 /\ scene.code % 4 = 0
  /\ Displaced * 4 <= scene.cut

\* The types of a patching job.
LEMMA SceneFacts ==
  ASSUME scene \in Scenes
  PROVE  /\ scene.text \in Seq(Word) /\ scene.path \in Seq(Octet)
         /\ scene.cut \in Nat /\ scene.cut <= 4 * Len(scene.text)
         /\ Len(scene.path) \in Nat /\ Displaced \in Nat /\ Len(Back) \in Nat
<1>1. /\ scene.text \in Seq(Word) /\ scene.path \in Seq(Octet)
      /\ scene.cut \in Nat /\ scene.cut <= 4 * Len(scene.text)
  BY ONLY Zenon, scene \in Scenes, BootAssumption DEF Octet
<1>2. Displaced \in Nat /\ Len(Back) \in Nat
  <2>1. Displaced \in {1, 5} /\ Len(Back) \in {1, 5}
    BY JobTypes
  <2> QED  BY ONLY <2>1
<1> QED  BY ONLY <1>1, <1>2

\* The words to displace are the first words of the game.
LEMMA DisplacedWords ==
  ASSUME scene \in Scenes, Displaced * 4 <= scene.cut, NEW i \in 1..Displaced
  PROVE  /\ WordAt(SubSeq(toBigEndianBytes(scene.text), 1, scene.cut), (i - 1) * 4) = scene.text[i]
         /\ scene.text[i] \in Word
<1> DEFINE t == toBigEndianBytes(scene.text)
           s == SubSeq(t, 1, scene.cut)
           w == scene.text[i]
           p == (i - 1) * 4
<1>1. scene.text \in Seq(Word) /\ scene.cut \in Nat /\ scene.cut <= 4 * Len(scene.text) /\ Displaced \in Nat
  BY SceneFacts
<1>2. /\ t \in Seq(Octet) /\ Len(t) = 4 * Len(scene.text)
      /\ \A j \in 0..(Len(scene.text) - 1) : \A k \in 1..4 : t[4 * j + k] = WordBytes(scene.text[j + 1])[k]
  BY <1>1, BytesOf
<1> HIDE DEF t
<1>3. i \in 1..Len(scene.text) /\ i - 1 \in 0..(Len(scene.text) - 1) /\ (i - 1) + 1 = i /\ p = 4 * (i - 1)
  BY <1>1
<1>4. w \in Word
  BY <1>1, <1>3
<1>5. \A k \in 1..4 : t[p + k] = WordBytes(w)[k]
  BY <1>2, <1>3
<1>6. \A k \in 1..4 : s[p + k] = t[p + k]
  <2> TAKE k \in 1..4
  <2>1. p + k \in 1..scene.cut /\ scene.cut <= Len(t)
    BY <1>1, <1>2
  <2> HIDE DEF p
  <2> QED  BY ONLY <2>1, <1>1, <1>2
<1> HIDE DEF s, w, p
<1>7. WordAt(s, p) = w
  BY <1>4, <1>5, <1>6, WordBack
<1> QED  BY <1>4, <1>7 DEF s, t, p, w

\* What the first checks of buildTrampoline establish.
LEMMA ChecksMeans ==
  ASSUME NEW f, NEW ca, NEW ta, NEW dc \in Nat, NEW pl \in Nat, NEW left \in Nat, f.left = left
  PROVE  \/ L!checks(f, ca, ta, dc, pl) \in
              {Err("InvalidArgument"), Err("AlreadyPatched"), Err("OffsetOutOfBounds"), Err("TruncatedFile")}
         \/ /\ L!checks(f, ca, ta, dc, pl) = Ok("checked")
            /\ pl <= kMaxPathLength /\ ta % 4 = 0 /\ ca % 4 = 0 /\ dc * 4 <= left
<1> DEFINE c == L!checks(f, ca, ta, dc, pl)
           i == \/ pl \notin 1..kMaxPathLength \/ ta % 4 # 0 \/ ca % 4 # 0
           s == left < dc * 4
<1>1. c = IF i THEN Err("InvalidArgument")
          ELSE IF f.patched THEN Err("AlreadyPatched")
          ELSE IF ~ f.mapped THEN Err("OffsetOutOfBounds")
          ELSE IF s THEN Err("TruncatedFile")
          ELSE Ok("checked")
  BY f.left = left DEF L!checks, L!Err, L!Ok, Err, Ok
<1>2. ~ i => pl <= kMaxPathLength /\ ta % 4 = 0 /\ ca % 4 = 0
  <2>1. kMaxPathLength \in Nat
    BY DEF kMaxPathLength
  <2> QED  BY ONLY <2>1, pl \in Nat
<1>3. ~ s => dc * 4 <= left
  OBVIOUS
<1> HIDE DEF c, i, s
<1> QED  BY ONLY <1>1, <1>2, <1>3 DEF c

\* buildTrampoline (trampoline.hpp:194-318) either refuses, never for one of its
\* internal inconsistencies, or returns the blob around the moved instructions.
LEMMA JobResult ==
  ASSUME scene \in Scenes
  PROVE  \/ Job.ok = FALSE /\ Job.code # "Unsupported"
         \/ /\ Job.ok /\ Checked
            /\ Job.value.entryPatchBytes = toBigEndianBytes(JumpIn)
            /\ \E m : MovedWords(m) /\ Job.value.blob = blobOf(Injected(m), scene.path)
<1> DEFINE bytes == SubSeq(toBigEndianBytes(scene.text), 1, scene.cut)
           n     == Displaced
           dis   == [i \in 1..n |-> WordAt(bytes, (i - 1) * 4)]
           rel   == relocateDisplacedInstructions(dis, scene.code, Resume)
           sys   == makeLoadAndStartModule(PathAt)
           code  == Injected(rel.value)
           chk   == L!checks([patched |-> scene.patched, mapped |-> scene.mapped, left |-> Len(bytes)],
                             scene.code, scene.trampolineAddr, n, Len(scene.path))
           made  == Ok([blob            |-> blobOf(code, scene.path),
                        entryPatchBytes |-> toBigEndianBytes(JumpIn),
                        trampolineAddr  |-> scene.trampolineAddr,
                        entryPatchAddr  |-> scene.code,
                        displacedInstructionCount |-> n])
<1>1. Job = IF ~ chk.ok THEN chk
            ELSE IF ~ rel.ok THEN rel
            ELSE IF \/ Len(sys) # SYSCALL_SEQUENCE_INSTR_COUNT
                    \/ Len(code) # fixedPrefixInstrCount + n + Len(Back)
                 THEN Err("Unsupported")
            ELSE made
  BY DEF Job, buildTrampoline, Injected, JumpIn, Back, Displaced, CodeBase, Resume, PathAt
<1>2. Len(bytes) = scene.cut
  <2>1. scene.text \in Seq(Word) /\ scene.cut \in Nat /\ scene.cut <= 4 * Len(scene.text)
    BY SceneFacts
  <2> DEFINE t == toBigEndianBytes(scene.text)
  <2>2. t \in Seq(Octet) /\ Len(t) = 4 * Len(scene.text)
    BY <2>1, BytesOf
  <2> HIDE DEF t
  <2>3. Len(SubSeq(t, 1, scene.cut)) = scene.cut
    BY ONLY <2>1, <2>2
  <2> QED  BY <2>3 DEF t
<1>3. \/ chk.ok = FALSE /\ chk.code # "Unsupported"
      \/ chk.ok = TRUE /\ Checked
  <2> HIDE DEF bytes
  <2>1. n \in Nat /\ scene.cut \in Nat /\ Len(scene.path) \in Nat
    BY SceneFacts
  <2> DEFINE r == [patched |-> scene.patched, mapped |-> scene.mapped, left |-> Len(bytes)]
  <2>3. r.left = scene.cut
    BY ONLY <1>2
  <2> HIDE DEF r
  <2>2. \/ chk \in {Err("InvalidArgument"), Err("AlreadyPatched"), Err("OffsetOutOfBounds"), Err("TruncatedFile")}
        \/ chk = Ok("checked") /\ Checked
    <3> DEFINE c == L!checks(r, scene.code, scene.trampolineAddr, n, Len(scene.path))
    <3>1. chk = c
      BY DEF r
    <3>2. \/ c \in {Err("InvalidArgument"), Err("AlreadyPatched"), Err("OffsetOutOfBounds"), Err("TruncatedFile")}
          \/ /\ c = Ok("checked")
             /\ Len(scene.path) <= kMaxPathLength /\ scene.trampolineAddr % 4 = 0 /\ scene.code % 4 = 0
             /\ n * 4 <= scene.cut
      <4> HIDE DEF n
      <4> QED  BY ONLY Zenon, <2>1, <2>3, ChecksMeans
    <3> HIDE DEF c, chk
    <3> QED  BY ONLY Zenon, <3>1, <3>2 DEF Checked
  <2> HIDE DEF chk
  <2> QED  BY ONLY <2>2 DEF Err, Ok
<1>4. CASE chk.ok = FALSE
  BY ONLY <1>1, <1>3, <1>4
<1>5. CASE chk.ok = TRUE /\ Checked
  <2>1. n \in Nat /\ \A i \in 1..n : dis[i] = scene.text[i] /\ dis[i] \in Word
    BY <1>5, DisplacedWords, JobTypes DEF Checked
  <2>2. dis \in Seq(Word) /\ Len(dis) = n
    BY ONLY <2>1
  <2> DEFINE o(i) == (scene.code + (i - 1) * 4) % AddrMod
             a(i) == (Resume + (i - 1) * 4) % AddrMod
             out  == [i \in 1..n |-> relocateInstruction(dis[i], o(i), a(i))]
  <2>3. rel = IF \E i \in 1..n : out[i] = Invalid THEN Err("RelocationFailed") ELSE Ok(out)
    <3> HIDE DEF dis
    <3> QED  BY <2>2 DEF relocateDisplacedInstructions
  <2>4. CASE \E i \in 1..n : out[i] = Invalid
    <3>1. rel = Err("RelocationFailed")
      BY ONLY <2>3, <2>4
    <3>2. rel.ok = FALSE /\ rel.code # "Unsupported"
      BY ONLY <3>1 DEF Err
    <3> QED  BY ONLY <1>1, <1>5, <3>2
  <2>5. CASE ~ \E i \in 1..n : out[i] = Invalid
    <3>1. rel = Ok(out)
      BY ONLY <2>3, <2>5
    <3>2. rel.ok = TRUE /\ rel.value = out
      <4> HIDE DEF rel, out
      <4> QED  BY ONLY <3>1 DEF Ok
    <3>3. \A i \in 1..n : o(i) \in Address /\ a(i) \in Address
      <4>1. scene.code \in Int /\ Resume \in Int /\ AddrMod \in Nat /\ AddrMod > 0
        BY JobTypes, AddrModFacts DEF Address
      <4> QED  BY ONLY <4>1, <2>1 DEF Address
    <3>4. \A i \in 1..n : relocateInstruction(dis[i], o(i), a(i)) \in Word
      <4> TAKE i \in 1..n
      <4>1. relocateInstruction(dis[i], o(i), a(i)) # Invalid
        BY <2>5
      <4> HIDE DEF dis, o, a
      <4> QED  BY <4>1, <2>1, <3>3, MovedWord
    <3>5. out \in Seq(Word) /\ Len(out) = n
      <4> HIDE DEF dis, o, a
      <4> QED  BY ONLY <2>1, <3>4
    <3>m. MovedWords(out)
      <4>1. \A i \in 1..n : out[i] = relocateInstruction(scene.text[i], o(i), a(i)) /\ out[i] # Invalid
        <5> HIDE DEF dis, o, a
        <5> QED  BY ONLY <2>1, <2>5
      <4> HIDE DEF out
      <4> QED  BY <3>5, <4>1 DEF MovedWords
    <3> HIDE DEF out
    <3>6. Injected(out) \in Seq(Word) /\ Len(Injected(out)) = 49 + n + Len(Back)
      BY <3>5, InjectedWords
    <3>7. Len(sys) = 14 /\ SYSCALL_SEQUENCE_INSTR_COUNT = 14 /\ fixedPrefixInstrCount = 49
      <4>1. Joins(Word, sys, makeLoadModuleCall(PathAt), makeStartModuleCall, 7, 7)
        BY SyscallWords, JobTypes
      <4> HIDE DEF sys
      <4>2. Len(sys) = 14
        BY ONLY <4>1 DEF Joins
      <4> QED  BY <4>2 DEF fixedPrefixInstrCount, PROLOGUE_INSTR_COUNT, SYSCALL_SEQUENCE_INSTR_COUNT,
                           EPILOGUE_INSTR_COUNT, TOC_FIXUP_INSTR_COUNT
    <3>8. Len(code) = fixedPrefixInstrCount + n + Len(Back)
      BY ONLY <3>2, <3>6, <3>7
    <3> HIDE DEF sys, rel, chk
    <3>9. Job = made
      BY ONLY <1>1, <1>5, <3>2, <3>7, <3>8
    <3>10. made.ok /\ made.value.entryPatchBytes = toBigEndianBytes(JumpIn) /\ made.value.blob = blobOf(Injected(out), scene.path)
      BY ONLY <3>2 DEF Ok
    <3>11. /\ Job.ok /\ Checked /\ Job.value.entryPatchBytes = toBigEndianBytes(JumpIn)
           /\ MovedWords(out) /\ Job.value.blob = blobOf(Injected(out), scene.path)
      BY <1>5, <3>m, <3>9, <3>10
    <3> QED  BY <3>11
  <2> QED  BY <2>4, <2>5
<1> QED  BY <1>3, <1>4, <1>5

-----------------------------------------------------------------------------
(***************************************************************************)
(* The image.                                                              *)
(***************************************************************************)

\* The blob and the patched text that the loader maps.
Built ==
  /\ Checked
  /\ \E m : MovedWords(m) /\ image.blob = blobOf(Injected(m), scene.path)
  /\ image.text = [k \in 1..Len(toBigEndianBytes(scene.text)) |->
                     IF k <= Len(toBigEndianBytes(JumpIn)) THEN toBigEndianBytes(JumpIn)[k]
                     ELSE toBigEndianBytes(scene.text)[k]]

\* A program runs if it has been patched.
Loaded ==
  /\ scene \in Scenes /\ status \in {"idle", "refused", "running"}
  /\ err # "Unsupported"
  /\ status = "running" => Built

\* At first nothing runs.
LEMMA InitLoaded == Init => Loaded
BY DEF Init, Loaded

\* buildTrampoline and the caller's patchBytesAt make the image.
LEMMA PatchLoaded ==
  ASSUME Loaded, Patch
  PROVE  /\ Loaded' /\ UNCHANGED << scene, cpu, dead, calls >> /\ status = "idle"
         /\ status' \in {"refused", "running"}
<1> DEFINE bytes == toBigEndianBytes(scene.text)
           in    == toBigEndianBytes(JumpIn)
<1>1. scene \in Scenes
  BY DEF Loaded
<1>2. /\ status = "idle" /\ UNCHANGED << scene, cpu, dead, calls >>
      /\ \/ /\ Job.ok /\ status' = "running" /\ err' = err
            /\ image' = [blob |-> Job.value.blob,
                         text |-> [k \in 1..Len(bytes) |->
                                     IF k <= Len(Job.value.entryPatchBytes)
                                     THEN Job.value.entryPatchBytes[k] ELSE bytes[k]]]
         \/ ~ Job.ok /\ status' = "refused" /\ err' = Job.code
  BY DEF Patch, Job
<1>3. CASE /\ Job.ok /\ status' = "running" /\ err' = err
           /\ image' = [blob |-> Job.value.blob,
                        text |-> [k \in 1..Len(bytes) |->
                                    IF k <= Len(Job.value.entryPatchBytes)
                                    THEN Job.value.entryPatchBytes[k] ELSE bytes[k]]]
  <2>1. /\ Checked /\ Job.value.entryPatchBytes = in
        /\ \E m : MovedWords(m) /\ Job.value.blob = blobOf(Injected(m), scene.path)
    BY <1>1, <1>3, JobResult
  <2>2. /\ image'.blob = Job.value.blob
        /\ image'.text = [k \in 1..Len(bytes) |-> IF k <= Len(in) THEN in[k] ELSE bytes[k]]
    <3> HIDE DEF bytes, in
    <3>1. image' = [blob |-> Job.value.blob, text |-> [k \in 1..Len(bytes) |-> IF k <= Len(in) THEN in[k] ELSE bytes[k]]]
      BY ONLY <1>3, <2>1
    <3> QED  BY ONLY <3>1
  <2>3. scene' = scene
    BY <1>2
  <2>4. /\ Checked' <=> Checked
        /\ JumpIn' = JumpIn /\ Displaced' = Displaced
        /\ \A m : Injected(m)' = Injected(m)
        /\ \A m : MovedWords(m)' <=> MovedWords(m)
    BY <2>3 DEF Checked, JumpIn, Displaced, Injected, MovedWords, Resume, PathAt, Back, CodeBase
  <2>5. Built'
    BY <2>1, <2>2, <2>3, <2>4 DEF Built
  <2> QED  BY <1>1, <1>2, <1>3, <2>5 DEF Loaded
<1>4. CASE ~ Job.ok /\ status' = "refused" /\ err' = Job.code
  BY <1>1, <1>2, <1>4, JobResult DEF Loaded
<1> QED  BY <1>2, <1>3, <1>4

\* Running the program does not change the image.
LEMMA StepLoaded ==
  ASSUME Loaded, UNCHANGED << status, err, scene, image >>
  PROVE  Loaded'
<1>1. scene' = scene /\ image' = image /\ status' = status /\ err' = err
  OBVIOUS
<1>2. Built' <=> Built
  BY <1>1 DEF Built, Checked, JumpIn, Displaced, Injected, MovedWords, Resume, PathAt, Back, CodeBase
<1> QED  BY <1>1, <1>2 DEF Loaded

\* Every step keeps this.
LEMMA NextLoaded == Loaded /\ [Next]_vars => Loaded'
<1>1. ASSUME Loaded, [Next]_vars PROVE Loaded'
  <2>1. CASE Patch
    BY <1>1, <2>1, PatchLoaded
  <2>2. CASE Execute \/ SystemCall \/ UNCHANGED vars
    <3>1. UNCHANGED << status, err, scene, image >>
      BY <2>2 DEF Execute, SystemCall, vars
    <3> QED  BY <1>1, <3>1, StepLoaded
  <2> QED  BY <1>1, <2>1, <2>2 DEF Next
<1> QED  BY <1>1

\* For every patching job: buildTrampoline never reports an internal
\* inconsistency (trampoline.hpp:278-301), and the blob it returns has the size
\* that was planned.
THEOREM BlobAsPlanned == Spec => []LayoutAgrees
<1>1. Loaded => LayoutAgrees
  <2> SUFFICES ASSUME Loaded, status = "running"
               PROVE  Len(image.blob) = L!blobSize(Displaced, Len(Back), Len(scene.path))
    BY DEF Loaded, LayoutAgrees, Back
  <2>1. scene \in Scenes /\ Built
    BY DEF Loaded
  <2>2. PICK m \in Seq(Word) : Len(m) = Displaced /\ image.blob = blobOf(Injected(m), scene.path)
    BY <2>1 DEF Built, MovedWords
  <2> DEFINE c == Injected(m)
             p == Len(scene.path)
             d == Displaced
             b == Len(Back)
             size == 8 + 4 * Len(c) + p + 1
  <2>3. c \in Seq(Word) /\ Len(c) = 49 + d + b
    BY <2>1, <2>2, InjectedWords
  <2>4. p \in Nat /\ d \in Nat /\ b \in Nat /\ scene.path \in Seq(Octet)
    BY <2>1, SceneFacts
  <2>5. Len(image.blob) = size + ((-size) % 4)
    <3> HIDE DEF c
    <3> QED  BY <2>2, <2>3, <2>4, BlobBytes DEF c
  <2> HIDE DEF c, p, d, b
  <2>6. size = 8 + (49 + d + b) * 4 + p + 1
    BY ONLY <2>3, <2>4
  <2>7. L!blobSize(d, b, p) = size + ((-size) % 4)
    <3>1. fixedPrefixInstrCount = 49
      BY DEF fixedPrefixInstrCount, PROLOGUE_INSTR_COUNT, SYSCALL_SEQUENCE_INSTR_COUNT,
             EPILOGUE_INSTR_COUNT, TOC_FIXUP_INSTR_COUNT
    <3> HIDE DEF size
    <3> QED  BY <3>1, <2>6 DEF L!blobSize, L!MagicSize
  <2> QED  BY <2>5, <2>7 DEF d, b, p
<1> QED  BY InitLoaded, NextLoaded, <1>1, PTL DEF Spec

-----------------------------------------------------------------------------
(***************************************************************************)
(* What the processor does with these words.                               *)
(***************************************************************************)

\* A state of the processor.
Machine(s) ==
  /\ s = [pc |-> s.pc, gpr |-> s.gpr, lr |-> s.lr, ctr |-> s.ctr, mem |-> s.mem]
  /\ s.gpr = [r \in Regs |-> s.gpr[r]]

\* One field of it set.
LEMMA PcSet ==
  ASSUME NEW p, NEW g, NEW l, NEW c, NEW m, NEW u
  PROVE  [[pc |-> p, gpr |-> g, lr |-> l, ctr |-> c, mem |-> m] EXCEPT !.pc = u] =
           [pc |-> u, gpr |-> g, lr |-> l, ctr |-> c, mem |-> m]
OBVIOUS

LEMMA GprSet ==
  ASSUME NEW p, NEW g, NEW l, NEW c, NEW m, NEW u
  PROVE  [[pc |-> p, gpr |-> g, lr |-> l, ctr |-> c, mem |-> m] EXCEPT !.gpr = u] =
           [pc |-> p, gpr |-> u, lr |-> l, ctr |-> c, mem |-> m]
OBVIOUS

LEMMA LrSet ==
  ASSUME NEW p, NEW g, NEW l, NEW c, NEW m, NEW u
  PROVE  [[pc |-> p, gpr |-> g, lr |-> l, ctr |-> c, mem |-> m] EXCEPT !.lr = u] =
           [pc |-> p, gpr |-> g, lr |-> u, ctr |-> c, mem |-> m]
OBVIOUS

LEMMA CtrSet ==
  ASSUME NEW p, NEW g, NEW l, NEW c, NEW m, NEW u
  PROVE  [[pc |-> p, gpr |-> g, lr |-> l, ctr |-> c, mem |-> m] EXCEPT !.ctr = u] =
           [pc |-> p, gpr |-> g, lr |-> l, ctr |-> u, mem |-> m]
OBVIOUS

LEMMA MemSet ==
  ASSUME NEW p, NEW g, NEW l, NEW c, NEW m, NEW u
  PROVE  [[pc |-> p, gpr |-> g, lr |-> l, ctr |-> c, mem |-> m] EXCEPT !.mem = u] =
           [pc |-> p, gpr |-> g, lr |-> l, ctr |-> c, mem |-> u]
OBVIOUS

\* A state of the processor by its fields.
Mach(p, g, l, c, m) == [pc |-> p, gpr |-> g, lr |-> l, ctr |-> c, mem |-> m]

\* What an instruction makes of a state of the processor, field by field.
LEMMA SetPc ==
  ASSUME NEW s, Machine(s), NEW p
  PROVE  [s EXCEPT !.pc = p] = Mach(p, s.gpr, s.lr, s.ctr, s.mem)
BY DEF Machine, Mach

\* The same for two fields and three.
LEMMA SetPcMem ==
  ASSUME NEW s, Machine(s), NEW p, NEW m
  PROVE  [s EXCEPT !.pc = p, !.mem = m] = Mach(p, s.gpr, s.lr, s.ctr, m)
<1> DEFINE e == [s EXCEPT !.pc = p]
<1>1. e = Mach(p, s.gpr, s.lr, s.ctr, s.mem)
  BY SetPc
<1> HIDE DEF e
<1>2. [e EXCEPT !.mem = m] = Mach(p, s.gpr, s.lr, s.ctr, m)
  BY <1>1 DEF Mach
<1> QED  BY <1>2 DEF e

LEMMA SetPcLrCtr ==
  ASSUME NEW s, Machine(s), NEW p, NEW l, NEW c
  PROVE  [s EXCEPT !.pc = p, !.lr = l, !.ctr = c] = Mach(p, s.gpr, l, c, s.mem)
<1> DEFINE e == [s EXCEPT !.pc = p]
           f == [e EXCEPT !.lr = l]
<1>1. e = Mach(p, s.gpr, s.lr, s.ctr, s.mem)
  BY SetPc
<1> HIDE DEF e
<1>2. f = Mach(p, s.gpr, l, s.ctr, s.mem)
  BY <1>1 DEF Mach
<1> HIDE DEF f
<1>3. [f EXCEPT !.ctr = c] = Mach(p, s.gpr, l, c, s.mem)
  BY <1>2 DEF Mach
<1> QED  BY <1>3 DEF e, f

\* What mfspr reads.
SprValue(s, i) == CASE i.spr = 8 -> s.lr [] i.spr = 9 -> s.ctr [] OTHER -> s.gpr[i.t]

\* The instructions that set one register, and that set none and go on.
SetsOne  == {"addi", "addis", "ori", "rldicl", "mfspr", "ld"}
SetsNone == {"mtspr", "std"}

SetSome(s, t, reg) == \E v : t = Mach(s.pc + 4, [s.gpr EXCEPT ![reg] = v], s.lr, s.ctr, s.mem)
SetNone(s, t) == \E l, c, m : t = Mach(s.pc + 4, s.gpr, l, c, m)

LEMMA ExecSets ==
  ASSUME NEW s, Machine(s), NEW i, NEW taken
  PROVE  LET t == Exec(s, i, taken)
             Set(v) == Mach(s.pc + 4, [s.gpr EXCEPT ![i.t] = v], s.lr, s.ctr, s.mem)
         IN  /\ i.op = "addi" => t = Set(Ea(s, i))
             /\ i.op = "addis" => t = Set(Plus(Base(s, i.a), Shifted(i.imm)))
             /\ i.op = "ori" => t = Set([s.gpr[i.a] EXCEPT ![4] = Or(s.gpr[i.a][4], i.imm)])
             /\ i.op = "rldicl" => t = Set(ClearHigh(s.gpr[i.a], i.mb))
             /\ i.op = "mfspr" => t = Set(SprValue(s, i))
             /\ i.op = "ld" => t = Set(Peek(s, AddrOf(Ea(s, i))))
             /\ i.op \in SetsOne => SetSome(s, t, i.t)
<1> DEFINE Set(v) == Mach(s.pc + 4, [s.gpr EXCEPT ![i.t] = v], s.lr, s.ctr, s.mem)
<1>1. ASSUME NEW v PROVE [s EXCEPT !.pc = s.pc + 4, !.gpr[i.t] = v] = Set(v)
  <2> DEFINE e == [s EXCEPT !.pc = s.pc + 4]
  <2>1. e = Mach(s.pc + 4, s.gpr, s.lr, s.ctr, s.mem)
    BY SetPc
  <2> HIDE DEF e
  <2>2. e.gpr = s.gpr
    BY <2>1 DEF Mach
  <2>3. [e EXCEPT !.gpr[i.t] = v] = Mach(s.pc + 4, [s.gpr EXCEPT ![i.t] = v], s.lr, s.ctr, s.mem)
    BY <2>1, <2>2 DEF Mach
  <2> QED  BY <2>3 DEF e
<1> HIDE DEF Set
<1>2. i.op = "addi" => Exec(s, i, taken) = Set(Ea(s, i))
  BY <1>1 DEF Exec
<1>3. i.op = "addis" => Exec(s, i, taken) = Set(Plus(Base(s, i.a), Shifted(i.imm)))
  BY <1>1 DEF Exec
<1>4. i.op = "ori" => Exec(s, i, taken) = Set([s.gpr[i.a] EXCEPT ![4] = Or(s.gpr[i.a][4], i.imm)])
  BY <1>1 DEF Exec
<1>5. i.op = "rldicl" => Exec(s, i, taken) = Set(ClearHigh(s.gpr[i.a], i.mb))
  BY <1>1 DEF Exec
<1>6. i.op = "mfspr" => Exec(s, i, taken) = Set(SprValue(s, i))
  BY <1>1 DEF Exec, SprValue
<1>7. i.op = "ld" => Exec(s, i, taken) = Set(Peek(s, AddrOf(Ea(s, i))))
  BY <1>1 DEF Exec
<1>8. i.op \in SetsOne => \E v : Exec(s, i, taken) = Set(v)
  BY ONLY <1>2, <1>3, <1>4, <1>5, <1>6, <1>7 DEF SetsOne
<1>9. i.op \in SetsOne => SetSome(s, Exec(s, i, taken), i.t)
  BY <1>8, Zenon DEF SetSome, Set
<1> QED  BY ONLY Zenon, <1>2, <1>3, <1>4, <1>5, <1>6, <1>7, <1>9 DEF Set

\* And the others.
LEMMA ExecOthers ==
  ASSUME NEW s, Machine(s), NEW i, NEW taken
  PROVE  LET t    == Exec(s, i, taken)
             put  == Written(s.mem, {AddrOf(Ea(s, i))}, s.gpr[i.t])
             link == IF i.lk = 1 THEN Reg(s.pc + 4) ELSE s.lr
         IN  /\ i.op = "mtspr" => t = Mach(s.pc + 4, s.gpr, IF i.spr = 8 THEN s.gpr[i.t] ELSE s.lr,
                                           IF i.spr = 9 THEN s.gpr[i.t] ELSE s.ctr, s.mem)
             /\ i.op = "std" => t = Mach(s.pc + 4, s.gpr, s.lr, s.ctr, put)
             /\ i.op = "stdu" => t = Mach(s.pc + 4, [s.gpr EXCEPT ![i.a] = Ea(s, i)], s.lr, s.ctr, put)
             /\ i.op = "b" => t = Mach(Target(s, i), s.gpr, link, s.ctr, s.mem)
             /\ i.op \in {"bc", "bclr", "bcctr"} =>
                  t = Mach(IF Always(i.bo) \/ taken THEN Target(s, i) ELSE s.pc + 4, s.gpr, link,
                           IF CountsDown(i.bo) THEN Plus(s.ctr, Extended(-1)) ELSE s.ctr, s.mem)
             /\ i.op \in SetsNone => SetNone(s, t)
             /\ i.op \in Branches =>
                  \E p \in {s.pc + 4, Target(s, i)} : \E l, c : t = Mach(p, s.gpr, l, c, s.mem)
<1> DEFINE put  == Written(s.mem, {AddrOf(Ea(s, i))}, s.gpr[i.t])
           link == IF i.lk = 1 THEN Reg(s.pc + 4) ELSE s.lr
           P    == [s EXCEPT !.pc = s.pc + 4, !.mem = put]
<1>1. i.op = "mtspr" => Exec(s, i, taken) = Mach(s.pc + 4, s.gpr, IF i.spr = 8 THEN s.gpr[i.t] ELSE s.lr,
                                           IF i.spr = 9 THEN s.gpr[i.t] ELSE s.ctr, s.mem)
  <2> DEFINE l == IF i.spr = 8 THEN s.gpr[i.t] ELSE s.lr
             c == IF i.spr = 9 THEN s.gpr[i.t] ELSE s.ctr
  <2>1. i.op = "mtspr" => Exec(s, i, taken) = [s EXCEPT !.pc = s.pc + 4, !.lr = l, !.ctr = c]
    BY DEF Exec
  <2> HIDE DEF l, c
  <2>2. [s EXCEPT !.pc = s.pc + 4, !.lr = l, !.ctr = c] = Mach(s.pc + 4, s.gpr, l, c, s.mem)
    BY SetPcLrCtr
  <2> QED  BY ONLY <2>1, <2>2 DEF l, c
<1>2. P = Mach(s.pc + 4, s.gpr, s.lr, s.ctr, put)
  <2> HIDE DEF put
  <2> QED  BY SetPcMem
<1>3. i.op = "std" => Exec(s, i, taken) = P
  BY DEF Exec
<1>4. i.op = "stdu" => Exec(s, i, taken) = [P EXCEPT !.gpr[i.a] = Ea(s, i)]
  BY DEF Exec
<1>5. [P EXCEPT !.gpr[i.a] = Ea(s, i)] = Mach(s.pc + 4, [s.gpr EXCEPT ![i.a] = Ea(s, i)], s.lr, s.ctr, put)
  <2> DEFINE x == Ea(s, i)
  <2> HIDE DEF P, put, x
  <2>1. P.gpr = s.gpr
    BY <1>2 DEF Mach
  <2>2. [P EXCEPT !.gpr[i.a] = x] = Mach(s.pc + 4, [s.gpr EXCEPT ![i.a] = x], s.lr, s.ctr, put)
    BY <1>2, <2>1 DEF Mach
  <2> QED  BY <2>2 DEF x
<1>6. ASSUME NEW bo, NEW tk
      PROVE  Branch(s, i, bo, tk) =
               Mach(IF Always(bo) \/ tk THEN Target(s, i) ELSE s.pc + 4, s.gpr, link,
                    IF CountsDown(bo) THEN Plus(s.ctr, Extended(-1)) ELSE s.ctr, s.mem)
  <2> DEFINE p == IF Always(bo) \/ tk THEN Target(s, i) ELSE s.pc + 4
             c == IF CountsDown(bo) THEN Plus(s.ctr, Extended(-1)) ELSE s.ctr
  <2>1. Branch(s, i, bo, tk) = [s EXCEPT !.pc = p, !.lr = link, !.ctr = c]
    BY DEF Branch
  <2> HIDE DEF p, c, link
  <2>2. [s EXCEPT !.pc = p, !.lr = link, !.ctr = c] = Mach(p, s.gpr, link, c, s.mem)
    BY SetPcLrCtr
  <2> QED  BY ONLY <2>1, <2>2 DEF p, c
<1>7. Always(20) /\ ~ CountsDown(20)
  BY SMT DEF Always, CountsDown
<1>8. i.op = "b" => Exec(s, i, taken) = Branch(s, i, 20, TRUE)
  BY DEF Exec
<1>9. i.op \in {"bc", "bclr", "bcctr"} => Exec(s, i, taken) = Branch(s, i, i.bo, taken)
  BY DEF Exec
<1>10. Branch(s, i, 20, TRUE) = Mach(Target(s, i), s.gpr, link, s.ctr, s.mem)
  <2> DEFINE yes == TRUE
             p(tk) == IF Always(20) \/ tk THEN Target(s, i) ELSE s.pc + 4
  <2>1. Branch(s, i, 20, yes) = Mach(p(yes), s.gpr, link, IF CountsDown(20) THEN Plus(s.ctr, Extended(-1)) ELSE s.ctr, s.mem)
    <3> HIDE DEF link, yes
    <3> QED  BY <1>6
  <2>2. p(yes) = Target(s, i)
    BY <1>7
  <2> HIDE DEF link
  <2> QED  BY <1>7, <2>1, <2>2
<1> HIDE DEF put, link, P
<1>11. Branch(s, i, i.bo, taken) =
         Mach(IF Always(i.bo) \/ taken THEN Target(s, i) ELSE s.pc + 4, s.gpr, link,
              IF CountsDown(i.bo) THEN Plus(s.ctr, Extended(-1)) ELSE s.ctr, s.mem)
  BY <1>6
<1>12. i.op \in SetsNone => SetNone(s, Exec(s, i, taken))
  BY ONLY Zenon, <1>1, <1>2, <1>3 DEF SetsNone, SetNone
<1>13. \E p \in {s.pc + 4, Target(s, i)} : \E l, c : Branch(s, i, i.bo, taken) = Mach(p, s.gpr, l, c, s.mem)
  <2> DEFINE p == IF Always(i.bo) \/ taken THEN Target(s, i) ELSE s.pc + 4
             c == IF CountsDown(i.bo) THEN Plus(s.ctr, Extended(-1)) ELSE s.ctr
  <2>1. p \in {s.pc + 4, Target(s, i)}
    OBVIOUS
  <2>2. Branch(s, i, i.bo, taken) = Mach(p, s.gpr, link, c, s.mem)
    BY ONLY <1>11
  <2> HIDE DEF p, c
  <2> QED  BY ONLY Zenon, <2>1, <2>2
<1>14. i.op \in Branches =>
         \E p \in {s.pc + 4, Target(s, i)} : \E l, c : Exec(s, i, taken) = Mach(p, s.gpr, l, c, s.mem)
  <2>1. i.op \in Branches => i.op = "b" \/ i.op \in {"bc", "bclr", "bcctr"}
    BY DEF Branches
  <2> QED  BY ONLY Zenon, <1>8, <1>9, <1>10, <1>13, <2>1
<1> QED  BY ONLY Zenon, <1>1, <1>2, <1>3, <1>4, <1>5, <1>8, <1>9, <1>10, <1>11, <1>12, <1>14 DEF put, link

LEMMA MachFields ==
  ASSUME NEW p, NEW g, NEW l, NEW c, NEW m, NEW t, t = Mach(p, g, l, c, m)
  PROVE  /\ t.pc = p /\ t.gpr = g /\ t.lr = l /\ t.ctr = c /\ t.mem = m
         /\ g = [r \in Regs |-> g[r]] => Machine(t)
BY DEF Mach, Machine

\* Every instruction leaves a state of the processor, at the next instruction or
\* at the target of a branch.
LEMMA ExecMachine ==
  ASSUME NEW s, Machine(s), NEW i, i.op \in Executed, NEW taken
  PROVE  LET t == Exec(s, i, taken)
         IN  /\ Machine(t)
             /\ t.pc = s.pc + 4 \/ (i.op \in Branches /\ t.pc = Target(s, i))
<1> DEFINE t == Exec(s, i, taken)
<1>1. ASSUME NEW x, NEW v PROVE LET g == [s.gpr EXCEPT ![x] = v] IN g = [r \in Regs |-> g[r]]
  BY DEF Machine
<1>2. s.gpr = [r \in Regs |-> s.gpr[r]]
  BY DEF Machine
<1>3. ASSUME NEW x, NEW v, t = Mach(s.pc + 4, [s.gpr EXCEPT ![x] = v], s.lr, s.ctr, s.mem)
      PROVE  Machine(t) /\ t.pc = s.pc + 4
  <2> DEFINE g == [s.gpr EXCEPT ![x] = v]
  <2>1. g = [r \in Regs |-> g[r]]
    BY <1>1
  <2> HIDE DEF g, t
  <2>2. t = Mach(s.pc + 4, g, s.lr, s.ctr, s.mem)
    BY <1>3 DEF g
  <2> QED  BY ONLY <2>1, <2>2, MachFields
<1>4. CASE i.op \in SetsOne
  <2>1. SetSome(s, t, i.t)
    BY ONLY Zenon, Machine(s), <1>4, ExecSets
  <2>2. PICK v : t = Mach(s.pc + 4, [s.gpr EXCEPT ![i.t] = v], s.lr, s.ctr, s.mem)
    BY ONLY <2>1 DEF SetSome
  <2> QED  BY <1>3, <2>2
<1>5. CASE i.op \in SetsNone
  <2>1. SetNone(s, t)
    BY ONLY Zenon, Machine(s), <1>5, ExecOthers
  <2>2. PICK l, c, m : t = Mach(s.pc + 4, s.gpr, l, c, m)
    BY ONLY <2>1 DEF SetNone
  <2> HIDE DEF t
  <2> DEFINE q == s.pc + 4
             g == s.gpr
  <2> HIDE DEF q, g
  <2>3. t = Mach(q, g, l, c, m) /\ g = [r \in Regs |-> g[r]]
    BY <2>2, <1>2 DEF q, g
  <2>4. Machine(t) /\ t.pc = q
    BY ONLY <2>3, MachFields
  <2> QED  BY <2>4 DEF t, q
<1>6. CASE i.op = "stdu"
  <2> DEFINE g == [s.gpr EXCEPT ![i.a] = Ea(s, i)]
             q == s.pc + 4
             m == Written(s.mem, {AddrOf(Ea(s, i))}, s.gpr[i.t])
  <2>1. t = Mach(q, g, s.lr, s.ctr, m)
    BY ONLY Zenon, Machine(s), <1>6, ExecOthers DEF t, q, m
  <2>2. g = [r \in Regs |-> g[r]]
    BY <1>1
  <2> HIDE DEF g, t, q, m
  <2>3. Machine(t) /\ t.pc = q
    BY ONLY <2>1, <2>2, MachFields
  <2> QED  BY <2>3 DEF t, q
<1>7. CASE i.op \in Branches
  <2>1. \E p \in {s.pc + 4, Target(s, i)} : \E l, c : Exec(s, i, taken) = Mach(p, s.gpr, l, c, s.mem)
    BY ONLY Zenon, Machine(s), <1>7, ExecOthers
  <2>2. PICK p \in {s.pc + 4, Target(s, i)} : \E l, c : t = Mach(p, s.gpr, l, c, s.mem)
    BY <2>1
  <2>3. PICK l, c : t = Mach(p, s.gpr, l, c, s.mem)
    BY <2>2
  <2> HIDE DEF t
  <2> DEFINE g == s.gpr
  <2> HIDE DEF g
  <2>4. t = Mach(p, g, l, c, s.mem) /\ g = [r \in Regs |-> g[r]]
    BY <2>3, <1>2 DEF g
  <2>5. Machine(t) /\ t.pc = p
    BY ONLY <2>4, MachFields
  <2> QED  BY <1>7, <2>2, <2>5 DEF t
<1> QED  BY <1>4, <1>5, <1>6, <1>7 DEF Executed, SetsOne, SetsNone


\* From s to t the processor sets one register and goes on.
Sets(s, t, reg, v) ==
  /\ Machine(t) /\ t.pc = s.pc + 4 /\ t.gpr[reg] = v
  /\ \A r \in Regs \ {reg} : t.gpr[r] = s.gpr[r]
  /\ t.lr = s.lr /\ t.ctr = s.ctr /\ t.mem = s.mem

LEMMA SetStep ==
  ASSUME NEW s, Machine(s), NEW reg \in Regs, NEW v
  PROVE  Sets(s, [s EXCEPT !.pc = s.pc + 4, !.gpr[reg] = v], reg, v)
<1> DEFINE g == [s.gpr EXCEPT ![reg] = v]
           t == [pc |-> s.pc + 4, gpr |-> g, lr |-> s.lr, ctr |-> s.ctr, mem |-> s.mem]
<1>1. [s EXCEPT !.pc = s.pc + 4, !.gpr[reg] = v] = t
  <2> DEFINE e == [s EXCEPT !.pc = s.pc + 4]
  <2>3. e = [pc |-> s.pc + 4, gpr |-> s.gpr, lr |-> s.lr, ctr |-> s.ctr, mem |-> s.mem]
    BY PcSet DEF Machine
  <2> HIDE DEF e
  <2>4. e.gpr = s.gpr
    BY <2>3
  <2>5. [e EXCEPT !.gpr[reg] = v] = t
    BY GprSet, <2>3, <2>4
  <2> QED  BY <2>5 DEF e
<1>2. /\ g = [r \in Regs |-> g[r]] /\ g[reg] = v
      /\ \A r \in Regs \ {reg} : g[r] = s.gpr[r]
  BY DEF Machine
<1> HIDE DEF g
<1>3. /\ t.pc = s.pc + 4 /\ t.gpr = g /\ t.lr = s.lr /\ t.ctr = s.ctr /\ t.mem = s.mem
  OBVIOUS
<1> HIDE DEF t
<1> QED  BY <1>1, <1>2, <1>3 DEF Sets, Machine, t

\* The value of an immediate, and of its shifted form, added to zero.
LEMMA Immediates ==
  ASSUME NEW n \in Nat, n < HalfMod \div 2
  PROVE  /\ Plus(<< 0, 0, 0, 0 >>, Extended(n)) = << 0, 0, 0, n >>
         /\ Plus(<< 0, 0, 0, 0 >>, Shifted(n)) = << 0, 0, n, 0 >>
<1>1. n % HalfMod = n /\ n \div HalfMod = 0 /\ 0 % HalfMod = 0 /\ 0 \div HalfMod = 0 /\ ~ n < 0
  BY SMT, HalfModAssumption
<1>2. Extended(n) = << 0, 0, 0, n >> /\ Shifted(n) = << 0, 0, n, 0 >>
  BY <1>1 DEF Extended, Shifted
<1> QED  BY <1>1, <1>2 DEF Plus

\* li.
LEMMA LiStep ==
  ASSUME NEW s, Machine(s), NEW reg \in Regs, NEW n \in Small, NEW taken
  PROVE  Sets(s, Exec(s, [op |-> "addi", t |-> reg, a |-> 0, imm |-> n], taken), reg, Reg(n))
<1> DEFINE i == [op |-> "addi", t |-> reg, a |-> 0, imm |-> n]
<1>1. n < HalfMod \div 2 /\ n \div HalfMod = 0 /\ n % HalfMod = n
  BY SMT, HalfModAssumption DEF Small
<1>2. Ea(s, i) = Reg(n)
  BY <1>1, Immediates DEF Ea, Base, Reg, Small
<1>3. Exec(s, i, taken) = [s EXCEPT !.pc = s.pc + 4, !.gpr[reg] = Ea(s, i)]
  BY DEF Exec
<1> QED  BY <1>2, <1>3, SetStep

\* How much of v is in a register after j of the instructions of loadImmediate32.
InReg(s, reg, v, j) ==
  /\ j = 1 => s.gpr[reg] = << 0, 0, v \div HalfMod, 0 >>
  /\ j = 2 => s.gpr[reg] = << 0, 0, v \div HalfMod, v % HalfMod >>
  /\ j = 3 => s.gpr[reg] = Reg(v) /\ AddrOf(s.gpr[reg]) = v

\* loadImmediate32 loads an address in the lower half of the address space.
LEMMA ImmediateStep ==
  ASSUME NEW s, Machine(s), NEW reg \in Five, NEW v \in Address, v < AddrMod \div 2,
         NEW j \in 0..2, InReg(s, reg, v, j), NEW taken,
         NEW w, w = loadImmediate32(reg, v)[j + 1]
  PROVE  \E x : Sets(s, Exec(s, Decode(w), taken), reg, x) /\ InReg(Exec(s, Decode(w), taken), reg, v, j + 1)
<1> DEFINE hi == v \div HalfMod
           lo == v % HalfMod
           t  == Exec(s, Decode(w), taken)
<1>0. reg \in Regs
  BY SMT DEF Regs
<1>1. hi \in Nat /\ hi < HalfMod \div 2 /\ lo \in Nat /\ lo < HalfMod /\ v = hi * HalfMod + lo
  <2>1. v \in Nat /\ HalfMod \in Nat /\ HalfMod > 0 /\ HalfMod % 2 = 0 /\ v < (HalfMod * HalfMod) \div 2
    BY SMT, HalfModAssumption DEF Address, AddrMod
  <2>2. hi \in Nat /\ lo \in Nat /\ lo < HalfMod /\ v = hi * HalfMod + lo
    BY ONLY SMT, <2>1
  <2>3. PICK h \in Nat : HalfMod = 2 * h
    <3>1. HalfMod \div 2 \in Nat /\ HalfMod = 2 * (HalfMod \div 2)
      BY ONLY SMT, <2>1
    <3> QED  BY ONLY <3>1
  <2> HIDE DEF hi, lo
  <2>4. hi * (2 * h) + lo < (2 * h) * h
    <3>1. (HalfMod * HalfMod) \div 2 = (2 * h) * h
      <4>1. HalfMod * HalfMod = 2 * ((2 * h) * h)
        BY ONLY SMT, <2>3, h \in Nat
      <4>2. (2 * h) * h \in Nat
        BY ONLY SMT, h \in Nat
      <4> HIDE <2>3
      <4> QED  BY ONLY SMT, <4>1, <4>2
    <3> QED  BY ONLY SMT, <3>1, <2>1, <2>2, <2>3
  <2>5. hi < h
    <3>1. CASE hi >= h
      <4>1. hi * (2 * h) >= h * (2 * h)
        BY ONLY SMT, <3>1, <2>2, h \in Nat
      <4> QED  BY ONLY SMT, <4>1, <2>2, <2>4, h \in Nat
    <3> QED  BY ONLY SMT, <3>1, <2>2, h \in Nat
  <2>6. HalfMod \div 2 = h
    BY ONLY SMT, <2>3, h \in Nat
  <2> QED  BY ONLY <2>2, <2>5, <2>6
<1>2. SignedHalf(hi) = hi
  <2> HIDE DEF hi
  <2> QED  BY SMT, <1>1, HalfModAssumption DEF SignedHalf
<1> HIDE DEF hi, lo
<1>3. CASE j = 0
  <2>1. Decode(w) = [op |-> "addis", t |-> reg, a |-> 0, imm |-> hi]
    <3>1. w = loadImmediate32(reg, v)[1]
      BY ONLY <1>3, w = loadImmediate32(reg, v)[j + 1]
    <3> QED  BY ONLY <1>2, <3>1, ImmediateWords, reg \in Five, v \in Address DEF hi
  <2>2. t = [s EXCEPT !.pc = s.pc + 4, !.gpr[reg] = Plus(Base(s, 0), Shifted(hi))]
    BY <2>1 DEF Exec
  <2>3. Plus(Base(s, 0), Shifted(hi)) = << 0, 0, hi, 0 >>
    BY <1>1, Immediates DEF Base
  <2>4. Sets(s, t, reg, << 0, 0, hi, 0 >>)
    <3> DEFINE x == Plus(Base(s, 0), Shifted(hi))
    <3>1. t = [s EXCEPT !.pc = s.pc + 4, !.gpr[reg] = x] /\ x = << 0, 0, hi, 0 >>
      BY ONLY <2>2, <2>3
    <3> HIDE DEF x, t
    <3>2. Sets(s, [s EXCEPT !.pc = s.pc + 4, !.gpr[reg] = x], reg, x)
      BY <1>0, SetStep
    <3> QED  BY ONLY <3>1, <3>2
  <2> HIDE DEF t
  <2>5. InReg(t, reg, v, j + 1)
    BY <1>3, <2>4 DEF Sets, InReg, hi
  <2> QED  BY <2>4, <2>5 DEF t
<1>4. CASE j = 1
  <2>1. Decode(w) = [op |-> "ori", t |-> reg, a |-> reg, imm |-> lo]
    <3>1. w = loadImmediate32(reg, v)[2]
      BY ONLY <1>4, w = loadImmediate32(reg, v)[j + 1]
    <3> QED  BY ONLY <3>1, ImmediateWords, reg \in Five, v \in Address DEF lo
  <2>2. t = [s EXCEPT !.pc = s.pc + 4, !.gpr[reg] = [s.gpr[reg] EXCEPT ![4] = Or(s.gpr[reg][4], lo)]]
    BY <2>1 DEF Exec
  <2>3. s.gpr[reg] = << 0, 0, hi, 0 >>
    BY <1>4 DEF InReg, hi
  <2>4. Or(0, lo) = lo
    BY ONLY SMT, <1>1 DEF Or
  <2>5. [s.gpr[reg] EXCEPT ![4] = Or(s.gpr[reg][4], lo)] = << 0, 0, hi, lo >>
    BY ONLY <2>3, <2>4
  <2>6. Sets(s, t, reg, << 0, 0, hi, lo >>)
    <3> DEFINE x == [s.gpr[reg] EXCEPT ![4] = Or(s.gpr[reg][4], lo)]
    <3>1. t = [s EXCEPT !.pc = s.pc + 4, !.gpr[reg] = x] /\ x = << 0, 0, hi, lo >>
      BY ONLY <2>2, <2>5
    <3> HIDE DEF x, t
    <3>2. Sets(s, [s EXCEPT !.pc = s.pc + 4, !.gpr[reg] = x], reg, x)
      BY <1>0, SetStep
    <3> QED  BY ONLY <3>1, <3>2
  <2> HIDE DEF t
  <2>7. InReg(t, reg, v, j + 1)
    BY <1>4, <2>6 DEF Sets, InReg, hi, lo
  <2> QED  BY <2>6, <2>7 DEF t
<1>5. CASE j = 2
  <2> DEFINE c == ClearHigh(s.gpr[reg], 16)
  <2>1. Decode(w) = [op |-> "rldicl", t |-> reg, a |-> reg, sh |-> 0, mb |-> 16, rc |-> 0]
    <3>1. w = loadImmediate32(reg, v)[3]
      BY ONLY <1>5, w = loadImmediate32(reg, v)[j + 1]
    <3> QED  BY ONLY <3>1, ImmediateWords, reg \in Five, v \in Address
  <2>2. t = [s EXCEPT !.pc = s.pc + 4, !.gpr[reg] = c]
    BY <2>1 DEF Exec
  <2>3. s.gpr[reg] = << 0, 0, hi, lo >>
    BY <1>5 DEF InReg, hi, lo
  <2>4. c[1] = 0 /\ c[2] = 0 /\ c[3] = hi /\ c[4] = lo
    BY <2>3 DEF ClearHigh
  <2>c. c = << 0, 0, hi, lo >>
    <3>1. c = [k \in 1..4 |-> c[k]]
      BY DEF ClearHigh
    <3> HIDE DEF c
    <3> QED  BY ONLY <2>4, <3>1
  <2> HIDE DEF c
  <2>5. AddrOf(c) = v /\ c = Reg(v)
    BY <1>1, <2>4, <2>c DEF AddrOf, Reg, hi, lo
  <2>6. Sets(s, t, reg, c)
    <3> HIDE DEF t
    <3>1. Sets(s, [s EXCEPT !.pc = s.pc + 4, !.gpr[reg] = c], reg, c)
      BY <1>0, SetStep
    <3> QED  BY ONLY <2>2, <3>1
  <2> HIDE DEF t
  <2>7. InReg(t, reg, v, j + 1)
    BY <1>5, <2>5, <2>6 DEF Sets, InReg
  <2> QED  BY <2>6, <2>7 DEF t
<1> QED  BY <1>3, <1>4, <1>5

\* The last two instructions of the long jump, and the short one.
LEMMA JumpStep ==
  ASSUME NEW s, Machine(s), NEW taken
  PROVE  /\ Exec(s, [op |-> "mtspr", t |-> 12, spr |-> 9], taken) =
              Mach(s.pc + 4, s.gpr, s.lr, s.gpr[12], s.mem)
         /\ Exec(s, [op |-> "bcctr", bo |-> 20, bi |-> 0, lk |-> 0], taken) =
              Mach(AddrOf(s.ctr) - (AddrOf(s.ctr) % 4), s.gpr, s.lr, s.ctr, s.mem)
         /\ \A d : Exec(s, [op |-> "b", imm |-> d, aa |-> 0, lk |-> 0], taken) =
                     Mach((s.pc + d) % AddrMod, s.gpr, s.lr, s.ctr, s.mem)
<1>1. ASSUME NEW i, i = [op |-> "mtspr", t |-> 12, spr |-> 9]
      PROVE  Exec(s, i, taken) = Mach(s.pc + 4, s.gpr, s.lr, s.gpr[12], s.mem)
  <2>1. i.op = "mtspr" /\ i.t = 12 /\ i.spr = 9 /\ i.spr # 8
    BY ONLY <1>1
  <2>2. Exec(s, i, taken) = Mach(s.pc + 4, s.gpr, IF i.spr = 8 THEN s.gpr[i.t] ELSE s.lr,
                                 IF i.spr = 9 THEN s.gpr[i.t] ELSE s.ctr, s.mem)
    BY <2>1, ExecOthers
  <2> QED  BY ONLY <2>1, <2>2
<1>2. ASSUME NEW i, i = [op |-> "bcctr", bo |-> 20, bi |-> 0, lk |-> 0]
      PROVE  Exec(s, i, taken) = Mach(AddrOf(s.ctr) - (AddrOf(s.ctr) % 4), s.gpr, s.lr, s.ctr, s.mem)
  <2>1. i.op = "bcctr" /\ i.bo = 20 /\ i.lk = 0 /\ i.lk # 1
    BY ONLY <1>2
  <2>2. Always(20) /\ ~ CountsDown(20)
    BY SMT DEF Always, CountsDown
  <2>3. Exec(s, i, taken) =
          Mach(IF Always(i.bo) \/ taken THEN Target(s, i) ELSE s.pc + 4, s.gpr, IF i.lk = 1 THEN Reg(s.pc + 4) ELSE s.lr,
               IF CountsDown(i.bo) THEN Plus(s.ctr, Extended(-1)) ELSE s.ctr, s.mem)
    BY <2>1, ExecOthers
  <2>4. Target(s, i) = AddrOf(s.ctr) - (AddrOf(s.ctr) % 4)
    BY <2>1 DEF Target
  <2> QED  BY ONLY <2>1, <2>2, <2>3, <2>4
<1>3. ASSUME NEW d, NEW i, i = [op |-> "b", imm |-> d, aa |-> 0, lk |-> 0]
      PROVE  Exec(s, i, taken) = Mach((s.pc + d) % AddrMod, s.gpr, s.lr, s.ctr, s.mem)
  <2>1. i.op = "b" /\ i.imm = d /\ i.aa = 0 /\ i.aa # 1 /\ i.lk = 0 /\ i.lk # 1
    BY ONLY <1>3
  <2>2. Exec(s, i, taken) = Mach(Target(s, i), s.gpr, IF i.lk = 1 THEN Reg(s.pc + 4) ELSE s.lr, s.ctr, s.mem)
    BY <2>1, ExecOthers
  <2>3. Target(s, i) = (s.pc + d) % AddrMod
    BY <2>1 DEF Target, DirectTarget
  <2> QED  BY ONLY <2>1, <2>2, <2>3
<1> QED  BY <1>1, <1>2, <1>3

-----------------------------------------------------------------------------
(***************************************************************************)
(* Where the code is, and what is fetched there.                           *)
(***************************************************************************)

\* In the lower half of the address space no address wraps.
LEMMA LowAddresses ==
  ASSUME scene \in Scenes, Low(scene), Checked
  PROVE  LET T == scene.trampolineAddr
             d == Displaced
             b == Len(Back)
         IN  /\ T \in Nat /\ scene.code \in Nat /\ d \in {1, 5} /\ b \in {1, 5}
             /\ CodeBase = T + 8 /\ Resume = T + 204 /\ PathAt = T + 8 + 4 * (49 + d + b)
             /\ CodeBase < AddrMod \div 2 /\ PathAt < AddrMod \div 2
             /\ scene.code + 4 * d <= T /\ T < AddrMod
             /\ scene.code + 4 * Len(scene.text) <= T /\ d <= Len(scene.text) /\ Len(scene.text) \in Nat
             /\ T + 1260 <= AddrMod \div 2 /\ T % 4 = 0 /\ scene.code % 4 = 0 /\ CodeBase % 4 = 0
<1> DEFINE T == scene.trampolineAddr
           d == Displaced
           b == Len(Back)
           n == Len(scene.text)
           c == scene.code
<1>1. d \in {1, 5} /\ b \in {1, 5} /\ c \in Address /\ T \in Address
  BY JobTypes
<1>2. n \in Nat /\ scene.cut \in Nat /\ scene.cut <= 4 * n /\ d * 4 <= scene.cut /\ T % 4 = 0 /\ c % 4 = 0
  BY SceneFacts DEF Checked
<1>3. Len(TRAMPOLINE_MAGIC) = 8 /\ fixedPrefixInstrCount = 49
  BY DEF TRAMPOLINE_MAGIC, fixedPrefixInstrCount, PROLOGUE_INSTR_COUNT, SYSCALL_SEQUENCE_INSTR_COUNT,
         EPILOGUE_INSTR_COUNT, TOC_FIXUP_INSTR_COUNT
<1>4. L!blobSize(5, 5, kMaxPathLength) >= 1260 /\ L!blobSize(5, 5, kMaxPathLength) \in Nat
  BY SMT, <1>3 DEF L!blobSize, L!MagicSize, kMaxPathLength
<1> DEFINE z == L!blobSize(5, 5, kMaxPathLength)
<1>5. c + 4 * n <= T /\ T + z <= AddrMod \div 2
  BY DEF Low
<1>6. /\ CodeBase = (T + 8) % AddrMod /\ Resume = (CodeBase + 196) % AddrMod
      /\ PathAt = (CodeBase + (49 + d + b) * 4) % AddrMod
  BY <1>3 DEF CodeBase, codeBaseAddr, Resume, resumeAddr, PathAt, pathAddress, Back
<1>7. AddrMod \in Nat /\ AddrMod >= 67108864
  BY AddrModFacts
<1> HIDE DEF T, d, b, n, c, z
<1>8. T \in Nat /\ c \in Nat /\ T + 1260 <= AddrMod \div 2 /\ T < AddrMod
  BY ONLY SMT, <1>1, <1>4, <1>5, <1>7 DEF Address, z
<1>9. CodeBase = T + 8
  BY ONLY SMT, <1>6, <1>7, <1>8
<1>10. Resume = T + 204
  BY ONLY SMT, <1>6, <1>7, <1>8, <1>9
<1>11. PathAt = T + 8 + 4 * (49 + d + b)
  BY ONLY SMT, <1>1, <1>6, <1>7, <1>8, <1>9
<1>12. CodeBase < AddrMod \div 2 /\ PathAt < AddrMod \div 2
  BY ONLY SMT, <1>1, <1>7, <1>8, <1>9, <1>11
<1>13. c + 4 * d <= T /\ c + 4 * n <= T /\ d <= n /\ (T + 8) % 4 = 0
  BY ONLY SMT, <1>1, <1>2, <1>5, <1>8
<1>14. CodeBase % 4 = 0
  BY ONLY <1>9, <1>13
<1> QED  BY ONLY <1>1, <1>2, <1>8, <1>9, <1>10, <1>11, <1>12, <1>13, <1>14 DEF T, d, b, c, n

\* The words of the injected code are where they should be.
LEMMA FetchInjected ==
  ASSUME scene \in Scenes, Low(scene), Built
  PROVE  \E m : /\ MovedWords(m)
                /\ \A k \in 0..(48 + Displaced + Len(Back)) :
                     CodeBase + 4 * k \in BlobCode /\ Fetch(CodeBase + 4 * k) = Injected(m)[k + 1]
<1>1. PICK m : MovedWords(m) /\ image.blob = blobOf(Injected(m), scene.path)
  BY DEF Built
<1> DEFINE c == Injected(m)
           B == image.blob
           T == scene.trampolineAddr
           p == Len(scene.path)
           n == Len(c)
           d == Displaced
           b == Len(Back)
           size == 8 + 4 * n + p + 1
<1>2. c \in Seq(Word) /\ n = 49 + d + b
  BY <1>1, InjectedWords DEF MovedWords
<1>3. T \in Nat /\ d \in {1, 5} /\ b \in {1, 5} /\ CodeBase = T + 8
  BY LowAddresses DEF Built
<1>4. scene.path \in Seq(Octet) /\ p \in Nat
  BY SceneFacts
<1>b. B = blobOf(c, scene.path)
  BY <1>1
<1> HIDE DEF c
<1>5. /\ Len(B) = size + ((-size) % 4)
      /\ \A i \in 1..(4 * n) : B[8 + i] = toBigEndianBytes(c)[i]
  <2>1. /\ Len(blobOf(c, scene.path)) = size + ((-size) % 4)
        /\ \A i \in 1..(4 * n) : blobOf(c, scene.path)[8 + i] = toBigEndianBytes(c)[i]
    BY <1>2, <1>4, BlobBytes
  <2> HIDE DEF B, size
  <2> QED  BY ONLY <2>1, <1>b
<1>6. \A j \in 0..(n - 1) : \A i \in 1..4 : toBigEndianBytes(c)[4 * j + i] = WordBytes(c[j + 1])[i]
  BY <1>2, BytesOf
<1>d. \A k \in 1..n : c[k] \in Word
  BY ONLY <1>2
<1> HIDE DEF B, T, p, n, d, b
<1>7. n \in Nat /\ n >= 51
  BY ONLY <1>2, <1>3
<1>8. Len(B) \in Nat /\ Len(B) >= 8 + 4 * n
  BY ONLY SMT, <1>4, <1>5, <1>7
<1>9. ASSUME NEW k \in 0..(n - 1)
      PROVE  CodeBase + 4 * k \in BlobCode /\ Fetch(CodeBase + 4 * k) = c[k + 1]
  <2> DEFINE a == CodeBase + 4 * k
             q == 8 + 4 * k
  <2>1. a \in BlobCode
    <3>1. a >= CodeBase /\ a <= T + Len(B) - 1 /\ a \in Int /\ CodeBase \in Int /\ T + Len(B) - 1 \in Int
      BY ONLY SMT, <1>3, <1>7, <1>8, k \in 0..(n - 1)
    <3> HIDE DEF a
    <3> QED  BY ONLY SMT, <3>1 DEF BlobCode, B, T
  <2>2. c[k + 1] \in Word
    BY ONLY <1>7, <1>d, k \in 0..(n - 1)
  <2>3. \A i \in 1..4 : B[q + i] = WordBytes(c[k + 1])[i]
    <3> TAKE i \in 1..4
    <3>1. 4 * k + i \in 1..(4 * n) /\ 8 + (4 * k + i) = q + i
      BY ONLY <1>7, k \in 0..(n - 1), i \in 1..4
    <3>2. B[8 + (4 * k + i)] = toBigEndianBytes(c)[4 * k + i]
      BY ONLY <1>5, <3>1
    <3>3. toBigEndianBytes(c)[4 * k + i] = WordBytes(c[k + 1])[i]
      BY ONLY <1>6, k \in 0..(n - 1), i \in 1..4
    <3> QED  BY ONLY <3>1, <3>2, <3>3
  <2>4. WordAt(B, q) = c[k + 1]
    <3> HIDE DEF q
    <3> QED  BY <2>2, <2>3, WordBack
  <2>5. a - T = q
    BY ONLY SMT, <1>3, <1>7, k \in 0..(n - 1)
  <2> HIDE DEF a, q
  <2>6. Fetch(a) = WordAt(B, a - T)
    BY ONLY <2>1 DEF Fetch, B, T
  <2>7. a \in BlobCode /\ Fetch(a) = c[k + 1]
    BY ONLY <2>1, <2>4, <2>5, <2>6
  <2> QED  BY ONLY <2>7 DEF a
<1>10. 0..(48 + d + b) = 0..(n - 1)
  BY ONLY <1>2, <1>3
<1> QED  BY <1>1, <1>9, <1>10 DEF c, d, b

\* Up to the second system call.
LEMMA FetchCode ==
  ASSUME scene \in Scenes, Low(scene), Built, NEW k \in 0..29
  PROVE  /\ CodeBase + 4 * k \in BlobCode /\ CodeBase + 4 * k \in Prefix
         /\ k < 16 => Fetch(CodeBase + 4 * k) = buildPrologue[k + 1]
         /\ k >= 16 => Fetch(CodeBase + 4 * k) = makeLoadAndStartModule(PathAt)[k - 15]
<1> DEFINE d == Displaced
           b == Len(Back)
           a == CodeBase + 4 * k
<1>1. PICK m : /\ MovedWords(m)
               /\ \A x \in 0..(48 + d + b) :
                    CodeBase + 4 * x \in BlobCode /\ Fetch(CodeBase + 4 * x) = Injected(m)[x + 1]
  BY FetchInjected
<1> DEFINE c == Injected(m)
<1>2. /\ \A i \in 1..16 : c[i] = buildPrologue[i]
      /\ \A i \in 1..14 : c[16 + i] = makeLoadAndStartModule(PathAt)[i]
  BY <1>1, InjectedWords DEF MovedWords
<1>3. /\ scene.trampolineAddr \in Nat /\ d \in {1, 5} /\ b \in {1, 5}
      /\ CodeBase = scene.trampolineAddr + 8 /\ Resume = scene.trampolineAddr + 204
  BY LowAddresses DEF Built
<1> HIDE DEF c, d, b
<1>4. k \in 0..(48 + d + b)
  BY ONLY <1>3, k \in 0..29
<1>5. a \in BlobCode /\ Fetch(a) = c[k + 1]
  BY ONLY <1>1, <1>4 DEF c
<1>6. a \in Prefix
  BY ONLY SMT, <1>3, k \in 0..29 DEF Prefix
<1>7. k < 16 => c[k + 1] = buildPrologue[k + 1]
  <2>1. k < 16 => k + 1 \in 1..16
    OBVIOUS
  <2> QED  BY ONLY <1>2, <2>1
<1>8. k >= 16 => c[k + 1] = makeLoadAndStartModule(PathAt)[k - 15]
  <2>1. k >= 16 => k - 15 \in 1..14 /\ 16 + (k - 15) = k + 1
    OBVIOUS
  <2> QED  BY ONLY <1>2, <2>1
<1> QED  BY ONLY <1>5, <1>6, <1>7, <1>8

\* At word j of the jump that was written over the entry point.
LEMMA FetchJump ==
  ASSUME scene \in Scenes, Low(scene), Built, NEW j \in 0..(Displaced - 1)
  PROVE  /\ scene.code + 4 * j \notin BlobCode /\ scene.code + 4 * j \in Window
         /\ Fetch(scene.code + 4 * j) = JumpIn[j + 1]
<1> DEFINE t == image.text
           in == toBigEndianBytes(JumpIn)
           s  == toBigEndianBytes(scene.text)
           d == Displaced
           n == Len(scene.text)
           c == scene.code
           T == scene.trampolineAddr
           a == c + 4 * j
           p == 4 * j
<1>1. /\ JumpIn \in Seq(Word) /\ Len(JumpIn) = d
  BY JobTypes
<1>2. /\ T \in Nat /\ c \in Nat /\ d \in {1, 5} /\ CodeBase = T + 8 /\ c + 4 * d <= T
  BY LowAddresses DEF Built
<1>3. n \in Nat /\ d * 4 <= 4 * n
  <2>1. d * 4 <= scene.cut /\ scene.cut \in Nat /\ scene.cut <= 4 * Len(scene.text) /\ Len(scene.text) \in Nat
    BY SceneFacts DEF Built, Checked
  <2> QED  BY ONLY SMT, <2>1, <1>2
<1>4. Len(in) = 4 * d /\ \A x \in 0..(d - 1) : \A i \in 1..4 : in[4 * x + i] = WordBytes(JumpIn[x + 1])[i]
  BY <1>1, BytesOf
<1>5. Len(s) = 4 * n
  BY SceneFacts, BytesOf
<1>6. t = [k \in 1..Len(s) |-> IF k <= Len(in) THEN in[k] ELSE s[k]]
  BY DEF Built
<1> HIDE DEF t, in, s, d, n, c, T
<1>7. \A k \in 1..(4 * d) : t[k] = in[k]
  BY ONLY SMT, <1>2, <1>3, <1>4, <1>5, <1>6
<1>8. j \in 0..(d - 1)
  BY DEF d
<1>9. \A i \in 1..4 : t[p + i] = WordBytes(JumpIn[j + 1])[i]
  <2> TAKE i \in 1..4
  <2>1. p + i \in 1..(4 * d)
    BY ONLY <1>2, <1>8, i \in 1..4
  <2> QED  BY ONLY <1>4, <1>7, <1>8, <2>1, i \in 1..4
<1>10. JumpIn[j + 1] \in Word
  <2>1. j + 1 \in 1..Len(JumpIn)
    BY ONLY <1>1, <1>2, <1>8
  <2> QED  BY ONLY <1>1, <2>1
<1>11. WordAt(t, p) = JumpIn[j + 1]
  <2> HIDE DEF p
  <2> QED  BY <1>9, <1>10, WordBack
<1>12. a - c = p /\ a \in Int /\ a < CodeBase /\ a >= c /\ a <= c + 4 * d - 1 /\ c + 4 * d - 1 \in Int
  BY ONLY SMT, <1>2, <1>8
<1> HIDE DEF a, p
<1>13. a \notin BlobCode /\ a \in Window
  <2>1. a \notin BlobCode
    BY ONLY SMT, <1>2, <1>12 DEF BlobCode
  <2>2. a \in c .. (c + 4 * d - 1)
    BY ONLY SMT, <1>2, <1>12
  <2> QED  BY ONLY <2>1, <2>2 DEF Window, c, d
<1>14. Fetch(a) = WordAt(t, a - c)
  BY ONLY <1>13 DEF Fetch, t, c
<1> QED  BY ONLY <1>11, <1>12, <1>13, <1>14 DEF a, c

-----------------------------------------------------------------------------
(***************************************************************************)
(* From the entry point to the second system call.                         *)
(***************************************************************************)

\* j of the n instructions of a jump have been executed.
Leap(s, n, fromAddr, toAddr, j) ==
  /\ j \in 0..(n - 1) /\ s.pc = fromAddr + 4 * j
  /\ j \in 1..3 => InReg(s, 12, toAddr, j)
  /\ j = 4 => AddrOf(s.ctr) = toAddr

\* A jump of n instructions leaves everything but r12 and CTR alone, and a
\* branch these too.
Spared(s, t, n) ==
  /\ t.lr = s.lr /\ t.mem = s.mem
  /\ \A r \in Regs \ {12} : t.gpr[r] = s.gpr[r]
  /\ n = 1 => t.gpr[12] = s.gpr[12] /\ t.ctr = s.ctr

\* j instructions of the jump at the entry point have been executed.
InJump(s, j) == Leap(s, Displaced, scene.code, CodeBase, j)

\* k injected instructions have been executed, and no system call.
BeforeLoad(s, k) ==
  /\ k \in 0..22 /\ s.pc = CodeBase + 4 * k
  /\ k \in 17..19 => InReg(s, 3, PathAt, k - 16)
  /\ k >= 19 => AddrOf(s.gpr[3]) = PathAt
  /\ k >= 20 => s.gpr[4] = Reg(0)
  /\ k >= 21 => s.gpr[5] = Reg(0)
  /\ k >= 22 => AddrOf(s.gpr[11]) = SYS_PRX_LOAD_MODULE

\* k injected instructions have been executed, and one system call, which
\* answered id.
BeforeStart(s, k, id) ==
  /\ k \in 23..29 /\ s.pc = CodeBase + 4 * k
  /\ s.gpr[3] = id
  /\ \A r \in 1..5 : k >= 23 + r => s.gpr[3 + r] = Reg(0)
  /\ k = 29 => AddrOf(s.gpr[11]) = SYS_PRX_START_MODULE

\* A system call number is the address it looks like.
LEMMA NumberOf == ASSUME NEW n \in Small PROVE AddrOf(Reg(n)) = n
<1>1. n \div HalfMod = 0 /\ n % HalfMod = n /\ 0 * HalfMod = 0
  BY SMT, HalfModAssumption DEF Small
<1> QED  BY <1>1 DEF AddrOf, Reg, Small

\* A jump goes on, or to its target.
Leaping(s, J, f, to, j) ==
  /\ f \in Nat /\ to \in Address /\ to < AddrMod \div 2 /\ to % 4 = 0
  /\ ShortJump(J, f, to) \/ LongJump(J, to)
  /\ Machine(s) /\ Leap(s, Len(J), f, to, j)

Leapt(s, t, i, J, f, to, j) ==
  /\ i.op \in Executed /\ i.op \notin {"std", "stdu"} /\ Machine(t) /\ Spared(s, t, Len(J))
  /\ Leap(t, Len(J), f, to, j + 1) \/ t.pc = to

LEMMA LeapNext ==
  ASSUME NEW f, NEW to, NEW J, NEW s, NEW j, NEW taken, Leaping(s, J, f, to, j)
  PROVE  Leapt(s, Exec(s, Decode(J[j + 1]), taken), Decode(J[j + 1]), J, f, to, j)
<1>a. /\ f \in Nat /\ to \in Address /\ to < AddrMod \div 2 /\ to % 4 = 0
      /\ ShortJump(J, f, to) \/ LongJump(J, to)
      /\ Machine(s) /\ Leap(s, Len(J), f, to, j)
  BY DEF Leaping
<1> USE <1>a
<1> DEFINE i == Decode(J[j + 1])
           t == Exec(s, i, taken)
           n == Len(J)
<1>1. j \in 0..(n - 1) /\ s.pc = f + 4 * j
  BY DEF Leap
<1>2. s.gpr = [r \in Regs |-> s.gpr[r]]
  BY DEF Machine
<1>3. CASE ShortJump(J, f, to)
  <2> DEFINE d == to - f
  <2>1. n = 1 /\ Decode(J[1]) = [op |-> "b", imm |-> d, aa |-> 0, lk |-> 0]
    BY <1>3 DEF ShortJump
  <2>2. j = 0
    BY ONLY <2>1, <1>1
  <2>3. i = [op |-> "b", imm |-> d, aa |-> 0, lk |-> 0]
    BY ONLY <2>1, <2>2
  <2>4. i.op \in Executed /\ i.op \notin {"std", "stdu"}
    BY ONLY <2>3 DEF Executed, Branches
  <2>5. t = Mach((s.pc + d) % AddrMod, s.gpr, s.lr, s.ctr, s.mem)
    <3> HIDE DEF d
    <3> QED  BY <2>3, JumpStep
  <2>6. (s.pc + d) % AddrMod = to
    <3>1. AddrMod \in Nat /\ to \in Nat /\ to < AddrMod
      BY AddrModFacts DEF Address
    <3>2. s.pc + d = to
      BY ONLY SMT, <1>1, <2>2, <3>1, f \in Nat
    <3> HIDE DEF d
    <3>3. to % AddrMod = to
      BY ONLY SMT, <3>1
    <3> QED  BY ONLY <3>2, <3>3
  <2> HIDE DEF t
  <2>7. Machine(t) /\ t.pc = to /\ t.gpr = s.gpr /\ t.lr = s.lr /\ t.ctr = s.ctr /\ t.mem = s.mem
    BY ONLY <1>2, <2>5, <2>6, MachFields
  <2> QED  BY ONLY <2>4, <2>7 DEF t, Spared, Leapt
<1>4. CASE LongJump(J, to)
  <2>1. n = 5
    BY <1>4 DEF LongJump
  <2>2. CASE j \in 0..2
    <3>1. J[j + 1] = loadImmediate32(12, to)[j + 1]
      <4>1. j + 1 \in 1..3
        BY ONLY <2>2
      <4> QED  BY ONLY <1>4, <4>1 DEF LongJump
    <3>2. InReg(s, 12, to, j)
      BY <2>2 DEF Leap, InReg
    <3>3. 12 \in Five
      BY SMT
    <3>4. PICK x : Sets(s, t, 12, x) /\ InReg(t, 12, to, j + 1)
      BY <2>2, <3>1, <3>2, <3>3, ImmediateStep
    <3>5. i.op \in {"addis", "ori", "rldicl"}
      BY <2>2, <3>1, <3>3, ImmediateOps
    <3>e. i.op \in Executed /\ i.op \notin {"std", "stdu"}
      BY ONLY <3>5 DEF Executed
    <3> HIDE DEF t
    <3>6. Machine(t) /\ t.pc = s.pc + 4 /\ Spared(s, t, n)
      BY <2>1, <3>4 DEF Sets, Spared
    <3>7. t.pc = f + 4 * (j + 1) /\ j + 1 \in 0..(n - 1) /\ j + 1 # 4
      BY ONLY SMT, <1>1, <2>1, <2>2, <3>6, f \in Nat
    <3>8. Leap(t, n, f, to, j + 1)
      BY ONLY <3>4, <3>7 DEF Leap
    <3> QED  BY ONLY <3>e, <3>6, <3>8 DEF t, Leapt
  <2>3. CASE j = 3
    <3>1. i = [op |-> "mtspr", t |-> 12, spr |-> 9]
      BY ONLY <1>4, <2>3 DEF LongJump
    <3>2. i.op \in Executed /\ i.op \notin {"std", "stdu"}
      BY ONLY <3>1 DEF Executed
    <3>3. t = Mach(s.pc + 4, s.gpr, s.lr, s.gpr[12], s.mem)
      BY <3>1, JumpStep
    <3>4. AddrOf(s.gpr[12]) = to
      BY <2>3 DEF Leap, InReg
    <3> HIDE DEF t
    <3>5. Machine(t) /\ t.pc = s.pc + 4 /\ t.gpr = s.gpr /\ t.lr = s.lr /\ t.ctr = s.gpr[12] /\ t.mem = s.mem
      BY ONLY <1>2, <3>3, MachFields
    <3>6. t.pc = f + 4 * (j + 1) /\ j + 1 \in 0..(n - 1) /\ j + 1 \notin 1..3
      BY ONLY SMT, <1>1, <2>1, <2>3, <3>5, f \in Nat
    <3>7. Leap(t, n, f, to, j + 1)
      BY ONLY <3>4, <3>5, <3>6 DEF Leap
    <3>8. Spared(s, t, n)
      BY ONLY <2>1, <3>5 DEF Spared
    <3> QED  BY ONLY <3>2, <3>5, <3>7, <3>8 DEF t, Leapt
  <2>4. CASE j = 4
    <3>1. i = [op |-> "bcctr", bo |-> 20, bi |-> 0, lk |-> 0]
      BY ONLY <1>4, <2>4 DEF LongJump
    <3>2. i.op \in Executed /\ i.op \notin {"std", "stdu"}
      BY ONLY <3>1 DEF Executed, Branches
    <3>3. t = Mach(AddrOf(s.ctr) - (AddrOf(s.ctr) % 4), s.gpr, s.lr, s.ctr, s.mem)
      BY <3>1, JumpStep
    <3>4. AddrOf(s.ctr) = to
      BY <2>4 DEF Leap
    <3>5. AddrOf(s.ctr) - (AddrOf(s.ctr) % 4) = to
      <4>1. to \in Int
        BY AddrModFacts DEF Address
      <4> QED  BY ONLY SMT, <3>4, <4>1, to % 4 = 0
    <3> HIDE DEF t
    <3>6. Machine(t) /\ t.pc = to /\ t.gpr = s.gpr /\ t.lr = s.lr /\ t.ctr = s.ctr /\ t.mem = s.mem
      BY ONLY <1>2, <3>3, <3>5, MachFields
    <3> QED  BY ONLY <3>2, <3>6 DEF t, Spared, Leapt
  <2>5. j \in 0..2 \/ j = 3 \/ j = 4
    BY ONLY <1>1, <2>1
  <2> QED  BY ONLY <2>2, <2>3, <2>4, <2>5
<1> QED  BY <1>3, <1>4

\* The jump at the entry point goes on, or into the injected code.
LEMMA JumpNext ==
  ASSUME scene \in Scenes, Low(scene), Built, NEW s, Machine(s), NEW j, InJump(s, j), NEW taken
  PROVE  LET i == Decode(Fetch(s.pc))
             t == Exec(s, i, taken)
         IN  /\ i.op # "sc" /\ i.op \notin {"std", "stdu"} /\ Machine(t) /\ Spared(s, t, Displaced)
             /\ InJump(t, j + 1) \/ BeforeLoad(t, 0)
<1> DEFINE i == Decode(Fetch(s.pc))
           t == Exec(s, i, taken)
<1>1. j \in 0..(Displaced - 1) /\ s.pc = scene.code + 4 * j
  BY DEF InJump, Leap
<1>2. Fetch(s.pc) = JumpIn[j + 1]
  BY <1>1, FetchJump
<1>3. /\ CodeBase \in Address /\ scene.code \in Address /\ Len(JumpIn) = Displaced
      /\ CodeBase < AddrMod \div 2 /\ scene.code \in Nat /\ CodeBase % 4 = 0
  BY JobTypes, LowAddresses DEF Built
<1>4. ShortJump(JumpIn, scene.code, CodeBase) \/ LongJump(JumpIn, CodeBase)
  BY <1>3, JumpWords DEF JumpIn
<1>5. Leap(s, Len(JumpIn), scene.code, CodeBase, j)
  BY <1>3 DEF InJump
<1> DEFINE w == JumpIn[j + 1]
           u == Exec(s, Decode(w), taken)
<1>6. /\ Decode(w).op \in Executed /\ Decode(w).op \notin {"std", "stdu"} /\ Machine(u) /\ Spared(s, u, Len(JumpIn))
      /\ Leap(u, Len(JumpIn), scene.code, CodeBase, j + 1) \/ u.pc = CodeBase
  <2> DEFINE J == JumpIn
             f == scene.code
             to == CodeBase
             x == J[j + 1]
             v == Exec(s, Decode(x), taken)
  <2>1. Leaping(s, J, f, to, j)
    BY ONLY Machine(s), <1>3, <1>4, <1>5 DEF Leaping
  <2> HIDE DEF J, f, to
  <2>2. Leapt(s, v, Decode(x), J, f, to, j)
    BY ONLY <2>1, LeapNext
  <2> QED  BY ONLY <2>2 DEF J, f, to, Leapt
<1>7. i = Decode(w) /\ t = u
  BY ONLY <1>2
<1> HIDE DEF i, t, u, w
<1>8. i.op # "sc" /\ i.op \notin {"std", "stdu"}
  BY ONLY <1>6, <1>7 DEF Executed, Branches
<1>9. ASSUME t.pc = CodeBase PROVE BeforeLoad(t, 0)
  <2>1. t.pc = CodeBase + 4 * 0
    BY <1>9, LowAddresses DEF Built
  <2> QED  BY <2>1 DEF BeforeLoad
<1>10. InJump(t, j + 1) \/ BeforeLoad(t, 0)
  BY ONLY <1>3, <1>6, <1>7, <1>9 DEF InJump
<1>11. Machine(t) /\ Spared(s, t, Displaced)
  BY ONLY <1>3, <1>6, <1>7
<1> QED  BY ONLY <1>8, <1>10, <1>11 DEF i, t

\* The words of the first system call, by their place in the injected code.
LEMMA FetchLoad ==
  ASSUME scene \in Scenes, Low(scene), Built
  PROVE  LET F(k) == Fetch(CodeBase + 4 * k)
         IN  /\ \A j \in 0..2 : F(16 + j) = loadImmediate32(3, PathAt)[j + 1]
             /\ Decode(F(19)) = [op |-> "addi", t |-> 4, a |-> 0, imm |-> 0]
             /\ Decode(F(20)) = [op |-> "addi", t |-> 5, a |-> 0, imm |-> 0]
             /\ Decode(F(21)) = [op |-> "addi", t |-> 11, a |-> 0, imm |-> 480]
             /\ Decode(F(22)) = [op |-> "sc"]
<1> DEFINE F(k) == Fetch(CodeBase + 4 * k)
           c == makeLoadAndStartModule(PathAt)
           x == makeLoadModuleCall(PathAt)
           l == loadImmediate32(3, PathAt)
<1>1. PathAt \in Address
  BY JobTypes
<1>2. Joins(Word, c, x, makeStartModuleCall, 7, 7)
  BY <1>1, SyscallWords
<1>3. /\ \A k \in 1..3 : x[k] = l[k]
      /\ Decode(x[4]) = [op |-> "addi", t |-> 4, a |-> 0, imm |-> 0]
      /\ Decode(x[5]) = [op |-> "addi", t |-> 5, a |-> 0, imm |-> 0]
      /\ Decode(x[6]) = [op |-> "addi", t |-> 11, a |-> 0, imm |-> 480]
      /\ Decode(x[7]) = [op |-> "sc"]
  BY <1>1, LoadWords
<1>4. \A k \in 16..22 : F(k) = c[k - 15]
  BY FetchCode
<1> HIDE DEF c, x, l, F
<1>5. \A k \in 1..7 : c[k] = x[k]
  BY ONLY <1>2 DEF Joins
<1>6. \A k \in 1..7 : F(15 + k) = x[k]
  <2> TAKE k \in 1..7
  <2>1. 15 + k \in 16..22 /\ (15 + k) - 15 = k
    OBVIOUS
  <2> QED  BY ONLY <1>4, <1>5, <2>1, k \in 1..7
<1>7. \A j \in 0..2 : F(16 + j) = l[j + 1]
  <2> TAKE j \in 0..2
  <2>1. j + 1 \in 1..7 /\ j + 1 \in 1..3 /\ 15 + (j + 1) = 16 + j
    OBVIOUS
  <2> QED  BY ONLY <1>3, <1>6, <2>1
<1>8. F(19) = x[4] /\ F(20) = x[5] /\ F(21) = x[6] /\ F(22) = x[7]
  <2>1. F(15 + 4) = x[4] /\ F(15 + 5) = x[5] /\ F(15 + 6) = x[6] /\ F(15 + 7) = x[7]
    BY ONLY <1>6
  <2>2. 15 + 4 = 19 /\ 15 + 5 = 20 /\ 15 + 6 = 21 /\ 15 + 7 = 22
    OBVIOUS
  <2> QED  BY ONLY <2>1, <2>2
<1> QED  BY ONLY <1>3, <1>7, <1>8 DEF F, l

\* And of the second.
LEMMA FetchStart ==
  ASSUME scene \in Scenes, Low(scene), Built
  PROVE  LET F(k) == Fetch(CodeBase + 4 * k)
         IN  /\ \A r \in 1..5 : Decode(F(22 + r)) = [op |-> "addi", t |-> 3 + r, a |-> 0, imm |-> 0]
             /\ Decode(F(28)) = [op |-> "addi", t |-> 11, a |-> 0, imm |-> 481]
             /\ Decode(F(29)) = [op |-> "sc"]
<1> DEFINE F(k) == Fetch(CodeBase + 4 * k)
           c == makeLoadAndStartModule(PathAt)
           x == makeStartModuleCall
<1>1. PathAt \in Address
  BY JobTypes
<1>2. Joins(Word, c, makeLoadModuleCall(PathAt), x, 7, 7)
  BY <1>1, SyscallWords
<1>3. /\ \A r \in 1..5 : Decode(x[r]) = [op |-> "addi", t |-> 3 + r, a |-> 0, imm |-> 0]
      /\ Decode(x[6]) = [op |-> "addi", t |-> 11, a |-> 0, imm |-> 481]
      /\ Decode(x[7]) = [op |-> "sc"]
  BY StartWords
<1>4. \A k \in 23..29 : F(k) = c[k - 15]
  BY FetchCode
<1> HIDE DEF c, x, F
<1>5. \A k \in 1..7 : c[7 + k] = x[k]
  BY ONLY <1>2 DEF Joins
<1>6. \A k \in 1..7 : F(22 + k) = x[k]
  <2> TAKE k \in 1..7
  <2>1. 22 + k \in 23..29 /\ (22 + k) - 15 = 7 + k
    OBVIOUS
  <2> QED  BY ONLY <1>4, <1>5, <2>1, k \in 1..7
<1>7. F(28) = x[6] /\ F(29) = x[7]
  <2>1. F(22 + 6) = x[6] /\ F(22 + 7) = x[7]
    BY ONLY <1>6
  <2>2. 22 + 6 = 28 /\ 22 + 7 = 29
    OBVIOUS
  <2> QED  BY ONLY <2>1, <2>2
<1>8. ASSUME NEW r \in 1..5
      PROVE  Decode(F(22 + r)) = [op |-> "addi", t |-> 3 + r, a |-> 0, imm |-> 0]
  <2>1. r \in 1..7
    OBVIOUS
  <2> QED  BY ONLY <1>3, <1>6, <2>1, r \in 1..5
<1> QED  BY ONLY <1>3, <1>7, <1>8 DEF F

\* The next instruction sets a register to a small number.
LEMMA LiNext ==
  ASSUME NEW s, Machine(s), NEW k, s.pc = CodeBase + 4 * k, NEW reg \in Regs, NEW n \in Small,
         Decode(Fetch(CodeBase + 4 * k)) = [op |-> "addi", t |-> reg, a |-> 0, imm |-> n], NEW taken
  PROVE  LET i == Decode(Fetch(s.pc))
             t == Exec(s, i, taken)
         IN  i.op # "sc" /\ Sets(s, t, reg, Reg(n))
<1> DEFINE i == Decode(Fetch(s.pc))
           u == [op |-> "addi", t |-> reg, a |-> 0, imm |-> n]
<1>1. i = u
  BY ONLY s.pc = CodeBase + 4 * k, Decode(Fetch(CodeBase + 4 * k)) = u
<1>2. u.op # "sc"
  OBVIOUS
<1>3. Sets(s, Exec(s, u, taken), reg, Reg(n))
  BY LiStep
<1> HIDE DEF i, u
<1> QED  BY ONLY <1>1, <1>2, <1>3 DEF i

\* Until the first system call the injected code runs straight on.
LEMMA LoadNext ==
  ASSUME scene \in Scenes, Low(scene), Built, NEW s, Machine(s), NEW k, BeforeLoad(s, k), k # 22, NEW taken
  PROVE  LET i == Decode(Fetch(s.pc))
             t == Exec(s, i, taken)
         IN  i.op # "sc" /\ Machine(t) /\ BeforeLoad(t, k + 1)
<1> DEFINE i == Decode(Fetch(s.pc))
           t == Exec(s, i, taken)
<1>1. k \in 0..22 /\ s.pc = CodeBase + 4 * k
  BY DEF BeforeLoad
<1>2. CodeBase \in Int /\ PathAt \in Address /\ PathAt < AddrMod \div 2
  <2>1. CodeBase = scene.trampolineAddr + 8 /\ scene.trampolineAddr \in Nat /\ PathAt < AddrMod \div 2
    BY LowAddresses DEF Built
  <2> QED  BY <2>1, JobTypes
<1>3. ASSUME t.pc = s.pc + 4 PROVE t.pc = CodeBase + 4 * (k + 1)
  <2> HIDE DEF t
  <2> QED  BY ONLY SMT, <1>1, <1>2, <1>3
<1>r. {3, 4, 5, 11} \subseteq Regs /\ 3 \in Five /\ 0 \in Small /\ 480 \in Small
  BY SMT DEF Regs, Small
<1>n. AddrOf(Reg(480)) = SYS_PRX_LOAD_MODULE
  BY <1>r, NumberOf DEF SYS_PRX_LOAD_MODULE
<1>4. CASE k \in 0..15
  <2>1. Fetch(CodeBase + 4 * k) = buildPrologue[k + 1]
    <3>1. k \in 0..29 /\ k < 16
      BY <1>4
    <3> QED  BY <3>1, FetchCode
  <2>2. i.op \in {"std", "stdu", "mfspr"}
    <3>1. k + 1 \in 1..16
      BY <1>4
    <3>2. Decode(buildPrologue[k + 1]).op \in {"std", "stdu", "mfspr"}
      BY <3>1, PrologueOps
    <3> QED  BY ONLY <1>1, <2>1, <3>2
  <2>3. Machine(t) /\ t.pc = s.pc + 4
    <3> HIDE DEF i
    <3>1. i.op \in Executed /\ i.op \notin Branches
      BY ONLY <2>2 DEF Executed, Branches
    <3> QED  BY <3>1, ExecMachine
  <2>4. k + 1 \in 0..22 /\ k + 1 \notin 17..19 /\ ~ k + 1 >= 19 /\ ~ k + 1 >= 20 /\ ~ k + 1 >= 21 /\ ~ k + 1 >= 22
    BY ONLY <1>4
  <2> HIDE DEF t
  <2>5. BeforeLoad(t, k + 1)
    BY ONLY <1>3, <2>3, <2>4 DEF BeforeLoad
  <2>6. i.op # "sc"
    BY ONLY <2>2
  <2> QED  BY ONLY <2>3, <2>5, <2>6 DEF t
<1>5. CASE k \in 16..18
  <2> DEFINE j == k - 16
  <2>1. j \in 0..2 /\ k = 16 + j /\ (k + 1) - 16 = j + 1
    BY <1>5
  <2>2. Fetch(s.pc) = loadImmediate32(3, PathAt)[j + 1]
    <3> HIDE DEF j
    <3> QED  BY <1>1, <2>1, FetchLoad
  <2>3. InReg(s, 3, PathAt, j)
    <3>1. CASE k = 16
      BY <3>1 DEF InReg
    <3>2. CASE k \in 17..19
      BY <3>2 DEF BeforeLoad
    <3> QED  BY <1>5, <3>1, <3>2
  <2> HIDE DEF j
  <2>4. PICK x : Sets(s, t, 3, x) /\ InReg(t, 3, PathAt, j + 1)
    BY <1>2, <1>r, <2>1, <2>2, <2>3, ImmediateStep
  <2>5. i.op \in {"addis", "ori", "rldicl"}
    BY <1>2, <1>r, <2>1, <2>2, ImmediateOps
  <2> HIDE DEF t
  <2>6. Machine(t) /\ t.pc = s.pc + 4
    BY ONLY <2>4 DEF Sets
  <2>7. k + 1 \in 0..22 /\ (k + 1 >= 19 => j + 1 = 3) /\ ~ k + 1 >= 20 /\ ~ k + 1 >= 21 /\ ~ k + 1 >= 22
    BY ONLY <1>5, <2>1
  <2>8. k + 1 >= 19 => AddrOf(t.gpr[3]) = PathAt
    BY ONLY <2>4, <2>7 DEF InReg
  <2>9. BeforeLoad(t, k + 1)
    BY ONLY <1>3, <2>1, <2>4, <2>6, <2>7, <2>8 DEF BeforeLoad
  <2>10. i.op # "sc"
    BY ONLY <2>5
  <2> QED  BY ONLY <2>6, <2>9, <2>10 DEF t
<1>6. CASE k = 19
  <2>1. i.op # "sc" /\ Sets(s, t, 4, Reg(0))
    <3>1. Decode(Fetch(CodeBase + 4 * k)) = [op |-> "addi", t |-> 4, a |-> 0, imm |-> 0]
      BY <1>6, FetchLoad
    <3>2. 4 \in Regs
      BY <1>r
    <3> QED  BY ONLY Machine(s), <1>1, <1>r, <3>1, <3>2, LiNext
  <2>2. AddrOf(s.gpr[3]) = PathAt
    BY <1>6 DEF BeforeLoad
  <2> HIDE DEF t
  <2>3. Machine(t) /\ t.pc = s.pc + 4 /\ t.gpr[4] = Reg(0) /\ t.gpr[3] = s.gpr[3]
    BY <2>1, <1>r DEF Sets
  <2>4. BeforeLoad(t, k + 1)
    BY <1>3, <1>6, <2>2, <2>3 DEF BeforeLoad
  <2> QED  BY ONLY <2>1, <2>3, <2>4 DEF t
<1>7. CASE k = 20
  <2>1. i.op # "sc" /\ Sets(s, t, 5, Reg(0))
    <3>1. Decode(Fetch(CodeBase + 4 * k)) = [op |-> "addi", t |-> 5, a |-> 0, imm |-> 0]
      BY <1>7, FetchLoad
    <3>2. 5 \in Regs
      BY <1>r
    <3> QED  BY ONLY Machine(s), <1>1, <1>r, <3>1, <3>2, LiNext
  <2>2. AddrOf(s.gpr[3]) = PathAt /\ s.gpr[4] = Reg(0)
    BY <1>7 DEF BeforeLoad
  <2> HIDE DEF t
  <2>3. Machine(t) /\ t.pc = s.pc + 4 /\ t.gpr[5] = Reg(0) /\ t.gpr[3] = s.gpr[3] /\ t.gpr[4] = s.gpr[4]
    BY <2>1, <1>r DEF Sets
  <2>4. BeforeLoad(t, k + 1)
    BY <1>3, <1>7, <2>2, <2>3 DEF BeforeLoad
  <2> QED  BY ONLY <2>1, <2>3, <2>4 DEF t
<1>8. CASE k = 21
  <2>1. i.op # "sc" /\ Sets(s, t, 11, Reg(480))
    <3> DEFINE n == 480
    <3>1. Decode(Fetch(CodeBase + 4 * k)) = [op |-> "addi", t |-> 11, a |-> 0, imm |-> n]
      BY <1>8, FetchLoad
    <3>2. 11 \in Regs /\ n \in Small
      BY <1>r
    <3> HIDE DEF n
    <3>3. i.op # "sc" /\ Sets(s, t, 11, Reg(n))
      BY ONLY Machine(s), <1>1, <3>1, <3>2, LiNext
    <3> QED  BY ONLY <3>3 DEF n
  <2>2. AddrOf(s.gpr[3]) = PathAt /\ s.gpr[4] = Reg(0) /\ s.gpr[5] = Reg(0)
    BY <1>8 DEF BeforeLoad
  <2> HIDE DEF t
  <2>3. /\ Machine(t) /\ t.pc = s.pc + 4 /\ t.gpr[11] = Reg(480)
        /\ t.gpr[3] = s.gpr[3] /\ t.gpr[4] = s.gpr[4] /\ t.gpr[5] = s.gpr[5]
    BY <2>1, <1>r DEF Sets
  <2>4. BeforeLoad(t, k + 1)
    BY <1>3, <1>8, <1>n, <2>2, <2>3 DEF BeforeLoad
  <2> QED  BY ONLY <2>1, <2>3, <2>4 DEF t
<1>9. k \in 0..15 \/ k \in 16..18 \/ k = 19 \/ k = 20 \/ k = 21
  BY <1>1
<1> QED  BY ONLY <1>4, <1>5, <1>6, <1>7, <1>8, <1>9

\* So it does until the second.
LEMMA StartNext ==
  ASSUME scene \in Scenes, Low(scene), Built, NEW s, Machine(s), NEW k, NEW id, BeforeStart(s, k, id), k # 29,
         NEW taken
  PROVE  LET i == Decode(Fetch(s.pc))
             t == Exec(s, i, taken)
         IN  i.op # "sc" /\ Machine(t) /\ BeforeStart(t, k + 1, id)
<1> DEFINE i == Decode(Fetch(s.pc))
           t == Exec(s, i, taken)
<1>1. k \in 23..29 /\ s.pc = CodeBase + 4 * k /\ s.gpr[3] = id
      /\ \A r \in 1..5 : k >= 23 + r => s.gpr[3 + r] = Reg(0)
  BY DEF BeforeStart
<1>2. CodeBase \in Int
  <2>1. CodeBase = scene.trampolineAddr + 8 /\ scene.trampolineAddr \in Nat
    BY LowAddresses DEF Built
  <2> QED  BY <2>1
<1>3. ASSUME t.pc = s.pc + 4 PROVE t.pc = CodeBase + 4 * (k + 1)
  <2> HIDE DEF t
  <2> QED  BY ONLY SMT, <1>1, <1>2, <1>3
<1>r. 3 \in Regs /\ 11 \in Regs /\ 0 \in Small /\ 481 \in Small
      /\ \A r \in 1..5 : 3 + r \in Regs /\ 3 + r # 3 /\ 3 + r # 11
  BY SMT DEF Regs, Small
<1>4. CASE k \in 23..27
  <2> DEFINE q == k - 22
  <2>0. q \in 1..5 /\ k = 22 + q /\ 3 + q \in Regs
    BY <1>4, <1>r
  <2> HIDE DEF q
  <2>1. i.op # "sc" /\ Sets(s, t, 3 + q, Reg(0))
    <3>1. Decode(Fetch(CodeBase + 4 * (22 + q))) = [op |-> "addi", t |-> 3 + q, a |-> 0, imm |-> 0]
      BY <2>0, FetchStart
    <3> DEFINE g == 3 + q
    <3>2. Decode(Fetch(CodeBase + 4 * k)) = [op |-> "addi", t |-> g, a |-> 0, imm |-> 0] /\ g \in Regs
      BY ONLY <3>1, <2>0
    <3> HIDE DEF g
    <3>3. i.op # "sc" /\ Sets(s, t, g, Reg(0))
      BY ONLY Machine(s), <1>1, <1>r, <3>2, LiNext
    <3> QED  BY ONLY <3>3 DEF g
  <2> HIDE DEF t
  <2>2. Machine(t) /\ t.pc = s.pc + 4 /\ t.gpr[3 + q] = Reg(0) /\ \A r \in Regs \ {3 + q} : t.gpr[r] = s.gpr[r]
    BY ONLY <2>1 DEF Sets
  <2>3. t.gpr[3] = id
    <3>1. 3 \in Regs \ {3 + q}
      BY ONLY <1>r, <2>0
    <3> QED  BY ONLY <1>1, <2>2, <3>1
  <2>4. ASSUME NEW r \in 1..5, k + 1 >= 23 + r PROVE t.gpr[3 + r] = Reg(0)
    <3>1. CASE r = q
      BY ONLY <3>1, <2>2
    <3>2. CASE r # q
      <4>1. k >= 23 + r /\ 3 + r \in Regs /\ 3 + r # 3 + q
        BY ONLY <2>0, <2>4, <3>2, <1>r
      <4>2. s.gpr[3 + r] = Reg(0)
        BY ONLY <1>1, <4>1, r \in 1..5
      <4> QED  BY ONLY <2>2, <4>1, <4>2
    <3> QED  BY <3>1, <3>2
  <2>5. k + 1 \in 23..29 /\ k + 1 # 29
    BY ONLY <1>4
  <2>6. BeforeStart(t, k + 1, id)
    BY ONLY <1>3, <2>2, <2>3, <2>4, <2>5 DEF BeforeStart
  <2> QED  BY ONLY <2>1, <2>2, <2>6 DEF t
<1>5. CASE k = 28
  <2>1. i.op # "sc" /\ Sets(s, t, 11, Reg(481))
    <3> DEFINE n == 481
    <3>1. Decode(Fetch(CodeBase + 4 * k)) = [op |-> "addi", t |-> 11, a |-> 0, imm |-> n]
      BY <1>5, FetchStart
    <3>2. 11 \in Regs /\ n \in Small
      BY <1>r
    <3> HIDE DEF n
    <3>3. i.op # "sc" /\ Sets(s, t, 11, Reg(n))
      BY ONLY Machine(s), <1>1, <3>1, <3>2, LiNext
    <3> QED  BY ONLY <3>3 DEF n
  <2>2. AddrOf(Reg(481)) = SYS_PRX_START_MODULE
    BY <1>r, NumberOf DEF SYS_PRX_START_MODULE
  <2> HIDE DEF t
  <2>3. Machine(t) /\ t.pc = s.pc + 4 /\ t.gpr[11] = Reg(481) /\ \A r \in Regs \ {11} : t.gpr[r] = s.gpr[r]
    BY ONLY <2>1 DEF Sets
  <2>4. t.gpr[3] = id /\ \A r \in 1..5 : t.gpr[3 + r] = Reg(0)
    <3>1. t.gpr[3] = id
      <4>1. 3 \in Regs \ {11}
        BY <1>r
      <4> QED  BY ONLY <1>1, <2>3, <4>1
    <3>2. ASSUME NEW r \in 1..5 PROVE t.gpr[3 + r] = Reg(0)
      <4>1. k >= 23 + r /\ 3 + r \in Regs \ {11}
        BY <1>5, <1>r
      <4> QED  BY ONLY <1>1, <2>3, <4>1, r \in 1..5
    <3> QED  BY <3>1, <3>2
  <2>5. k + 1 \in 23..29
    BY ONLY <1>5
  <2>6. BeforeStart(t, k + 1, id)
    BY ONLY <1>3, <2>2, <2>3, <2>4, <2>5 DEF BeforeStart
  <2> QED  BY ONLY <2>1, <2>3, <2>6 DEF t
<1>6. k \in 23..27 \/ k = 28
  BY <1>1
<1> QED  BY ONLY <1>4, <1>5, <1>6

\* The path is where the first system call is told it is.
LEMMA PathInBlob ==
  ASSUME scene \in Scenes, Low(scene), Built
  PROVE  LET p == PathAt - scene.trampolineAddr
         IN  /\ p + Len(scene.path) < Len(image.blob)
             /\ SubSeq(image.blob, p + 1, p + Len(scene.path) + 1) = scene.path \o << 0 >>
<1>1. PICK m \in Seq(Word) : Len(m) = Displaced /\ image.blob = blobOf(Injected(m), scene.path)
  BY DEF Built, MovedWords
<1> DEFINE c == Injected(m)
           B == image.blob
           T == scene.trampolineAddr
           P == scene.path
           l == Len(P)
           n == Len(c)
           d == Displaced
           b == Len(Back)
           p == PathAt - T
           size == 8 + 4 * n + l + 1
<1>2. c \in Seq(Word) /\ n = 49 + d + b
  BY <1>1, InjectedWords
<1>3. T \in Nat /\ d \in {1, 5} /\ b \in {1, 5} /\ PathAt = T + 8 + 4 * (49 + d + b)
  BY LowAddresses DEF Built
<1>4. P \in Seq(Octet) /\ l \in Nat
  BY SceneFacts
<1>5. B = blobOf(c, P)
  BY <1>1
<1> HIDE DEF c
<1>6. /\ blobOf(c, P) \in Seq(Octet) /\ Len(blobOf(c, P)) = size + ((-size) % 4)
      /\ \A k \in 1..l : blobOf(c, P)[8 + 4 * n + k] = P[k]
      /\ blobOf(c, P)[8 + 4 * n + l + 1] = 0
  BY <1>2, <1>4, BlobBytes
<1> HIDE DEF B, T, P, d, b, l
<1>7. n \in Nat /\ p = 8 + 4 * n
  <2> HIDE DEF n
  <2> QED  BY ONLY SMT, <1>2, <1>3
<1>8. /\ B \in Seq(Octet) /\ Len(B) = size + ((-size) % 4)
      /\ \A k \in 1..l : B[p + k] = P[k]
      /\ B[p + l + 1] = 0
  <2> HIDE DEF p, size
  <2> QED  BY ONLY <1>5, <1>6, <1>7
<1> HIDE DEF n, p
<1>9. Len(B) \in Nat /\ p + l + 1 <= Len(B) /\ p \in Nat
  BY ONLY SMT, <1>4, <1>7, <1>8
<1> HIDE DEF size
<1> DEFINE u == SubSeq(B, p + 1, p + l + 1)
           z == << 0 >>
           v == P \o z
<1>10. Joins(Octet, v, P, z, l, 1)
  <2>1. z \in Seq(Octet) /\ Len(z) = 1
    BY DEF Octet
  <2> HIDE DEF z
  <2> QED  BY <1>4, <2>1, Joined DEF l
<1>11. u \in Seq(Octet) /\ Len(u) = l + 1 /\ \A k \in 1..(l + 1) : u[k] = B[p + k]
  <2>1. /\ p + 1 \in 1..(Len(B) + 1) /\ p + l + 1 \in p..Len(B) /\ (p + l + 1) - (p + 1) + 1 = l + 1
    BY ONLY SMT, <1>4, <1>9
  <2>2. u = [k \in 1..(l + 1) |-> B[p + k]]
    BY ONLY <1>4, <1>8, <1>9, <2>1
  <2> HIDE DEF u
  <2>3. \A k \in 1..(l + 1) : u[k] = B[p + k]
    BY ONLY <2>2
  <2>4. \A k \in 1..(l + 1) : B[p + k] \in Octet
    <3> TAKE k \in 1..(l + 1)
    <3>1. p + k \in 1..Len(B)
      BY ONLY SMT, <1>4, <1>9, k \in 1..(l + 1)
    <3> QED  BY ONLY <1>8, <3>1
  <2>5. l + 1 \in Nat
    BY <1>4
  <2> QED  BY ONLY <2>2, <2>3, <2>4, <2>5
<1> HIDE DEF u, v
<1>12. v \in Seq(Octet) /\ Len(v) = l + 1 /\ (\A k \in 1..l : v[k] = P[k]) /\ v[l + 1] = 0
  BY ONLY <1>10, <1>4 DEF Joins
<1>13. \A k \in 1..(l + 1) : u[k] = v[k]
  <2> TAKE k \in 1..(l + 1)
  <2>1. CASE k \in 1..l
    BY ONLY <2>1, <1>8, <1>11, <1>12, k \in 1..(l + 1)
  <2>2. CASE k = l + 1
    <3>1. p + (l + 1) = p + l + 1
      BY ONLY <1>4, <1>9
    <3> QED  BY ONLY <2>2, <3>1, <1>8, <1>11, <1>12, k \in 1..(l + 1)
  <2> QED  BY <2>1, <2>2, <1>4
<1>14. u = v
  BY ONLY <1>4, <1>11, <1>12, <1>13
<1>15. p + l < Len(B)
  BY ONLY SMT, <1>4, <1>9
<1> QED  BY <1>14, <1>15 DEF u, v, p, l, B, P, T

-----------------------------------------------------------------------------
(***************************************************************************)
(* The invariant.                                                          *)
(***************************************************************************)

\* Where the processor is, by the number of system calls there have been.
Passage ==
  /\ status # "running" => calls = << >> /\ cpu = G!Start(scene, Junk)
  /\ status = "running" /\ Len(calls) = 0 =>
       /\ Machine(cpu)
       /\ (\E j \in 0..4 : InJump(cpu, j)) \/ (\E k \in 0..22 : BeforeLoad(cpu, k))
  /\ status = "running" /\ Len(calls) = 1 =>
       /\ Machine(cpu)
       /\ \E k \in 23..29 : BeforeStart(cpu, k, calls[1].answer)

Booted ==
  /\ Loaded /\ Low(scene)
  /\ \E S : calls \in Seq(S)
  /\ Passage
  /\ LoadGetsPath /\ StartGetsId

\* One more system call.
LEMMA Appended ==
  ASSUME NEW S, NEW s \in Seq(S), NEW e
  PROVE  /\ \E R : Append(s, e) \in Seq(R)
         /\ Len(Append(s, e)) = Len(s) + 1 /\ Append(s, e)[Len(s) + 1] = e
         /\ \A k \in 1..Len(s) : Append(s, e)[k] = s[k]
<1> DEFINE R == S \cup {e}
<1>1. s \in Seq(R) /\ e \in R /\ Len(s) \in Nat
  OBVIOUS
<1> HIDE DEF R
<1>2. Append(s, e) \in Seq(R)
  BY <1>1
<1>3. /\ Len(Append(s, e)) = Len(s) + 1 /\ Append(s, e)[Len(s) + 1] = e
      /\ \A k \in 1..Len(s) : Append(s, e)[k] = s[k]
  BY <1>1
<1> QED  BY <1>2, <1>3

\* The program starts at its entry point, with the jump before it.
LEMMA AtEntry ==
  ASSUME scene \in Scenes
  PROVE  Machine(G!Start(scene, Junk)) /\ InJump(G!Start(scene, Junk), 0)
<1> DEFINE s == G!Start(scene, Junk)
           g == G!EntryRegs(Junk)
<1>1. s = [pc |-> scene.code, gpr |-> g, lr |-> Reg(4), ctr |-> << 8, 8, 8, 8 >>, mem |-> << >>]
  BY DEF G!Start
<1>2. g = [r \in Regs |-> g[r]]
  BY DEF G!EntryRegs, Regs
<1> HIDE DEF s, g
<1>3. Machine(s) /\ s.pc = scene.code
  BY <1>1, <1>2 DEF Machine
<1>4. Displaced \in {1, 5} /\ scene.code \in Int
  <2>1. Displaced \in {1, 5} /\ scene.code \in Address
    BY JobTypes
  <2>2. Address \subseteq Int
    BY SMT, AddrModFacts DEF Address
  <2> QED  BY ONLY Zenon, <2>1, <2>2
<1>5. s.pc = scene.code + 4 * 0 /\ 0 \in 0..(Displaced - 1) /\ 0 \notin 1..3 /\ 0 # 4
  BY ONLY SMT, <1>3, <1>4
<1>6. InJump(s, 0)
  BY ONLY <1>5 DEF InJump, Leap
<1> QED  BY <1>3, <1>6 DEF s

\* A step that leaves the scene alone leaves its addresses alone.
LEMMA SameScene ==
  ASSUME scene' = scene
  PROVE  /\ Low(scene)' <=> Low(scene)
         /\ \A j : InJump(cpu, j)' <=> InJump(cpu', j)
         /\ \A k : BeforeLoad(cpu, k)' <=> BeforeLoad(cpu', k)
         /\ \A k : BeforeStart(cpu, k, calls[1].answer)' <=> BeforeStart(cpu', k, calls'[1].answer)
<1>1. CodeBase' = CodeBase /\ PathAt' = PathAt /\ Displaced' = Displaced
  BY DEF CodeBase, PathAt, Displaced
<1>2. Low(scene)' <=> Low(scene)
  BY DEF Low
<1>3. \A j : InJump(cpu, j)' <=> InJump(cpu', j)
  BY <1>1 DEF InJump, Leap
<1>4. \A k : BeforeLoad(cpu, k)' <=> BeforeLoad(cpu', k)
  BY <1>1 DEF BeforeLoad
<1>5. \A k : BeforeStart(cpu, k, calls[1].answer)' <=> BeforeStart(cpu', k, calls'[1].answer)
  BY <1>1 DEF BeforeStart
<1> QED  BY <1>2, <1>3, <1>4, <1>5

\* At first.
LEMMA InitBooted == Low(scene) /\ Init => Booted
<1> SUFFICES ASSUME Low(scene), Init PROVE Booted
  OBVIOUS
<1>1. calls = << >> /\ status = "idle" /\ cpu = G!Start(scene, Junk)
  BY DEF Init
<1>2. (\E S : calls \in Seq(S)) /\ Len(calls) = 0
  BY <1>1
<1>3. Passage
  BY <1>1 DEF Passage
<1>4. LoadGetsPath /\ StartGetsId
  BY <1>1, <1>2 DEF LoadGetsPath, StartGetsId
<1>5. Loaded
  BY InitLoaded
<1> QED  BY <1>2, <1>3, <1>4, <1>5 DEF Booted

\* Patching and loading the program puts the processor before the jump.
LEMMA PatchBooted == ASSUME Booted, Patch PROVE Booted'
<1>1. Loaded /\ Low(scene) /\ Passage
  BY DEF Booted
<1>2. /\ Loaded' /\ UNCHANGED << scene, cpu, dead, calls >> /\ status = "idle"
      /\ status' \in {"refused", "running"}
  BY <1>1, PatchLoaded
<1>3. calls = << >> /\ cpu = G!Start(scene, Junk) /\ scene \in Scenes
  BY <1>1, <1>2 DEF Passage, Loaded
<1>4. Machine(cpu) /\ InJump(cpu, 0)
  BY <1>3, AtEntry
<1>5. /\ scene' = scene /\ cpu' = cpu /\ calls' = << >> /\ Len(calls') = 0 /\ cpu' = G!Start(scene', Junk)
      /\ \E S : calls' \in Seq(S)
  BY <1>2, <1>3
<1>6. Low(scene)' /\ InJump(cpu, 0)'
  BY <1>1, <1>4, <1>5, SameScene
<1>7. Machine(cpu)' /\ (\E j \in 0..4 : InJump(cpu, j))'
  BY <1>4, <1>5, <1>6
<1>8. Passage'
  <2>1. (status # "running" => calls = << >> /\ cpu = G!Start(scene, Junk))'
    BY <1>5
  <2>2. Len(calls') # 1
    BY ONLY <1>5
  <2> QED  BY <1>7, <2>1, <2>2 DEF Passage
<1>9. LoadGetsPath' /\ StartGetsId'
  BY <1>5 DEF LoadGetsPath, StartGetsId
<1> QED  BY <1>2, <1>5, <1>6, <1>8, <1>9 DEF Booted

\* Executing one instruction.
LEMMA ExecuteBooted == ASSUME Booted, Execute PROVE Booted'
<1> DEFINE i == Decode(Fetch(cpu.pc))
<1>1. Loaded /\ Low(scene) /\ Passage /\ LoadGetsPath /\ StartGetsId /\ \E S : calls \in Seq(S)
  BY DEF Booted
<1>2. /\ status = "running" /\ i.op \in Executed
      /\ status' = status /\ err' = err /\ scene' = scene /\ image' = image /\ calls' = calls
      /\ \E taken \in BOOLEAN : cpu' = Exec(cpu, i, taken)
  BY DEF Execute
<1>3. PICK taken \in BOOLEAN : cpu' = Exec(cpu, i, taken)
  BY <1>2
<1>4. scene \in Scenes /\ Built
  BY <1>1, <1>2 DEF Loaded
<1>5. Loaded' /\ Low(scene)' /\ LoadGetsPath' /\ StartGetsId' /\ (\E S : calls \in Seq(S))'
  BY <1>1, <1>2, StepLoaded, SameScene DEF LoadGetsPath, StartGetsId
<1>6. ASSUME status = "running", Len(calls) = 0
      PROVE  Machine(cpu') /\ ((\E j \in 0..4 : InJump(cpu', j)) \/ (\E k \in 0..22 : BeforeLoad(cpu', k)))
  <2>1. Machine(cpu)
    BY <1>1, <1>6 DEF Passage
  <2>2. ASSUME NEW j \in 0..4, InJump(cpu, j)
        PROVE  Machine(cpu') /\ ((\E m \in 0..4 : InJump(cpu', m)) \/ (\E k \in 0..22 : BeforeLoad(cpu', k)))
    <3>1. Machine(cpu') /\ (InJump(cpu', j + 1) \/ BeforeLoad(cpu', 0))
      BY <1>1, <1>3, <1>4, <2>1, <2>2, JumpNext
    <3>2. CASE InJump(cpu', j + 1)
      <4>1. j + 1 \in 0..(Displaced - 1) /\ Displaced \in {1, 5}
        BY <1>4, <3>2, JobTypes DEF InJump, Leap
      <4>2. j + 1 \in 0..4
        BY ONLY <4>1, j \in 0..4
      <4> QED  BY <3>1, <3>2, <4>2
    <3>3. CASE BeforeLoad(cpu', 0)
      <4>1. 0 \in 0..22
        OBVIOUS
      <4> QED  BY <3>1, <3>3, <4>1
    <3> QED  BY <3>1, <3>2, <3>3
  <2>3. ASSUME NEW k \in 0..22, BeforeLoad(cpu, k)
        PROVE  Machine(cpu') /\ \E m \in 0..22 : BeforeLoad(cpu', m)
    <3>1. k # 22
      <4>1. CASE k = 22
        <5>1. cpu.pc = CodeBase + 4 * 22
          BY <2>3, <4>1 DEF BeforeLoad
        <5>2. i = [op |-> "sc"]
          BY <1>1, <1>4, <5>1, FetchLoad
        <5> HIDE DEF i
        <5> QED  BY ONLY <5>2, <1>2 DEF Executed, Branches
      <4> QED  BY <4>1
    <3>2. Machine(cpu') /\ BeforeLoad(cpu', k + 1)
      BY <1>1, <1>3, <1>4, <2>1, <2>3, <3>1, LoadNext
    <3>3. k + 1 \in 0..22
      BY ONLY <3>1, k \in 0..22
    <3> QED  BY <3>2, <3>3
  <2> QED  BY <1>1, <1>6, <2>2, <2>3 DEF Passage
<1>7. ASSUME status = "running", Len(calls) = 1
      PROVE  Machine(cpu') /\ \E k \in 23..29 : BeforeStart(cpu', k, calls[1].answer)
  <2>1. Machine(cpu)
    BY <1>1, <1>7 DEF Passage
  <2> DEFINE id == calls[1].answer
  <2> HIDE DEF id
  <2>2. PICK k \in 23..29 : BeforeStart(cpu, k, id)
    BY <1>1, <1>7 DEF Passage, id
  <2>3. k # 29
    <3>1. CASE k = 29
      <4>1. cpu.pc = CodeBase + 4 * 29
        BY <2>2, <3>1 DEF BeforeStart
      <4>2. i = [op |-> "sc"]
        BY <1>1, <1>4, <4>1, FetchStart
      <4> HIDE DEF i
      <4> QED  BY ONLY <4>2, <1>2 DEF Executed, Branches
    <3> QED  BY <3>1
  <2>4. Machine(cpu') /\ BeforeStart(cpu', k + 1, id)
    BY <1>1, <1>3, <1>4, <2>1, <2>2, <2>3, StartNext
  <2>5. k + 1 \in 23..29
    BY ONLY <2>3, k \in 23..29
  <2> QED  BY <2>4, <2>5 DEF id
<1>8. Passage'
  <2>1. (status # "running" => calls = << >> /\ cpu = G!Start(scene, Junk))'
    BY <1>2
  <2>2. (status = "running" /\ Len(calls) = 0 =>
           /\ Machine(cpu)
           /\ (\E j \in 0..4 : InJump(cpu, j)) \/ (\E k \in 0..22 : BeforeLoad(cpu, k)))'
    BY <1>2, <1>6, SameScene
  <2>3. (status = "running" /\ Len(calls) = 1 =>
           /\ Machine(cpu)
           /\ \E k \in 23..29 : BeforeStart(cpu, k, calls[1].answer))'
    BY <1>2, <1>7, SameScene
  <2> QED  BY <2>1, <2>2, <2>3 DEF Passage
<1> QED  BY <1>5, <1>8 DEF Booted

\* What a system call leaves of the processor.
AfterCall(s, g, m) == [s EXCEPT !.pc = s.pc + 4, !.lr = Junk, !.ctr = Junk, !.gpr = g, !.mem = m]

LEMMA Returned ==
  ASSUME NEW s, Machine(s), NEW g, NEW m, g = [r \in Regs |-> g[r]]
  PROVE  LET t == AfterCall(s, g, m)
         IN  Machine(t) /\ t.pc = s.pc + 4 /\ t.gpr = g /\ t = Mach(s.pc + 4, g, Junk, Junk, m)
<1> DEFINE t == AfterCall(s, g, m)
<1>2. t = [pc |-> s.pc + 4, gpr |-> g, lr |-> Junk, ctr |-> Junk, mem |-> m]
  <2> DEFINE j == Junk
             p == s.pc + 4
             s1 == [s EXCEPT !.pc = p]
             s2 == [s1 EXCEPT !.lr = j]
             s3 == [s2 EXCEPT !.ctr = j]
             s4 == [s3 EXCEPT !.gpr = g]
             s5 == [s4 EXCEPT !.mem = m]
  <2>1. t = s5
    BY DEF AfterCall
  <2> HIDE DEF j, p, t
  <2>2. s1 = [pc |-> p, gpr |-> s.gpr, lr |-> s.lr, ctr |-> s.ctr, mem |-> s.mem]
    BY PcSet DEF Machine
  <2> HIDE DEF s1
  <2>3. s2 = [pc |-> p, gpr |-> s.gpr, lr |-> j, ctr |-> s.ctr, mem |-> s.mem]
    BY LrSet, <2>2
  <2> HIDE DEF s2
  <2>4. s3 = [pc |-> p, gpr |-> s.gpr, lr |-> j, ctr |-> j, mem |-> s.mem]
    BY CtrSet, <2>3
  <2> HIDE DEF s3
  <2>5. s4 = [pc |-> p, gpr |-> g, lr |-> j, ctr |-> j, mem |-> s.mem]
    BY GprSet, <2>4
  <2> HIDE DEF s4
  <2>6. s5 = [pc |-> p, gpr |-> g, lr |-> j, ctr |-> j, mem |-> m]
    BY MemSet, <2>5
  <2> HIDE DEF s5
  <2> QED  BY ONLY <2>1, <2>6 DEF j, p
<1> HIDE DEF t
<1>3. Machine(t) /\ t.pc = s.pc + 4 /\ t.gpr = g
  BY <1>2 DEF Machine
<1> QED  BY <1>2, <1>3 DEF t, Mach

\* A system call.
LEMMA SystemCallBooted == ASSUME Booted, SystemCall PROVE Booted'
<1>1. Loaded /\ Low(scene) /\ Passage /\ LoadGetsPath /\ StartGetsId
  BY DEF Booted
<1>2. PICK S : calls \in Seq(S)
  BY DEF Booted
<1>3. /\ status = "running" /\ Decode(Fetch(cpu.pc)).op = "sc"
      /\ status' = status /\ err' = err /\ scene' = scene /\ image' = image
  BY DEF SystemCall
<1>4. PICK answer \in Answers :
        /\ calls' = Append(calls, [number |-> AddrOf(cpu.gpr[11]),
                                   args   |-> [k \in 1..6 |-> cpu.gpr[2 + k]],
                                   answer |-> answer])
        /\ cpu' = [cpu EXCEPT !.pc = cpu.pc + 4, !.lr = Junk, !.ctr = Junk,
                     !.gpr = [r \in Regs |-> IF r = 3 THEN answer
                                             ELSE IF r \in Volatile THEN Junk ELSE cpu.gpr[r]],
                     !.mem = Written(cpu.mem, CalleeArea, Junk)]
  BY DEF SystemCall
<1> DEFINE e == [number |-> AddrOf(cpu.gpr[11]), args |-> [k \in 1..6 |-> cpu.gpr[2 + k]], answer |-> answer]
           n == Len(calls)
<1>5. /\ (\E R : calls' \in Seq(R)) /\ n \in Nat
      /\ Len(calls') = n + 1 /\ calls'[n + 1] = e
      /\ \A k \in 1..n : calls'[k] = calls[k]
  <2> HIDE DEF e
  <2>1. calls' = Append(calls, e)
    BY <1>4 DEF e
  <2>2. /\ \E R : Append(calls, e) \in Seq(R)
        /\ Len(Append(calls, e)) = Len(calls) + 1 /\ Append(calls, e)[Len(calls) + 1] = e
        /\ \A k \in 1..Len(calls) : Append(calls, e)[k] = calls[k]
    BY ONLY <1>2, Appended
  <2>3. Len(calls) \in Nat
    BY ONLY <1>2
  <2> HIDE DEF n
  <2>4. n = Len(calls)
    BY DEF n
  <2> QED  BY ONLY <2>1, <2>2, <2>3, <2>4
<1>6. e.number = AddrOf(cpu.gpr[11]) /\ e.answer = answer /\ e.args = [k \in 1..6 |-> cpu.gpr[2 + k]]
  OBVIOUS
<1>7. /\ e.args[1] = cpu.gpr[3] /\ e.args[2] = cpu.gpr[4] /\ e.args[3] = cpu.gpr[5]
      /\ \A k \in 2..6 : e.args[k] = cpu.gpr[2 + k]
  BY <1>6
<1> HIDE DEF e, n
<1>8. scene \in Scenes /\ Built
  BY <1>1, <1>3 DEF Loaded
<1>9. Loaded' /\ Low(scene)'
  BY <1>1, <1>3, StepLoaded, SameScene
<1>10. ASSUME Machine(cpu) PROVE Machine(cpu') /\ cpu'.pc = cpu.pc + 4 /\ cpu'.gpr[3] = answer
  <2> DEFINE g == [r \in Regs |-> IF r = 3 THEN answer ELSE IF r \in Volatile THEN Junk ELSE cpu.gpr[r]]
             m == Written(cpu.mem, CalleeArea, Junk)
  <2>1. 3 \in Regs
    BY SMT DEF Regs
  <2>2. g = [r \in Regs |-> g[r]] /\ g[3] = answer
    BY <2>1
  <2>3. cpu' = AfterCall(cpu, g, m)
    BY <1>4 DEF AfterCall
  <2> HIDE DEF g, m
  <2>4. Machine(cpu') /\ cpu'.pc = cpu.pc + 4 /\ cpu'.gpr = g
    BY ONLY <1>10, <2>2, <2>3, Returned
  <2> QED  BY ONLY <2>2, <2>4
<1>11. CASE n = 0
  <2>1. Machine(cpu) /\ \E k \in 0..22 : BeforeLoad(cpu, k)
    <3>1. /\ Machine(cpu)
          /\ (\E j \in 0..4 : InJump(cpu, j)) \/ (\E k \in 0..22 : BeforeLoad(cpu, k))
      BY <1>1, <1>3, <1>11 DEF Passage, n
    <3>2. ASSUME NEW j \in 0..4, InJump(cpu, j) PROVE FALSE
      <4>1. Decode(Fetch(cpu.pc)).op # "sc"
        BY <1>1, <1>8, <3>1, <3>2, JumpNext
      <4> QED  BY <1>3, <4>1
    <3> QED  BY <3>1, <3>2
  <2>2. PICK k \in 0..22 : BeforeLoad(cpu, k)
    BY <2>1
  <2>3. k = 22
    <3>1. CASE k # 22
      <4>1. Decode(Fetch(cpu.pc)).op # "sc"
        BY <1>1, <1>8, <2>1, <2>2, <3>1, LoadNext
      <4> QED  BY <1>3, <4>1
    <3> QED  BY <3>1
  <2>4. /\ cpu.pc = CodeBase + 4 * 22 /\ AddrOf(cpu.gpr[3]) = PathAt /\ cpu.gpr[4] = Reg(0) /\ cpu.gpr[5] = Reg(0)
        /\ AddrOf(cpu.gpr[11]) = SYS_PRX_LOAD_MODULE
    BY <2>2, <2>3 DEF BeforeLoad
  <2>5. Len(calls') = 1 /\ calls'[1] = e
    BY ONLY <1>5, <1>11
  <2>6. LoadGetsPath'
    <3> DEFINE p == AddrOf(e.args[1]) - scene.trampolineAddr
    <3>1. AddrOf(e.args[1]) = PathAt
      BY ONLY <1>7, <2>4
    <3>2. p + Len(scene.path) < Len(image.blob) /\ SubSeq(image.blob, p + 1, p + Len(scene.path) + 1) = scene.path \o << 0 >>
      BY <1>1, <1>8, <3>1, PathInBlob
    <3>3. e.number = SYS_PRX_LOAD_MODULE /\ e.args[2] = Reg(0) /\ e.args[3] = Reg(0)
      BY ONLY <1>6, <1>7, <2>4
    <3> QED  BY <1>3, <2>5, <3>2, <3>3 DEF LoadGetsPath
  <2>7. StartGetsId'
    <3>1. ~ Len(calls') > 1
      BY ONLY <2>5
    <3> QED  BY <3>1 DEF StartGetsId
  <2>8. Machine(cpu') /\ cpu'.pc = cpu.pc + 4 /\ cpu'.gpr[3] = answer
    BY <1>10, <2>1
  <2>9. BeforeStart(cpu', 23, answer)
    <3>1. CodeBase \in Int
      <4>1. CodeBase = scene.trampolineAddr + 8 /\ scene.trampolineAddr \in Nat
        BY <1>1, <1>8, LowAddresses DEF Built
      <4> QED  BY ONLY <4>1
    <3>2. cpu'.pc = CodeBase + 4 * 23
      BY ONLY SMT, <2>4, <2>8, <3>1
    <3>3. 23 \in 23..29 /\ 23 # 29 /\ \A r \in 1..5 : ~ 23 >= 23 + r
      OBVIOUS
    <3> QED  BY ONLY <2>8, <3>2, <3>3 DEF BeforeStart
  <2>10. BeforeStart(cpu', 23, calls'[1].answer)
    BY ONLY <1>6, <2>5, <2>9
  <2>11. (\E q \in 23..29 : BeforeStart(cpu, q, calls[1].answer))' /\ Machine(cpu)'
    <3>1. 23 \in 23..29
      OBVIOUS
    <3> QED  BY <1>3, <2>8, <2>10, <3>1, SameScene
  <2>12. Passage'
    <3>1. Len(calls') # 0 /\ status' = "running"
      BY <1>3, <2>5
    <3> QED  BY <3>1, <2>11 DEF Passage
  <2> QED  BY <1>5, <1>9, <2>6, <2>7, <2>12 DEF Booted
<1>12. CASE n > 0
  <2>1. calls'[1] = calls[1] /\ calls # << >> /\ Len(calls') \notin {0, 1}
    <3>1. calls # << >>
      <4>1. CASE calls = << >>
        BY ONLY <4>1, <1>12 DEF n
      <4> QED  BY <4>1
    <3> QED  BY ONLY <1>5, <1>12, <3>1
  <2>2. LoadGetsPath'
    BY <1>1, <1>3, <2>1 DEF LoadGetsPath
  <2>3. Passage'
    <3>1. status' = "running"
      BY <1>3
    <3> QED  BY <2>1, <3>1 DEF Passage
  <2>4. StartGetsId'
    <3>1. CASE n = 1
      <4> DEFINE id == calls[1].answer
      <4> HIDE DEF id
      <4>1. Machine(cpu) /\ \E k \in 23..29 : BeforeStart(cpu, k, id)
        BY <1>1, <1>3, <3>1 DEF Passage, n, id
      <4>2. PICK k \in 23..29 : BeforeStart(cpu, k, id)
        BY <4>1
      <4>3. k = 29
        <5>1. CASE k # 29
          <6>1. Decode(Fetch(cpu.pc)).op # "sc"
            BY <1>1, <1>8, <4>1, <4>2, <5>1, StartNext
          <6> QED  BY <1>3, <6>1
        <5> QED  BY <5>1
      <4>4. /\ cpu.gpr[3] = id /\ AddrOf(cpu.gpr[11]) = SYS_PRX_START_MODULE
            /\ \A r \in 1..5 : cpu.gpr[3 + r] = Reg(0)
        BY <4>2, <4>3 DEF BeforeStart
      <4>5. calls'[2] = e
        BY ONLY <1>5, <3>1
      <4>6. ASSUME NEW q \in 2..6 PROVE e.args[q] = Reg(0)
        <5>1. q - 1 \in 1..5 /\ 3 + (q - 1) = 2 + q
          OBVIOUS
        <5> QED  BY ONLY <1>7, <4>4, <5>1, q \in 2..6
      <4>7. e.args[1] = calls'[1].answer /\ e.number = SYS_PRX_START_MODULE
        BY ONLY <1>6, <1>7, <2>1, <4>4 DEF id
      <4> QED  BY <4>5, <4>6, <4>7 DEF StartGetsId
    <3>2. CASE n # 1
      <4>0. n > 1 /\ 2 \in 1..n
        BY ONLY SMT, <1>5, <1>12, <3>2
      <4>1. Len(calls) > 1 /\ calls'[2] = calls[2]
        BY <1>5, <4>0 DEF n
      <4> QED  BY <1>1, <2>1, <4>1 DEF StartGetsId
    <3> QED  BY <3>1, <3>2
  <2> QED  BY <1>5, <1>9, <2>2, <2>3, <2>4 DEF Booted
<1> QED  BY <1>5, <1>11, <1>12

\* Every step keeps the invariant.
LEMMA NextBooted == Booted /\ [Next]_vars => Booted'
<1> SUFFICES ASSUME Booted, [Next]_vars PROVE Booted'
  OBVIOUS
<1>1. CASE Patch
  BY <1>1, PatchBooted
<1>2. CASE Execute
  BY <1>2, ExecuteBooted
<1>3. CASE SystemCall
  BY <1>3, SystemCallBooted
<1>4. CASE UNCHANGED vars
  <2>1. /\ status' = status /\ err' = err /\ scene' = scene /\ image' = image /\ cpu' = cpu /\ calls' = calls
    BY <1>4 DEF vars
  <2>2. Loaded' /\ Low(scene)' /\ (\E S : calls \in Seq(S))' /\ LoadGetsPath' /\ StartGetsId'
    BY <2>1, StepLoaded, SameScene DEF Booted, LoadGetsPath, StartGetsId
  <2>3. Passage'
    BY <2>1, SameScene DEF Booted, Passage
  <2> QED  BY <2>2, <2>3 DEF Booted
<1> QED  BY <1>1, <1>2, <1>3, <1>4 DEF Next

\* Before the first system call the processor is in the jump or in the prefix.
LEMMA BeforeFirstCall ==
  ASSUME Booted, status = "running", Len(calls) = 0
  PROVE  cpu.pc \in Window \cup Prefix
<1>1. Loaded /\ Low(scene) /\ Passage /\ scene \in Scenes /\ Built
  BY DEF Booted, Loaded
<1>2. (\E j \in 0..4 : InJump(cpu, j)) \/ (\E k \in 0..22 : BeforeLoad(cpu, k))
  BY <1>1 DEF Passage
<1>3. ASSUME NEW j \in 0..4, InJump(cpu, j) PROVE cpu.pc \in Window
  BY <1>1, <1>3, FetchJump DEF InJump, Leap
<1>4. ASSUME NEW k \in 0..22, BeforeLoad(cpu, k) PROVE cpu.pc \in Prefix
  <2>1. k \in 0..29
    OBVIOUS
  <2> QED  BY <1>1, <1>4, <2>1, FetchCode DEF BeforeLoad
<1> QED  BY <1>2, <1>3, <1>4

\* For every patching job whose trampoline is low, whatever the kernel answers:
\* sys_prx_load_module is the first system call and gets a pointer to the
\* null-terminated path that was put into the blob (syscalls.hpp, trampoline.hpp).
THEOREM PathReachesKernel == Low(scene) /\ Spec => []LoadGetsPath
<1>1. Booted => LoadGetsPath
  BY DEF Booted
<1> QED  BY InitBooted, NextBooted, <1>1, PTL DEF Spec

\* sys_prx_start_module is the second, and gets the id the first one returned,
\* although the kernel destroys every volatile register in between.
THEOREM IdReachesKernel == Low(scene) /\ Spec => []StartGetsId
<1>1. Booted => StartGetsId
  BY DEF Booted
<1> QED  BY InitBooted, NextBooted, <1>1, PTL DEF Spec

\* From the entry point both jumps of makeMinimalJump, the short and the long one,
\* lead into the injected code, and nothing else runs before the first system call.
THEOREM JumpReachesTrampoline == Low(scene) /\ Spec => []EntersTrampoline
<1>1. Booted => EntersTrampoline
  <2>1. calls = << >> => Len(calls) = 0
    OBVIOUS
  <2> QED  BY <2>1, BeforeFirstCall DEF EntersTrampoline
<1> QED  BY InitBooted, NextBooted, <1>1, PTL DEF Spec

\* "loaded and started before the game's original code ever runs": no instruction
\* outside the jump and the injected code runs before both system calls were made.
THEOREM ModuleBeforeGame == Low(scene) /\ Spec => []ModuleFirst
<1>1. Booted => ModuleFirst
  <2> SUFFICES ASSUME Booted, status = "running", cpu.pc \notin Prefix \cup Window PROVE Len(calls) >= 2
    BY DEF ModuleFirst
  <2>1. Loaded /\ Low(scene) /\ Passage /\ scene \in Scenes /\ Built
    BY DEF Booted, Loaded
  <2>2. PICK S : calls \in Seq(S)
    BY DEF Booted
  <2>3. Len(calls) \in Nat
    BY <2>2
  <2>4. Len(calls) # 0
    BY BeforeFirstCall
  <2>5. Len(calls) # 1
    <3>1. CASE Len(calls) = 1
      <4>1. PICK k \in 23..29 : BeforeStart(cpu, k, calls[1].answer)
        BY <2>1, <3>1 DEF Passage
      <4>2. k \in 0..29 /\ cpu.pc = CodeBase + 4 * k
        <5>1. k \in 0..29
          BY ONLY k \in 23..29
        <5> QED  BY ONLY <4>1, <5>1 DEF BeforeStart
      <4>3. cpu.pc \in Prefix
        BY <2>1, <4>2, FetchCode
      <4> QED  BY <4>3
    <3> QED  BY <3>1
  <2> DEFINE n == Len(calls)
  <2> HIDE DEF n
  <2>6. n \in Nat /\ n # 0 /\ n # 1
    BY <2>3, <2>4, <2>5 DEF n
  <2>7. n >= 2
    BY ONLY <2>6
  <2> QED  BY <2>7 DEF n
<1> QED  BY InitBooted, NextBooted, <1>1, PTL DEF Spec
=============================================================================
