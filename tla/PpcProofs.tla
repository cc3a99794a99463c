------------------------------ MODULE PpcProofs ------------------------------
(***************************************************************************)
(* The encoders against the instruction formats, and the relocation of a   *)
(* branch, for every word and every pair of addresses.                     *)
(***************************************************************************)
EXTENDS Trampoline, Isa, TLAPS

\* What classify returns for a relative b or bl, and for a relative bc or bcl.
RelativeB(d, lk)          == DecodedBranch("DirectRelative", lk, 0, 0, 0, d, 0)
RelativeBc(bo, bi, d, lk) == DecodedBranch("DirectRelative", lk, 1, bo, bi, d, 0)

\* The displacements the two target fields hold.
LIRange(d) == d \in Int /\ d % 4 = 0 /\ d >= -33554432 /\ d <= 33554428
BDRange(d) == d \in Int /\ d % 4 = 0 /\ d >= -32768 /\ d <= 32764

\* The values of a one-bit and of a five-bit field.
Flag == {n \in Nat : n < 2}
Five == {n \in Nat : n < 32}

USE DEF Flag, Five

\* The address space has at least as many addresses as LI has values.
LEMMA AddrModFacts == AddrMod \in Nat /\ AddrMod >= 67108864
BY SMT, HalfModAssumption DEF AddrMod

\* classify reads back the displacement and link bit encodeBranch wrote.
LEMMA ClassifyEncodeBranch ==
  ASSUME NEW d, LIRange(d), NEW lk \in Flag
  PROVE  /\ encodeBranch(d, 0, lk) # Invalid
         /\ classify(encodeBranch(d, 0, lk)) = RelativeB(d, lk)
<1> DEFINE low == (d % 67108864) + lk
<1>0. d \in Int /\ d % 4 = 0 /\ d >= -33554432 /\ d <= 33554428
  BY SMT DEF LIRange
<1>1. encodeBranch(d, 0, lk) = << 18, low >>
  BY SMT, <1>0 DEF encodeBranch
<1>2. /\ low \in Int
      /\ low % 2 = lk
      /\ (low \div 2) % 2 = 0
      /\ low - (low % 4) = d % 67108864
  BY SMT, <1>0
<1>3. SignExtend(d % 67108864, 67108864) = d
  BY SMT, <1>0 DEF SignExtend
<1> HIDE DEF low
<1>4. classify(<< 18, low >>) = Direct(low, 0, 0, 0, SignExtend(low - (low % 4), 67108864))
  BY SMT DEF classify
<1>5. Direct(low, 0, 0, 0, d) = RelativeB(d, lk)
  BY SMT, <1>2 DEF Direct, RelativeB
<1>6. encodeBranch(d, 0, lk) # Invalid
  BY SMT, <1>1 DEF Invalid
<1> QED
  BY SMT, <1>1, <1>2, <1>3, <1>4, <1>5, <1>6

\* The fields of a B-form word.
LEMMA BFormFields ==
  ASSUME NEW bo \in Five, NEW bi \in Five, NEW c \in Nat, c < 65536,
         NEW low \in Int, low = bo * 2097152 + bi * 65536 + c
  PROVE  /\ (low \div 2097152) % 32 = bo /\ (low \div 65536) % 32 = bi
         /\ low % 65536 = c /\ low % 4 = c % 4 /\ low % 2 = c % 2
         /\ (low \div 2) % 2 = (c \div 2) % 2
<1>1. PICK hi \in Nat : hi = bo * 32 + bi
  BY SMT
<1>2. low = hi * 65536 + c
  BY SMT, <1>1
<1>3. low \div 65536 = hi /\ low % 65536 = c
  BY SMT, <1>2
<1>4. PICK rest \in Nat : rest = bi * 65536 + c /\ rest < 2097152
  BY SMT
<1>5. low = bo * 2097152 + rest
  BY SMT, <1>4
<1>6. low \div 2097152 = bo
  BY SMT, <1>5
<1>7. PICK m \in Int : m = hi * 16384
  BY SMT
<1>8. low = 4 * m + c
  BY SMT, <1>2, <1>7
<1>9. low % 4 = c % 4 /\ low % 2 = c % 2
  BY SMT, <1>8
<1>10. low \div 2 = 2 * m + (c \div 2)
  BY SMT, <1>8
<1>11. (low \div 2) % 2 = (c \div 2) % 2
  BY SMT, <1>10
<1>12. bo % 32 = bo /\ hi % 32 = bi
  BY SMT, <1>1
<1>13. (low \div 2097152) % 32 = bo
  BY SMT, <1>6, <1>12
<1>14. (low \div 65536) % 32 = bi
  BY SMT, <1>3, <1>12
<1> QED
  BY SMT, <1>3, <1>9, <1>11, <1>13, <1>14

\* A 16-bit field without its two flag bits is a multiple of 4.
LEMMA RoundedDown ==
  ASSUME NEW c \in Nat, c < 65536
  PROVE  /\ (c - (c % 4)) % 4 = 0
         /\ c - (c % 4) >= 0 /\ c - (c % 4) <= 65532
BY SMT

\* The fields of any word are in the range of their kind.
LEMMA FieldRanges ==
  ASSUME NEW low \in Nat, low < 67108864
  PROVE  /\ low % 2 \in Flag
         /\ LIRange(SignExtend(low - (low % 4), 67108864))
         /\ BDRange(SignExtend((low % 65536) - (low % 4), 65536))
         /\ (low \div 2097152) % 32 \in Five
         /\ (low \div 65536) % 32 \in Five
<1>1. low % 2 \in Flag
  BY SMT
<1>2. (low \div 2097152) % 32 \in Five /\ (low \div 65536) % 32 \in Five
  BY SMT
<1>3. PICK f \in Int : f = low - (low % 4)
  BY SMT
<1>4. f % 4 = 0 /\ f >= 0 /\ f <= 67108860
  BY SMT, <1>3
<1>5. LIRange(SignExtend(f, 67108864))
  BY SMT, <1>4 DEF LIRange, SignExtend
<1>6. PICK c \in Nat : c = low % 65536 /\ c < 65536
  BY SMT
<1>7. low % 4 = c % 4
  <2>1. PICK q \in Int : low = 65536 * q + c
    BY SMT, <1>6
  <2> QED
    BY SMT, <2>1
<1>8. PICK g \in Int : g = c - (c % 4)
  BY SMT
<1>9. g % 4 = 0 /\ g >= 0 /\ g <= 65532
  BY SMT, <1>6, <1>8, RoundedDown
<1>10. BDRange(SignExtend(g, 65536))
  BY SMT, <1>9 DEF BDRange, SignExtend
<1> QED
  BY SMT, <1>1, <1>2, <1>3, <1>5, <1>6, <1>7, <1>8, <1>10

\* The same for a conditional branch, with its BO and BI fields.
LEMMA ClassifyEncodeBranchConditional ==
  ASSUME NEW d, BDRange(d), NEW lk \in Flag, NEW bo \in Five, NEW bi \in Five
  PROVE  /\ encodeBranchConditional(bo, bi, d, 0, lk) # Invalid
         /\ classify(encodeBranchConditional(bo, bi, d, 0, lk)) = RelativeBc(bo, bi, d, lk)
<1> DEFINE c   == (d % 65536) + lk
           low == bo * 2097152 + bi * 65536 + c
<1>0. d \in Int /\ d % 4 = 0 /\ d >= -32768 /\ d <= 32764
  BY SMT DEF BDRange
<1>1. encodeBranchConditional(bo, bi, d, 0, lk) = << 16, low >>
  BY SMT, <1>0 DEF encodeBranchConditional, Form
<1>2. /\ c \in Nat /\ c < 65536
      /\ c % 2 = lk
      /\ (c \div 2) % 2 = 0
      /\ c - (c % 4) = d % 65536
  BY SMT, <1>0
<1>3. SignExtend(d % 65536, 65536) = d
  BY SMT, <1>0 DEF SignExtend
<1> HIDE DEF c
<1>4. low \in Int /\ low = bo * 2097152 + bi * 65536 + c
  BY SMT, <1>2
<1> HIDE DEF low
<1>5. /\ (low \div 2097152) % 32 = bo /\ (low \div 65536) % 32 = bi
      /\ low % 65536 = c /\ low % 4 = c % 4 /\ low % 2 = c % 2
      /\ (low \div 2) % 2 = (c \div 2) % 2
  BY ONLY SMT, <1>2, <1>4, BFormFields, bo \in Five, bi \in Five
<1>6. classify(<< 16, low >>) =
        Direct(low, 1, (low \div 2097152) % 32, (low \div 65536) % 32,
               SignExtend((low % 65536) - (low % 4), 65536))
  BY SMT DEF classify
<1>7. Direct(low, 1, bo, bi, d) = RelativeBc(bo, bi, d, lk)
  BY SMT, <1>2, <1>5 DEF Direct, RelativeBc
<1>8. encodeBranchConditional(bo, bi, d, 0, lk) # Invalid
  BY SMT, <1>1 DEF Invalid
<1> QED
  BY SMT, <1>1, <1>2, <1>3, <1>4, <1>5, <1>6, <1>7, <1>8

\* A word classified DirectRelative is one of the two, with fields in range.
LEMMA RelativeIsBOrBc ==
  ASSUME NEW w \in Word, classify(w).kind = "DirectRelative"
  PROVE  \/ \E d \in Int, lk \in Flag : LIRange(d) /\ classify(w) = RelativeB(d, lk)
         \/ \E d \in Int, lk \in Flag, bo \in Five, bi \in Five :
               BDRange(d) /\ classify(w) = RelativeBc(bo, bi, d, lk)
<1>1. PICK op \in Nat, low \in Nat : w = << op, low >> /\ low < 67108864
  BY SMT DEF Word
<1> DEFINE lk   == low % 2
           li   == SignExtend(low - (low % 4), 67108864)
           bd   == SignExtend((low % 65536) - (low % 4), 65536)
           bo   == (low \div 2097152) % 32
           bi   == (low \div 65536) % 32
<1>2. lk \in Flag /\ LIRange(li) /\ BDRange(bd) /\ bo \in Five /\ bi \in Five
  BY SMT, <1>1, FieldRanges
<1>3. li \in Int /\ bd \in Int
  BY SMT, <1>2 DEF LIRange, BDRange
<1>4. CASE op = 18
  <2>1. classify(<< 18, low >>) = Direct(low, 0, 0, 0, li)
    BY SMT DEF classify
  <2> HIDE DEF li, bd, bo, bi
  <2>2. Direct(low, 0, 0, 0, li).kind = "DirectRelative"
    BY SMT, <1>1, <1>4, <2>1
  <2>3. Direct(low, 0, 0, 0, li) = RelativeB(li, lk)
    <3>1. CASE (low \div 2) % 2 = 1
      <4>1. Direct(low, 0, 0, 0, li) = DecodedBranch("DirectAbsolute", lk, 0, 0, 0, 0, li % AddrMod)
        BY SMT, <3>1 DEF Direct
      <4>2. Direct(low, 0, 0, 0, li).kind = "DirectAbsolute"
        BY ONLY SMT, <4>1 DEF DecodedBranch
      <4> QED
        BY SMT, <2>2, <4>2
    <3>2. CASE (low \div 2) % 2 # 1
      BY SMT, <3>2 DEF Direct, RelativeB
    <3> QED
      BY SMT, <3>1, <3>2
  <2>4. classify(w) = RelativeB(li, lk)
    BY SMT, <1>1, <1>4, <2>1, <2>3
  <2> HIDE DEF lk
  <2> QED
    BY ONLY SMT, <1>2, <1>3, <2>4
<1>5. CASE op = 16
  <2>1. classify(<< 16, low >>) = Direct(low, 1, bo, bi, bd)
    BY SMT DEF classify
  <2> HIDE DEF li, bd, bo, bi
  <2>2. Direct(low, 1, bo, bi, bd).kind = "DirectRelative"
    BY SMT, <1>1, <1>5, <2>1
  <2>3. Direct(low, 1, bo, bi, bd) = RelativeBc(bo, bi, bd, lk)
    <3>1. CASE (low \div 2) % 2 = 1
      <4>1. Direct(low, 1, bo, bi, bd) = DecodedBranch("DirectAbsolute", lk, 1, bo, bi, 0, bd % AddrMod)
        BY SMT, <3>1 DEF Direct
      <4>2. Direct(low, 1, bo, bi, bd).kind = "DirectAbsolute"
        BY ONLY SMT, <4>1 DEF DecodedBranch
      <4> QED
        BY SMT, <2>2, <4>2
    <3>2. CASE (low \div 2) % 2 # 1
      BY SMT, <3>2 DEF Direct, RelativeBc
    <3> QED
      BY SMT, <3>1, <3>2
  <2>4. classify(w) = RelativeBc(bo, bi, bd, lk)
    BY SMT, <1>1, <1>5, <2>1, <2>3
  <2> HIDE DEF lk
  <2> QED
    BY ONLY SMT, <1>2, <1>3, <2>4
<1>6. CASE op \notin {16, 18}
  <2>1. \/ classify(<< op, low >>) = DecodedBranch("ToLinkRegister", low % 2, 0, 0, 0, 0, 0)
        \/ classify(<< op, low >>) = DecodedBranch("ToCountRegister", low % 2, 0, 0, 0, 0, 0)
        \/ classify(<< op, low >>) = DecodedBranch("NotABranch", 0, 0, 0, 0, 0, 0)
    BY SMT, <1>6 DEF classify
  <2>2. classify(w).kind # "DirectRelative"
    BY SMT, <1>1, <2>1 DEF DecodedBranch
  <2> QED
    BY SMT, <2>2
<1> QED
  BY SMT, <1>4, <1>5, <1>6

\* The new displacement of a branch moved from o to n.
Relocated(d, o, n) == ((o + d) % AddrMod) - n

\* It is an integer, whatever the addresses.
LEMMA RelocatedType ==
  ASSUME NEW o \in Address, NEW n \in Address, NEW d \in Int
  PROVE  Relocated(d, o, n) \in Int
<1>1. AddrMod \in Nat /\ AddrMod > 0
  BY SMT, AddrModFacts
<1>2. (o + d) % AddrMod \in Int
  BY SMT, <1>1 DEF Address
<1> QED
  BY SMT, <1>2 DEF Address, Relocated

\* n plus the new displacement is the original target.
LEMMA SameTarget ==
  ASSUME NEW o \in Address, NEW n \in Address, NEW d \in Int,
         NEW e \in Int, e = ((o + d) % AddrMod) - n
  PROVE  (n + e) % AddrMod = (o + d) % AddrMod
<1>1. AddrMod \in Nat /\ AddrMod > 0
  BY SMT, AddrModFacts
<1>2. PICK t \in Int : t = (o + d) % AddrMod /\ t >= 0 /\ t < AddrMod
  BY SMT, <1>1 DEF Address
<1>3. n + e = t
  BY SMT, <1>2 DEF Address
<1>4. t % AddrMod = t
  BY SMT, <1>1, <1>2
<1> QED
  BY SMT, <1>2, <1>3, <1>4

\* Relocating a relative branch of either form, wherever it was and wherever it
\* goes (decode.hpp:129-148): if relocateBranch returns a word, that word is a
\* relative branch of the same form with the same condition and link bit, and
\* at its new address it branches to the address the original branched to.
THEOREM RelocationKeepsTarget ==
  ASSUME NEW w \in Word, classify(w).kind = "DirectRelative",
         NEW o \in Address, NEW n \in Address,
         relocateBranch(classify(w), o, n) # Invalid
  PROVE  LET was == classify(w)
             now == classify(relocateBranch(was, o, n))
         IN  /\ now.kind = "DirectRelative"
             /\ now.isConditionalForm = was.isConditionalForm
             /\ now.link = was.link /\ now.bo = was.bo /\ now.bi = was.bi
             /\ (n + now.displacement) % AddrMod = (o + was.displacement) % AddrMod
<1>1. CASE \E d \in Int, lk \in Flag : LIRange(d) /\ classify(w) = RelativeB(d, lk)
  <2>1. PICK d \in Int, lk \in Flag : LIRange(d) /\ classify(w) = RelativeB(d, lk)
    BY SMT, <1>1
  <2>2. PICK e \in Int : e = Relocated(d, o, n)
    BY SMT, RelocatedType
  <2>3. relocateBranch(RelativeB(d, lk), o, n) \in {Invalid, encodeBranch(e, 0, lk)}
    BY SMT, <2>2 DEF relocateBranch, RelativeB, DecodedBranch, Relocated
  <2>4. relocateBranch(RelativeB(d, lk), o, n) = encodeBranch(e, 0, lk)
    BY SMT, <2>1, <2>3
  <2>5. LIRange(e)
    <3>1. encodeBranch(e, 0, lk) # Invalid
      BY SMT, <2>1, <2>4
    <3> QED
      BY SMT, <3>1 DEF encodeBranch, LIRange
  <2>6. classify(encodeBranch(e, 0, lk)) = RelativeB(e, lk)
    BY SMT, <2>5, ClassifyEncodeBranch
  <2>7. (n + e) % AddrMod = (o + d) % AddrMod
    BY SMT, <2>2, SameTarget DEF Relocated
  <2> QED
    BY SMT, <2>1, <2>4, <2>6, <2>7 DEF RelativeB, DecodedBranch
<1>2. CASE \E d \in Int, lk \in Flag, bo \in Five, bi \in Five :
             BDRange(d) /\ classify(w) = RelativeBc(bo, bi, d, lk)
  <2>1. PICK d \in Int, lk \in Flag, bo \in Five, bi \in Five :
             BDRange(d) /\ classify(w) = RelativeBc(bo, bi, d, lk)
    BY SMT, <1>2
  <2>2. PICK e \in Int : e = Relocated(d, o, n)
    BY SMT, RelocatedType
  <2>3. relocateBranch(RelativeBc(bo, bi, d, lk), o, n)
           \in {Invalid, encodeBranchConditional(bo, bi, e, 0, lk)}
    BY SMT, <2>2 DEF relocateBranch, RelativeBc, DecodedBranch, Relocated
  <2>4. relocateBranch(RelativeBc(bo, bi, d, lk), o, n) = encodeBranchConditional(bo, bi, e, 0, lk)
    BY SMT, <2>1, <2>3
  <2>5. BDRange(e)
    <3>1. encodeBranchConditional(bo, bi, e, 0, lk) # Invalid
      BY SMT, <2>1, <2>4
    <3> QED
      BY SMT, <3>1 DEF encodeBranchConditional, BDRange
  <2>6. classify(encodeBranchConditional(bo, bi, e, 0, lk)) = RelativeBc(bo, bi, e, lk)
    BY SMT, <2>5, ClassifyEncodeBranchConditional
  <2>7. (n + e) % AddrMod = (o + d) % AddrMod
    BY SMT, <2>2, SameTarget DEF Relocated
  <2> QED
    BY SMT, <2>1, <2>4, <2>6, <2>7 DEF RelativeBc, DecodedBranch
<1> QED
  BY SMT, <1>1, <1>2, RelativeIsBOrBc

-----------------------------------------------------------------------------
(***************************************************************************)
(* Fields of a word.                                                       *)
(***************************************************************************)

\* A word made by Form, cut up the way Decode and classify cut it.
LEMMA FormFields ==
  ASSUME NEW t \in Five, NEW a \in Five, NEW c \in Nat, c < 65536,
         NEW low \in Int, low = t * 2097152 + a * 65536 + c
  PROVE  /\ low \div 2097152 = t /\ (low \div 65536) % 32 = a
         /\ low % 65536 = c /\ low % 4 = c % 4 /\ low % 2 = c % 2
         /\ (low \div 2) % 2 = (c \div 2) % 2
         /\ low % 2048 = c % 2048 /\ (low \div 2048) % 32 = (c \div 2048) % 32
         /\ (low \div 2) % 1024 = (c \div 2) % 1024
         /\ low >= 0 /\ low < 67108864
<1>1. /\ (low \div 2097152) % 32 = t /\ (low \div 65536) % 32 = a
      /\ low % 65536 = c /\ low % 4 = c % 4 /\ low % 2 = c % 2
      /\ (low \div 2) % 2 = (c \div 2) % 2
  BY SMT, BFormFields
<1>2. low >= 0 /\ low < 67108864
  BY SMT
<1>3. low \div 2097152 = t
  BY SMT, <1>1, <1>2
<1>4. PICK h \in Int : low = 2048 * (32 * h) + c
  <2>1. PICK h \in Int : h = t * 32 + a
    BY SMT
  <2> QED
    BY SMT, <2>1
<1>5. low % 2048 = c % 2048 /\ low \div 2048 = 32 * h + (c \div 2048)
  BY SMT, <1>4
<1>6. (low \div 2048) % 32 = (c \div 2048) % 32
  <2>1. PICK q \in Int : q = c \div 2048
    BY SMT
  <2> QED
    BY SMT, <1>5, <2>1
<1>7. (low \div 2) % 1024 = (c \div 2) % 1024
  <2>1. PICK q \in Int : q = c \div 2
    BY SMT
  <2>2. low \div 2 = 1024 * (32 * h) + q
    BY SMT, <1>4, <2>1
  <2> QED
    BY SMT, <2>2, <2>1
<1> QED
  BY <1>1, <1>2, <1>3, <1>5, <1>6, <1>7

-----------------------------------------------------------------------------
(***************************************************************************)
(* Every encoder writes the word that Decode reads back.                   *)
(***************************************************************************)

\* Form puts fields that fit side by side.
LEMMA FormWord ==
  ASSUME NEW t \in Five, NEW a \in Five, NEW c \in Nat, c < 65536,
         NEW low \in Int, low = t * 2097152 + a * 65536 + c
  PROVE  \A opcd : Form(opcd, t, a, c) = << opcd, low >>
<1>1. t % 32 = t /\ a % 32 = a
  BY SMT
<1> QED
  BY SMT, <1>1 DEF Form

\* A 16-bit field holds a signed number and gives it back.
LEMMA SignedField ==
  ASSUME NEW n \in Int, n >= -32768, n <= 32767
  PROVE  n % 65536 \in Nat /\ n % 65536 < 65536 /\ Signed16(n % 65536) = n
BY SMT DEF Signed16

\* addi and addis, with their signed immediate.
LEMMA EncodedImmediate ==
  ASSUME NEW t \in Five, NEW a \in Five, NEW n \in Int, n >= -32768, n <= 32767
  PROVE  /\ encodeAddi(t, a, n) \in Word /\ encodeAddi(t, a, n) # Invalid
         /\ Decode(encodeAddi(t, a, n)) = [op |-> "addi", t |-> t, a |-> a, imm |-> n]
         /\ encodeAddis(t, a, n) \in Word /\ encodeAddis(t, a, n) # Invalid
         /\ Decode(encodeAddis(t, a, n)) = [op |-> "addis", t |-> t, a |-> a, imm |-> n]
<1>1. PICK c \in Nat : c = n % 65536 /\ c < 65536 /\ Signed16(c) = n
  BY SignedField
<1>2. PICK low \in Int : low = t * 2097152 + a * 65536 + c
  BY SMT
<1>3. /\ low \div 2097152 = t /\ (low \div 65536) % 32 = a /\ low % 65536 = c
      /\ low >= 0 /\ low < 67108864
  BY <1>1, <1>2, FormFields
<1>4. encodeAddi(t, a, n) = << 14, low >> /\ encodeAddis(t, a, n) = << 15, low >>
  BY <1>1, <1>2, FormWord DEF encodeAddi, encodeAddis
<1>5. /\ << 14, low >> \in Word /\ << 14, low >> # Invalid
      /\ << 15, low >> \in Word /\ << 15, low >> # Invalid
  BY ONLY SMT, <1>3, low \in Int DEF Word, Invalid
<1>6. Decode(<< 14, low >>) = [op |-> "addi", t |-> t, a |-> a, imm |-> n]
  BY ONLY SMT, <1>1, <1>3, low \in Int DEF Decode
<1>7. Decode(<< 15, low >>) = [op |-> "addis", t |-> t, a |-> a, imm |-> n]
  BY ONLY SMT, <1>1, <1>3, low \in Int DEF Decode
<1> QED
  BY ONLY <1>4, <1>5, <1>6, <1>7

\* ori: the source register comes first in the word.
LEMMA EncodedOri ==
  ASSUME NEW t \in Five, NEW a \in Five, NEW n \in Nat, n < 65536
  PROVE  /\ encodeOri(t, a, n) \in Word /\ encodeOri(t, a, n) # Invalid
         /\ Decode(encodeOri(t, a, n)) = [op |-> "ori", t |-> t, a |-> a, imm |-> n]
<1>1. n % 65536 = n
  BY SMT
<1>2. PICK low \in Int : low = a * 2097152 + t * 65536 + n
  BY SMT
<1>3. /\ low \div 2097152 = a /\ (low \div 65536) % 32 = t /\ low % 65536 = n
      /\ low >= 0 /\ low < 67108864
  BY <1>2, FormFields
<1>4. encodeOri(t, a, n) = << 24, low >>
  BY <1>1, <1>2, FormWord DEF encodeOri
<1>5. << 24, low >> \in Word /\ << 24, low >> # Invalid
  BY ONLY SMT, <1>3, low \in Int DEF Word, Invalid
<1>6. Decode(<< 24, low >>) = [op |-> "ori", t |-> t, a |-> a, imm |-> n]
  BY ONLY SMT, <1>3, low \in Int DEF Decode
<1> QED
  BY ONLY <1>4, <1>5, <1>6

\* mtspr and mfspr: encodeSprField swaps the halves that Decode swaps back.
LEMMA EncodedSpr ==
  ASSUME NEW t \in Five, NEW spr \in Nat, spr < 1024
  PROVE  /\ encodeMtspr(t, spr) \in Word /\ encodeMtspr(t, spr) # Invalid
         /\ Decode(encodeMtspr(t, spr)) = [op |-> "mtspr", t |-> t, spr |-> spr]
         /\ encodeMfspr(t, spr) \in Word /\ encodeMfspr(t, spr) # Invalid
         /\ Decode(encodeMfspr(t, spr)) = [op |-> "mfspr", t |-> t, spr |-> spr]
<1>1. PICK a \in Five, h \in Five : a = spr % 32 /\ h = spr \div 32 /\ spr = h * 32 + a
  BY SMT
<1>2. encodeSprField(spr) = a * 32 + h /\ t % 32 = t
  <2>1. h % 32 = h /\ t % 32 = t
    BY SMT
  <2>2. encodeSprField(spr) = (spr % 32) * 32 + ((spr \div 32) % 32)
    BY ONLY SMT DEF encodeSprField
  <2>3. spr % 32 = a /\ (spr \div 32) % 32 = h
    BY ONLY SMT, <1>1, <2>1
  <2> QED
    BY ONLY SMT, <2>1, <2>2, <2>3
<1>3. ASSUME NEW x \in Nat, x < 2048
      PROVE  \E low \in Int : /\ low = t * 2097152 + (a * 32 + h) * 2048 + x
                              /\ low \div 2097152 = t /\ (low \div 65536) % 32 = a
                              /\ low % 2048 = x /\ (low \div 2048) % 32 = h
                              /\ low >= 0 /\ low < 67108864
  <2>1. PICK c \in Nat : c = h * 2048 + x /\ c < 65536
    BY SMT, <1>3
  <2>2. c % 2048 = x /\ (c \div 2048) % 32 = h
    BY SMT, <2>1, <1>3
  <2>3. PICK low \in Int : low = t * 2097152 + a * 65536 + c
    BY SMT
  <2>4. low = t * 2097152 + (a * 32 + h) * 2048 + x
    BY SMT, <2>1, <2>3
  <2>5. /\ low \div 2097152 = t /\ (low \div 65536) % 32 = a
        /\ low % 2048 = c % 2048 /\ (low \div 2048) % 32 = (c \div 2048) % 32
        /\ low >= 0 /\ low < 67108864
    BY SMT, <2>1, <2>3, FormFields
  <2> QED
    BY SMT, <2>2, <2>4, <2>5
<1>4. /\ encodeMtspr(t, spr) \in Word /\ encodeMtspr(t, spr) # Invalid
      /\ Decode(encodeMtspr(t, spr)) = [op |-> "mtspr", t |-> t, spr |-> spr]
  <2>1. PICK low \in Int : /\ low = t * 2097152 + (a * 32 + h) * 2048 + 934
                           /\ low \div 2097152 = t /\ (low \div 65536) % 32 = a
                           /\ low % 2048 = 934 /\ (low \div 2048) % 32 = h
                           /\ low >= 0 /\ low < 67108864
    BY SMT, <1>3
  <2>2. encodeMtspr(t, spr) = << 31, low >>
    BY SMT, <1>2, <2>1 DEF encodeMtspr
  <2>3. << 31, low >> \in Word /\ << 31, low >> # Invalid
    BY ONLY SMT, <2>1, low \in Int DEF Word, Invalid
  <2>4. Decode(<< 31, low >>) = [op |-> "mtspr", t |-> t, spr |-> spr]
    BY ONLY SMT, <1>1, <2>1, low \in Int DEF Decode
  <2> QED
    BY ONLY <2>2, <2>3, <2>4
<1>5. /\ encodeMfspr(t, spr) \in Word /\ encodeMfspr(t, spr) # Invalid
      /\ Decode(encodeMfspr(t, spr)) = [op |-> "mfspr", t |-> t, spr |-> spr]
  <2>1. PICK low \in Int : /\ low = t * 2097152 + (a * 32 + h) * 2048 + 678
                           /\ low \div 2097152 = t /\ (low \div 65536) % 32 = a
                           /\ low % 2048 = 678 /\ (low \div 2048) % 32 = h
                           /\ low >= 0 /\ low < 67108864
    BY SMT, <1>3
  <2>2. encodeMfspr(t, spr) = << 31, low >>
    BY SMT, <1>2, <2>1 DEF encodeMfspr
  <2>3. << 31, low >> \in Word /\ << 31, low >> # Invalid
    BY ONLY SMT, <2>1, low \in Int DEF Word, Invalid
  <2>4. Decode(<< 31, low >>) = [op |-> "mfspr", t |-> t, spr |-> spr]
    BY ONLY SMT, <1>1, <2>1, low \in Int DEF Decode
  <2> QED
    BY ONLY <2>2, <2>3, <2>4
<1> QED
  BY <1>4, <1>5

\* The bits of MB come back in another order: the most significant one last.
Rotated(mb) == (mb % 2) * 32 + (mb \div 2)

\* rldicl: everything but MB comes back as it was.
LEMMA EncodedRldicl ==
  ASSUME NEW t \in Five, NEW a \in Five, NEW sh \in Nat, sh < 64, NEW mb \in Nat, mb < 64,
         NEW rc \in Flag
  PROVE  /\ encodeRldicl(t, a, sh, mb, rc) \in Word /\ encodeRldicl(t, a, sh, mb, rc) # Invalid
         /\ Decode(encodeRldicl(t, a, sh, mb, rc)) =
              [op |-> "rldicl", t |-> t, a |-> a, sh |-> sh, mb |-> Rotated(mb), rc |-> rc]
<1>1. PICK s \in Five, k \in Flag : s = sh % 32 /\ k = (sh \div 32) % 2 /\ sh = k * 32 + s
  BY SMT
<1>2. PICK c \in Nat : c = s * 2048 + mb * 32 + k * 2 + rc /\ c < 65536
  BY SMT
<1>3. mb % 64 = mb
  BY SMT
<1>4. /\ c % 2 = rc /\ (c \div 2) % 2 = k /\ (c \div 4) % 8 = 0
  <2>1. PICK m \in Int : m = s * 64 + mb
    BY SMT
  <2>2. c = 32 * m + 2 * k + rc
    BY SMT, <1>2, <2>1
  <2> QED
    BY SMT, <2>2
<1>5. (c \div 32) % 64 = mb /\ c \div 2048 = s
  <2>1. PICK x \in Nat : x = 2 * k + rc /\ x < 4
    BY SMT
  <2>2. c = 32 * (s * 64 + mb) + x
    BY SMT, <1>2, <2>1
  <2>3. c \div 32 = s * 64 + mb
    BY SMT, <2>1, <2>2
  <2>4. c \div 2048 = s
    BY SMT, <1>2
  <2> QED
    BY SMT, <2>3, <2>4
<1>6. PICK low \in Int : low = a * 2097152 + t * 65536 + c
  BY SMT
<1>7. /\ low \div 2097152 = a /\ (low \div 65536) % 32 = t /\ low % 65536 = c
      /\ low % 2 = rc /\ low >= 0 /\ low < 67108864
  BY SMT, <1>2, <1>4, <1>6, FormFields
<1>8. encodeRldicl(t, a, sh, mb, rc) = << 30, low >>
  <2>1. encodeRldicl(t, a, sh, mb, rc) = Form(30, a, t, c)
    BY SMT, <1>1, <1>2, <1>3 DEF encodeRldicl
  <2> QED
    BY SMT, <1>2, <1>6, <2>1, FormWord
<1>9. << 30, low >> \in Word /\ << 30, low >> # Invalid
  BY ONLY SMT, <1>7, low \in Int DEF Word, Invalid
<1>10. Decode(<< 30, low >>) =
         [op |-> "rldicl", t |-> t, a |-> a, sh |-> sh, mb |-> Rotated(mb), rc |-> rc]
  BY ONLY SMT, <1>1, <1>4, <1>5, <1>7, low \in Int DEF Decode, Rotated
<1> QED
  BY ONLY <1>8, <1>9, <1>10

\* The DS-form: the two low bits of the displacement hold the extended opcode.
LEMMA EncodedStdForm ==
  ASSUME NEW t \in Five, NEW a \in Five, NEW d \in Int, NEW xo \in Flag
  PROVE  \A opcd :
           \/ ~ BDRange(d) /\ encodeStdForm(opcd, xo, t, a, d) = Invalid
           \/ BDRange(d) /\ \E low \in Int :
                /\ encodeStdForm(opcd, xo, t, a, d) = << opcd, low >>
                /\ low \div 2097152 = t /\ (low \div 65536) % 32 = a
                /\ (low % 65536) % 4 = xo /\ Signed16((low % 65536) - xo) = d
                /\ low >= 0 /\ low < 67108864
<1> SUFFICES ASSUME NEW opcd
             PROVE  \/ ~ BDRange(d) /\ encodeStdForm(opcd, xo, t, a, d) = Invalid
                    \/ BDRange(d) /\ \E low \in Int :
                         /\ encodeStdForm(opcd, xo, t, a, d) = << opcd, low >>
                         /\ low \div 2097152 = t /\ (low \div 65536) % 32 = a
                         /\ (low % 65536) % 4 = xo /\ Signed16((low % 65536) - xo) = d
                         /\ low >= 0 /\ low < 67108864
  OBVIOUS
<1>1. CASE ~ BDRange(d)
  BY SMT, <1>1 DEF BDRange, encodeStdForm
<1>2. CASE BDRange(d)
  <2>1. d % 4 = 0 /\ d >= -32768 /\ d <= 32764
    BY SMT, <1>2 DEF BDRange
  <2>2. PICK q \in Int : d = 4 * q /\ q = d \div 4 /\ q >= -8192 /\ q <= 8191
    BY SMT, <2>1
  <2>3. PICK p \in Nat : p = q % 16384 /\ p < 16384 /\ p = IF q < 0 THEN q + 16384 ELSE q
    BY SMT, <2>2
  <2>4. PICK c \in Nat : c = p * 4 + xo /\ c < 65536
    BY SMT, <2>3
  <2>5. c % 4 = xo /\ Signed16(c - xo) = d
    BY SMT, <2>2, <2>3, <2>4 DEF Signed16
  <2>6. PICK low \in Int : low = t * 2097152 + a * 65536 + c
    BY SMT
  <2>7. /\ low \div 2097152 = t /\ (low \div 65536) % 32 = a /\ low % 65536 = c
        /\ low >= 0 /\ low < 67108864
    BY SMT, <2>4, <2>6, FormFields
  <2>8. encodeStdForm(opcd, xo, t, a, d) = Form(opcd, t, a, c)
    <3>1. xo % 4 = xo /\ ((d \div 4) % 16384) * 4 + (xo % 4) = c
      BY ONLY SMT, <2>2, <2>3, <2>4, xo \in Flag
    <3>2. encodeStdForm(opcd, xo, t, a, d) = Form(opcd, t, a, ((d \div 4) % 16384) * 4 + (xo % 4))
      BY SMT, <2>1 DEF encodeStdForm
    <3> QED
      BY SMT, <3>1, <3>2
  <2>9. encodeStdForm(opcd, xo, t, a, d) = << opcd, low >>
    BY SMT, <2>4, <2>6, <2>8, FormWord
  <2> QED
    BY ONLY SMT, <1>2, <2>5, <2>7, <2>9, low \in Int
<1> QED
  BY <1>1, <1>2

\* The four loads and stores, and when they throw.
LEMMA EncodedStorage ==
  ASSUME NEW t \in Five, NEW a \in Five, NEW d \in Int
  PROVE  /\ ~ BDRange(d) => /\ encodeStd(t, a, d) = Invalid /\ encodeStdu(t, a, d) = Invalid
                            /\ encodeLd(t, a, d) = Invalid /\ encodeLdu(t, a, d) = Invalid
         /\ BDRange(d) =>
              /\ encodeStd(t, a, d) \in Word /\ encodeStd(t, a, d) # Invalid
              /\ Decode(encodeStd(t, a, d)) = [op |-> "std", t |-> t, a |-> a, imm |-> d]
              /\ encodeStdu(t, a, d) \in Word /\ encodeStdu(t, a, d) # Invalid
              /\ Decode(encodeStdu(t, a, d)) = [op |-> "stdu", t |-> t, a |-> a, imm |-> d]
              /\ encodeLd(t, a, d) \in Word /\ encodeLd(t, a, d) # Invalid
              /\ Decode(encodeLd(t, a, d)) = [op |-> "ld", t |-> t, a |-> a, imm |-> d]
              /\ encodeLdu(t, a, d) \in Word /\ encodeLdu(t, a, d) # Invalid
              /\ Decode(encodeLdu(t, a, d)) = [op |-> "ldu", t |-> t, a |-> a, imm |-> d]
<1>1. 0 \in Flag /\ 1 \in Flag
  BY SMT
<1>2. CASE ~ BDRange(d)
  <2>1. \A opcd : encodeStdForm(opcd, 0, t, a, d) = Invalid /\ encodeStdForm(opcd, 1, t, a, d) = Invalid
    BY SMT, <1>1, <1>2, EncodedStdForm
  <2> QED
    BY <1>2, <2>1 DEF encodeStd, encodeStdu, encodeLd, encodeLdu
<1>3. CASE BDRange(d)
  <2>1. ASSUME NEW xo \in Flag, NEW opcd
        PROVE  \E low \in Int :
                /\ encodeStdForm(opcd, xo, t, a, d) = << opcd, low >>
                /\ low \div 2097152 = t /\ (low \div 65536) % 32 = a
                /\ (low % 65536) % 4 = xo /\ Signed16((low % 65536) - xo) = d
                /\ low >= 0 /\ low < 67108864
    BY SMT, <1>3, EncodedStdForm
  <2>2. /\ encodeStd(t, a, d) \in Word /\ encodeStd(t, a, d) # Invalid
        /\ Decode(encodeStd(t, a, d)) = [op |-> "std", t |-> t, a |-> a, imm |-> d]
    <3>1. PICK low \in Int :
                /\ encodeStdForm(62, 0, t, a, d) = << 62, low >>
                /\ low \div 2097152 = t /\ (low \div 65536) % 32 = a
                /\ (low % 65536) % 4 = 0 /\ Signed16((low % 65536) - 0) = d
                /\ low >= 0 /\ low < 67108864
      BY SMT, <1>1, <2>1
    <3>2. << 62, low >> \in Word /\ << 62, low >> # Invalid
      BY ONLY SMT, <3>1, low \in Int DEF Word, Invalid
    <3>3. (low % 65536) - 0 = low % 65536
      BY ONLY SMT, low \in Int
    <3>4. Decode(<< 62, low >>) = [op |-> "std", t |-> t, a |-> a, imm |-> d]
      BY ONLY SMT, <3>1, <3>3, low \in Int DEF Decode
    <3> QED
      BY ONLY <3>1, <3>2, <3>4 DEF encodeStd
  <2>3. /\ encodeStdu(t, a, d) \in Word /\ encodeStdu(t, a, d) # Invalid
        /\ Decode(encodeStdu(t, a, d)) = [op |-> "stdu", t |-> t, a |-> a, imm |-> d]
    <3>1. PICK low \in Int :
                /\ encodeStdForm(62, 1, t, a, d) = << 62, low >>
                /\ low \div 2097152 = t /\ (low \div 65536) % 32 = a
                /\ (low % 65536) % 4 = 1 /\ Signed16((low % 65536) - 1) = d
                /\ low >= 0 /\ low < 67108864
      BY SMT, <1>1, <2>1
    <3>2. << 62, low >> \in Word /\ << 62, low >> # Invalid
      BY ONLY SMT, <3>1, low \in Int DEF Word, Invalid
    <3>4. Decode(<< 62, low >>) = [op |-> "stdu", t |-> t, a |-> a, imm |-> d]
      BY ONLY SMT, <3>1, low \in Int DEF Decode
    <3> QED
      BY ONLY <3>1, <3>2, <3>4 DEF encodeStdu
  <2>4. /\ encodeLd(t, a, d) \in Word /\ encodeLd(t, a, d) # Invalid
        /\ Decode(encodeLd(t, a, d)) = [op |-> "ld", t |-> t, a |-> a, imm |-> d]
    <3>1. PICK low \in Int :
                /\ encodeStdForm(58, 0, t, a, d) = << 58, low >>
                /\ low \div 2097152 = t /\ (low \div 65536) % 32 = a
                /\ (low % 65536) % 4 = 0 /\ Signed16((low % 65536) - 0) = d
                /\ low >= 0 /\ low < 67108864
      BY SMT, <1>1, <2>1
    <3>2. << 58, low >> \in Word /\ << 58, low >> # Invalid
      BY ONLY SMT, <3>1, low \in Int DEF Word, Invalid
    <3>3. (low % 65536) - 0 = low % 65536
      BY ONLY SMT, low \in Int
    <3>4. Decode(<< 58, low >>) = [op |-> "ld", t |-> t, a |-> a, imm |-> d]
      BY ONLY SMT, <3>1, <3>3, low \in Int DEF Decode
    <3> QED
      BY ONLY <3>1, <3>2, <3>4 DEF encodeLd
  <2>5. /\ encodeLdu(t, a, d) \in Word /\ encodeLdu(t, a, d) # Invalid
        /\ Decode(encodeLdu(t, a, d)) = [op |-> "ldu", t |-> t, a |-> a, imm |-> d]
    <3>1. PICK low \in Int :
                /\ encodeStdForm(58, 1, t, a, d) = << 58, low >>
                /\ low \div 2097152 = t /\ (low \div 65536) % 32 = a
                /\ (low % 65536) % 4 = 1 /\ Signed16((low % 65536) - 1) = d
                /\ low >= 0 /\ low < 67108864
      BY SMT, <1>1, <2>1
    <3>2. << 58, low >> \in Word /\ << 58, low >> # Invalid
      BY ONLY SMT, <3>1, low \in Int DEF Word, Invalid
    <3>4. Decode(<< 58, low >>) = [op |-> "ldu", t |-> t, a |-> a, imm |-> d]
      BY ONLY SMT, <3>1, low \in Int DEF Decode
    <3> QED
      BY ONLY <3>1, <3>2, <3>4 DEF encodeLdu
  <2> QED
    BY <1>3, <2>2, <2>3, <2>4, <2>5
<1> QED
  BY <1>2, <1>3

\* The I-form, with either value of the AA bit.
LEMMA EncodedBranch ==
  ASSUME NEW d \in Int, NEW aa \in Flag, NEW lk \in Flag
  PROVE  /\ ~ LIRange(d) => encodeBranch(d, aa, lk) = Invalid
         /\ LIRange(d) =>
              /\ encodeBranch(d, aa, lk) \in Word /\ encodeBranch(d, aa, lk) # Invalid
              /\ Decode(encodeBranch(d, aa, lk)) = [op |-> "b", imm |-> d, aa |-> aa, lk |-> lk]
<1>1. CASE ~ LIRange(d)
  BY SMT, <1>1 DEF LIRange, encodeBranch
<1>2. CASE LIRange(d)
  <2>1. d % 4 = 0 /\ d >= -33554432 /\ d <= 33554428
    BY SMT, <1>2 DEF LIRange
  <2>2. PICK f \in Nat : /\ f = d % 67108864 /\ f % 4 = 0 /\ f <= 67108860
                         /\ d = IF f >= 33554432 THEN f - 67108864 ELSE f
    BY SMT, <2>1
  <2>3. PICK low \in Int : low = f + 2 * aa + lk
    BY SMT
  <2>4. /\ low >= 0 /\ low < 67108864 /\ low % 4 = 2 * aa + lk
        /\ low % 2 = lk /\ (low \div 2) % 2 = aa
    BY SMT, <2>2, <2>3
  <2>5. low - (low % 4) = f
    BY SMT, <2>3, <2>4
  <2>6. encodeBranch(d, aa, lk) = << 18, low >>
    BY SMT, <2>1, <2>2, <2>3 DEF encodeBranch
  <2>7. << 18, low >> \in Word /\ << 18, low >> # Invalid
    BY ONLY SMT, <2>4, low \in Int DEF Word, Invalid
  <2>8. Decode(<< 18, low >>) = [op |-> "b", imm |-> d, aa |-> aa, lk |-> lk]
    BY ONLY SMT, <2>2, <2>4, <2>5, low \in Int DEF Decode
  <2> QED
    BY ONLY <1>2, <2>6, <2>7, <2>8
<1> QED
  BY <1>1, <1>2

\* The B-form.
LEMMA EncodedBranchConditional ==
  ASSUME NEW bo \in Five, NEW bi \in Five, NEW d \in Int, NEW aa \in Flag, NEW lk \in Flag
  PROVE  /\ ~ BDRange(d) => encodeBranchConditional(bo, bi, d, aa, lk) = Invalid
         /\ BDRange(d) =>
              /\ encodeBranchConditional(bo, bi, d, aa, lk) \in Word
              /\ encodeBranchConditional(bo, bi, d, aa, lk) # Invalid
              /\ Decode(encodeBranchConditional(bo, bi, d, aa, lk)) =
                   [op |-> "bc", bo |-> bo, bi |-> bi, imm |-> d, aa |-> aa, lk |-> lk]
<1>1. CASE ~ BDRange(d)
  BY SMT, <1>1 DEF BDRange, encodeBranchConditional
<1>2. CASE BDRange(d)
  <2>1. d % 4 = 0 /\ d >= -32768 /\ d <= 32764
    BY SMT, <1>2 DEF BDRange
  <2>2. PICK f \in Nat : f = d % 65536 /\ f % 4 = 0 /\ f <= 65532 /\ Signed16(f) = d
    BY SMT, <2>1 DEF Signed16
  <2>3. PICK c \in Nat : c = f + 2 * aa + lk /\ c < 65536
    BY SMT, <2>2
  <2>4. c % 4 = 2 * aa + lk /\ c % 2 = lk /\ (c \div 2) % 2 = aa
    BY SMT, <2>2, <2>3
  <2>5. c - (c % 4) = f
    BY SMT, <2>3, <2>4
  <2>6. PICK low \in Int : low = bo * 2097152 + bi * 65536 + c
    BY SMT
  <2>7. /\ low \div 2097152 = bo /\ (low \div 65536) % 32 = bi /\ low % 65536 = c
        /\ low % 2 = lk /\ (low \div 2) % 2 = aa
        /\ low >= 0 /\ low < 67108864
    BY SMT, <2>3, <2>4, <2>6, FormFields
  <2>8. encodeBranchConditional(bo, bi, d, aa, lk) = << 16, low >>
    <3>1. encodeBranchConditional(bo, bi, d, aa, lk) = Form(16, bo, bi, c)
      BY SMT, <2>1, <2>2, <2>3 DEF encodeBranchConditional
    <3> QED
      BY SMT, <2>3, <2>6, <3>1, FormWord
  <2>9. << 16, low >> \in Word /\ << 16, low >> # Invalid
    BY ONLY SMT, <2>7, low \in Int DEF Word, Invalid
  <2>10. Decode(<< 16, low >>) =
           [op |-> "bc", bo |-> bo, bi |-> bi, imm |-> d, aa |-> aa, lk |-> lk]
    BY ONLY SMT, <2>2, <2>5, <2>7, low \in Int DEF Decode
  <2> QED
    BY ONLY <1>2, <2>8, <2>9, <2>10
<1> QED
  BY <1>1, <1>2

\* Branches to LR and CTR, and the system call.
LEMMA EncodedRegister ==
  /\ \A bo \in Five, bi \in Five, lk \in Flag :
       /\ Form(19, bo, bi, 32 + lk) \in Word /\ Form(19, bo, bi, 32 + lk) # Invalid
       /\ Decode(Form(19, bo, bi, 32 + lk)) = [op |-> "bclr", bo |-> bo, bi |-> bi, lk |-> lk]
  /\ encodeBctr \in Word /\ encodeBctr # Invalid
  /\ Decode(encodeBctr) = [op |-> "bcctr", bo |-> 20, bi |-> 0, lk |-> 0]
  /\ encodeSc \in Word /\ encodeSc # Invalid /\ Decode(encodeSc) = [op |-> "sc"]
<1>1. ASSUME NEW bo \in Five, NEW bi \in Five, NEW lk \in Flag
      PROVE  /\ Form(19, bo, bi, 32 + lk) \in Word /\ Form(19, bo, bi, 32 + lk) # Invalid
             /\ Decode(Form(19, bo, bi, 32 + lk)) = [op |-> "bclr", bo |-> bo, bi |-> bi, lk |-> lk]
  <2>1. PICK c \in Nat : c = 32 + lk /\ c < 65536 /\ (c \div 2) % 1024 = 16 /\ c % 2 = lk
    BY SMT
  <2>2. PICK low \in Int : low = bo * 2097152 + bi * 65536 + c
    BY SMT
  <2>3. /\ low \div 2097152 = bo /\ (low \div 65536) % 32 = bi
        /\ (low \div 2) % 1024 = 16 /\ low % 2 = lk
        /\ low >= 0 /\ low < 67108864
    BY SMT, <2>1, <2>2, FormFields
  <2>4. Form(19, bo, bi, c) = << 19, low >>
    BY SMT, <2>1, <2>2, FormWord
  <2>5. << 19, low >> \in Word /\ << 19, low >> # Invalid
    BY ONLY SMT, <2>3, low \in Int DEF Word, Invalid
  <2>6. Decode(<< 19, low >>) = [op |-> "bclr", bo |-> bo, bi |-> bi, lk |-> lk]
    BY ONLY SMT, <2>3, low \in Int DEF Decode
  <2> QED
    BY ONLY <2>1, <2>4, <2>5, <2>6
<1>2. /\ encodeBctr \in Word /\ encodeBctr # Invalid
      /\ Decode(encodeBctr) = [op |-> "bcctr", bo |-> 20, bi |-> 0, lk |-> 0]
  <2>1. encodeBctr = << 19, 41944096 >>
    BY SMT DEF encodeBctr, Form
  <2>2. << 19, 41944096 >> \in Word /\ << 19, 41944096 >> # Invalid
    BY SMT DEF Word, Invalid
  <2>3. Decode(<< 19, 41944096 >>) = [op |-> "bcctr", bo |-> 20, bi |-> 0, lk |-> 0]
    BY SMT DEF Decode
  <2> QED
    BY ONLY <2>1, <2>2, <2>3
<1>3. encodeSc \in Word /\ encodeSc # Invalid /\ Decode(encodeSc) = [op |-> "sc"]
  BY SMT DEF encodeSc, Word, Invalid, Decode
<1> QED
  BY <1>1, <1>2, <1>3
=============================================================================
