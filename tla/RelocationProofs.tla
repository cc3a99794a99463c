--------------------------- MODULE RelocationProofs ---------------------------
(***************************************************************************)
(* The encoders against the instruction formats, and the relocator along   *)
(* any chain of addresses, for every instruction and every address.        *)
(***************************************************************************)
EXTENDS Relocation, PpcProofs

USE DEF Flag, Five

-----------------------------------------------------------------------------
(***************************************************************************)
(* Instructions of every kind.                                             *)
(***************************************************************************)

\* The fields of instructions as sets of naturals.
LEMMA FieldSets ==
  /\ Register = Five /\ Bit = Flag
  /\ \A n \in 0..63 : n \in Nat /\ n < 64
  /\ \A n \in 0..1023 : n \in Nat /\ n < 1024
<1>1. \A n : n \in 0..31 <=> n \in Five
  BY ONLY SMT DEF Five
<1>2. \A n : n \in 0..1 <=> n \in Flag
  BY ONLY SMT DEF Flag
<1>3. Register = Five
  BY Zenon, <1>1 DEF Register
<1>4. Bit = Flag
  BY Zenon, <1>2 DEF Bit
<1>5. \A n \in 0..63 : n \in Nat /\ n < 64
  BY ONLY SMT
<1>6. \A n \in 0..1023 : n \in Nat /\ n < 1024
  BY ONLY SMT
<1> QED
  BY <1>3, <1>4, <1>5, <1>6

\* What the processor reads from the word of instruction i.
Seen(i) == IF i.op = "rldicl" THEN [i EXCEPT !.mb = Rotated(i.mb)] ELSE i

\* Representable is what the range checks of the encoders accept.
LEMMA RepresentableRange ==
  ASSUME NEW i, NEW d \in Int
  PROVE  /\ i.op = "b" => (Representable(i, d) <=> LIRange(d))
         /\ i.op \in {"bc", "ld", "ldu", "std", "stdu"} => (Representable(i, d) <=> BDRange(d))
<1>1. ASSUME i.op = "b" PROVE Representable(i, d) <=> LIRange(d)
  <2>1. Representable(i, d) <=> d % 4 = 0 /\ -33554432 <= d /\ d <= 33554431
    BY SMT, <1>1 DEF Representable
  <2>2. d % 4 = 0 => (d <= 33554431 <=> d <= 33554428)
    BY SMT
  <2> QED
    BY SMT, <2>1, <2>2 DEF LIRange
<1>2. ASSUME i.op \in {"bc", "ld", "ldu", "std", "stdu"} PROVE Representable(i, d) <=> BDRange(d)
  <2>1. Representable(i, d) <=> d % 4 = 0 /\ -32768 <= d /\ d <= 32767
    BY SMT, <1>2 DEF Representable
  <2>2. d % 4 = 0 => (d <= 32767 <=> d <= 32764)
    BY SMT
  <2> QED
    BY SMT, <2>1, <2>2 DEF BDRange
<1> QED
  BY <1>1, <1>2

\* An encoder throws only for a displacement that does not fit its field, and
\* otherwise the processor reads back what was asked for, except MB.
LEMMA EncodeDecode ==
  ASSUME NEW i \in Instructions
  PROVE  /\ Encode(i) = Invalid => ~ Representable(i, i.imm)
         /\ Encode(i) # Invalid => Encode(i) \in Word /\ Decode(Encode(i)) = Seen(i)
<1>1. CASE i \in [op : {"addi", "addis"}, t : Register, a : Register, imm : Signed]
  <2>1. i.t \in Five /\ i.a \in Five /\ i.imm \in Int /\ i.imm >= -32768 /\ i.imm <= 32767
    BY <1>1, FieldSets DEF Signed
  <2>2. CASE i.op = "addi"
    <3>1. i = [op |-> "addi", t |-> i.t, a |-> i.a, imm |-> i.imm]
      BY <1>1, <2>2
    <3>2. Encode(i) = encodeAddi(i.t, i.a, i.imm)
      BY SMT, <2>2 DEF Encode
    <3>3. Seen(i) = [op |-> "addi", t |-> i.t, a |-> i.a, imm |-> i.imm]
      BY <2>2, <3>1 DEF Seen
    <3> QED
      BY ONLY SMTT(40), <2>1, <3>2, <3>3, EncodedImmediate
  <2>3. CASE i.op = "addis"
    <3>1. i = [op |-> "addis", t |-> i.t, a |-> i.a, imm |-> i.imm]
      BY <1>1, <2>3
    <3>2. Encode(i) = encodeAddis(i.t, i.a, i.imm)
      BY SMT, <2>3 DEF Encode
    <3>3. Seen(i) = [op |-> "addis", t |-> i.t, a |-> i.a, imm |-> i.imm]
      BY <2>3, <3>1 DEF Seen
    <3> QED
      BY ONLY SMTT(40), <2>1, <3>2, <3>3, EncodedImmediate
  <2> QED
    BY <1>1, <2>2, <2>3
<1>2. CASE i \in [op : {"ori"}, t : Register, a : Register, imm : Unsigned]
  <2>1. i.t \in Five /\ i.a \in Five /\ i.imm \in Nat /\ i.imm < 65536
    BY <1>2, FieldSets DEF Unsigned
  <2>2. CASE i.op = "ori"
    <3>1. i = [op |-> "ori", t |-> i.t, a |-> i.a, imm |-> i.imm]
      BY <1>2, <2>2
    <3>2. Encode(i) = encodeOri(i.t, i.a, i.imm)
      BY SMT, <2>2 DEF Encode
    <3>3. Seen(i) = [op |-> "ori", t |-> i.t, a |-> i.a, imm |-> i.imm]
      BY <2>2, <3>1 DEF Seen
    <3> QED
      BY ONLY <2>1, <3>2, <3>3, EncodedOri
  <2> QED
    BY <1>2, <2>2
<1>3. CASE i \in [op : {"rldicl"}, t : Register, a : Register, sh : 0 .. 63, mb : 0 .. 63, rc : Bit]
  <2>1. i.t \in Five /\ i.a \in Five /\ i.sh \in Nat /\ i.sh < 64 /\ i.mb \in Nat /\ i.mb < 64 /\ i.rc \in Flag
    BY <1>3, FieldSets
  <2>2. CASE i.op = "rldicl"
    <3>1. i = [op |-> "rldicl", t |-> i.t, a |-> i.a, sh |-> i.sh, mb |-> i.mb, rc |-> i.rc]
      BY <1>3, <2>2
    <3>2. Encode(i) = encodeRldicl(i.t, i.a, i.sh, i.mb, i.rc)
      BY SMT, <2>2 DEF Encode
    <3>3. Seen(i) = [op |-> "rldicl", t |-> i.t, a |-> i.a, sh |-> i.sh, mb |-> Rotated(i.mb), rc |-> i.rc]
      BY <3>1 DEF Seen
    <3>4. ASSUME NEW t \in Five, NEW a \in Five, NEW sh \in Nat, sh < 64,
                 NEW mb \in Nat, mb < 64, NEW rc \in Flag,
                 i.t = t, i.a = a, i.sh = sh, i.mb = mb, i.rc = rc
          PROVE  Encode(i) # Invalid /\ Encode(i) \in Word /\ Decode(Encode(i)) = Seen(i)
      BY SMTT(30), <3>2, <3>3, <3>4, EncodedRldicl
    <3> QED
      BY ONLY Zenon, <2>1, <3>4
  <2> QED
    BY <1>3, <2>2
<1>4. CASE i \in [op : {"mtspr", "mfspr"}, t : Register, spr : 0 .. 1023]
  <2>1. i.t \in Five /\ i.spr \in Nat /\ i.spr < 1024
    BY <1>4, FieldSets
  <2>2. CASE i.op = "mtspr"
    <3>1. i = [op |-> "mtspr", t |-> i.t, spr |-> i.spr]
      BY <1>4, <2>2
    <3>2. Encode(i) = encodeMtspr(i.t, i.spr)
      BY SMT, <2>2 DEF Encode
    <3>3. Seen(i) = [op |-> "mtspr", t |-> i.t, spr |-> i.spr]
      BY <2>2, <3>1 DEF Seen
    <3> QED
      BY ONLY <2>1, <3>2, <3>3, EncodedSpr
  <2>3. CASE i.op = "mfspr"
    <3>1. i = [op |-> "mfspr", t |-> i.t, spr |-> i.spr]
      BY <1>4, <2>3
    <3>2. Encode(i) = encodeMfspr(i.t, i.spr)
      BY SMT, <2>3 DEF Encode
    <3>3. Seen(i) = [op |-> "mfspr", t |-> i.t, spr |-> i.spr]
      BY <2>3, <3>1 DEF Seen
    <3> QED
      BY ONLY <2>1, <3>2, <3>3, EncodedSpr
  <2> QED
    BY <1>4, <2>2, <2>3
<1>5. CASE i \in [op : {"std", "stdu", "ld", "ldu"}, t : Register, a : Register, imm : Int]
  <2>1. i.t \in Five /\ i.a \in Five /\ i.imm \in Int
    BY <1>5, FieldSets
  <2>2. CASE i.op = "std"
    <3>1. i = [op |-> "std", t |-> i.t, a |-> i.a, imm |-> i.imm]
      BY <1>5, <2>2
    <3>2. Encode(i) = encodeStd(i.t, i.a, i.imm)
      BY SMT, <2>2 DEF Encode
    <3>3. Seen(i) = [op |-> "std", t |-> i.t, a |-> i.a, imm |-> i.imm]
      BY <2>2, <3>1 DEF Seen
    <3>4. Representable(i, i.imm) <=> BDRange(i.imm)
      BY <2>1, <2>2, RepresentableRange
    <3> QED
      BY ONLY <2>1, <3>2, <3>3, <3>4, EncodedStorage
  <2>3. CASE i.op = "stdu"
    <3>1. i = [op |-> "stdu", t |-> i.t, a |-> i.a, imm |-> i.imm]
      BY <1>5, <2>3
    <3>2. Encode(i) = encodeStdu(i.t, i.a, i.imm)
      BY SMT, <2>3 DEF Encode
    <3>3. Seen(i) = [op |-> "stdu", t |-> i.t, a |-> i.a, imm |-> i.imm]
      BY <2>3, <3>1 DEF Seen
    <3>4. Representable(i, i.imm) <=> BDRange(i.imm)
      BY <2>1, <2>3, RepresentableRange
    <3> QED
      BY ONLY <2>1, <3>2, <3>3, <3>4, EncodedStorage
  <2>4. CASE i.op = "ld"
    <3>1. i = [op |-> "ld", t |-> i.t, a |-> i.a, imm |-> i.imm]
      BY <1>5, <2>4
    <3>2. Encode(i) = encodeLd(i.t, i.a, i.imm)
      BY SMT, <2>4 DEF Encode
    <3>3. Seen(i) = [op |-> "ld", t |-> i.t, a |-> i.a, imm |-> i.imm]
      BY <2>4, <3>1 DEF Seen
    <3>4. Representable(i, i.imm) <=> BDRange(i.imm)
      BY <2>1, <2>4, RepresentableRange
    <3> QED
      BY ONLY <2>1, <3>2, <3>3, <3>4, EncodedStorage
  <2>5. CASE i.op = "ldu"
    <3>1. i = [op |-> "ldu", t |-> i.t, a |-> i.a, imm |-> i.imm]
      BY <1>5, <2>5
    <3>2. Encode(i) = encodeLdu(i.t, i.a, i.imm)
      BY SMT, <2>5 DEF Encode
    <3>3. Seen(i) = [op |-> "ldu", t |-> i.t, a |-> i.a, imm |-> i.imm]
      BY <2>5, <3>1 DEF Seen
    <3>4. Representable(i, i.imm) <=> BDRange(i.imm)
      BY <2>1, <2>5, RepresentableRange
    <3> QED
      BY ONLY <2>1, <3>2, <3>3, <3>4, EncodedStorage
  <2> QED
    BY <1>5, <2>2, <2>3, <2>4, <2>5
<1>6. CASE i \in [op : {"b"}, imm : Int, aa : Bit, lk : Bit]
  <2>1. i.imm \in Int /\ i.aa \in Flag /\ i.lk \in Flag
    BY <1>6, FieldSets
  <2>2. CASE i.op = "b"
    <3>1. i = [op |-> "b", imm |-> i.imm, aa |-> i.aa, lk |-> i.lk]
      BY <1>6, <2>2
    <3>2. Encode(i) = encodeBranch(i.imm, i.aa, i.lk)
      BY SMT, <2>2 DEF Encode
    <3>3. Seen(i) = [op |-> "b", imm |-> i.imm, aa |-> i.aa, lk |-> i.lk]
      BY <2>2, <3>1 DEF Seen
    <3>4. Representable(i, i.imm) <=> LIRange(i.imm)
      BY <2>1, <2>2, RepresentableRange
    <3> QED
      BY ONLY <2>1, <3>2, <3>3, <3>4, EncodedBranch
  <2> QED
    BY <1>6, <2>2
<1>7. CASE i \in [op : {"bc"}, bo : Register, bi : Register, imm : Int, aa : Bit, lk : Bit]
  <2>1. i.bo \in Five /\ i.bi \in Five /\ i.imm \in Int /\ i.aa \in Flag /\ i.lk \in Flag
    BY <1>7, FieldSets
  <2>2. CASE i.op = "bc"
    <3>1. i = [op |-> "bc", bo |-> i.bo, bi |-> i.bi, imm |-> i.imm, aa |-> i.aa, lk |-> i.lk]
      BY <1>7, <2>2
    <3>2. Encode(i) = encodeBranchConditional(i.bo, i.bi, i.imm, i.aa, i.lk)
      BY SMT, <2>2 DEF Encode
    <3>3. Seen(i) = [op |-> "bc", bo |-> i.bo, bi |-> i.bi, imm |-> i.imm, aa |-> i.aa, lk |-> i.lk]
      BY <2>2, <3>1 DEF Seen
    <3>4. Representable(i, i.imm) <=> BDRange(i.imm)
      BY <2>1, <2>2, RepresentableRange
    <3>5. ASSUME NEW bo \in Five, NEW bi \in Five, NEW d \in Int, NEW aa \in Flag, NEW lk \in Flag,
                 i.bo = bo, i.bi = bi, i.imm = d, i.aa = aa, i.lk = lk
          PROVE  /\ Encode(i) = Invalid => ~ BDRange(i.imm)
                 /\ Encode(i) # Invalid => Encode(i) \in Word /\ Decode(Encode(i)) = Seen(i)
      BY SMT, <3>2, <3>3, <3>5, EncodedBranchConditional
    <3> QED
      BY ONLY Zenon, <2>1, <3>4, <3>5
  <2> QED
    BY <1>7, <2>2
<1>8. CASE i \in [op : {"bclr"}, bo : Register, bi : Register, lk : Bit]
  <2>1. i.bo \in Five /\ i.bi \in Five /\ i.lk \in Flag
    BY <1>8, FieldSets
  <2>2. CASE i.op = "bclr"
    <3>1. i = [op |-> "bclr", bo |-> i.bo, bi |-> i.bi, lk |-> i.lk]
      BY <1>8, <2>2
    <3>2. Encode(i) = Form(19, i.bo, i.bi, 32 + i.lk)
      BY SMT, <2>2 DEF Encode
    <3>3. Seen(i) = [op |-> "bclr", bo |-> i.bo, bi |-> i.bi, lk |-> i.lk]
      BY <2>2, <3>1 DEF Seen
    <3> QED
      BY ONLY <2>1, <3>2, <3>3, EncodedRegister
  <2> QED
    BY <1>8, <2>2
<1>9. CASE i \in {[op |-> "bcctr", bo |-> 20, bi |-> 0, lk |-> 0], [op |-> "sc"]}
  <2>1. CASE i = [op |-> "bcctr", bo |-> 20, bi |-> 0, lk |-> 0]
    <3>1. Encode(i) = encodeBctr /\ Seen(i) = i
      BY SMT, <2>1 DEF Encode, Seen
    <3> QED
      BY ONLY <2>1, <3>1, EncodedRegister
  <2>2. CASE i = [op |-> "sc"]
    <3>1. Encode(i) = encodeSc /\ Seen(i) = i
      BY SMT, <2>2 DEF Encode, Seen
    <3> QED
      BY ONLY <2>2, <3>1, EncodedRegister
  <2> QED
    BY <1>9, <2>1, <2>2
<1> QED
  BY <1>1, <1>2, <1>3, <1>4, <1>5, <1>6, <1>7, <1>8, <1>9 DEF Instructions

-----------------------------------------------------------------------------
(***************************************************************************)
(* classify against the processor, for every word there is.                *)
(***************************************************************************)
Agrees(c, d, pc) ==
  /\ (c.kind = "DirectRelative") <=> Relative(d)
  /\ (c.kind = "DirectAbsolute") <=> d.op \in {"b", "bc"} /\ d.aa = 1
  /\ c.kind = "DirectAbsolute" => c.absoluteTarget = DirectTarget(d, pc)
  /\ (c.kind = "ToLinkRegister")  <=> d.op = "bclr"
  /\ (c.kind = "ToCountRegister") <=> d.op = "bcctr"
  /\ c.kind # "NotABranch" => c.link = d.lk

\* A b or bc as classify and as Decode see it.
LEMMA DirectAgrees ==
  ASSUME NEW low \in Nat, NEW cond, NEW bo, NEW bi, NEW field, NEW pc, NEW d,
         d.op \in {"b", "bc"}, d.aa = (low \div 2) % 2, d.lk = low % 2, d.imm = field
  PROVE  Agrees(Direct(low, cond, bo, bi, field), d, pc)
<1>1. (low \div 2) % 2 \in {0, 1}
  BY SMT
<1>2. CASE (low \div 2) % 2 = 1
  <2>1. Direct(low, cond, bo, bi, field) =
          DecodedBranch("DirectAbsolute", low % 2, cond, bo, bi, 0, field % AddrMod)
    BY <1>2 DEF Direct
  <2> HIDE DEF AddrMod
  <2>2. DirectTarget(d, pc) = field % AddrMod
    BY <1>2 DEF DirectTarget
  <2> QED
    BY <1>2, <2>1, <2>2 DEF Agrees, DecodedBranch, Relative
<1>3. CASE (low \div 2) % 2 = 0
  <2>1. Direct(low, cond, bo, bi, field) =
          DecodedBranch("DirectRelative", low % 2, cond, bo, bi, field, 0)
    BY SMT, <1>3 DEF Direct
  <2> QED
    BY <1>3, <2>1 DEF Agrees, DecodedBranch, Relative
<1> QED
  BY <1>1, <1>2, <1>3

\* For every 32-bit word, not only those the encoders make: classify
\* (decode.hpp:57-114) finds the same kind of branch, the same absolute target
\* and the same link bit as the processor, and calls relative exactly the words
\* whose target depends on where they stand.
THEOREM ClassifyAgrees ==
  ASSUME NEW w \in Word, NEW pc
  PROVE  Agrees(classify(w), Decode(w), pc)
<1>1. PICK opcd \in Nat, low \in Nat : w = << opcd, low >> /\ low < 67108864
  BY SMT DEF Word
<1>2. CASE opcd = 18
  <2>1. PICK field : field = SignExtend(low - (low % 4), 67108864)
    OBVIOUS
  <2>2. classify(<< 18, low >>) = Direct(low, 0, 0, 0, field)
    BY SMT, <2>1 DEF classify
  <2>3. PICK d : d = Decode(<< 18, low >>)
    OBVIOUS
  <2>4. d.op = "b" /\ d.aa = (low \div 2) % 2 /\ d.lk = low % 2 /\ d.imm = field
    BY SMT, <2>1, <2>3 DEF Decode, SignExtend
  <2> QED
    BY <1>1, <1>2, <2>2, <2>3, <2>4, DirectAgrees
<1>3. CASE opcd = 16
  <2>1. PICK field : field = SignExtend((low % 65536) - (low % 4), 65536)
    OBVIOUS
  <2>2. classify(<< 16, low >>) =
          Direct(low, 1, (low \div 2097152) % 32, (low \div 65536) % 32, field)
    BY SMT, <2>1 DEF classify
  <2>3. PICK d : d = Decode(<< 16, low >>)
    OBVIOUS
  <2>4. low % 4 = (low % 65536) % 4
    <3>1. PICK q \in Int, c \in Int : low = 65536 * q + c /\ c = low % 65536
      BY SMT
    <3> QED
      BY SMT, <3>1
  <2>5. d.op = "bc" /\ d.aa = (low \div 2) % 2 /\ d.lk = low % 2 /\ d.imm = field
    <3>1. PICK c : c = low % 65536
      OBVIOUS
    <3>2. /\ d.op = "bc" /\ d.aa = (low \div 2) % 2 /\ d.lk = low % 2
          /\ d.imm = Signed16(c - (c % 4))
      BY SMT, <2>3, <3>1 DEF Decode
    <3>3. field = SignExtend(c - (c % 4), 65536)
      BY <2>1, <2>4, <3>1
    <3>4. c - (c % 4) \in Int /\ 65536 \div 2 = 32768
      BY SMT, <3>1
    <3>5. \A n \in Int : SignExtend(n, 65536) = Signed16(n)
      BY SMT DEF SignExtend, Signed16
    <3> QED
      BY ONLY <3>2, <3>3, <3>4, <3>5
  <2> QED
    BY <1>1, <1>3, <2>2, <2>3, <2>5, DirectAgrees
<1>4. CASE opcd = 19
  <2>1. PICK xo : xo = (low \div 2) % 1024
    OBVIOUS
  <2>2. CASE xo = 16
    <3>1. classify(<< 19, low >>) = DecodedBranch("ToLinkRegister", low % 2, 0, 0, 0, 0, 0)
      BY SMT, <2>1, <2>2 DEF classify
    <3>2. Decode(<< 19, low >>).op = "bclr" /\ Decode(<< 19, low >>).lk = low % 2
      BY SMT, <2>1, <2>2 DEF Decode
    <3> QED
      BY SMT, <1>1, <1>4, <3>1, <3>2 DEF Agrees, DecodedBranch, Relative
  <2>3. CASE xo = 528
    <3>1. classify(<< 19, low >>) = DecodedBranch("ToCountRegister", low % 2, 0, 0, 0, 0, 0)
      BY SMT, <2>1, <2>3 DEF classify
    <3>2. Decode(<< 19, low >>).op = "bcctr" /\ Decode(<< 19, low >>).lk = low % 2
      BY SMT, <2>1, <2>3 DEF Decode
    <3> QED
      BY SMT, <1>1, <1>4, <3>1, <3>2 DEF Agrees, DecodedBranch, Relative
  <2>4. CASE xo \notin {16, 528}
    <3>1. classify(<< 19, low >>) = DecodedBranch("NotABranch", 0, 0, 0, 0, 0, 0)
      BY SMT, <2>1, <2>4 DEF classify
    <3>2. Decode(<< 19, low >>).op = "illegal"
      BY SMT, <2>1, <2>4 DEF Decode
    <3> QED
      BY SMT, <1>1, <1>4, <3>1, <3>2 DEF Agrees, DecodedBranch, Relative
  <2> QED
    BY <2>2, <2>3, <2>4
<1>5. CASE opcd \notin {16, 18, 19}
  <2>1. classify(<< opcd, low >>) = DecodedBranch("NotABranch", 0, 0, 0, 0, 0, 0)
    BY SMT, <1>5 DEF classify
  <2>2. Decode(<< opcd, low >>).op \notin {"b", "bc", "bclr", "bcctr"}
    BY SMT, <1>5 DEF Decode
  <2> QED
    BY SMT, <1>1, <2>1, <2>2 DEF Agrees, DecodedBranch, Relative
<1> QED
  BY <1>2, <1>3, <1>4, <1>5

-----------------------------------------------------------------------------
(***************************************************************************)
(* Relative branches with another displacement.                            *)
(***************************************************************************)
LEMMA RelativeKinds ==
  ASSUME NEW i \in Instructions, Relative(i)
  PROVE  /\ i.imm \in Int
         /\ \/ \E lk \in Flag : i = [op |-> "b", imm |-> i.imm, aa |-> 0, lk |-> lk]
            \/ \E bo \in Five, bi \in Five, lk \in Flag :
                 i = [op |-> "bc", bo |-> bo, bi |-> bi, imm |-> i.imm, aa |-> 0, lk |-> lk]
<1>1. i.op \in {"b", "bc"} /\ i.aa = 0
  BY DEF Relative
<1>2. \/ i \in [op : {"b"}, imm : Int, aa : Bit, lk : Bit]
      \/ i \in [op : {"bc"}, bo : Register, bi : Register, imm : Int, aa : Bit, lk : Bit]
  BY SMT, <1>1 DEF Instructions
<1>3. CASE i \in [op : {"b"}, imm : Int, aa : Bit, lk : Bit]
  <2>1. i.lk \in Flag /\ i.imm \in Int
    BY <1>3, FieldSets
  <2>2. i = [op |-> "b", imm |-> i.imm, aa |-> 0, lk |-> i.lk]
    BY <1>1, <1>3
  <2> QED
    BY <2>1, <2>2
<1>4. CASE i \in [op : {"bc"}, bo : Register, bi : Register, imm : Int, aa : Bit, lk : Bit]
  <2>1. i.bo \in Five /\ i.bi \in Five /\ i.lk \in Flag /\ i.imm \in Int
    BY <1>4, FieldSets
  <2>2. i = [op |-> "bc", bo |-> i.bo, bi |-> i.bi, imm |-> i.imm, aa |-> 0, lk |-> i.lk]
    BY <1>1, <1>4
  <2> QED
    BY <2>1, <2>2
<1> QED
  BY <1>2, <1>3, <1>4

\* What fits a branch field passes the int32_t check of relocateBranch.
LEMMA InRange ==
  ASSUME NEW e \in Int, LIRange(e) \/ BDRange(e)
  PROVE  ~ (e < -(AddrMod \div 2) \/ e > AddrMod \div 2 - 1)
<1>1. e >= -33554432 /\ e <= 33554428
  BY SMT DEF LIRange, BDRange
<1>2. PICK m \in Nat : m = AddrMod /\ m >= 67108864
  BY AddrModFacts
<1>3. m \div 2 >= 33554432
  BY ONLY SMT, <1>2, m \in Nat
<1>4. PICK h \in Int : h = m \div 2 /\ h >= 33554432
  BY SMT, <1>3
<1> QED
  BY ONLY SMT, <1>1, <1>2, <1>4, e \in Int, h \in Int

\* Moving a b is encoding the new displacement: the int32_t check of
\* relocateBranch refuses nothing that encodeBranch would not refuse.
LEMMA BranchMoved ==
  ASSUME NEW d, LIRange(d), NEW lk \in Flag, NEW o \in Address, NEW n \in Address
  PROVE  relocateInstruction(encodeBranch(d, 0, lk), o, n) = encodeBranch(Relocated(d, o, n), 0, lk)
<1>1. classify(encodeBranch(d, 0, lk)) = RelativeB(d, lk)
  BY ClassifyEncodeBranch
<1>2. relocateInstruction(encodeBranch(d, 0, lk), o, n) = relocateBranch(RelativeB(d, lk), o, n)
  BY <1>1 DEF relocateInstruction, RelativeB, DecodedBranch
<1>3. PICK e \in Int : e = Relocated(d, o, n)
  BY SMT, RelocatedType DEF LIRange
<1>4. relocateBranch(RelativeB(d, lk), o, n) =
        IF e < -(AddrMod \div 2) \/ e > AddrMod \div 2 - 1 THEN Invalid ELSE encodeBranch(e, 0, lk)
  BY <1>3 DEF relocateBranch, RelativeB, DecodedBranch, Relocated
<1>5. CASE LIRange(e)
  BY <1>2, <1>3, <1>4, <1>5, InRange
<1>6. CASE ~ LIRange(e)
  <2>1. encodeBranch(e, 0, lk) = Invalid
    BY SMT, <1>6 DEF LIRange, encodeBranch
  <2> QED
    BY <1>2, <1>3, <1>4, <2>1
<1> QED
  BY <1>5, <1>6

\* The same for a bc.
LEMMA BranchConditionalMoved ==
  ASSUME NEW d, BDRange(d), NEW lk \in Flag, NEW bo \in Five, NEW bi \in Five,
         NEW o \in Address, NEW n \in Address
  PROVE  relocateInstruction(encodeBranchConditional(bo, bi, d, 0, lk), o, n) =
           encodeBranchConditional(bo, bi, Relocated(d, o, n), 0, lk)
<1>1. classify(encodeBranchConditional(bo, bi, d, 0, lk)) = RelativeBc(bo, bi, d, lk)
  BY ClassifyEncodeBranchConditional
<1>2. relocateInstruction(encodeBranchConditional(bo, bi, d, 0, lk), o, n) =
        relocateBranch(RelativeBc(bo, bi, d, lk), o, n)
  BY <1>1 DEF relocateInstruction, RelativeBc, DecodedBranch
<1>3. PICK e \in Int : e = Relocated(d, o, n)
  BY SMT, RelocatedType DEF BDRange
<1>4. relocateBranch(RelativeBc(bo, bi, d, lk), o, n) =
        IF e < -(AddrMod \div 2) \/ e > AddrMod \div 2 - 1 THEN Invalid
        ELSE encodeBranchConditional(bo, bi, e, 0, lk)
  BY <1>3 DEF relocateBranch, RelativeBc, DecodedBranch, Relocated
<1>5. CASE BDRange(e)
  BY <1>2, <1>3, <1>4, <1>5, InRange
<1>6. CASE ~ BDRange(e)
  <2>1. encodeBranchConditional(bo, bi, e, 0, lk) = Invalid
    BY SMT, <1>6 DEF BDRange, encodeBranchConditional
  <2> QED
    BY <1>2, <1>3, <1>4, <2>1
<1> QED
  BY <1>5, <1>6

\* Instruction i with displacement e.
With(i, e) == [i EXCEPT !.imm = e]

\* A relative branch with any displacement: when it has a word, what the word
\* says, and what becomes of it when it is moved.
LEMMA WithDisplacement ==
  ASSUME NEW i \in Instructions, Relative(i), NEW e \in Int
  PROVE  /\ Encode(With(i, e)) # Invalid <=> Representable(i, e)
         /\ Representable(i, e) => /\ Encode(With(i, e)) \in Word
                                   /\ Decode(Encode(With(i, e))) = With(i, e)
         /\ \A o \in Address, n \in Address :
              Representable(i, e) =>
                relocateInstruction(Encode(With(i, e)), o, n) = Encode(With(i, Relocated(e, o, n)))
<1>1. CASE \E lk \in Flag : i = [op |-> "b", imm |-> i.imm, aa |-> 0, lk |-> lk]
  <2>1. PICK lk \in Flag : i = [op |-> "b", imm |-> i.imm, aa |-> 0, lk |-> lk]
    BY <1>1
  <2>2. \A d : With(i, d) = [op |-> "b", imm |-> d, aa |-> 0, lk |-> lk]
    BY <2>1 DEF With
  <2>3. \A d : Encode([op |-> "b", imm |-> d, aa |-> 0, lk |-> lk]) = encodeBranch(d, 0, lk)
    BY SMT DEF Encode
  <2>4. \A d : Encode(With(i, d)) = encodeBranch(d, 0, lk)
    BY ONLY <2>2, <2>3
  <2>5. Representable(i, e) <=> LIRange(e)
    <3>1. i.op = "b"
      BY ONLY <2>1
    <3> QED
      BY <3>1, RepresentableRange
  <2>6. 0 \in Flag
    BY SMT
  <2>7. /\ ~ LIRange(e) => encodeBranch(e, 0, lk) = Invalid
        /\ LIRange(e) =>
             /\ encodeBranch(e, 0, lk) \in Word /\ encodeBranch(e, 0, lk) # Invalid
             /\ Decode(encodeBranch(e, 0, lk)) = [op |-> "b", imm |-> e, aa |-> 0, lk |-> lk]
    BY <2>6, EncodedBranch
  <2>8. ASSUME NEW o \in Address, NEW n \in Address, LIRange(e)
        PROVE  relocateInstruction(encodeBranch(e, 0, lk), o, n) = encodeBranch(Relocated(e, o, n), 0, lk)
    BY <2>8, BranchMoved
  <2> QED
    BY ONLY <2>2, <2>4, <2>5, <2>7, <2>8
<1>2. CASE \E bo \in Five, bi \in Five, lk \in Flag :
             i = [op |-> "bc", bo |-> bo, bi |-> bi, imm |-> i.imm, aa |-> 0, lk |-> lk]
  <2>1. PICK bo \in Five, bi \in Five, lk \in Flag :
             i = [op |-> "bc", bo |-> bo, bi |-> bi, imm |-> i.imm, aa |-> 0, lk |-> lk]
    BY <1>2
  <2>2. \A d : With(i, d) = [op |-> "bc", bo |-> bo, bi |-> bi, imm |-> d, aa |-> 0, lk |-> lk]
    BY <2>1 DEF With
  <2>3. \A d : Encode([op |-> "bc", bo |-> bo, bi |-> bi, imm |-> d, aa |-> 0, lk |-> lk]) =
                 encodeBranchConditional(bo, bi, d, 0, lk)
    BY SMT DEF Encode
  <2>4. \A d : Encode(With(i, d)) = encodeBranchConditional(bo, bi, d, 0, lk)
    BY ONLY <2>2, <2>3
  <2>5. Representable(i, e) <=> BDRange(e)
    <3>1. i.op = "bc"
      BY ONLY <2>1
    <3> QED
      BY <3>1, RepresentableRange
  <2>6. 0 \in Flag
    BY SMT
  <2>7. /\ ~ BDRange(e) => encodeBranchConditional(bo, bi, e, 0, lk) = Invalid
        /\ BDRange(e) =>
             /\ encodeBranchConditional(bo, bi, e, 0, lk) \in Word
             /\ encodeBranchConditional(bo, bi, e, 0, lk) # Invalid
             /\ Decode(encodeBranchConditional(bo, bi, e, 0, lk)) =
                  [op |-> "bc", bo |-> bo, bi |-> bi, imm |-> e, aa |-> 0, lk |-> lk]
    BY <2>6, EncodedBranchConditional
  <2>8. ASSUME NEW o \in Address, NEW n \in Address, BDRange(e)
        PROVE  relocateInstruction(encodeBranchConditional(bo, bi, e, 0, lk), o, n) =
                 encodeBranchConditional(bo, bi, Relocated(e, o, n), 0, lk)
    BY <2>8, BranchConditionalMoved
  <2> QED
    BY ONLY <2>2, <2>4, <2>5, <2>7, <2>8
<1> QED
  BY <1>1, <1>2, RelativeKinds

\* An instruction that does not depend on its address is moved as it is.
LEMMA MovedVerbatim ==
  ASSUME NEW i \in Instructions, ~ Relative(i), Encode(i) # Invalid
  PROVE  \A o, n : relocateInstruction(Encode(i), o, n) = Encode(i)
<1>1. Encode(i) \in Word /\ Decode(Encode(i)) = Seen(i)
  BY EncodeDecode
<1>2. ~ Relative(Seen(i))
  BY DEF Relative, Seen
<1>3. classify(Encode(i)).kind # "DirectRelative"
  BY <1>1, <1>2, ClassifyAgrees DEF Agrees
<1> QED
  BY <1>3 DEF relocateInstruction

\* Two displacements of a branch that lead to the same address from the same
\* place are equal: their difference is less than the address space.
LEMMA SameDisplacement ==
  ASSUME NEW a \in Address, NEW d \in Int, NEW e \in Int,
         LIRange(d) \/ BDRange(d), LIRange(e) \/ BDRange(e),
         (a + d) % AddrMod = (a + e) % AddrMod
  PROVE  d = e
<1>1. PICK m \in Nat : m = AddrMod /\ m >= 67108864
  BY AddrModFacts
<1>2. d - e < m /\ e - d < m
  <2>1. d >= -33554432 /\ d <= 33554428 /\ e >= -33554432 /\ e <= 33554428
    BY SMT DEF LIRange, BDRange
  <2> QED
    BY ONLY SMT, <1>1, <2>1, d \in Int, e \in Int, m \in Nat
<1>3. a \in Int
  BY SMT, AddrModFacts DEF Address
<1>4. \A x \in Int : \E q \in Int : x = q * m + (x % m)
  <2> SUFFICES ASSUME NEW x \in Int PROVE \E q \in Int : x = q * m + (x % m)
    OBVIOUS
  <2>1. x \div m \in Int /\ x = (x \div m) * m + (x % m)
    BY ONLY SMT, <1>1, x \in Int, m \in Nat
  <2> QED
    BY ONLY <2>1
<1>5. /\ \E q \in Int : a + d = q * m + ((a + d) % m)
      /\ \E p \in Int : a + e = p * m + ((a + e) % m)
  <2>1. a + d \in Int /\ a + e \in Int
    BY <1>3
  <2> QED
    BY ONLY <1>4, <2>1
<1>6. PICK r \in Int : r = (a + d) % m /\ r = (a + e) % m
  BY SMT, <1>1, <1>3
<1>7. PICK q \in Int, p \in Int : a + d = q * m + r /\ a + e = p * m + r
  BY ONLY <1>5, <1>6
<1>8. d - e = (q - p) * m
  BY ONLY SMT, <1>3, <1>7, a \in Int, d \in Int, e \in Int, m \in Nat, p \in Int, q \in Int, r \in Int
<1>9. PICK k \in Int : k = q - p
  OBVIOUS
<1>10. k = 0
  BY ONLY SMT, <1>1, <1>2, <1>8, <1>9, k \in Int, m \in Nat, d \in Int, e \in Int
<1> QED
  BY ONLY SMT, <1>8, <1>9, <1>10, d \in Int, e \in Int, m \in Nat

-----------------------------------------------------------------------------
(***************************************************************************)
(* The inductive invariant.                                                *)
(***************************************************************************)

\* Word w at address a says what instruction i says at address o.
Holds(i, o, w, a) ==
  IF Relative(i)
  THEN LET e == Decode(w).imm
       IN  /\ e \in Int /\ Representable(i, e)
           /\ w = Encode(With(i, e))
           /\ (a + e) % AddrMod = (o + i.imm) % AddrMod
  ELSE w = Encode(i)

IInv ==
  /\ status \in {"empty", "placed", "rejected", "refused"}
  /\ status # "empty" => /\ meant \in Instrs
                         /\ origin \in Addresses /\ at \in Addresses /\ asked \in Addresses
  /\ status = "rejected" => Encode(meant) = Invalid
  /\ status \in {"placed", "refused"} =>
       /\ first = Encode(meant) /\ first # Invalid
       /\ Holds(meant, origin, word, at)
  /\ status = "refused" => relocateInstruction(word, at, asked) = Invalid

\* The constants, element by element.
LEMMA ConstantTypes ==
  /\ \A i \in Instrs : i \in Instructions
  /\ \A a \in Addresses : a \in Address
BY RelocationAssumption

\* Where it is assembled, an instruction holds.
LEMMA HoldsFirst ==
  ASSUME NEW i \in Instructions, Encode(i) # Invalid, NEW o
  PROVE  Holds(i, o, Encode(i), o)
<1>1. CASE ~ Relative(i)
  BY <1>1 DEF Holds
<1>2. CASE Relative(i)
  <2>1. i.imm \in Int
    BY <1>2, RelativeKinds
  <2>2. With(i, i.imm) = i
    BY <1>2, RelativeKinds DEF With
  <2>3. Representable(i, i.imm) /\ Decode(Encode(i)) = i
    BY <1>2, <2>1, <2>2, WithDisplacement
  <2> QED
    BY <1>2, <2>1, <2>2, <2>3 DEF Holds
<1> QED
  BY <1>1, <1>2

\* Moved, it still does, and it is refused only if no displacement would do.
LEMMA HoldsMoved ==
  ASSUME NEW i \in Instructions, Encode(i) # Invalid, NEW o \in Address, NEW w,
         NEW a \in Address, NEW n \in Address, Holds(i, o, w, a)
  PROVE  /\ relocateInstruction(w, a, n) # Invalid => Holds(i, o, relocateInstruction(w, a, n), n)
         /\ relocateInstruction(w, a, n) = Invalid =>
              Relative(i) /\ ~ Representable(i, ((o + i.imm) % AddrMod) - n)
<1>1. CASE ~ Relative(i)
  <2>1. w = Encode(i)
    BY <1>1 DEF Holds
  <2>2. relocateInstruction(w, a, n) = Encode(i)
    BY <1>1, <2>1, MovedVerbatim
  <2> QED
    BY <1>1, <2>1, <2>2 DEF Holds
<1>2. CASE Relative(i)
  <2>1. PICK e \in Int : /\ Representable(i, e) /\ w = Encode(With(i, e))
                         /\ (a + e) % AddrMod = (o + i.imm) % AddrMod
    BY <1>2 DEF Holds
  <2>2. PICK f \in Int : f = Relocated(e, a, n)
    BY RelocatedType
  <2>3. f = ((o + i.imm) % AddrMod) - n
    BY <2>1, <2>2 DEF Relocated
  <2>4. relocateInstruction(w, a, n) = Encode(With(i, f))
    BY <1>2, <2>1, <2>2, WithDisplacement
  <2>5. /\ Encode(With(i, f)) # Invalid <=> Representable(i, f)
        /\ Representable(i, f) => Decode(Encode(With(i, f))) = With(i, f)
    BY <1>2, WithDisplacement
  <2>6. (n + f) % AddrMod = (a + e) % AddrMod
    BY <2>2, SameTarget DEF Relocated
  <2>7. With(i, f).imm = f
    BY <1>2, RelativeKinds DEF With
  <2>8. ASSUME Representable(i, f)
        PROVE  Holds(i, o, Encode(With(i, f)), n)
    <3>1. Decode(Encode(With(i, f))).imm = f
      BY <2>5, <2>7, <2>8
    <3>2. (n + f) % AddrMod = (o + i.imm) % AddrMod
      BY ONLY <2>1, <2>6
    <3> QED
      BY <1>2, <2>8, <3>1, <3>2 DEF Holds
  <2> QED
    BY ONLY <1>2, <2>3, <2>4, <2>5, <2>8
<1> QED
  BY <1>1, <1>2

\* The invariant holds before anything is assembled.
LEMMA InitIInv == Init => IInv
BY DEF Init, IInv

\* It is kept by the encoders and by the relocator.
LEMMA NextIInv == IInv /\ [Next]_vars => IInv'
<1> SUFFICES ASSUME IInv, [Next]_vars PROVE IInv'
  OBVIOUS
<1>1. ASSUME NEW i \in Instrs, NEW a \in Addresses, Assemble(i, a) PROVE IInv'
  <2>1. i \in Instructions
    BY ConstantTypes
  <2>2. /\ meant' = i /\ origin' = a /\ at' = a /\ asked' = a /\ word' = Encode(i) /\ first' = Encode(i)
        /\ status' = IF Encode(i) = Invalid THEN "rejected" ELSE "placed"
    BY <1>1 DEF Assemble
  <2>3. Encode(i) # Invalid => Holds(i, a, Encode(i), a)
    BY <2>1, HoldsFirst
  <2> QED
    BY <2>2, <2>3 DEF IInv
<1>2. ASSUME NEW a \in Addresses, Move(a) PROVE IInv'
  <2>1. /\ status = "placed" /\ asked' = a
        /\ meant' = meant /\ origin' = origin /\ first' = first
    BY <1>2 DEF Move
  <2>2. /\ meant \in Instrs /\ origin \in Addresses /\ at \in Addresses
        /\ first = Encode(meant) /\ first # Invalid /\ Holds(meant, origin, word, at)
    BY <2>1 DEF IInv
  <2>3. CASE relocateInstruction(word, at, a) # Invalid
    <3>1. word' = relocateInstruction(word, at, a) /\ at' = a /\ status' = "placed"
      BY <1>2, <2>1, <2>3 DEF Move
    <3>2. Holds(meant, origin, relocateInstruction(word, at, a), a)
      BY <2>2, <2>3, HoldsMoved, ConstantTypes
    <3> QED
      BY <2>1, <2>2, <3>1, <3>2 DEF IInv
  <2>4. CASE relocateInstruction(word, at, a) = Invalid
    <3>1. status' = "refused" /\ word' = word /\ at' = at
      BY <1>2, <2>4 DEF Move
    <3> QED
      BY <2>1, <2>2, <2>4, <3>1 DEF IInv
  <2> QED
    BY <2>3, <2>4
<1>3. CASE UNCHANGED vars
  BY <1>3 DEF vars, IInv
<1> QED
  BY <1>1, <1>2, <1>3 DEF Next

-----------------------------------------------------------------------------
(***************************************************************************)
(* The theorems.                                                           *)
(***************************************************************************)

\* For every instruction the encoders of encode.hpp can be asked for and every
\* chain of addresses relocateDisplacedInstructions moves it along: to the
\* processor the word is the instruction that was asked for, and a relative
\* branch keeps its form, condition, link bit and target.  The one field that
\* does not come back is the MB field of rldicl, unless all its bits are equal
\* (encode.hpp:118-124 stores it unsplit).
THEOREM MeaningIsKept ==
  ASSUME \A i \in Instrs : i.op = "rldicl" => i.mb \in {0, 63}
  PROVE  Spec => []MeaningKept
<1>1. IInv => MeaningKept
  <2> SUFFICES ASSUME IInv, status \in {"placed", "refused"}
               PROVE  IF Relative(meant)
                      THEN /\ [Decode(word) EXCEPT !.imm = 0] = [meant EXCEPT !.imm = 0]
                           /\ DirectTarget(Decode(word), at) = DirectTarget(meant, origin)
                      ELSE Decode(word) = meant
    BY DEF MeaningKept
  <2>1. /\ meant \in Instrs /\ meant \in Instructions
        /\ Encode(meant) # Invalid /\ Holds(meant, origin, word, at)
    BY ConstantTypes DEF IInv
  <2>2. CASE ~ Relative(meant)
    <3>1. word = Encode(meant)
      BY <2>1, <2>2 DEF Holds
    <3>2. Decode(word) = Seen(meant)
      BY <2>1, <3>1, EncodeDecode
    <3>3. Seen(meant) = meant
      <4>1. CASE meant.op = "rldicl"
        <5>1. meant.mb \in {0, 63}
          BY <2>1, <4>1
        <5>2. Rotated(0) = 0 /\ Rotated(63) = 63
          BY SMT DEF Rotated
        <5>3. Rotated(meant.mb) = meant.mb
          BY <5>1, <5>2
        <5>4. meant \in [op : {"rldicl"}, t : Register, a : Register, sh : 0 .. 63, mb : 0 .. 63, rc : Bit]
          BY SMT, <2>1, <4>1 DEF Instructions
        <5> QED
          BY <4>1, <5>3, <5>4 DEF Seen
      <4>2. CASE meant.op # "rldicl"
        BY <4>2 DEF Seen
      <4> QED
        BY <4>1, <4>2
    <3> QED
      BY <2>2, <3>2, <3>3
  <2>3. CASE Relative(meant)
    <3>1. PICK e \in Int : /\ Representable(meant, e) /\ word = Encode(With(meant, e))
                           /\ (at + e) % AddrMod = (origin + meant.imm) % AddrMod
      BY <2>1, <2>3 DEF Holds
    <3>2. Decode(word) = With(meant, e)
      BY <2>1, <2>3, <3>1, WithDisplacement
    <3>3. [With(meant, e) EXCEPT !.imm = 0] = [meant EXCEPT !.imm = 0]
      BY <2>1, <2>3, RelativeKinds DEF With
    <3>4. With(meant, e).imm = e /\ With(meant, e).aa = 0 /\ meant.aa = 0
      BY <2>1, <2>3, RelativeKinds DEF With, Relative
    <3>5. DirectTarget(With(meant, e), at) = (at + e) % AddrMod
      BY <3>4 DEF DirectTarget
    <3>6. DirectTarget(meant, origin) = (origin + meant.imm) % AddrMod
      BY <3>4 DEF DirectTarget
    <3> QED
      BY ONLY <2>3, <3>1, <3>2, <3>3, <3>5, <3>6
  <2> QED
    BY <2>2, <2>3
<1> QED
  BY InitIInv, NextIInv, <1>1, PTL DEF Spec

\* Relocation loses nothing: back at its first address, after any detour through
\* relocateBranch (decode.hpp:129-148), an instruction is the word it was.
THEOREM ComesBackHome == Spec => []BackHome
<1>1. IInv => BackHome
  <2> SUFFICES ASSUME IInv, status = "placed", at = origin PROVE word = first
    BY DEF BackHome
  <2>1. /\ meant \in Instructions /\ at \in Address /\ first = Encode(meant)
        /\ Encode(meant) # Invalid /\ Holds(meant, origin, word, at)
    BY ConstantTypes DEF IInv
  <2>2. CASE ~ Relative(meant)
    BY <2>1, <2>2 DEF Holds
  <2>3. CASE Relative(meant)
    <3>1. PICK e \in Int : /\ Representable(meant, e) /\ word = Encode(With(meant, e))
                           /\ (at + e) % AddrMod = (at + meant.imm) % AddrMod
      BY <2>1, <2>3 DEF Holds
    <3>2. meant.imm \in Int /\ meant.op \in {"b", "bc"}
      BY <2>1, <2>3, RelativeKinds DEF Relative
    <3>3. With(meant, meant.imm) = meant
      BY <2>1, <2>3, RelativeKinds DEF With
    <3>4. Representable(meant, meant.imm)
      BY <2>1, <2>3, <3>2, <3>3, WithDisplacement
    <3>5. /\ LIRange(e) \/ BDRange(e)
          /\ LIRange(meant.imm) \/ BDRange(meant.imm)
      BY <3>1, <3>2, <3>4, RepresentableRange
    <3>6. e = meant.imm
      BY <2>1, <3>1, <3>2, <3>5, SameDisplacement
    <3> QED
      BY ONLY <2>1, <3>1, <3>3, <3>6
  <2> QED
    BY <2>2, <2>3
<1> QED
  BY InitIInv, NextIInv, <1>1, PTL DEF Spec

\* An encoder throws only for a displacement that its field cannot hold, and
\* relocateBranch refuses (encode.hpp:146-177, decode.hpp:129-148) only if the
\* target is out of reach of the new address.
THEOREM RefusesOnlyTheUnreachable == Spec => []RefusedOnlyIfUnreachable
<1>1. IInv => RefusedOnlyIfUnreachable
  <2> SUFFICES ASSUME IInv PROVE RefusedOnlyIfUnreachable
    OBVIOUS
  <2>1. status = "rejected" => ~ Representable(meant, meant.imm)
    BY ConstantTypes, EncodeDecode DEF IInv
  <2>2. ASSUME status = "refused"
        PROVE  ~ Representable(meant, DirectTarget(meant, origin) - asked)
    <3>1. /\ meant \in Instructions /\ origin \in Address /\ at \in Address /\ asked \in Address
          /\ Encode(meant) # Invalid /\ Holds(meant, origin, word, at)
          /\ relocateInstruction(word, at, asked) = Invalid
      BY <2>2, ConstantTypes DEF IInv
    <3>2. Relative(meant) /\ ~ Representable(meant, ((origin + meant.imm) % AddrMod) - asked)
      BY <3>1, HoldsMoved
    <3>3. DirectTarget(meant, origin) = (origin + meant.imm) % AddrMod
      BY <3>2 DEF DirectTarget, Relative
    <3> QED
      BY ONLY <3>2, <3>3
  <2> QED
    BY <2>1, <2>2 DEF RefusedOnlyIfUnreachable
<1> QED
  BY InitIInv, NextIInv, <1>1, PTL DEF Spec

\* classify (decode.hpp:57-114) agrees with the processor about every word the
\* encoders and the relocator make: which words depend on their address, which
\* branch where, which leave a return address.
THEOREM ClassifiesRight == Spec => []ClassifiedRight
<1>1. IInv => ClassifiedRight
  <2> SUFFICES ASSUME IInv, status = "placed" PROVE ClassifiedRight
    BY DEF ClassifiedRight
  <2>1. /\ meant \in Instructions /\ Encode(meant) # Invalid /\ Holds(meant, origin, word, at)
    BY ConstantTypes DEF IInv
  <2>2. word \in Word
    <3>1. CASE ~ Relative(meant)
      BY <2>1, <3>1, EncodeDecode DEF Holds
    <3>2. CASE Relative(meant)
      BY <2>1, <3>2, WithDisplacement DEF Holds
    <3> QED
      BY <3>1, <3>2
  <2>3. Agrees(classify(word), Decode(word), at)
    BY <2>2, ClassifyAgrees
  <2> QED
    BY <2>3 DEF Agrees, ClassifiedRight
<1> QED
  BY InitIInv, NextIInv, <1>1, PTL DEF Spec
=============================================================================
