------------------------------ MODULE ElfProofs ------------------------------
(***************************************************************************)
(* Lemmas about the operators of Bytes and about the operations of         *)
(* elf::ElfFile as Elf defines them, for every buffer, every argument and  *)
(* every ByteBase: what a store leaves in a struct, that a load gives back *)
(* what was stored, what serialize()'s writes leave where in the buffer,   *)
(* what parse() has checked, where serialize() puts what, and what each    *)
(* mutator keeps.                                                          *)
(***************************************************************************)
EXTENDS Elf, TLAPS, WellFoundedInduction

Width  == {2, 4, 8}
Endian == {"Big", "Little"}

-----------------------------------------------------------------------------
(* Sequences. *)

\* The bytes and the length of a concatenation.
LEMMA Concat ==
  ASSUME NEW a \in Seq(Byte), NEW b \in Seq(Byte)
  PROVE  /\ a \o b \in Seq(Byte) /\ Len(a \o b) = Len(a) + Len(b)
         /\ \A i \in 1..Len(a) : (a \o b)[i] = a[i]
         /\ \A i \in 1..Len(b) : (a \o b)[Len(a) + i] = b[i]
  OBVIOUS

\* The bytes and the length of a part of a buffer.
LEMMA SubSeqOf ==
  ASSUME NEW a \in Seq(Byte), NEW m \in Nat, NEW n \in Nat,
         m >= 1, n <= Len(a), m <= n + 1
  PROVE  /\ SubSeq(a, m, n) \in Seq(Byte) /\ Len(SubSeq(a, m, n)) = n - m + 1
         /\ \A i \in 1..(n - m + 1) : SubSeq(a, m, n)[i] = a[m + i - 1]
  OBVIOUS

\* A function on 1..n is a buffer of n bytes.
LEMMA BytesOf ==
  ASSUME NEW n \in Nat, NEW s \in [1..n -> Byte]
  PROVE  s \in Seq(Byte) /\ Len(s) = n
  OBVIOUS

\* Two buffers of one length with the same bytes are equal.
LEMMA SameBytes ==
  ASSUME NEW a \in Seq(Byte), NEW b \in Seq(Byte), Len(a) = Len(b), \A i \in 1..Len(a) : a[i] = b[i]
  PROVE  a = b
  OBVIOUS

-----------------------------------------------------------------------------
(* Arithmetic. *)

\* Quotient and remainder of one division.
LEMMA DivMod ==
  ASSUME NEW m \in Nat, m > 0, NEW x \in Nat
  PROVE  /\ x \div m \in Nat /\ x % m \in Nat /\ x % m < m
         /\ x = (x \div m) * m + (x % m)
  OBVIOUS

\* A quotient is below n when the dividend is below n times the divisor.
LEMMA DivUpper ==
  ASSUME NEW m \in Nat, m > 0, NEW n \in Nat, NEW x \in Nat, x < n * m
  PROVE  x \div m < n
<1> DEFINE q == x \div m
<1>1. q \in Nat /\ q * m <= x
  BY DivMod
<1> HIDE DEF q
<1>2. ASSUME q >= n PROVE FALSE
  <2>1. q * m >= n * m
    BY <1>1, <1>2
  <2> QED  BY <2>1, <1>1
<1> QED  BY <1>1, <1>2 DEF q

\* A set of naturals that is not empty has a least element.
LEMMA LeastNatural ==
  ASSUME NEW T, T \subseteq Nat, T # {}
  PROVE  \E x \in T : \A y \in T : x <= y
<1> DEFINE R == {ss \in Nat \X Nat : ss[1] < ss[2]}
<1>1. IsWellFoundedOn(R, Nat)
  BY NatLessThanWellFounded DEF OpToRel
<1>m. \A x, y \in Nat : y < x => <<y, x>> \in R
  OBVIOUS
<1> HIDE DEF R
<1>2. PICK x \in T : \A y \in T : ~ (<<y, x>> \in R)
  BY <1>1, WFMin
<1>3. \A y \in T : x <= y
  <2> TAKE y \in T
  <2>1. x \in Nat /\ y \in Nat
    OBVIOUS
  <2>2. ~ (y < x)
    BY <2>1, <1>2, <1>m, Zenon
  <2> QED  BY <2>1, <2>2
<1> QED BY <1>3

\* The widths are positive and each is the square of the one before.
LEMMA Moduli ==
  /\ ByteBase \in Nat /\ ByteBase > 1
  /\ U16 \in Nat /\ U16 > ByteBase /\ U16 = ByteBase * ByteBase
  /\ U32 \in Nat /\ U32 > U16 /\ U32 = U16 * U16
  /\ U64 \in Nat /\ U64 > U32 /\ U64 = U32 * U32
<1>0. ByteBase \in Nat /\ ByteBase > 1
  BY ByteBaseAssumption
<1>s. ASSUME NEW a \in Nat, a > 1 PROVE a * a \in Nat /\ a * a > a
  BY <1>s
<1>1. U16 \in Nat /\ U16 > ByteBase
  BY <1>0, <1>s DEF U16
<1>2. U32 \in Nat /\ U32 > U16
  BY <1>0, <1>1, <1>s DEF U32
<1>3. U64 \in Nat /\ U64 > U32
  BY <1>0, <1>1, <1>2, <1>s DEF U64
<1> QED  BY <1>0, <1>1, <1>2, <1>3 DEF U16, U32, U64

-----------------------------------------------------------------------------
(* Big-endian representations. *)

\* A 16-bit value is two bytes, and Val2 reads it back.
LEMMA BE2Correct ==
  ASSUME NEW v \in Nat, v < U16
  PROVE  /\ BE2(v) \in Seq(Byte) /\ Len(BE2(v)) = 2
         /\ BE2(v)[1] * ByteBase + BE2(v)[2] = v
<1>1. v \div ByteBase \in Nat /\ v % ByteBase \in Nat /\ v % ByteBase < ByteBase
      /\ v = (v \div ByteBase) * ByteBase + (v % ByteBase)
  BY Moduli, DivMod
<1>2. v \div ByteBase < ByteBase
  BY Moduli, DivUpper
<1>3. v \div ByteBase \in Byte /\ v % ByteBase \in Byte
  BY <1>1, <1>2, Moduli DEF Byte
<1> QED  BY <1>1, <1>3 DEF BE2

\* A 32-bit value is four bytes, and Val4 reads it back.
LEMMA BE4Correct ==
  ASSUME NEW v \in Nat, v < U32
  PROVE  /\ BE4(v) \in Seq(Byte) /\ Len(BE4(v)) = 4
         /\ Val4(BE4(v), 1) = v
<1> DEFINE q == v \div U16
           r == v % U16
<1>1. q \in Nat /\ r \in Nat /\ r < U16 /\ v = q * U16 + r
  BY Moduli, DivMod
<1>2. q < U16
  BY Moduli, DivUpper
<1> HIDE DEF q, r
<1>3. /\ BE2(q) \in Seq(Byte) /\ Len(BE2(q)) = 2 /\ BE2(q)[1] * ByteBase + BE2(q)[2] = q
      /\ BE2(r) \in Seq(Byte) /\ Len(BE2(r)) = 2 /\ BE2(r)[1] * ByteBase + BE2(r)[2] = r
  BY <1>1, <1>2, BE2Correct
<1> DEFINE s == BE2(q) \o BE2(r)
<1>4. BE4(v) = s
  BY DEF BE4, q, r
<1> HIDE DEF s
<1>5. /\ s \in Seq(Byte) /\ Len(s) = 4
      /\ s[1] = BE2(q)[1] /\ s[2] = BE2(q)[2] /\ s[3] = BE2(r)[1] /\ s[4] = BE2(r)[2]
  <2> DEFINE x == BE2(q)
             y == BE2(r)
  <2>0. x \in Seq(Byte) /\ Len(x) = 2 /\ y \in Seq(Byte) /\ Len(y) = 2 /\ s = x \o y
    BY <1>3 DEF s
  <2> HIDE DEF x, y
  <2>1. /\ s \in Seq(Byte) /\ Len(s) = 4
        /\ \A k \in 1..2 : s[k] = x[k]
        /\ \A k \in 1..2 : s[2 + k] = y[k]
    BY SMTT(30), <2>0, Concat
  <2> QED  BY <2>1 DEF x, y
<1>6. Val2(s, 1) = q /\ Val2(s, 3) = r
  BY <1>3, <1>5 DEF Val2
<1>7. Val4(s, 1) = q * U16 + r
  BY <1>6 DEF Val4
<1> QED  BY <1>1, <1>4, <1>5, <1>7

\* A 64-bit value is eight bytes, and Val8 reads it back.
LEMMA BE8Correct ==
  ASSUME NEW v \in Nat, v < U64
  PROVE  /\ BE8(v) \in Seq(Byte) /\ Len(BE8(v)) = 8
         /\ Val8(BE8(v), 1) = v
<1> DEFINE q == v \div U32
           r == v % U32
<1>1. q \in Nat /\ r \in Nat /\ r < U32 /\ v = q * U32 + r
  <2>1. U32 \in Nat /\ U32 > 0
    BY Moduli
  <2> QED  BY <2>1, DivMod
<1>2. q < U32
  BY Moduli, DivUpper
<1> HIDE DEF q, r
<1>3. /\ BE4(q) \in Seq(Byte) /\ Len(BE4(q)) = 4 /\ Val4(BE4(q), 1) = q
      /\ BE4(r) \in Seq(Byte) /\ Len(BE4(r)) = 4 /\ Val4(BE4(r), 1) = r
  BY <1>1, <1>2, BE4Correct
<1> DEFINE s == BE4(q) \o BE4(r)
<1>4. BE8(v) = s
  BY DEF BE8, q, r
<1> HIDE DEF s
<1>5. /\ s \in Seq(Byte) /\ Len(s) = 8
      /\ \A k \in 1..4 : s[k] = BE4(q)[k]
      /\ \A k \in 1..4 : s[4 + k] = BE4(r)[k]
  <2> DEFINE x == BE4(q)
             y == BE4(r)
  <2>0. x \in Seq(Byte) /\ Len(x) = 4 /\ y \in Seq(Byte) /\ Len(y) = 4 /\ s = x \o y
    BY <1>3 DEF s
  <2> HIDE DEF x, y
  <2>1. /\ s \in Seq(Byte) /\ Len(s) = 8
        /\ \A k \in 1..4 : s[k] = x[k]
        /\ \A k \in 1..4 : s[4 + k] = y[k]
    <3>1. /\ s \in Seq(Byte) /\ Len(s) = Len(x) + Len(y)
          /\ \A k \in 1..Len(x) : s[k] = x[k]
          /\ \A k \in 1..Len(y) : s[Len(x) + k] = y[k]
      BY <2>0, Concat
    <3> QED  BY <2>0, <3>1
  <2> QED  BY <2>1 DEF x, y
<1>6. /\ s[1] = BE4(q)[1] /\ s[2] = BE4(q)[2] /\ s[3] = BE4(q)[3] /\ s[4] = BE4(q)[4]
      /\ s[5] = BE4(r)[1] /\ s[6] = BE4(r)[2] /\ s[7] = BE4(r)[3] /\ s[8] = BE4(r)[4]
  BY <1>5
<1>8. Val4(s, 1) = Val4(BE4(q), 1) /\ Val4(s, 5) = Val4(BE4(r), 1)
  BY <1>6 DEF Val4, Val2
<1>7. Val8(s, 1) = q * U32 + r
  BY <1>3, <1>8 DEF Val8
<1> QED  BY <1>1, <1>4, <1>5, <1>7

-----------------------------------------------------------------------------
(* Stores and loads. *)

\* A cast value is below the number of values of its width.
LEMMA CastRange ==
  ASSUME NEW v \in Nat, NEW w \in Width
  PROVE  /\ Cast(v, w) \in Nat
         /\ w = 2 => Cast(v, w) = v % U16 /\ Cast(v, w) < U16
         /\ w = 4 => Cast(v, w) = v % U32 /\ Cast(v, w) < U32
         /\ w = 8 => Cast(v, w) = v % U64 /\ Cast(v, w) < U64
<1>1. /\ U16 \in Nat /\ U16 > 0 /\ U32 \in Nat /\ U32 > 0 /\ U64 \in Nat /\ U64 > 0
  BY Moduli
<1>2. /\ v % U16 \in Nat /\ v % U16 < U16
      /\ v % U32 \in Nat /\ v % U32 < U32
      /\ v % U64 \in Nat /\ v % U64 < U64
  BY <1>1, DivMod
<1> QED  BY <1>2 DEF Cast, Width

\* A value that fits its field is not changed by the cast.
LEMMA CastIdentity ==
  ASSUME NEW v \in Nat, NEW w \in {4, 8}, v < U32
  PROVE  Cast(v, w) = v
<1>1. /\ U32 \in Nat /\ U32 > 0 /\ U64 \in Nat /\ U64 > 0 /\ v < U64
  BY Moduli
<1>2. v % U32 = v /\ v % U64 = v
  BY <1>1
<1> QED  BY <1>2 DEF Cast

\* The big-endian bytes of a value cast to w bytes.
BE(v, w) == CASE w = 2 -> BE2(Cast(v, w)) [] w = 4 -> BE4(Cast(v, w)) [] w = 8 -> BE8(Cast(v, w))

\* Endianed stores a value in exactly the bytes of its width, whatever the width.
LEMMA BEShape ==
  ASSUME NEW v \in Nat, NEW w \in Width
  PROVE  BE(v, w) \in Seq(Byte) /\ Len(BE(v, w)) = w
<1>1. CASE w = 2
  BY <1>1, CastRange, BE2Correct DEF BE
<1>2. CASE w = 4
  BY <1>2, CastRange, BE4Correct DEF BE
<1>3. CASE w = 8
  BY <1>3, CastRange, BE8Correct DEF BE
<1> QED  BY <1>1, <1>2, <1>3 DEF Width

\* The same in either byte order.
LEMMA StoredShape ==
  ASSUME NEW v \in Nat, NEW w \in Width, NEW e \in Endian
  PROVE  /\ Stored(v, w, e) \in Seq(Byte) /\ Len(Stored(v, w, e)) = w
         /\ \A k \in 1..w : Stored(v, w, e)[k] = IF e = "Big" THEN BE(v, w)[k] ELSE BE(v, w)[w + 1 - k]
<1> DEFINE b == BE(v, w)
<1>0. w \in Nat
  BY DEF Width
<1>1. b \in Seq(Byte) /\ Len(b) = w
  BY BEShape
<1>2. Stored(v, w, e) = [k \in 1..w |-> IF e = "Big" THEN b[k] ELSE b[w + 1 - k]]
  BY DEF Stored, BE
<1> HIDE DEF b
<1>3. \A k \in 1..w : b[k] \in Byte /\ b[w + 1 - k] \in Byte
  BY <1>0, <1>1
<1>4. [k \in 1..w |-> IF e = "Big" THEN b[k] ELSE b[w + 1 - k]] \in [1..w -> Byte]
  BY <1>3
<1> QED  BY <1>0, <1>1, <1>2, <1>4 DEF b

\* Endianed::set changes the bytes of its field and no other, nor the size.
LEMMA StoreShape ==
  ASSUME NEW s \in Seq(Byte), NEW p \in Nat, NEW w \in Width, NEW e \in Endian, NEW v \in Nat,
         p + w <= Len(s)
  PROVE  /\ Store(s, p, w, e, v) \in Seq(Byte)
         /\ Len(Store(s, p, w, e, v)) = Len(s)
         /\ \A i \in 1..Len(s) : i \notin (p + 1)..(p + w) => Store(s, p, w, e, v)[i] = s[i]
         /\ \A k \in 1..w : Store(s, p, w, e, v)[p + k] = Stored(v, w, e)[k]
<1> DEFINE a == SubSeq(s, 1, p)
           m == Stored(v, w, e)
           z == SubSeq(s, p + w + 1, Len(s))
           am == a \o m
<1>0. w \in Nat /\ Len(s) \in Nat
  BY DEF Width
<1>1. a \in Seq(Byte) /\ Len(a) = p /\ \A i \in 1..p : a[i] = s[i]
  BY <1>0, SubSeqOf
<1>2. m \in Seq(Byte) /\ Len(m) = w
  BY StoredShape
<1>3. /\ z \in Seq(Byte) /\ Len(z) = Len(s) - (p + w)
      /\ \A i \in 1..(Len(s) - (p + w)) : z[i] = s[p + w + i]
  BY <1>0, SubSeqOf
<1>4. Store(s, p, w, e, v) = am \o z
  BY DEF Store
<1> HIDE DEF a, m, z
<1>5. /\ am \in Seq(Byte) /\ Len(am) = p + w
      /\ \A i \in 1..p : am[i] = a[i]
      /\ \A i \in 1..w : am[p + i] = m[i]
  BY <1>1, <1>2, Concat
<1> HIDE DEF am
<1>6. /\ am \o z \in Seq(Byte) /\ Len(am \o z) = Len(s)
      /\ \A i \in 1..(p + w) : (am \o z)[i] = am[i]
      /\ \A i \in 1..(Len(s) - (p + w)) : (am \o z)[p + w + i] = z[i]
  <2>1. /\ am \o z \in Seq(Byte) /\ Len(am \o z) = Len(am) + Len(z)
        /\ \A i \in 1..Len(am) : (am \o z)[i] = am[i]
        /\ \A i \in 1..Len(z) : (am \o z)[Len(am) + i] = z[i]
    BY <1>3, <1>5, Concat
  <2> QED  BY <2>1, <1>0, <1>3, <1>5
<1> DEFINE t == am \o z
<1>t. t = Store(s, p, w, e, v)
  BY <1>4
<1> HIDE DEF t
<1>7. ASSUME NEW i \in 1..Len(s), i \notin (p + 1)..(p + w) PROVE t[i] = s[i]
  <2>1. CASE i <= p
    BY <2>1, <1>0, <1>1, <1>5, <1>6 DEF t
  <2>2. CASE i > p + w
    <3>1. i - (p + w) \in 1..(Len(s) - (p + w)) /\ p + w + (i - (p + w)) = i
      BY <2>2, <1>0
    <3> QED  BY <3>1, <1>0, <1>3, <1>6 DEF t
  <2> QED  BY <1>7, <2>1, <2>2, <1>0
<1>8. \A k \in 1..w : t[p + k] = m[k]
  BY <1>0, <1>5, <1>6 DEF t
<1> QED  BY <1>6, <1>7, <1>8, <1>t DEF t, m

\* Endianed::get after Endianed::set, in both byte orders.
LEMMA LoadStore ==
  ASSUME NEW s \in Seq(Byte), NEW p \in Nat, NEW w \in Width, NEW e \in Endian, NEW v \in Nat,
         p + w <= Len(s)
  PROVE  Load(Store(s, p, w, e, v), p, w, e) = Cast(v, w)
<1> DEFINE t == Store(s, p, w, e, v)
           b == BE(v, w)
           d == [k \in 1..w |-> IF e = "Big" THEN t[p + k] ELSE t[p + w + 1 - k]]
<1>0. w \in Nat
  BY DEF Width
<1>1. \A k \in 1..w : t[p + k] = IF e = "Big" THEN b[k] ELSE b[w + 1 - k]
  BY StoreShape, StoredShape
<1>2. Load(t, p, w, e) = CASE w = 2 -> Val2(d, 1) [] w = 4 -> Val4(d, 1) [] w = 8 -> Val8(d, 1)
  BY DEF Load
<1> HIDE DEF t, b
<1>3. \A k \in 1..w : d[k] = b[k]
  <2>1. CASE e = "Big"
    BY <2>1, <1>1
  <2>2. CASE e # "Big"
    <3> TAKE k \in 1..w
    <3>1. w + 1 - k \in 1..w /\ p + (w + 1 - k) = p + w + 1 - k /\ w + 1 - (w + 1 - k) = k
      BY <1>0
    <3> QED  BY <2>2, <3>1, <1>1
  <2> QED  BY <2>1, <2>2
<1> HIDE DEF d
<1>4. CASE w = 2
  <2>1. d[1] = b[1] /\ d[2] = b[2]
    BY <1>3, <1>4
  <2>2. Val2(d, 1) = Cast(v, w)
    BY <2>1, <1>4, CastRange, BE2Correct DEF b, BE, Val2
  <2> QED  BY <2>2, <1>2, <1>4 DEF t
<1>5. CASE w = 4
  <2>1. d[1] = b[1] /\ d[2] = b[2] /\ d[3] = b[3] /\ d[4] = b[4]
    BY <1>3, <1>5
  <2>2. Val4(d, 1) = Val4(b, 1)
    BY <2>1 DEF Val4, Val2
  <2>3. Val4(b, 1) = Cast(v, w)
    BY <1>5, CastRange, BE4Correct DEF b, BE
  <2> QED  BY <2>2, <2>3, <1>2, <1>5 DEF t
<1>6. CASE w = 8
  <2>1. /\ d[1] = b[1] /\ d[2] = b[2] /\ d[3] = b[3] /\ d[4] = b[4]
        /\ d[5] = b[5] /\ d[6] = b[6] /\ d[7] = b[7] /\ d[8] = b[8]
    BY <1>3, <1>6
  <2>2. Val8(d, 1) = Val8(b, 1)
    BY <2>1 DEF Val8, Val4, Val2
  <2>3. Val8(b, 1) = Cast(v, w)
    BY <1>6, CastRange, BE8Correct DEF b, BE
  <2> QED  BY <2>2, <2>3, <1>2, <1>6 DEF t
<1> QED  BY <1>4, <1>5, <1>6 DEF Width

\* A load looks at the bytes of its field only.
LEMMA LoadSame ==
  ASSUME NEW s \in Seq(Byte), NEW t \in Seq(Byte), NEW p \in Nat, NEW w \in Width, NEW e \in Endian,
         \A k \in 1..w : s[p + k] = t[p + k]
  PROVE  Load(s, p, w, e) = Load(t, p, w, e)
<1>0. w \in Nat
  BY DEF Width
<1>1. \A k \in 1..w : s[p + w + 1 - k] = t[p + w + 1 - k]
  <2> TAKE k \in 1..w
  <2>1. w + 1 - k \in 1..w /\ p + (w + 1 - k) = p + w + 1 - k
    BY <1>0
  <2> QED  BY <2>1
<1>2. [k \in 1..w |-> IF e = "Big" THEN s[p + k] ELSE s[p + w + 1 - k]]
      = [k \in 1..w |-> IF e = "Big" THEN t[p + k] ELSE t[p + w + 1 - k]]
  BY <1>1
<1> QED  BY <1>2 DEF Load

\* A number with a high part below m and a low part below b is below m * b.
LEMMA Combine ==
  ASSUME NEW m \in Nat, NEW b \in Nat, NEW a \in Nat, NEW c \in Nat, a < m, c < b
  PROVE  a * b + c \in Nat /\ a * b + c < m * b
<1>1. a * b \in Nat
  BY SMT
<1>2. (a + 1) * b <= m * b
  BY SMT
<1>3. (a + 1) * b = a * b + b
  BY SMT
<1> DEFINE x == a * b
           y == m * b
<1>4. x \in Nat /\ y \in Int /\ x + b <= y
  BY <1>1, <1>2, <1>3, SMT
<1> HIDE DEF x, y
<1>5. x + c \in Nat /\ x + c < y
  BY <1>4, SMT
<1> QED  BY <1>5 DEF x, y

\* One more than the largest value of w bytes.
Modulus(w) == CASE w = 2 -> U16 [] w = 4 -> U32 [] w = 8 -> U64

\* Endianed::get returns a number of its width.
LEMMA LoadType ==
  ASSUME NEW s \in Seq(Byte), NEW p \in Nat, NEW w \in Width, NEW e, p + w <= Len(s)
  PROVE  Load(s, p, w, e) \in Nat /\ Load(s, p, w, e) < Modulus(w)
<1> DEFINE d == [k \in 1..w |-> IF e = "Big" THEN s[p + k] ELSE s[p + w + 1 - k]]
<1>0. w \in Nat /\ Len(s) \in Nat /\ ByteBase \in Nat /\ U16 \in Nat /\ U32 \in Nat
  BY Moduli DEF Width
<1>1. \A i \in 1..Len(s) : s[i] \in Nat /\ s[i] < ByteBase
  BY <1>0 DEF Byte
<1>2. \A k \in 1..w : d[k] \in Nat /\ d[k] < ByteBase
  <2> TAKE k \in 1..w
  <2>1. p + k \in 1..Len(s) /\ p + w + 1 - k \in 1..Len(s)
    BY <1>0
  <2> QED  BY <2>1, <1>1
<1>3. Load(s, p, w, e) = CASE w = 2 -> Val2(d, 1) [] w = 4 -> Val4(d, 1) [] w = 8 -> Val8(d, 1)
  BY DEF Load
<1> DEFINE N1(x) == x \in Nat /\ x < ByteBase
           N2(x) == x \in Nat /\ x < U16
           N4(x) == x \in Nat /\ x < U32
<1> HIDE DEF d
<1>v2. ASSUME NEW i \in Nat, N1(d[i]), N1(d[i + 1]) PROVE N2(Val2(d, i))
  BY ONLY <1>0, <1>v2, Combine DEF Val2, U16
<1>v4. ASSUME NEW i \in Nat, N2(Val2(d, i)), N2(Val2(d, i + 2)) PROVE N4(Val4(d, i))
  BY ONLY <1>0, <1>v4, Combine DEF Val4, U32
<1>v8. ASSUME NEW i \in Nat, N4(Val4(d, i)), N4(Val4(d, i + 4))
       PROVE  Val8(d, i) \in Nat /\ Val8(d, i) < U64
  BY ONLY <1>0, <1>v8, Combine DEF Val8, U64
<1>4. CASE w = 2
  <2>1. N1(d[1]) /\ N1(d[1 + 1])
    BY <1>2, <1>4
  <2>2. N2(Val2(d, 1))
    BY <2>1, <1>v2
  <2> QED  BY <2>2, <1>3, <1>4 DEF Modulus
<1>5. CASE w = 4
  <2>1. N1(d[1]) /\ N1(d[1 + 1]) /\ N1(d[3]) /\ N1(d[3 + 1])
    BY <1>2, <1>5
  <2>2. N2(Val2(d, 1)) /\ N2(Val2(d, 3))
    BY <2>1, <1>v2
  <2>3. N4(Val4(d, 1))
    BY <2>2, <1>v4
  <2> QED  BY <2>3, <1>3, <1>5 DEF Modulus
<1>6. CASE w = 8
  <2>1. /\ N1(d[1]) /\ N1(d[1 + 1]) /\ N1(d[3]) /\ N1(d[3 + 1])
        /\ N1(d[5]) /\ N1(d[5 + 1]) /\ N1(d[7]) /\ N1(d[7 + 1])
    BY <1>2, <1>6
  <2>2. N2(Val2(d, 1)) /\ N2(Val2(d, 3)) /\ N2(Val2(d, 5)) /\ N2(Val2(d, 7))
    BY <2>1, <1>v2
  <2>3. N4(Val4(d, 1)) /\ N4(Val4(d, 5))
    BY <2>2, <1>v4
  <2>4. Val8(d, 1) \in Nat /\ Val8(d, 1) < U64
    BY <2>3, <1>v8
  <2> QED  BY <2>4, <1>3, <1>6 DEF Modulus
<1> QED  BY <1>4, <1>5, <1>6 DEF Width

\* Two fields of a struct that do not overlap.
Apart(p, w, q, x) == p + w <= q \/ q + x <= p

\* Assigning one field leaves a field apart from it as it was.
LEMMA LoadApart ==
  ASSUME NEW s \in Seq(Byte), NEW p \in Nat, NEW w \in Width, NEW e \in Endian, NEW v \in Nat,
         p + w <= Len(s), NEW q \in Nat, NEW x \in Width, q + x <= Len(s), Apart(p, w, q, x)
  PROVE  Load(Store(s, p, w, e, v), q, x, e) = Load(s, q, x, e)
<1> DEFINE t == Store(s, p, w, e, v)
<1>0. w \in Nat /\ x \in Nat /\ Len(s) \in Nat
  BY DEF Width
<1>1. t \in Seq(Byte) /\ \A i \in 1..Len(s) : i \notin (p + 1)..(p + w) => t[i] = s[i]
  BY StoreShape
<1> HIDE DEF t
<1>2. \A k \in 1..x : t[q + k] = s[q + k]
  <2> TAKE k \in 1..x
  <2>1. q + k \in 1..Len(s) /\ q + k \notin (p + 1)..(p + w)
    BY <1>0 DEF Apart
  <2> QED  BY <2>1, <1>1
<1>3. Load(t, q, x, e) = Load(s, q, x, e)
  BY <1>1, <1>2, LoadSame
<1> QED  BY <1>3 DEF t

-----------------------------------------------------------------------------
(* Regions. *)

\* readStruct of a region inside the buffer: its bytes and its length.
LEMMA SliceShape ==
  ASSUME NEW b \in Seq(Byte), NEW off \in Nat, NEW n \in Nat, off + n <= Len(b)
  PROVE  /\ Slice(b, off, n) \in Seq(Byte) /\ Len(Slice(b, off, n)) = n
         /\ \A i \in 1..n : Slice(b, off, n)[i] = b[off + i]
<1>1. off + 1 \in Nat /\ off + n \in Nat /\ off + 1 >= 1 /\ off + 1 <= off + n + 1
  OBVIOUS
<1>2. /\ SubSeq(b, off + 1, off + n) \in Seq(Byte)
      /\ Len(SubSeq(b, off + 1, off + n)) = off + n - (off + 1) + 1
      /\ \A i \in 1..(off + n - (off + 1) + 1) : SubSeq(b, off + 1, off + n)[i] = b[off + 1 + i - 1]
  BY <1>1, SubSeqOf
<1>3. off + n - (off + 1) + 1 = n /\ \A i \in 1..n : off + 1 + i - 1 = off + i
  OBVIOUS
<1> QED  BY <1>2, <1>3 DEF Slice

\* The first n bytes of a buffer.
LEMMA PrefixShape ==
  ASSUME NEW b \in Seq(Byte), NEW n \in Nat, n <= Len(b)
  PROVE  /\ Slice(b, 0, n) \in Seq(Byte) /\ Len(Slice(b, 0, n)) = n
         /\ \A i \in 1..n : Slice(b, 0, n)[i] = b[i]
<1>1. Slice(b, 0, n) = SubSeq(b, 1, n)
  BY DEF Slice
<1> HIDE DEF Slice
<1>2. SubSeq(b, 1, n) \in Seq(Byte) /\ Len(SubSeq(b, 1, n)) = n
  OBVIOUS
<1>3. \A i \in 1..n : SubSeq(b, 1, n)[i] = b[i]
  OBVIOUS
<1> QED  BY ONLY <1>1, <1>2, <1>3

\* A value-initialised struct is a sequence of zero bytes.
LEMMA ZerosShape ==
  ASSUME NEW n \in Nat
  PROVE  Zeros(n) \in Seq(Byte) /\ Len(Zeros(n)) = n
<1>1. 0 \in Byte
  BY Moduli DEF Byte
<1>2. Zeros(n) \in [1..n -> Byte]
  BY <1>1 DEF Zeros
<1> QED  BY <1>2

\* writeStruct leaves the struct at its offset and every other byte as it was.
LEMMA WriteStructShape ==
  ASSUME NEW buf \in Seq(Byte), NEW off \in Nat, NEW s \in Seq(Byte)
  PROVE  /\ writeStruct(buf, off, s) \in Seq(Byte)
         /\ Len(writeStruct(buf, off, s)) = IF off + Len(s) > Len(buf) THEN off + Len(s) ELSE Len(buf)
         /\ \A i \in 1..Len(s) : writeStruct(buf, off, s)[off + i] = s[i]
         /\ \A i \in 1..Len(buf) : i \notin (off + 1)..(off + Len(s))
                                     => writeStruct(buf, off, s)[i] = buf[i]
<1> DEFINE need == off + Len(s)
           g    == ensureCapacity(buf, need)
           a    == SubSeq(g, 1, off)
           z    == SubSeq(g, need + 1, Len(g))
           front   == a \o s
           t    == front \o z
<1>0. Len(s) \in Nat /\ Len(buf) \in Nat /\ need \in Nat /\ need = off + Len(s)
  OBVIOUS
<1>w. writeStruct(buf, off, s) = t
  BY DEF writeStruct
<1> HIDE DEF need
<1>1. /\ g \in Seq(Byte) /\ Len(g) = IF need > Len(buf) THEN need ELSE Len(buf)
      /\ \A i \in 1..Len(buf) : g[i] = buf[i]
  <2>1. CASE need > Len(buf)
    <3> DEFINE zz == Zeros(need - Len(buf))
    <3>0. need - Len(buf) \in Nat
      BY <2>1, <1>0
    <3>1. zz \in Seq(Byte) /\ Len(zz) = need - Len(buf)
      BY <3>0, ZerosShape
    <3>2. g = buf \o zz
      BY <2>1 DEF ensureCapacity
    <3> HIDE DEF zz, g
    <3>3. g \in Seq(Byte) /\ Len(g) = Len(buf) + Len(zz) /\ \A i \in 1..Len(buf) : g[i] = buf[i]
      BY <3>1, <3>2, Concat
    <3> QED  BY <3>1, <3>3, <2>1, <1>0
  <2>2. CASE ~ (need > Len(buf))
    BY <2>2 DEF ensureCapacity
  <2> QED  BY <2>1, <2>2
<1> HIDE DEF g
<1>2. Len(g) \in Nat /\ need <= Len(g) /\ Len(buf) <= Len(g) /\ off <= Len(g)
  BY <1>0, <1>1
<1>3. a \in Seq(Byte) /\ Len(a) = off /\ \A i \in 1..off : a[i] = g[i]
  <2>1. /\ SubSeq(g, 1, off) \in Seq(Byte) /\ Len(SubSeq(g, 1, off)) = off - 1 + 1
        /\ \A i \in 1..(off - 1 + 1) : SubSeq(g, 1, off)[i] = g[1 + i - 1]
    BY <1>1, <1>2, SubSeqOf
  <2> QED  BY <2>1
<1>4. z \in Seq(Byte) /\ Len(z) = Len(g) - need /\ \A i \in 1..(Len(g) - need) : z[i] = g[need + i]
  <2>1. /\ z \in Seq(Byte) /\ Len(z) = Len(g) - (need + 1) + 1
        /\ \A i \in 1..(Len(g) - (need + 1) + 1) : z[i] = g[(need + 1) + i - 1]
    BY <1>0, <1>1, <1>2, SubSeqOf
  <2> HIDE DEF z
  <2> QED  BY <2>1, <1>0, <1>2
<1> HIDE DEF a, z
<1>5. /\ front \in Seq(Byte) /\ Len(front) = need
      /\ \A i \in 1..off : front[i] = a[i]
      /\ \A i \in 1..Len(s) : front[off + i] = s[i]
  <2>1. /\ front \in Seq(Byte) /\ Len(front) = Len(a) + Len(s)
        /\ \A i \in 1..Len(a) : front[i] = a[i]
        /\ \A i \in 1..Len(s) : front[Len(a) + i] = s[i]
    BY <1>3, Concat
  <2> QED  BY <2>1, <1>0, <1>3
<1> HIDE DEF front
<1>6. /\ t \in Seq(Byte) /\ Len(t) = Len(g)
      /\ \A i \in 1..need : t[i] = front[i]
      /\ \A i \in 1..(Len(g) - need) : t[need + i] = z[i]
  <2>1. /\ t \in Seq(Byte) /\ Len(t) = Len(front) + Len(z)
        /\ \A i \in 1..Len(front) : t[i] = front[i]
        /\ \A i \in 1..Len(z) : t[Len(front) + i] = z[i]
    BY <1>4, <1>5, Concat
  <2>2. Len(front) = need /\ Len(z) = Len(g) - need
    BY <1>4, <1>5
  <2>3. Len(front) + Len(z) = Len(g)
    BY <2>2, <1>0, <1>2
  <2> HIDE DEF t
  <2> QED  BY <2>1, <2>2, <2>3
<1> HIDE DEF t
<1>7. \A i \in 1..Len(s) : t[off + i] = s[i]
  BY <1>0, <1>5, <1>6
<1>8. ASSUME NEW i \in 1..Len(buf), i \notin (off + 1)..need PROVE t[i] = buf[i]
  <2>1. CASE i <= off
    BY <2>1, <1>0, <1>1, <1>3, <1>5, <1>6
  <2>2. CASE i > need
    <3>1. i - need \in 1..(Len(g) - need) /\ need + (i - need) = i
      BY <2>2, <1>0, <1>2
    <3> QED  BY <3>1, <1>1, <1>4, <1>6
  <2> QED  BY <1>8, <2>1, <2>2, <1>0
<1> QED  BY <1>0, <1>1, <1>6, <1>7, <1>8, <1>w

\* The bytes of a table are the bytes of its entries, one entry after the other.
LEMMA FlattenShape ==
  ASSUME NEW items \in Seq(Seq(Byte)), NEW sz \in Nat, sz > 0,
         \A i \in 1..Len(items) : Len(items[i]) = sz
  PROVE  /\ Flatten(items, sz) \in Seq(Byte) /\ Len(Flatten(items, sz)) = Len(items) * sz
         /\ \A k \in 1..(Len(items) * sz) :
              /\ ((k - 1) \div sz) + 1 \in 1..Len(items)
              /\ ((k - 1) % sz) + 1 \in 1..sz
              /\ Flatten(items, sz)[k] = items[((k - 1) \div sz) + 1][((k - 1) % sz) + 1]
              /\ k = ((k - 1) \div sz) * sz + ((k - 1) % sz) + 1
<1> DEFINE n == Len(items) * sz
<1>0. Len(items) \in Nat /\ n \in Nat
  OBVIOUS
<1>1. ASSUME NEW k \in 1..n
      PROVE  /\ ((k - 1) \div sz) + 1 \in 1..Len(items)
             /\ ((k - 1) % sz) + 1 \in 1..sz
             /\ k = ((k - 1) \div sz) * sz + ((k - 1) % sz) + 1
             /\ items[((k - 1) \div sz) + 1][((k - 1) % sz) + 1] \in Byte
  <2> DEFINE x == k - 1
             q == x \div sz
             r == x % sz
  <2>1. x \in Nat /\ x < Len(items) * sz
    BY <1>0
  <2> HIDE DEF x
  <2>2. q \in Nat /\ r \in Nat /\ r < sz /\ x = q * sz + r
    BY <2>1, DivMod
  <2>3. q < Len(items)
    BY <2>1, <1>0, DivUpper
  <2> HIDE DEF q, r
  <2>4. q + 1 \in 1..Len(items) /\ r + 1 \in 1..sz
    BY <2>2, <2>3, <1>0
  <2>5. items[q + 1] \in Seq(Byte) /\ Len(items[q + 1]) = sz
    BY <2>4
  <2>6. items[q + 1][r + 1] \in Byte
    BY <2>4, <2>5
  <2>7. k = x + 1 /\ k = q * sz + r + 1
    BY <2>2 DEF x
  <2> QED  BY <2>4, <2>6, <2>7 DEF q, r, x
<1>2. Flatten(items, sz) \in [1..n -> Byte]
  BY <1>1 DEF Flatten
<1>3. \A k \in 1..n : Flatten(items, sz)[k] = items[((k - 1) \div sz) + 1][((k - 1) % sz) + 1]
  BY DEF Flatten
<1>4. Flatten(items, sz) \in Seq(Byte) /\ Len(Flatten(items, sz)) = n
  <2> HIDE DEF n
  <2> DEFINE ff == Flatten(items, sz)
  <2>1. ff \in [1..n -> Byte]
    BY <1>2
  <2> HIDE DEF ff
  <2>2. ff \in Seq(Byte) /\ Len(ff) = n
    BY <1>0, <2>1
  <2> QED  BY <2>2 DEF ff
<1> QED  BY <1>1, <1>3, <1>4

Class == {32, 64}

-----------------------------------------------------------------------------
(* The struct layouts. *)

\* The header fields the operations read or assign, and the three sizes.
LEMMA HeaderLayout ==
  ASSUME NEW c \in Class
  PROVE  /\ Ehdr(c).e_entry = IF c = 64 THEN <<24, 8>> ELSE <<24, 4>>
         /\ Ehdr(c).e_phoff = IF c = 64 THEN <<32, 8>> ELSE <<28, 4>>
         /\ Ehdr(c).e_shoff = IF c = 64 THEN <<40, 8>> ELSE <<32, 4>>
         /\ Ehdr(c).e_ehsize = IF c = 64 THEN <<52, 2>> ELSE <<40, 2>>
         /\ Ehdr(c).e_phentsize = IF c = 64 THEN <<54, 2>> ELSE <<42, 2>>
         /\ Ehdr(c).e_phnum = IF c = 64 THEN <<56, 2>> ELSE <<44, 2>>
         /\ Ehdr(c).e_shentsize = IF c = 64 THEN <<58, 2>> ELSE <<46, 2>>
         /\ Ehdr(c).e_shnum = IF c = 64 THEN <<60, 2>> ELSE <<48, 2>>
         /\ Ehdr(c).e_shstrndx = IF c = 64 THEN <<62, 2>> ELSE <<50, 2>>
         /\ EhdrSize(c) = IF c = 64 THEN 64 ELSE 52
         /\ PhdrSize(c) = IF c = 64 THEN 56 ELSE 32
         /\ ShdrSize(c) = IF c = 64 THEN 64 ELSE 40
  BY DEF Ehdr, Elf64_Ehdr, Elf32_Ehdr, EhdrSize, PhdrSize, ShdrSize

\* The fields only ps3patch reads.
LEMMA InfoLayout ==
  ASSUME NEW c \in Class
  PROVE  /\ Ehdr(c).e_type = <<16, 2>> /\ Ehdr(c).e_machine = <<18, 2>>
         /\ Ehdr(c).e_flags = IF c = 64 THEN <<48, 4>> ELSE <<36, 4>>
  BY DEF Ehdr, Elf64_Ehdr, Elf32_Ehdr

MutableNames == {"e_entry", "e_phoff", "e_phnum"}
HeaderNames  == {"e_entry", "e_phoff", "e_shoff", "e_ehsize", "e_phentsize", "e_phnum",
                 "e_shentsize", "e_shnum", "e_shstrndx", "e_type", "e_machine", "e_flags"}

\* Every field used lies inside the header, past e_ident.
LEMMA FieldInHeader ==
  ASSUME NEW c \in Class, NEW name \in HeaderNames
  PROVE  /\ Ehdr(c)[name][1] \in Nat /\ Ehdr(c)[name][2] \in Width
         /\ Ehdr(c)[name][1] + Ehdr(c)[name][2] <= EhdrSize(c)
         /\ Ehdr(c)[name][1] >= EI_NIDENT
  BY HeaderLayout, InfoLayout DEF HeaderNames, Width, Class, EI_NIDENT

\* A mutable field overlaps no other field.
LEMMA FieldsApart ==
  ASSUME NEW c \in Class, NEW name \in MutableNames, NEW other \in HeaderNames, name # other
  PROVE  Apart(Ehdr(c)[name][1], Ehdr(c)[name][2], Ehdr(c)[other][1], Ehdr(c)[other][2])
<1>1. CASE c = 64
  <2>1. CASE name = "e_entry"
    BY <1>1, <2>1, HeaderLayout, InfoLayout DEF HeaderNames, Apart
  <2>2. CASE name = "e_phoff"
    BY <1>1, <2>2, HeaderLayout, InfoLayout DEF HeaderNames, Apart
  <2>3. CASE name = "e_phnum"
    BY <1>1, <2>3, HeaderLayout, InfoLayout DEF HeaderNames, Apart
  <2> QED  BY <2>1, <2>2, <2>3 DEF MutableNames
<1>2. CASE c = 32
  <2>1. CASE name = "e_entry"
    BY <1>2, <2>1, HeaderLayout, InfoLayout DEF HeaderNames, Apart
  <2>2. CASE name = "e_phoff"
    BY <1>2, <2>2, HeaderLayout, InfoLayout DEF HeaderNames, Apart
  <2>3. CASE name = "e_phnum"
    BY <1>2, <2>3, HeaderLayout, InfoLayout DEF HeaderNames, Apart
  <2> QED  BY <2>1, <2>2, <2>3 DEF MutableNames
<1> QED  BY <1>1, <1>2 DEF Class

\* t is the header s after the assignment of v to the field.
Assigned(t, s, c, e, name, v) ==
  /\ t \in Seq(Byte) /\ Len(t) = EhdrSize(c)
  /\ \A o \in 0..(EhdrSize(c) - 1) : o \notin FieldOffsets(c, name) => t[o + 1] = s[o + 1]
  /\ \A i \in 1..EI_NIDENT : t[i] = s[i]
  /\ LoadField(t, Ehdr(c)[name], e) = Cast(v, Ehdr(c)[name][2])
  /\ \A other \in HeaderNames : other # name =>
       LoadField(t, Ehdr(c)[other], e) = LoadField(s, Ehdr(c)[other], e)

\* Assigning one of the mutable fields: its value can be read back, the other
\* bytes and so the other fields stay.
LEMMA HeaderStore ==
  ASSUME NEW c \in Class, NEW e \in Endian, NEW s \in Seq(Byte), Len(s) = EhdrSize(c),
         NEW name \in MutableNames, NEW v \in Nat
  PROVE  Assigned(StoreField(s, Ehdr(c)[name], e, v), s, c, e, name, v)
<1> DEFINE p == Ehdr(c)[name][1]
           w == Ehdr(c)[name][2]
           t == Store(s, p, w, e, v)
<1>n. name \in HeaderNames
  BY DEF MutableNames, HeaderNames
<1>1. p \in Nat /\ w \in Width /\ p + w <= Len(s)
  BY <1>n, FieldInHeader
<1>2. FieldOffsets(c, name) = p..(p + w - 1)
  BY DEF FieldOffsets
<1>t. StoreField(s, Ehdr(c)[name], e, v) = t
  BY DEF StoreField
<1>5. LoadField(t, Ehdr(c)[name], e) = Cast(v, w)
  BY <1>1, LoadStore DEF LoadField
<1>6. ASSUME NEW other \in HeaderNames, other # name
      PROVE  LoadField(t, Ehdr(c)[other], e) = LoadField(s, Ehdr(c)[other], e)
  <2> DEFINE q == Ehdr(c)[other][1]
             x == Ehdr(c)[other][2]
  <2>1. q \in Nat /\ x \in Width /\ q + x <= Len(s)
    BY FieldInHeader
  <2>2. Apart(p, w, q, x)
    BY <1>6, FieldsApart
  <2>3. LoadField(t, Ehdr(c)[other], e) = Load(t, q, x, e) /\ LoadField(s, Ehdr(c)[other], e) = Load(s, q, x, e)
    BY DEF LoadField
  <2> HIDE DEF q, x, p, w
  <2>4. Load(t, q, x, e) = Load(s, q, x, e)
    BY <1>1, <2>1, <2>2, LoadApart
  <2> QED  BY <2>3, <2>4
<1> HIDE DEF p, w
<1>3. /\ t \in Seq(Byte) /\ Len(t) = Len(s)
      /\ \A i \in 1..Len(s) : i \notin (p + 1)..(p + w) => t[i] = s[i]
  BY <1>1, StoreShape
<1> HIDE DEF t
<1>4. ASSUME NEW o \in 0..(EhdrSize(c) - 1), o \notin FieldOffsets(c, name)
      PROVE  t[o + 1] = s[o + 1]
  <2>1. o \notin p..(p + w - 1)
    BY <1>2, <1>4
  <2>2. w \in Nat /\ EhdrSize(c) \in Nat
    BY <1>1, HeaderLayout DEF Width, Class
  <2>3. o + 1 \in 1..Len(s) /\ o + 1 \notin (p + 1)..(p + w)
    BY <2>1, <2>2, <1>1
  <2> QED  BY <2>3, <1>3
<1>7. ASSUME NEW i \in 1..EI_NIDENT PROVE t[i] = s[i]
  <2>1. EI_NIDENT <= p /\ EI_NIDENT \in Nat /\ w \in Nat
    BY <1>n, <1>1, FieldInHeader DEF EI_NIDENT, p, Width
  <2>2. i \in 1..Len(s) /\ i \notin (p + 1)..(p + w)
    BY <2>1, <1>1
  <2> QED  BY <2>2, <1>3
<1> QED  BY <1>3, <1>4, <1>5, <1>6, <1>7, <1>t DEF w, Assigned

\* A header field is read as a number of its width.
LEMMA HeaderFieldType ==
  ASSUME NEW c \in Class, NEW e \in Endian, NEW s \in Seq(Byte), Len(s) = EhdrSize(c),
         NEW name \in HeaderNames
  PROVE  /\ LoadField(s, Ehdr(c)[name], e) \in Nat
         /\ LoadField(s, Ehdr(c)[name], e) < Modulus(Ehdr(c)[name][2])
  BY FieldInHeader, LoadType DEF LoadField

PhdrNames == {"p_type", "p_flags", "p_offset", "p_vaddr", "p_paddr", "p_filesz", "p_memsz", "p_align"}

\* The fields of a program header, all inside it.
LEMMA PhdrLayout ==
  ASSUME NEW c \in Class, NEW name \in PhdrNames
  PROVE  /\ Phdr(c)[name][1] \in Nat /\ Phdr(c)[name][2] \in {4, 8}
         /\ Phdr(c)[name][2] \in Width
         /\ Phdr(c)[name][1] + Phdr(c)[name][2] <= PhdrSize(c)
  BY DEF Phdr, Elf64_Phdr, Elf32_Phdr, PhdrSize, Width, Class, PhdrNames

\* No two of them overlap.
LEMMA PhdrApart ==
  ASSUME NEW c \in Class, NEW name \in PhdrNames, NEW other \in PhdrNames, name # other
  PROVE  Apart(Phdr(c)[name][1], Phdr(c)[name][2], Phdr(c)[other][1], Phdr(c)[other][2])
<1>1. CASE c = 64
  <2>1. Phdr(c) = Elf64_Phdr
    BY <1>1 DEF Phdr
  <2>2. \A n \in PhdrNames : Elf64_Phdr[n] = CASE n = "p_type" -> <<0, 4>> [] n = "p_flags" -> <<4, 4>>
          [] n = "p_offset" -> <<8, 8>> [] n = "p_vaddr" -> <<16, 8>> [] n = "p_paddr" -> <<24, 8>>
          [] n = "p_filesz" -> <<32, 8>> [] n = "p_memsz" -> <<40, 8>> [] n = "p_align" -> <<48, 8>>
    BY DEF Elf64_Phdr, PhdrNames
  <2> QED  BY <2>1, <2>2 DEF PhdrNames, Apart
<1>2. CASE c = 32
  <2>1. Phdr(c) = Elf32_Phdr
    BY <1>2 DEF Phdr
  <2>2. \A n \in PhdrNames : Elf32_Phdr[n] = CASE n = "p_type" -> <<0, 4>> [] n = "p_offset" -> <<4, 4>>
          [] n = "p_vaddr" -> <<8, 4>> [] n = "p_paddr" -> <<12, 4>> [] n = "p_filesz" -> <<16, 4>>
          [] n = "p_memsz" -> <<20, 4>> [] n = "p_flags" -> <<24, 4>> [] n = "p_align" -> <<28, 4>>
    BY DEF Elf32_Phdr, PhdrNames
  <2> QED  BY <2>1, <2>2 DEF PhdrNames, Apart
<1> QED  BY <1>1, <1>2 DEF Class

\* A program header being filled in field by field: the field just assigned
\* reads back as the value cast to its width, the fields assigned before keep
\* theirs.
LEMMA PhdrStore ==
  ASSUME NEW c \in Class, NEW e \in Endian, NEW s \in Seq(Byte), Len(s) = PhdrSize(c),
         NEW name \in PhdrNames, NEW v \in Nat
  PROVE  LET t == StoreField(s, Phdr(c)[name], e, v)
         IN  /\ t \in Seq(Byte) /\ Len(t) = PhdrSize(c)
             /\ LoadField(t, Phdr(c)[name], e) = Cast(v, Phdr(c)[name][2])
             /\ \A other \in PhdrNames : other # name =>
                  LoadField(t, Phdr(c)[other], e) = LoadField(s, Phdr(c)[other], e)
<1> DEFINE p == Phdr(c)[name][1]
           w == Phdr(c)[name][2]
           t == Store(s, p, w, e, v)
<1>1. p \in Nat /\ w \in Width /\ p + w <= Len(s)
  BY PhdrLayout
<1>t. StoreField(s, Phdr(c)[name], e, v) = t
  BY DEF StoreField
<1>2. LoadField(t, Phdr(c)[name], e) = Cast(v, w)
  BY <1>1, LoadStore DEF LoadField
<1>3. ASSUME NEW other \in PhdrNames, other # name
      PROVE  LoadField(t, Phdr(c)[other], e) = LoadField(s, Phdr(c)[other], e)
  <2> DEFINE q == Phdr(c)[other][1]
             x == Phdr(c)[other][2]
  <2>1. q \in Nat /\ x \in Width /\ q + x <= Len(s)
    BY PhdrLayout
  <2>2. Apart(p, w, q, x)
    BY <1>3, PhdrApart
  <2>3. LoadField(t, Phdr(c)[other], e) = Load(t, q, x, e) /\ LoadField(s, Phdr(c)[other], e) = Load(s, q, x, e)
    BY DEF LoadField
  <2> HIDE DEF q, x, p, w
  <2>4. Load(t, q, x, e) = Load(s, q, x, e)
    BY <1>1, <2>1, <2>2, LoadApart
  <2> QED  BY <2>3, <2>4
<1>4. t \in Seq(Byte) /\ Len(t) = Len(s)
  BY <1>1, StoreShape
<1> QED  BY <1>2, <1>3, <1>4, <1>t DEF w

\* A field of a program header is read as a number of its width.
LEMMA PhdrFieldType ==
  ASSUME NEW c \in Class, NEW e \in Endian, NEW s \in Seq(Byte), Len(s) = PhdrSize(c),
         NEW name \in PhdrNames
  PROVE  /\ LoadField(s, Phdr(c)[name], e) \in Nat
         /\ LoadField(s, Phdr(c)[name], e) < Modulus(Phdr(c)[name][2])
  BY PhdrLayout, LoadType DEF LoadField

\* A program header of the size of its struct, with the fields given, each
\* cast to its width.
Describes(s, c, e, offset, vaddr, size, flags, align) ==
  LET F(name, v) == LoadField(s, Phdr(c)[name], e) = Cast(v, Phdr(c)[name][2])
  IN  /\ s \in Seq(Byte) /\ Len(s) = PhdrSize(c)
      /\ F("p_type", PT_LOAD) /\ F("p_flags", flags) /\ F("p_offset", offset)
      /\ F("p_vaddr", vaddr) /\ F("p_paddr", vaddr)
      /\ F("p_filesz", size) /\ F("p_memsz", size) /\ F("p_align", align)

\* The one addLoadSegment appends is at the end of the file.
LEMMA LoadPhdrShape ==
  ASSUME NEW f \in FileType, NEW vaddr \in Nat, NEW size \in Nat, NEW flags \in Nat,
         NEW align \in Nat
  PROVE  Describes(LoadPhdr(f, vaddr, size, flags, align), f.class, f.data, Len(f.raw), vaddr, size, flags, align)
<1> DEFINE c         == f.class
           Good(s)   == s \in Seq(Byte) /\ Len(s) = PhdrSize(c)
           L         == Phdr(c)
           e         == f.data
           F(s, name, v) == LoadField(s, L[name], e) = Cast(v, L[name][2])
           s0        == Zeros(PhdrSize(c))
           s1        == StoreField(s0, L["p_type"], e, PT_LOAD)
           s2        == StoreField(s1, L["p_flags"], e, flags)
           s3        == StoreField(s2, L["p_offset"], e, Len(f.raw))
           s4        == StoreField(s3, L["p_vaddr"], e, vaddr)
           s5        == StoreField(s4, L["p_paddr"], e, vaddr)
           s6        == StoreField(s5, L["p_filesz"], e, size)
           s7        == StoreField(s6, L["p_memsz"], e, size)
           s8        == StoreField(s7, L["p_align"], e, align)
<1>0. LoadPhdr(f, vaddr, size, flags, align) = s8
  BY DEF LoadPhdr
<1>f. c \in Class /\ e \in Endian /\ Len(f.raw) \in Nat
  BY DEF FileType, Class, Endian
<1>n. /\ "p_type" \in PhdrNames /\ "p_flags" \in PhdrNames /\ "p_offset" \in PhdrNames
      /\ "p_vaddr" \in PhdrNames /\ "p_paddr" \in PhdrNames /\ "p_filesz" \in PhdrNames
      /\ "p_memsz" \in PhdrNames /\ "p_align" \in PhdrNames
  BY DEF PhdrNames
<1>z. Good(s0)
  <2>1. PhdrSize(c) \in Nat
    BY <1>f, HeaderLayout DEF Class
  <2> QED  BY <2>1, ZerosShape
<1>p. PT_LOAD \in Nat
  BY DEF PT_LOAD
<1> DEFINE V(name) == CASE name = "p_type" -> PT_LOAD [] name = "p_flags" -> flags
                       [] name = "p_offset" -> Len(f.raw) [] name \in {"p_vaddr", "p_paddr"} -> vaddr
                       [] name \in {"p_filesz", "p_memsz"} -> size [] name = "p_align" -> align
           Filled(s, D) == Good(s) /\ \A n \in D : F(s, n, V(n))
<1>v. /\ \A n \in PhdrNames : V(n) \in Nat
      /\ V("p_type") = PT_LOAD /\ V("p_flags") = flags /\ V("p_offset") = Len(f.raw)
      /\ V("p_vaddr") = vaddr /\ V("p_paddr") = vaddr
      /\ V("p_filesz") = size /\ V("p_memsz") = size /\ V("p_align") = align
  BY <1>f, <1>p DEF PhdrNames
<1> HIDE DEF s0, s1, s2, s3, s4, s5, s6, s7, s8, V, c, e
<1>s. ASSUME NEW s, NEW D, Filled(s, D), D \subseteq PhdrNames, NEW name \in PhdrNames
      PROVE  Filled(StoreField(s, L[name], e, V(name)), D \cup {name})
  <2> DEFINE t == StoreField(s, L[name], e, V(name))
  <2>1. /\ t \in Seq(Byte) /\ Len(t) = PhdrSize(c)
        /\ LoadField(t, L[name], e) = Cast(V(name), L[name][2])
        /\ \A other \in PhdrNames : other # name => LoadField(t, L[other], e) = LoadField(s, L[other], e)
    BY <1>f, <1>v, <1>s, PhdrStore
  <2> HIDE DEF t, L
  <2> QED  BY <2>1, <1>s DEF t
<1> HIDE DEF Good, F, L, Filled
<1> DEFINE D0 == {}
           D1 == D0 \cup {"p_type"}
           D2 == D1 \cup {"p_flags"}
           D3 == D2 \cup {"p_offset"}
           D4 == D3 \cup {"p_vaddr"}
           D5 == D4 \cup {"p_paddr"}
           D6 == D5 \cup {"p_filesz"}
           D7 == D6 \cup {"p_memsz"}
           D8 == D7 \cup {"p_align"}
<1>d. /\ D0 \subseteq PhdrNames /\ D1 \subseteq PhdrNames /\ D2 \subseteq PhdrNames /\ D3 \subseteq PhdrNames
      /\ D4 \subseteq PhdrNames /\ D5 \subseteq PhdrNames /\ D6 \subseteq PhdrNames
      /\ D7 \subseteq PhdrNames /\ PhdrNames \subseteq D8
  BY DEF PhdrNames
<1>0a. Filled(s0, D0)
  BY <1>z DEF Filled
<1> HIDE DEF D0, D1, D2, D3, D4, D5, D6, D7, D8
<1>1. Filled(s1, D1)
  BY <1>0a, <1>d, <1>n, <1>s, <1>v DEF s1, D1
<1>2. Filled(s2, D2)
  BY <1>1, <1>d, <1>n, <1>s, <1>v DEF s2, D2
<1>3. Filled(s3, D3)
  BY <1>2, <1>d, <1>n, <1>s, <1>v DEF s3, D3
<1>4. Filled(s4, D4)
  BY <1>3, <1>d, <1>n, <1>s, <1>v DEF s4, D4
<1>5. Filled(s5, D5)
  BY <1>4, <1>d, <1>n, <1>s, <1>v DEF s5, D5
<1>6. Filled(s6, D6)
  BY <1>5, <1>d, <1>n, <1>s, <1>v DEF s6, D6
<1>7. Filled(s7, D7)
  BY <1>6, <1>d, <1>n, <1>s, <1>v DEF s7, D7
<1>8. Filled(s8, D8)
  BY <1>7, <1>d, <1>n, <1>s, <1>v DEF s8, D8
<1>9. Good(s8) /\ \A n \in PhdrNames : F(s8, n, V(n))
  BY <1>8, <1>d DEF Filled
<1> QED  BY <1>0, <1>9, <1>n, <1>v DEF Good, F, L, c, e, Describes

-----------------------------------------------------------------------------
(* Regions and tables. *)

\* regionFits means what its comment says, in unbounded arithmetic: the
\* overflow guard makes the uint64_t product exact.
LEMMA RegionFitsMeans ==
  ASSUME NEW size \in Nat, NEW off \in Nat, NEW n \in Nat, NEW sz \in Nat,
         regionFits(size, off, n, sz)
  PROVE  off + n * sz <= size
<1>1. U64 \in Nat /\ U64 > 0
  BY Moduli
<1>2. n * sz < U64 /\ n * sz \in Nat
  <2>1. CASE n = 0
    BY <2>1, <1>1
  <2>2. CASE n # 0
    <3> DEFINE q == (U64 - 1) \div n
    <3>1. q \in Nat /\ q * n <= U64 - 1
      <4>1. U64 - 1 \in Nat /\ n > 0
        BY <1>1, <2>2
      <4> QED  BY <4>1, DivMod
    <3>2. sz <= q
      <4>1. ~ (sz > q)
        BY <2>2 DEF regionFits
      <4> QED  BY <4>1, <3>1
    <3> HIDE DEF q
    <3>3. n * sz <= q * n
      BY <3>1, <3>2
    <3> QED  BY <3>1, <3>3, <1>1
  <2> QED  BY <2>1, <2>2
<1>3. (n * sz) % U64 = n * sz
  <2> DEFINE m == n * sz
  <2>1. m \in Nat /\ m < U64
    BY <1>2
  <2> HIDE DEF m
  <2>2. m % U64 = m
    BY <2>1, <1>1
  <2> QED  BY <2>2 DEF m
<1>4. off <= size /\ (n * sz) % U64 <= size - off
  BY DEF regionFits
<1> DEFINE m == n * sz
<1>5. m \in Nat /\ off <= size /\ m <= size - off
  BY <1>2, <1>3, <1>4
<1> HIDE DEF m
<1>6. off + m <= size
  BY <1>5
<1> QED  BY <1>6 DEF m

\* Conversely, a region inside the buffer is accepted when the entry and the
\* count are 16-bit numbers.
LEMMA RegionFitsWhen ==
  ASSUME NEW size \in Nat, NEW off \in Nat, NEW n \in Nat, NEW sz \in Nat,
         n < U16, sz < U16, off + n * sz <= size
  PROVE  regionFits(size, off, n, sz)
<1> DEFINE m == n * sz
<1>0. m \in Nat /\ U64 \in Nat /\ U32 \in Nat /\ U32 > 0 /\ U16 \in Nat /\ U64 > U32
  BY Moduli
<1>1. m < U32
  <2>1. m <= U16 * sz
    BY <1>0
  <2>2. U16 * sz < U16 * U16
    BY <1>0
  <2> QED  BY <2>1, <2>2, <1>0 DEF U32
<1>2. ~ (n # 0 /\ sz > (U64 - 1) \div n)
  <2> SUFFICES ASSUME n # 0, sz > (U64 - 1) \div n PROVE FALSE
    OBVIOUS
  <2> DEFINE x == U64 - 1
             q == x \div n
             r == x % n
  <2>1. q \in Nat /\ r \in Nat /\ r < n /\ x = q * n + r
    <3>1. x \in Nat /\ n > 0
      BY <1>0
    <3> HIDE DEF x
    <3> QED  BY <3>1, DivMod
  <2>2. sz >= q + 1
    BY <2>1
  <2>x. x >= U32
    BY <1>0
  <2> HIDE DEF q, r, x
  <2>3. (q + 1) * n <= sz * n /\ (q + 1) * n = q * n + n
    BY <2>1, <2>2
  <2> DEFINE y == q * n
             z == sz * n
  <2>4. y \in Nat /\ z \in Nat /\ y + n <= z /\ z = m
    BY <2>1, <2>3
  <2> HIDE DEF y, z, m
  <2>5. x = y + r
    BY <2>1 DEF y
  <2> QED  BY <2>1, <2>4, <2>5, <2>x, <1>0, <1>1
<1>h. off + m <= size
  OBVIOUS
<1> HIDE DEF m
<1>3. m % U64 = m
  BY <1>0, <1>1
<1>4. off <= size /\ m <= size - off
  BY <1>0, <1>h
<1> QED  BY <1>2, <1>3, <1>4 DEF regionFits, m

\* So is one of fewer bytes than a uint64_t counts.
LEMMA RegionFitsBytes ==
  ASSUME NEW size \in Nat, NEW off \in Nat, NEW n \in Nat, n < U64, off + n <= size
  PROVE  regionFits(size, off, n, 1)
<1>0. U64 \in Nat /\ U64 > 0 /\ n * 1 = n
  BY Moduli
<1>1. ~ (n # 0 /\ 1 > (U64 - 1) \div n)
  <2> SUFFICES ASSUME n # 0, 1 > (U64 - 1) \div n PROVE FALSE
    OBVIOUS
  <2> DEFINE x == U64 - 1
             q == x \div n
             r == x % n
  <2>1. q \in Nat /\ r \in Nat /\ r < n /\ x = q * n + r
    <3>1. x \in Nat /\ n > 0
      BY <1>0
    <3> HIDE DEF x
    <3> QED  BY <3>1, DivMod
  <2>2. q = 0
    BY <2>1
  <2> HIDE DEF q, r
  <2>3. x = r
    BY <2>1, <2>2
  <2> QED  BY <2>1, <2>3, <1>0
<1>2. n % U64 = n
  BY <1>0
<1>3. off <= size /\ n <= size - off
  OBVIOUS
<1> QED  BY <1>0, <1>1, <1>2, <1>3 DEF regionFits

\* A table of n entries read from b at off.
TableOf(items, b, off, sz) ==
  /\ items \in Seq(Seq(Byte))
  /\ off \in Nat
  /\ off + Len(items) * sz <= Len(b)
  /\ \A i \in 1..Len(items) :
       Len(items[i]) = sz /\ \A j \in 1..sz : items[i][j] = b[off + (i - 1) * sz + j]

\* Entry i of a table ends inside the table.
LEMMA EntryInTable ==
  ASSUME NEW n \in Nat, NEW i \in 1..n, NEW sz \in Nat
  PROVE  (i - 1) * sz \in Nat /\ (i - 1) * sz + sz <= n * sz
<1>1. i - 1 \in Nat /\ i \in Nat /\ i <= n
  OBVIOUS
<1>2. (i - 1) * sz + sz = i * sz
  BY <1>1
<1>3. i * sz <= n * sz
  BY <1>1
<1> QED  BY <1>1, <1>2, <1>3

\* parse() copies the entries of a table that fits: every entry is its bytes.
LEMMA ReadTableShape ==
  ASSUME NEW b \in Seq(Byte), NEW off \in Nat, NEW n \in Nat, NEW sz \in Nat,
         off + n * sz <= Len(b)
  PROVE  /\ TableOf(ReadTable(b, off, n, sz), b, off, sz)
         /\ Len(ReadTable(b, off, n, sz)) = n
<1> DEFINE t == ReadTable(b, off, n, sz)
<1>1. ASSUME NEW i \in 1..n
      PROVE  /\ t[i] \in Seq(Byte) /\ Len(t[i]) = sz
             /\ \A j \in 1..sz : t[i][j] = b[off + (i - 1) * sz + j]
  <2> DEFINE k == (i - 1) * sz
             N == n * sz
  <2>1. k \in Nat /\ k + sz <= N /\ N \in Nat
    BY EntryInTable
  <2>2. t[i] = Slice(b, off + k, sz)
    BY DEF ReadTable
  <2>3. off + N <= Len(b)
    OBVIOUS
  <2> HIDE DEF k, t, N
  <2>4. off + k \in Nat /\ off + k + sz <= Len(b)
    BY <2>1, <2>3
  <2> DEFINE s == Slice(b, off + k, sz)
  <2>5. /\ s \in Seq(Byte) /\ Len(s) = sz
        /\ \A j \in 1..sz : s[j] = b[off + k + j]
    BY <2>4, SliceShape
  <2> HIDE DEF s
  <2>6. t[i] = s
    BY <2>2 DEF s
  <2> QED  BY <2>5, <2>6 DEF k
<1>2. t \in [1..n -> Seq(Byte)]
  <2>1. \A i \in 1..n : Slice(b, off + (i - 1) * sz, sz) \in Seq(Byte)
    BY <1>1 DEF ReadTable
  <2> QED  BY <2>1 DEF ReadTable
<1> HIDE DEF t
<1>3. t \in Seq(Seq(Byte)) /\ Len(t) = n
  BY <1>2
<1> QED  BY <1>1, <1>3 DEF TableOf, t

\* The offset of entry i in its table.
EntryAt(i, sz) == (i - 1) * sz

\* Entry i of a table starts where the index arithmetic of Flatten finds it.
LEMMA EntryIndex ==
  ASSUME NEW sz \in Nat, sz > 0, NEW i \in Nat, i >= 1, NEW j \in 1..sz, NEW k, k = EntryAt(i, sz) + j
  PROVE  ((k - 1) \div sz) + 1 = i /\ ((k - 1) % sz) + 1 = j
<1> DEFINE a == i - 1
           b == j - 1
           x == k - 1
           y == a * sz
<1>1. a \in Nat /\ b \in Nat /\ b < sz /\ y \in Nat
  OBVIOUS
<1>2. x = y + b
  <2>1. k = y + j
    BY DEF EntryAt
  <2> HIDE DEF y
  <2> QED  BY <2>1, <1>1
<1> DEFINE q == x \div sz
           r == x % sz
<1>ab. i = a + 1 /\ j = b + 1
  OBVIOUS
<1> HIDE DEF a, b, x
<1>3. x \in Nat
  BY <1>1, <1>2
<1>4. q \in Nat /\ r \in Nat /\ r < sz /\ x = q * sz + r
  BY <1>3, DivMod
<1> HIDE DEF q, r
<1>5. ~ (q > a)
  <2> SUFFICES ASSUME q >= a + 1 PROVE FALSE
    BY <1>1, <1>4
  <2>1. q * sz >= (a + 1) * sz /\ (a + 1) * sz = a * sz + sz
    BY <1>1, <1>4
  <2> DEFINE u == q * sz
             v == a * sz
  <2>2. u \in Nat /\ v \in Nat /\ u >= v + sz /\ x = u + r /\ x = v + b
    BY <2>1, <1>1, <1>2, <1>4
  <2> HIDE DEF u, v
  <2> QED  BY <2>2, <1>1, <1>4
<1>6. ~ (a > q)
  <2> SUFFICES ASSUME a >= q + 1 PROVE FALSE
    BY <1>1, <1>4
  <2>1. a * sz >= (q + 1) * sz /\ (q + 1) * sz = q * sz + sz
    BY <1>1, <1>4
  <2> DEFINE u == q * sz
             v == a * sz
  <2>2. u \in Nat /\ v \in Nat /\ v >= u + sz /\ x = u + r /\ x = v + b
    BY <2>1, <1>1, <1>2, <1>4
  <2> HIDE DEF u, v
  <2> QED  BY <2>2, <1>1, <1>4
<1>7. q = a /\ r = b
  <2>1. q = a
    BY <1>1, <1>4, <1>5, <1>6
  <2>2. x = y + r
    BY <2>1, <1>4
  <2> HIDE DEF y
  <2> QED  BY <2>1, <2>2, <1>1, <1>2, <1>4
<1> QED  BY <1>7, <1>ab DEF q, r, x

\* Entries of one size.
Entries(items, sz) ==
  /\ items \in Seq(Seq(Byte)) /\ sz \in Nat /\ sz > 0
  /\ \A k \in 1..Len(items) : Len(items[k]) = sz

\* t is buf with the entries written one after the other at off: grown if it
\* had to be, and every other byte as it was.
Written(t, buf, off, items, sz) ==
  LET n == Len(items) * sz
  IN  /\ t \in Seq(Byte) /\ Len(t) \in Nat
      /\ Len(t) >= Len(buf)
      /\ off + n <= Len(buf) => Len(t) = Len(buf)
      /\ items # << >> => off + n <= Len(t)
      /\ \A i \in 1..Len(items), j \in 1..sz : t[off + (i - 1) * sz + j] = items[i][j]
      /\ \A k \in 1..Len(buf) : k \notin (off + 1)..(off + n) => t[k] = buf[k]

\* That is what writeTable does.
LEMMA WriteTableShape ==
  ASSUME NEW buf \in Seq(Byte), NEW off \in Nat, NEW sz, NEW items, Entries(items, sz)
  PROVE  Written(writeTable(buf, off, items, sz), buf, off, items, sz)
<1> DEFINE T == writeTable(buf, off, items, sz)
           n == Len(items) * sz
<1>0. /\ items \in Seq(Seq(Byte)) /\ sz \in Nat /\ sz > 0 /\ Len(items) \in Nat
      /\ \A k \in 1..Len(items) : Len(items[k]) = sz
  BY DEF Entries
<1>n. n \in Nat
  BY <1>0
<1>1. CASE items = << >>
  <2>1. T = buf
    BY <1>1 DEF writeTable
  <2>2. 1..Len(items) = {}
    BY <1>1
  <2> QED  BY <2>1, <2>2, <1>n, <1>1 DEF Written
<1>2. CASE items # << >>
  <2> DEFINE fl == Flatten(items, sz)
             t  == writeStruct(buf, off, fl)
  <2>1. /\ fl \in Seq(Byte) /\ Len(fl) = n
        /\ \A k \in 1..n : fl[k] = items[((k - 1) \div sz) + 1][((k - 1) % sz) + 1]
    BY <1>0, FlattenShape
  <2>2. T = t
    BY <1>2 DEF writeTable
  <2>m. \A i \in 1..Len(items) : (i - 1) * sz \in Nat /\ (i - 1) * sz + sz <= n
    BY <1>0, EntryInTable
  <2> HIDE DEF fl, n
  <2>3. /\ t \in Seq(Byte) /\ Len(t) = IF off + Len(fl) > Len(buf) THEN off + Len(fl) ELSE Len(buf)
        /\ \A k \in 1..Len(fl) : t[off + k] = fl[k]
        /\ \A k \in 1..Len(buf) : k \notin (off + 1)..(off + Len(fl)) => t[k] = buf[k]
    BY <2>1, WriteStructShape
  <2> HIDE DEF t, T
  <2>4. Len(t) \in Nat /\ Len(t) >= Len(buf) /\ off + n <= Len(t) /\ (off + n <= Len(buf) => Len(t) = Len(buf))
    BY <2>1, <2>3, <1>n
  <2>5. ASSUME NEW i \in 1..Len(items), NEW j \in 1..sz
        PROVE  t[off + (i - 1) * sz + j] = items[i][j]
    <3> DEFINE m == (i - 1) * sz
               k == m + j
    <3>1. m \in Nat /\ m + sz <= n
      BY <2>m
    <3>2. ((k - 1) \div sz) + 1 = i /\ ((k - 1) % sz) + 1 = j
      <4>1. i \in Nat /\ i >= 1
        BY <1>0
      <4> HIDE DEF k
      <4>2. k = EntryAt(i, sz) + j
        BY DEF k, EntryAt
      <4> HIDE DEF m
      <4> QED  BY <4>1, <4>2, <1>0, EntryIndex
    <3> HIDE DEF m
    <3>3. k \in 1..n /\ off + k = off + m + j
      BY <3>1, <1>0, <1>n
    <3> HIDE DEF k
    <3>4. t[off + k] = fl[k] /\ fl[k] = items[i][j]
      BY <3>2, <3>3, <2>1, <2>3
    <3> QED  BY <3>3, <3>4 DEF m
  <2>6. \A k \in 1..Len(buf) : k \notin (off + 1)..(off + n) => t[k] = buf[k]
    BY <2>1, <2>3
  <2>7. /\ T \in Seq(Byte) /\ Len(T) \in Nat /\ Len(T) >= Len(buf) /\ n \in Nat
        /\ off + n <= Len(buf) => Len(T) = Len(buf)
        /\ items # << >> => off + n <= Len(T)
        /\ \A i \in 1..Len(items), j \in 1..sz : T[off + (i - 1) * sz + j] = items[i][j]
        /\ \A k \in 1..Len(buf) : k \notin (off + 1)..(off + n) => T[k] = buf[k]
    BY <2>2, <2>3, <2>4, <2>5, <2>6, <1>n
  <2> QED  BY <2>7 DEF T, n, Written
<1> QED  BY <1>1, <1>2

-----------------------------------------------------------------------------
(* What parse() checks. *)

\* Every check of parse() passes.
Accepted(b, c, e) ==
  LET h == Slice(b, 0, EhdrSize(c))
      Fld(name) == LoadField(h, Ehdr(c)[name], e)
  IN  /\ EhdrSize(c) <= Len(b)
      /\ Slice(h, 0, 4) = ELFMAG
      /\ h[5] = ClassByte(c)
      /\ h[6] = DataByte(e)
      /\ Fld("e_ehsize") = EhdrSize(c)
      /\ Fld("e_phnum") > 0 => Fld("e_phentsize") = PhdrSize(c)
      /\ Fld("e_shnum") > 0 => Fld("e_shentsize") = ShdrSize(c)
      /\ regionFits(Len(b), Fld("e_phoff"), Fld("e_phnum"), PhdrSize(c))
      /\ regionFits(Len(b), Fld("e_shoff"), Fld("e_shnum"), ShdrSize(c))
      /\ ~ (Fld("e_shnum") > 0 /\ Fld("e_shstrndx") >= Fld("e_shnum"))

\* parse() succeeds exactly then, and names its error otherwise.
LEMMA ParseChecks ==
  ASSUME NEW b \in Seq(Byte), NEW c \in Class, NEW e \in Endian
  PROVE  \/ Accepted(b, c, e) /\ parse(b, c, e) = Ok(Parsed(b, c, e))
         \/ ~ Accepted(b, c, e) /\ \E x \in ErrorCode : parse(b, c, e) = Err(x)
<1> DEFINE h == Slice(b, 0, EhdrSize(c))
           Fld(name) == LoadField(h, Ehdr(c)[name], e)
           A0 == Len(b) < EhdrSize(c)
           A1 == Slice(h, 0, 4) # ELFMAG
           A2 == h[5] # ClassByte(c)
           A3 == h[6] # DataByte(e)
           A4 == \/ Fld("e_ehsize") # EhdrSize(c)
                 \/ Fld("e_phnum") > 0 /\ Fld("e_phentsize") # PhdrSize(c)
                 \/ Fld("e_shnum") > 0 /\ Fld("e_shentsize") # ShdrSize(c)
           F1 == regionFits(Len(b), Fld("e_phoff"), Fld("e_phnum"), PhdrSize(c))
           F2 == regionFits(Len(b), Fld("e_shoff"), Fld("e_shnum"), ShdrSize(c))
           A6 == Fld("e_shnum") > 0 /\ Fld("e_shstrndx") >= Fld("e_shnum")
<1>1. parse(b, c, e) =
        IF A0 THEN Err("TruncatedFile")
        ELSE IF A1 THEN Err("BadMagic")
        ELSE IF A2 THEN Err("UnsupportedClass")
        ELSE IF A3 THEN Err("UnsupportedDataEncoding")
        ELSE IF A4 THEN Err("InconsistentHeaderSize")
        ELSE IF ~ F1 \/ ~ F2 THEN Err("OffsetOutOfBounds")
        ELSE IF A6 THEN Err("IndexOutOfBounds")
        ELSE Ok(Parsed(b, c, e))
  BY DEF parse
<1>2. ~ A0 <=> EhdrSize(c) <= Len(b)
  BY SMTT(30), HeaderLayout DEF Class
<1>3. Accepted(b, c, e) <=> ~ (A0 \/ A1 \/ A2 \/ A3 \/ A4 \/ ~ F1 \/ ~ F2 \/ A6)
  BY <1>2, Zenon DEF Accepted
<1> HIDE DEF A0, A1, A2, A3, A4, F1, F2, A6
<1>4. CASE A0 \/ A1 \/ A2 \/ A3 \/ A4 \/ ~ F1 \/ ~ F2 \/ A6
  BY <1>1, <1>3, <1>4 DEF ErrorCode
<1>5. CASE ~ (A0 \/ A1 \/ A2 \/ A3 \/ A4 \/ ~ F1 \/ ~ F2 \/ A6)
  BY <1>1, <1>3, <1>5
<1> QED  BY <1>4, <1>5

\* What a successful parseAny has checked, and that a failing one names its error.
LEMMA ParseMeans ==
  ASSUME NEW b \in Seq(Byte)
  PROVE  /\ parseAny(b).ok \in BOOLEAN
         /\ ~ parseAny(b).ok => parseAny(b).code \in ErrorCode /\ \E x \in ErrorCode : parseAny(b) = Err(x)
         /\ parseAny(b).ok =>
              \E c \in Class, e \in Endian :
                parseAny(b) = Ok(Parsed(b, c, e)) /\ parseAny(b).value = Parsed(b, c, e) /\ Accepted(b, c, e)
<1>2. \/ \E c \in Class, e \in Endian : Accepted(b, c, e) /\ parseAny(b) = Ok(Parsed(b, c, e))
      \/ \E x \in ErrorCode : parseAny(b) = Err(x)
  <2> DEFINE c == IF b[5] = ClassByte(64) THEN 64 ELSE 32
             e == IF b[6] = DataByte("Big") THEN "Big" ELSE "Little"
  <2>1. c \in Class /\ e \in Endian
    BY DEF Class, Endian
  <2>2. parseAny(b) = parse(b, c, e) \/ \E x \in ErrorCode : parseAny(b) = Err(x)
    BY DEF parseAny, ErrorCode
  <2> HIDE DEF c, e
  <2> QED  BY <2>1, <2>2, ParseChecks
<1>3. CASE \E x \in ErrorCode : parseAny(b) = Err(x)
  <2> PICK x \in ErrorCode : parseAny(b) = Err(x)
    BY <1>3
  <2>1. parseAny(b).ok = FALSE /\ parseAny(b).code = x
    BY DEF Err
  <2> QED  BY <2>1
<1>4. CASE \E c \in Class, e \in Endian : Accepted(b, c, e) /\ parseAny(b) = Ok(Parsed(b, c, e))
  <2> PICK c \in Class, e \in Endian : Accepted(b, c, e) /\ parseAny(b) = Ok(Parsed(b, c, e))
    BY <1>4
  <2>1. parseAny(b).ok = TRUE /\ parseAny(b).value = Parsed(b, c, e)
    BY DEF Ok
  <2> QED  BY <2>1
<1> QED  BY <1>2, <1>3, <1>4

\* parseAny picks the instantiation whose checks pass.
LEMMA ParseAccepts ==
  ASSUME NEW b \in Seq(Byte), NEW c \in Class, NEW e \in Endian, Accepted(b, c, e)
  PROVE  parseAny(b) = Ok(Parsed(b, c, e))
<1> DEFINE n == EhdrSize(c)
           h == Slice(b, 0, n)
<1>0. n \in Nat /\ n >= 52 /\ n <= Len(b) /\ Len(b) \in Nat
  <2>1. n \in Nat /\ n >= 52
    BY HeaderLayout DEF Class
  <2>2. n <= Len(b)
    BY DEF Accepted
  <2> QED  BY <2>1, <2>2
<1>a. Slice(h, 0, 4) = ELFMAG /\ h[5] = ClassByte(c) /\ h[6] = DataByte(e)
  BY DEF Accepted
<1> HIDE DEF n
<1>1. h \in Seq(Byte) /\ Len(h) = n /\ \A i \in 1..n : h[i] = b[i]
  BY <1>0, PrefixShape
<1> HIDE DEF h
<1>2. h[5] = b[5] /\ h[6] = b[6]
  BY <1>0, <1>1
<1>3. Slice(h, 0, 4) = Slice(b, 0, 4)
  <2> PICK m \in Nat : m = 4
    OBVIOUS
  <2>0. m <= Len(b) /\ m <= Len(h)
    BY <1>0, <1>1
  <2>1. /\ Slice(b, 0, m) \in Seq(Byte) /\ Len(Slice(b, 0, m)) = m
        /\ \A i \in 1..m : Slice(b, 0, m)[i] = b[i]
    BY <2>0, PrefixShape
  <2>2. /\ Slice(h, 0, m) \in Seq(Byte) /\ Len(Slice(h, 0, m)) = m
        /\ \A i \in 1..m : Slice(h, 0, m)[i] = h[i]
    BY <2>0, <1>1, PrefixShape
  <2>3. \A i \in 1..m : h[i] = b[i]
    BY <1>0, <1>1
  <2> DEFINE x == Slice(h, 0, m)
             y == Slice(b, 0, m)
  <2>4. x \in Seq(Byte) /\ y \in Seq(Byte) /\ Len(x) = Len(y) /\ \A i \in 1..Len(x) : x[i] = y[i]
    BY <2>1, <2>2, <2>3
  <2> HIDE DEF x, y
  <2>5. x = y
    BY <2>4, SameBytes
  <2> QED  BY <2>5 DEF x, y
<1>4. /\ b[5] = ClassByte(c) /\ b[6] = DataByte(e) /\ Slice(b, 0, 4) = ELFMAG
      /\ ~ (Len(b) < EI_NIDENT)
  BY <1>0, <1>a, <1>2, <1>3 DEF EI_NIDENT
<1>5. /\ (IF b[5] = ClassByte(64) THEN 64 ELSE 32) = c
      /\ (IF b[6] = DataByte("Big") THEN "Big" ELSE "Little") = e
      /\ b[5] \in {ClassByte(32), ClassByte(64)} /\ b[6] \in {DataByte("Little"), DataByte("Big")}
  BY <1>4 DEF ClassByte, DataByte, Class, Endian
<1>6. parseAny(b) = parse(b, c, e)
  BY <1>4, <1>5 DEF parseAny
<1> QED  BY <1>6, ParseChecks

-----------------------------------------------------------------------------
(* What the operations keep, the parts of the inductive invariant. *)

\* The cached structs have the sizes of the C++ structs.
Sized(f) ==
  /\ Len(f.header) = EhdrSize(f.class)
  /\ \A i \in 1..Len(f.phdrs) : Len(f.phdrs[i]) = PhdrSize(f.class)
  /\ \A i \in 1..Len(f.shdrs) : Len(f.shdrs[i]) = ShdrSize(f.class)
  /\ Len(f.header) <= Len(f.raw)

\* f still holds the buffer b, but for the bytes at the offsets in D: the
\* cached header, the raw bytes, the sections found at e_shoff, and the
\* segments found at e_phoff or moved past everything b holds.
KeptHeader(f, b, D) ==
  \A o \in 0..(EhdrSize(f.class) - 1) : o \notin D => f.header[o + 1] = b[o + 1]

KeptRaw(f, b, D) ==
  /\ Len(f.header) <= Len(b) /\ Len(b) <= Len(f.raw)
  /\ \A o \in 0..(Len(b) - 1) : o \notin D => f.raw[o + 1] = b[o + 1]

KeptShdrs(f, b) == TableOf(f.shdrs, b, H(f, "e_shoff"), ShdrSize(f.class))

KeptPhdrs(f, b) ==
  /\ H(f, "e_phoff") \in Nat
  /\ \/ TableOf(f.phdrs, b, H(f, "e_phoff"), PhdrSize(f.class))
     \/ H(f, "e_phoff") >= Len(b)

Kept(f, b, D) == KeptHeader(f, b, D) /\ KeptRaw(f, b, D) /\ KeptShdrs(f, b) /\ KeptPhdrs(f, b)

\* The cached header describes the cached tables; e_phnum is a uint16_t and
\* wraps.
Coherent(f) ==
  /\ \A i \in 1..4 : f.header[i] = ELFMAG[i]
  /\ f.header[5] = ClassByte(f.class)
  /\ f.header[6] = DataByte(f.data)
  /\ H(f, "e_ehsize") = EhdrSize(f.class)
  /\ H(f, "e_phnum") = Len(f.phdrs) % U16
  /\ H(f, "e_shnum") = Len(f.shdrs)
  /\ f.shdrs # << >> => H(f, "e_shentsize") = ShdrSize(f.class) /\ H(f, "e_shstrndx") < Len(f.shdrs)
  /\ H(f, "e_phoff") <= Len(f.raw) /\ H(f, "e_shoff") <= Len(f.raw)

\* What a type-correct file with sized structs gives, field by field.
LEMMA FileFacts ==
  ASSUME NEW f \in FileType, Sized(f)
  PROVE  /\ f.class \in Class /\ f.data \in Endian
         /\ f.header \in Seq(Byte) /\ f.raw \in Seq(Byte)
         /\ f.phdrs \in Seq(Seq(Byte)) /\ f.shdrs \in Seq(Seq(Byte))
         /\ Len(f.header) = EhdrSize(f.class)
         /\ Len(f.raw) \in Nat /\ Len(f.phdrs) \in Nat /\ Len(f.shdrs) \in Nat
         /\ Len(f.header) <= Len(f.raw)
  BY DEF FileType, Sized, Class, Endian

\* More patched offsets weaken what is kept.
LEMMA KeptMore ==
  ASSUME NEW f, NEW b, NEW D, NEW E, Kept(f, b, D), D \subseteq E
  PROVE  Kept(f, b, E)
  BY DEF Kept, KeptHeader, KeptRaw

\* A parsed file holds every byte of its buffer, and is coherent.
LEMMA ParseEstablishes ==
  ASSUME NEW b \in Seq(Byte), parseAny(b).ok
  PROVE  LET f == parseAny(b).value
         IN  /\ f \in FileType /\ Sized(f) /\ Kept(f, b, {}) /\ Coherent(f) /\ f.raw = b
             /\ H(f, "e_phoff") + Len(f.phdrs) * PhdrSize(f.class) <= Len(b)
             /\ Len(f.phdrs) > 0 => H(f, "e_phentsize") = PhdrSize(f.class)
<1> PICK c \in Class, e \in Endian : parseAny(b).value = Parsed(b, c, e) /\ Accepted(b, c, e)
  BY ParseMeans
<1> DEFINE f  == Parsed(b, c, e)
           h  == Slice(b, 0, EhdrSize(c))
           Fld(name) == LoadField(h, Ehdr(c)[name], e)
           po == Fld("e_phoff")
           pn == Fld("e_phnum")
           so == Fld("e_shoff")
           sn == Fld("e_shnum")
           ps == PhdrSize(c)
           ss == ShdrSize(c)
           pt == ReadTable(b, po, pn, ps)
           st == ReadTable(b, so, sn, ss)
<1>0. EhdrSize(c) \in Nat /\ ps \in Nat /\ ss \in Nat /\ Len(b) \in Nat /\ EhdrSize(c) >= 52
  BY SMTT(30), HeaderLayout DEF Class
<1>a. /\ EhdrSize(c) <= Len(b)
      /\ Slice(h, 0, 4) = ELFMAG /\ h[5] = ClassByte(c) /\ h[6] = DataByte(e)
      /\ Fld("e_ehsize") = EhdrSize(c)
      /\ pn > 0 => Fld("e_phentsize") = ps
      /\ sn > 0 => Fld("e_shentsize") = ss
      /\ ~ (sn > 0 /\ Fld("e_shstrndx") >= sn)
  BY DEF Accepted
<1>r. regionFits(Len(b), po, pn, ps) /\ regionFits(Len(b), so, sn, ss)
  BY DEF Accepted
<1>1. h \in Seq(Byte) /\ Len(h) = EhdrSize(c) /\ \A i \in 1..EhdrSize(c) : h[i] = b[i]
  BY <1>0, <1>a, PrefixShape
<1>f. /\ f.class = c /\ f.data = e /\ f.header = h /\ f.raw = b /\ f.phdrs = pt /\ f.shdrs = st
      /\ f = [class |-> c, data |-> e, header |-> h, raw |-> b, phdrs |-> pt, shdrs |-> st]
  BY DEF Parsed
<1>h. parseAny(b).value = f
  OBVIOUS
<1>m. \A i \in 1..4 : h[i] = ELFMAG[i]
  <2> HIDE DEF h
  <2> PICK m \in Nat : m = 4
    OBVIOUS
  <2>0. m <= Len(h)
    BY <1>0, <1>1
  <2>1. \A i \in 1..m : Slice(h, 0, m)[i] = h[i]
    BY <2>0, <1>1, PrefixShape
  <2> QED  BY <2>1, <1>a
<1> HIDE DEF f, h
<1>2. /\ po \in Nat /\ pn \in Nat /\ so \in Nat /\ sn \in Nat /\ Fld("e_shstrndx") \in Nat
      /\ pn < U16
  <2>1. \A name \in HeaderNames : Fld(name) \in Nat /\ Fld(name) < Modulus(Ehdr(c)[name][2])
    BY <1>1, HeaderFieldType
  <2>2. Modulus(Ehdr(c)["e_phnum"][2]) = U16
    BY HeaderLayout DEF Modulus, Class
  <2> HIDE DEF Fld
  <2>3. \A name \in {"e_phoff", "e_phnum", "e_shoff", "e_shnum", "e_shstrndx"} : name \in HeaderNames
    BY DEF HeaderNames
  <2> QED  BY <2>1, <2>2, <2>3
<1>H. \A name : H(f, name) = Fld(name)
  BY <1>f DEF H
<1> HIDE DEF Fld
<1>3. po + pn * ps <= Len(b) /\ so + sn * ss <= Len(b)
  <2> HIDE DEF po, pn, so, sn, ps, ss
  <2> QED  BY <1>0, <1>2, <1>r, RegionFitsMeans
<1>4. TableOf(pt, b, po, ps) /\ TableOf(st, b, so, ss) /\ Len(pt) = pn /\ Len(st) = sn
  <2> HIDE DEF po, pn, so, sn, ps, ss
  <2> QED  BY <1>0, <1>2, <1>3, ReadTableShape
<1> HIDE DEF pt, st
<1>5. f \in FileType
  BY <1>f, <1>1, <1>4 DEF FileType, TableOf, Class, Endian
<1>6. Sized(f)
  BY <1>f, <1>0, <1>1, <1>4, <1>a DEF Sized, TableOf
<1>7. KeptHeader(f, b, {})
  BY <1>f, <1>0, <1>1 DEF KeptHeader
<1>8. KeptRaw(f, b, {})
  BY <1>f, <1>1, <1>a, <1>0 DEF KeptRaw
<1>9. KeptShdrs(f, b) /\ KeptPhdrs(f, b)
  BY <1>f, <1>H, <1>2, <1>4 DEF KeptShdrs, KeptPhdrs
<1>10. Coherent(f)
  <2>1. pn % U16 = pn
    <3> HIDE DEF pn
    <3> QED  BY <1>2, Moduli
  <2>2. po <= Len(b) /\ so <= Len(b)
    <3> DEFINE x == pn * ps
               y == sn * ss
    <3>1. x \in Nat /\ y \in Nat /\ po + x <= Len(b) /\ so + y <= Len(b)
      BY SMTT(30), <1>0, <1>2, <1>3
    <3> HIDE DEF x, y
    <3> QED  BY <3>1, <1>2, <1>0
  <2>3. st # << >> => sn > 0
    BY <1>4, <1>2 DEF TableOf
  <2>4. f.shdrs # << >> => H(f, "e_shentsize") = ShdrSize(f.class) /\ H(f, "e_shstrndx") < Len(f.shdrs)
    BY <1>a, <1>2, <1>4, <1>f, <1>H, <2>3
  <2>5. H(f, "e_phnum") = Len(f.phdrs) % U16 /\ H(f, "e_shnum") = Len(f.shdrs)
    BY <1>4, <1>f, <1>H, <2>1
  <2>6. H(f, "e_phoff") <= Len(f.raw) /\ H(f, "e_shoff") <= Len(f.raw) /\ H(f, "e_ehsize") = EhdrSize(f.class)
    BY <1>a, <1>f, <1>H, <2>2
  <2>7. /\ \A i \in 1..4 : f.header[i] = ELFMAG[i]
        /\ f.header[5] = ClassByte(f.class) /\ f.header[6] = DataByte(f.data)
    BY <1>a, <1>m, <1>f
  <2> QED  BY <2>4, <2>5, <2>6, <2>7 DEF Coherent
<1>11. /\ H(f, "e_phoff") + Len(f.phdrs) * PhdrSize(f.class) <= Len(b)
       /\ Len(f.phdrs) > 0 => H(f, "e_phentsize") = PhdrSize(f.class)
  BY <1>f, <1>H, <1>3, <1>4, <1>a
<1> QED  BY <1>h, <1>f, <1>5, <1>6, <1>7, <1>8, <1>9, <1>10, <1>11 DEF Kept

-----------------------------------------------------------------------------
(* serialize(). *)

\* The first write of serialize(): the header over the start of the raw bytes.
LEMMA HeaderWritten ==
  ASSUME NEW hd \in Seq(Byte), NEW rw \in Seq(Byte), Len(hd) <= Len(rw), NEW b1, b1 = writeStruct(rw, 0, hd)
  PROVE  /\ b1 \in Seq(Byte) /\ Len(b1) = Len(rw)
         /\ \A i \in 1..Len(hd) : b1[i] = hd[i]
         /\ \A i \in 1..Len(rw) : i > Len(hd) => b1[i] = rw[i]
<1> PICK z \in Nat : z = 0
  OBVIOUS
<1>0. Len(hd) \in Nat /\ Len(rw) \in Nat
  OBVIOUS
<1>1. b1 = writeStruct(rw, z, hd)
  OBVIOUS
<1>2. /\ b1 \in Seq(Byte)
      /\ Len(b1) = IF z + Len(hd) > Len(rw) THEN z + Len(hd) ELSE Len(rw)
      /\ \A i \in 1..Len(hd) : b1[z + i] = hd[i]
      /\ \A i \in 1..Len(rw) : i \notin (z + 1)..(z + Len(hd)) => b1[i] = rw[i]
  BY <1>1, WriteStructShape
<1>3. Len(b1) = Len(rw) /\ \A i \in 1..Len(hd) : z + i = i
  BY <1>0, <1>2
<1>4. \A i \in 1..Len(rw) : i > Len(hd) => i \notin (z + 1)..(z + Len(hd))
  BY <1>0
<1> QED  BY <1>2, <1>3, <1>4

\* Where serialize() takes each byte from: the sections last, the segments
\* before them, the header first, and the raw bytes everywhere else.
LEMMA SerializeShape ==
  ASSUME NEW f \in FileType, Sized(f)
  PROVE  LET out == serialize(f)
             po  == H(f, "e_phoff")
             so  == H(f, "e_shoff")
             ps  == PhdrSize(f.class)
             ss  == ShdrSize(f.class)
         IN  /\ out \in Seq(Byte) /\ Len(out) \in Nat /\ Len(out) >= Len(f.raw)
             /\ po \in Nat /\ so \in Nat
             /\ po + Len(f.phdrs) * ps <= Len(f.raw) /\ so + Len(f.shdrs) * ss <= Len(f.raw)
                  => Len(out) = Len(f.raw)
             /\ f.phdrs # << >> => po + Len(f.phdrs) * ps <= Len(out)
             /\ f.shdrs # << >> => so + Len(f.shdrs) * ss <= Len(out)
             /\ \A o \in 0..(Len(f.raw) - 1) :
                  o \notin HeaderOffsets(f) \cup PhdrOffsets(f) \cup ShdrOffsets(f) => out[o + 1] = f.raw[o + 1]
             /\ \A i \in 1..Len(f.shdrs), k \in 1..ss : out[so + (i - 1) * ss + k] = f.shdrs[i][k]
             /\ PhdrOffsets(f) \cap ShdrOffsets(f) = {} =>
                  \A i \in 1..Len(f.phdrs), k \in 1..ps : out[po + (i - 1) * ps + k] = f.phdrs[i][k]
             /\ HeaderOffsets(f) \cap (PhdrOffsets(f) \cup ShdrOffsets(f)) = {} =>
                  \A i \in 1..EhdrSize(f.class) : out[i] = f.header[i]
<1> DEFINE c  == f.class
           rw == f.raw
           hd == f.header
           pt == f.phdrs
           st == f.shdrs
           b1 == writeStruct(rw, 0, hd)
           po == H(f, "e_phoff")
           so == H(f, "e_shoff")
           ps == PhdrSize(c)
           ss == ShdrSize(c)
           b2 == writeTable(b1, po, pt, ps)
           b3 == writeTable(b2, so, st, ss)
           np == Len(pt) * ps
           ns == Len(st) * ss
           es == EhdrSize(c)
<1>0. /\ c \in Class /\ f.data \in Endian /\ hd \in Seq(Byte) /\ rw \in Seq(Byte) /\ Len(rw) \in Nat
      /\ pt \in Seq(Seq(Byte)) /\ st \in Seq(Seq(Byte)) /\ Len(hd) = es /\ es <= Len(rw)
      /\ Len(pt) \in Nat /\ Len(st) \in Nat
  BY FileFacts
<1>s. serialize(f) = b3
  BY DEF serialize
<1>z. /\ es \in Nat /\ ps \in Nat /\ ps > 0 /\ ss \in Nat /\ ss > 0
  <2>1. c \in Class
    BY <1>0
  <2> HIDE DEF c
  <2> QED  BY <2>1, HeaderLayout DEF Class
<1>e. Entries(pt, ps) /\ Entries(st, ss)
  BY <1>0, <1>z DEF Entries, Sized
<1>k. po \in Nat /\ so \in Nat
  BY <1>0, HeaderFieldType DEF H, HeaderNames
<1>o. /\ HeaderOffsets(f) = 0..(es - 1)
      /\ PhdrOffsets(f) = po..(po + np - 1)
      /\ ShdrOffsets(f) = so..(so + ns - 1)
  BY DEF HeaderOffsets, PhdrOffsets, ShdrOffsets
<1>n. np \in Nat /\ ns \in Nat
  BY <1>0, <1>z
<1>np. \A i \in 1..Len(pt) : (i - 1) * ps \in Nat /\ (i - 1) * ps + ps <= np
  <2> HIDE DEF pt, ps
  <2> QED  BY <1>0, <1>z, EntryInTable
<1> HIDE DEF c, po, so, hd, rw, pt, st, ps, ss, es, b1, b2, b3
<1>1. /\ b1 \in Seq(Byte) /\ Len(b1) = Len(rw)
      /\ \A i \in 1..es : b1[i] = hd[i]
      /\ \A i \in 1..Len(rw) : i > es => b1[i] = rw[i]
  <2>1. Len(hd) <= Len(rw) /\ b1 = writeStruct(rw, 0, hd)
    BY <1>0 DEF b1
  <2> QED  BY <2>1, <1>0, HeaderWritten
<1>2. /\ b2 \in Seq(Byte) /\ Len(b2) \in Nat /\ Len(b2) >= Len(b1)
      /\ po + np <= Len(b1) => Len(b2) = Len(b1)
      /\ pt # << >> => po + np <= Len(b2)
      /\ \A i \in 1..Len(pt), k \in 1..ps : b2[po + (i - 1) * ps + k] = pt[i][k]
      /\ \A k \in 1..Len(b1) : k \notin (po + 1)..(po + np) => b2[k] = b1[k]
  <2>1. Written(b2, b1, po, pt, ps)
    BY <1>1, <1>k, <1>e, WriteTableShape DEF b2
  <2> QED  BY <2>1 DEF Written
<1>3. /\ b3 \in Seq(Byte) /\ Len(b3) \in Nat /\ Len(b3) >= Len(b2)
      /\ so + ns <= Len(b2) => Len(b3) = Len(b2)
      /\ st # << >> => so + ns <= Len(b3)
      /\ \A i \in 1..Len(st), k \in 1..ss : b3[so + (i - 1) * ss + k] = st[i][k]
      /\ \A k \in 1..Len(b2) : k \notin (so + 1)..(so + ns) => b3[k] = b2[k]
  <2>1. Written(b3, b2, so, st, ss)
    BY <1>2, <1>k, <1>e, WriteTableShape DEF b3
  <2> QED  BY <2>1 DEF Written
<1>x. \A o \in 0..(Len(b2) - 1) : o \notin so..(so + ns - 1) => b3[o + 1] = b2[o + 1]
  <2> HIDE DEF ns
  <2> TAKE o \in 0..(Len(b2) - 1)
  <2> HAVE o \notin so..(so + ns - 1)
  <2>1. o + 1 \in 1..Len(b2) /\ o + 1 \notin (so + 1)..(so + ns)
    BY <1>2, <1>k, <1>n
  <2> QED  BY <2>1, <1>3
<1>y. \A o \in 0..(Len(b1) - 1) : o \notin po..(po + np - 1) => b2[o + 1] = b1[o + 1]
  <2> HIDE DEF np
  <2> TAKE o \in 0..(Len(b1) - 1)
  <2> HAVE o \notin po..(po + np - 1)
  <2>1. o + 1 \in 1..Len(b1) /\ o + 1 \notin (po + 1)..(po + np)
    BY <1>0, <1>1, <1>k, <1>n
  <2> QED  BY <2>1, <1>2
<1>4. /\ Len(b3) >= Len(rw)
      /\ po + np <= Len(rw) /\ so + ns <= Len(rw) => Len(b3) = Len(rw)
      /\ pt # << >> => po + np <= Len(b3)
  <2> HIDE DEF np, ns
  <2> QED  BY <1>0, <1>1, <1>2, <1>3, <1>k, <1>n
<1>5. ASSUME NEW o \in 0..(Len(rw) - 1), o \notin 0..(es - 1), o \notin po..(po + np - 1), o \notin so..(so + ns - 1)
      PROVE  b3[o + 1] = rw[o + 1]
  <2>1. o \in 0..(Len(b2) - 1) /\ o \in 0..(Len(b1) - 1)
    BY <1>0, <1>1, <1>2
  <2>2. b3[o + 1] = b2[o + 1] /\ b2[o + 1] = b1[o + 1]
    BY <2>1, <1>5, <1>x, <1>y
  <2>3. b1[o + 1] = rw[o + 1]
    <3>1. o + 1 \in 1..Len(rw) /\ o + 1 > es
      BY <1>0, <1>z, <1>5
    <3> QED  BY <3>1, <1>1
  <2> QED  BY <2>2, <2>3
<1>6. ASSUME PhdrOffsets(f) \cap ShdrOffsets(f) = {}, NEW i \in 1..Len(pt), NEW k \in 1..ps
      PROVE  b3[po + (i - 1) * ps + k] = pt[i][k]
  <2> DEFINE m == (i - 1) * ps
             o == po + m + k - 1
  <2>1. m \in Nat /\ m + ps <= np
    BY <1>np
  <2>2. b2[po + m + k] = pt[i][k]
    BY <1>2
  <2>e. po + np <= Len(b2) /\ Len(b2) \in Nat
    <3>1. pt # << >>
      BY <1>0
    <3> QED  BY <3>1, <1>2
  <2> HIDE DEF m, np, ns
  <2>3. o \in po..(po + np - 1) /\ o + 1 = po + m + k /\ o \in Nat
    BY <2>1, <1>k, <1>n, <1>z
  <2>4. o \in 0..(Len(b2) - 1)
    BY <2>3, <2>e, <1>n, <1>k
  <2>5. o \notin so..(so + ns - 1)
    <3> HIDE DEF o
    <3> QED  BY <2>3, <1>6, <1>o
  <2>6. b3[o + 1] = b2[o + 1]
    <3> HIDE DEF o
    <3> QED  BY <2>4, <2>5, <1>x
  <2>7. b3[po + m + k] = pt[i][k]
    BY <2>2, <2>3, <2>6
  <2> QED  BY <2>7 DEF m
<1>7. ASSUME HeaderOffsets(f) \cap (PhdrOffsets(f) \cup ShdrOffsets(f)) = {}, NEW i \in 1..es
      PROVE  b3[i] = hd[i]
  <2> DEFINE o == i - 1
  <2>1. o \in 0..(es - 1) /\ o + 1 = i
    BY <1>z
  <2>2. o \in 0..(Len(b2) - 1) /\ o \in 0..(Len(b1) - 1)
    BY <1>0, <1>1, <1>2, <1>z
  <2> HIDE DEF o
  <2>3. o \notin po..(po + np - 1) /\ o \notin so..(so + ns - 1)
    BY <2>1, <1>7, <1>o
  <2>4. b3[o + 1] = b1[o + 1]
    BY <2>2, <2>3, <1>x, <1>y
  <2> QED  BY <2>1, <2>4, <1>1
<1>8. /\ b3 \in Seq(Byte) /\ Len(b3) \in Nat /\ Len(b3) >= Len(rw)
      /\ po \in Nat /\ so \in Nat
      /\ po + Len(pt) * ps <= Len(rw) /\ so + Len(st) * ss <= Len(rw) => Len(b3) = Len(rw)
      /\ pt # << >> => po + Len(pt) * ps <= Len(b3)
      /\ st # << >> => so + Len(st) * ss <= Len(b3)
  BY <1>3, <1>4, <1>k
<1>9. \A o \in 0..(Len(rw) - 1) :
         o \notin HeaderOffsets(f) \cup PhdrOffsets(f) \cup ShdrOffsets(f) => b3[o + 1] = rw[o + 1]
  BY <1>5, <1>o
<1>10. \A i \in 1..Len(st), k \in 1..ss : b3[so + (i - 1) * ss + k] = st[i][k]
  BY <1>3
<1> QED  BY <1>s, <1>6, <1>7, <1>8, <1>9, <1>10 DEF c, po, so, hd, rw, pt, st, ps, ss, es

\* A table found where it was read or past the end.
Located(items, b, off, sz) == TableOf(items, b, off, sz) \/ off >= Len(b)

\* Writing a table back over the bytes it was read from, or past the end of
\* them, keeps every byte that was right before.
LEMMA WriteTableKeeps ==
  ASSUME NEW buf \in Seq(Byte), NEW off \in Nat, NEW sz, NEW items, Entries(items, sz),
         NEW b \in Seq(Byte), Located(items, b, off, sz), NEW i \in 1..Len(buf), i <= Len(b), buf[i] = b[i]
  PROVE  writeTable(buf, off, items, sz)[i] = b[i]
<1>0. /\ items \in Seq(Seq(Byte)) /\ sz \in Nat /\ sz > 0
      /\ \A k \in 1..Len(items) : Len(items[k]) = sz
  BY DEF Entries
<1>1. CASE items = << >>
  BY <1>1 DEF writeTable
<1>2. CASE items # << >>
  <2> DEFINE fl == Flatten(items, sz)
             t  == writeStruct(buf, off, fl)
             n  == Len(items) * sz
  <2>1. fl \in Seq(Byte) /\ Len(fl) = n /\ n \in Nat
    BY SMTT(30), <1>0, FlattenShape
  <2>2. writeTable(buf, off, items, sz) = t
    BY <1>2 DEF writeTable
  <2>f. \A k \in 1..n : /\ ((k - 1) \div sz) + 1 \in 1..Len(items)
                         /\ ((k - 1) % sz) + 1 \in 1..sz
                         /\ fl[k] = items[((k - 1) \div sz) + 1][((k - 1) % sz) + 1]
                         /\ k = ((k - 1) \div sz) * sz + ((k - 1) % sz) + 1
    BY <1>0, FlattenShape
  <2> HIDE DEF fl, n
  <2>3. /\ \A k \in 1..Len(fl) : t[off + k] = fl[k]
        /\ \A k \in 1..Len(buf) : k \notin (off + 1)..(off + Len(fl)) => t[k] = buf[k]
    BY <2>1, WriteStructShape
  <2> HIDE DEF t
  <2>4. CASE i \notin (off + 1)..(off + n)
    BY <2>1, <2>2, <2>3, <2>4
  <2>5. CASE i \in (off + 1)..(off + n)
    <3> DEFINE k == i - off
    <3>1. k \in 1..n /\ off + k = i
      BY <2>1, <2>5
    <3>2. TableOf(items, b, off, sz)
      BY <2>1, <2>5 DEF Located
    <3> HIDE DEF k
    <3> DEFINE x  == k - 1
               q  == x \div sz
               r  == x % sz
               q1 == q + 1
               r1 == r + 1
    <3>3. q1 \in 1..Len(items) /\ r1 \in 1..sz /\ fl[k] = items[q1][r1] /\ k = q * sz + r + 1
      BY <3>1, <2>f
    <3>4. q \in Nat /\ r \in Nat
      <4>1. x \in Nat
        BY <3>1, <2>1
      <4> QED  BY <4>1, <1>0, DivMod
    <3> HIDE DEF x, q, r
    <3>q. q1 - 1 = q /\ r1 = r + 1
      BY <3>4
    <3> HIDE DEF q1, r1
    <3>5. items[q1][r1] = b[off + (q1 - 1) * sz + r1]
      <4>1. \A k1 \in 1..Len(items) : \A j \in 1..sz : items[k1][j] = b[off + (k1 - 1) * sz + j]
        BY <3>2 DEF TableOf
      <4> QED  BY <4>1, <3>3
    <3>6. off + (q1 - 1) * sz + r1 = off + k
      <4> DEFINE m == q * sz
      <4>1. (q1 - 1) * sz = m /\ m \in Nat
        BY <3>4, <3>q, <1>0
      <4>2. k = m + r + 1
        BY <3>3
      <4> HIDE DEF m
      <4>3. off + m + r1 = off + k
        BY <4>1, <4>2, <3>4, <3>q
      <4> QED  BY <4>1, <4>3
    <3>7. t[i] = fl[k]
      BY <3>1, <2>1, <2>3
    <3> QED  BY <3>1, <3>3, <3>5, <3>6, <3>7, <2>2
  <2> QED  BY <2>4, <2>5
<1> QED  BY <1>1, <1>2

\* A file is written with the bytes it holds of b in place.
LEMMA SerializeKeeps ==
  ASSUME NEW f \in FileType, NEW b \in Seq(Byte), NEW D, Sized(f), Kept(f, b, D)
  PROVE  /\ serialize(f) \in Seq(Byte)
         /\ \A o \in 0..(Len(b) - 1) : o \notin D => serialize(f)[o + 1] = b[o + 1]
<1> DEFINE c  == f.class
           b1 == writeStruct(f.raw, 0, f.header)
           po == H(f, "e_phoff")
           so == H(f, "e_shoff")
           b2 == writeTable(b1, po, f.phdrs, PhdrSize(c))
           b3 == writeTable(b2, so, f.shdrs, ShdrSize(c))
<1>0. /\ c \in Class /\ f.header \in Seq(Byte) /\ f.raw \in Seq(Byte)
      /\ f.phdrs \in Seq(Seq(Byte)) /\ f.shdrs \in Seq(Seq(Byte))
  BY FileFacts
<1>s. serialize(f) = b3
  BY DEF serialize
<1>z. /\ EhdrSize(c) \in Nat /\ PhdrSize(c) \in Nat /\ PhdrSize(c) > 0
      /\ ShdrSize(c) \in Nat /\ ShdrSize(c) > 0
  <2>1. c \in Class
    BY <1>0
  <2> HIDE DEF c
  <2> QED  BY SMTT(30), <2>1, HeaderLayout DEF Class
<1>l. /\ Len(f.header) = EhdrSize(c)
      /\ \A i \in 1..Len(f.phdrs) : Len(f.phdrs[i]) = PhdrSize(c)
      /\ \A i \in 1..Len(f.shdrs) : Len(f.shdrs[i]) = ShdrSize(c)
      /\ Len(f.header) <= Len(b) /\ Len(b) <= Len(f.raw)
  BY DEF Sized, Kept, KeptRaw
<1>k. /\ po \in Nat /\ so \in Nat
      /\ TableOf(f.shdrs, b, so, ShdrSize(c))
      /\ TableOf(f.phdrs, b, po, PhdrSize(c)) \/ po >= Len(b)
  BY DEF Kept, KeptPhdrs, KeptShdrs, TableOf
<1> HIDE DEF c, po, so, b1, b2, b3
<1>1. /\ b1 \in Seq(Byte) /\ Len(b1) >= Len(f.raw)
      /\ \A i \in 1..Len(f.header) : b1[i] = f.header[i]
      /\ \A i \in 1..Len(f.raw) : i > Len(f.header) => b1[i] = f.raw[i]
  <2> DEFINE hd == f.header
             rw == f.raw
  <2>0. hd \in Seq(Byte) /\ rw \in Seq(Byte) /\ b1 = writeStruct(rw, 0, hd) /\ Len(hd) <= Len(rw)
        /\ Len(hd) \in Nat /\ Len(rw) \in Nat
    BY <1>0, <1>l, <1>z DEF b1
  <2> HIDE DEF hd, rw
  <2>2. /\ b1 \in Seq(Byte) /\ Len(b1) = Len(rw)
        /\ \A i \in 1..Len(hd) : b1[i] = hd[i]
        /\ \A i \in 1..Len(rw) : i > Len(hd) => b1[i] = rw[i]
    BY <2>0, HeaderWritten
  <2>3. Len(b1) >= Len(rw)
    BY <2>0, <2>2
  <2> QED  BY <2>2, <2>3 DEF hd, rw
<1>p. Entries(f.phdrs, PhdrSize(c)) /\ Located(f.phdrs, b, po, PhdrSize(c))
  BY <1>0, <1>z, <1>l, <1>k DEF Entries, Located
<1>q. Entries(f.shdrs, ShdrSize(c)) /\ Located(f.shdrs, b, so, ShdrSize(c))
  BY <1>0, <1>z, <1>l, <1>k DEF Entries, Located
<1>2. b2 \in Seq(Byte) /\ Len(b2) >= Len(b1)
  <2>1. Written(b2, b1, po, f.phdrs, PhdrSize(c))
    BY <1>1, <1>k, <1>p, WriteTableShape DEF b2
  <2> QED  BY <2>1 DEF Written
<1>3. b3 \in Seq(Byte)
  <2>1. Written(b3, b2, so, f.shdrs, ShdrSize(c))
    BY <1>2, <1>k, <1>q, WriteTableShape DEF b3
  <2> QED  BY <2>1 DEF Written
<1>4. ASSUME NEW o \in 0..(Len(b) - 1), o \notin D
      PROVE  b3[o + 1] = b[o + 1]
  <2> DEFINE i == o + 1
  <2>0. Len(b) \in Nat /\ Len(f.raw) \in Nat /\ Len(b1) \in Nat /\ Len(b2) \in Nat
    BY <1>0, <1>1, <1>2
  <2>1. i \in 1..Len(f.raw) /\ i <= Len(b) /\ i \in 1..Len(b1) /\ i \in 1..Len(b2)
    BY <2>0, <1>l, <1>1, <1>2
  <2>2. b1[i] = b[i]
    <3>1. CASE o < EhdrSize(c)
      <4>1. f.header[o + 1] = b[o + 1]
        BY <3>1, <1>z, <1>4 DEF Kept, KeptHeader, c
      <4>2. i \in 1..Len(f.header)
        BY <3>1, <1>z, <1>l
      <4> QED  BY <4>1, <4>2, <1>1
    <3>2. CASE ~ (o < EhdrSize(c))
      <4>1. f.raw[o + 1] = b[o + 1]
        BY <1>4 DEF Kept, KeptRaw
      <4>2. i > Len(f.header)
        BY <3>2, <1>z, <1>l
      <4> QED  BY <4>1, <4>2, <2>1, <1>1
    <3> QED  BY <3>1, <3>2
  <2> HIDE DEF i
  <2>3. b2[i] = b[i]
    BY <1>1, <1>k, <1>p, <2>1, <2>2, WriteTableKeeps DEF b2
  <2>4. b3[i] = b[i]
    BY <1>2, <1>k, <1>q, <2>1, <2>3, WriteTableKeeps DEF b3
  <2> QED  BY <2>4 DEF i
<1> QED  BY <1>s, <1>3, <1>4

\* A file that was parsed and not mutated is written back byte for byte.
LEMMA SerializeParsed ==
  ASSUME NEW b \in Seq(Byte), parseAny(b).ok
  PROVE  serialize(parseAny(b).value) = b
<1> DEFINE f   == parseAny(b).value
           out == serialize(f)
<1>1. /\ f \in FileType /\ Sized(f) /\ Kept(f, b, {}) /\ f.raw = b
      /\ H(f, "e_phoff") + Len(f.phdrs) * PhdrSize(f.class) <= Len(b)
  BY ParseEstablishes
<1>s. H(f, "e_shoff") + Len(f.shdrs) * ShdrSize(f.class) <= Len(b)
  BY <1>1 DEF Kept, KeptShdrs, TableOf
<1> HIDE DEF f
<1>2. out \in Seq(Byte) /\ \A o \in 0..(Len(b) - 1) : out[o + 1] = b[o + 1]
  BY <1>1, SerializeKeeps
<1>3. Len(out) = Len(b)
  BY <1>1, <1>s, SerializeShape
<1> HIDE DEF out
<1>4. \A i \in 1..Len(out) : out[i] = b[i]
  <2> TAKE i \in 1..Len(out)
  <2> DEFINE o == i - 1
  <2>1. o \in 0..(Len(b) - 1) /\ o + 1 = i
    BY <1>2, <1>3
  <2> HIDE DEF o
  <2> QED  BY <2>1, <1>2
<1>5. out = b
  BY <1>2, <1>3, <1>4, SameBytes
<1> QED  BY <1>5 DEF out, f

\* Two tables of one length with the same entries are equal.
LEMMA SameTables ==
  ASSUME NEW a \in Seq(Seq(Byte)), NEW b \in Seq(Seq(Byte)), Len(a) = Len(b), \A i \in 1..Len(a) : a[i] = b[i]
  PROVE  a = b
<1>1. a = [i \in 1..Len(a) |-> a[i]] /\ b = [i \in 1..Len(b) |-> b[i]]
  <2> DEFINE S == Seq(Byte)
  <2>1. a \in Seq(S) /\ b \in Seq(S)
    OBVIOUS
  <2> HIDE DEF S
  <2> QED  BY ONLY <2>1
<1> QED  BY ONLY <1>1, Len(a) = Len(b), \A i \in 1..Len(a) : a[i] = b[i]

\* A table read where it was written is the table.
LEMMA ReadWritten ==
  ASSUME NEW items, NEW sz, Entries(items, sz), NEW t \in Seq(Byte), NEW off \in Nat,
         off + Len(items) * sz <= Len(t),
         \A i \in 1..Len(items), k \in 1..sz : t[off + (i - 1) * sz + k] = items[i][k]
  PROVE  ReadTable(t, off, Len(items), sz) = items
<1> DEFINE n == Len(items)
           r == ReadTable(t, off, n, sz)
<1>0. /\ items \in Seq(Seq(Byte)) /\ sz \in Nat /\ sz > 0 /\ n \in Nat
      /\ \A k \in 1..n : Len(items[k]) = sz
  BY DEF Entries
<1>1. TableOf(r, t, off, sz) /\ Len(r) = n
  BY ZenonT(60), <1>0, ReadTableShape
<1>2. \A i \in 1..n : r[i] = items[i]
  <2> TAKE i \in 1..n
  <2>1. /\ r[i] \in Seq(Byte) /\ items[i] \in Seq(Byte) /\ Len(items[i]) = sz
        /\ Len(r[i]) = sz /\ \A k \in 1..sz : r[i][k] = t[off + (i - 1) * sz + k]
    BY SMTT(30), <1>0, <1>1 DEF TableOf
  <2>2. \A k \in 1..sz : r[i][k] = items[i][k]
    BY <2>1
  <2> DEFINE x == r[i]
             y == items[i]
  <2>3. x \in Seq(Byte) /\ y \in Seq(Byte) /\ Len(x) = Len(y) /\ \A k \in 1..Len(x) : x[k] = y[k]
    BY <2>1, <2>2
  <2> HIDE DEF x, y
  <2>4. x = y
    BY <2>3, SameBytes
  <2> QED  BY <2>4 DEF x, y
<1>3. r \in Seq(Seq(Byte))
  BY <1>1 DEF TableOf
<1> HIDE DEF r
<1>4. Len(r) = Len(items) /\ \A i \in 1..Len(r) : r[i] = items[i]
  BY <1>1, <1>2
<1>5. r = items
  BY <1>0, <1>3, <1>4, SameTables
<1> QED  BY <1>5 DEF r

\* parse() of what serialize() wrote gives the header and the tables back, when
\* the layout is sound and the header describes the tables.
LEMMA Reparse ==
  ASSUME NEW f \in FileType, Sized(f), Coherent(f), SoundLayout(f)
  PROVE  LET out == serialize(f)
             v   == parseAny(out).value
         IN  /\ parseAny(out).ok /\ v = Parsed(out, f.class, f.data)
             /\ v.class = f.class /\ v.data = f.data /\ v.header = f.header
             /\ v.phdrs = f.phdrs /\ v.shdrs = f.shdrs /\ v.raw = out
<1> DEFINE out == serialize(f)
           c   == f.class
           e   == f.data
           hd  == f.header
           es  == EhdrSize(c)
           ps  == PhdrSize(c)
           ss  == ShdrSize(c)
           pt  == f.phdrs
           st  == f.shdrs
           po  == H(f, "e_phoff")
           so  == H(f, "e_shoff")
           v   == Parsed(out, c, e)
<1>0. /\ c \in Class /\ e \in Endian /\ hd \in Seq(Byte) /\ Len(hd) = es
      /\ pt \in Seq(Seq(Byte)) /\ st \in Seq(Seq(Byte)) /\ Len(pt) \in Nat /\ Len(st) \in Nat
      /\ f.raw \in Seq(Byte) /\ Len(f.raw) \in Nat /\ es <= Len(f.raw)
  BY FileFacts
<1>z. /\ es \in Nat /\ es >= 52 /\ ps \in Nat /\ ps > 0 /\ ss \in Nat /\ ss > 0 /\ ps <= es /\ ss <= es
  <2>1. c \in Class
    BY <1>0
  <2> HIDE DEF c
  <2> QED  BY <2>1, HeaderLayout DEF Class
<1>e. Entries(pt, ps) /\ Entries(st, ss)
  BY <1>0, <1>z DEF Entries, Sized
<1>c. /\ \A i \in 1..4 : hd[i] = ELFMAG[i]
      /\ hd[5] = ClassByte(c) /\ hd[6] = DataByte(e)
      /\ H(f, "e_ehsize") = es /\ H(f, "e_phnum") = Len(pt) % U16 /\ H(f, "e_shnum") = Len(st)
      /\ st # << >> => H(f, "e_shentsize") = ss /\ H(f, "e_shstrndx") < Len(st)
      /\ po <= Len(f.raw) /\ so <= Len(f.raw)
  BY DEF Coherent
<1>l. H(f, "e_phentsize") = ps /\ Len(pt) < U16
  BY DEF SoundLayout
<1>p. H(f, "e_phnum") = Len(pt)
  <2> DEFINE n == Len(pt)
  <2>1. n \in Nat /\ n < U16 /\ H(f, "e_phnum") = n % U16 /\ U16 \in Nat
    BY <1>0, <1>c, <1>l, Moduli
  <2> HIDE DEF n
  <2>2. n % U16 = n
    BY <2>1
  <2> QED  BY <2>1, <2>2 DEF n
<1>u. es < U16 /\ Len(st) < U16 /\ H(f, "e_shstrndx") \in Nat
  <2>1. \A name \in HeaderNames : H(f, name) \in Nat /\ H(f, name) < Modulus(Ehdr(c)[name][2])
    BY <1>0, HeaderFieldType DEF H
  <2>2. Modulus(Ehdr(c)["e_ehsize"][2]) = U16 /\ Modulus(Ehdr(c)["e_shnum"][2]) = U16
    <3>1. c \in Class
      BY <1>0
    <3> HIDE DEF c
    <3> QED  BY <3>1, HeaderLayout DEF Modulus, Class
  <2>3. "e_ehsize" \in HeaderNames /\ "e_shnum" \in HeaderNames /\ "e_shstrndx" \in HeaderNames
    BY DEF HeaderNames
  <2> QED  BY <2>1, <2>2, <2>3, <1>c
<1>1. /\ out \in Seq(Byte) /\ Len(out) \in Nat /\ Len(out) >= Len(f.raw)
      /\ po \in Nat /\ so \in Nat
      /\ pt # << >> => po + Len(pt) * ps <= Len(out)
      /\ st # << >> => so + Len(st) * ss <= Len(out)
      /\ \A i \in 1..Len(st), k \in 1..ss : out[so + (i - 1) * ss + k] = st[i][k]
      /\ \A i \in 1..Len(pt), k \in 1..ps : out[po + (i - 1) * ps + k] = pt[i][k]
      /\ \A i \in 1..es : out[i] = hd[i]
  BY SerializeShape DEF SoundLayout
<1>H. \A name : H(f, name) = LoadField(hd, Ehdr(c)[name], e)
  BY DEF H
<1> HIDE DEF out, c, e, hd, es, ps, ss, pt, st, po, so
<1>2. Slice(out, 0, es) = hd
  <2> DEFINE x == Slice(out, 0, es)
  <2>0. out \in Seq(Byte) /\ es \in Nat /\ es <= Len(out)
    BY <1>0, <1>1, <1>z
  <2>1. x \in Seq(Byte) /\ Len(x) = es /\ \A i \in 1..es : x[i] = out[i]
    BY <2>0, PrefixShape
  <2> HIDE DEF x
  <2>2. \A i \in 1..Len(x) : x[i] = hd[i]
    BY <2>1, <1>1
  <2>3. x = hd
    BY <2>1, <2>2, <1>0, SameBytes
  <2> QED  BY <2>3 DEF x
<1>3. Slice(hd, 0, 4) = ELFMAG
  <2> PICK m \in Nat : m = 4
    OBVIOUS
  <2> DEFINE x == Slice(hd, 0, m)
  <2>0. hd \in Seq(Byte) /\ m <= Len(hd)
    BY <1>0, <1>z
  <2>1. x \in Seq(Byte) /\ Len(x) = m /\ \A i \in 1..m : x[i] = hd[i]
    BY <2>0, PrefixShape
  <2>2. ELFMAG \in Seq(Byte) /\ Len(ELFMAG) = m
    <3>1. ELFMAG \in [1..m -> Byte]
      BY ElfMagAssumption
    <3> QED  BY <3>1, BytesOf
  <2>x. x = Slice(hd, 0, 4)
    OBVIOUS
  <2> HIDE DEF x
  <2>3. \A i \in 1..Len(x) : x[i] = ELFMAG[i]
    BY <2>1, <1>c
  <2>4. x = ELFMAG
    BY <2>1, <2>2, <2>3, SameBytes
  <2> QED  BY <2>4, <2>x
<1>4. po + Len(pt) * ps <= Len(out) /\ so + Len(st) * ss <= Len(out)
  <2>p. po + Len(pt) * ps <= Len(out)
    <3>1. CASE pt = << >>
      <4>1. Len(pt) * ps = 0
        BY <3>1, <1>z
      <4> QED  BY <4>1, <1>0, <1>1, <1>c
    <3> QED  BY <3>1, <1>1
  <2>s. so + Len(st) * ss <= Len(out)
    <3>1. CASE st = << >>
      <4>1. Len(st) * ss = 0
        BY <3>1, <1>z
      <4> QED  BY <4>1, <1>0, <1>1, <1>c
    <3> QED  BY <3>1, <1>1
  <2> QED  BY <2>p, <2>s
<1>5. regionFits(Len(out), po, Len(pt), ps) /\ regionFits(Len(out), so, Len(st), ss)
  <2> DEFINE x == Len(pt)
             y == Len(st)
             n == Len(out)
  <2>1. /\ x \in Nat /\ y \in Nat /\ n \in Nat /\ x < U16 /\ y < U16 /\ ps < U16 /\ ss < U16
        /\ po + x * ps <= n /\ so + y * ss <= n
    <3>1. ps < U16 /\ ss < U16
      BY <1>z, <1>u, Moduli
    <3> QED  BY <3>1, <1>0, <1>1, <1>4, <1>u, <1>l
  <2> HIDE DEF x, y, n
  <2>2. regionFits(n, po, x, ps) /\ regionFits(n, so, y, ss)
    BY <2>1, <1>1, <1>z, RegionFitsWhen
  <2> QED  BY <2>2 DEF x, y, n
<1>6. Accepted(out, c, e)
  <2> DEFINE Fld(name) == LoadField(hd, Ehdr(c)[name], e)
  <2>1. /\ Fld("e_ehsize") = es /\ Fld("e_phnum") = Len(pt) /\ Fld("e_phentsize") = ps
        /\ Fld("e_shnum") = Len(st) /\ Fld("e_phoff") = po /\ Fld("e_shoff") = so
        /\ Fld("e_shentsize") = H(f, "e_shentsize") /\ Fld("e_shstrndx") = H(f, "e_shstrndx")
    BY <1>H, <1>c, <1>l, <1>p DEF po, so
  <2>2. Len(st) > 0 => st # << >>
    BY <1>0
  <2>3. es <= Len(out)
    BY <1>0, <1>1, <1>z
  <2>4. /\ Len(pt) > 0 => Fld("e_phentsize") = ps
        /\ Len(st) > 0 => Fld("e_shentsize") = ss
        /\ ~ (Len(st) > 0 /\ Fld("e_shstrndx") >= Len(st))
    <3> HIDE DEF Fld
    <3> QED  BY <2>1, <2>2, <1>c, <1>u, <1>0
  <2> HIDE DEF Fld
  <2>5. Accepted(out, c, e) <=>
          /\ es <= Len(out) /\ Slice(hd, 0, 4) = ELFMAG /\ hd[5] = ClassByte(c) /\ hd[6] = DataByte(e)
          /\ Fld("e_ehsize") = es
          /\ Fld("e_phnum") > 0 => Fld("e_phentsize") = ps
          /\ Fld("e_shnum") > 0 => Fld("e_shentsize") = ss
          /\ regionFits(Len(out), Fld("e_phoff"), Fld("e_phnum"), ps)
          /\ regionFits(Len(out), Fld("e_shoff"), Fld("e_shnum"), ss)
          /\ ~ (Fld("e_shnum") > 0 /\ Fld("e_shstrndx") >= Fld("e_shnum"))
    BY <1>2 DEF Accepted, Fld, es, ps, ss
  <2> QED  BY <2>1, <2>3, <2>4, <2>5, <1>3, <1>5, <1>c
<1>7. parseAny(out) = Ok(v)
  BY <1>0, <1>1, <1>6, ParseAccepts
<1>8. /\ v.class = c /\ v.data = e /\ v.raw = out /\ v.header = hd
      /\ v.phdrs = ReadTable(out, po, Len(pt), ps) /\ v.shdrs = ReadTable(out, so, Len(st), ss)
  <2>1. /\ LoadField(hd, Ehdr(c)["e_phoff"], e) = po /\ LoadField(hd, Ehdr(c)["e_phnum"], e) = Len(pt)
        /\ LoadField(hd, Ehdr(c)["e_shoff"], e) = so /\ LoadField(hd, Ehdr(c)["e_shnum"], e) = Len(st)
    BY <1>H, <1>c, <1>p DEF po, so
  <2> QED  BY <2>1, <1>2 DEF Parsed, es, ps, ss
<1>9. ReadTable(out, po, Len(pt), ps) = pt /\ ReadTable(out, so, Len(st), ss) = st
  <2>1. ReadTable(out, po, Len(pt), ps) = pt
    BY <1>1, <1>4, <1>e, ReadWritten
  <2>2. ReadTable(out, so, Len(st), ss) = st
    BY <1>1, <1>4, <1>e, ReadWritten
  <2> QED  BY <2>1, <2>2
<1>10. parseAny(out).ok /\ parseAny(out).value = v
  BY <1>7 DEF Ok
<1> QED  BY <1>8, <1>9, <1>10 DEF out, c, e, hd, pt, st

-----------------------------------------------------------------------------
(* The mutators. *)

\* A file whose header changed only by assignments that keep e_ident and every
\* field but those in N is as coherent as before, if the fields in N are.
LEMMA CoherentSame ==
  ASSUME NEW f, NEW g, Coherent(f),
         g.class = f.class, g.data = f.data, g.shdrs = f.shdrs,
         \A i \in 1..EI_NIDENT : g.header[i] = f.header[i],
         \A name \in {"e_ehsize", "e_shnum", "e_shentsize", "e_shstrndx", "e_shoff"} : H(g, name) = H(f, name),
         H(g, "e_phnum") = Len(g.phdrs) % U16,
         H(g, "e_phoff") <= Len(g.raw), H(g, "e_shoff") <= Len(g.raw)
  PROVE  Coherent(g)
<1> DEFINE gh == g.header
           fh == f.header
<1>0. \A i \in 1..EI_NIDENT : gh[i] = fh[i]
  OBVIOUS
<1> HIDE DEF gh, fh
<1>1. \A i \in 1..6 : gh[i] = fh[i]
  <2>1. \A i \in 1..6 : i \in 1..EI_NIDENT
    BY DEF EI_NIDENT
  <2> QED  BY <2>1, <1>0
<1> USE DEF gh, fh
<1>2. /\ \A i \in 1..4 : g.header[i] = ELFMAG[i]
      /\ g.header[5] = ClassByte(g.class) /\ g.header[6] = DataByte(g.data)
  BY <1>1 DEF Coherent
<1> QED  BY <1>2 DEF Coherent

\* setEntry assigns e_entry and nothing else.
LEMMA SetEntryKeeps ==
  ASSUME NEW f \in FileType, NEW b \in Seq(Byte), NEW D, Sized(f), Kept(f, b, D), Coherent(f),
         NEW v \in Nat, FieldOffsets(f.class, "e_entry") \subseteq D
  PROVE  LET g == setEntry(f, v)
         IN  g \in FileType /\ Sized(g) /\ Kept(g, b, D) /\ Coherent(g) /\ g.raw = f.raw
<1> DEFINE c  == f.class
           e  == f.data
           hd == f.header
           h  == StoreField(hd, Ehdr(c)["e_entry"], e, v)
           g  == setEntry(f, v)
<1>0. /\ f.class \in Class /\ f.data \in Endian /\ f.header \in Seq(Byte)
      /\ Len(f.header) = EhdrSize(f.class) /\ Len(f.header) <= Len(f.raw)
  BY FileFacts
<1>1. /\ h \in Seq(Byte) /\ Len(h) = EhdrSize(f.class)
      /\ \A o \in 0..(EhdrSize(f.class) - 1) :
           o \notin FieldOffsets(f.class, "e_entry") => h[o + 1] = f.header[o + 1]
      /\ \A i \in 1..EI_NIDENT : h[i] = f.header[i]
      /\ \A other \in HeaderNames : other # "e_entry" =>
           LoadField(h, Ehdr(f.class)[other], f.data) = LoadField(f.header, Ehdr(f.class)[other], f.data)
  <2>1. "e_entry" \in MutableNames
    BY DEF MutableNames
  <2>2. c \in Class /\ e \in Endian /\ hd \in Seq(Byte) /\ Len(hd) = EhdrSize(c)
    BY <1>0
  <2> HIDE DEF c, e, hd
  <2>3. Assigned(h, hd, c, e, "e_entry", v)
    BY <2>1, <2>2, HeaderStore
  <2> HIDE DEF h
  <2> QED  BY <2>3 DEF Assigned, c, e, hd
<1>g. g = [f EXCEPT !.header = h]
  BY DEF setEntry
<1> HIDE DEF h, g
<1>3. /\ g.class = f.class /\ g.data = f.data /\ g.header = h /\ g.raw = f.raw
      /\ g.phdrs = f.phdrs /\ g.shdrs = f.shdrs /\ g \in FileType
  BY <1>g, <1>1 DEF FileType
<1>4. \A name \in HeaderNames : name # "e_entry" => H(g, name) = H(f, name)
  BY <1>1, <1>3 DEF H
<1>n. /\ {"e_ehsize", "e_shnum", "e_shentsize", "e_shstrndx", "e_shoff"} \subseteq HeaderNames \ {"e_entry"}
      /\ "e_phnum" \in HeaderNames \ {"e_entry"} /\ "e_phoff" \in HeaderNames \ {"e_entry"}
  BY DEF HeaderNames
<1>5. Sized(g)
  BY <1>0, <1>1, <1>3 DEF Sized
<1>6. KeptHeader(g, b, D)
  BY <1>1, <1>3 DEF Kept, KeptHeader
<1>7. KeptRaw(g, b, D) /\ KeptShdrs(g, b) /\ KeptPhdrs(g, b)
  <2>1. H(g, "e_shoff") = H(f, "e_shoff") /\ H(g, "e_phoff") = H(f, "e_phoff")
    BY <1>4, <1>n
  <2>2. Len(g.header) = Len(f.header)
    BY <1>0, <1>1, <1>3
  <2> QED  BY <1>3, <2>1, <2>2 DEF Kept, KeptRaw, KeptShdrs, KeptPhdrs
<1>8. Coherent(g)
  <2>1. /\ \A name \in {"e_ehsize", "e_shnum", "e_shentsize", "e_shstrndx", "e_shoff"} : H(g, name) = H(f, name)
        /\ H(g, "e_phnum") = H(f, "e_phnum") /\ H(g, "e_phoff") = H(f, "e_phoff") /\ H(g, "e_shoff") = H(f, "e_shoff")
    BY <1>4, <1>n
  <2>2. /\ H(f, "e_phnum") = Len(f.phdrs) % U16 /\ H(f, "e_phoff") <= Len(f.raw) /\ H(f, "e_shoff") <= Len(f.raw)
    BY DEF Coherent
  <2> QED  BY <1>1, <1>3, <2>1, <2>2, CoherentSame
<1> QED  BY <1>3, <1>5, <1>6, <1>7, <1>8 DEF Kept, g

\* g is f with the bytes bs at off and nothing else changed.
PatchedAt(g, f, off, bs) ==
  /\ Len(g.raw) = Len(f.raw) /\ off + Len(bs) <= Len(f.raw)
  /\ g.class = f.class /\ g.data = f.data /\ g.header = f.header
  /\ g.phdrs = f.phdrs /\ g.shdrs = f.shdrs
  /\ \A i \in 1..Len(bs) : g.raw[off + i] = bs[i]
  /\ \A i \in 1..Len(f.raw) : i \notin (off + 1)..(off + Len(bs)) => g.raw[i] = f.raw[i]

\* A patch that regionFits accepts stays in the buffer, is in it afterwards,
\* and changes nothing else.
LEMMA PatchShape ==
  ASSUME NEW f \in FileType, Sized(f), NEW off \in Nat, NEW bs \in Seq(Byte), patchBytesAt(f, off, bs).ok
  PROVE  LET g == patchBytesAt(f, off, bs).value
         IN  g \in FileType /\ Sized(g) /\ PatchedAt(g, f, off, bs) /\ patchBytesAt(f, off, bs) = Ok(g)
<1> DEFINE n  == Len(bs)
           rw == f.raw
           r  == writeStruct(rw, off, bs)
           g  == [f EXCEPT !.raw = r]
<1>0. rw \in Seq(Byte) /\ Len(rw) \in Nat /\ n \in Nat
  BY FileFacts
<1>1. /\ regionFits(Len(f.raw), off, Len(bs), 1) /\ patchBytesAt(f, off, bs).value = g
      /\ patchBytesAt(f, off, bs) = Ok(g)
  BY DEF patchBytesAt, Ok, Err
<1>2. off + n <= Len(rw)
  <2>1. off + n * 1 <= Len(rw)
    BY <1>0, <1>1, RegionFitsMeans
  <2> QED  BY <2>1, <1>0
<1>3. /\ g.class = f.class /\ g.data = f.data /\ g.header = f.header /\ g.raw = r
      /\ g.phdrs = f.phdrs /\ g.shdrs = f.shdrs
      /\ (r \in Seq(Byte) => g \in FileType)
  BY DEF FileType
<1> HIDE DEF rw, g
<1>4. /\ r \in Seq(Byte) /\ Len(r) = IF off + Len(bs) > Len(rw) THEN off + Len(bs) ELSE Len(rw)
      /\ \A i \in 1..Len(bs) : r[off + i] = bs[i]
      /\ \A i \in 1..Len(rw) : i \notin (off + 1)..(off + Len(bs)) => r[i] = rw[i]
  BY <1>0, WriteStructShape
<1> HIDE DEF r
<1>5. Len(r) = Len(rw)
  BY <1>0, <1>2, <1>4
<1>6. Sized(g)
  BY <1>3, <1>5 DEF Sized, rw
<1>7. /\ \A i \in 1..Len(bs) : g.raw[off + i] = bs[i]
      /\ \A i \in 1..Len(rw) : i \notin (off + 1)..(off + Len(bs)) => g.raw[i] = rw[i]
  BY <1>3, <1>4
<1> QED  BY <1>1, <1>2, <1>3, <1>4, <1>5, <1>6, <1>7 DEF PatchedAt, rw

\* What was kept outside the patch is still kept, and the header still
\* describes the tables.
LEMMA PatchKeeps ==
  ASSUME NEW f \in FileType, NEW b \in Seq(Byte), NEW D, Sized(f), Kept(f, b, D), Coherent(f),
         NEW off \in Nat, NEW bs \in Seq(Byte), NEW g, PatchedAt(g, f, off, bs)
  PROVE  Coherent(g) /\ Kept(g, b, D \cup off..(off + Len(bs) - 1)) /\ \A name : H(g, name) = H(f, name)
<1> DEFINE n  == Len(bs)
           rw == f.raw
           r  == g.raw
<1>0. rw \in Seq(Byte) /\ Len(rw) \in Nat /\ n \in Nat /\ Len(b) \in Nat
  BY FileFacts
<1>b. Len(f.header) <= Len(b) /\ Len(b) <= Len(rw)
  BY DEF Kept, KeptRaw
<1>3. /\ g.class = f.class /\ g.data = f.data /\ g.header = f.header
      /\ g.phdrs = f.phdrs /\ g.shdrs = f.shdrs /\ Len(r) = Len(rw)
      /\ \A i \in 1..Len(rw) : i \notin (off + 1)..(off + Len(bs)) => r[i] = rw[i]
  BY DEF PatchedAt
<1>H. \A name : H(g, name) = H(f, name)
  BY <1>3 DEF H
<1>7. KeptRaw(g, b, D \cup off..(off + n - 1))
  <2> SUFFICES ASSUME NEW o \in 0..(Len(b) - 1), o \notin D \cup off..(off + n - 1)
               PROVE  r[o + 1] = b[o + 1]
    BY <1>b, <1>3 DEF KeptRaw
  <2>1. o \notin D /\ o \notin off..(off + n - 1)
    OBVIOUS
  <2>2. o + 1 \in 1..Len(rw) /\ o + 1 \notin (off + 1)..(off + Len(bs))
    <3> HIDE DEF rw
    <3> QED  BY <2>1, <1>0, <1>b
  <2>3. r[o + 1] = rw[o + 1]
    BY <2>2, <1>3
  <2>4. rw[o + 1] = b[o + 1]
    BY <2>1 DEF Kept, KeptRaw
  <2> QED  BY <2>3, <2>4
<1>8. KeptHeader(g, b, D \cup off..(off + n - 1)) /\ KeptShdrs(g, b) /\ KeptPhdrs(g, b)
  BY <1>3, <1>H DEF Kept, KeptHeader, KeptShdrs, KeptPhdrs
<1>9. Coherent(g)
  BY <1>3, <1>H DEF Coherent
<1> QED  BY <1>7, <1>8, <1>9, <1>H DEF Kept

\* g is f with the data at its end and a segment for it behind the others.
Extended(g, f, vaddr, data, flags, align) ==
  /\ g.class = f.class /\ g.data = f.data /\ g.raw = f.raw \o data /\ g.shdrs = f.shdrs
  /\ g.phdrs = Append(f.phdrs, LoadPhdr(f, vaddr, Len(data), flags, align))
  /\ Len(g.raw) = Len(f.raw) + Len(data)

\* Only e_phoff and e_phnum of the header differ, and they describe the grown
\* table at the end of the bytes.
Reheaded(g, f) ==
  /\ H(g, "e_phoff") = Cast(Len(g.raw), Ehdr(f.class)["e_phoff"][2])
  /\ H(g, "e_phnum") = Len(g.phdrs) % U16
  /\ \A name \in HeaderNames \ {"e_phoff", "e_phnum"} : H(g, name) = H(f, name)
  /\ \A o \in 0..(EhdrSize(f.class) - 1) :
       o \notin FieldOffsets(f.class, "e_phoff") \cup FieldOffsets(f.class, "e_phnum")
         => g.header[o + 1] = f.header[o + 1]
  /\ \A i \in 1..EI_NIDENT : g.header[i] = f.header[i]

\* addLoadSegment appends the data and the segment, and assigns e_phnum and
\* e_phoff; each is cut to its width.
LEMMA AddShape ==
  ASSUME NEW f \in FileType, Sized(f),
         NEW vaddr \in Nat, NEW data \in Seq(Byte), NEW flags \in Nat, NEW align \in Nat
  PROVE  LET g == addLoadSegment(f, vaddr, data, flags, align)
         IN  /\ g \in FileType /\ Sized(g) /\ Extended(g, f, vaddr, data, flags, align)
             /\ Reheaded(g, f)
<1> DEFINE g  == addLoadSegment(f, vaddr, data, flags, align)
           c  == f.class
           e  == f.data
           hd == f.header
           rw == f.raw
           r  == rw \o data
           ph == LoadPhdr(f, vaddr, Len(data), flags, align)
           ps == f.phdrs
           pt == Append(ps, ph)
           h1 == StoreField(hd, Ehdr(c)["e_phnum"], e, Len(pt))
           h2 == StoreField(h1, Ehdr(c)["e_phoff"], e, Len(r))
<1>0. /\ c \in Class /\ e \in Endian /\ hd \in Seq(Byte) /\ Len(hd) = EhdrSize(c)
      /\ rw \in Seq(Byte) /\ Len(rw) \in Nat /\ Len(hd) <= Len(rw)
      /\ ps \in Seq(Seq(Byte)) /\ Len(data) \in Nat
  BY FileFacts
<1>g. g = [f EXCEPT !.raw = r, !.phdrs = pt, !.header = h2]
  BY DEF addLoadSegment
<1>1. ph \in Seq(Byte) /\ Len(ph) = PhdrSize(c)
  <2> DEFINE n == Len(data)
  <2>2. n \in Nat
    OBVIOUS
  <2> HIDE DEF n
  <2>3. /\ LoadPhdr(f, vaddr, n, flags, align) \in Seq(Byte)
        /\ Len(LoadPhdr(f, vaddr, n, flags, align)) = PhdrSize(f.class)
    BY ZenonT(60), <2>2, LoadPhdrShape DEF Describes
  <2> QED  BY <2>3 DEF n
<1>l. \A i \in 1..Len(ps) : Len(ps[i]) = PhdrSize(c)
  BY DEF Sized
<1>H. \A name : H(f, name) = LoadField(hd, Ehdr(c)[name], e)
  BY DEF H
<1>n. "e_phnum" \in MutableNames /\ "e_phoff" \in MutableNames /\ "e_phnum" \in HeaderNames /\ "e_phoff" \in HeaderNames
  BY DEF MutableNames, HeaderNames
<1> HIDE DEF g, c, e, rw, ph, ps, hd
<1>2. r \in Seq(Byte) /\ Len(r) = Len(rw) + Len(data) /\ \A i \in 1..Len(rw) : r[i] = rw[i]
  BY <1>0, Concat
<1>3. /\ pt \in Seq(Seq(Byte)) /\ Len(pt) \in Nat /\ \A i \in 1..Len(pt) : Len(pt[i]) = PhdrSize(c)
  <2>1. /\ pt \in Seq(Seq(Byte)) /\ Len(pt) = Len(ps) + 1 /\ Len(ps) \in Nat
        /\ \A i \in 1..Len(ps) : pt[i] = ps[i]
        /\ pt[Len(ps) + 1] = ph
    BY <1>0, <1>1
  <2> HIDE DEF pt
  <2>2. ASSUME NEW i \in 1..Len(pt) PROVE Len(pt[i]) = PhdrSize(c)
    <3>1. CASE i = Len(ps) + 1
      BY <3>1, <2>1, <1>1
    <3>2. CASE i # Len(ps) + 1
      <4>1. i \in 1..Len(ps)
        BY <3>2, <2>1
      <4> QED  BY <4>1, <2>1, <1>l
    <3> QED  BY <3>1, <3>2
  <2> QED  BY <2>1, <2>2
<1> HIDE DEF r, pt
<1>5. Len(r) \in Nat
  BY <1>0, <1>2
<1>4. Assigned(h1, hd, c, e, "e_phnum", Len(pt))
  BY <1>0, <1>3, <1>n, HeaderStore
<1>a. h1 \in Seq(Byte) /\ Len(h1) = EhdrSize(c)
  BY <1>4 DEF Assigned
<1> HIDE DEF h1
<1>6. Assigned(h2, h1, c, e, "e_phoff", Len(r))
  BY <1>0, <1>a, <1>5, <1>n, HeaderStore
<1> HIDE DEF h2
<1>b. h2 \in Seq(Byte) /\ Len(h2) = EhdrSize(c)
  BY <1>6 DEF Assigned
<1>9. /\ g.class = c /\ g.data = e /\ g.header = h2 /\ g.raw = r
      /\ g.phdrs = pt /\ g.shdrs = f.shdrs /\ g \in FileType
  BY <1>g, <1>2, <1>3, <1>b DEF FileType, c, e
<1>h. \A name : H(g, name) = LoadField(h2, Ehdr(c)[name], e)
  BY <1>9 DEF H
<1>11. Sized(g)
  <2>1. \A i \in 1..Len(f.shdrs) : Len(f.shdrs[i]) = ShdrSize(c)
    BY DEF Sized, c
  <2>2. EhdrSize(c) <= Len(r)
    BY <1>0, <1>2
  <2> QED  BY <2>1, <2>2, <1>3, <1>b, <1>9 DEF Sized
<1>12. Extended(g, f, vaddr, data, flags, align)
  BY <1>2, <1>9 DEF Extended, c, e, r, rw, pt, ps, ph
<1>w. Ehdr(c)["e_phnum"][2] = 2
  <2>1. c \in Class
    BY <1>0
  <2>2. Ehdr(c).e_phnum = IF c = 64 THEN <<56, 2>> ELSE <<44, 2>>
    BY ONLY <2>1, HeaderLayout
  <2> QED  BY ONLY <2>2
<1>13. H(g, "e_phnum") = Len(g.phdrs) % U16
  <2>1. LoadField(h2, Ehdr(c)["e_phnum"], e) = Cast(Len(pt), 2)
    BY <1>4, <1>6, <1>n, <1>w DEF Assigned
  <2> QED  BY <2>1, <1>9, <1>h DEF Cast
<1>14. H(g, "e_phoff") = Cast(Len(g.raw), Ehdr(f.class)["e_phoff"][2])
  BY <1>6, <1>9, <1>h DEF Assigned, c
<1>15. \A name \in HeaderNames \ {"e_phoff", "e_phnum"} : H(g, name) = H(f, name)
  BY <1>4, <1>6, <1>H, <1>h DEF Assigned
<1>16. \A o \in 0..(EhdrSize(f.class) - 1) :
         o \notin FieldOffsets(f.class, "e_phoff") \cup FieldOffsets(f.class, "e_phnum")
           => g.header[o + 1] = f.header[o + 1]
  BY <1>4, <1>6, <1>9 DEF Assigned, c, hd
<1>17. \A i \in 1..EI_NIDENT : g.header[i] = f.header[i]
  BY <1>4, <1>6, <1>9 DEF Assigned, hd
<1> QED  BY <1>9, <1>11, <1>12, <1>13, <1>14, <1>15, <1>16, <1>17 DEF Reheaded, g

\* The table was moved past the data: nothing that was in the file is
\* overwritten, and only e_phoff and e_phnum change.
LEMMA AddLoadSegmentKeeps ==
  ASSUME NEW f \in FileType, NEW b \in Seq(Byte), NEW D, Sized(f), Kept(f, b, D), Coherent(f),
         NEW vaddr \in Nat, NEW data \in Seq(Byte), NEW flags \in Nat, NEW align \in Nat,
         Len(f.raw) + Len(data) < U32,
         FieldOffsets(f.class, "e_phoff") \cup FieldOffsets(f.class, "e_phnum") \subseteq D
  PROVE  LET g == addLoadSegment(f, vaddr, data, flags, align)
         IN  /\ g \in FileType /\ Sized(g) /\ Kept(g, b, D) /\ Coherent(g)
             /\ Extended(g, f, vaddr, data, flags, align) /\ Reheaded(g, f)
             /\ H(g, "e_phoff") = Len(g.raw)
<1> DEFINE g  == addLoadSegment(f, vaddr, data, flags, align)
           c  == f.class
           hd == f.header
           rw == f.raw
           r  == g.raw
           n  == Len(data)
<1>0. /\ c \in Class /\ hd \in Seq(Byte) /\ Len(hd) = EhdrSize(c)
      /\ rw \in Seq(Byte) /\ Len(rw) \in Nat /\ Len(b) \in Nat /\ Len(hd) <= Len(rw) /\ n \in Nat
  BY FileFacts
<1>b. Len(hd) <= Len(b) /\ Len(b) <= Len(rw)
  BY DEF Kept, KeptRaw
<1>u. Len(rw) + n < U32
  OBVIOUS
<1>D. FieldOffsets(c, "e_phoff") \cup FieldOffsets(c, "e_phnum") \subseteq D
  OBVIOUS
<1>1. g \in FileType /\ Sized(g) /\ Extended(g, f, vaddr, data, flags, align) /\ Reheaded(g, f)
  BY AddShape
<1> HIDE DEF g
<1>2. /\ g.class = c /\ g.data = f.data /\ g.shdrs = f.shdrs /\ r = rw \o data /\ Len(r) = Len(rw) + n
  BY <1>1 DEF Extended
<1>3. \A i \in 1..Len(rw) : r[i] = rw[i]
  <2> HIDE DEF rw, r, n
  <2> QED  BY <1>0, <1>2, Concat
<1>4. Len(g.header) = Len(hd) /\ g.header \in Seq(Byte)
  BY <1>0, <1>1, <1>2, FileFacts
<1> HIDE DEF c, rw, r, n, hd
<1>5. Len(r) \in Nat /\ Len(r) < U32 /\ Len(r) >= Len(rw) /\ Len(r) >= Len(b)
  <2>1. U32 \in Nat
    BY Moduli
  <2> QED  BY ONLY <2>1, <1>0, <1>2, <1>b, <1>u
<1>w. Ehdr(c)["e_phoff"][2] \in {4, 8}
  <2>1. c \in Class
    BY <1>0
  <2>2. Ehdr(c).e_phoff = IF c = 64 THEN <<32, 8>> ELSE <<28, 4>>
    BY ONLY <2>1, HeaderLayout
  <2> QED  BY ONLY <2>2
<1>10. /\ H(g, "e_phoff") = Len(r) /\ H(g, "e_phnum") = Len(g.phdrs) % U16
       /\ \A name \in HeaderNames \ {"e_phoff", "e_phnum"} : H(g, name) = H(f, name)
  <2>1. /\ H(g, "e_phoff") = Cast(Len(r), Ehdr(c)["e_phoff"][2]) /\ H(g, "e_phnum") = Len(g.phdrs) % U16
        /\ \A name \in HeaderNames \ {"e_phoff", "e_phnum"} : H(g, name) = H(f, name)
    BY <1>1 DEF Reheaded, c, r
  <2> QED  BY <2>1, <1>5, <1>w, CastIdentity
<1>s. H(g, "e_shoff") = H(f, "e_shoff")
  <2>1. "e_shoff" \in HeaderNames \ {"e_phoff", "e_phnum"}
    BY DEF HeaderNames
  <2> QED  BY <2>1, <1>10
<1>12. KeptHeader(g, b, D)
  <2>1. \A o \in 0..(EhdrSize(c) - 1) : o \notin D => hd[o + 1] = b[o + 1]
    BY DEF Kept, KeptHeader, c, hd
  <2>2. \A o \in 0..(EhdrSize(c) - 1) : o \notin D => g.header[o + 1] = hd[o + 1]
    BY <1>1, <1>D DEF Reheaded, c, hd
  <2> QED  BY <2>1, <2>2, <1>2 DEF KeptHeader
<1>13. KeptRaw(g, b, D)
  <2>1. \A o \in 0..(Len(b) - 1) : o \notin D => rw[o + 1] = b[o + 1]
    BY DEF Kept, KeptRaw, rw
  <2>2. \A o \in 0..(Len(b) - 1) : r[o + 1] = rw[o + 1]
    <3>1. \A o \in 0..(Len(b) - 1) : o + 1 \in 1..Len(rw)
      BY <1>0, <1>b
    <3> QED  BY <3>1, <1>3
  <2>3. Len(g.header) <= Len(b) /\ Len(b) <= Len(r)
    BY <1>0, <1>4, <1>5, <1>b
  <2> QED  BY <2>1, <2>2, <2>3 DEF KeptRaw, r
<1>14. KeptShdrs(g, b)
  BY <1>2, <1>s DEF Kept, KeptShdrs, c
<1>15. KeptPhdrs(g, b)
  BY <1>5, <1>10 DEF KeptPhdrs
<1>16. Coherent(g)
  <2>1. {"e_ehsize", "e_shnum", "e_shentsize", "e_shstrndx", "e_shoff"} \subseteq HeaderNames \ {"e_phoff", "e_phnum"}
    BY DEF HeaderNames
  <2>2. \A name \in {"e_ehsize", "e_shnum", "e_shentsize", "e_shstrndx", "e_shoff"} : H(g, name) = H(f, name)
    BY <2>1, <1>10
  <2>3. H(g, "e_shoff") <= Len(g.raw)
    <3>1. H(f, "e_shoff") <= Len(rw) /\ H(f, "e_shoff") \in Nat
      BY DEF Coherent, rw, Kept, KeptShdrs, TableOf
    <3>2. H(f, "e_shoff") <= Len(r)
      BY <3>1, <1>0, <1>5
    <3> QED  BY <3>2, <1>s DEF r
  <2>4. H(g, "e_phoff") <= Len(g.raw) /\ H(g, "e_phnum") = Len(g.phdrs) % U16
    BY <1>5, <1>10 DEF r
  <2>5. \A i \in 1..EI_NIDENT : g.header[i] = f.header[i]
    BY <1>1 DEF Reheaded
  <2>6. g.class = f.class /\ g.data = f.data /\ g.shdrs = f.shdrs
    BY <1>2 DEF c
  <2> QED  BY <2>2, <2>3, <2>4, <2>5, <2>6, CoherentSame
<1> QED  BY <1>1, <1>10, <1>12, <1>13, <1>14, <1>15, <1>16 DEF Kept, g, r

-----------------------------------------------------------------------------
(* Address translation. *)

\* The segments that back an address, and the offset segment i gives it.
Hits(f, a) == {i \in 1..Len(f.phdrs) : Backs(f, i, a)}
OffsetIn(f, i, a) == (P(f, i, "p_offset") + (a - P(f, i, "p_vaddr"))) % U64

\* vaddrToFileOffset uses the first segment that backs the address.
LEMMA FirstSegment ==
  ASSUME NEW f, NEW a, NEW i, i \in Hits(f, a), \A j \in Hits(f, a) : i <= j
  PROVE  vaddrToFileOffset(f, a) =
           IF OffsetIn(f, i, a) > Len(f.raw) THEN Err("OffsetOutOfBounds") ELSE Ok(OffsetIn(f, i, a))
<1> DEFINE first == CHOOSE k \in Hits(f, a) : \A j \in Hits(f, a) : k <= j
<1>1. first \in Hits(f, a) /\ \A j \in Hits(f, a) : first <= j
  OBVIOUS
<1>2. vaddrToFileOffset(f, a) =
        IF Hits(f, a) = {} \/ OffsetIn(f, first, a) > Len(f.raw) THEN Err("OffsetOutOfBounds")
        ELSE Ok(OffsetIn(f, first, a))
  BY DEF vaddrToFileOffset, Hits, OffsetIn
<1> HIDE DEF first
<1>3. first \in Int /\ i \in Int
  BY <1>1 DEF Hits
<1>4. first = i
  BY <1>1, <1>3
<1> QED  BY <1>2, <1>4

\* An address no segment backs is not translated.
LEMMA NoSegment ==
  ASSUME NEW f, NEW a, Hits(f, a) = {}
  PROVE  vaddrToFileOffset(f, a) = Err("OffsetOutOfBounds")
  BY DEF vaddrToFileOffset, Hits

\* An address that is translated has a first segment.
LEMMA Translated ==
  ASSUME NEW f, NEW a, vaddrToFileOffset(f, a).ok
  PROVE  \E i \in Hits(f, a) :
           /\ \A j \in Hits(f, a) : i <= j
           /\ ~ (OffsetIn(f, i, a) > Len(f.raw))
           /\ vaddrToFileOffset(f, a) = Ok(OffsetIn(f, i, a))
<1>1. Hits(f, a) # {}
  BY NoSegment DEF Err
<1>2. Hits(f, a) \subseteq Nat
  BY DEF Hits
<1>3. PICK i \in Hits(f, a) : \A j \in Hits(f, a) : i <= j
  BY <1>1, <1>2, LeastNatural
<1>4. vaddrToFileOffset(f, a) =
        IF OffsetIn(f, i, a) > Len(f.raw) THEN Err("OffsetOutOfBounds") ELSE Ok(OffsetIn(f, i, a))
  BY <1>3, FirstSegment
<1>5. ~ (OffsetIn(f, i, a) > Len(f.raw))
  BY <1>4 DEF Err
<1> QED  BY <1>3, <1>4, <1>5

\* Segments added behind the others and bytes added at the end change no
\* translation.
LEMMA TranslationKept ==
  ASSUME NEW f, NEW g, NEW a, Len(f.phdrs) \in Nat, Len(g.phdrs) \in Nat, Len(g.phdrs) >= Len(f.phdrs),
         Len(f.raw) \in Nat, Len(g.raw) \in Nat, Len(g.raw) >= Len(f.raw),
         g.class = f.class, g.data = f.data,
         \A i \in 1..Len(f.phdrs) : g.phdrs[i] = f.phdrs[i],
         \A i \in Hits(f, a) : OffsetIn(f, i, a) \in Nat,
         vaddrToFileOffset(f, a).ok
  PROVE  vaddrToFileOffset(g, a) = vaddrToFileOffset(f, a)
<1>1. PICK i \in Hits(f, a) :
        /\ \A j \in Hits(f, a) : i <= j
        /\ ~ (OffsetIn(f, i, a) > Len(f.raw))
        /\ vaddrToFileOffset(f, a) = Ok(OffsetIn(f, i, a))
  BY Translated
<1>2. i \in 1..Len(f.phdrs)
  BY DEF Hits
<1>3. \A j \in 1..Len(f.phdrs) : /\ (j \in Hits(g, a)) <=> (j \in Hits(f, a))
                                 /\ OffsetIn(g, j, a) = OffsetIn(f, j, a)
  <2>1. \A j \in 1..Len(f.phdrs) : \A name : P(g, j, name) = P(f, j, name)
    BY DEF P
  <2>2. \A j \in 1..Len(f.phdrs) : Backs(g, j, a) = Backs(f, j, a)
    BY <2>1 DEF Backs
  <2>3. \A j \in 1..Len(f.phdrs) : j \in 1..Len(g.phdrs)
    OBVIOUS
  <2> QED  BY <2>1, <2>2, <2>3 DEF Hits, OffsetIn
<1>4. i \in Hits(g, a) /\ \A j \in Hits(g, a) : i <= j
  <2>1. ASSUME NEW j \in Hits(g, a) PROVE i <= j
    <3>1. j \in Int /\ j >= 1
      BY DEF Hits
    <3>2. CASE j <= Len(f.phdrs)
      BY <3>1, <3>2, <1>1, <1>3
    <3>3. CASE j > Len(f.phdrs)
      BY <3>1, <3>3, <1>2
    <3> QED  BY <3>1, <3>2, <3>3
  <2> QED  BY <2>1, <1>2, <1>3
<1>5. OffsetIn(g, i, a) = OffsetIn(f, i, a) /\ ~ (OffsetIn(g, i, a) > Len(g.raw))
  BY <1>1, <1>2, <1>3
<1> QED  BY <1>1, <1>4, <1>5, FirstSegment

\* The fields of a cached program header are numbers.
LEMMA SegmentFieldType ==
  ASSUME NEW f \in FileType, Sized(f), NEW i \in 1..Len(f.phdrs), NEW name \in PhdrNames
  PROVE  P(f, i, name) \in Nat
<1> DEFINE s == f.phdrs[i]
           c == f.class
           e == f.data
<1>1. s \in Seq(Byte) /\ Len(s) = PhdrSize(c) /\ c \in Class /\ e \in Endian
  BY FileFacts DEF Sized
<1>p. P(f, i, name) = LoadField(s, Phdr(c)[name], e)
  BY DEF P
<1> HIDE DEF s, c, e
<1> QED  BY <1>1, <1>p, PhdrFieldType

\* And they are below 2^64.
LEMMA SegmentFieldBound ==
  ASSUME NEW f \in FileType, Sized(f), NEW i \in 1..Len(f.phdrs), NEW name \in PhdrNames
  PROVE  P(f, i, name) \in Nat /\ P(f, i, name) < U64
<1> DEFINE s == f.phdrs[i]
           c == f.class
           e == f.data
           w == Phdr(c)[name][2]
           x == LoadField(s, Phdr(c)[name], e)
<1>1. s \in Seq(Byte) /\ Len(s) = PhdrSize(c) /\ c \in Class /\ e \in Endian
  BY FileFacts DEF Sized
<1>2. P(f, i, name) = x
  BY DEF P
<1> HIDE DEF s, c, e
<1>3. x \in Nat /\ x < Modulus(w)
  BY <1>1, PhdrFieldType
<1>4. w = 4 \/ w = 8
  BY <1>1, PhdrLayout
<1> HIDE DEF w, x
<1>5. w = 4 => Modulus(w) = U32
  BY DEF Modulus
<1>6. w = 8 => Modulus(w) = U64
  BY DEF Modulus
<1>7. U32 \in Nat /\ U64 \in Nat /\ U32 < U64
  BY Moduli
<1>8. x < U64
  <2> DEFINE m == Modulus(w)
  <2>1. (m = U32 \/ m = U64) /\ x < m
    BY <1>3, <1>4, <1>5, <1>6
  <2> HIDE DEF m
  <2> QED  BY ONLY <1>3, <1>7, <2>1
<1> QED  BY <1>2, <1>3, <1>8

\* The offset a segment gives an address it backs is a number too.
LEMMA OffsetType ==
  ASSUME NEW f \in FileType, Sized(f), NEW a \in Nat, NEW i \in Hits(f, a)
  PROVE  OffsetIn(f, i, a) \in Nat
<1> DEFINE o == P(f, i, "p_offset")
           v == P(f, i, "p_vaddr")
<1>1. i \in 1..Len(f.phdrs) /\ a >= v
  BY DEF Hits, Backs
<1>2. o \in Nat /\ v \in Nat
  BY <1>1, SegmentFieldType DEF PhdrNames
<1>u. U64 \in Nat /\ U64 > 0
  BY Moduli
<1> HIDE DEF o, v
<1>3. o + (a - v) \in Nat
  BY <1>1, <1>2
<1> DEFINE x == o + (a - v)
<1> HIDE DEF x
<1>4. x % U64 \in Nat
  BY <1>3, <1>u, DivMod DEF x
<1> QED  BY <1>4 DEF OffsetIn, o, v, x

\* The byte x is what a caller reads at address a.
ReadsByte(f, a, x) ==
  LET r == vaddrToFileOffset(f, a) IN r.ok /\ readAt(f, r.value, 1) = Ok(<< x >>)

\* The entry addLoadSegment adds for data, and where the data is.
LEMMA AddedEntry ==
  ASSUME NEW f \in FileType, Sized(f), NEW g \in FileType, Sized(g),
         NEW vaddr \in Nat, NEW data \in Seq(Byte), NEW flags \in Nat, NEW align \in Nat,
         Len(f.raw) + Len(data) < U32, Extended(g, f, vaddr, data, flags, align)
  PROVE  /\ Len(g.phdrs) = Len(f.phdrs) + 1 /\ \A i \in 1..Len(f.phdrs) : g.phdrs[i] = f.phdrs[i]
         /\ P(g, Len(f.phdrs) + 1, "p_type") = PT_LOAD
         /\ P(g, Len(f.phdrs) + 1, "p_offset") = Len(f.raw)
         /\ P(g, Len(f.phdrs) + 1, "p_vaddr") = Cast(vaddr, Phdr(f.class)["p_vaddr"][2])
         /\ P(g, Len(f.phdrs) + 1, "p_filesz") = Len(data)
         /\ Len(g.raw) = Len(f.raw) + Len(data)
         /\ \A i \in 1..Len(data) : g.raw[Len(f.raw) + i] = data[i]
<1> DEFINE n  == Len(f.phdrs)
           sz == Len(data)
           at == Len(f.raw)
           rw == f.raw
           r  == g.raw
           ph == LoadPhdr(f, vaddr, sz, flags, align)
<1>e. /\ g.class = f.class /\ g.data = f.data /\ g.raw = f.raw \o data
      /\ g.phdrs = Append(f.phdrs, ph)
  BY DEF Extended
<1>0. /\ n \in Nat /\ sz \in Nat /\ at \in Nat
      /\ rw \in Seq(Byte) /\ r \in Seq(Byte) /\ r = rw \o data /\ at = Len(rw)
      /\ at + sz < U32
  BY <1>e, FileFacts
<1>1. Len(g.phdrs) = n + 1 /\ g.phdrs[n + 1] = ph /\ \A i \in 1..n : g.phdrs[i] = f.phdrs[i]
  <2> DEFINE ps == f.phdrs
             pt == g.phdrs
  <2>1. ps \in Seq(Seq(Byte)) /\ pt \in Seq(Seq(Byte)) /\ pt = Append(ps, ph)
    BY <1>e, FileFacts
  <2> HIDE DEF ps, pt, ph
  <2>2. Len(pt) = Len(ps) + 1 /\ pt[Len(ps) + 1] = ph /\ \A i \in 1..Len(ps) : pt[i] = ps[i]
    BY ONLY <2>1
  <2> QED  BY <2>2 DEF ps, pt
<1>2. \A name : P(g, n + 1, name) = LoadField(ph, Phdr(f.class)[name], f.data)
  BY <1>1, <1>e DEF P
<1>c. f.class \in Class
  BY FileFacts
<1>L. /\ Len(r) = at + sz /\ \A i \in 1..sz : r[at + i] = data[i]
  <2> HIDE DEF rw, r, at, sz
  <2> QED  BY <1>0, Concat DEF sz
<1>u. U32 \in Nat
  BY Moduli
<1>3. /\ P(g, n + 1, "p_type") = PT_LOAD /\ P(g, n + 1, "p_offset") = at
      /\ P(g, n + 1, "p_vaddr") = Cast(vaddr, Phdr(f.class)["p_vaddr"][2])
      /\ P(g, n + 1, "p_filesz") = sz
  <2> DEFINE F(name, v) == P(g, n + 1, name) = Cast(v, Phdr(f.class)[name][2])
  <2>1. sz \in Nat
    BY <1>0
  <2>2. F("p_type", PT_LOAD) /\ F("p_offset", Len(f.raw)) /\ F("p_vaddr", vaddr) /\ F("p_filesz", sz)
    <3> DEFINE G(name, v) == LoadField(ph, Phdr(f.class)[name], f.data) = Cast(v, Phdr(f.class)[name][2])
    <3>1. G("p_type", PT_LOAD) /\ G("p_offset", Len(f.raw)) /\ G("p_vaddr", vaddr) /\ G("p_filesz", sz)
      <4> HIDE DEF sz
      <4>1. Describes(ph, f.class, f.data, Len(f.raw), vaddr, sz, flags, align)
        BY <2>1, LoadPhdrShape
      <4> HIDE DEF ph
      <4> QED  BY ONLY <4>1 DEF Describes
    <3> HIDE DEF ph, sz, n
    <3> QED  BY <3>1, <1>2
  <2>3. \A name \in PhdrNames : Phdr(f.class)[name][2] \in {4, 8}
    <3> DEFINE c == f.class
    <3>1. c \in Class
      BY <1>c
    <3> HIDE DEF c
    <3>2. \A name \in PhdrNames : Phdr(c)[name][2] \in {4, 8}
      BY <3>1, PhdrLayout
    <3> QED  BY <3>2 DEF c
  <2>4. \A name \in PhdrNames, v \in Nat : v < U32 => Cast(v, Phdr(f.class)[name][2]) = v
    BY <2>3, CastIdentity
  <2>5. PT_LOAD \in Nat /\ PT_LOAD < U32 /\ Len(f.raw) < U32 /\ sz < U32
    BY <1>0, <1>u, Moduli DEF PT_LOAD
  <2>6. {"p_type", "p_offset", "p_vaddr", "p_filesz"} \subseteq PhdrNames
    BY DEF PhdrNames
  <2> HIDE DEF sz
  <2> QED  BY <2>1, <2>2, <2>4, <2>5, <2>6, <1>0
<1> QED  BY <1>1, <1>3, <1>L

\* segmentData of the new entry is the data.
LEMMA AddedData ==
  ASSUME NEW f \in FileType, Sized(f), NEW g \in FileType, Sized(g),
         NEW vaddr \in Nat, NEW data \in Seq(Byte), NEW flags \in Nat, NEW align \in Nat,
         Len(f.raw) + Len(data) < U32, Extended(g, f, vaddr, data, flags, align)
  PROVE  segmentData(g, Len(g.phdrs)) = Ok(data)
<1> DEFINE n  == Len(g.phdrs)
           sz == Len(data)
           at == Len(f.raw)
           r  == g.raw
<1>1. /\ P(g, n, "p_offset") = at /\ P(g, n, "p_filesz") = sz
      /\ Len(r) = at + sz /\ \A i \in 1..sz : r[at + i] = data[i]
  BY AddedEntry
<1>2. n \in 1..n
  BY AddedEntry, FileFacts
<1>0. sz \in Nat /\ at \in Nat /\ r \in Seq(Byte) /\ at + sz < U32
  BY FileFacts
<1> HIDE DEF n, sz, at, r
<1>3. at + sz <= Len(r) /\ Len(r) \in Nat /\ sz < U64
  <2>1. U32 \in Nat /\ U64 \in Nat /\ U32 < U64
    BY Moduli
  <2>2. Len(r) = at + sz
    BY <1>1
  <2> QED  BY ONLY <1>0, <2>1, <2>2
<1>4. regionFits(Len(r), at, sz, 1)
  BY <1>0, <1>3, RegionFitsBytes
<1>5. Slice(r, at, sz) = data
  <2> DEFINE s == Slice(r, at, sz)
  <2>1. s \in Seq(Byte) /\ Len(s) = sz /\ \A i \in 1..sz : s[i] = r[at + i]
    BY <1>0, <1>3, SliceShape
  <2> HIDE DEF s
  <2>2. \A i \in 1..sz : s[i] = data[i]
    BY <2>1, <1>1
  <2>3. data \in Seq(Byte) /\ Len(data) = sz
    BY DEF sz
  <2>4. s = data
    BY <2>1, <2>2, <2>3
  <2> QED  BY <2>4 DEF s
<1>6. readAt(g, at, sz) = Ok(data)
  BY <1>4, <1>5 DEF readAt, r
<1> QED  BY <1>1, <1>2, <1>6 DEF segmentData, n

\* What addLoadSegment gives a caller: the address of the new data resolves to
\* the place it was appended at, and reading there returns it, unless a segment
\* that was there before backs the address.  Its addresses are those of the
\* file's class.
LEMMA AddedSegment ==
  ASSUME NEW f \in FileType, Sized(f), NEW g \in FileType, Sized(g),
         NEW vaddr \in Nat, NEW data \in Seq(Byte), NEW flags \in Nat, NEW align \in Nat,
         Len(f.raw) + Len(data) < U32, NEW top, top = IF f.class = 32 THEN U32 ELSE U64, vaddr + Len(data) < top,
         Extended(g, f, vaddr, data, flags, align),
         NEW k \in Nat, k < Len(data), NEW a, a = vaddr + k, Hits(f, a) = {}
  PROVE  ReadsByte(g, a, data[k + 1])
<1> DEFINE n  == Len(f.phdrs)
           sz == Len(data)
           at == Len(f.raw)
           rw == f.raw
           r  == g.raw
           ph == LoadPhdr(f, vaddr, sz, flags, align)
           o  == Len(f.raw) + k
<1>e. /\ g.class = f.class /\ g.data = f.data /\ g.raw = f.raw \o data
      /\ g.phdrs = Append(f.phdrs, ph)
  BY DEF Extended
<1>0. /\ n \in Nat /\ sz \in Nat /\ at \in Nat /\ k \in Nat /\ k < sz /\ a \in Nat /\ a = vaddr + k
      /\ rw \in Seq(Byte) /\ r \in Seq(Byte) /\ r = rw \o data /\ at = Len(rw)
      /\ at + sz < U32 /\ vaddr + sz < top
  BY <1>e, FileFacts
<1>1. /\ Len(g.phdrs) = n + 1 /\ \A i \in 1..n : g.phdrs[i] = f.phdrs[i]
      /\ P(g, n + 1, "p_type") = PT_LOAD /\ P(g, n + 1, "p_offset") = at
      /\ P(g, n + 1, "p_vaddr") = Cast(vaddr, Phdr(f.class)["p_vaddr"][2])
      /\ P(g, n + 1, "p_filesz") = sz
  BY AddedEntry
<1>L. /\ Len(r) = at + sz /\ \A i \in 1..sz : r[at + i] = data[i]
  BY AddedEntry
<1>c. f.class \in Class
  BY FileFacts
<1>u. U32 \in Nat /\ U64 \in Nat /\ U32 < U64 /\ 1 < U32 /\ 1 < U16
  BY Moduli
<1>t. top \in {U32, U64} /\ top <= U64 /\ (f.class = 32 => top = U32)
  BY <1>u
<1>2. Cast(vaddr, Phdr(f.class)["p_vaddr"][2]) = vaddr
  <2>1. vaddr < top
    BY <1>0, <1>t, <1>u
  <2>2. CASE f.class = 32
    <3>1. Phdr(f.class)["p_vaddr"][2] \in {4, 8}
      BY <1>c, PhdrLayout DEF PhdrNames
    <3>2. vaddr < U32
      BY <2>1, <2>2, <1>t
    <3> QED  BY <3>1, <3>2, CastIdentity
  <2>3. CASE f.class = 64
    <3>1. Phdr(f.class)["p_vaddr"][2] = 8
      BY <2>3 DEF Phdr, Elf64_Phdr
    <3>2. vaddr % U64 = vaddr
      BY ONLY <2>1, <1>t, <1>u, vaddr \in Nat
    <3> QED  BY <3>1, <3>2 DEF Cast
  <2> QED  BY <2>2, <2>3, <1>c DEF Class
<1>3. /\ P(g, n + 1, "p_type") = PT_LOAD /\ P(g, n + 1, "p_offset") = at
      /\ P(g, n + 1, "p_vaddr") = vaddr /\ P(g, n + 1, "p_filesz") = sz
  BY <1>1, <1>2
<1> HIDE DEF n, sz, at, rw, r, ph
<1>4. (P(g, n + 1, "p_vaddr") + P(g, n + 1, "p_filesz")) % U64 = vaddr + sz
  <2> DEFINE x == vaddr + sz
  <2>1. x \in Nat /\ x < U64
    BY <1>0, <1>u, <1>t
  <2> HIDE DEF x
  <2>2. x % U64 = x
    BY ONLY <2>1, <1>u
  <2> QED  BY <2>2, <1>3 DEF x
<1>5. Hits(g, a) = {n + 1}
  <2>1. n + 1 \in Hits(g, a)
    BY <1>0, <1>1, <1>3, <1>4 DEF Hits, Backs
  <2>2. ASSUME NEW i \in Hits(g, a) PROVE i = n + 1
    <3>1. i \in 1..(n + 1) /\ Backs(g, i, a)
      BY <1>1 DEF Hits
    <3>2. CASE i \in 1..n
      <4>1. \A name : P(g, i, name) = P(f, i, name)
        BY <1>1, <1>e, <3>2 DEF P
      <4>2. Backs(f, i, a)
        BY <4>1, <3>1 DEF Backs
      <4>3. i \in Hits(f, a)
        BY <4>2, <3>2 DEF Hits, n
      <4> QED  BY <4>3
    <3> QED  BY <3>1, <3>2, <1>0
  <2> QED  BY <2>1, <2>2
<1>6. OffsetIn(g, n + 1, a) = at + k
  <2> DEFINE x == at + k
  <2>1. x \in Nat /\ x < U64 /\ at + (a - vaddr) = x
    BY <1>0, <1>u
  <2> HIDE DEF x
  <2>2. x % U64 = x
    BY ONLY <2>1, <1>u
  <2> QED  BY <2>1, <2>2, <1>3 DEF OffsetIn, x
<1>7. vaddrToFileOffset(g, a) = Ok(at + k)
  <2>1. n + 1 \in Hits(g, a) /\ \A j \in Hits(g, a) : n + 1 <= j
    BY <1>0, <1>5
  <2>2. vaddrToFileOffset(g, a) = IF OffsetIn(g, n + 1, a) > Len(g.raw) THEN Err("OffsetOutOfBounds")
                                  ELSE Ok(OffsetIn(g, n + 1, a))
    BY <2>1, FirstSegment
  <2>3. ~ (at + k > Len(g.raw))
    BY <1>0, <1>L DEF r
  <2> QED  BY <2>2, <2>3, <1>6
<1>8. readAt(g, at + k, 1) = Ok(<< data[k + 1] >>)
  <2>0. at + k = o
    BY DEF at
  <2> HIDE DEF o
  <2>1. o \in Nat /\ o + 1 <= Len(r) /\ Len(r) \in Nat
    BY <1>0, <1>L, <2>0
  <2>2. r[o + 1] = data[k + 1]
    <3>1. k + 1 \in 1..sz /\ at + (k + 1) = o + 1
      BY <1>0, <2>0
    <3> QED  BY <3>1, <1>L
  <2>3. regionFits(Len(r), o, 1, 1)
    <3>1. PICK m \in Nat : m = 1
      OBVIOUS
    <3>2. m < U16 /\ o + m * m <= Len(r)
      BY <3>1, <2>1, <1>u
    <3>3. regionFits(Len(r), o, m, m)
      BY <3>2, <2>1, RegionFitsWhen
    <3> QED  BY <3>1, <3>3
  <2>4. Slice(r, o, 1) = << data[k + 1] >>
    <3>1. PICK m \in Nat : m = 1
      OBVIOUS
    <3>2. /\ Slice(r, o, m) \in Seq(Byte) /\ Len(Slice(r, o, m)) = m
          /\ \A i \in 1..m : Slice(r, o, m)[i] = r[o + i]
      <4>1. o + m <= Len(r)
        BY <3>1, <2>1
      <4>2. r \in Seq(Byte) /\ o \in Nat /\ m \in Nat
        BY <1>0, <2>1
      <4> QED  BY ONLY <4>1, <4>2, SliceShape
    <3>3. Slice(r, o, 1) \in Seq(Byte) /\ Len(Slice(r, o, 1)) = 1 /\ Slice(r, o, 1)[1] = r[o + 1]
      BY <3>1, <3>2
    <3> DEFINE s == Slice(r, o, 1)
    <3> HIDE DEF s
    <3>4. s = << s[1] >>
      BY <3>3 DEF s
    <3> QED  BY <3>3, <3>4, <2>2 DEF s
  <2> QED  BY <2>0, <2>3, <2>4 DEF readAt, r
<1> QED  BY <1>7, <1>8 DEF ReadsByte, Ok

=============================================================================
