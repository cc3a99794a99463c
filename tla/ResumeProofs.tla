---------------------------- MODULE ResumeProofs ----------------------------
(***************************************************************************)
(* The patched program and the game: where the processor is for as long as *)
(* the game stays out of the injected code and of the words that were      *)
(* written over its entry point (Course), what the trampoline gives back   *)
(* of what it took (Kept), and that each instruction executed is, in the   *)
(* view of the game, one of the original program or none (NextSeen).       *)
(***************************************************************************)
EXTENDS BootProofs

-----------------------------------------------------------------------------
(***************************************************************************)
(* The address map of a patched program.                                   *)
(***************************************************************************)

\* Where everything is: the game's text below the trampoline, and in the blob,
\* after the magic, the prefix, the moved instructions, the jump back and the path.
LEMMA Places ==
  ASSUME scene \in Scenes, Low(scene), Built
  PROVE  LET T == scene.trampolineAddr
             c == scene.code
             d == Displaced
             b == Len(Back)
             n == Len(scene.text)
         IN  /\ T \in Nat /\ c \in Nat /\ n \in Nat /\ d \in {1, 5} /\ b \in {1, 5} /\ d <= n
             /\ T % 4 = 0 /\ c % 4 = 0 /\ c + 4 * n <= T /\ T + 1260 <= AddrMod \div 2
             /\ CodeBase = T + 8 /\ Resume = T + 204 /\ PathAt = T + 204 + 4 * (d + b)
             /\ \E z \in Nat : z > PathAt /\ BlobCode = (T + 8) .. (z - 1)
             /\ Len(image.text) = 4 * n /\ Text = c .. (c + 4 * n - 1)
             /\ Window = c .. (c + 4 * d - 1)
             /\ Prefix = (T + 8) .. (T + 203)
             /\ Moved = (T + 204) .. (T + 203 + 4 * d)
             /\ JumpBackPc = (T + 204 + 4 * d) .. (T + 203 + 4 * (d + b))
<1> DEFINE T == scene.trampolineAddr
           c == scene.code
           d == Displaced
           b == Len(Back)
           n == Len(scene.text)
           z == T + Len(image.blob)
<1>1. /\ T \in Nat /\ c \in Nat /\ n \in Nat /\ d \in {1, 5} /\ b \in {1, 5} /\ d <= n
      /\ T % 4 = 0 /\ c % 4 = 0 /\ c + 4 * n <= T /\ T + 1260 <= AddrMod \div 2
      /\ CodeBase = T + 8 /\ Resume = T + 204 /\ PathAt = T + 8 + 4 * (49 + d + b)
  BY LowAddresses DEF Built
<1>2. image.blob \in Seq(Octet)
  <2>1. PICK m : MovedWords(m) /\ image.blob = blobOf(Injected(m), scene.path)
    BY DEF Built
  <2>2. Injected(m) \in Seq(Word)
    BY <2>1, InjectedWords DEF MovedWords
  <2>3. scene.path \in Seq(Octet)
    BY SceneFacts
  <2> QED  BY <2>1, <2>2, <2>3, BlobBytes
<1>3. /\ PathAt - T + Len(scene.path) < Len(image.blob) /\ Len(scene.path) \in Nat /\ Len(image.blob) \in Nat
  BY <1>2, PathInBlob, SceneFacts
<1>4. Len(image.text) = 4 * n
  <2>1. Len(toBigEndianBytes(scene.text)) = 4 * n
    BY SceneFacts, BytesOf
  <2> DEFINE N == Len(toBigEndianBytes(scene.text))
             e(k) == IF k <= Len(toBigEndianBytes(JumpIn)) THEN toBigEndianBytes(JumpIn)[k]
                     ELSE toBigEndianBytes(scene.text)[k]
  <2>2. image.text = [k \in 1..N |-> e(k)]
    BY DEF Built
  <2>3. N \in Nat
    BY <1>1, <2>1
  <2> HIDE DEF N, e
  <2>4. Len(image.text) = N
    BY ONLY <2>2, <2>3
  <2> QED  BY <2>1, <2>4 DEF N
<1>5. Text = c .. (c + 4 * n - 1) /\ Window = c .. (c + 4 * d - 1)
  BY <1>4 DEF Text, Window
<1>6. BlobCode = CodeBase .. (z - 1) /\ Prefix = CodeBase .. (Resume - 1) /\ Moved = Resume .. (Resume + 4 * d - 1)
      /\ JumpBackPc = (Resume + 4 * d) .. (PathAt - 1)
  <2>1. BlobCode = CodeBase .. (z - 1)
    <3> DEFINE x == Len(image.blob)
    <3>0. T \in Nat /\ x \in Nat
      BY <1>1, <1>3
    <3>1. T + x - 1 = z - 1
      <4> HIDE DEF T, x
      <4> QED  BY ONLY <3>0 DEF x
    <3> HIDE DEF z
    <3> QED  BY <3>1 DEF BlobCode
  <2>2. Prefix = CodeBase .. (Resume - 1)
    BY DEF Prefix
  <2>3. Moved = Resume .. (Resume + 4 * d - 1)
    BY DEF Moved
  <2>4. JumpBackPc = (Resume + 4 * d) .. (PathAt - 1)
    BY DEF JumpBackPc
  <2> QED  BY ONLY Zenon, <2>1, <2>2, <2>3, <2>4
<1> DEFINE l == Len(image.blob)
           p == Len(scene.path)
<1>u. /\ PathAt - T + p < l /\ p \in Nat /\ l \in Nat /\ T \in Nat /\ PathAt = T + 8 + 4 * (49 + d + b)
      /\ d \in {1, 5} /\ b \in {1, 5}
  BY ONLY <1>1, <1>3
<1> HIDE DEF T, c, d, b, n, l, p
<1>7. T + l \in Nat /\ T + l > PathAt /\ PathAt = T + 204 + 4 * (d + b)
  BY ONLY SMT, <1>u
<1>8. Resume - 1 = T + 203 /\ Resume + 4 * d = T + 204 + 4 * d /\ Resume + 4 * d - 1 = T + 203 + 4 * d
      /\ PathAt - 1 = T + 203 + 4 * (d + b)
  BY ONLY SMT, <1>1, <1>7
<1>9. \E y \in Nat : y > PathAt /\ BlobCode = (T + 8) .. (y - 1)
  <2>1. z = T + l
    BY DEF T, l
  <2> HIDE DEF z
  <2>2. z \in Nat /\ z > PathAt /\ BlobCode = (T + 8) .. (z - 1)
    BY ONLY <1>1, <1>6, <1>7, <2>1
  <2> QED  BY ONLY <2>2
<1>10. /\ Prefix = (T + 8) .. (T + 203) /\ Moved = (T + 204) .. (T + 203 + 4 * d)
       /\ JumpBackPc = (T + 204 + 4 * d) .. (T + 203 + 4 * (d + b))
  BY ONLY Zenon, <1>1, <1>6, <1>8
<1> QED  BY ONLY <1>1, <1>4, <1>5, <1>7, <1>9, <1>10 DEF T, c, d, b, n

\* The words after the second system call.
LEMMA FetchRest ==
  ASSUME scene \in Scenes, Low(scene), Built
  PROVE  /\ \A k \in 1..16 : Fetch(CodeBase + 4 * (29 + k)) = buildEpilogue[k]
         /\ \A k \in 1..3 : Fetch(CodeBase + 4 * (45 + k)) = loadImmediate32(2, scene.toc)[k]
         /\ \E m : MovedWords(m) /\ \A k \in 1..Displaced : Fetch(Resume + 4 * (k - 1)) = m[k]
         /\ \A k \in 1..Len(Back) : Fetch((Resume + 4 * Displaced) + 4 * (k - 1)) = Back[k]
<1> DEFINE d == Displaced
           b == Len(Back)
<1>1. PICK m : /\ MovedWords(m)
               /\ \A x \in 0..(48 + d + b) :
                    CodeBase + 4 * x \in BlobCode /\ Fetch(CodeBase + 4 * x) = Injected(m)[x + 1]
  BY FetchInjected
<1> DEFINE c == Injected(m)
<1>2. /\ \A i \in 1..16 : c[30 + i] = buildEpilogue[i]
      /\ \A i \in 1..3 : c[46 + i] = loadImmediate32(2, scene.toc)[i]
      /\ \A i \in 1..d : c[49 + i] = m[i]
      /\ \A i \in 1..b : c[49 + d + i] = Back[i]
  BY <1>1, InjectedWords DEF MovedWords
<1>3. /\ d \in {1, 5} /\ b \in {1, 5} /\ scene.trampolineAddr \in Nat
      /\ CodeBase = scene.trampolineAddr + 8 /\ Resume = scene.trampolineAddr + 204
  BY Places
<1> HIDE DEF c, d, b
<1>4. ASSUME NEW x \in 0..(48 + d + b) PROVE Fetch(CodeBase + 4 * x) = c[x + 1]
  BY <1>1 DEF c
<1>5. ASSUME NEW k \in 1..16 PROVE Fetch(CodeBase + 4 * (29 + k)) = buildEpilogue[k]
  <2>1. 29 + k \in 0..(48 + d + b) /\ (29 + k) + 1 = 30 + k
    BY ONLY <1>3, k \in 1..16
  <2> QED  BY ONLY <2>1, <1>2, <1>4, k \in 1..16
<1>6. ASSUME NEW k \in 1..3 PROVE Fetch(CodeBase + 4 * (45 + k)) = loadImmediate32(2, scene.toc)[k]
  <2>1. 45 + k \in 0..(48 + d + b) /\ (45 + k) + 1 = 46 + k
    BY ONLY <1>3, k \in 1..3
  <2> QED  BY ONLY <2>1, <1>2, <1>4, k \in 1..3
<1>7. ASSUME NEW k \in 1..d PROVE Fetch(Resume + 4 * (k - 1)) = m[k]
  <2>1. /\ 48 + k \in 0..(48 + d + b) /\ (48 + k) + 1 = 49 + k
        /\ Resume + 4 * (k - 1) = CodeBase + 4 * (48 + k)
    BY ONLY SMT, <1>3, k \in 1..d
  <2> QED  BY ONLY <2>1, <1>2, <1>4, k \in 1..d
<1>8. ASSUME NEW k \in 1..b PROVE Fetch((Resume + 4 * d) + 4 * (k - 1)) = Back[k]
  <2>1. /\ 48 + d + k \in 0..(48 + d + b) /\ (48 + d + k) + 1 = 49 + d + k
        /\ (Resume + 4 * d) + 4 * (k - 1) = CodeBase + 4 * (48 + d + k)
    BY ONLY SMT, <1>3, k \in 1..b
  <2> QED  BY ONLY <2>1, <1>2, <1>4, k \in 1..b
<1> QED  BY <1>1, <1>5, <1>6, <1>7, <1>8 DEF d, b

-----------------------------------------------------------------------------
(***************************************************************************)
(* Addresses in registers.                                                 *)
(***************************************************************************)

\* Quotient and remainder from their defining equation.
LEMMA Divides ==
  ASSUME NEW h \in Nat, h > 0, NEW q \in Int, NEW r \in 0..(h - 1)
  PROVE  (q * h + r) \div h = q /\ (q * h + r) % h = r
<1> DEFINE n == q * h + r
           x == n \div h
           y == n % h
<1>1. n \in Int /\ x \in Int /\ y \in 0..(h - 1) /\ n = x * h + y
  BY SMT
<1>2. x * h + y = q * h + r
  BY <1>1
<1> HIDE DEF n, x, y
<1>3. (x - q) * h = r - y
  BY ONLY SMT, <1>1, <1>2, q \in Int, h \in Nat, r \in 0..(h - 1)
<1>4. ASSUME x - q >= 1 PROVE FALSE
  <2>1. (x - q) * h >= h
    BY ONLY SMT, <1>1, <1>4, q \in Int, h \in Nat
  <2> QED  BY ONLY SMT, <1>1, <1>3, <2>1, h \in Nat, r \in 0..(h - 1)
<1>5. ASSUME x - q <= -1 PROVE FALSE
  <2>1. (x - q) * h <= -h
    BY ONLY SMT, <1>1, <1>5, q \in Int, h \in Nat
  <2> QED  BY ONLY SMT, <1>1, <1>3, <2>1, h \in Nat, r \in 0..(h - 1)
<1>6. x = q
  BY ONLY SMT, <1>1, <1>4, <1>5, q \in Int
<1>7. y = r
  BY ONLY SMT, <1>1, <1>3, <1>6, h \in Nat, r \in 0..(h - 1)
<1> QED  BY <1>6, <1>7 DEF n, x, y

\* A register holds the address that was put there.
LEMMA AddressOf ==
  ASSUME NEW a \in Int
  PROVE  AddrOf(Reg(a)) = a
<1>1. (a \div HalfMod) * HalfMod + (a % HalfMod) = a
  BY SMT, HalfModAssumption
<1> QED  BY <1>1 DEF AddrOf, Reg

\* Adding a displacement to an address in a register.
LEMMA Displacement ==
  ASSUME NEW a \in Address, NEW n \in Int, -1024 < n, n < 1024, a + n \in Address
  PROVE  Plus(Reg(a), Extended(n)) = Reg(a + n)
<1> DEFINE H == HalfMod
           q == a \div H
           r == a % H
<1>1. H \in Nat /\ H >= 8192
  BY HalfModAssumption
<1>2. q \in Int /\ r \in 0..(H - 1) /\ a = q * H + r /\ a \in Nat /\ a + n \in Nat /\ a < H * H /\ a + n < H * H
  <2>1. a \in Nat /\ a + n \in Nat /\ a < H * H /\ a + n < H * H
    BY SMT, <1>1 DEF Address, AddrMod
  <2> QED  BY ONLY SMT, <1>1, <2>1
<1>3. q >= 0 /\ q < H
  <2> HIDE DEF H, q, r
  <2>1. CASE q < 0
    <3>1. q * H <= -H
      BY ONLY SMT, <1>1, <1>2, <2>1
    <3> QED  BY ONLY SMT, <1>1, <1>2, <3>1
  <2>2. CASE q >= H
    <3>1. q * H >= H * H
      BY ONLY SMT, <1>1, <1>2, <2>2
    <3> QED  BY ONLY SMT, <1>1, <1>2, <3>1
  <2> QED  BY ONLY SMT, <1>1, <1>2, <2>1, <2>2
<1>4. Reg(a) = << 0, 0, q, r >>
  BY DEF Reg
<1>5. Reg(a + n) = << 0, 0, (a + n) \div H, (a + n) % H >>
  BY DEF Reg
<1> HIDE DEF q, r
<1>6. CASE n >= 0
  <2>1. n % H = n
    <3> HIDE DEF H
    <3> QED  BY ONLY SMT, <1>1, <1>6, n \in Int, n < 1024
  <2>2. Extended(n) = << 0, 0, 0, n >>
    BY <1>6, <2>1 DEF Extended
  <2> DEFINE s4 == r + n
             c4 == s4 \div H
             s3 == q + 0 + c4
             s2 == 0 + 0 + (s3 \div H)
             s1 == 0 + 0 + (s2 \div H)
  <2>3. Plus(Reg(a), Extended(n)) = << s1 % H, s2 % H, s3 % H, s4 % H >>
    BY <1>4, <2>2 DEF Plus
  <2>4. CASE s4 < H
    <3>1. s4 % H = s4 /\ c4 = 0
      <4> HIDE DEF H
      <4> QED  BY ONLY SMT, <1>1, <1>2, <1>6, <2>4, n \in Int
    <3>2. s3 % H = q /\ s3 \div H = 0
      <4> HIDE DEF H, c4
      <4> QED  BY ONLY SMT, <1>1, <1>2, <1>3, <3>1
    <3>3. s2 % H = 0 /\ s1 % H = 0
      <4> HIDE DEF H, s3
      <4> QED  BY ONLY SMT, <1>1, <3>2
    <3>4. (a + n) \div H = q /\ (a + n) % H = s4
      <4> HIDE DEF H
      <4>1. s4 \in 0..(H - 1) /\ a + n = q * H + s4
        BY ONLY SMT, <1>1, <1>2, <1>6, <2>4, n \in Int
      <4> HIDE DEF s4
      <4> QED  BY ONLY <1>1, <1>2, <4>1, Divides
    <3> HIDE DEF H, s1, s2, s3, s4, c4
    <3> QED  BY ONLY <1>5, <2>3, <3>1, <3>2, <3>3, <3>4
  <2>5. CASE s4 >= H
    <3>0. s4 - H \in 0..(H - 1) /\ s4 = 1 * H + (s4 - H)
      <4> HIDE DEF H
      <4> QED  BY ONLY SMT, <1>1, <1>2, <1>6, <2>5, n \in Int, n < 1024
    <3>1. s4 % H = s4 - H /\ c4 = 1
      <4> DEFINE v == s4 - H
      <4>1. v \in 0..(H - 1) /\ s4 = 1 * H + v
        BY <3>0
      <4>2. c4 = s4 \div H
        OBVIOUS
      <4> HIDE DEF H, s4, v, c4
      <4>3. s4 \div H = 1 /\ s4 % H = v
        BY ONLY <1>1, <4>1, Divides
      <4> QED  BY ONLY <4>2, <4>3 DEF v
    <3>2. a + n = (q + 1) * H + (s4 - H)
      <4> HIDE DEF H
      <4> QED  BY ONLY SMT, <1>1, <1>2, n \in Int
    <3>3. q + 1 < H
      <4> HIDE DEF H
      <4>1. CASE q + 1 >= H
        <5>1. (q + 1) * H >= H * H
          BY ONLY SMT, <1>1, <1>2, <4>1
        <5> HIDE DEF s4
        <5>2. s4 - H >= 0 /\ s4 - H \in Int
          BY ONLY <1>1, <3>0
        <5> DEFINE y == s4 - H
                   u == (q + 1) * H
                   w == H * H
        <5>3. y >= 0 /\ y \in Int /\ u >= w /\ u \in Int /\ w \in Int /\ a + n = u + y /\ a + n < w
          BY <1>1, <1>2, <3>2, <5>1, <5>2
        <5> HIDE DEF y, u, w
        <5> QED  BY ONLY SMT, <5>3
      <4> QED  BY ONLY SMT, <1>1, <1>2, <4>1
    <3>4. s3 % H = q + 1 /\ s3 \div H = 0
      <4>1. s3 = q + 1
        <5> HIDE DEF c4
        <5> QED  BY ONLY SMT, <3>1, <1>2
      <4> HIDE DEF H, s3
      <4> QED  BY ONLY SMT, <1>1, <1>2, <1>3, <3>3, <4>1
    <3>5. s2 % H = 0 /\ s1 % H = 0
      <4> HIDE DEF H, s3
      <4> QED  BY ONLY SMT, <1>1, <3>4
    <3>6. (a + n) \div H = q + 1 /\ (a + n) % H = s4 - H
      <4> DEFINE v == s4 - H
      <4>1. v \in 0..(H - 1) /\ a + n = (q + 1) * H + v
        BY <3>0, <3>2
      <4> DEFINE p == q + 1
      <4>2. p \in Int
        BY <1>2
      <4> HIDE DEF H, v
      <4>3. a + n = p * H + v
        BY <4>1
      <4> HIDE DEF p
      <4>4. (p * H + v) \div H = p /\ (p * H + v) % H = v
        BY ONLY <1>1, <4>1, <4>2, Divides
      <4> QED  BY ONLY <4>3, <4>4 DEF v, p
    <3> HIDE DEF H, s1, s2, s3, s4, c4
    <3> QED  BY ONLY <1>5, <2>3, <3>1, <3>4, <3>5, <3>6
  <2>6. s4 \in Int
    BY <1>2
  <2> HIDE DEF s4, H
  <2> QED  BY <1>1, <2>4, <2>5, <2>6
<1>7. CASE n < 0
  <2>1. n % H = n + H
    <3>1. n = (-1) * H + (n + H) /\ n + H \in 0..(H - 1)
      <4> HIDE DEF H
      <4> QED  BY ONLY SMT, <1>1, <1>7, n \in Int, -1024 < n
    <3> HIDE DEF H
    <3>2. -1 \in Int
      OBVIOUS
    <3> QED  BY ONLY <1>1, <3>1, <3>2, Divides
  <2>2. Extended(n) = << H - 1, H - 1, H - 1, n + H >>
    BY <1>7, <2>1 DEF Extended
  <2> DEFINE s4 == r + (n + H)
             c4 == s4 \div H
             s3 == q + (H - 1) + c4
             s2 == 0 + (H - 1) + (s3 \div H)
             s1 == 0 + (H - 1) + (s2 \div H)
  <2>3. Plus(Reg(a), Extended(n)) = << s1 % H, s2 % H, s3 % H, s4 % H >>
    BY <1>4, <2>2 DEF Plus
  <2>h. ASSUME NEW y, y = 1 * H + 0 PROVE y % H = 0 /\ y \div H = 1
    <3> HIDE DEF H
    <3>1. 0 \in 0..(H - 1) /\ 1 \in Int
      BY ONLY <1>1
    <3> QED  BY ONLY <1>1, <2>h, <3>1, Divides
  <2>s. ASSUME s3 \div H = 1 PROVE s2 % H = 0 /\ s1 % H = 0
    <3>1. s2 = 1 * H + 0
      <4> HIDE DEF s3
      <4> QED  BY <1>1, <2>s
    <3>2. s2 % H = 0 /\ s2 \div H = 1
      <4> HIDE DEF s2
      <4> QED  BY <2>h, <3>1
    <3>3. s1 = 1 * H + 0
      <4> HIDE DEF s2
      <4> QED  BY <1>1, <3>2
    <3> HIDE DEF s1
    <3> QED  BY <2>h, <3>2, <3>3
  <2>4. CASE r + n < 0
    <3>1. s4 % H = s4 /\ c4 = 0 /\ s4 \in 0..(H - 1)
      <4> HIDE DEF H
      <4> QED  BY ONLY SMT, <1>1, <1>2, <1>7, <2>4, n \in Int, -1024 < n
    <3>2. a + n = (q - 1) * H + s4
      <4> HIDE DEF H
      <4> QED  BY ONLY SMT, <1>1, <1>2, n \in Int
    <3>3. q >= 1
      <4> HIDE DEF H
      <4>1. CASE q = 0
        BY ONLY SMT, <1>1, <1>2, <2>4, <4>1, n \in Int
      <4> QED  BY ONLY <1>2, <1>3, <4>1
    <3>4. s3 % H = q - 1 /\ s3 \div H = 1
      <4>1. s3 = 1 * H + (q - 1) /\ q - 1 \in 0..(H - 1)
        <5> HIDE DEF c4, H
        <5> QED  BY ONLY SMT, <3>1, <1>1, <1>2, <1>3, <3>3
      <4> HIDE DEF H, s3
      <4> QED  BY ONLY <1>1, <4>1, Divides
    <3>5. (a + n) \div H = q - 1 /\ (a + n) % H = s4
      <4> DEFINE p == q - 1
      <4>1. p \in Int
        BY <1>2
      <4> HIDE DEF H, s4
      <4>2. a + n = p * H + s4
        BY <3>2
      <4> HIDE DEF p
      <4>3. (p * H + s4) \div H = p /\ (p * H + s4) % H = s4
        BY ONLY <1>1, <3>1, <4>1, Divides
      <4> QED  BY ONLY <4>2, <4>3 DEF p
    <3>6. s2 % H = 0 /\ s1 % H = 0
      BY <2>s, <3>4
    <3> HIDE DEF H, s1, s2, s3, s4, c4
    <3> QED  BY ONLY <1>5, <2>3, <3>1, <3>4, <3>5, <3>6
  <2>5. CASE r + n >= 0
    <3>1. s4 % H = r + n /\ c4 = 1 /\ r + n \in 0..(H - 1)
      <4>1. s4 = 1 * H + (r + n) /\ r + n \in 0..(H - 1)
        <5> HIDE DEF H
        <5> QED  BY ONLY SMT, <1>1, <1>2, <1>7, <2>5, n \in Int
      <4>2. c4 = s4 \div H
        OBVIOUS
      <4> DEFINE v == r + n
      <4> HIDE DEF H, s4, c4, v
      <4>3. s4 \div H = 1 /\ s4 % H = v
        BY ONLY <1>1, <4>1, Divides DEF v
      <4> QED  BY ONLY <4>1, <4>2, <4>3 DEF v
    <3>2. a + n = q * H + (r + n)
      <4> HIDE DEF H
      <4> QED  BY ONLY SMT, <1>1, <1>2, n \in Int
    <3>4. s3 % H = q /\ s3 \div H = 1
      <4>1. s3 = 1 * H + q /\ q \in 0..(H - 1)
        <5> HIDE DEF c4, H
        <5> QED  BY ONLY SMT, <3>1, <1>1, <1>2, <1>3
      <4> HIDE DEF H, s3
      <4> QED  BY ONLY <1>1, <4>1, Divides
    <3>5. (a + n) \div H = q /\ (a + n) % H = r + n
      <4> DEFINE v == r + n
      <4>1. v \in 0..(H - 1) /\ a + n = q * H + v
        BY <3>1, <3>2
      <4> HIDE DEF H, v
      <4> QED  BY ONLY <1>1, <1>2, <4>1, Divides DEF v
    <3>6. s2 % H = 0 /\ s1 % H = 0
      BY <2>s, <3>4
    <3> HIDE DEF H, s1, s2, s3, s4, c4
    <3> QED  BY ONLY <1>5, <2>3, <3>1, <3>4, <3>5, <3>6
  <2>6. r + n \in Int
    BY <1>2
  <2> QED  BY <2>4, <2>5, <2>6
<1> QED  BY <1>6, <1>7

-----------------------------------------------------------------------------
(***************************************************************************)
(* Where the processor is.                                                 *)
(***************************************************************************)

\* k injected instructions have been executed, all of the system calls among them.
Restoring(s, k) == k \in 30..48 /\ s.pc = CodeBase + 4 * k

\* At the j-th moved instruction.
OnMoved(s, j) == j \in 0..(Displaced - 1) /\ s.pc = Resume + 4 * j

\* j instructions of the jump back have been executed.
InBack(s, j) == Leap(s, Len(Back), Resume + 4 * Displaced, scene.code + 4 * Displaced, j)

\* Neither in the injected code nor at a word that was written over.
Outside(s) == s.pc \notin BlobCode \cup Window

\* From the second system call on there is no third one, and the processor goes
\* through the epilogue, the moved instructions and the jump back into the game.
Course ==
  status = "running" /\ Len(calls) \notin {0, 1} =>
    /\ Len(calls) = 2 /\ Machine(cpu)
    /\ \/ \E k \in 30..48 : Restoring(cpu, k)
       \/ \E j \in 0..4 : OnMoved(cpu, j) \/ InBack(cpu, j)
       \/ Outside(cpu)

\* The operations of the epilogue.
LEMMA EpilogueOps == \A k \in 1..16 : Decode(buildEpilogue[k]).op \in {"ld", "mtspr", "addi"}
<1> DEFINE c == buildEpilogue
<1>1. /\ \A k \in {1, 3, 15} : Decode(c[k]).op = "ld"
      /\ \A k \in {2, 4} : Decode(c[k]).op = "mtspr"
      /\ Decode(c[16]).op = "addi"
      /\ \A k \in 1..10 : Decode(c[4 + k]).op = "ld"
  <2> DEFINE ld(t, d) == [op |-> "ld", t |-> t, a |-> 1, imm |-> d]
  <2>1. /\ Decode(c[1]) = ld(0, 136) /\ Decode(c[2]) = [op |-> "mtspr", t |-> 0, spr |-> 8]
        /\ Decode(c[3]) = ld(0, 144) /\ Decode(c[4]) = [op |-> "mtspr", t |-> 0, spr |-> 9]
        /\ \A k \in 1..10 : Decode(c[4 + k]) = ld(k + 2, 144 + 8 * k)
        /\ Decode(c[15]) = ld(0, 128)
        /\ Decode(c[16]) = [op |-> "addi", t |-> 1, a |-> 1, imm |-> 256]
    BY EpilogueWords
  <2>2. \A t, d : ld(t, d).op = "ld"
    OBVIOUS
  <2> HIDE DEF c, ld
  <2> QED  BY ONLY <2>1, <2>2
<1> HIDE DEF c
<1>2. ASSUME NEW k \in 1..16 PROVE Decode(c[k]).op \in {"ld", "mtspr", "addi"}
  <2>1. CASE k \in 5..14
    <3>1. k - 4 \in 1..10 /\ 4 + (k - 4) = k
      BY <2>1
    <3> QED  BY ONLY <1>1, <3>1
  <2>2. CASE k \notin 5..14
    <3>1. k \in {1, 3, 15} \/ k \in {2, 4} \/ k = 16
      BY ONLY <2>2, k \in 1..16
    <3> QED  BY ONLY <1>1, <3>1
  <2> QED  BY <2>1, <2>2
<1> QED  BY <1>2 DEF c

\* The epilogue and the loading of the TOC do not branch.
LEMMA RestoreOps ==
  ASSUME scene \in Scenes, Low(scene), Built, NEW k \in 30..48
  PROVE  LET op == Decode(Fetch(CodeBase + 4 * k)).op
         IN  op \in Executed /\ op \notin Branches /\ op # "sc"
<1> DEFINE op == Decode(Fetch(CodeBase + 4 * k)).op
<1>1. CASE k \in 30..45
  <2>1. k - 29 \in 1..16 /\ 29 + (k - 29) = k
    BY <1>1
  <2>2. Fetch(CodeBase + 4 * k) = buildEpilogue[k - 29]
    BY <2>1, FetchRest
  <2>3. Decode(buildEpilogue[k - 29]).op \in {"ld", "mtspr", "addi"}
    BY <2>1, EpilogueOps
  <2>4. op \in {"ld", "mtspr", "addi"}
    BY <2>1, <2>2, <2>3
  <2> HIDE DEF op
  <2> QED  BY ONLY <2>4 DEF Executed, Branches, op
<1>2. CASE k \in 46..48
  <2>1. k - 46 \in 0..2 /\ k - 45 \in 1..3 /\ 45 + (k - 45) = k /\ (k - 46) + 1 = k - 45
    BY <1>2
  <2>2. Fetch(CodeBase + 4 * k) = loadImmediate32(2, scene.toc)[(k - 46) + 1]
    BY <2>1, FetchRest
  <2>3. 2 \in Five /\ scene.toc \in Address
    <3>1. 2 \in Five
      BY SMT DEF Five
    <3> QED  BY <3>1, JobTypes
  <2>4. op \in {"addis", "ori", "rldicl"}
    BY <2>1, <2>2, <2>3, ImmediateOps
  <2> HIDE DEF op
  <2> QED  BY ONLY <2>4 DEF Executed, Branches, op
<1> QED  BY <1>1, <1>2

\* The epilogue runs straight on into the moved instructions.
LEMMA RestoreNext ==
  ASSUME scene \in Scenes, Low(scene), Built, NEW s, Machine(s), NEW k, Restoring(s, k), NEW taken
  PROVE  LET t == Exec(s, Decode(Fetch(s.pc)), taken)
         IN  Machine(t) /\ (Restoring(t, k + 1) \/ OnMoved(t, 0))
<1> DEFINE i == Decode(Fetch(s.pc))
           t == Exec(s, i, taken)
<1>1. k \in 30..48 /\ s.pc = CodeBase + 4 * k
  BY DEF Restoring
<1>2. i.op \in Executed /\ i.op \notin Branches
  BY <1>1, RestoreOps
<1> HIDE DEF i
<1>3. Machine(t) /\ t.pc = s.pc + 4
  BY <1>2, ExecMachine
<1>4. CodeBase \in Nat /\ Displaced \in {1, 5} /\ Resume = CodeBase + 196
  <2>1. /\ CodeBase = scene.trampolineAddr + 8 /\ Resume = scene.trampolineAddr + 204
        /\ scene.trampolineAddr \in Nat /\ Displaced \in {1, 5}
    BY Places
  <2> QED  BY ONLY SMT, <2>1
<1> HIDE DEF t
<1>5. CASE k # 48
  <2>1. k + 1 \in 30..48 /\ t.pc = CodeBase + 4 * (k + 1)
    BY ONLY SMT, <1>1, <1>3, <1>4, <1>5
  <2> QED  BY <1>3, <2>1 DEF Restoring, i, t
<1>6. CASE k = 48
  <2>1. 0 \in 0..(Displaced - 1) /\ t.pc = Resume + 4 * 0
    BY ONLY SMT, <1>1, <1>3, <1>4, <1>6
  <2> QED  BY <1>3, <2>1 DEF OnMoved, i, t
<1> QED  BY <1>5, <1>6

\* The jump back goes on, or into the game behind the entry point.
LEMMA BackNext ==
  ASSUME scene \in Scenes, Low(scene), Built, NEW s, Machine(s), NEW j, InBack(s, j), NEW taken
  PROVE  LET i == Decode(Fetch(s.pc))
             t == Exec(s, i, taken)
         IN  /\ i.op \in Executed /\ i.op \notin {"std", "stdu"} /\ Machine(t) /\ Spared(s, t, Len(Back))
             /\ InBack(t, j + 1) \/ t.pc = scene.code + 4 * Displaced
<1> DEFINE f  == Resume + 4 * Displaced
           to == scene.code + 4 * Displaced
           J  == Back
           b  == Len(Back)
<1>1. /\ f \in Nat /\ to \in Nat /\ to < AddrMod \div 2 /\ to % 4 = 0 /\ to < AddrMod /\ f < AddrMod
      /\ AddrMod \in Nat /\ b \in {1, 5}
  <2> DEFINE T == scene.trampolineAddr
             c == scene.code
             d == Displaced
             n == Len(scene.text)
  <2>1. /\ T \in Nat /\ c \in Nat /\ n \in Nat /\ d \in {1, 5} /\ b \in {1, 5} /\ d <= n
        /\ c % 4 = 0 /\ c + 4 * n <= T /\ T + 1260 <= AddrMod \div 2
        /\ Resume = T + 204
    BY Places
  <2>2. AddrMod \in Nat /\ AddrMod >= 67108864
    BY AddrModFacts
  <2> DEFINE r == Resume
             h == AddrMod \div 2
             A == AddrMod
  <2>3. h \in Nat /\ A \in Nat /\ h <= A
    BY ONLY SMT, <2>2
  <2>4. T + 1260 <= h /\ r = T + 204
    BY <2>1
  <2>5. f = r + 4 * d /\ to = c + 4 * d
    OBVIOUS
  <2> HIDE DEF T, c, d, n, r, h, A, f, to, b
  <2>6. f \in Nat /\ to \in Nat /\ to < h /\ to < A /\ f < A
    BY ONLY SMT, <2>1, <2>3, <2>4, <2>5
  <2>7. to % 4 = 0
    BY ONLY SMT, <2>1, <2>5
  <2> QED  BY ONLY <2>1, <2>2, <2>6, <2>7 DEF h, A
<1>2. J = makeMinimalJump(f, to)
  <2>1. f % AddrMod = f /\ to % AddrMod = to
    <3> HIDE DEF f, to
    <3> QED  BY ONLY SMT, <1>1
  <2>2. J = makeMinimalJump(f % AddrMod, to % AddrMod)
    <3>1. Displaced * 4 = 4 * Displaced
      BY JobTypes
    <3> QED  BY ONLY Zenon, <3>1 DEF Back, jumpBack, Resume
  <2> HIDE DEF f, to, J
  <2> QED  BY ONLY <2>1, <2>2
<1>3. f \in Address /\ to \in Address
  <2> HIDE DEF f, to
  <2> QED  BY ONLY SMT, <1>1 DEF Address
<1>4. ShortJump(J, f, to) \/ LongJump(J, to)
  <2> HIDE DEF f, to, J
  <2> QED  BY <1>2, <1>3, JumpWords
<1>5. Leap(s, Len(J), f, to, j)
  BY DEF InBack
<1>6. j \in 0..(b - 1) /\ s.pc = f + 4 * j
  BY ONLY <1>5 DEF Leap
<1>7. Fetch(s.pc) = J[j + 1]
  <2>1. j + 1 \in 1..b /\ (j + 1) - 1 = j
    <3> HIDE DEF b
    <3> QED  BY ONLY <1>1, <1>6
  <2>2. Fetch(f + 4 * ((j + 1) - 1)) = Back[j + 1]
    BY <2>1, FetchRest
  <2> QED  BY <1>6, <2>1, <2>2
<1> DEFINE x == J[j + 1]
           v == Exec(s, Decode(x), taken)
<1>8. Leaping(s, J, f, to, j)
  <2> HIDE DEF f, to, J
  <2> QED  BY Machine(s), <1>1, <1>3, <1>4, <1>5 DEF Leaping
<1> HIDE DEF f, to, J
<1>9. Leapt(s, v, Decode(x), J, f, to, j)
  BY ONLY <1>8, LeapNext
<1>10. /\ Decode(x).op \in Executed /\ Decode(x).op \notin {"std", "stdu"} /\ Machine(v) /\ Spared(s, v, Len(J))
       /\ Leap(v, Len(J), f, to, j + 1) \/ v.pc = to
  BY ONLY <1>9 DEF Leapt
<1> HIDE DEF x, v
<1> QED  BY ONLY <1>7, <1>10 DEF J, f, to, x, v, InBack

\* The game goes on where it stays out of the injected code: among the moved
\* instructions, to the jump back, or elsewhere in its own code.
LEMMA GameNext ==
  ASSUME scene \in Scenes, Low(scene), Built, NEW i, i.op \in Executed, Machine(cpu), NEW taken, ~ Stranger(i),
         (\E j \in 0..4 : OnMoved(cpu, j)) \/ cpu.pc \in Text \ Window
  PROVE  LET t == Exec(cpu, i, taken)
         IN  Machine(t) /\ ((\E j \in 0..4 : OnMoved(t, j)) \/ InBack(t, 0) \/ Outside(t))
<1> DEFINE t == Exec(cpu, i, taken)
           T == scene.trampolineAddr
           c == scene.code
           d == Displaced
           b == Len(Back)
           n == Len(scene.text)
<1>1. /\ T \in Nat /\ c \in Nat /\ n \in Nat /\ d \in {1, 5} /\ b \in {1, 5} /\ d <= n
      /\ c + 4 * n <= T /\ Resume = T + 204 /\ Text = c .. (c + 4 * n - 1)
      /\ Window = c .. (c + 4 * d - 1)
      /\ \E z \in Nat : BlobCode = (T + 8) .. (z - 1)
  BY Places
<1>2. Machine(t) /\ (t.pc = cpu.pc + 4 \/ (i.op \in Branches /\ t.pc = Target(cpu, i)))
  BY ExecMachine
<1>3. ASSUME t.pc = Resume + 4 * d PROVE InBack(t, 0)
  <2> HIDE DEF t
  <2>1. t.pc = (Resume + 4 * d) + 4 * 0 /\ 0 \in 0..(b - 1) /\ 0 \notin 1..3 /\ 0 # 4
    <3> HIDE DEF d, b, T
    <3> QED  BY ONLY SMT, <1>1, <1>3
  <2> QED  BY <2>1 DEF InBack, Leap
<1>4. ASSUME NEW j \in 1..d, t.pc = Resume + 4 * j
      PROVE  (\E k \in 0..4 : OnMoved(t, k)) \/ InBack(t, 0)
  <2>1. CASE j = d
    BY <1>3, <1>4, <2>1
  <2>2. CASE j # d
    <3>1. j \in 0..4 /\ j \in 0..(d - 1)
      <4> HIDE DEF d
      <4> QED  BY ONLY <1>1, <2>2, j \in 1..d
    <3> QED  BY <1>4, <3>1 DEF OnMoved
  <2> QED  BY <2>1, <2>2
<1>5. CASE i.op \in Branches /\ t.pc = Target(cpu, i)
  <2>1. t.pc \notin Window /\ (t.pc \in BlobCode => t.pc \in ReturnPoints)
    BY <1>5 DEF Stranger
  <2>2. CASE t.pc \in ReturnPoints
    BY <1>2, <1>4, <2>2 DEF ReturnPoints
  <2>3. CASE t.pc \notin BlobCode
    BY <1>2, <2>1, <2>3 DEF Outside
  <2> QED  BY <2>1, <2>2, <2>3
<1>6. CASE t.pc = cpu.pc + 4
  <2>1. ASSUME NEW j \in 0..4, OnMoved(cpu, j)
        PROVE  (\E k \in 0..4 : OnMoved(t, k)) \/ InBack(t, 0)
    <3>1. j \in 0..(d - 1) /\ cpu.pc = Resume + 4 * j
      BY <2>1 DEF OnMoved
    <3>2. j + 1 \in 1..d /\ t.pc = Resume + 4 * (j + 1)
      <4> HIDE DEF t, d, T
      <4> QED  BY ONLY SMT, <1>1, <1>6, <3>1
    <3> QED  BY <1>4, <3>2
  <2>2. CASE cpu.pc \in Text \ Window
    <3>1. t.pc \notin BlobCode \cup Window
      <4> DEFINE p == cpu.pc
      <4>1. p \in Text /\ p \notin Window /\ t.pc = p + 4
        BY <1>6, <2>2
      <4>2. PICK z \in Nat : BlobCode = (T + 8) .. (z - 1)
        BY <1>1
      <4> HIDE DEF t, d, T, c, n, p
      <4>3. p \in Int /\ p <= c + 4 * n - 1 /\ p >= c + 4 * d
        BY ONLY SMT, <1>1, <4>1
      <4>4. p + 4 < T + 8 /\ p + 4 > c + 4 * d - 1 /\ p + 4 \in Int
        BY ONLY SMT, <1>1, <4>3
      <4> DEFINE u == p + 4
      <4>5. u \in Int /\ T + 8 \in Int /\ c \in Int /\ c + 4 * d - 1 \in Int /\ z - 1 \in Int
            /\ u < T + 8 /\ u > c + 4 * d - 1
        BY ONLY SMT, <1>1, <4>4, z \in Nat
      <4> HIDE DEF u
      <4>6. u \notin (T + 8) .. (z - 1) /\ u \notin c .. (c + 4 * d - 1)
        BY ONLY SMT, <4>5
      <4> QED  BY ONLY <1>1, <4>1, <4>2, <4>6 DEF u
    <3> QED  BY <1>2, <3>1 DEF Outside
  <2> QED  BY <1>2, <2>1, <2>2
<1> QED  BY <1>2, <1>5, <1>6

\* A step that keeps the scene and the image keeps the places in them.
LEMMA SamePlaces ==
  ASSUME scene' = scene, image' = image
  PROVE  /\ BlobCode' = BlobCode /\ Window' = Window /\ Prefix' = Prefix
         /\ \A k : Restoring(cpu, k)' <=> Restoring(cpu', k)
         /\ \A j : OnMoved(cpu, j)' <=> OnMoved(cpu', j)
         /\ \A j : InBack(cpu, j)' <=> InBack(cpu', j)
         /\ Outside(cpu)' <=> Outside(cpu')
<1>1. CodeBase' = CodeBase /\ Resume' = Resume /\ Displaced' = Displaced /\ Len(Back)' = Len(Back)
  BY DEF CodeBase, Resume, Displaced, Back
<1>2. BlobCode' = BlobCode /\ Window' = Window /\ Prefix' = Prefix
  BY <1>1 DEF BlobCode, Window, Prefix
<1>3. \A k : Restoring(cpu, k)' <=> Restoring(cpu', k)
  BY <1>1 DEF Restoring
<1>4. \A j : OnMoved(cpu, j)' <=> OnMoved(cpu', j)
  BY <1>1 DEF OnMoved
<1>5. \A j : InBack(cpu, j)' <=> InBack(cpu', j)
  BY <1>1 DEF InBack, Leap
<1>6. Outside(cpu)' <=> Outside(cpu')
  BY <1>2 DEF Outside
<1> QED  BY <1>2, <1>3, <1>4, <1>5, <1>6

\* The second system call is the last word before the epilogue.
LEMMA SecondCall ==
  ASSUME Booted, SystemCall, Len(calls) = 1
  PROVE  Machine(cpu) /\ cpu.pc = CodeBase + 4 * 29
<1>1. Low(scene) /\ Passage /\ scene \in Scenes /\ Built
  BY DEF Booted, Loaded, SystemCall
<1> DEFINE id == calls[1].answer
<1> HIDE DEF id
<1>2. Machine(cpu) /\ \E k \in 23..29 : BeforeStart(cpu, k, id)
  BY <1>1 DEF Passage, id, SystemCall
<1>3. PICK k \in 23..29 : BeforeStart(cpu, k, id)
  BY <1>2
<1>4. k = 29
  <2>1. CASE k # 29
    <3>1. Decode(Fetch(cpu.pc)).op # "sc"
      BY <1>1, <1>2, <1>3, <2>1, StartNext
    <3> QED  BY <3>1 DEF SystemCall
  <2> QED  BY <2>1
<1> QED  BY <1>2, <1>3, <1>4 DEF BeforeStart

\* Outside the prefix nothing makes a system call, and in what is left of it
\* after the second call neither.
LEMMA NoThirdCall ==
  ASSUME Booted, Course, SystemCall, Len(calls) \notin {0, 1}
  PROVE  FALSE
<1>1. /\ Low(scene) /\ scene \in Scenes /\ Built /\ status = "running"
      /\ cpu.pc \in Prefix /\ Decode(Fetch(cpu.pc)).op = "sc"
  BY DEF Booted, Loaded, SystemCall
<1> DEFINE T == scene.trampolineAddr
           d == Displaced
           b == Len(Back)
<1>2. /\ T \in Nat /\ d \in {1, 5} /\ b \in {1, 5} /\ Resume = T + 204 /\ Prefix = (T + 8) .. (T + 203)
      /\ \E z \in Nat : z > PathAt /\ BlobCode = (T + 8) .. (z - 1)
      /\ PathAt = T + 204 + 4 * (d + b)
  BY <1>1, Places
<1>3. ASSUME NEW k \in 30..48, Restoring(cpu, k) PROVE FALSE
  BY <1>1, <1>3, RestoreOps DEF Restoring
<1>4. ASSUME NEW j \in 0..4, OnMoved(cpu, j) \/ InBack(cpu, j) PROVE FALSE
  <2>1. cpu.pc \in Int /\ cpu.pc <= T + 203
    <3> HIDE DEF T
    <3> QED  BY ONLY SMT, <1>1, <1>2
  <2>2. cpu.pc >= Resume
    <3>1. cpu.pc = Resume + 4 * j \/ cpu.pc = Resume + 4 * d + 4 * j
      BY <1>4 DEF OnMoved, InBack, Leap
    <3> HIDE DEF T, d, b
    <3> QED  BY ONLY SMT, <1>2, <3>1, j \in 0..4
  <2> HIDE DEF T
  <2> QED  BY ONLY SMT, <1>2, <2>1, <2>2
<1>5. CASE Outside(cpu)
  <2>1. PICK z \in Nat : z > PathAt /\ BlobCode = (T + 8) .. (z - 1)
    BY <1>2
  <2>2. cpu.pc \notin BlobCode
    BY <1>5 DEF Outside
  <2> HIDE DEF T, d, b
  <2> QED  BY ONLY SMT, <1>1, <1>2, <2>1, <2>2
<1> QED  BY <1>1, <1>3, <1>4, <1>5 DEF Course

\* Behind the hand-over one instruction leads on, or to the jump back, or into the
\* game's own code.
LEMMA GameOn ==
  ASSUME scene \in Scenes, Low(scene), Built, StaysOut, Execute, Machine(cpu),
         (\E j \in 0..4 : OnMoved(cpu, j) \/ InBack(cpu, j)) \/ Outside(cpu)
  PROVE  /\ Machine(cpu')
         /\ (\E j \in 0..4 : OnMoved(cpu', j) \/ InBack(cpu', j)) \/ Outside(cpu')
<1> DEFINE i == Decode(Fetch(cpu.pc))
<1>1. /\ status = "running" /\ cpu.pc \in BlobCode \cup Text /\ i.op \in Executed
      /\ \E taken \in BOOLEAN : cpu' = Exec(cpu, i, taken)
  BY DEF Execute
<1>2. PICK taken \in BOOLEAN : cpu' = Exec(cpu, i, taken)
  BY <1>1
<1>3. ASSUME NEW j \in 0..4, InBack(cpu, j)
      PROVE  Machine(cpu') /\ ((\E x \in 0..4 : InBack(cpu', x)) \/ Outside(cpu'))
  <2>1. Machine(cpu') /\ (InBack(cpu', j + 1) \/ cpu'.pc = scene.code + 4 * Displaced)
    BY <1>2, <1>3, BackNext
  <2>2. CASE InBack(cpu', j + 1)
    <3>1. j + 1 \in 0..(Len(Back) - 1) /\ Len(Back) \in {1, 5}
      BY <2>2, Places DEF InBack, Leap
    <3>2. j + 1 \in 0..4
      <4> DEFINE b == Len(Back)
      <4> HIDE DEF b
      <4>1. j + 1 \in 0..(b - 1) /\ b \in {1, 5}
        BY <3>1 DEF b
      <4> QED  BY ONLY SMT, <4>1, j \in 0..4
    <3> QED  BY <2>1, <2>2, <3>2
  <2>3. CASE cpu'.pc = scene.code + 4 * Displaced
    <3> DEFINE T == scene.trampolineAddr
               c == scene.code
               d == Displaced
               n == Len(scene.text)
               p == cpu'.pc
    <3>1. /\ T \in Nat /\ c \in Nat /\ d \in {1, 5} /\ n \in Nat /\ d <= n /\ c + 4 * n <= T
          /\ Window = c .. (c + 4 * d - 1) /\ \E z \in Nat : BlobCode = (T + 8) .. (z - 1)
      BY Places
    <3>2. PICK z \in Nat : BlobCode = (T + 8) .. (z - 1)
      BY <3>1
    <3>3. p = c + 4 * d
      BY <2>3
    <3> HIDE DEF T, c, d, n, p
    <3>4. p \notin BlobCode
      BY ONLY SMT, <3>1, <3>2, <3>3
    <3>5. p \notin Window
      BY ONLY SMT, <3>1, <3>3
    <3> QED  BY <2>1, <3>4, <3>5 DEF Outside, p
  <2> QED  BY <2>1, <2>2, <2>3
<1>4. ASSUME (\E j \in 0..4 : OnMoved(cpu, j)) \/ Outside(cpu)
      PROVE  Machine(cpu') /\ ((\E j \in 0..4 : OnMoved(cpu', j)) \/ InBack(cpu', 0) \/ Outside(cpu'))
  <2>1. (\E j \in 0..4 : OnMoved(cpu, j)) \/ cpu.pc \in Text \ Window
    BY <1>1, <1>4 DEF Outside
  <2>2. AtGame
    <3>1. ASSUME NEW j \in 0..4, OnMoved(cpu, j) PROVE cpu.pc \in Moved
      <4> DEFINE d == Displaced
                 p == cpu.pc
                 r == Resume
      <4>1. d \in {1, 5} /\ r = scene.trampolineAddr + 204 /\ scene.trampolineAddr \in Nat
        BY Places
      <4>2. j \in 0..(d - 1) /\ p = r + 4 * j
        BY <3>1 DEF OnMoved
      <4> HIDE DEF d, p, r
      <4>3. r \in Nat
        BY ONLY <4>1
      <4>4. p \in r .. (r + 4 * d - 1)
        BY ONLY SMT, <4>1, <4>2, <4>3
      <4> QED  BY <4>4 DEF Moved, d, p, r
    <3> QED  BY <1>1, <2>1, <3>1 DEF AtGame
  <2>3. ~ Stranger(i)
    BY <2>2 DEF StaysOut
  <2> HIDE DEF i
  <2> QED  BY <1>1, <1>2, <2>1, <2>3, GameNext
<1>5. 0 \in 0..4
  OBVIOUS
<1> QED  BY <1>3, <1>4, <1>5

\* Executing one instruction.
LEMMA ExecuteCourse == ASSUME Booted, Course, StaysOut, Execute PROVE Course'
<1> DEFINE i == Decode(Fetch(cpu.pc))
<1>1. /\ status = "running" /\ cpu.pc \in BlobCode \cup Text /\ i.op \in Executed
      /\ status' = status /\ scene' = scene /\ image' = image /\ calls' = calls
      /\ \E taken \in BOOLEAN : cpu' = Exec(cpu, i, taken)
  BY DEF Execute
<1>2. PICK taken \in BOOLEAN : cpu' = Exec(cpu, i, taken)
  BY <1>1
<1>3. Low(scene) /\ scene \in Scenes /\ Built
  BY <1>1 DEF Booted, Loaded
<1>4. SUFFICES ASSUME Len(calls) \notin {0, 1}
               PROVE  /\ Len(calls) = 2 /\ Machine(cpu')
                      /\ \/ \E k \in 30..48 : Restoring(cpu', k)
                         \/ \E j \in 0..4 : OnMoved(cpu', j) \/ InBack(cpu', j)
                         \/ Outside(cpu')
  BY <1>1, SamePlaces DEF Course
<1>5. /\ Len(calls) = 2 /\ Machine(cpu)
      /\ \/ \E k \in 30..48 : Restoring(cpu, k)
         \/ \E j \in 0..4 : OnMoved(cpu, j) \/ InBack(cpu, j)
         \/ Outside(cpu)
  BY <1>1, <1>4 DEF Course
<1>6. ASSUME NEW k \in 30..48, Restoring(cpu, k)
      PROVE  Machine(cpu') /\ ((\E x \in 30..48 : Restoring(cpu', x)) \/ \E j \in 0..4 : OnMoved(cpu', j))
  <2>1. Machine(cpu') /\ (Restoring(cpu', k + 1) \/ OnMoved(cpu', 0))
    BY <1>2, <1>3, <1>5, <1>6, RestoreNext
  <2>2. Restoring(cpu', k + 1) => k + 1 \in 30..48
    BY DEF Restoring
  <2>3. 0 \in 0..4
    OBVIOUS
  <2> QED  BY <2>1, <2>2, <2>3
<1>7. ASSUME (\E j \in 0..4 : OnMoved(cpu, j) \/ InBack(cpu, j)) \/ Outside(cpu)
      PROVE  Machine(cpu') /\ ((\E j \in 0..4 : OnMoved(cpu', j) \/ InBack(cpu', j)) \/ Outside(cpu'))
  BY <1>3, <1>5, <1>7, GameOn
<1> QED  BY <1>5, <1>6, <1>7

LEMMA InitCourse == Init => Course
BY DEF Init, Course

\* Every step keeps it, as long as the game stays out.
LEMMA NextCourse == Booted /\ Course /\ StaysOut /\ [Next]_vars => Course'
<1> SUFFICES ASSUME Booted, Course, StaysOut, [Next]_vars PROVE Course'
  OBVIOUS
<1>1. CASE Patch
  <2>1. calls = << >> /\ calls' = calls
    BY <1>1, PatchLoaded DEF Booted, Passage
  <2>2. Len(calls') = 0
    BY <2>1
  <2> QED  BY <2>2 DEF Course
<1>2. CASE Execute
  BY <1>2, ExecuteCourse
<1>3. CASE SystemCall
  <2>1. PICK S : calls \in Seq(S)
    BY DEF Booted
  <2>2. scene' = scene /\ image' = image /\ \E e : calls' = Append(calls, e)
    BY <1>3, Zenon DEF SystemCall
  <2>3. Len(calls') = Len(calls) + 1 /\ Len(calls) \in Nat
    <3>1. PICK e : calls' = Append(calls, e)
      BY <2>2
    <3> QED  BY <2>1, <3>1, Appended
  <2>4. CASE Len(calls) = 0
    <3>1. Len(calls') = 1
      BY <2>3, <2>4
    <3> QED  BY <3>1 DEF Course
  <2>5. CASE Len(calls) = 1
    <3>1. Machine(cpu) /\ cpu.pc = CodeBase + 4 * 29
      BY <1>3, <2>5, SecondCall
    <3>2. Machine(cpu') /\ cpu'.pc = cpu.pc + 4
      <4>1. PICK answer \in Answers :
              cpu' = [cpu EXCEPT !.pc = cpu.pc + 4, !.lr = Junk, !.ctr = Junk,
                        !.gpr = [r \in Regs |-> IF r = 3 THEN answer
                                                ELSE IF r \in Volatile THEN Junk ELSE cpu.gpr[r]],
                        !.mem = Written(cpu.mem, CalleeArea, Junk)]
        BY <1>3 DEF SystemCall
      <4> DEFINE g == [r \in Regs |-> IF r = 3 THEN answer ELSE IF r \in Volatile THEN Junk ELSE cpu.gpr[r]]
                 m == Written(cpu.mem, CalleeArea, Junk)
      <4>2. g = [r \in Regs |-> g[r]]
        OBVIOUS
      <4>3. cpu' = AfterCall(cpu, g, m)
        BY <4>1 DEF AfterCall
      <4> HIDE DEF g, m
      <4> QED  BY ONLY <3>1, <4>2, <4>3, Returned
    <3>3. CodeBase \in Nat
      <4>1. CodeBase = scene.trampolineAddr + 8 /\ scene.trampolineAddr \in Nat
        BY <1>3, Places DEF Booted, Loaded, SystemCall
      <4> QED  BY ONLY <4>1
    <3>4. Restoring(cpu', 30) /\ 30 \in 30..48
      <4>1. cpu'.pc = CodeBase + 4 * 30 /\ 30 \in 30..48
        BY ONLY SMT, <3>1, <3>2, <3>3
      <4> QED  BY ONLY <4>1 DEF Restoring
    <3>5. Len(calls') = 2
      BY <2>3, <2>5
    <3> QED  BY <2>2, <3>2, <3>4, <3>5, SamePlaces DEF Course
  <2>6. CASE Len(calls) \notin {0, 1}
    BY <1>3, <2>6, NoThirdCall
  <2> QED  BY <2>4, <2>5, <2>6
<1>4. CASE UNCHANGED vars
  <2>1. scene' = scene /\ image' = image /\ cpu' = cpu /\ calls' = calls /\ status' = status
    BY <1>4 DEF vars
  <2> QED  BY <2>1, SamePlaces DEF Course
<1> QED  BY <1>1, <1>2, <1>3, <1>4 DEF Next

\* For every patching job whose trampoline is low, whatever the kernel answers and
\* whatever a game does that stays out of the injected code and of the words at its
\* entry point: the module is loaded and started once (trampoline.hpp, syscalls.hpp).
THEOREM ModuleLoadedOnce == Low(scene) /\ Spec /\ []StaysOut => []ModuleOnce
<1>1. Booted /\ Course => ModuleOnce
  <2> SUFFICES ASSUME Booted, Course PROVE Len(calls) <= 2
    BY DEF ModuleOnce
  <2>1. status # "running" => Len(calls) = 0
    BY DEF Booted, Passage
  <2>2. status = "running" => Len(calls) \in {0, 1, 2}
    BY DEF Course
  <2> DEFINE n == Len(calls)
  <2>3. n \in {0, 1, 2}
    BY <2>1, <2>2
  <2> HIDE DEF n
  <2>4. n <= 2
    BY ONLY <2>3
  <2> QED  BY <2>4 DEF n
<1> QED  BY InitBooted, NextBooted, InitCourse, NextCourse, <1>1, PTL DEF Spec

\* The words that were written over the entry point run before the first call.
LEMMA OnEntry == Booted /\ Course => WindowOnlyOnEntry
<1> SUFFICES ASSUME Booted, Course, status = "running", cpu.pc \in Window, calls # << >> PROVE FALSE
  BY DEF WindowOnlyOnEntry
<1>1. Low(scene) /\ Passage /\ scene \in Scenes /\ Built /\ \E S : calls \in Seq(S)
  BY DEF Booted, Loaded
<1>2. Len(calls) # 0
  BY <1>1
<1> DEFINE T == scene.trampolineAddr
           c == scene.code
           d == Displaced
           n == Len(scene.text)
           p == cpu.pc
<1>3. /\ T \in Nat /\ c \in Nat /\ d \in {1, 5} /\ n \in Nat /\ d <= n /\ c + 4 * n <= T
      /\ Window = c .. (c + 4 * d - 1) /\ CodeBase = T + 8 /\ Resume = T + 204
  BY <1>1, Places
<1>4. p \in Window
  OBVIOUS
<1>5. ASSUME NEW k \in Nat, p = CodeBase + 4 * k PROVE FALSE
  <2> HIDE DEF T, c, d, n, p
  <2> QED  BY ONLY SMT, <1>3, <1>4, <1>5, k \in Nat
<1>6. CASE Len(calls) = 1
  <2>1. PICK k \in 23..29 : BeforeStart(cpu, k, calls[1].answer)
    BY <1>1, <1>6 DEF Passage
  <2>2. p = CodeBase + 4 * k /\ k \in Nat
    BY <2>1 DEF BeforeStart
  <2> QED  BY <1>5, <2>2
<1>7. CASE Len(calls) # 1
  <2>1. ASSUME NEW k \in 30..48, Restoring(cpu, k) PROVE FALSE
    <3>1. p = CodeBase + 4 * k /\ k \in Nat
      BY <2>1 DEF Restoring
    <3> QED  BY <1>5, <3>1
  <2>2. ASSUME NEW j \in 0..4, OnMoved(cpu, j) \/ InBack(cpu, j) PROVE FALSE
    <3>1. p = Resume + 4 * j \/ p = Resume + 4 * d + 4 * j
      BY <2>2 DEF OnMoved, InBack, Leap
    <3> HIDE DEF T, c, d, n, p
    <3> QED  BY ONLY SMT, <1>3, <1>4, <3>1, j \in 0..4
  <2>3. ~ Outside(cpu)
    BY DEF Outside
  <2> QED  BY <1>2, <1>7, <2>1, <2>2, <2>3 DEF Course
<1> QED  BY <1>6, <1>7

\* And the words that were written over the entry point run on the way in only:
\* the jump back leads behind them, and nothing else of the injected code there.
THEOREM EntryRunsOnce == Low(scene) /\ Spec /\ []StaysOut => []WindowOnlyOnEntry
BY InitBooted, NextBooted, InitCourse, NextCourse, OnEntry, PTL DEF Spec

-----------------------------------------------------------------------------
(***************************************************************************)
(* What the trampoline saves and restores.  o is the processor when it     *)
(* gets to the injected code.                                              *)
(***************************************************************************)

\* The frame of the prologue, and where in it what is saved: r0, LR, CTR, and r3
\* to r12, by numbers of their own; after how many instructions it is there.
Frame   == StackTop - 256
Slot(j) == (Frame + 128) + 8 * j
Pos(j)  == IF j <= 2 THEN 2 * j + 2 ELSE j + 4
SavedValue(o, j) == IF j = 1 THEN o.lr ELSE IF j = 2 THEN o.ctr ELSE o.gpr[j]

\* The general registers g after k injected instructions: r1 is the frame, r13 and
\* up are never touched, r3 to r12 are lost from the first argument of a system
\* call until they are loaded again, and r0 carries LR and CTR as well.
Regular(g, k, o) ==
  /\ g[1] = Reg(IF k \in 1..45 THEN Frame ELSE StackTop)
  /\ \A r \in 13..31 : g[r] = o.gpr[r]
  /\ \A r \in 3..12 : k <= 16 \/ k >= r + 32 => g[r] = o.gpr[r]
  /\ k <= 2 \/ k >= 45 => g[0] = o.gpr[0]
  /\ k = 3 \/ k = 31 => g[0] = o.lr
  /\ k = 5 \/ k = 33 => g[0] = o.ctr

\* LR and CTR, which a system call destroys.
Special(l, c, k, o) ==
  /\ k <= 22 \/ k >= 32 => l = o.lr
  /\ k <= 22 \/ k >= 34 => c = o.ctr

\* The frame.
Stored(m, k, o) ==
  \A j \in 0..12 : k >= Pos(j) => Slot(j) \in DOMAIN m /\ m[Slot(j)] = SavedValue(o, j)

Clean(s, k, o) ==
  /\ Regular(s.gpr, k, o)
  /\ Special(s.lr, s.ctr, k, o)
  /\ Stored(s.mem, k, o)
  /\ k \in 46..49 => InReg(s, 2, scene.toc, k - 46)

\* The stack is in memory.
LEMMA FrameFits ==
  /\ StackTop \in Nat /\ StackTop \in Address /\ StackTop >= 256 /\ Frame \in Nat /\ Frame \in Address
  /\ \A d \in 0..256 : Frame + d \in Address
  /\ Frame = StackTop - 256
<1>1. AddrMod \in Nat
  BY AddrModFacts
<1>2. StackTop \in Nat /\ StackTop < AddrMod /\ StackTop >= 256
  <2>1. StackTop \in Address /\ StackTop >= 256
    BY BootAssumption
  <2> QED  BY ONLY SMT, <1>1, <2>1 DEF Address
<1>3. Frame \in Nat /\ Frame + 256 = StackTop
  BY ONLY SMT, <1>2 DEF Frame
<1>4. \A d \in 0..256 : Frame + d \in Address
  BY ONLY SMT, <1>1, <1>2, <1>3 DEF Address
<1>5. StackTop \in Address /\ Frame \in Address
  BY ONLY SMT, <1>1, <1>2, <1>3 DEF Address
<1> QED  BY ONLY <1>2, <1>3, <1>4, <1>5 DEF Frame

\* Writing elsewhere leaves the frame.
LEMMA WriteElsewhere ==
  ASSUME NEW m, NEW k, NEW o, Stored(m, k, o), NEW S, NEW v, \A j \in 0..12 : Slot(j) \notin S
  PROVE  Stored(Written(m, S, v), k, o)
BY DEF Stored, Written

\* Saving one more.
LEMMA WriteSlot ==
  ASSUME NEW m, NEW k \in Nat, NEW o, Stored(m, k, o), NEW j \in 0..12, Pos(j) = k + 1
  PROVE  Stored(Written(m, {Slot(j)}, SavedValue(o, j)), k + 1, o)
<1>1. Frame \in Nat
  BY FrameFits
<1>2. ASSUME NEW i \in 0..12, k + 1 >= Pos(i), i # j PROVE k >= Pos(i) /\ Slot(i) # Slot(j)
  <2>1. Pos(i) # Pos(j) /\ Pos(i) \in Int
    BY ONLY SMT, <1>2, i \in 0..12, j \in 0..12 DEF Pos
  <2>2. Slot(i) # Slot(j)
    BY ONLY SMT, <1>1, <1>2, i \in 0..12, j \in 0..12 DEF Slot
  <2>3. k >= Pos(i)
    BY ONLY SMT, <1>2, <2>1, k \in Nat, Pos(j) = k + 1
  <2> QED  BY <2>2, <2>3
<1> DEFINE w == Written(m, {Slot(j)}, SavedValue(o, j))
<1>3. /\ Slot(j) \in DOMAIN w /\ w[Slot(j)] = SavedValue(o, j)
      /\ \A a \in DOMAIN m : a # Slot(j) => a \in DOMAIN w /\ w[a] = m[a]
  BY Zenon DEF Written
<1> HIDE DEF w
<1>4. ASSUME NEW i \in 0..12, k + 1 >= Pos(i) PROVE Slot(i) \in DOMAIN w /\ w[Slot(i)] = SavedValue(o, i)
  <2>1. CASE i = j
    BY ONLY <1>3, <2>1
  <2>2. CASE i # j
    <3>1. k >= Pos(i) /\ Slot(i) # Slot(j)
      BY <1>2, <1>4, <2>2
    <3>2. Slot(i) \in DOMAIN m /\ m[Slot(i)] = SavedValue(o, i)
      BY ONLY Stored(m, k, o), <3>1, i \in 0..12 DEF Stored
    <3> QED  BY ONLY <1>3, <3>1, <3>2
  <2> QED  BY <2>1, <2>2
<1> QED  BY <1>4 DEF Stored, w

\* Between two stores.
LEMMA StoredOn ==
  ASSUME NEW m, NEW k \in Nat, NEW o, Stored(m, k, o), \A j \in 0..12 : Pos(j) # k + 1
  PROVE  Stored(m, k + 1, o)
<1>1. ASSUME NEW j \in 0..12, k + 1 >= Pos(j) PROVE k >= Pos(j)
  <2>1. Pos(j) \in Int /\ Pos(j) # k + 1
    BY ONLY SMT, \A i \in 0..12 : Pos(i) # k + 1, j \in 0..12 DEF Pos
  <2> QED  BY ONLY SMT, <1>1, <2>1, k \in Nat
<1> QED  BY <1>1 DEF Stored

\* What the four instructions that use a frame at b do.
FrameMoves(s, b, r, d, taken) ==
  /\ Exec(s, [op |-> "std", t |-> r, a |-> 1, imm |-> d], taken) =
       Mach(s.pc + 4, s.gpr, s.lr, s.ctr, Written(s.mem, {b + d}, s.gpr[r]))
  /\ Exec(s, [op |-> "stdu", t |-> r, a |-> 1, imm |-> d], taken) =
       Mach(s.pc + 4, [s.gpr EXCEPT ![1] = Reg(b + d)], s.lr, s.ctr, Written(s.mem, {b + d}, s.gpr[r]))
  /\ Exec(s, [op |-> "ld", t |-> r, a |-> 1, imm |-> d], taken) =
       Mach(s.pc + 4, [s.gpr EXCEPT ![r] = Peek(s, b + d)], s.lr, s.ctr, s.mem)
  /\ Exec(s, [op |-> "addi", t |-> r, a |-> 1, imm |-> d], taken) =
       Mach(s.pc + 4, [s.gpr EXCEPT ![r] = Reg(b + d)], s.lr, s.ctr, s.mem)

\* A store to the frame, and a load from it.
LEMMA FrameStep ==
  ASSUME NEW s, Machine(s), NEW b \in Address, s.gpr[1] = Reg(b), NEW r, NEW d \in Int,
         -1024 < d, d < 1024, b + d \in Address, NEW taken
  PROVE  FrameMoves(s, b, r, d, taken)
<1>1. ASSUME NEW op PROVE Ea(s, [op |-> op, t |-> r, a |-> 1, imm |-> d]) = Reg(b + d)
  <2>1. Plus(Reg(b), Extended(d)) = Reg(b + d)
    BY Displacement
  <2> QED  BY <2>1 DEF Ea, Base
<1>2. AddrOf(Reg(b + d)) = b + d
  <2>1. b + d \in Int
    BY AddrModFacts DEF Address
  <2> QED  BY <2>1, AddressOf
<1>3. Exec(s, [op |-> "std", t |-> r, a |-> 1, imm |-> d], taken) =
        Mach(s.pc + 4, s.gpr, s.lr, s.ctr, Written(s.mem, {b + d}, s.gpr[r]))
  <2> DEFINE i == [op |-> "std", t |-> r, a |-> 1, imm |-> d]
  <2>1. i.op = "std" /\ i.t = r /\ Ea(s, i) = Reg(b + d)
    BY <1>1
  <2> HIDE DEF i
  <2>2. Exec(s, i, taken) = Mach(s.pc + 4, s.gpr, s.lr, s.ctr, Written(s.mem, {AddrOf(Ea(s, i))}, s.gpr[i.t]))
    BY ONLY Machine(s), <2>1, ExecOthers
  <2> QED  BY ONLY <1>2, <2>1, <2>2 DEF i
<1>4. Exec(s, [op |-> "stdu", t |-> r, a |-> 1, imm |-> d], taken) =
        Mach(s.pc + 4, [s.gpr EXCEPT ![1] = Reg(b + d)], s.lr, s.ctr, Written(s.mem, {b + d}, s.gpr[r]))
  <2> DEFINE i == [op |-> "stdu", t |-> r, a |-> 1, imm |-> d]
  <2>1. i.op = "stdu" /\ i.t = r /\ i.a = 1 /\ Ea(s, i) = Reg(b + d)
    BY <1>1
  <2> HIDE DEF i
  <2>2. Exec(s, i, taken) = Mach(s.pc + 4, [s.gpr EXCEPT ![i.a] = Ea(s, i)], s.lr, s.ctr,
                                 Written(s.mem, {AddrOf(Ea(s, i))}, s.gpr[i.t]))
    BY ONLY Machine(s), <2>1, ExecOthers
  <2> QED  BY ONLY <1>2, <2>1, <2>2 DEF i
<1>5. Exec(s, [op |-> "ld", t |-> r, a |-> 1, imm |-> d], taken) =
        Mach(s.pc + 4, [s.gpr EXCEPT ![r] = Peek(s, b + d)], s.lr, s.ctr, s.mem)
  <2> DEFINE i == [op |-> "ld", t |-> r, a |-> 1, imm |-> d]
  <2>1. i.op = "ld" /\ i.t = r /\ Ea(s, i) = Reg(b + d)
    BY <1>1
  <2> HIDE DEF i
  <2>2. Exec(s, i, taken) = Mach(s.pc + 4, [s.gpr EXCEPT ![i.t] = Peek(s, AddrOf(Ea(s, i)))], s.lr, s.ctr, s.mem)
    BY ONLY Machine(s), <2>1, ExecSets
  <2> QED  BY ONLY <1>2, <2>1, <2>2 DEF i
<1>6. Exec(s, [op |-> "addi", t |-> r, a |-> 1, imm |-> d], taken) =
        Mach(s.pc + 4, [s.gpr EXCEPT ![r] = Reg(b + d)], s.lr, s.ctr, s.mem)
  <2> DEFINE i == [op |-> "addi", t |-> r, a |-> 1, imm |-> d]
  <2>1. i.op = "addi" /\ i.t = r /\ Ea(s, i) = Reg(b + d)
    BY <1>1
  <2> HIDE DEF i
  <2>2. Exec(s, i, taken) = Mach(s.pc + 4, [s.gpr EXCEPT ![i.t] = Ea(s, i)], s.lr, s.ctr, s.mem)
    BY ONLY Machine(s), <2>1, ExecSets
  <2> QED  BY ONLY <1>2, <2>1, <2>2 DEF i
<1> QED  BY ONLY <1>3, <1>4, <1>5, <1>6 DEF FrameMoves

USE DEF Five

Std(r, d) == [op |-> "std", t |-> r, a |-> 1, imm |-> d]
Ld(r, d)  == [op |-> "ld", t |-> r, a |-> 1, imm |-> d]

\* The instruction after k injected ones.
InstructionAt(k) == Decode(Fetch(CodeBase + 4 * k))

\* The prologue and the epilogue, by their place in the injected code.
LEMMA FrameWords ==
  ASSUME scene \in Scenes, Low(scene), Built
  PROVE  /\ InstructionAt(0) = [op |-> "stdu", t |-> 1, a |-> 1, imm |-> -256]
         /\ InstructionAt(1) = Std(0, 128)
         /\ InstructionAt(2) = [op |-> "mfspr", t |-> 0, spr |-> 8] /\ InstructionAt(3) = Std(0, 136)
         /\ InstructionAt(4) = [op |-> "mfspr", t |-> 0, spr |-> 9] /\ InstructionAt(5) = Std(0, 144)
         /\ \A r \in 3..12 : InstructionAt(r + 3) = Std(r, 128 + 8 * r)
         /\ InstructionAt(30) = Ld(0, 136) /\ InstructionAt(31) = [op |-> "mtspr", t |-> 0, spr |-> 8]
         /\ InstructionAt(32) = Ld(0, 144) /\ InstructionAt(33) = [op |-> "mtspr", t |-> 0, spr |-> 9]
         /\ \A r \in 3..12 : InstructionAt(r + 31) = Ld(r, 128 + 8 * r)
         /\ InstructionAt(44) = Ld(0, 128)
         /\ InstructionAt(45) = [op |-> "addi", t |-> 1, a |-> 1, imm |-> 256]
<1> DEFINE F(k) == Fetch(CodeBase + 4 * k)
           p == buildPrologue
           q == buildEpilogue
<1>1. ASSUME NEW k \in 0..15 PROVE F(k) = p[k + 1]
  <2>1. k \in 0..29 /\ k < 16
    BY ONLY SMT, <1>1
  <2> QED  BY <2>1, FetchCode
<1>2. ASSUME NEW k \in 1..16 PROVE F(29 + k) = q[k]
  BY FetchRest
<1>3. /\ Decode(p[1]) = [op |-> "stdu", t |-> 1, a |-> 1, imm |-> -256]
      /\ Decode(p[2]) = Std(0, 128)
      /\ Decode(p[3]) = [op |-> "mfspr", t |-> 0, spr |-> 8] /\ Decode(p[4]) = Std(0, 136)
      /\ Decode(p[5]) = [op |-> "mfspr", t |-> 0, spr |-> 9] /\ Decode(p[6]) = Std(0, 144)
      /\ \A k \in 1..10 : Decode(p[6 + k]) = Std(k + 2, 144 + 8 * k)
  BY PrologueWords DEF Std
<1>4. /\ Decode(q[1]) = Ld(0, 136) /\ Decode(q[2]) = [op |-> "mtspr", t |-> 0, spr |-> 8]
      /\ Decode(q[3]) = Ld(0, 144) /\ Decode(q[4]) = [op |-> "mtspr", t |-> 0, spr |-> 9]
      /\ \A k \in 1..10 : Decode(q[4 + k]) = Ld(k + 2, 144 + 8 * k)
      /\ Decode(q[15]) = Ld(0, 128)
      /\ Decode(q[16]) = [op |-> "addi", t |-> 1, a |-> 1, imm |-> 256]
  BY EpilogueWords DEF Ld
<1> HIDE DEF F, p, q
<1>5. ASSUME NEW r \in 3..12
      PROVE  Decode(F(r + 3)) = Std(r, 128 + 8 * r) /\ Decode(F(r + 31)) = Ld(r, 128 + 8 * r)
  <2> DEFINE k == r - 2
  <2>1. /\ k \in 1..10 /\ k + 2 = r /\ 144 + 8 * k = 128 + 8 * r
        /\ r + 3 \in 0..15 /\ (r + 3) + 1 = 6 + k /\ 4 + k \in 1..16 /\ 29 + (4 + k) = r + 31
    BY ONLY SMT, <1>5
  <2> HIDE DEF k
  <2>2. F(r + 3) = p[6 + k] /\ F(r + 31) = q[4 + k]
    <3>1. F(r + 3) = p[(r + 3) + 1]
      BY ONLY <1>1, <2>1
    <3>2. F(29 + (4 + k)) = q[4 + k]
      BY ONLY <1>2, <2>1
    <3> QED  BY ONLY <2>1, <3>1, <3>2
  <2>3. Decode(p[6 + k]) = Std(k + 2, 144 + 8 * k) /\ Decode(q[4 + k]) = Ld(k + 2, 144 + 8 * k)
    BY ONLY <1>3, <1>4, <2>1
  <2> QED  BY ONLY <2>1, <2>2, <2>3
<1>6. /\ F(0) = p[1] /\ F(1) = p[2] /\ F(2) = p[3] /\ F(3) = p[4] /\ F(4) = p[5] /\ F(5) = p[6]
  <2>1. \A k \in 0..15 : F(k) = p[k + 1]
    BY <1>1
  <2> QED  BY ONLY SMT, <2>1
<1>7. /\ F(30) = q[1] /\ F(31) = q[2] /\ F(32) = q[3] /\ F(33) = q[4] /\ F(44) = q[15] /\ F(45) = q[16]
  <2>1. \A k \in 1..16 : F(29 + k) = q[k]
    BY <1>2
  <2> QED  BY ONLY SMT, <2>1
<1>8. \A k : InstructionAt(k) = Decode(F(k))
  BY DEF InstructionAt, F
<1> QED  BY ONLY <1>3, <1>4, <1>5, <1>6, <1>7, <1>8

\* What a step from k injected instructions to the next one keeps.
CleanAt(s, k, o) == Machine(s) /\ s.pc = CodeBase + 4 * k /\ Clean(s, k, o)

LEMMA CodeBaseNat ==
  ASSUME scene \in Scenes, Low(scene), Built
  PROVE  CodeBase \in Nat
<1>1. CodeBase = scene.trampolineAddr + 8 /\ scene.trampolineAddr \in Nat
  BY Places
<1> QED  BY ONLY <1>1

\* A state with its fields.
LEMMA CleanFields ==
  ASSUME NEW k \in Nat, NEW o, NEW g, NEW l, NEW c, NEW m, NEW p, CodeBase \in Nat,
         p = CodeBase + 4 * k, g = [r \in Regs |-> g[r]],
         Regular(g, k + 1, o), Special(l, c, k + 1, o), Stored(m, k + 1, o),
         k + 1 \notin 46..49
  PROVE  CleanAt(Mach(p + 4, g, l, c, m), k + 1, o)
<1> DEFINE t == Mach(p + 4, g, l, c, m)
<1>1. /\ t.pc = p + 4 /\ t.gpr = g /\ t.lr = l /\ t.ctr = c /\ t.mem = m /\ Machine(t)
  BY MachFields
<1> HIDE DEF t
<1>2. t.pc = CodeBase + 4 * (k + 1)
  BY ONLY SMT, <1>1, p = CodeBase + 4 * k, k \in Nat, CodeBase \in Nat
<1> QED  BY <1>1, <1>2 DEF CleanAt, Clean, t

\* The prologue saves.
LEMMA EnterNext ==
  ASSUME scene \in Scenes, Low(scene), Built, NEW s, NEW k \in 0..15, NEW o, CleanAt(s, k, o), NEW taken
  PROVE  CleanAt(Exec(s, InstructionAt(k), taken), k + 1, o)
<1>1. Machine(s) /\ s.pc = CodeBase + 4 * k /\ Clean(s, k, o) /\ CodeBase \in Nat
  BY CodeBaseNat DEF CleanAt
<1>2. Regular(s.gpr, k, o) /\ Special(s.lr, s.ctr, k, o) /\ Stored(s.mem, k, o)
  BY <1>1 DEF Clean
<1>3. k + 1 \notin 46..49 /\ k \in Nat
  BY ONLY SMT, k \in 0..15
<1>4. s.gpr = [r \in Regs |-> s.gpr[r]]
  BY <1>1 DEF Machine
<1>5. Special(s.lr, s.ctr, k + 1, o)
  BY ONLY SMT, <1>2, k \in 0..15 DEF Special
<1>6. ASSUME k \notin {0, 2, 4} PROVE Regular(s.gpr, k + 1, o)
  BY ONLY SMT, <1>2, <1>6, k \in 0..15 DEF Regular
<1>7. Frame \in Address /\ \A d \in 0..256 : Frame + d \in Address
  BY FrameFits
<1>8. ASSUME NEW j \in 0..12, Pos(j) = k + 1, NEW r, SavedValue(o, j) = s.gpr[r],
             InstructionAt(k) = Std(r, 128 + 8 * j), k \notin {0, 2, 4}
      PROVE  CleanAt(Exec(s, InstructionAt(k), taken), k + 1, o)
  <2> DEFINE d == 128 + 8 * j
  <2>1. d \in Int /\ -1024 < d /\ d < 1024 /\ d \in 0..256
    BY ONLY SMT, j \in 0..12
  <2>2. s.gpr[1] = Reg(Frame)
    <3>1. k \in 1..45
      BY ONLY SMT, <1>8, k \in 0..15
    <3> QED  BY ONLY <1>2, <3>1 DEF Regular
  <2>3. Frame + d = Slot(j)
    <3>1. Frame \in Int
      BY FrameFits
    <3> QED  BY ONLY SMT, <3>1, j \in 0..12 DEF Slot
  <2> HIDE DEF d
  <2>4. Exec(s, Std(r, d), taken) = Mach(s.pc + 4, s.gpr, s.lr, s.ctr, Written(s.mem, {Frame + d}, s.gpr[r]))
    <3>1. Frame + d \in Address
      BY <1>7, <2>1
    <3>2. FrameMoves(s, Frame, r, d, taken)
      BY ONLY <1>1, <1>7, <2>1, <2>2, <3>1, FrameStep
    <3> QED  BY ONLY <3>2 DEF Std, FrameMoves
  <2>5. Stored(Written(s.mem, {Slot(j)}, SavedValue(o, j)), k + 1, o)
    BY <1>2, <1>3, <1>8, WriteSlot
  <2>6. Regular(s.gpr, k + 1, o)
    BY <1>6, <1>8
  <2> DEFINE m == Written(s.mem, {Slot(j)}, SavedValue(o, j))
  <2> HIDE DEF m
  <2>7. CleanAt(Mach(s.pc + 4, s.gpr, s.lr, s.ctr, m), k + 1, o)
    <3>1. Stored(m, k + 1, o)
      BY <2>5 DEF m
    <3> QED  BY ONLY <1>1, <1>3, <1>4, <1>5, <2>6, <3>1, CleanFields
  <2>8. InstructionAt(k) = Std(r, d)
    BY <1>8 DEF d
  <2> QED  BY ONLY <1>8, <2>3, <2>4, <2>7, <2>8 DEF m
<1>9. CASE k = 0
  <2>1. s.gpr[1] = Reg(StackTop)
    BY <1>2, <1>9 DEF Regular
  <2>2. StackTop + (-256) = Frame
    <3>1. StackTop \in Int /\ Frame = StackTop - 256
      BY FrameFits
    <3> QED  BY ONLY SMT, <3>1
  <2> DEFINE i == [op |-> "stdu", t |-> 1, a |-> 1, imm |-> -256]
             g == [s.gpr EXCEPT ![1] = Reg(Frame)]
             m == Written(s.mem, {Frame}, s.gpr[1])
  <2>3. Exec(s, i, taken) = Mach(s.pc + 4, g, s.lr, s.ctr, m)
    <3>1. /\ StackTop \in Address /\ Frame \in Address /\ -256 \in Int /\ -1024 < -256 /\ -256 < 1024
          /\ StackTop + (-256) \in Address
      <4>1. StackTop \in Address
        BY FrameFits
      <4> QED  BY ONLY SMT, <1>7, <2>2, <4>1
    <3> DEFINE d == -256
    <3>2. d \in Int /\ -1024 < d /\ d < 1024 /\ StackTop + d \in Address /\ StackTop + d = Frame
      BY <2>2, <3>1
    <3> HIDE DEF d
    <3>3. FrameMoves(s, StackTop, 1, d, taken)
      BY ONLY <1>1, <2>1, <3>1, <3>2, FrameStep
    <3>4. Exec(s, [op |-> "stdu", t |-> 1, a |-> 1, imm |-> d], taken) =
            Mach(s.pc + 4, [s.gpr EXCEPT ![1] = Reg(StackTop + d)], s.lr, s.ctr, Written(s.mem, {StackTop + d}, s.gpr[1]))
      BY ONLY <3>3 DEF FrameMoves
    <3> QED  BY ONLY <3>2, <3>4 DEF d, g, m, i
  <2>4. g = [r \in Regs |-> g[r]]
    BY <1>4
  <2>5. g[1] = Reg(Frame) /\ \A r \in Regs : r # 1 => g[r] = s.gpr[r]
    BY <1>4 DEF Regs
  <2> HIDE DEF g, m, i
  <2>6. Regular(g, k + 1, o)
    BY ONLY SMT, <1>2, <1>9, <2>5 DEF Regular, Regs
  <2>7. Stored(m, k + 1, o)
    <3>1. \A j \in 0..12 : ~ (k + 1 >= Pos(j))
      BY ONLY SMT, <1>9 DEF Pos
    <3> QED  BY ONLY <3>1 DEF Stored
  <2>8. InstructionAt(k) = i
    BY <1>9, FrameWords DEF i
  <2>9. CleanAt(Mach(s.pc + 4, g, s.lr, s.ctr, m), k + 1, o)
    BY ONLY <1>1, <1>3, <1>5, <2>4, <2>6, <2>7, CleanFields
  <2> QED  BY <2>3, <2>8, <2>9
<1>10. ASSUME NEW n, (k = 2 /\ n = 8) \/ (k = 4 /\ n = 9), InstructionAt(k) = [op |-> "mfspr", t |-> 0, spr |-> n]
       PROVE  CleanAt(Exec(s, InstructionAt(k), taken), k + 1, o)
  <2> DEFINE i == [op |-> "mfspr", t |-> 0, spr |-> n]
             v == SprValue(s, i)
             g == [s.gpr EXCEPT ![0] = v]
  <2>1. i.op = "mfspr" /\ i.t = 0 /\ i.spr = n
    OBVIOUS
  <2>2. v = IF k = 2 THEN o.lr ELSE o.ctr
    <3>1. s.lr = o.lr /\ s.ctr = o.ctr
      BY ONLY <1>2, k \in 0..15 DEF Special
    <3> QED  BY ONLY <1>10, <2>1, <3>1 DEF v, SprValue
  <2> HIDE DEF i, v
  <2>3. Exec(s, i, taken) = Mach(s.pc + 4, g, s.lr, s.ctr, s.mem)
    <3>1. Exec(s, i, taken) = Mach(s.pc + 4, [s.gpr EXCEPT ![i.t] = SprValue(s, i)], s.lr, s.ctr, s.mem)
      BY ONLY <1>1, <2>1, ExecSets
    <3> QED  BY ONLY <2>1, <3>1 DEF g, v
  <2>4. g = [r \in Regs |-> g[r]] /\ g[0] = v /\ \A r \in Regs : r # 0 => g[r] = s.gpr[r]
    BY <1>4 DEF Regs
  <2> HIDE DEF g
  <2>5. Regular(g, k + 1, o)
    BY ONLY SMT, <1>2, <1>10, <2>2, <2>4 DEF Regular, Regs
  <2>6. Stored(s.mem, k + 1, o)
    <3>1. \A j \in 0..12 : Pos(j) # k + 1
      BY ONLY SMT, <1>10 DEF Pos
    <3> QED  BY ONLY <1>2, <1>3, <3>1, StoredOn
  <2>7. CleanAt(Mach(s.pc + 4, g, s.lr, s.ctr, s.mem), k + 1, o)
    BY ONLY <1>1, <1>3, <1>5, <2>4, <2>5, <2>6, CleanFields
  <2> QED  BY <1>10, <2>3, <2>7 DEF i
<1>11. CASE k \in {2, 4}
  <2>1. InstructionAt(2) = [op |-> "mfspr", t |-> 0, spr |-> 8] /\ InstructionAt(4) = [op |-> "mfspr", t |-> 0, spr |-> 9]
    BY FrameWords
  <2>2. ASSUME NEW n, n = IF k = 2 THEN 8 ELSE 9 PROVE CleanAt(Exec(s, InstructionAt(k), taken), k + 1, o)
    <3>1. (k = 2 /\ n = 8) \/ (k = 4 /\ n = 9)
      BY ONLY SMT, <1>11, <2>2
    <3>2. CASE k = 2
      <4>1. n = 8
        BY ONLY SMT, <2>2, <3>2
      <4>2. InstructionAt(k) = [op |-> "mfspr", t |-> 0, spr |-> n]
        BY ONLY Zenon, <2>1, <3>2, <4>1
      <4> QED  BY ONLY Zenon, <1>10, <3>1, <4>2
    <3>3. CASE k = 4
      <4>1. n = 9
        BY ONLY SMT, <2>2, <3>3
      <4>2. InstructionAt(k) = [op |-> "mfspr", t |-> 0, spr |-> n]
        BY ONLY Zenon, <2>1, <3>3, <4>1
      <4> QED  BY ONLY Zenon, <1>10, <3>1, <4>2
    <3> QED  BY ONLY <3>1, <3>2, <3>3
  <2> QED  BY <2>2
<1>12. CASE k \in {1, 3, 5}
  <2>1. /\ InstructionAt(1) = Std(0, 128) /\ InstructionAt(3) = Std(0, 136) /\ InstructionAt(5) = Std(0, 144)
    BY FrameWords
  <2> DEFINE j == (k - 1) \div 2
  <2>2. /\ j \in 0..12 /\ Pos(j) = k + 1 /\ k \notin {0, 2, 4}
        /\ k = 1 => j = 0 /\ 128 + 8 * j = 128
        /\ k = 3 => j = 1 /\ 128 + 8 * j = 136
        /\ k = 5 => j = 2 /\ 128 + 8 * j = 144
    BY ONLY SMT, <1>12 DEF Pos
  <2> HIDE DEF j
  <2>3. InstructionAt(k) = Std(0, 128 + 8 * j)
    BY ONLY <1>12, <2>1, <2>2
  <2>4. SavedValue(o, j) = s.gpr[0]
    <3>1. CASE k = 1
      <4>1. k <= 2
        BY ONLY SMT, <3>1
      <4>2. j = 0
        BY <2>2, <3>1
      <4> QED  BY ONLY SMT, <1>2, <4>1, <4>2 DEF Regular, SavedValue
    <3>2. CASE k = 3
      BY ONLY SMT, <1>2, <2>2, <3>2 DEF Regular, SavedValue
    <3>3. CASE k = 5
      BY ONLY SMT, <1>2, <2>2, <3>3 DEF Regular, SavedValue
    <3> QED  BY <1>12, <3>1, <3>2, <3>3
  <2> QED  BY ONLY <1>8, <2>2, <2>3, <2>4
<1>13. CASE k \in 6..15
  <2> DEFINE j == k - 3
  <2>1. j \in 3..12 /\ j \in 0..12 /\ Pos(j) = k + 1 /\ k \notin {0, 2, 4} /\ j + 3 = k /\ k <= 16 /\ j # 1 /\ j # 2
    BY ONLY SMT, <1>13 DEF Pos
  <2> HIDE DEF j
  <2>2. InstructionAt(j + 3) = Std(j, 128 + 8 * j)
    BY <2>1, FrameWords
  <2>3. SavedValue(o, j) = s.gpr[j]
    BY ONLY <1>2, <2>1 DEF Regular, SavedValue
  <2> QED  BY ONLY <1>8, <2>1, <2>2, <2>3
<1>14. k \in {0} \cup {2, 4} \cup {1, 3, 5} \cup 6..15
  BY ONLY SMT, k \in 0..15
<1> QED  BY <1>9, <1>11, <1>12, <1>13, <1>14

\* The arguments of the system calls are set in r3 to r8 and r11.
LEMMA ArgsWords ==
  ASSUME scene \in Scenes, Low(scene), Built, NEW k \in 16..28, k # 22
  PROVE  InstructionAt(k).op \in SetsOne /\ InstructionAt(k).t \in 3..12
<1> DEFINE F(x) == Fetch(CodeBase + 4 * x)
<1>0. \A x : InstructionAt(x) = Decode(F(x))
  BY DEF InstructionAt
<1>1. /\ \A j \in 0..2 : F(16 + j) = loadImmediate32(3, PathAt)[j + 1]
      /\ Decode(F(19)) = [op |-> "addi", t |-> 4, a |-> 0, imm |-> 0]
      /\ Decode(F(20)) = [op |-> "addi", t |-> 5, a |-> 0, imm |-> 0]
      /\ Decode(F(21)) = [op |-> "addi", t |-> 11, a |-> 0, imm |-> 480]
  BY FetchLoad
<1>2. /\ \A r \in 1..5 : Decode(F(22 + r)) = [op |-> "addi", t |-> 3 + r, a |-> 0, imm |-> 0]
      /\ Decode(F(28)) = [op |-> "addi", t |-> 11, a |-> 0, imm |-> 481]
  BY FetchStart
<1>3. 3 \in Five /\ PathAt \in Address
  <2>1. 3 \in Five
    BY SMT DEF Five
  <2> QED  BY <2>1, JobTypes
<1> DEFINE w(j) == loadImmediate32(3, PathAt)[j]
<1>4. /\ Decode(w(1)).op = "addis" /\ Decode(w(1)).t = 3 /\ Decode(w(2)).op = "ori" /\ Decode(w(2)).t = 3
      /\ Decode(w(3)).op = "rldicl" /\ Decode(w(3)).t = 3
  <2> DEFINE h == SignedHalf(PathAt \div HalfMod)
             l == PathAt % HalfMod
  <2>1. /\ Decode(w(1)) = [op |-> "addis", t |-> 3, a |-> 0, imm |-> h]
        /\ Decode(w(2)) = [op |-> "ori", t |-> 3, a |-> 3, imm |-> l]
        /\ Decode(w(3)) = [op |-> "rldicl", t |-> 3, a |-> 3, sh |-> 0, mb |-> 16, rc |-> 0]
    BY <1>3, ImmediateWords
  <2> HIDE DEF w, h, l
  <2> QED  BY ONLY <2>1
<1> HIDE DEF F, w
<1>5. CASE k \in 16..18
  <2> DEFINE j == k - 16
  <2>1. j \in 0..2 /\ 16 + j = k /\ (j + 1 = 1 \/ j + 1 = 2 \/ j + 1 = 3)
    BY ONLY SMT, <1>5
  <2> HIDE DEF j
  <2>2. F(k) = w(j + 1)
    BY ONLY <1>1, <2>1 DEF w
  <2>3. Decode(F(k)).op \in {"addis", "ori", "rldicl"} /\ Decode(F(k)).t = 3
    BY ONLY <1>4, <2>1, <2>2
  <2>4. 3 \in 3..12
    BY ONLY SMT
  <2> QED  BY ONLY <1>0, <2>3, <2>4 DEF SetsOne
<1>6. ASSUME NEW r \in 3..12, NEW n, Decode(F(k)) = [op |-> "addi", t |-> r, a |-> 0, imm |-> n]
      PROVE  InstructionAt(k).op \in SetsOne /\ InstructionAt(k).t \in 3..12
  <2>1. Decode(F(k)).op = "addi" /\ Decode(F(k)).t = r
    BY ONLY <1>6
  <2> QED  BY ONLY <1>0, <1>6, <2>1 DEF SetsOne
<1>7. CASE k \in {19, 20, 21}
  <2>1. 4 \in 3..12 /\ 5 \in 3..12 /\ 11 \in 3..12
    BY ONLY SMT
  <2> QED  BY ONLY <1>1, <1>6, <1>7, <2>1
<1>8. CASE k \in 23..27
  <2> DEFINE r == k - 22
  <2>1. r \in 1..5 /\ 22 + r = k /\ 3 + r \in 3..12
    BY ONLY SMT, <1>8
  <2> HIDE DEF r
  <2>2. Decode(F(k)) = [op |-> "addi", t |-> 3 + r, a |-> 0, imm |-> 0]
    BY ONLY <1>2, <2>1
  <2> QED  BY ONLY <1>6, <2>1, <2>2
<1>9. CASE k = 28
  <2>1. 11 \in 3..12
    BY ONLY SMT
  <2> QED  BY ONLY <1>2, <1>6, <1>9, <2>1
<1>10. k \in 16..18 \cup {19, 20, 21} \cup 23..27 \cup {28}
  BY ONLY SMT, k \in 16..28, k # 22
<1> QED  BY <1>5, <1>7, <1>8, <1>9, <1>10

\* They leave the rest alone.
LEMMA ArgsNext ==
  ASSUME scene \in Scenes, Low(scene), Built, NEW s, NEW k \in 16..28, k # 22, NEW o, CleanAt(s, k, o), NEW taken
  PROVE  CleanAt(Exec(s, InstructionAt(k), taken), k + 1, o)
<1>1. Machine(s) /\ s.pc = CodeBase + 4 * k /\ Clean(s, k, o) /\ CodeBase \in Nat
  BY CodeBaseNat DEF CleanAt
<1>2. Regular(s.gpr, k, o) /\ Special(s.lr, s.ctr, k, o) /\ Stored(s.mem, k, o)
  BY <1>1 DEF Clean
<1>3. k + 1 \notin 46..49 /\ k \in Nat
  BY ONLY SMT, k \in 16..28
<1>4. s.gpr = [r \in Regs |-> s.gpr[r]]
  BY <1>1 DEF Machine
<1>5. Special(s.lr, s.ctr, k + 1, o)
  BY ONLY SMT, <1>2, k \in 16..28, k # 22 DEF Special
<1> DEFINE i == InstructionAt(k)
           reg == i.t
<1>6. i.op \in SetsOne /\ reg \in 3..12
  BY ArgsWords
<1> HIDE DEF i
<1>7. SetSome(s, Exec(s, i, taken), reg)
  BY ONLY <1>1, <1>6, ExecSets
<1> HIDE DEF reg
<1>8. PICK v : Exec(s, i, taken) = Mach(s.pc + 4, [s.gpr EXCEPT ![reg] = v], s.lr, s.ctr, s.mem)
  BY <1>7 DEF SetSome
<1> DEFINE g == [s.gpr EXCEPT ![reg] = v]
<1>9. g = [r \in Regs |-> g[r]] /\ \A r \in Regs : r # reg => g[r] = s.gpr[r]
  BY ONLY Zenon, <1>4
<1> HIDE DEF g
<1>10. Regular(g, k + 1, o)
  BY ONLY SMT, <1>2, <1>6, <1>9, k \in 16..28 DEF Regular, Regs
<1>11. Stored(s.mem, k + 1, o)
  <2>1. \A j \in 0..12 : Pos(j) # k + 1
    BY ONLY SMT, k \in 16..28 DEF Pos
  <2> QED  BY ONLY <1>2, <1>3, <2>1, StoredOn
<1>12. CleanAt(Mach(s.pc + 4, g, s.lr, s.ctr, s.mem), k + 1, o)
  BY ONLY <1>1, <1>3, <1>5, <1>9, <1>10, <1>11, CleanFields
<1> QED  BY <1>8, <1>12 DEF g, i

\* The general registers after a system call.
Answered(s, answer) ==
  [r \in Regs |-> IF r = 3 THEN answer ELSE IF r \in Volatile THEN Junk ELSE s.gpr[r]]

\* A system call destroys what the convention lets it, and not the frame.
LEMMA CallNext ==
  ASSUME scene \in Scenes, Low(scene), Built, NEW s, NEW k \in {22, 29}, NEW o, CleanAt(s, k, o),
         NEW answer, NEW S, S = {AddrOf(s.gpr[1]) + d : d \in {-112, -8, 8, 16, 48, 104}}
  PROVE  CleanAt(AfterCall(s, Answered(s, answer), Written(s.mem, S, Junk)), k + 1, o)
<1>1. Machine(s) /\ s.pc = CodeBase + 4 * k /\ Clean(s, k, o) /\ CodeBase \in Nat
  BY CodeBaseNat DEF CleanAt
<1>2. Regular(s.gpr, k, o) /\ Stored(s.mem, k, o)
  BY <1>1 DEF Clean
<1>3. k + 1 \notin 46..49 /\ k \in Nat /\ k + 1 \notin 30..49 \ {30} /\ k + 1 > 22 /\ k + 1 <= 30
  BY ONLY SMT, k \in {22, 29}
<1> DEFINE g == [r \in Regs |-> IF r = 3 THEN answer ELSE IF r \in Volatile THEN Junk ELSE s.gpr[r]]
           m == Written(s.mem, S, Junk)
           t == AfterCall(s, g, m)
<1>4. g = [r \in Regs |-> g[r]]
  OBVIOUS
<1>5. g[1] = s.gpr[1] /\ \A r \in 13..31 : g[r] = s.gpr[r]
  <2>1. /\ 1 \in Regs /\ 1 # 3 /\ 1 \notin Volatile
        /\ \A r \in 13..31 : r \in Regs /\ r # 3 /\ r \notin Volatile
    BY ONLY SMT DEF Regs, Volatile
  <2> QED  BY ONLY <2>1
<1> HIDE DEF g
<1>6. Regular(g, k + 1, o)
  BY ONLY SMT, <1>2, <1>5, k \in {22, 29} DEF Regular
<1>7. Special(Junk, Junk, k + 1, o)
  BY ONLY SMT, <1>3 DEF Special
<1>8. \A j \in 0..12 : Slot(j) \notin S
  <2>1. s.gpr[1] = Reg(Frame) /\ Frame \in Int
    <3>1. k \in 1..45
      BY ONLY SMT, k \in {22, 29}
    <3> QED  BY <1>2, <3>1, FrameFits DEF Regular
  <2>2. AddrOf(s.gpr[1]) = Frame
    BY ONLY <2>1, AddressOf
  <2>3. ASSUME NEW j \in 0..12, NEW d \in {-112, -8, 8, 16, 48, 104} PROVE Slot(j) # Frame + d
    BY ONLY SMT, <2>1, <2>3 DEF Slot
  <2> QED  BY <2>2, <2>3
<1>9. Stored(m, k + 1, o)
  <2>1. \A j \in 0..12 : Pos(j) # k + 1
    BY ONLY SMT, k \in {22, 29} DEF Pos
  <2>2. Stored(s.mem, k + 1, o)
    BY ONLY <1>2, <1>3, <2>1, StoredOn
  <2> QED  BY ONLY <1>8, <2>2, WriteElsewhere
<1> HIDE DEF m
<1>10. t = Mach(s.pc + 4, g, Junk, Junk, m)
  <2>1. t = AfterCall(s, g, m)
    OBVIOUS
  <2> HIDE DEF t
  <2> QED  BY ONLY <1>1, <1>4, <2>1, Returned
<1>11. CleanAt(Mach(s.pc + 4, g, Junk, Junk, m), k + 1, o)
  BY ONLY <1>1, <1>3, <1>4, <1>6, <1>7, <1>9, CleanFields
<1> QED  BY <1>10, <1>11 DEF t, g, m, Answered

\* The epilogue loads what was saved.
LEMMA LeaveNext ==
  ASSUME scene \in Scenes, Low(scene), Built, NEW s, NEW k \in 30..45, NEW o, CleanAt(s, k, o), NEW taken
  PROVE  CleanAt(Exec(s, InstructionAt(k), taken), k + 1, o)
<1>1. Machine(s) /\ s.pc = CodeBase + 4 * k /\ Clean(s, k, o) /\ CodeBase \in Nat
  BY CodeBaseNat DEF CleanAt
<1>2. Regular(s.gpr, k, o) /\ Special(s.lr, s.ctr, k, o) /\ Stored(s.mem, k, o)
  BY <1>1 DEF Clean
<1>3. k \in Nat /\ k >= 16
  BY ONLY SMT, k \in 30..45
<1>4. s.gpr = [r \in Regs |-> s.gpr[r]]
  BY <1>1 DEF Machine
<1>5. Frame \in Address /\ (\A d \in 0..256 : Frame + d \in Address) /\ Frame \in Nat /\ StackTop = Frame + 256
  <2>1. /\ Frame \in Address /\ (\A d \in 0..256 : Frame + d \in Address) /\ Frame \in Nat
        /\ StackTop \in Nat /\ Frame = StackTop - 256
    BY FrameFits
  <2> QED  BY ONLY SMT, <2>1
<1>6. s.gpr[1] = Reg(Frame)
  <2>1. k \in 1..45
    BY ONLY SMT, k \in 30..45
  <2> QED  BY ONLY <1>2, <2>1 DEF Regular
<1>7. Stored(s.mem, k + 1, o)
  <2>1. \A j \in 0..12 : Pos(j) # k + 1
    BY ONLY SMT, k \in 30..45 DEF Pos
  <2> QED  BY ONLY <1>2, <1>3, <2>1, StoredOn
<1>8. ASSUME NEW g, NEW l, NEW c, g = [r \in Regs |-> g[r]], k # 45,
             Regular(g, k + 1, o), Special(l, c, k + 1, o)
      PROVE  CleanAt(Mach(s.pc + 4, g, l, c, s.mem), k + 1, o)
  <2>1. k + 1 \notin 46..49
    BY ONLY SMT, <1>8, k \in 30..45
  <2> QED  BY ONLY <1>1, <1>3, <1>7, <1>8, <2>1, CleanFields
<1>9. ASSUME NEW j \in 0..12, NEW r \in 0..12, r # 1,
             InstructionAt(k) = Ld(r, 128 + 8 * j), k # 45,
             \A g : g[r] = SavedValue(o, j) /\ (\A x \in Regs : x # r => g[x] = s.gpr[x]) => Regular(g, k + 1, o),
             Special(s.lr, s.ctr, k + 1, o)
      PROVE  CleanAt(Exec(s, InstructionAt(k), taken), k + 1, o)
  <2> DEFINE d == 128 + 8 * j
             v == SavedValue(o, j)
             g == [s.gpr EXCEPT ![r] = v]
  <2>1. d \in Int /\ -1024 < d /\ d < 1024 /\ d \in 0..256
    BY ONLY SMT, j \in 0..12
  <2>2. Frame + d = Slot(j)
    BY ONLY SMT, <1>5, j \in 0..12 DEF Slot
  <2>3. InstructionAt(k) = Ld(r, d)
    BY <1>9
  <2> HIDE DEF d
  <2>4. Exec(s, Ld(r, d), taken) = Mach(s.pc + 4, [s.gpr EXCEPT ![r] = Peek(s, Frame + d)], s.lr, s.ctr, s.mem)
    <3>1. Frame + d \in Address
      BY ONLY <1>5, <2>1
    <3>2. FrameMoves(s, Frame, r, d, taken)
      BY ONLY <1>1, <1>5, <1>6, <2>1, <3>1, FrameStep
    <3> QED  BY ONLY <3>2 DEF Ld, FrameMoves
  <2>5. Peek(s, Slot(j)) = v
    <3>1. k >= Pos(j)
      BY ONLY SMT, <1>3, j \in 0..12 DEF Pos
    <3>2. Slot(j) \in DOMAIN s.mem /\ s.mem[Slot(j)] = v
      BY ONLY <1>2, <3>1, j \in 0..12 DEF Stored
    <3> QED  BY ONLY <3>2 DEF Peek
  <2> HIDE DEF v
  <2>6. r \in Regs
    BY ONLY SMT, r \in 0..12 DEF Regs
  <2>7. g = [x \in Regs |-> g[x]] /\ g[r] = v /\ \A x \in Regs : x # r => g[x] = s.gpr[x]
    BY ONLY Zenon, <1>4, <2>6 DEF g
  <2> HIDE DEF g
  <2>8. Regular(g, k + 1, o)
    BY <1>9, <2>7 DEF v
  <2>9. CleanAt(Mach(s.pc + 4, g, s.lr, s.ctr, s.mem), k + 1, o)
    BY ONLY <1>8, <1>9, <2>7, <2>8
  <2> QED  BY ONLY <2>2, <2>3, <2>4, <2>5, <2>9 DEF g
<1>10. CASE k = 30
  <2>1. InstructionAt(k) = Ld(0, 128 + 8 * 1)
    BY <1>10, FrameWords
  <2>2. SavedValue(o, 1) = o.lr
    BY ONLY SMT DEF SavedValue
  <2>3. ASSUME NEW g, g[0] = SavedValue(o, 1), \A x \in Regs : x # 0 => g[x] = s.gpr[x]
        PROVE  Regular(g, k + 1, o)
    BY ONLY SMT, <1>2, <1>10, <2>2, <2>3 DEF Regular, Regs
  <2>4. Special(s.lr, s.ctr, k + 1, o)
    BY ONLY SMT, <1>10 DEF Special
  <2> DEFINE j == 1
             r == 0
  <2>5. /\ j \in 0..12 /\ r \in 0..12 /\ r # 1 /\ InstructionAt(k) = Ld(r, 128 + 8 * j) /\ k # 45
        /\ \A g : g[r] = SavedValue(o, j) /\ (\A x \in Regs : x # r => g[x] = s.gpr[x]) => Regular(g, k + 1, o)
    BY <1>10, <2>1, <2>3
  <2> HIDE DEF j, r
  <2> QED  BY ONLY <1>9, <2>4, <2>5
<1>11. CASE k = 32
  <2>1. InstructionAt(k) = Ld(0, 128 + 8 * 2)
    BY <1>11, FrameWords
  <2>2. SavedValue(o, 2) = o.ctr
    BY ONLY SMT DEF SavedValue
  <2>3. ASSUME NEW g, g[0] = SavedValue(o, 2), \A x \in Regs : x # 0 => g[x] = s.gpr[x]
        PROVE  Regular(g, k + 1, o)
    BY ONLY SMT, <1>2, <1>11, <2>2, <2>3 DEF Regular, Regs
  <2>4. Special(s.lr, s.ctr, k + 1, o)
    BY ONLY SMT, <1>2, <1>11 DEF Special
  <2> DEFINE j == 2
             r == 0
  <2>5. /\ j \in 0..12 /\ r \in 0..12 /\ r # 1 /\ InstructionAt(k) = Ld(r, 128 + 8 * j) /\ k # 45
        /\ \A g : g[r] = SavedValue(o, j) /\ (\A x \in Regs : x # r => g[x] = s.gpr[x]) => Regular(g, k + 1, o)
    BY <1>11, <2>1, <2>3
  <2> HIDE DEF j, r
  <2> QED  BY ONLY <1>9, <2>4, <2>5
<1>12. CASE k \in 34..43
  <2> DEFINE r == k - 31
  <2>1. r \in 3..12 /\ r \in 0..12 /\ r + 31 = k /\ r # 1 /\ r # 2 /\ k # 45
    BY ONLY SMT, <1>12
  <2> HIDE DEF r
  <2>2. InstructionAt(k) = Ld(r, 128 + 8 * r)
    BY <2>1, FrameWords
  <2>3. SavedValue(o, r) = o.gpr[r]
    BY ONLY <2>1 DEF SavedValue
  <2>4. ASSUME NEW g, g[r] = SavedValue(o, r), \A x \in Regs : x # r => g[x] = s.gpr[x]
        PROVE  Regular(g, k + 1, o)
    <3> DEFINE u == s.gpr
    <3>1. /\ u[1] = Reg(Frame) /\ (\A x \in 13..31 : u[x] = o.gpr[x])
          /\ \A x \in 3..12 : k >= x + 32 => u[x] = o.gpr[x]
      BY ONLY SMT, <1>2, <1>6, <1>12 DEF Regular
    <3> HIDE DEF u
    <3>2. \A x \in Regs : x # r => g[x] = u[x]
      BY <2>4 DEF u
    <3>3. g[1] = Reg(Frame) /\ \A x \in 13..31 : g[x] = o.gpr[x]
      BY ONLY SMT, <2>1, <3>1, <3>2 DEF Regs
    <3>4. ASSUME NEW x \in 3..12, k + 1 >= x + 32 PROVE g[x] = o.gpr[x]
      <4>1. CASE x = r
        BY ONLY <2>3, <2>4, <4>1
      <4>2. CASE x # r
        <5>1. k >= x + 32 /\ x \in Regs
          BY ONLY SMT, <1>12, <2>1, <3>4, <4>2 DEF Regs
        <5> QED  BY ONLY <3>1, <3>2, <4>2, <5>1, x \in 3..12
      <4> QED  BY <4>1, <4>2
    <3>5. k + 1 \in 1..45 /\ ~ (k + 1 <= 16) /\ ~ (k + 1 <= 2) /\ k + 1 # 3 /\ k + 1 # 5 /\ k + 1 # 31 /\ k + 1 # 33
      BY ONLY SMT, <1>12
    <3>6. CASE k + 1 < 45
      <4>1. ~ (k + 1 >= 45)
        BY ONLY SMT, <1>12, <3>6
      <4> QED  BY ONLY <3>3, <3>4, <3>5, <4>1 DEF Regular
    <3> QED  BY ONLY SMT, <1>12, <3>6
  <2>5. Special(s.lr, s.ctr, k + 1, o)
    BY ONLY SMT, <1>2, <1>12 DEF Special
  <2>6. \A g : g[r] = SavedValue(o, r) /\ (\A x \in Regs : x # r => g[x] = s.gpr[x]) => Regular(g, k + 1, o)
    BY <2>4
  <2> QED  BY ONLY <1>9, <2>1, <2>2, <2>5, <2>6
<1>13. CASE k = 44
  <2>1. InstructionAt(k) = Ld(0, 128 + 8 * 0)
    BY <1>13, FrameWords
  <2>2. SavedValue(o, 0) = o.gpr[0]
    BY ONLY SMT DEF SavedValue
  <2>3. ASSUME NEW g, g[0] = SavedValue(o, 0), \A x \in Regs : x # 0 => g[x] = s.gpr[x]
        PROVE  Regular(g, k + 1, o)
    BY ONLY SMT, <1>2, <1>13, <2>2, <2>3 DEF Regular, Regs
  <2>4. Special(s.lr, s.ctr, k + 1, o)
    BY ONLY SMT, <1>2, <1>13 DEF Special
  <2> DEFINE j == 0
             r == 0
  <2>5. /\ j \in 0..12 /\ r \in 0..12 /\ r # 1 /\ InstructionAt(k) = Ld(r, 128 + 8 * j) /\ k # 45
        /\ \A g : g[r] = SavedValue(o, j) /\ (\A x \in Regs : x # r => g[x] = s.gpr[x]) => Regular(g, k + 1, o)
    BY <1>13, <2>1, <2>3
  <2> HIDE DEF j, r
  <2> QED  BY ONLY <1>9, <2>4, <2>5
<1>14. CASE k \in {31, 33}
  <2> DEFINE n == IF k = 31 THEN 8 ELSE 9
             i == [op |-> "mtspr", t |-> 0, spr |-> n]
  <2>1. InstructionAt(k) = i
    <3>1. InstructionAt(31) = [op |-> "mtspr", t |-> 0, spr |-> 8] /\ InstructionAt(33) = [op |-> "mtspr", t |-> 0, spr |-> 9]
      BY FrameWords
    <3>2. CASE k = 31
      BY ONLY <3>1, <3>2
    <3>3. CASE k = 33
      <4>1. n = 9
        BY ONLY SMT, <3>3
      <4> HIDE DEF n
      <4> QED  BY ONLY <3>1, <3>3, <4>1
    <3> QED  BY <1>14, <3>2, <3>3
  <2>2. i.op = "mtspr" /\ i.t = 0 /\ i.spr = n
    OBVIOUS
  <2>3. /\ k = 31 => n = 8 /\ s.gpr[0] = o.lr
        /\ k = 33 => n = 9 /\ s.gpr[0] = o.ctr
    BY ONLY SMT, <1>2 DEF Regular
  <2> HIDE DEF i, n
  <2> DEFINE l == IF n = 8 THEN s.gpr[0] ELSE s.lr
             c == IF n = 9 THEN s.gpr[0] ELSE s.ctr
  <2>4. Exec(s, i, taken) = Mach(s.pc + 4, s.gpr, l, c, s.mem)
    <3>1. Exec(s, i, taken) = Mach(s.pc + 4, s.gpr, IF i.spr = 8 THEN s.gpr[i.t] ELSE s.lr,
                                   IF i.spr = 9 THEN s.gpr[i.t] ELSE s.ctr, s.mem)
      BY ONLY <1>1, <2>2, ExecOthers
    <3> QED  BY ONLY <2>2, <3>1
  <2>5. Special(l, c, k + 1, o)
    <3>1. CASE k = 31
      BY ONLY SMT, <2>3, <3>1 DEF Special
    <3>2. CASE k = 33
      <4>1. s.lr = o.lr
        BY ONLY SMT, <1>2, <3>2 DEF Special
      <4> QED  BY ONLY SMT, <2>3, <3>2, <4>1 DEF Special
    <3> QED  BY <1>14, <3>1, <3>2
  <2>6. Regular(s.gpr, k + 1, o)
    BY ONLY SMT, <1>2, <1>14 DEF Regular
  <2>7. k # 45
    BY ONLY SMT, <1>14
  <2> HIDE DEF l, c
  <2>8. CleanAt(Mach(s.pc + 4, s.gpr, l, c, s.mem), k + 1, o)
    BY ONLY <1>4, <1>8, <2>5, <2>6, <2>7
  <2> QED  BY ONLY <2>1, <2>4, <2>8
<1>15. CASE k = 45
  <2> DEFINE d == 256
             i == [op |-> "addi", t |-> 1, a |-> 1, imm |-> d]
             g == [s.gpr EXCEPT ![1] = Reg(StackTop)]
  <2>1. InstructionAt(k) = i
    BY <1>15, FrameWords
  <2>2. d \in Int /\ -1024 < d /\ d < 1024 /\ Frame + d = StackTop /\ Frame + d \in Address
    <3>1. StackTop \in Address
      BY FrameFits
    <3> QED  BY ONLY SMT, <1>5, <3>1
  <2> HIDE DEF d
  <2>3. Exec(s, i, taken) = Mach(s.pc + 4, [s.gpr EXCEPT ![1] = Reg(Frame + d)], s.lr, s.ctr, s.mem)
    <3>1. FrameMoves(s, Frame, 1, d, taken)
      BY ONLY <1>1, <1>5, <1>6, <2>2, FrameStep
    <3> QED  BY ONLY <3>1 DEF FrameMoves
  <2>4. g = [r \in Regs |-> g[r]] /\ g[1] = Reg(StackTop) /\ \A r \in Regs : r # 1 => g[r] = s.gpr[r]
    <3>1. 1 \in Regs
      BY ONLY SMT DEF Regs
    <3> DEFINE v == Reg(StackTop)
    <3> HIDE DEF v
    <3>2. [s.gpr EXCEPT ![1] = v] = [r \in Regs |-> [s.gpr EXCEPT ![1] = v][r]] /\ [s.gpr EXCEPT ![1] = v][1] = v
          /\ \A r \in Regs : r # 1 => [s.gpr EXCEPT ![1] = v][r] = s.gpr[r]
      BY ONLY Zenon, <1>4, <3>1
    <3> QED  BY ONLY <3>2 DEF v, g
  <2> HIDE DEF g, i
  <2>5. Regular(g, k + 1, o) /\ Special(s.lr, s.ctr, k + 1, o)
    BY ONLY SMT, <1>2, <1>15, <2>4 DEF Regular, Special, Regs
  <2> DEFINE t == Mach(s.pc + 4, g, s.lr, s.ctr, s.mem)
  <2>6. /\ t.pc = s.pc + 4 /\ t.gpr = g /\ t.lr = s.lr /\ t.ctr = s.ctr /\ t.mem = s.mem /\ Machine(t)
    BY <2>4, MachFields
  <2> HIDE DEF t
  <2>7. t.pc = CodeBase + 4 * (k + 1)
    BY ONLY SMT, <1>1, <1>3, <2>6
  <2>8. InReg(t, 2, scene.toc, (k + 1) - 46)
    <3>1. (k + 1) - 46 = 0
      BY ONLY SMT, <1>15
    <3> QED  BY ONLY SMT, <3>1 DEF InReg
  <2>9. CleanAt(t, k + 1, o)
    BY ONLY <1>7, <2>5, <2>6, <2>7, <2>8 DEF CleanAt, Clean
  <2> QED  BY ONLY <2>1, <2>2, <2>3, <2>9 DEF t, g
<1>16. k \in {30} \cup {32} \cup 34..43 \cup {44} \cup {31, 33} \cup {45}
  BY ONLY SMT, k \in 30..45
<1> QED  BY <1>10, <1>11, <1>12, <1>13, <1>14, <1>15, <1>16

\* And the TOC is loaded.
LEMMA TocNext ==
  ASSUME scene \in Scenes, Low(scene), LowToc(scene), Built,
         NEW s, NEW k \in 46..48, NEW o, CleanAt(s, k, o), NEW taken
  PROVE  CleanAt(Exec(s, InstructionAt(k), taken), k + 1, o)
<1>1. Machine(s) /\ s.pc = CodeBase + 4 * k /\ Clean(s, k, o) /\ CodeBase \in Nat
  BY CodeBaseNat DEF CleanAt
<1> DEFINE j == k - 46
           w == loadImmediate32(2, scene.toc)[j + 1]
           t == Exec(s, Decode(w), taken)
<1>2. /\ j \in 0..2 /\ k - 45 \in 1..3 /\ k - 45 = j + 1 /\ 45 + (k - 45) = k /\ (k + 1) - 46 = j + 1
      /\ k \in 46..49 /\ k + 1 \in 46..49 /\ k \in Nat
  BY ONLY SMT, k \in 46..48
<1>3. /\ Regular(s.gpr, k, o) /\ Special(s.lr, s.ctr, k, o) /\ Stored(s.mem, k, o) /\ InReg(s, 2, scene.toc, j)
  BY <1>1, <1>2 DEF Clean
<1>4. InstructionAt(k) = Decode(w)
  <2>1. Fetch(CodeBase + 4 * (45 + (k - 45))) = loadImmediate32(2, scene.toc)[k - 45]
    BY <1>2, FetchRest
  <2> QED  BY <1>2, <2>1 DEF InstructionAt
<1>5. \E x : Sets(s, t, 2, x) /\ InReg(t, 2, scene.toc, j + 1)
  <2>1. 2 \in Five /\ scene.toc \in Address /\ scene.toc < AddrMod \div 2
    <3>1. 2 \in Five
      BY SMT DEF Five
    <3> QED  BY <3>1, JobTypes DEF LowToc
  <2>2. w = loadImmediate32(2, scene.toc)[j + 1]
    OBVIOUS
  <2> HIDE DEF j, w
  <2> QED  BY ONLY <1>1, <1>2, <1>3, <2>1, <2>2, ImmediateStep
<1> HIDE DEF j, w, t
<1>6. /\ Machine(t) /\ t.pc = s.pc + 4 /\ \A r \in Regs \ {2} : t.gpr[r] = s.gpr[r]
      /\ t.lr = s.lr /\ t.ctr = s.ctr /\ t.mem = s.mem
  BY ONLY <1>5 DEF Sets
<1>7. Regular(t.gpr, k + 1, o)
  <2> DEFINE g == t.gpr
             u == s.gpr
  <2>1. \A r \in Regs \ {2} : g[r] = u[r]
    BY <1>6
  <2>2. Regular(u, k, o)
    BY <1>3
  <2> HIDE DEF g, u
  <2>3. Regular(g, k + 1, o)
    BY ONLY SMT, <2>1, <2>2, k \in 46..48 DEF Regular, Regs
  <2> QED  BY <2>3 DEF g
<1>8. Special(t.lr, t.ctr, k + 1, o)
  BY ONLY SMT, <1>3, <1>6, k \in 46..48 DEF Special
<1>9. Stored(t.mem, k + 1, o)
  <2>1. \A x \in 0..12 : Pos(x) # k + 1
    BY ONLY SMT, k \in 46..48 DEF Pos
  <2> QED  BY ONLY <1>2, <1>3, <1>6, <2>1, StoredOn
<1>10. t.pc = CodeBase + 4 * (k + 1)
  BY ONLY SMT, <1>1, <1>2, <1>6
<1>11. CleanAt(t, k + 1, o)
  BY ONLY <1>2, <1>5, <1>6, <1>7, <1>8, <1>9, <1>10 DEF CleanAt, Clean
<1> QED  BY ONLY <1>4, <1>11 DEF t

\* What the instructions do to memory.
LEMMA ExecMem ==
  ASSUME NEW s, Machine(s), NEW i, i.op \in Executed, NEW taken
  PROVE  /\ i.op \notin {"std", "stdu"} => Exec(s, i, taken).mem = s.mem
         /\ i.op \in {"std", "stdu"} =>
              Exec(s, i, taken).mem = Written(s.mem, {AddrOf(Ea(s, i))}, s.gpr[i.t])
<1> DEFINE t == Exec(s, i, taken)
           put == Written(s.mem, {AddrOf(Ea(s, i))}, s.gpr[i.t])
<1>1. CASE i.op \in SetsOne
  <2>1. SetSome(s, t, i.t)
    BY ONLY Machine(s), <1>1, ExecSets
  <2>2. PICK v : t = Mach(s.pc + 4, [s.gpr EXCEPT ![i.t] = v], s.lr, s.ctr, s.mem)
    BY <2>1 DEF SetSome
  <2> HIDE DEF t
  <2>3. t.mem = s.mem
    BY ONLY <2>2, MachFields
  <2>4. i.op \notin {"std", "stdu"}
    BY ONLY <1>1 DEF SetsOne
  <2> QED  BY <2>3, <2>4 DEF t
<1>2. CASE i.op \in Branches
  <2>1. \E p \in {s.pc + 4, Target(s, i)} : \E l, c : t = Mach(p, s.gpr, l, c, s.mem)
    BY ONLY Machine(s), <1>2, ExecOthers
  <2>2. PICK p, l, c : t = Mach(p, s.gpr, l, c, s.mem)
    BY <2>1
  <2> HIDE DEF t
  <2>3. t.mem = s.mem
    BY ONLY <2>2, MachFields
  <2>4. i.op \notin {"std", "stdu"}
    BY ONLY <1>2 DEF Branches
  <2> QED  BY <2>3, <2>4 DEF t
<1>3. CASE i.op = "mtspr"
  <2>1. SetNone(s, t) /\ t = Mach(s.pc + 4, s.gpr, IF i.spr = 8 THEN s.gpr[i.t] ELSE s.lr,
                                  IF i.spr = 9 THEN s.gpr[i.t] ELSE s.ctr, s.mem)
    BY ONLY Machine(s), <1>3, ExecOthers DEF SetsNone
  <2> DEFINE l == IF i.spr = 8 THEN s.gpr[i.t] ELSE s.lr
             c == IF i.spr = 9 THEN s.gpr[i.t] ELSE s.ctr
  <2>2. t = Mach(s.pc + 4, s.gpr, l, c, s.mem)
    BY <2>1
  <2> HIDE DEF t, l, c
  <2>3. t.mem = s.mem
    BY ONLY <2>2, MachFields
  <2>4. i.op \notin {"std", "stdu"}
    BY ONLY <1>3
  <2> QED  BY <2>3, <2>4 DEF t
<1>4. CASE i.op \in {"std", "stdu"}
  <2>1. \E g : t = Mach(s.pc + 4, g, s.lr, s.ctr, put)
    BY ONLY Machine(s), <1>4, ExecOthers
  <2>2. PICK g : t = Mach(s.pc + 4, g, s.lr, s.ctr, put)
    BY <2>1
  <2> HIDE DEF t, put
  <2>3. t.mem = put
    BY ONLY <2>2, MachFields
  <2> QED  BY <1>4, <2>3 DEF t, put
<1>5. i.op \in SetsOne \cup Branches \cup {"mtspr"} \cup {"std", "stdu"}
  BY i.op \in Executed DEF Executed, SetsOne
<1> QED  BY <1>1, <1>2, <1>3, <1>4, <1>5

-----------------------------------------------------------------------------
(***************************************************************************)
(* The trampoline gives back what it took.                                 *)
(***************************************************************************)

\* The registers the game is started with.
Entry == G!Start(scene, Junk)

\* On the way in nothing but r12 and CTR is lost, and in the injected code what
\* was saved is kept until it is loaded again; memory holds what the injected code
\* and the kernel wrote, and nothing else.
KeptIn(s, D) ==
  /\ s.pc \in Window => Machine(s) /\ Spared(Entry, s, Displaced)
  /\ s.pc \in Prefix =>
       \E k \in 0..48 : \E o : Spared(Entry, o, Displaced) /\ CleanAt(s, k, o) /\ DOMAIN s.mem \subseteq D

Kept == status = "running" => KeptIn(cpu, dead)

\* What the trampoline hands over.
HandedOver(s, D) ==
  \E o : Spared(Entry, o, Displaced) /\ CleanAt(s, 49, o) /\ DOMAIN s.mem \subseteq D

\* The words of the injected code that do not make a system call.
LEMMA OneOfPrefix ==
  ASSUME scene \in Scenes, Low(scene), LowToc(scene), Built, NEW s, NEW k \in 0..48, NEW o, CleanAt(s, k, o),
         InstructionAt(k).op # "sc", NEW taken
  PROVE  CleanAt(Exec(s, InstructionAt(k), taken), k + 1, o)
<1>1. CASE k \in 0..15
  BY <1>1, EnterNext
<1>2. CASE k \in 16..28 /\ k # 22
  BY <1>2, ArgsNext
<1>3. CASE k \in {22, 29}
  <2>1. InstructionAt(22) = [op |-> "sc"] /\ InstructionAt(29) = [op |-> "sc"]
    BY FetchLoad, FetchStart DEF InstructionAt
  <2>2. InstructionAt(k) = [op |-> "sc"]
    BY ONLY <1>3, <2>1
  <2>3. InstructionAt(k).op = "sc"
    BY ONLY <2>2
  <2> QED  BY <2>3
<1>4. CASE k \in 30..45
  BY <1>4, LeaveNext
<1>5. CASE k \in 46..48
  BY <1>5, TocNext
<1>6. k \in 0..15 \/ (k \in 16..28 /\ k # 22) \/ k \in {22, 29} \/ k \in 30..45 \/ k \in 46..48
  BY ONLY SMT, k \in 0..48
<1> QED  BY <1>1, <1>2, <1>3, <1>4, <1>5, <1>6

\* Only two of them do.
LEMMA CallWords ==
  ASSUME scene \in Scenes, Low(scene), Built, NEW k \in 0..48, InstructionAt(k).op = "sc"
  PROVE  k \in {22, 29}
<1>1. CASE k \in 0..15
  <2>1. k \in 0..29 /\ k < 16 /\ k + 1 \in 1..16
    BY ONLY SMT, <1>1
  <2>2. Fetch(CodeBase + 4 * k) = buildPrologue[k + 1]
    BY <2>1, FetchCode
  <2>3. Decode(buildPrologue[k + 1]).op # "sc"
    BY <2>1, PrologueOps
  <2> QED  BY <2>2, <2>3 DEF InstructionAt
<1>2. CASE k \in 16..28 /\ k # 22
  BY <1>2, ArgsWords DEF SetsOne
<1>3. CASE k \in 30..48
  BY <1>3, RestoreOps DEF InstructionAt
<1>4. k \in 0..15 \/ (k \in 16..28 /\ k # 22) \/ k \in {22, 29} \/ k \in 30..48
  BY ONLY SMT, k \in 0..48
<1> QED  BY <1>1, <1>2, <1>3, <1>4

\* The prefix begins with a clean state.
LEMMA CleanEntry ==
  ASSUME scene \in Scenes, Low(scene), Built, NEW s, Machine(s), s.pc = CodeBase, Spared(Entry, s, Displaced)
  PROVE  CleanAt(s, 0, s) /\ DOMAIN s.mem = {}
<1> DEFINE g == G!EntryRegs(Junk)
<1>1. Entry = [pc |-> scene.code, gpr |-> g, lr |-> Reg(4), ctr |-> << 8, 8, 8, 8 >>, mem |-> << >>]
  BY DEF Entry, G!Start
<1>2. g[1] = Reg(StackTop)
  <2>1. 1 \in Regs
    BY SMT DEF Regs
  <2> QED  BY <2>1 DEF G!EntryRegs, Regs, Reg
<1> HIDE DEF g
<1>3. Entry.gpr = g /\ Entry.mem = << >>
  BY ONLY <1>1
<1>4. s.gpr[1] = Reg(StackTop) /\ s.mem = << >>
  <2>1. 1 \in Regs \ {12}
    BY SMT DEF Regs
  <2> QED  BY <1>2, <1>3, <2>1 DEF Spared
<1>5. DOMAIN s.mem = {}
  <2>1. DOMAIN << >> = {}
    OBVIOUS
  <2> QED  BY <1>4, <2>1
<1>6. Regular(s.gpr, 0, s)
  BY ONLY SMT, <1>4 DEF Regular
<1>7. Special(s.lr, s.ctr, 0, s)
  BY ONLY SMT DEF Special
<1>8. Stored(s.mem, 0, s)
  <2>1. \A j \in 0..12 : ~ (0 >= Pos(j))
    BY ONLY SMT DEF Pos
  <2> QED  BY ONLY <2>1 DEF Stored
<1>9. CodeBase + 4 * 0 = CodeBase
  <2>1. CodeBase \in Nat
    BY CodeBaseNat
  <2> QED  BY ONLY SMT, <2>1
<1>10. 0 \notin 46..49
  BY ONLY SMT
<1> QED  BY <1>5, <1>6, <1>7, <1>8, <1>9, <1>10 DEF CleanAt, Clean

\* One jump after another.
LEMMA SparedTwice ==
  ASSUME NEW s, NEW t, NEW u, NEW n, Spared(s, t, n), Spared(t, u, n)
  PROVE  Spared(s, u, n)
BY DEF Spared

\* Where the processor is on the way.
LEMMA PrefixPlace ==
  ASSUME scene \in Scenes, Low(scene), Built, NEW p, NEW k \in 0..49, p = CodeBase + 4 * k
  PROVE  /\ p \notin Window /\ (k <= 48 => p \in Prefix) /\ (k = 49 => p \notin Prefix /\ p = Resume)
         /\ \A j \in 0..49 : p = CodeBase + 4 * j => k = j
<1> DEFINE T == scene.trampolineAddr
           c == scene.code
           d == Displaced
           n == Len(scene.text)
<1>1. /\ T \in Nat /\ c \in Nat /\ n \in Nat /\ d \in {1, 5} /\ d <= n /\ c + 4 * n <= T
      /\ CodeBase = T + 8 /\ Resume = T + 204
      /\ Window = c .. (c + 4 * d - 1)
      /\ Prefix = (T + 8) .. (T + 203)
  BY Places
<1> HIDE DEF T, c, d, n
<1>2. p \in Int /\ p = T + 8 + 4 * k /\ k \in Int /\ c + 4 * d <= T
  BY ONLY SMT, <1>1, p = CodeBase + 4 * k, k \in 0..49
<1>3. p \notin c .. (c + 4 * d - 1)
  BY ONLY SMT, <1>1, <1>2, k \in 0..49
<1>4. (k <= 48 => p \in (T + 8) .. (T + 203)) /\ (k = 49 => p \notin (T + 8) .. (T + 203) /\ p = T + 204)
  BY ONLY SMT, <1>1, <1>2, k \in 0..49
<1>5. \A j \in 0..49 : p = CodeBase + 4 * j => k = j
  BY ONLY SMT, <1>1, <1>2, k \in 0..49
<1> QED  BY ONLY <1>1, <1>3, <1>4, <1>5

\* After the hand-over the processor is not back.
LEMMA GamePlace ==
  ASSUME scene \in Scenes, Low(scene), Built, NEW s,
         (\E j \in 0..4 : OnMoved(s, j) \/ InBack(s, j)) \/ Outside(s)
  PROVE  s.pc \notin Window \cup Prefix
<1> DEFINE T == scene.trampolineAddr
           c == scene.code
           d == Displaced
           b == Len(Back)
           n == Len(scene.text)
           p == s.pc
<1>1. /\ T \in Nat /\ c \in Nat /\ n \in Nat /\ d \in {1, 5} /\ d <= n /\ c + 4 * n <= T /\ b \in {1, 5}
      /\ Resume = T + 204 /\ PathAt = T + 204 + 4 * (d + b)
      /\ Window = c .. (c + 4 * d - 1)
      /\ Prefix = (T + 8) .. (T + 203)
      /\ \E z \in Nat : z > PathAt /\ BlobCode = (T + 8) .. (z - 1)
  BY Places
<1>2. CASE Outside(s)
  <2>1. p \notin BlobCode /\ p \notin Window
    BY <1>2 DEF Outside
  <2>2. PICK z \in Nat : z > PathAt /\ BlobCode = (T + 8) .. (z - 1)
    BY <1>1
  <2>3. Prefix \subseteq BlobCode
    <3> HIDE DEF T, c, d, b, n
    <3>1. z - 1 >= T + 203 /\ z - 1 \in Int
      BY ONLY SMT, <1>1, <2>2
    <3> QED  BY ONLY SMT, <1>1, <2>2, <3>1
  <2> QED  BY <2>1, <2>3
<1>3. ASSUME NEW j \in 0..4, OnMoved(s, j) \/ InBack(s, j) PROVE p \notin Window \cup Prefix
  <2>1. p = Resume + 4 * j \/ p = Resume + 4 * d + 4 * j
    BY <1>3 DEF OnMoved, InBack, Leap
  <2> HIDE DEF T, c, d, b, n, p
  <2>2. p \in Int /\ p >= T + 204
    BY ONLY SMT, <1>1, <2>1, j \in 0..4
  <2>3. p \notin (T + 8) .. (T + 203)
    BY ONLY SMT, <1>1, <2>2
  <2>4. p \notin c .. (c + 4 * d - 1)
    BY ONLY SMT, <1>1, <2>2
  <2> QED  BY ONLY <1>1, <2>3, <2>4
<1> QED  BY <1>2, <1>3

\* Where the processor is, once the program runs: at the jump, in the prefix, or
\* behind the hand-over.
LEMMA Whereabouts ==
  ASSUME Booted, Course, status = "running"
  PROVE  /\ Machine(cpu)
         /\ cpu.pc \in Window => Len(calls) = 0 /\ \E j \in 0..4 : InJump(cpu, j)
         /\ cpu.pc \notin Window \cup Prefix =>
              (\E j \in 0..4 : OnMoved(cpu, j) \/ InBack(cpu, j)) \/ Outside(cpu)
<1>1. scene \in Scenes /\ Low(scene) /\ Built /\ Passage /\ \E S : calls \in Seq(S)
  BY DEF Booted, Loaded
<1>2. ASSUME NEW k \in 0..48, cpu.pc = CodeBase + 4 * k
      PROVE  cpu.pc \notin Window /\ cpu.pc \in Prefix
  <2>1. k \in 0..49 /\ k <= 48
    BY ONLY SMT, k \in 0..48
  <2> QED  BY <1>1, <1>2, <2>1, PrefixPlace
<1>3. ASSUME NEW j, InJump(cpu, j) PROVE cpu.pc \in Window
  BY <1>1, <1>3, FetchJump DEF InJump, Leap
<1>4. CASE Len(calls) = 0
  <2>1. Machine(cpu) /\ ((\E j \in 0..4 : InJump(cpu, j)) \/ (\E k \in 0..22 : BeforeLoad(cpu, k)))
    BY <1>1, <1>4 DEF Passage
  <2>2. ASSUME NEW k \in 0..22, BeforeLoad(cpu, k) PROVE cpu.pc \notin Window /\ cpu.pc \in Prefix
    <3>1. k \in 0..48 /\ cpu.pc = CodeBase + 4 * k
      BY <2>2 DEF BeforeLoad
    <3> QED  BY ONLY <1>2, <3>1
  <2> QED  BY <1>3, <1>4, <2>1, <2>2
<1>5. CASE Len(calls) = 1
  <2>1. Machine(cpu) /\ \E k \in 23..29 : BeforeStart(cpu, k, calls[1].answer)
    BY <1>1, <1>5 DEF Passage
  <2>2. ASSUME NEW k \in 23..29, BeforeStart(cpu, k, calls[1].answer) PROVE cpu.pc \notin Window /\ cpu.pc \in Prefix
    <3>1. k \in 0..48 /\ cpu.pc = CodeBase + 4 * k
      BY <2>2 DEF BeforeStart
    <3> QED  BY ONLY <1>2, <3>1
  <2> QED  BY <2>1, <2>2
<1>6. CASE Len(calls) \notin {0, 1}
  <2>1. /\ Machine(cpu)
        /\ \/ \E k \in 30..48 : Restoring(cpu, k)
           \/ (\E j \in 0..4 : OnMoved(cpu, j) \/ InBack(cpu, j)) \/ Outside(cpu)
    BY <1>6 DEF Course
  <2>2. ASSUME NEW k \in 30..48, Restoring(cpu, k) PROVE cpu.pc \notin Window /\ cpu.pc \in Prefix
    <3>1. k \in 0..48 /\ cpu.pc = CodeBase + 4 * k
      BY <2>2 DEF Restoring
    <3> QED  BY ONLY <1>2, <3>1
  <2>3. (\E j \in 0..4 : OnMoved(cpu, j) \/ InBack(cpu, j)) \/ Outside(cpu) => cpu.pc \notin Window \cup Prefix
    BY <1>1, GamePlace
  <2> QED  BY <2>1, <2>2, <2>3
<1> QED  BY <1>4, <1>5, <1>6

\* The same about the next state, in the places of this one.
LEMMA SameKept ==
  ASSUME scene' = scene, image' = image
  PROVE  /\ KeptIn(cpu, dead)' <=> KeptIn(cpu', dead')
         /\ HandedOver(cpu, dead)' <=> HandedOver(cpu', dead')
         /\ Displaced' = Displaced /\ Entry' = Entry
<1>1. CodeBase' = CodeBase /\ Displaced' = Displaced /\ Entry' = Entry /\ Window' = Window /\ Prefix' = Prefix
  BY SamePlaces DEF CodeBase, Displaced, Entry, G!Start
<1> QED  BY <1>1 DEF KeptIn, HandedOver, CleanAt, Clean

LEMMA InitKept == Init => Kept
BY DEF Init, Kept

\* Nothing has happened when the program is loaded.
LEMMA PatchKept == ASSUME Booted, Patch PROVE Kept'
<1>1. Passage /\ status = "idle" /\ cpu' = cpu /\ scene' = scene /\ Loaded' /\ Low(scene) /\ scene \in Scenes
  BY PatchLoaded DEF Booted, Loaded
<1>2. cpu = Entry
  BY <1>1 DEF Passage, Entry
<1>3. SUFFICES ASSUME status' = "running" PROVE KeptIn(cpu, dead)'
  BY DEF Kept
<1>4. Prefix' = Prefix /\ Displaced' = Displaced /\ Entry' = Entry
  BY <1>1 DEF Prefix, Resume, Displaced, CodeBase, Entry, G!Start
<1>5. Checked
  <2>1. Checked'
    BY <1>1, <1>3 DEF Loaded, Built
  <2> QED  BY <1>1, <1>4, <2>1 DEF Checked
<1>6. Machine(cpu') /\ Spared(Entry', cpu', Displaced')
  <2>1. Machine(Entry)
    BY <1>1, AtEntry DEF Entry
  <2>2. Spared(Entry, Entry, Displaced)
    BY DEF Spared
  <2> QED  BY ONLY <1>1, <1>2, <1>4, <2>1, <2>2
<1>7. cpu.pc \notin Prefix
  <2> DEFINE T == scene.trampolineAddr
             c == scene.code
             d == Displaced
  <2>1. T \in Nat /\ c \in Nat /\ d \in {1, 5} /\ CodeBase = T + 8 /\ c + 4 * d <= T
    BY <1>1, <1>5, LowAddresses
  <2>2. cpu.pc = c
    <3> DEFINE g == G!EntryRegs(Junk)
    <3>1. Entry = [pc |-> scene.code, gpr |-> g, lr |-> Reg(4), ctr |-> << 8, 8, 8, 8 >>, mem |-> << >>]
      BY DEF Entry, G!Start
    <3> HIDE DEF g
    <3> QED  BY ONLY <1>2, <3>1
  <2> HIDE DEF T, c, d
  <2>3. c \notin CodeBase .. (Resume - 1)
    <3>1. CodeBase > c /\ CodeBase \in Int
      BY ONLY SMT, <2>1
    <3> DEFINE x == CodeBase
               y == Resume - 1
    <3>2. c \in Int /\ x > c /\ x \in Int
      BY <2>1, <3>1
    <3> HIDE DEF x, y
    <3>3. c \notin x .. y
      BY ONLY SMT, <3>2
    <3> QED  BY ONLY <3>3 DEF x, y
  <2> QED  BY <2>2, <2>3 DEF Prefix
<1> QED  BY <1>1, <1>4, <1>6, <1>7 DEF KeptIn

\* The entry point is not in the injected code.
LEMMA WindowApart ==
  ASSUME scene \in Scenes, Low(scene), Built, NEW p \in Window
  PROVE  p \notin Prefix
<1> DEFINE T == scene.trampolineAddr
           c == scene.code
           d == Displaced
           n == Len(scene.text)
<1>1. /\ T \in Nat /\ c \in Nat /\ n \in Nat /\ d \in {1, 5} /\ d <= n /\ c + 4 * n <= T
      /\ Window = c .. (c + 4 * d - 1)
      /\ Prefix = (T + 8) .. (T + 203)
  BY Places
<1> HIDE DEF T, c, d, n
<1>2. p \in Int /\ p < T
  BY ONLY SMT, <1>1, p \in Window
<1> QED  BY ONLY SMT, <1>1, <1>2

\* One instruction.
LEMMA ExecuteKept ==
  ASSUME Booted, Course, Kept, LowToc(scene), StaysOut, Execute
  PROVE  /\ KeptIn(cpu', dead')
         /\ cpu.pc \in Prefix /\ cpu'.pc \notin Prefix => HandedOver(cpu', dead') /\ cpu'.pc = Resume
         /\ cpu.pc \in Window => cpu'.pc \in Window \cup Prefix
<1> DEFINE i == Decode(Fetch(cpu.pc))
<1>1. /\ status = "running" /\ i.op \in Executed
      /\ \E taken \in BOOLEAN : cpu' = Exec(cpu, i, taken)
      /\ dead' = IF i.op \notin {"std", "stdu"} THEN dead
                 ELSE IF cpu.pc \in Prefix THEN dead \cup {AddrOf(Ea(cpu, i))}
                 ELSE dead \ {AddrOf(Ea(cpu, i))}
  BY DEF Execute
<1>2. PICK taken \in BOOLEAN : cpu' = Exec(cpu, i, taken)
  BY <1>1
<1>3. Low(scene) /\ scene \in Scenes /\ Built
  BY <1>1 DEF Booted, Loaded
<1>4. /\ Machine(cpu)
      /\ cpu.pc \in Window => \E j \in 0..4 : InJump(cpu, j)
      /\ cpu.pc \notin Window \cup Prefix => (\E j \in 0..4 : OnMoved(cpu, j) \/ InBack(cpu, j)) \/ Outside(cpu)
  BY <1>1, Whereabouts
<1>5. KeptIn(cpu, dead)
  BY <1>1 DEF Kept
<1>6. CASE cpu.pc \in Window
  <2>1. PICK j \in 0..4 : InJump(cpu, j)
    BY <1>4, <1>6
  <2>2. /\ Machine(cpu') /\ Spared(cpu, cpu', Displaced)
        /\ InJump(cpu', j + 1) \/ BeforeLoad(cpu', 0)
    BY <1>2, <1>3, <1>4, <2>1, JumpNext
  <2>3. Spared(Entry, cpu', Displaced)
    <3>1. Spared(Entry, cpu, Displaced)
      BY <1>5, <1>6 DEF KeptIn
    <3> QED  BY <2>2, <3>1, SparedTwice
  <2>4. cpu.pc \notin Prefix
    BY <1>3, <1>6, WindowApart
  <2>5. CASE InJump(cpu', j + 1)
    <3>1. cpu'.pc \in Window
      BY <1>3, <2>5, FetchJump DEF InJump, Leap
    <3>2. cpu'.pc \notin Prefix
      BY <1>3, <3>1, WindowApart
    <3> QED  BY <2>2, <2>3, <2>4, <3>1, <3>2 DEF KeptIn
  <2>6. CASE BeforeLoad(cpu', 0)
    <3>1. cpu'.pc = CodeBase
      <4>1. cpu'.pc = CodeBase + 4 * 0 /\ CodeBase \in Nat
        BY <1>3, <2>6, CodeBaseNat DEF BeforeLoad
      <4> QED  BY ONLY SMT, <4>1
    <3>2. CleanAt(cpu', 0, cpu') /\ DOMAIN cpu'.mem = {}
      BY <1>3, <2>2, <2>3, <3>1, CleanEntry
    <3>3. cpu'.pc \notin Window /\ cpu'.pc \in Prefix
      <4>1. cpu'.pc = CodeBase + 4 * 0 /\ 0 \in 0..49 /\ 0 <= 48
        BY <2>6 DEF BeforeLoad
      <4> QED  BY <1>3, <4>1, PrefixPlace
    <3>4. 0 \in 0..48
      BY ONLY SMT
    <3> QED  BY <2>3, <2>4, <3>2, <3>3, <3>4 DEF KeptIn
  <2> QED  BY <2>2, <2>5, <2>6
<1>7. CASE cpu.pc \in Prefix
  <2>1. PICK k \in 0..48 : \E o : Spared(Entry, o, Displaced) /\ CleanAt(cpu, k, o) /\ DOMAIN cpu.mem \subseteq dead
    BY <1>5, <1>7 DEF KeptIn
  <2>2. PICK o : Spared(Entry, o, Displaced) /\ CleanAt(cpu, k, o) /\ DOMAIN cpu.mem \subseteq dead
    BY <2>1
  <2>3. cpu.pc = CodeBase + 4 * k
    BY <2>2 DEF CleanAt
  <2>4. i = InstructionAt(k)
    BY <2>3 DEF InstructionAt
  <2>5. i.op # "sc"
    BY <1>1 DEF Executed, Branches
  <2>6. CleanAt(cpu', k + 1, o)
    <3> HIDE DEF i
    <3> QED  BY <1>2, <1>3, <2>2, <2>4, <2>5, OneOfPrefix
  <2>7. DOMAIN cpu'.mem \subseteq dead'
    <3> HIDE DEF i
    <3>1. CASE i.op \notin {"std", "stdu"}
      <4>1. cpu'.mem = cpu.mem
        BY <1>1, <1>2, <1>4, <3>1, ExecMem
      <4> QED  BY <1>1, <2>2, <3>1, <4>1
    <3>2. CASE i.op \in {"std", "stdu"}
      <4> DEFINE a == AddrOf(Ea(cpu, i))
                 v == cpu.gpr[i.t]
      <4>1. cpu'.mem = Written(cpu.mem, {a}, v)
        BY <1>1, <1>2, <1>4, <3>2, ExecMem
      <4>2. dead' = dead \cup {a}
        BY <1>1, <1>7, <3>2
      <4> HIDE DEF a, v
      <4>3. DOMAIN Written(cpu.mem, {a}, v) = {a} \cup DOMAIN cpu.mem
        BY Zenon DEF Written
      <4> QED  BY ONLY <2>2, <4>1, <4>2, <4>3
    <3> QED  BY <3>1, <3>2
  <2>8. k + 1 \in 0..49 /\ (k # 48 => k + 1 \in 0..48 /\ k + 1 <= 48) /\ (k = 48 => k + 1 = 49)
    BY ONLY SMT, k \in 0..48
  <2>9. cpu'.pc = CodeBase + 4 * (k + 1)
    BY <2>6 DEF CleanAt
  <2>10. /\ cpu'.pc \notin Window
         /\ (k # 48 => cpu'.pc \in Prefix) /\ (k = 48 => cpu'.pc \notin Prefix /\ cpu'.pc = Resume)
    BY <1>3, <2>8, <2>9, PrefixPlace
  <2>11. cpu.pc \notin Window
    BY <1>3, <1>7, WindowApart
  <2>12. CASE k # 48
    BY <2>2, <2>6, <2>7, <2>8, <2>10, <2>11, <2>12 DEF KeptIn
  <2>13. CASE k = 48
    <3>1. HandedOver(cpu', dead')
      BY <2>2, <2>6, <2>7, <2>8, <2>13 DEF HandedOver
    <3> QED  BY <2>10, <2>11, <2>13, <3>1 DEF KeptIn
  <2> QED  BY <2>12, <2>13
<1>8. CASE cpu.pc \notin Window \cup Prefix
  <2>1. (\E j \in 0..4 : OnMoved(cpu', j) \/ InBack(cpu', j)) \/ Outside(cpu')
    BY <1>3, <1>4, <1>8, GameOn
  <2>2. cpu'.pc \notin Window \cup Prefix
    BY <1>3, <2>1, GamePlace
  <2> QED  BY <1>8, <2>2 DEF KeptIn
<1> QED  BY <1>6, <1>7, <1>8

\* A system call.
LEMMA SystemCallKept ==
  ASSUME Booted, Course, Kept, SystemCall
  PROVE  KeptIn(cpu', dead') /\ cpu.pc \in Prefix /\ cpu'.pc \in Prefix
<1>1. status = "running" /\ cpu.pc \in Prefix /\ Decode(Fetch(cpu.pc)).op = "sc" /\ dead' = dead \cup CalleeArea
  BY DEF SystemCall
<1>2. PICK answer \in Answers :
        cpu' = [cpu EXCEPT !.pc = cpu.pc + 4, !.lr = Junk, !.ctr = Junk,
                  !.gpr = [r \in Regs |-> IF r = 3 THEN answer
                                          ELSE IF r \in Volatile THEN Junk ELSE cpu.gpr[r]],
                  !.mem = Written(cpu.mem, CalleeArea, Junk)]
  BY DEF SystemCall
<1>3. Low(scene) /\ scene \in Scenes /\ Built
  BY <1>1 DEF Booted, Loaded
<1>4. KeptIn(cpu, dead)
  BY <1>1 DEF Kept
<1>5. PICK k \in 0..48 : \E o : Spared(Entry, o, Displaced) /\ CleanAt(cpu, k, o) /\ DOMAIN cpu.mem \subseteq dead
  BY <1>1, <1>4 DEF KeptIn
<1>6. PICK o : Spared(Entry, o, Displaced) /\ CleanAt(cpu, k, o) /\ DOMAIN cpu.mem \subseteq dead
  BY <1>5
<1>7. cpu.pc = CodeBase + 4 * k /\ Machine(cpu)
  BY <1>6 DEF CleanAt
<1>8. InstructionAt(k).op = "sc"
  BY <1>1, <1>7 DEF InstructionAt
<1>9. k \in {22, 29}
  BY <1>3, <1>8, CallWords
<1> DEFINE S == CalleeArea
<1>10. S = {AddrOf(cpu.gpr[1]) + d : d \in {-112, -8, 8, 16, 48, 104}}
  BY DEF CalleeArea
<1> HIDE DEF S
<1>11. CleanAt(cpu', k + 1, o)
  <2>1. CleanAt(AfterCall(cpu, Answered(cpu, answer), Written(cpu.mem, S, Junk)), k + 1, o)
    BY <1>3, <1>6, <1>9, <1>10, CallNext
  <2>2. cpu' = AfterCall(cpu, Answered(cpu, answer), Written(cpu.mem, S, Junk))
    BY <1>2 DEF S, AfterCall, Answered
  <2> QED  BY <2>1, <2>2
<1>12. DOMAIN cpu'.mem \subseteq dead'
  <2> DEFINE g == [r \in Regs |-> IF r = 3 THEN answer ELSE IF r \in Volatile THEN Junk ELSE cpu.gpr[r]]
             m == Written(cpu.mem, S, Junk)
  <2>1. g = [r \in Regs |-> g[r]]
    OBVIOUS
  <2>2. cpu' = AfterCall(cpu, g, m)
    BY <1>2 DEF AfterCall, S
  <2>3. DOMAIN m = S \cup DOMAIN cpu.mem
    BY Zenon DEF Written
  <2> HIDE DEF g, m
  <2>4. cpu' = Mach(cpu.pc + 4, g, Junk, Junk, m)
    BY ONLY <1>7, <2>1, <2>2, Returned
  <2>5. cpu'.mem = m
    BY ONLY <2>4, MachFields
  <2> QED  BY <1>1, <1>6, <2>3, <2>5 DEF S
<1>13. k + 1 \in 0..48 /\ k + 1 \in 0..49 /\ k + 1 <= 48
  BY ONLY SMT, <1>9
<1>14. cpu'.pc \notin Window /\ cpu'.pc \in Prefix
  <2>1. cpu'.pc = CodeBase + 4 * (k + 1)
    BY <1>11 DEF CleanAt
  <2> QED  BY <1>3, <1>13, <2>1, PrefixPlace
<1> QED  BY <1>1, <1>6, <1>11, <1>12, <1>13, <1>14 DEF KeptIn

\* Every step keeps it.
LEMMA NextKept == Booted /\ Course /\ Kept /\ LowToc(scene) /\ StaysOut /\ [Next]_vars => Kept'
<1> SUFFICES ASSUME Booted, Course, Kept, LowToc(scene), StaysOut, [Next]_vars PROVE Kept'
  OBVIOUS
<1>1. CASE Patch
  BY <1>1, PatchKept
<1>2. CASE Execute
  <2>1. scene' = scene /\ image' = image /\ KeptIn(cpu', dead')
    BY <1>2, ExecuteKept DEF Execute
  <2> QED  BY <2>1, SameKept DEF Kept
<1>3. CASE SystemCall
  <2>1. scene' = scene /\ image' = image /\ KeptIn(cpu', dead')
    BY <1>3, SystemCallKept DEF SystemCall
  <2> QED  BY <2>1, SameKept DEF Kept
<1>4. CASE UNCHANGED vars
  <2>1. scene' = scene /\ image' = image /\ cpu' = cpu /\ dead' = dead /\ status' = status
    BY <1>4 DEF vars
  <2> QED  BY <2>1, SameKept DEF Kept
<1> QED  BY <1>1, <1>2, <1>3, <1>4 DEF Next

USE DEF Flag

\* Two instructions that do the same, one at address a and one at address b.
SameEffect(i, a, j, b) ==
  /\ i.op = j.op
  /\ i.op \notin {"b", "bc"} => i = j
  /\ i.op \in {"b", "bc"} => i.lk = j.lk /\ DirectTarget(i, a) = DirectTarget(j, b)
  /\ i.op = "bc" => i.bo = j.bo

\* What the processor sees in a word that classify calls relative, and in the others.
LEMMA ClassifiedB ==
  ASSUME NEW w \in Word, NEW d \in Int, NEW lk \in Flag, classify(w) = RelativeB(d, lk)
  PROVE  Decode(w) = [op |-> "b", aa |-> 0, lk |-> lk, imm |-> d]
<1>1. w[1] = 18 /\ (w[2] \div 2) % 2 # 1 /\ w[2] % 2 = lk /\ SignExtend(w[2] - (w[2] % 4), 67108864) = d
  BY SMT DEF classify, Direct, DecodedBranch, RelativeB
<1>2. w[2] \in Nat /\ (w[2] \div 2) % 2 = 0
  BY SMT, <1>1 DEF Word
<1> QED  BY SMT, <1>1, <1>2 DEF Decode, SignExtend

LEMMA ClassifiedBc ==
  ASSUME NEW w \in Word, NEW d \in Int, NEW lk \in Flag, NEW bo \in Five, NEW bi \in Five,
         classify(w) = RelativeBc(bo, bi, d, lk)
  PROVE  Decode(w) = [op |-> "bc", bo |-> bo, bi |-> bi, aa |-> 0, lk |-> lk, imm |-> d]
<1>1. /\ w[1] = 16 /\ (w[2] \div 2) % 2 # 1 /\ w[2] % 2 = lk
      /\ SignExtend((w[2] % 65536) - (w[2] % 4), 65536) = d
      /\ (w[2] \div 2097152) % 32 = bo /\ (w[2] \div 65536) % 32 = bi
  BY SMT DEF classify, Direct, DecodedBranch, RelativeBc
<1>2. w[2] \in Nat /\ w[2] < 67108864 /\ (w[2] \div 2) % 2 = 0
  BY SMT, <1>1 DEF Word
<1>3. w[2] \div 2097152 = bo
  BY ONLY SMT, <1>1, <1>2
<1>4. (w[2] % 65536) % 4 = w[2] % 4
  BY ONLY SMT, <1>2
<1> QED  BY SMT, <1>1, <1>2, <1>3, <1>4 DEF Decode, SignExtend, Signed16

LEMMA ClassifiedOther ==
  ASSUME NEW w \in Word, classify(w).kind # "DirectRelative", Decode(w).op \in {"b", "bc"}
  PROVE  Decode(w).aa = 1
<1>1. w[1] = 18 \/ w[1] = 16
  BY SMT DEF Decode
<1>2. (w[2] \div 2) % 2 = 1
  BY SMT, <1>1 DEF classify, Direct, DecodedBranch
<1> QED  BY SMT, <1>1, <1>2 DEF Decode

\* A displaced instruction does at its new place what it did at its old one
\* (relocateDisplacedInstructions, trampoline.hpp): the one that does not depend on
\* its address is copied, and the branch that does still goes where it went.
LEMMA MovedInstruction ==
  ASSUME NEW w \in Word, NEW o \in Address, NEW n \in Address, relocateInstruction(w, o, n) # Invalid
  PROVE  SameEffect(Decode(w), o, Decode(relocateInstruction(w, o, n)), n)
<1>1. CASE classify(w).kind # "DirectRelative"
  <2>1. relocateInstruction(w, o, n) = w
    BY <1>1 DEF relocateInstruction
  <2>2. Decode(w).op \in {"b", "bc"} => DirectTarget(Decode(w), o) = DirectTarget(Decode(w), n)
    <3>1. Decode(w).op \in {"b", "bc"} => Decode(w).aa = 1
      BY <1>1, ClassifiedOther
    <3> DEFINE i == Decode(w)
    <3> HIDE DEF i
    <3>2. i.aa = 1 => DirectTarget(i, o) = DirectTarget(i, n)
      BY Zenon DEF DirectTarget
    <3> QED  BY <3>1, <3>2 DEF i
  <2> DEFINE i == Decode(w)
  <2> HIDE DEF i
  <2>3. i.op \in {"b", "bc"} => DirectTarget(i, o) = DirectTarget(i, n)
    BY <2>2 DEF i
  <2>4. SameEffect(i, o, i, n)
    BY ONLY Zenon, <2>3 DEF SameEffect
  <2> QED  BY <2>1, <2>4 DEF i
<1>2. CASE classify(w).kind = "DirectRelative"
  <2>0. relocateInstruction(w, o, n) = relocateBranch(classify(w), o, n) /\ 0 \in Flag
    BY SMT, <1>2 DEF relocateInstruction
  <2>t. ASSUME NEW d \in Int, NEW e \in Int, e = Relocated(d, o, n),
               NEW i, NEW j, i.aa = 0, j.aa = 0, i.imm = d, j.imm = e
        PROVE  DirectTarget(i, o) = DirectTarget(j, n)
    <3>1. (n + e) % AddrMod = (o + d) % AddrMod
      BY <2>t, SameTarget DEF Relocated
    <3> QED  BY <2>t, <3>1 DEF DirectTarget
  <2>1. ASSUME NEW d \in Int, NEW lk \in Flag, classify(w) = RelativeB(d, lk)
        PROVE  SameEffect(Decode(w), o, Decode(relocateInstruction(w, o, n)), n)
    <3>1. PICK e \in Int : e = Relocated(d, o, n)
      BY SMT, RelocatedType
    <3>2. relocateBranch(RelativeB(d, lk), o, n) \in {Invalid, encodeBranch(e, 0, lk)}
      BY SMT, <3>1 DEF relocateBranch, RelativeB, DecodedBranch, Relocated
    <3>3. \/ encodeBranch(e, 0, lk) = Invalid
          \/ Decode(encodeBranch(e, 0, lk)) = [op |-> "b", imm |-> e, aa |-> 0, lk |-> lk]
      BY <2>0, EncodedBranch
    <3> DEFINE i == Decode(w)
               j == Decode(relocateInstruction(w, o, n))
    <3>4. j = [op |-> "b", imm |-> e, aa |-> 0, lk |-> lk]
      BY ONLY <2>0, <2>1, <3>2, <3>3, relocateInstruction(w, o, n) # Invalid
    <3>5. i = [op |-> "b", aa |-> 0, lk |-> lk, imm |-> d]
      BY <2>1, ClassifiedB
    <3> HIDE DEF i, j
    <3>6. i.op = "b" /\ i.aa = 0 /\ i.lk = lk /\ i.imm = d
      BY ONLY <3>5
    <3>7. j.op = "b" /\ j.aa = 0 /\ j.lk = lk /\ j.imm = e
      BY ONLY <3>4
    <3>8. DirectTarget(i, o) = DirectTarget(j, n)
      BY <2>t, <3>1, <3>6, <3>7
    <3>9. SameEffect(i, o, j, n)
      BY ONLY <3>6, <3>7, <3>8 DEF SameEffect
    <3> QED  BY <3>9 DEF i, j
  <2>2. ASSUME NEW d \in Int, NEW lk \in Flag, NEW bo \in Five, NEW bi \in Five, classify(w) = RelativeBc(bo, bi, d, lk)
        PROVE  SameEffect(Decode(w), o, Decode(relocateInstruction(w, o, n)), n)
    <3>1. PICK e \in Int : e = Relocated(d, o, n)
      BY SMT, RelocatedType
    <3>2. relocateBranch(RelativeBc(bo, bi, d, lk), o, n) \in {Invalid, encodeBranchConditional(bo, bi, e, 0, lk)}
      BY SMT, <3>1 DEF relocateBranch, RelativeBc, DecodedBranch, Relocated
    <3>3. \/ encodeBranchConditional(bo, bi, e, 0, lk) = Invalid
          \/ Decode(encodeBranchConditional(bo, bi, e, 0, lk)) =
               [op |-> "bc", bo |-> bo, bi |-> bi, imm |-> e, aa |-> 0, lk |-> lk]
      BY <2>0, EncodedBranchConditional
    <3> DEFINE i == Decode(w)
               j == Decode(relocateInstruction(w, o, n))
    <3>4. j = [op |-> "bc", bo |-> bo, bi |-> bi, imm |-> e, aa |-> 0, lk |-> lk]
      BY ONLY <2>0, <2>2, <3>2, <3>3, relocateInstruction(w, o, n) # Invalid
    <3>5. i = [op |-> "bc", bo |-> bo, bi |-> bi, aa |-> 0, lk |-> lk, imm |-> d]
      BY <2>2, ClassifiedBc
    <3> HIDE DEF i, j
    <3>6. i.op = "bc" /\ i.aa = 0 /\ i.lk = lk /\ i.imm = d /\ i.bo = bo
      BY ONLY <3>5
    <3>7. j.op = "bc" /\ j.aa = 0 /\ j.lk = lk /\ j.imm = e /\ j.bo = bo
      BY ONLY <3>4
    <3>8. DirectTarget(i, o) = DirectTarget(j, n)
      BY <2>t, <3>1, <3>6, <3>7
    <3>9. SameEffect(i, o, j, n)
      BY ONLY <3>6, <3>7, <3>8 DEF SameEffect
    <3> QED  BY <3>9 DEF i, j
  <2> QED  BY <1>2, <2>1, <2>2, RelativeIsBOrBc
<1> QED  BY <1>1, <1>2

\* The fields of a word name registers.
LEMMA DecodedFields ==
  ASSUME NEW w \in Word
  PROVE  LET i == Decode(w)
         IN  /\ i.op \in Executed \ Branches => i.t \in Regs
             /\ i.op \in {"addi", "addis", "ori", "rldicl", "ld", "std", "stdu"} => i.a \in Regs
<1>1. w[2] \div 2097152 \in Regs /\ (w[2] \div 65536) % 32 \in Regs
  BY SMT DEF Word, Regs
<1> DEFINE x == w[2] \div 2097152
           y == (w[2] \div 65536) % 32
<1> HIDE DEF x, y
<1>2. LET i == Decode(w)
      IN  /\ i.op \in Executed \ Branches => i.t \in {x, y}
          /\ i.op \in {"addi", "addis", "ori", "rldicl", "ld", "std", "stdu"} => i.a \in {x, y}
  BY SMT DEF Decode, Executed, Branches, x, y
<1> QED  BY <1>1, <1>2 DEF x, y

-----------------------------------------------------------------------------
(***************************************************************************)
(* The view of the game, and that an instruction does the same to the view *)
(* and to the processor.                                                   *)
(***************************************************************************)
\* What the game starts with.
Dawn == G!Start(scene, Reg(scene.toc))

\* What the game sees of the registers, of CTR and of memory; K says whether it
\* looks at r12 and CTR, D is the dead part of memory.
GprSight(g, K) == [r \in Regs |-> IF r = 12 /\ ~ K THEN Dawn.gpr[12] ELSE g[r]]
CtrSight(c, K) == IF K THEN c ELSE Dawn.ctr
MemSight(m, D) == [a \in DOMAIN m \ D |-> m[a]]

\* The processor s as the game sees it, at address p.
Sight(p, s, K, D) == Mach(p, GprSight(s.gpr, K), s.lr, CtrSight(s.ctr, K), MemSight(s.mem, D))

LEMMA SightFields ==
  ASSUME NEW p, NEW s, NEW K, NEW D
  PROVE  LET v == Sight(p, s, K, D)
         IN  /\ Machine(v) /\ v.pc = p /\ v.gpr = GprSight(s.gpr, K) /\ v.lr = s.lr
             /\ v.ctr = CtrSight(s.ctr, K) /\ v.mem = MemSight(s.mem, D)
<1> DEFINE v == Sight(p, s, K, D)
           g == GprSight(s.gpr, K)
<1>1. v = Mach(p, g, s.lr, CtrSight(s.ctr, K), MemSight(s.mem, D))
  BY DEF Sight
<1>2. g = [r \in Regs |-> g[r]]
  BY Zenon DEF GprSight
<1> HIDE DEF v, g
<1>3. /\ Machine(v) /\ v.pc = p /\ v.gpr = g /\ v.lr = s.lr
      /\ v.ctr = CtrSight(s.ctr, K) /\ v.mem = MemSight(s.mem, D)
  BY ONLY <1>1, <1>2, MachFields
<1> QED  BY <1>3 DEF v, g

\* A sight of a state given by its fields.
LEMMA SightOf ==
  ASSUME NEW p, NEW q, NEW g, NEW l, NEW c, NEW m, NEW K, NEW D
  PROVE  Sight(p, Mach(q, g, l, c, m), K, D) = Mach(p, GprSight(g, K), l, CtrSight(c, K), MemSight(m, D))
<1> DEFINE t == Mach(q, g, l, c, m)
<1>1. t = Mach(q, g, l, c, m)
  OBVIOUS
<1> HIDE DEF t
<1>2. t.gpr = g /\ t.lr = l /\ t.ctr = c /\ t.mem = m
  BY ONLY <1>1, MachFields
<1>3. Sight(p, t, K, D) = Mach(p, GprSight(g, K), l, CtrSight(c, K), MemSight(m, D))
  BY ONLY Zenon, <1>2 DEF Sight
<1> QED  BY <1>3 DEF t

\* Setting a register, and writing to memory, commute with looking.
SetIn(g, K, t, v)   == GprSight([g EXCEPT ![t] = v], K) = [GprSight(g, K) EXCEPT ![t] = v]
WriteIn(m, D, a, v) == MemSight(Written(m, {a}, v), D \ {a}) = Written(MemSight(m, D), {a}, v)

LEMMA SightSet ==
  ASSUME NEW g, NEW K \in BOOLEAN, NEW t \in Regs, K \/ t # 12, NEW v, g = [r \in Regs |-> g[r]]
  PROVE  SetIn(g, K, t, v)
<1> DEFINE x == Dawn.gpr[12]
<1>1. DOMAIN g = Regs
  OBVIOUS
<1> HIDE DEF x
<1>2. [r \in Regs |-> IF r = 12 /\ ~ K THEN x ELSE [g EXCEPT ![t] = v][r]] =
        [[r \in Regs |-> IF r = 12 /\ ~ K THEN x ELSE g[r]] EXCEPT ![t] = v]
  BY ONLY Zenon, <1>1, K \/ t # 12, t \in Regs
<1> QED  BY <1>2 DEF GprSight, x, SetIn

LEMMA SightGet ==
  ASSUME NEW g, NEW K \in BOOLEAN, NEW t \in Regs, K \/ t # 12
  PROVE  GprSight(g, K)[t] = g[t]
BY SMT DEF GprSight

LEMMA SightWrite ==
  ASSUME NEW m, NEW D, NEW a, NEW v
  PROVE  WriteIn(m, D, a, v)
BY SMT DEF MemSight, Written, WriteIn

LEMMA SightPeek ==
  ASSUME NEW s, NEW t, NEW D, t.mem = MemSight(s.mem, D), NEW a, a \notin D
  PROVE  Peek(t, a) = Peek(s, a)
<1>1. DOMAIN t.mem = DOMAIN s.mem \ D /\ \A x \in DOMAIN s.mem \ D : t.mem[x] = s.mem[x]
  BY SMT DEF MemSight
<1> QED  BY <1>1 DEF Peek

LEMMA SightEa ==
  ASSUME NEW s, NEW t, NEW K \in BOOLEAN, t.gpr = GprSight(s.gpr, K), NEW i, i.a \in Regs, K \/ i.a # 12
  PROVE  Base(t, i.a) = Base(s, i.a) /\ Ea(t, i) = Ea(s, i)
<1>1. t.gpr[i.a] = s.gpr[i.a]
  BY SightGet
<1> QED  BY <1>1 DEF Base, Ea

\* What the game may do with r12 and CTR where it does not look at them.
LEMMA NoScratch ==
  ASSUME NEW K \in BOOLEAN, NEW i, K \/ ~ UsesScratch(i)
  PROVE  /\ i.op \in Executed \ Branches => K \/ i.t # 12
         /\ i.op \in {"addi", "addis", "ori", "rldicl", "ld", "std", "stdu"} => K \/ i.a # 12
         /\ i.op \in {"mfspr", "mtspr"} => K \/ i.spr # 9
         /\ i.op \in {"bc", "bclr"} => K \/ ~ CountsDown(i.bo)
         /\ i.op = "bcctr" => K
BY DEF UsesScratch

\* A register that is set is set in the view.
LEMMA SetSeen ==
  ASSUME NEW s, Machine(s), NEW v, NEW p, NEW K \in BOOLEAN, NEW D, v = Sight(p, s, K, D), NEW t, NEW u, NEW r \in Regs, NEW x,
         K \/ r # 12,
         t = Mach(s.pc + 4, [s.gpr EXCEPT ![r] = x], s.lr, s.ctr, s.mem),
         u = Mach(v.pc + 4, [v.gpr EXCEPT ![r] = x], v.lr, v.ctr, v.mem)
  PROVE  u = Sight(p + 4, t, K, D)
<1>1. /\ v.pc = p /\ v.gpr = GprSight(s.gpr, K) /\ v.lr = s.lr
      /\ v.ctr = CtrSight(s.ctr, K) /\ v.mem = MemSight(s.mem, D)
  BY SightFields
<1>2. GprSight([s.gpr EXCEPT ![r] = x], K) = [GprSight(s.gpr, K) EXCEPT ![r] = x]
  <2> DEFINE g == s.gpr
  <2>1. g = [j \in Regs |-> g[j]]
    BY DEF Machine
  <2> HIDE DEF g
  <2>2. SetIn(g, K, r, x)
    BY <2>1, SightSet
  <2> QED  BY ONLY Zenon, <2>2 DEF g, SetIn
<1>3. Sight(p + 4, t, K, D) =
        Mach(p + 4, GprSight([s.gpr EXCEPT ![r] = x], K), s.lr, CtrSight(s.ctr, K), MemSight(s.mem, D))
  BY SightOf
<1> QED  BY ONLY <1>1, <1>2, <1>3, u = Mach(v.pc + 4, [v.gpr EXCEPT ![r] = x], v.lr, v.ctr, v.mem)

\* An instruction that is not a branch.
Unbranched(i) ==
  /\ i.op \in Executed \ Branches /\ i.t \in Regs
  /\ i.op \in {"addi", "addis", "ori", "rldicl", "ld", "std", "stdu"} => i.a \in Regs

\* What is dead after instruction i at the game.
Alive(D, s, i) == IF i.op \notin {"std", "stdu"} THEN D ELSE D \ {AddrOf(Ea(s, i))}

\* One the game may execute at s, and that it does to the view what it does to s.
Plain(s, i, K, D) ==
  /\ Machine(s) /\ Unbranched(i) /\ K \in BOOLEAN /\ (K \/ ~ UsesScratch(i))
  /\ i.op = "ld" => AddrOf(Ea(s, i)) \notin D

Seen(s, i, K, D, p, taken) ==
  Exec(Sight(p, s, K, D), i, taken) = Sight(p + 4, Exec(s, i, taken), K, Alive(D, s, i))

LEMMA ReadStep ==
  ASSUME NEW s, NEW i, NEW K, NEW D, Plain(s, i, K, D), i.op \in SetsOne, NEW p, NEW taken
  PROVE  Seen(s, i, K, D, p, taken)
<1>a. /\ Machine(s) /\ Unbranched(i) /\ K \in BOOLEAN /\ (K \/ ~ UsesScratch(i))
      /\ i.op = "ld" => AddrOf(Ea(s, i)) \notin D
  BY DEF Plain
<1> USE <1>a
<1> DEFINE v == Sight(p, s, K, D)
           t == Exec(s, i, taken)
           u == Exec(v, i, taken)
           W(z, x) == Mach(z.pc + 4, [z.gpr EXCEPT ![i.t] = x], z.lr, z.ctr, z.mem)
<1>1. /\ Machine(v) /\ v.pc = p /\ v.gpr = GprSight(s.gpr, K) /\ v.lr = s.lr
      /\ v.ctr = CtrSight(s.ctr, K) /\ v.mem = MemSight(s.mem, D)
  BY SightFields
<1>2. /\ i.t \in Regs /\ (K \/ i.t # 12)
      /\ i.op \in {"addi", "addis", "ori", "rldicl", "ld"} => i.a \in Regs /\ (K \/ i.a # 12)
      /\ i.op = "mfspr" => K \/ i.spr # 9
  BY NoScratch DEF Unbranched
<1> HIDE DEF v
<1>3. /\ i.op = "addi" => t = W(s, Ea(s, i)) /\ u = W(v, Ea(v, i))
      /\ i.op = "addis" => /\ t = W(s, Plus(Base(s, i.a), Shifted(i.imm)))
                           /\ u = W(v, Plus(Base(v, i.a), Shifted(i.imm)))
      /\ i.op = "ori" => /\ t = W(s, [s.gpr[i.a] EXCEPT ![4] = Or(s.gpr[i.a][4], i.imm)])
                         /\ u = W(v, [v.gpr[i.a] EXCEPT ![4] = Or(v.gpr[i.a][4], i.imm)])
      /\ i.op = "rldicl" => t = W(s, ClearHigh(s.gpr[i.a], i.mb)) /\ u = W(v, ClearHigh(v.gpr[i.a], i.mb))
      /\ i.op = "mfspr" => t = W(s, SprValue(s, i)) /\ u = W(v, SprValue(v, i))
      /\ i.op = "ld" => t = W(s, Peek(s, AddrOf(Ea(s, i)))) /\ u = W(v, Peek(v, AddrOf(Ea(v, i))))
  BY <1>1, ExecSets
<1>4. i.op \in {"addi", "addis", "ori", "rldicl", "ld"} =>
        v.gpr[i.a] = s.gpr[i.a] /\ Base(v, i.a) = Base(s, i.a) /\ Ea(v, i) = Ea(s, i)
  BY <1>1, <1>2, SightEa, SightGet
<1>5. i.op = "mfspr" => SprValue(v, i) = SprValue(s, i)
  <2>1. v.gpr[i.t] = s.gpr[i.t]
    BY <1>1, <1>2, SightGet
  <2>2. K => v.ctr = s.ctr
    BY <1>1 DEF CtrSight
  <2> QED  BY <1>1, <1>2, <2>1, <2>2 DEF SprValue
<1>6. i.op = "ld" => Peek(v, AddrOf(Ea(s, i))) = Peek(s, AddrOf(Ea(s, i)))
  BY <1>1, SightPeek
<1> HIDE DEF t, u
<1>7. \E x : t = W(s, x) /\ u = W(v, x)
  <2> HIDE DEF W
  <2>1. CASE i.op = "addi"
    BY ONLY <1>3, <1>4, <2>1
  <2>2. CASE i.op = "addis"
    BY ONLY <1>3, <1>4, <2>2
  <2>3. CASE i.op = "ori"
    BY ONLY <1>3, <1>4, <2>3
  <2>4. CASE i.op = "rldicl"
    BY ONLY <1>3, <1>4, <2>4
  <2>5. CASE i.op = "mfspr"
    BY ONLY <1>3, <1>5, <2>5
  <2>6. CASE i.op = "ld"
    BY ONLY <1>3, <1>4, <1>6, <2>6
  <2> QED  BY <2>1, <2>2, <2>3, <2>4, <2>5, <2>6 DEF SetsOne
<1>8. PICK x : t = W(s, x) /\ u = W(v, x)
  BY <1>7
<1>9. v = Sight(p, s, K, D)
  BY DEF v
<1>10. u = Sight(p + 4, t, K, D)
  BY <1>2, <1>8, <1>9, SetSeen
<1>11. Alive(D, s, i) = D
  BY Zenon DEF SetsOne, Alive
<1> QED  BY ONLY Zenon, <1>10, <1>11 DEF u, t, v, Seen

LEMMA WriteStep ==
  ASSUME NEW s, NEW i, NEW K, NEW D, Plain(s, i, K, D), i.op \in {"mtspr", "std", "stdu"}, NEW p, NEW taken
  PROVE  Seen(s, i, K, D, p, taken)
<1>a. Machine(s) /\ Unbranched(i) /\ K \in BOOLEAN /\ (K \/ ~ UsesScratch(i))
  BY DEF Plain
<1> USE <1>a
<1>b. SUFFICES Exec(Sight(p, s, K, D), i, taken) = Sight(p + 4, Exec(s, i, taken), K, Alive(D, s, i))
  BY DEF Seen
<1> DEFINE v == Sight(p, s, K, D)
           t == Exec(s, i, taken)
           u == Exec(v, i, taken)
           a == AddrOf(Ea(s, i))
           x == s.gpr[i.t]
           P(z) == Written(z.mem, {a}, x)
<1>1. /\ Machine(v) /\ v.pc = p /\ v.gpr = GprSight(s.gpr, K) /\ v.lr = s.lr
      /\ v.ctr = CtrSight(s.ctr, K) /\ v.mem = MemSight(s.mem, D)
  BY SightFields
<1>2. /\ i.t \in Regs /\ (K \/ i.t # 12)
      /\ i.op \in {"std", "stdu"} => i.a \in Regs /\ (K \/ i.a # 12)
      /\ i.op = "mtspr" => K \/ i.spr # 9
  BY NoScratch DEF Unbranched
<1> HIDE DEF v
<1>3. v.gpr[i.t] = x
  BY <1>1, <1>2, SightGet
<1>4. i.op \in {"std", "stdu"} => Ea(v, i) = Ea(s, i)
  BY <1>1, <1>2, SightEa
<1>5. v.gpr[i.t] = x /\ (i.op \in {"std", "stdu"} => AddrOf(Ea(v, i)) = a)
  BY <1>3, <1>4
<1>6. /\ i.op = "mtspr" => /\ t = Mach(s.pc + 4, s.gpr, IF i.spr = 8 THEN s.gpr[i.t] ELSE s.lr,
                                       IF i.spr = 9 THEN s.gpr[i.t] ELSE s.ctr, s.mem)
                           /\ u = Mach(v.pc + 4, v.gpr, IF i.spr = 8 THEN v.gpr[i.t] ELSE v.lr,
                                       IF i.spr = 9 THEN v.gpr[i.t] ELSE v.ctr, v.mem)
      /\ i.op = "std" => /\ t = Mach(s.pc + 4, s.gpr, s.lr, s.ctr, Written(s.mem, {AddrOf(Ea(s, i))}, s.gpr[i.t]))
                         /\ u = Mach(v.pc + 4, v.gpr, v.lr, v.ctr, Written(v.mem, {AddrOf(Ea(v, i))}, v.gpr[i.t]))
      /\ i.op = "stdu" =>
           /\ t = Mach(s.pc + 4, [s.gpr EXCEPT ![i.a] = Ea(s, i)], s.lr, s.ctr,
                       Written(s.mem, {AddrOf(Ea(s, i))}, s.gpr[i.t]))
           /\ u = Mach(v.pc + 4, [v.gpr EXCEPT ![i.a] = Ea(v, i)], v.lr, v.ctr,
                       Written(v.mem, {AddrOf(Ea(v, i))}, v.gpr[i.t]))
  BY <1>1, ExecOthers
<1>m. MemSight(P(s), D \ {a}) = P(v)
  <2> HIDE DEF a, x
  <2>1. WriteIn(s.mem, D, a, x)
    BY SightWrite
  <2> QED  BY ONLY Zenon, <1>1, <2>1 DEF WriteIn
<1>7. CASE i.op = "mtspr"
  <2> DEFINE l == IF i.spr = 8 THEN x ELSE s.lr
             c == IF i.spr = 9 THEN x ELSE s.ctr
             d == IF i.spr = 9 THEN x ELSE v.ctr
  <2>1. t = Mach(s.pc + 4, s.gpr, l, c, s.mem)
    BY <1>6, <1>7
  <2>2. u = Mach(v.pc + 4, v.gpr, l, d, v.mem)
    <3> HIDE DEF t, u, x
    <3> QED  BY ONLY Zenon, <1>1, <1>5, <1>6, <1>7 DEF l, d
  <2>3. d = CtrSight(c, K)
    BY <1>1, <1>2, <1>7 DEF CtrSight
  <2> HIDE DEF t, u, l, c, d
  <2>4. Sight(p + 4, t, K, D) = Mach(p + 4, GprSight(s.gpr, K), l, CtrSight(c, K), MemSight(s.mem, D))
    BY <2>1, SightOf
  <2>5. u = Sight(p + 4, t, K, D)
    BY ONLY <1>1, <2>2, <2>3, <2>4
  <2> QED  BY <1>7, <2>5 DEF u, t, v, Alive
<1>8. CASE i.op = "std"
  <2>1. t = Mach(s.pc + 4, s.gpr, s.lr, s.ctr, P(s))
    BY <1>6, <1>8
  <2>2. u = Mach(v.pc + 4, v.gpr, v.lr, v.ctr, P(v))
    <3> HIDE DEF t, u, x, a
    <3> QED  BY ONLY Zenon, <1>5, <1>6, <1>8 DEF P
  <2> HIDE DEF t, u, P, a
  <2>4. Sight(p + 4, t, K, D \ {a}) = Mach(p + 4, GprSight(s.gpr, K), s.lr, CtrSight(s.ctr, K), MemSight(P(s), D \ {a}))
    BY <2>1, SightOf
  <2>5. u = Sight(p + 4, t, K, D \ {a})
    BY ONLY <1>1, <1>m, <2>2, <2>4
  <2> QED  BY <1>8, <2>5 DEF u, t, v, Alive, a
<1>9. CASE i.op = "stdu"
  <2> DEFINE e == Ea(s, i)
  <2>1. t = Mach(s.pc + 4, [s.gpr EXCEPT ![i.a] = e], s.lr, s.ctr, P(s))
    BY <1>6, <1>9
  <2>2. u = Mach(v.pc + 4, [v.gpr EXCEPT ![i.a] = e], v.lr, v.ctr, P(v))
    <3> HIDE DEF t, u, x, a
    <3>1. Ea(v, i) = e
      BY <1>4, <1>9
    <3> QED  BY ONLY Zenon, <1>5, <1>6, <1>9, <3>1 DEF P
  <2>4. GprSight([s.gpr EXCEPT ![i.a] = e], K) = [GprSight(s.gpr, K) EXCEPT ![i.a] = e]
    <3> DEFINE g == s.gpr
    <3>1. g = [j \in Regs |-> g[j]]
      BY DEF Machine
    <3> HIDE DEF g, e
    <3>2. SetIn(g, K, i.a, e)
      BY <1>2, <1>9, <3>1, SightSet
    <3> QED  BY ONLY Zenon, <3>2 DEF g, SetIn
  <2> HIDE DEF t, u, P, a, e
  <2>5. Sight(p + 4, t, K, D \ {a}) =
          Mach(p + 4, GprSight([s.gpr EXCEPT ![i.a] = e], K), s.lr, CtrSight(s.ctr, K), MemSight(P(s), D \ {a}))
    BY <2>1, SightOf
  <2>6. u = Sight(p + 4, t, K, D \ {a})
    BY ONLY <1>1, <1>m, <2>2, <2>4, <2>5
  <2> QED  BY <1>9, <2>6 DEF u, t, v, Alive, a
<1> QED  BY <1>7, <1>8, <1>9

\* An instruction that is not a branch does to the view what it does to the processor.
LEMMA UnbranchedStep ==
  ASSUME NEW s, NEW i, NEW K, NEW D, Plain(s, i, K, D), NEW p, NEW taken
  PROVE  Seen(s, i, K, D, p, taken)
<1>1. CASE i.op \in SetsOne
  BY <1>1, ReadStep
<1>2. CASE i.op \in {"mtspr", "std", "stdu"}
  BY <1>2, WriteStep
<1> QED  BY <1>1, <1>2 DEF Plain, Unbranched, Executed, Branches, SetsOne

\* Instruction i of the game, a branch at p, is j where the processor is.
Branching(s, i, j, p, K) ==
  /\ Machine(s) /\ i.op \in Branches /\ SameEffect(i, p, j, s.pc) /\ (i.lk = 1 => p = s.pc)
  /\ K \in BOOLEAN /\ (K \/ ~ UsesScratch(j))
Branched(s, i, j, p, K, D, taken) ==
  LET t == Exec(s, j, taken)
      u == Exec(Sight(p, s, K, D), i, taken)
  IN  \/ t.pc = s.pc + 4 /\ u = Sight(p + 4, t, K, D)
      \/ t.pc = Target(s, j) /\ u = Sight(t.pc, t, K, D)

\* A branch goes where it went, and leaves what it left.
LEMMA BranchStep ==
  ASSUME NEW s, NEW i, NEW j, NEW p, NEW K, Branching(s, i, j, p, K), NEW D, NEW taken
  PROVE  Branched(s, i, j, p, K, D, taken)
<1>0. /\ Machine(s) /\ i.op \in Branches /\ SameEffect(i, p, j, s.pc) /\ (i.lk = 1 => p = s.pc)
      /\ K \in BOOLEAN /\ (K \/ ~ UsesScratch(j))
  BY DEF Branching
<1> DEFINE v == Sight(p, s, K, D)
           t == Exec(s, j, taken)
           u == Exec(v, i, taken)
           l(z, y) == IF y.lk = 1 THEN Reg(z.pc + 4) ELSE z.lr
           n(z) == Plus(z.ctr, Extended(-1))
           c(z, y) == IF CountsDown(y.bo) THEN n(z) ELSE z.ctr
           q(z, y) == IF Always(y.bo) \/ taken THEN Target(z, y) ELSE z.pc + 4
<1>1. /\ Machine(v) /\ v.pc = p /\ v.gpr = GprSight(s.gpr, K) /\ v.lr = s.lr
      /\ v.ctr = CtrSight(s.ctr, K) /\ v.mem = MemSight(s.mem, D)
  BY <1>0, SightFields
<1> HIDE DEF v
<1>2. /\ j.op = i.op
      /\ i.op \notin {"b", "bc"} => i = j
      /\ i.op \in {"b", "bc"} => i.lk = j.lk /\ DirectTarget(i, p) = DirectTarget(j, s.pc)
      /\ i.op = "bc" => i.bo = j.bo
  BY <1>0 DEF SameEffect
<1>3. /\ i.op \in {"bc", "bclr"} => K \/ ~ CountsDown(i.bo)
      /\ i.op = "bcctr" => K
  BY <1>0, <1>2, NoScratch
<1>4. i.op \in {"b", "bc", "bclr", "bcctr"}
  BY <1>0 DEF Branches
<1>5. K => v.ctr = s.ctr
  BY <1>1 DEF CtrSight
<1>6. Target(v, i) = Target(s, j)
  <2>1. CASE i.op \in {"b", "bc"}
    <3>1. Target(v, i) = DirectTarget(i, v.pc) /\ Target(s, j) = DirectTarget(j, s.pc)
      BY <1>2, <2>1 DEF Target
    <3> QED  BY <1>1, <1>2, <2>1, <3>1
  <2>2. CASE i.op = "bclr"
    BY <1>1, <1>2, <2>2 DEF Target
  <2>3. CASE i.op = "bcctr"
    BY <1>1, <1>2, <1>3, <1>5, <2>3 DEF Target
  <2> QED  BY <1>4, <2>1, <2>2, <2>3
<1>7. l(v, i) = l(s, j)
  <2>1. i.lk = j.lk
    BY <1>2, <1>4
  <2>2. i.lk = 1 => p = s.pc
    BY <1>0
  <2> QED  BY <1>1, <2>1, <2>2
<1>8. /\ i.op = "b" => /\ t = Mach(Target(s, j), s.gpr, l(s, j), s.ctr, s.mem)
                       /\ u = Mach(Target(v, i), v.gpr, l(v, i), v.ctr, v.mem)
      /\ i.op \in {"bc", "bclr", "bcctr"} => /\ t = Mach(q(s, j), s.gpr, l(s, j), c(s, j), s.mem)
                                             /\ u = Mach(q(v, i), v.gpr, l(v, i), c(v, i), v.mem)
  BY <1>0, <1>1, <1>2, ExecOthers
<1>9. i.op \in {"bc", "bclr", "bcctr"} => c(v, i) = CtrSight(c(s, j), K)
  <2> SUFFICES ASSUME i.op \in {"bc", "bclr", "bcctr"} PROVE c(v, i) = CtrSight(c(s, j), K)
    OBVIOUS
  <2>1. i.bo = j.bo
    BY <1>2
  <2>2. CASE K
    <3>1. CtrSight(c(s, j), K) = c(s, j)
      BY <2>2 DEF CtrSight
    <3> QED  BY <1>5, <2>1, <2>2, <3>1
  <2>3. CASE ~ K
    <3>1. ~ CountsDown(i.bo)
      BY <1>3, <2>3
    <3>2. c(v, i) = v.ctr /\ c(s, j) = s.ctr
      BY <2>1, <3>1
    <3> HIDE DEF c
    <3> QED  BY <1>1, <3>2
  <2> QED  BY <2>2, <2>3
<1>10. ASSUME NEW a, NEW b, NEW x, t = Mach(b, s.gpr, l(s, j), x, s.mem),
              u = Mach(a, v.gpr, l(v, i), CtrSight(x, K), v.mem)
       PROVE  t.pc = b /\ u = Sight(a, t, K, D)
  <2> HIDE DEF t, u, l
  <2>1. t.pc = b
    BY ONLY <1>10, MachFields
  <2>2. Sight(a, t, K, D) = Mach(a, GprSight(s.gpr, K), l(s, j), CtrSight(x, K), MemSight(s.mem, D))
    BY <1>10, SightOf
  <2> QED  BY ONLY <1>1, <1>7, <1>10, <2>1, <2>2
<1> DEFINE Stays == t.pc = s.pc + 4 /\ u = Sight(p + 4, t, K, D)
           Goes  == t.pc = Target(s, j) /\ u = Sight(Target(s, j), t, K, D)
<1>11. ASSUME i.op = "b" PROVE Stays \/ Goes
  <2> HIDE DEF t, u, l
  <2>1. t = Mach(Target(s, j), s.gpr, l(s, j), s.ctr, s.mem)
    BY ONLY <1>8, <1>11
  <2>2. u = Mach(Target(s, j), v.gpr, l(v, i), CtrSight(s.ctr, K), v.mem)
    BY ONLY <1>1, <1>6, <1>8, <1>11
  <2>3. Goes
    BY <1>10, <2>1, <2>2
  <2> QED  BY <2>3
<1>12. ASSUME i.op \in {"bc", "bclr", "bcctr"} PROVE Stays \/ Goes
  <2>1. j.bo = i.bo
    BY <1>2, <1>12
  <2>2. CASE Always(j.bo) \/ taken
    <3>1. q(s, j) = Target(s, j) /\ q(v, i) = Target(s, j)
      BY <1>6, <2>1, <2>2
    <3> HIDE DEF t, u, l, q, c
    <3>2. t = Mach(Target(s, j), s.gpr, l(s, j), c(s, j), s.mem)
      BY ONLY <1>8, <1>12, <3>1
    <3>3. u = Mach(Target(s, j), v.gpr, l(v, i), CtrSight(c(s, j), K), v.mem)
      BY ONLY <1>8, <1>9, <1>12, <3>1
    <3>4. Goes
      BY <1>10, <3>2, <3>3
    <3> QED  BY <3>4
  <2>3. CASE ~ (Always(j.bo) \/ taken)
    <3>1. q(s, j) = s.pc + 4 /\ q(v, i) = p + 4
      BY <1>1, <2>1, <2>3
    <3> HIDE DEF t, u, l, q, c
    <3>2. t = Mach(s.pc + 4, s.gpr, l(s, j), c(s, j), s.mem)
      BY ONLY <1>8, <1>12, <3>1
    <3>3. u = Mach(p + 4, v.gpr, l(v, i), CtrSight(c(s, j), K), v.mem)
      BY ONLY <1>8, <1>9, <1>12, <3>1
    <3>4. Stays
      BY <1>10, <3>2, <3>3
    <3> QED  BY <3>4
  <2> QED  BY <2>2, <2>3
<1>13. Stays \/ Goes
  BY <1>4, <1>11, <1>12
<1> HIDE DEF t, u, v
<1>14. \/ t.pc = s.pc + 4 /\ u = Sight(p + 4, t, K, D)
       \/ t.pc = Target(s, j) /\ u = Sight(t.pc, t, K, D)
  <2>1. CASE Stays
    BY <2>1
  <2>2. CASE Goes
    BY <2>2
  <2> QED  BY <1>13, <2>1, <2>2
<1> QED  BY <1>14 DEF t, u, v, Branched

\* Where the game is when the processor is at x.
GamePc(x) == IF x \in JumpBackPc THEN scene.code + 4 * Displaced ELSE OldPlace(x)

LEMMA GamePcs ==
  ASSUME scene \in Scenes, Low(scene), Built
  PROVE  /\ \A j \in 0..Displaced : GamePc(Resume + 4 * j) = scene.code + 4 * j
         /\ \A s, j : InBack(s, j) => GamePc(s.pc) = scene.code + 4 * Displaced
         /\ \A x : x \notin BlobCode => GamePc(x) = x
<1> DEFINE T == scene.trampolineAddr
           c == scene.code
           d == Displaced
           b == Len(Back)
           R == Resume
           J == JumpBackPc
           B == BlobCode
<1>1. /\ T \in Nat /\ c \in Nat /\ d \in {1, 5} /\ b \in {1, 5} /\ R = T + 204
      /\ PathAt = T + 204 + 4 * (d + b)
      /\ \E z \in Nat : z > PathAt /\ B = (T + 8) .. (z - 1)
      /\ J = (T + 204 + 4 * d) .. (T + 203 + 4 * (d + b))
  BY Places
<1>2. \A x : GamePc(x) = IF x \in J THEN c + 4 * d ELSE IF x \in R .. (R + 4 * d) THEN c + (x - R) ELSE x
  BY DEF GamePc, OldPlace
<1>3. PICK z \in Nat : z > PathAt /\ B = (T + 8) .. (z - 1)
  BY <1>1
<1> HIDE DEF T, c, d, b, R, J, B
<1>4. ASSUME NEW j \in 0..d PROVE GamePc(R + 4 * j) = c + 4 * j
  <2> DEFINE x == R + 4 * j
  <2>1. x \in Int /\ x \in R .. (R + 4 * d) /\ x - R = 4 * j /\ (x \in J => j = d)
    BY ONLY SMT, <1>1, j \in 0..d
  <2> HIDE DEF x
  <2>2. GamePc(x) = c + 4 * j
    <3>1. CASE x \in J
      BY <1>2, <2>1, <3>1
    <3>2. CASE x \notin J
      BY <1>2, <2>1, <3>2
    <3> QED  BY <3>1, <3>2
  <2> QED  BY <2>2 DEF x
<1>5. ASSUME NEW s, NEW j, InBack(s, j) PROVE GamePc(s.pc) = c + 4 * d
  <2> DEFINE x == s.pc
  <2>1. j \in 0..(b - 1) /\ x = (R + 4 * d) + 4 * j
    BY <1>5 DEF InBack, Leap, R, d, b
  <2> HIDE DEF x
  <2>2. x \in J
    BY ONLY SMT, <1>1, <2>1
  <2>3. GamePc(x) = c + 4 * d
    BY <1>2, <2>2
  <2> QED  BY <2>3 DEF x
<1>6. ASSUME NEW x, x \notin B PROVE GamePc(x) = x
  <2>1. J \subseteq B /\ R .. (R + 4 * d) \subseteq B
    <3>1. z - 1 \in Int /\ z - 1 >= T + 203 + 4 * (d + b) /\ z - 1 >= R + 4 * d
      BY ONLY SMT, <1>1, <1>3
    <3> QED  BY ONLY SMT, <1>1, <1>3, <3>1
  <2> QED  BY <1>2, <1>6, <2>1
<1> QED  BY <1>4, <1>5, <1>6 DEF R, c, d, B

\* The game's words behind those that were written over.
LEMMA FetchText ==
  ASSUME scene \in Scenes, Low(scene), Built, NEW j \in Displaced .. (Len(scene.text) - 1)
  PROVE  Fetch(scene.code + 4 * j) = scene.text[j + 1] /\ scene.text[j + 1] \in Word
<1> DEFINE t == image.text
           in == toBigEndianBytes(JumpIn)
           s  == toBigEndianBytes(scene.text)
           d == Displaced
           n == Len(scene.text)
           c == scene.code
           T == scene.trampolineAddr
           a == c + 4 * j
           p == 4 * j
           w == scene.text[j + 1]
<1>1. /\ JumpIn \in Seq(Word) /\ Len(JumpIn) = d
  BY JobTypes
<1>2. /\ T \in Nat /\ c \in Nat /\ n \in Nat /\ d \in {1, 5} /\ c + 4 * n <= T
      /\ \E z \in Nat : BlobCode = (T + 8) .. (z - 1)
  BY Places
<1>4. Len(in) = 4 * d
  BY <1>1, BytesOf
<1>5. Len(s) = 4 * n /\ \A x \in 0..(n - 1) : \A i \in 1..4 : s[4 * x + i] = WordBytes(scene.text[x + 1])[i]
  BY SceneFacts, BytesOf
<1>6. t = [k \in 1..Len(s) |-> IF k <= Len(in) THEN in[k] ELSE s[k]]
  BY DEF Built
<1>7. j \in d .. (n - 1)
  OBVIOUS
<1>10. w \in Word
  <2>1. scene.text \in Seq(Word)
    BY SceneFacts
  <2>2. j + 1 \in 1..Len(scene.text)
    <3>1. n \in Nat /\ d \in Nat /\ j \in d .. (n - 1)
      BY <1>2
    <3> HIDE DEF d, n
    <3>2. j + 1 \in 1..n
      BY ONLY SMT, <3>1
    <3> QED  BY <3>2 DEF n
  <2> QED  BY <2>1, <2>2
<1> HIDE DEF t, in, s, d, n, c, T
<1>8. j \in 0..(n - 1) /\ j \in Int
  BY ONLY SMT, <1>2, <1>7
<1>9. \A i \in 1..4 : t[p + i] = WordBytes(w)[i]
  <2> TAKE i \in 1..4
  <2>1. p + i \in 1..(4 * n) /\ ~ (p + i <= 4 * d)
    BY ONLY SMT, <1>2, <1>7, i \in 1..4
  <2>2. t[p + i] = s[p + i]
    <3> HIDE DEF p
    <3> QED  BY ONLY <1>4, <1>5, <1>6, <2>1
  <2> QED  BY ONLY <1>5, <1>8, <2>2, i \in 1..4
<1>11. WordAt(t, p) = w
  <2> HIDE DEF p, w
  <2> QED  BY <1>9, <1>10, WordBack
<1>12. a - c = p /\ a \in Int /\ a < T
  BY ONLY SMT, <1>2, <1>7
<1> HIDE DEF a, p, w
<1>13. a \notin BlobCode
  BY ONLY SMT, <1>2, <1>12
<1>14. Fetch(a) = WordAt(t, a - c)
  BY ONLY <1>13 DEF Fetch, t, c
<1> QED  BY ONLY <1>10, <1>11, <1>12, <1>14 DEF a, c, w

\* The processor is in the game: at a moved instruction, or at a word of its own.
InGame(s) == (\E j \in 0..4 : OnMoved(s, j)) \/ (s.pc \in Text \ Window /\ s.pc % 4 = 0)

\* What it executes there is the k-th word of the game.
AtWord(s, k) ==
  /\ k \in 1..Len(scene.text) /\ scene.text[k] \in Word
  /\ GamePc(s.pc) = scene.code + 4 * (k - 1)
  /\ GamePc(s.pc + 4) = GamePc(s.pc) + 4
  /\ SameEffect(Decode(scene.text[k]), GamePc(s.pc), Decode(Fetch(s.pc)), s.pc)
  /\ s.pc = GamePc(s.pc) \/ k \in 1..Displaced

LEMMA MovedPlace ==
  ASSUME scene \in Scenes, Low(scene), Built, NEW s, NEW j, OnMoved(s, j)
  PROVE  AtWord(s, j + 1)
<1> DEFINE T == scene.trampolineAddr
           c == scene.code
           d == Displaced
           n == Len(scene.text)
           k == j + 1
           w == scene.text[k]
           o == c + 4 * j
           p == s.pc
<1>1. /\ T \in Nat /\ c \in Nat /\ n \in Nat /\ d \in {1, 5} /\ d <= n /\ Resume = T + 204
      /\ c + 4 * n <= T /\ T + 1260 <= AddrMod \div 2 /\ AddrMod \in Nat /\ AddrMod >= 67108864
  BY Places, AddrModFacts
<1>2. j \in 0..(d - 1) /\ p = Resume + 4 * j
  BY DEF OnMoved
<1>3. PICK m : MovedWords(m) /\ \A x \in 1..Displaced : Fetch(Resume + 4 * (x - 1)) = m[x]
  BY FetchRest
<1> HIDE DEF T, c, d, n, p
<1>4. /\ k \in 1..d /\ k \in 1..n /\ Resume + 4 * (k - 1) = p /\ c + (k - 1) * 4 = o
      /\ Resume + (k - 1) * 4 = p /\ c + 4 * (k - 1) = o
      /\ j \in 0..d /\ k \in 0..d /\ Resume + 4 * k = p + 4 /\ c + 4 * k = o + 4
  BY ONLY SMT, <1>1, <1>2
<1>5. o \in 0..(AddrMod - 1) /\ p \in 0..(AddrMod - 1) /\ o \in Int /\ p \in Int
  BY ONLY SMT, <1>1, <1>2
<1>6. o % AddrMod = o /\ p % AddrMod = p /\ o \in Address /\ p \in Address
  <2>1. \A x \in 0..(AddrMod - 1) : x % AddrMod = x
    <3> DEFINE A == AddrMod
    <3>1. A \in Nat /\ A > 0
      BY ONLY <1>1
    <3> HIDE DEF A
    <3>2. \A x \in 0..(A - 1) : x % A = x
      BY ONLY SMT, <3>1
    <3> QED  BY <3>2 DEF A
  <2> HIDE DEF o
  <2> QED  BY ONLY <1>5, <2>1 DEF Address
<1>7. w \in Word
  <2>1. Displaced * 4 <= scene.cut
    BY DEF Built, Checked
  <2>2. k \in 1..Displaced
    BY <1>4 DEF d
  <2> QED  BY <2>1, <2>2, DisplacedWords
<1>8. m[k] = relocateInstruction(w, o, p) /\ relocateInstruction(w, o, p) # Invalid
  <2>1. k \in 1..Displaced
    BY <1>4 DEF d
  <2>2. /\ m[k] = relocateInstruction(w, (scene.code + (k - 1) * 4) % AddrMod, (Resume + (k - 1) * 4) % AddrMod)
        /\ m[k] # Invalid
    BY ONLY <1>3, <2>1 DEF MovedWords, w
  <2> HIDE DEF w, k, o
  <2> QED  BY ONLY <1>4, <1>6, <2>2 DEF c
<1>9. Fetch(p) = m[k]
  <2>1. k \in 1..Displaced
    BY <1>4 DEF d
  <2> QED  BY <1>3, <1>4, <2>1
<1> HIDE DEF w, o, k
<1>10. SameEffect(Decode(w), o, Decode(Fetch(p)), p)
  BY <1>6, <1>7, <1>8, <1>9, MovedInstruction
<1>11. GamePc(p) = o /\ GamePc(p + 4) = o + 4
  <2>1. \A x \in 0..d : GamePc(Resume + 4 * x) = c + 4 * x
    BY GamePcs DEF d, c
  <2>2. GamePc(Resume + 4 * j) = c + 4 * j /\ GamePc(Resume + 4 * k) = c + 4 * k
    BY ONLY <1>4, <2>1
  <2>3. p = Resume + 4 * j /\ o = c + 4 * j
    BY <1>2 DEF o
  <2> QED  BY ONLY <1>4, <2>2, <2>3
<1>12. k = j + 1
  BY DEF k
<1>13. AtWord(s, k)
  BY <1>4, <1>7, <1>10, <1>11 DEF AtWord, p, w, n, d, c
<1> QED  BY <1>12, <1>13

LEMMA TextPlace ==
  ASSUME scene \in Scenes, Low(scene), Built, NEW s, s.pc \in Text \ Window, s.pc % 4 = 0
  PROVE  \E k : AtWord(s, k)
<1> DEFINE T == scene.trampolineAddr
           c == scene.code
           d == Displaced
           n == Len(scene.text)
           p == s.pc
<1>1. /\ T \in Nat /\ c \in Nat /\ n \in Nat /\ d \in {1, 5} /\ d <= n /\ c % 4 = 0 /\ c + 4 * n <= T
      /\ Text = c .. (c + 4 * n - 1) /\ Window = c .. (c + 4 * d - 1)
      /\ \E z \in Nat : BlobCode = (T + 8) .. (z - 1)
  BY Places, LowAddresses DEF Built
<1>2. p \in Text /\ p \notin Window /\ p % 4 = 0
  OBVIOUS
<1> HIDE DEF T, c, d, n, p
<1>3. p \in Int /\ p >= c + 4 * d /\ p <= c + 4 * n - 1
  BY ONLY SMT, <1>1, <1>2
<1> DEFINE j == (p - c) \div 4
           k == j + 1
<1>4. j \in Int /\ p = c + 4 * j
  BY ONLY SMT, <1>1, <1>2, <1>3
<1> HIDE DEF j
<1>5. j \in d .. (n - 1) /\ k \in 1..n /\ c + 4 * (k - 1) = p
  BY ONLY SMT, <1>1, <1>3, <1>4
<1>6. Fetch(p) = scene.text[k] /\ scene.text[k] \in Word
  BY <1>4, <1>5, FetchText DEF c, d, n
<1>7. p \notin BlobCode /\ p + 4 \notin BlobCode
  <2>1. PICK z \in Nat : BlobCode = (T + 8) .. (z - 1)
    BY <1>1
  <2>2. p < T + 8 /\ p + 4 < T + 8 /\ p + 4 \in Int
    BY ONLY SMT, <1>1, <1>3, <1>4, <1>5
  <2> DEFINE u == p + 4
  <2> HIDE DEF u
  <2>3. p \notin (T + 8) .. (z - 1) /\ u \notin (T + 8) .. (z - 1)
    <3>1. u \in Int /\ u < T + 8
      BY ONLY <2>2 DEF u
    <3> QED  BY ONLY SMT, <1>1, <1>3, <2>2, <3>1
  <2> QED  BY ONLY <2>1, <2>3 DEF u
<1>8. GamePc(p) = p /\ GamePc(p + 4) = p + 4
  BY <1>7, GamePcs
<1> DEFINE i == Decode(scene.text[k])
<1> HIDE DEF i
<1>9. SameEffect(i, p, i, p)
  BY ONLY DEF SameEffect
<1> HIDE DEF k
<1>10. AtWord(s, k)
  BY <1>5, <1>6, <1>8, <1>9 DEF AtWord, p, n, c, i
<1> QED  BY <1>10

LEMMA GameWord ==
  ASSUME scene \in Scenes, Low(scene), Built, NEW s, InGame(s)
  PROVE  \E k : AtWord(s, k)
BY MovedPlace, TextPlace DEF InGame

\* In the game, one instruction does to the view what the game's word does.
LEMMA GameSight ==
  ASSUME scene \in Scenes, Low(scene), Built, ~ Links, Machine(cpu), NEW k, AtWord(cpu, k),
         NEW i, i = Decode(Fetch(cpu.pc)), i.op \in Executed, ~ Stranger(i),
         NEW K \in BOOLEAN, K \/ ~ UsesScratch(i), i.op = "ld" => AddrOf(Ea(cpu, i)) \notin dead, NEW taken
  PROVE  Exec(Sight(GamePc(cpu.pc), cpu, K, dead), Decode(scene.text[k]), taken) =
           Sight(GamePc(Exec(cpu, i, taken).pc), Exec(cpu, i, taken), K, Alive(dead, cpu, i))
<1> DEFINE g == Decode(scene.text[k])
           p == GamePc(cpu.pc)
           t == Exec(cpu, i, taken)
           v == Sight(p, cpu, K, dead)
<1>1. /\ SameEffect(g, p, i, cpu.pc) /\ GamePc(cpu.pc + 4) = p + 4
      /\ cpu.pc = p \/ k \in 1..Displaced
  BY DEF AtWord
<1>2. /\ g.op \in Executed \ Branches => g.t \in Regs
      /\ g.op \in {"addi", "addis", "ori", "rldicl", "ld", "std", "stdu"} => g.a \in Regs
  BY DecodedFields DEF AtWord
<1>3. t.pc = cpu.pc + 4 \/ (i.op \in Branches /\ t.pc = Target(cpu, i))
  BY ExecMachine
<1>4. g.op = i.op /\ (i.op \notin Branches => g = i)
  BY <1>1 DEF SameEffect, Branches
<1>5. g.op \in Branches /\ g.lk = 1 => p = cpu.pc
  <2>1. k \in 1..Displaced => ~ (g.op \in Branches /\ g.lk = 1)
    BY DEF Links
  <2> QED  BY <1>1, <2>1
<1> HIDE DEF g, p
<1>6. CASE i.op \notin Branches
  <2>1. g = i /\ Plain(cpu, i, K, dead)
    BY <1>2, <1>4, <1>6 DEF Unbranched, Plain
  <2>2. Exec(v, i, taken) = Sight(p + 4, t, K, Alive(dead, cpu, i))
    <3>1. Seen(cpu, i, K, dead, p, taken)
      BY <2>1, UnbranchedStep
    <3> QED  BY <3>1 DEF Seen
  <2>3. GamePc(t.pc) = p + 4
    BY <1>1, <1>3, <1>6
  <2> HIDE DEF t, v
  <2>4. Exec(v, g, taken) = Sight(GamePc(t.pc), t, K, Alive(dead, cpu, i))
    BY ONLY Zenon, <2>1, <2>2, <2>3
  <2> QED  BY <2>4 DEF t, v, g, p
<1>7. CASE i.op \in Branches
  <2>0. Branched(cpu, g, i, p, K, dead, taken)
    <3>1. Branching(cpu, g, i, p, K)
      BY <1>1, <1>4, <1>5, <1>7 DEF Branching
    <3> QED  BY <3>1, BranchStep
  <2>1. \/ t.pc = cpu.pc + 4 /\ Exec(v, g, taken) = Sight(p + 4, t, K, dead)
        \/ t.pc = Target(cpu, i) /\ Exec(v, g, taken) = Sight(t.pc, t, K, dead)
    BY <2>0 DEF Branched
  <2>2. Alive(dead, cpu, i) = dead
    BY <1>7 DEF Alive, Branches
  <2>3. t.pc = Target(cpu, i) => GamePc(t.pc) = t.pc
    <3>1. Target(cpu, i) \notin BlobCode
      BY <1>7 DEF Stranger
    <3> QED  BY <3>1, GamePcs
  <2> HIDE DEF t, v
  <2>4. Exec(v, g, taken) = Sight(GamePc(t.pc), t, K, Alive(dead, cpu, i))
    <3>1. CASE t.pc = cpu.pc + 4 /\ Exec(v, g, taken) = Sight(p + 4, t, K, dead)
      BY ONLY Zenon, <1>1, <2>2, <3>1
    <3>2. CASE t.pc = Target(cpu, i) /\ Exec(v, g, taken) = Sight(t.pc, t, K, dead)
      BY ONLY Zenon, <2>2, <2>3, <3>2
    <3> QED  BY <2>1, <3>1, <3>2
  <2> QED  BY <2>4 DEF t, v, g, p
<1> QED  BY <1>6, <1>7

\* The view, where no displaced instruction leaves a return address.
LEMMA ViewIs ==
  ASSUME ~ Links, NEW K \in BOOLEAN
  PROVE  View(K) = IF Starting THEN Dawn ELSE Sight(GamePc(cpu.pc), cpu, K, dead)
<1>1. \A v : OldValue(v) = v
  BY DEF OldValue
<1>2. CASE Starting
  BY <1>2 DEF View, Dawn
<1>3. CASE ~ Starting
  <2>1. View(K) = [pc  |-> GamePc(cpu.pc),
                   gpr |-> [r \in Regs |-> IF r = 12 /\ ~ K THEN Dawn.gpr[12] ELSE cpu.gpr[r]],
                   lr  |-> cpu.lr,
                   ctr |-> IF K THEN cpu.ctr ELSE Dawn.ctr,
                   mem |-> [a \in DOMAIN cpu.mem \ dead |-> cpu.mem[a]]]
    BY <1>1, <1>3 DEF View, Dawn, GamePc
  <2> QED  BY <1>3, <2>1 DEF Sight, Mach, GprSight, CtrSight, MemSight
<1> QED  BY <1>2, <1>3

\* Where the places of the view are depends on the scene alone.
LEMMA SamePlan ==
  ASSUME scene' = scene
  PROVE  /\ Prefix' = Prefix /\ Window' = Window /\ Resume' = Resume /\ Displaced' = Displaced
         /\ JumpBackPc' = JumpBackPc /\ Links' = Links /\ ShortJumps' = ShortJumps /\ Dawn' = Dawn
<1>1. CodeBase' = CodeBase /\ Resume' = Resume
  BY DEF CodeBase, Resume
<1>2. Displaced' = Displaced
  BY <1>1 DEF Displaced
<1>3. PathAt' = PathAt
  BY <1>2 DEF PathAt
<1>4. Prefix' = Prefix /\ Window' = Window /\ JumpBackPc' = JumpBackPc
  BY <1>1, <1>2, <1>3 DEF Prefix, Window, JumpBackPc
<1>5. Links' = Links /\ ShortJumps' = ShortJumps
  BY <1>2 DEF Links, ShortJumps
<1>6. Dawn' = Dawn
  BY DEF Dawn, G!Start
<1> QED  BY <1>1, <1>2, <1>4, <1>5, <1>6

\* And in the next state.
LEMMA NextView ==
  ASSUME ~ Links, scene' = scene
  PROVE  View(ShortJumps)' =
           IF status' # "running" \/ cpu'.pc \in Prefix \cup Window THEN Dawn
           ELSE Sight(GamePc(cpu'.pc), cpu', ShortJumps, dead')
<1>1. /\ Prefix' = Prefix /\ Window' = Window /\ Resume' = Resume /\ Displaced' = Displaced
      /\ JumpBackPc' = JumpBackPc /\ Links' = Links /\ ShortJumps' = ShortJumps /\ Dawn' = Dawn
  BY SamePlan
<1>2. \A v : OldValue(v)' = v
  BY <1>1 DEF OldValue
<1>3. Starting' <=> status' # "running" \/ cpu'.pc \in Prefix \cup Window
  BY <1>1 DEF Starting
<1>4. CASE Starting'
  <2>1. View(ShortJumps)' = Dawn'
    BY <1>4 DEF View, Dawn
  <2> QED  BY <1>1, <1>3, <1>4, <2>1
<1>5. CASE ~ Starting'
  <2>1. View(ShortJumps)' = [pc  |-> GamePc(cpu'.pc),
                             gpr |-> [r \in Regs |-> IF r = 12 /\ ~ ShortJumps THEN Dawn.gpr[12] ELSE cpu'.gpr[r]],
                             lr  |-> cpu'.lr,
                             ctr |-> IF ShortJumps THEN cpu'.ctr ELSE Dawn.ctr,
                             mem |-> [a \in DOMAIN cpu'.mem \ dead' |-> cpu'.mem[a]]]
    BY <1>1, <1>2, <1>5 DEF View, Dawn, GamePc, OldPlace
  <2> QED  BY <1>3, <1>5, <2>1 DEF Sight, Mach, GprSight, CtrSight, MemSight
<1> QED  BY <1>4, <1>5

\* What is handed over is what the game starts with.
LEMMA HandedView ==
  ASSUME scene \in Scenes, Low(scene), Built, NEW s, NEW D, HandedOver(s, D), s.pc = Resume,
         NEW K \in BOOLEAN, K => Displaced = 1
  PROVE  Sight(GamePc(s.pc), s, K, D) = Dawn
<1>1. PICK o : Spared(Entry, o, Displaced) /\ CleanAt(s, 49, o) /\ DOMAIN s.mem \subseteq D
  BY DEF HandedOver
<1>2. /\ Machine(s) /\ Regular(s.gpr, 49, o) /\ Special(s.lr, s.ctr, 49, o) /\ InReg(s, 2, scene.toc, 3)
  BY <1>1 DEF CleanAt, Clean
<1>3. GamePc(s.pc) = scene.code
  <2>1. 0 \in 0..Displaced /\ Resume \in Int /\ scene.code \in Int
    <3>1. Displaced \in {1, 5} /\ scene.code \in Nat /\ scene.trampolineAddr \in Nat /\ Resume = scene.trampolineAddr + 204
      BY Places
    <3> QED  BY ONLY SMT, <3>1
  <2>2. GamePc(Resume + 4 * 0) = scene.code + 4 * 0
    BY <2>1, GamePcs
  <2>3. Resume + 4 * 0 = Resume /\ scene.code + 4 * 0 = scene.code
    BY ONLY SMT, <2>1
  <2> QED  BY <2>2, <2>3
<1>4. /\ Dawn = [pc |-> scene.code, gpr |-> Dawn.gpr, lr |-> Entry.lr, ctr |-> Entry.ctr, mem |-> << >>]
      /\ Dawn.gpr = [r \in Regs |-> Dawn.gpr[r]]
      /\ Dawn.gpr[1] = Reg(StackTop) /\ Dawn.gpr[2] = Reg(scene.toc)
      /\ \A r \in Regs \ {1, 2} : Dawn.gpr[r] = Entry.gpr[r]
  BY DEF Dawn, Entry, G!Start, G!EntryRegs, Regs, Reg
<1>5. s.gpr[1] = Reg(StackTop) /\ s.gpr[2] = Reg(scene.toc)
  BY <1>2 DEF Regular, InReg
<1>6. \A r \in Regs \ {1, 2} : s.gpr[r] = o.gpr[r]
  <2>1. /\ \A r \in 13..31 : s.gpr[r] = o.gpr[r]
        /\ \A r \in 3..12 : s.gpr[r] = o.gpr[r]
        /\ s.gpr[0] = o.gpr[0]
    BY <1>2 DEF Regular
  <2>2. \A r \in Regs \ {1, 2} : r = 0 \/ r \in 3..12 \/ r \in 13..31
    BY DEF Regs
  <2> QED  BY <2>1, <2>2
<1>7. s.lr = o.lr /\ s.ctr = o.ctr
  BY <1>2 DEF Special
<1>8. /\ o.lr = Entry.lr /\ (K => o.ctr = Entry.ctr)
      /\ \A r \in Regs \ {1, 2} : (r = 12 /\ ~ K) \/ o.gpr[r] = Entry.gpr[r]
  BY <1>1 DEF Spared
<1>9. GprSight(s.gpr, K) = Dawn.gpr
  <2>1. \A r \in Regs : (IF r = 12 /\ ~ K THEN Dawn.gpr[12] ELSE s.gpr[r]) = Dawn.gpr[r]
    BY <1>4, <1>5, <1>6, <1>8
  <2>2. [r \in Regs |-> IF r = 12 /\ ~ K THEN Dawn.gpr[12] ELSE s.gpr[r]] = [r \in Regs |-> Dawn.gpr[r]]
    BY ONLY Zenon, <2>1
  <2> QED  BY ONLY Zenon, <1>4, <2>2 DEF GprSight
<1>10. CtrSight(s.ctr, K) = Entry.ctr
  BY <1>4, <1>7, <1>8 DEF CtrSight
<1>11. MemSight(s.mem, D) = << >>
  <2>1. DOMAIN s.mem \ D = {}
    BY <1>1
  <2> QED  BY <2>1 DEF MemSight
<1>12. Sight(GamePc(s.pc), s, K, D) = Mach(scene.code, Dawn.gpr, Entry.lr, Entry.ctr, << >>)
  BY ONLY Zenon, <1>3, <1>7, <1>8, <1>9, <1>10, <1>11 DEF Sight
<1> QED  BY ONLY Zenon, <1>4, <1>12 DEF Mach

\* The jump back changes nothing the game sees.
LEMMA SparedView ==
  ASSUME NEW s, NEW t, NEW n, Spared(s, t, n), NEW K \in BOOLEAN, K => n = 1, NEW p, NEW D
  PROVE  Sight(p, s, K, D) = Sight(p, t, K, D)
<1>1. t.lr = s.lr /\ t.mem = s.mem /\ \A r \in Regs : (r = 12 /\ ~ K) \/ t.gpr[r] = s.gpr[r]
  BY DEF Spared
<1>2. CtrSight(t.ctr, K) = CtrSight(s.ctr, K)
  BY DEF CtrSight, Spared
<1>3. GprSight(t.gpr, K) = GprSight(s.gpr, K)
  <2> DEFINE x == Dawn.gpr[12]
  <2> HIDE DEF x
  <2>1. \A r \in Regs : (IF r = 12 /\ ~ K THEN x ELSE t.gpr[r]) = (IF r = 12 /\ ~ K THEN x ELSE s.gpr[r])
    BY <1>1
  <2>2. [r \in Regs |-> IF r = 12 /\ ~ K THEN x ELSE t.gpr[r]] = [r \in Regs |-> IF r = 12 /\ ~ K THEN x ELSE s.gpr[r]]
    BY ONLY Zenon, <2>1
  <2> QED  BY ONLY Zenon, <2>2 DEF GprSight, x
<1> QED  BY ONLY Zenon, <1>1, <1>2, <1>3 DEF Sight

\* A step of the view that executes the k-th word of the game.
LEMMA ViewSteps ==
  ASSUME NEW k \in 1..Len(scene.text), View(ShortJumps).pc = scene.code + 4 * (k - 1), scene.code \in Nat,
         Decode(scene.text[k]).op \in Executed, NEW taken \in BOOLEAN, scene' = scene,
         View(ShortJumps)' = Exec(View(ShortJumps), Decode(scene.text[k]), taken)
  PROVE  Lax!GameStep
<1> DEFINE v == View(ShortJumps)
           a == scene.code + 4 * (k - 1)
           c == scene.code
<1>1. a \in Lax!TextAddrs(scene)
  BY DEF Lax!TextAddrs
<1>2. Lax!TextWord(scene, a) = scene.text[k]
  <2>1. ((a - c) \div 4) + 1 = k
    <3> HIDE DEF c
    <3>1. c \in Nat /\ k \in Int
      BY DEF c
    <3>2. c + 4 * (k - 1) - c = 4 * (k - 1) /\ (4 * (k - 1)) \div 4 = k - 1
      BY ONLY SMT, <3>1
    <3>3. ((c + 4 * (k - 1) - c) \div 4) + 1 = k
      BY ONLY SMT, <3>1, <3>2
    <3> QED  BY <3>3 DEF c
  <2> QED  BY <2>1 DEF Lax!TextWord
<1> DEFINE i == Decode(scene.text[k])
<1> HIDE DEF i, v, a
<1>3. v.pc = a /\ i.op \in Executed /\ v' = Exec(v, i, taken)
  BY DEF v, a, i
<1>4. Decode(Lax!TextWord(scene, v.pc)) = i
  BY ONLY <1>2, <1>3 DEF i
<1>5. /\ v.pc \in Lax!TextAddrs(scene)
      /\ Decode(Lax!TextWord(scene, v.pc)).op \in Executed
      /\ \E y \in BOOLEAN : v' = Exec(v, Decode(Lax!TextWord(scene, v.pc)), y)
      /\ UNCHANGED scene
  BY Zenon, <1>1, <1>3, <1>4
<1> QED  BY <1>5 DEF Lax!GameStep, v

-----------------------------------------------------------------------------
(***************************************************************************)
(* The steps of the patched program, as the game sees them.                *)
(***************************************************************************)

LEMMA MovedIsMoved ==
  ASSUME scene \in Scenes, Low(scene), Built, NEW s, NEW j \in 0..4, OnMoved(s, j)
  PROVE  s.pc \in Moved
<1> DEFINE d == Displaced
           p == s.pc
           r == Resume
<1>1. d \in {1, 5} /\ r = scene.trampolineAddr + 204 /\ scene.trampolineAddr \in Nat
  BY Places
<1>2. j \in 0..(d - 1) /\ p = r + 4 * j
  BY DEF OnMoved
<1> HIDE DEF d, p, r
<1>3. r \in Nat
  BY ONLY <1>1
<1>4. p \in r .. (r + 4 * d - 1)
  BY ONLY SMT, <1>1, <1>2, <1>3
<1> QED  BY <1>4 DEF Moved, d, p, r

\* Before the hand-over the view is that of a game that has not started.
LEMMA ViewBefore ==
  ASSUME ~ Links, scene' = scene, Starting,
         status' # "running" \/ cpu'.pc \in Prefix \cup Window
  PROVE  UNCHANGED Lax!gameVars
<1>1. ShortJumps \in BOOLEAN
  BY Zenon DEF ShortJumps
<1>2. View(ShortJumps) = Dawn
  BY <1>1, ViewIs
<1>3. View(ShortJumps)' = Dawn
  BY NextView
<1> QED  BY <1>2, <1>3 DEF Lax!gameVars

\* An instruction of the game is a step of the game.
LEMMA SeenInGame ==
  ASSUME scene \in Scenes, Low(scene), Built, ~ Links, Behaves, Execute, Machine(cpu), InGame(cpu),
         cpu.pc \notin Window \cup Prefix, cpu'.pc \notin Window \cup Prefix
  PROVE  Lax!GameStep
<1> DEFINE i == Decode(Fetch(cpu.pc))
           K == ShortJumps
<1>1. /\ status = "running" /\ i.op \in Executed /\ status' = status /\ scene' = scene
      /\ \E taken \in BOOLEAN : cpu' = Exec(cpu, i, taken)
      /\ dead' = IF i.op \notin {"std", "stdu"} THEN dead
                 ELSE IF cpu.pc \in Prefix THEN dead \cup {AddrOf(Ea(cpu, i))}
                 ELSE dead \ {AddrOf(Ea(cpu, i))}
  BY DEF Execute
<1>2. PICK taken \in BOOLEAN : cpu' = Exec(cpu, i, taken)
  BY <1>1
<1>3. PICK k : AtWord(cpu, k)
  BY GameWord
<1>4. AtGame
  <2>1. (\E j \in 0..4 : OnMoved(cpu, j)) => cpu.pc \in Moved
    BY MovedIsMoved
  <2> QED  BY <1>1, <2>1 DEF AtGame, InGame
<1>5. ~ Stranger(i) /\ (i.op = "ld" => AddrOf(Ea(cpu, i)) \notin dead) /\ (K \/ ~ UsesScratch(i))
  BY <1>4 DEF Behaves, StaysOut
<1>6. K \in BOOLEAN
  BY Zenon DEF ShortJumps
<1>7. dead' = Alive(dead, cpu, i)
  BY <1>1 DEF Alive
<1> DEFINE v == Sight(GamePc(cpu.pc), cpu, K, dead)
           g == Decode(scene.text[k])
<1>8. View(K) = v
  <2>1. ~ Starting
    BY <1>1 DEF Starting
  <2> QED  BY <1>6, <2>1, ViewIs
<1>9. View(ShortJumps)' = Sight(GamePc(cpu'.pc), cpu', K, dead')
  BY <1>1, NextView
<1>10. Exec(v, g, taken) =
         Sight(GamePc(Exec(cpu, i, taken).pc), Exec(cpu, i, taken), K, Alive(dead, cpu, i))
  <2> HIDE DEF K
  <2> QED  BY <1>1, <1>3, <1>5, <1>6, GameSight
<1>11. /\ k \in 1..Len(scene.text) /\ GamePc(cpu.pc) = scene.code + 4 * (k - 1) /\ g.op = i.op
  BY <1>3 DEF AtWord, SameEffect
<1>12. View(K).pc = scene.code + 4 * (k - 1)
  <2>1. v.pc = GamePc(cpu.pc)
    BY SightFields
  <2> HIDE DEF v, K
  <2> QED  BY ONLY <1>8, <1>11, <2>1
<1>13. View(ShortJumps)' = Exec(View(ShortJumps), g, taken)
  <2> HIDE DEF g, i
  <2> QED  BY ONLY <1>2, <1>7, <1>8, <1>9, <1>10
<1>14. scene.code \in Nat
  BY Places
<1> HIDE DEF i
<1> QED  BY <1>1, <1>11, <1>12, <1>13, <1>14, ViewSteps

\* An instruction of the jump back is not seen.
LEMMA SeenInBack ==
  ASSUME scene \in Scenes, Low(scene), Built, ~ Links, Execute, Machine(cpu), NEW j, InBack(cpu, j),
         cpu.pc \notin Window \cup Prefix, cpu'.pc \notin Window \cup Prefix
  PROVE  UNCHANGED Lax!gameVars
<1> DEFINE i == Decode(Fetch(cpu.pc))
           K == ShortJumps
           o == scene.code + 4 * Displaced
<1>1. /\ status = "running" /\ status' = status /\ scene' = scene
      /\ \E taken \in BOOLEAN : cpu' = Exec(cpu, i, taken)
      /\ i.op \notin {"std", "stdu"} => dead' = dead
  BY DEF Execute
<1>2. PICK taken \in BOOLEAN : cpu' = Exec(cpu, i, taken)
  BY <1>1
<1>3. /\ i.op \notin {"std", "stdu"} /\ Spared(cpu, cpu', Len(Back))
      /\ InBack(cpu', j + 1) \/ cpu'.pc = o
  BY <1>2, BackNext
<1>4. K \in BOOLEAN /\ (K => Len(Back) = 1)
  BY Zenon DEF ShortJumps, Back
<1>5. GamePc(cpu.pc) = o
  BY GamePcs
<1>6. GamePc(cpu'.pc) = o
  <2>1. CASE InBack(cpu', j + 1)
    BY <2>1, GamePcs
  <2>2. CASE cpu'.pc = o
    <3>1. o \notin BlobCode
      <4> DEFINE T == scene.trampolineAddr
                 c == scene.code
                 d == Displaced
                 n == Len(scene.text)
      <4>1. /\ T \in Nat /\ c \in Nat /\ d \in {1, 5} /\ n \in Nat /\ d <= n /\ c + 4 * n <= T
            /\ \E z \in Nat : BlobCode = (T + 8) .. (z - 1)
        BY Places
      <4>2. o = c + 4 * d
        OBVIOUS
      <4>3. PICK z \in Nat : BlobCode = (T + 8) .. (z - 1)
        BY <4>1
      <4> HIDE DEF T, c, d, n, o
      <4> QED  BY ONLY SMT, <4>1, <4>2, <4>3
    <3> QED  BY <2>2, <3>1, GamePcs
  <2> QED  BY <1>3, <2>1, <2>2
<1>7. Sight(o, cpu, K, dead) = Sight(o, cpu', K, dead)
  <2> DEFINE n == Len(Back)
             t == cpu'
  <2>1. Spared(cpu, t, n) /\ K \in BOOLEAN /\ (K => n = 1)
    BY <1>3, <1>4
  <2> HIDE DEF K, o, n, t
  <2>2. Sight(o, cpu, K, dead) = Sight(o, t, K, dead)
    BY ONLY <2>1, SparedView
  <2> QED  BY <2>2 DEF t
<1>8. View(K) = Sight(GamePc(cpu.pc), cpu, K, dead)
  <2>1. ~ Starting
    BY <1>1 DEF Starting
  <2> QED  BY <1>4, <2>1, ViewIs
<1>9. View(ShortJumps)' = Sight(GamePc(cpu'.pc), cpu', K, dead')
  BY <1>1, NextView
<1>10. View(ShortJumps)' = View(ShortJumps)
  <2> HIDE DEF i, o
  <2> QED  BY ONLY <1>1, <1>3, <1>5, <1>6, <1>7, <1>8, <1>9
<1> QED  BY <1>1, <1>10 DEF Lax!gameVars

\* The hand-over is not seen either.
LEMMA SeenHandOver ==
  ASSUME scene \in Scenes, Low(scene), Built, ~ Links, Execute, Starting,
         cpu'.pc \notin Window \cup Prefix, HandedOver(cpu', dead'), cpu'.pc = Resume
  PROVE  UNCHANGED Lax!gameVars
<1> DEFINE K == ShortJumps
<1>1. status = "running" /\ status' = status /\ scene' = scene
  BY DEF Execute
<1>2. K \in BOOLEAN /\ (K => Displaced = 1)
  BY Zenon DEF ShortJumps
<1>3. View(K) = Dawn
  BY <1>2, ViewIs
<1>4. View(ShortJumps)' = Sight(GamePc(cpu'.pc), cpu', K, dead')
  BY <1>1, NextView
<1>5. Sight(GamePc(cpu'.pc), cpu', K, dead') = Dawn
  <2> HIDE DEF K
  <2> QED  BY <1>2, HandedView
<1> QED  BY <1>1, <1>3, <1>4, <1>5 DEF Lax!gameVars

LEMMA ExecuteSeen ==
  ASSUME Booted, Course, Kept, LowToc(scene), ~ Links, Behaves, Execute
  PROVE  [Lax!GameStep]_(Lax!gameVars)
<1>1. status = "running" /\ status' = status /\ scene' = scene /\ cpu.pc \in BlobCode \cup Text /\ cpu.pc % 4 = 0
  BY DEF Execute
<1>2. Low(scene) /\ scene \in Scenes /\ Built
  BY <1>1 DEF Booted, Loaded
<1>3. /\ Machine(cpu)
      /\ cpu.pc \notin Window \cup Prefix => (\E j \in 0..4 : OnMoved(cpu, j) \/ InBack(cpu, j)) \/ Outside(cpu)
  BY <1>1, Whereabouts
<1>4. StaysOut
  BY DEF Behaves
<1>5. /\ cpu.pc \in Prefix /\ cpu'.pc \notin Prefix => HandedOver(cpu', dead') /\ cpu'.pc = Resume
      /\ cpu.pc \in Window => cpu'.pc \in Window \cup Prefix
  BY <1>4, ExecuteKept
<1>6. CASE cpu.pc \in Prefix \cup Window
  <2>1. Starting
    BY <1>6 DEF Starting
  <2>2. CASE cpu'.pc \in Prefix \cup Window
    BY <1>1, <2>1, <2>2, ViewBefore
  <2>3. CASE cpu'.pc \notin Window \cup Prefix
    <3>1. HandedOver(cpu', dead') /\ cpu'.pc = Resume
      BY <1>5, <1>6, <2>3
    <3> QED  BY <1>2, <2>1, <2>3, <3>1, SeenHandOver
  <2> QED  BY <2>2, <2>3
<1>7. CASE cpu.pc \notin Window \cup Prefix
  <2>1. (\E j \in 0..4 : OnMoved(cpu', j) \/ InBack(cpu', j)) \/ Outside(cpu')
    BY <1>2, <1>3, <1>4, <1>7, GameOn
  <2>2. cpu'.pc \notin Window \cup Prefix
    BY <1>2, <2>1, GamePlace
  <2>3. InGame(cpu) \/ \E j \in 0..4 : InBack(cpu, j)
    <3>1. Outside(cpu) => cpu.pc \in Text \ Window
      BY <1>1 DEF Outside
    <3> QED  BY <1>1, <1>3, <1>7, <3>1 DEF InGame
  <2>4. InGame(cpu) => Lax!GameStep
    BY <1>2, <1>3, <1>7, <2>2, SeenInGame
  <2>5. (\E j \in 0..4 : InBack(cpu, j)) => UNCHANGED Lax!gameVars
    BY <1>2, <1>3, <1>7, <2>2, SeenInBack
  <2> QED  BY <2>3, <2>4, <2>5
<1> QED  BY <1>6, <1>7

\* Every step is one of the game's, or none.
LEMMA NextSeen ==
  Booted /\ Course /\ Kept /\ LowToc(scene) /\ ~ Links /\ Behaves /\ [Next]_vars => [Lax!GameStep]_(Lax!gameVars)
<1> SUFFICES ASSUME Booted, Course, Kept, LowToc(scene), ~ Links, Behaves, [Next]_vars
             PROVE  [Lax!GameStep]_(Lax!gameVars)
  OBVIOUS
<1>1. CASE Patch
  <2>1. Passage /\ status = "idle" /\ cpu' = cpu /\ scene' = scene /\ Loaded' /\ Low(scene) /\ scene \in Scenes
    BY <1>1, PatchLoaded DEF Booted, Loaded
  <2>2. Starting
    BY <2>1 DEF Starting
  <2>3. status' # "running" \/ cpu'.pc \in Prefix \cup Window
    <3>1. SUFFICES ASSUME status' = "running" PROVE cpu.pc \in Window
      BY <2>1
    <3>2. Displaced' = Displaced
      BY <2>1 DEF Displaced, CodeBase
    <3>3. Checked
      <4>1. Checked'
        BY <2>1, <3>1 DEF Loaded, Built
      <4> QED  BY <2>1, <3>2, <4>1 DEF Checked
    <3> DEFINE c == scene.code
               d == Displaced
    <3>4. c \in Nat /\ d \in {1, 5}
      BY <2>1, <3>3, LowAddresses
    <3>5. cpu.pc = c
      BY <2>1 DEF Passage, G!Start
    <3> HIDE DEF c, d
    <3>6. c \in c .. (c + 4 * d - 1)
      BY ONLY SMT, <3>4
    <3> QED  BY <3>5, <3>6 DEF Window, c, d
  <2> QED  BY <2>1, <2>2, <2>3, ViewBefore
<1>2. CASE Execute
  BY <1>2, ExecuteSeen
<1>3. CASE SystemCall
  <2>1. status = "running" /\ scene' = scene /\ cpu.pc \in Prefix
    BY <1>3 DEF SystemCall
  <2>2. cpu'.pc \in Prefix
    BY <1>3, SystemCallKept
  <2>3. Starting
    BY <2>1 DEF Starting
  <2> QED  BY <2>1, <2>2, <2>3, ViewBefore
<1>4. CASE UNCHANGED vars
  <2>1. status' = status /\ scene' = scene /\ cpu' = cpu /\ dead' = dead
    BY <1>4 DEF vars
  <2>2. ShortJumps \in BOOLEAN
    BY Zenon DEF ShortJumps
  <2>3. View(ShortJumps)' = View(ShortJumps)
    <3>1. View(ShortJumps) = IF Starting THEN Dawn ELSE Sight(GamePc(cpu.pc), cpu, ShortJumps, dead)
      BY <2>2, ViewIs
    <3>2. View(ShortJumps)' = IF Starting THEN Dawn ELSE Sight(GamePc(cpu'.pc), cpu', ShortJumps, dead')
      BY <2>1, NextView DEF Starting
    <3> QED  BY ONLY <2>1, <3>1, <3>2
  <2> QED  BY <2>1, <2>3 DEF Lax!gameVars
<1> QED  BY <1>1, <1>2, <1>3, <1>4 DEF Next

\* And the patched program begins as the game does.
LEMMA InitSeen == Init /\ ~ Links => Lax!GameInit
<1> SUFFICES ASSUME Init, ~ Links PROVE Lax!GameInit
  OBVIOUS
<1>1. scene \in Scenes /\ status = "idle"
  BY DEF Init
<1>2. ShortJumps \in BOOLEAN
  BY Zenon DEF ShortJumps
<1>3. View(ShortJumps) = Dawn
  <2>1. Starting
    BY <1>1 DEF Starting
  <2> QED  BY <1>2, <2>1, ViewIs
<1>4. Lax!Start(scene, Reg(scene.toc)) = Dawn
  BY DEF Dawn, Lax!Start, G!Start, Lax!EntryRegs, G!EntryRegs
<1> QED  BY <1>1, <1>3, <1>4 DEF Lax!GameInit

LEMMA SceneStays == [Next]_vars => scene' = scene
<1>1. Patch => scene' = scene
  BY Zenon DEF Patch
<1>2. Execute => scene' = scene
  BY Zenon DEF Execute
<1>3. SystemCall => scene' = scene
  BY Zenon DEF SystemCall
<1>4. UNCHANGED vars => scene' = scene
  BY DEF vars
<1> QED  BY <1>1, <1>2, <1>3, <1>4 DEF Next

\* Seen from the game, the patched program is a run of the original one: the
\* displaced instructions do what they did at their old place, and every
\* register, LR, CTR and all of the game's memory are what they would have been,
\* but for r12 and CTR around a long jump.  For a game that neither enters the
\* injected code nor reads what is dead on the stack, and whose displaced
\* instructions leave no return address.
THEOREM ResumesTheGame ==
  Low(scene) /\ LowToc(scene) /\ ~ Links /\ Spec /\ []Behaves => ResumesGameButScratch
<1> DEFINE Fixed == LowToc(scene) /\ ~ Links
<1>1. Behaves => StaysOut
  BY DEF Behaves
<1>2. Fixed /\ [Next]_vars => Fixed'
  <2> SUFFICES ASSUME Fixed, [Next]_vars PROVE Fixed'
    OBVIOUS
  <2>1. scene' = scene
    BY SceneStays
  <2> QED  BY <2>1, SamePlan DEF LowToc
<1>3. Booted /\ Course /\ Kept /\ Fixed /\ Behaves /\ [Next]_vars => [Lax!GameStep]_(Lax!gameVars)
  BY NextSeen
<1>4. Booted /\ Course /\ Kept /\ Fixed /\ Behaves /\ [Next]_vars => Booted' /\ Course' /\ Kept' /\ Fixed'
  BY <1>1, <1>2, NextBooted, NextCourse, NextKept
<1>5. Low(scene) /\ Fixed /\ Init => Booted /\ Course /\ Kept /\ Fixed /\ Lax!GameInit
  BY InitBooted, InitCourse, InitKept, InitSeen
<1> HIDE DEF Fixed
<1>6. Low(scene) /\ Fixed /\ Spec /\ []Behaves => ResumesGameButScratch
  BY <1>3, <1>4, <1>5, PTL DEF Spec, ResumesGameButScratch, Lax!GameSpec
<1> QED  BY <1>6 DEF Fixed

\* With two short jumps the game may look at r12 and CTR too.
LEMMA NextWholeView ==
  ASSUME ~ Links, scene' = scene
  PROVE  View(TRUE)' =
           IF status' # "running" \/ cpu'.pc \in Prefix \cup Window THEN Dawn
           ELSE Sight(GamePc(cpu'.pc), cpu', TRUE, dead')
<1>1. /\ Prefix' = Prefix /\ Window' = Window /\ Resume' = Resume /\ Displaced' = Displaced
      /\ JumpBackPc' = JumpBackPc /\ Links' = Links /\ ShortJumps' = ShortJumps /\ Dawn' = Dawn
  BY SamePlan
<1>2. \A v : OldValue(v)' = v
  BY <1>1 DEF OldValue
<1>3. Starting' <=> status' # "running" \/ cpu'.pc \in Prefix \cup Window
  BY <1>1 DEF Starting
<1>4. CASE Starting'
  <2>1. View(TRUE)' = Dawn'
    BY <1>4 DEF View, Dawn
  <2> QED  BY <1>1, <1>3, <1>4, <2>1
<1>5. CASE ~ Starting'
  <2>1. View(TRUE)' = [pc  |-> GamePc(cpu'.pc),
                       gpr |-> [r \in Regs |-> IF r = 12 /\ ~ TRUE THEN Dawn.gpr[12] ELSE cpu'.gpr[r]],
                       lr  |-> cpu'.lr,
                       ctr |-> IF TRUE THEN cpu'.ctr ELSE Dawn.ctr,
                       mem |-> [a \in DOMAIN cpu'.mem \ dead' |-> cpu'.mem[a]]]
    BY <1>1, <1>2, <1>5 DEF View, Dawn, GamePc, OldPlace
  <2> QED  BY <1>3, <1>5, <2>1 DEF Sight, Mach, GprSight, CtrSight, MemSight
<1> QED  BY <1>4, <1>5

LEMMA WholeSteps ==
  ~ Links /\ ShortJumps /\ scene' = scene /\ [Lax!GameStep]_(Lax!gameVars) => [Whole!GameStep]_(Whole!gameVars)
<1> SUFFICES ASSUME ~ Links, ShortJumps, scene' = scene, [Lax!GameStep]_(Lax!gameVars)
             PROVE  [Whole!GameStep]_(Whole!gameVars)
  OBVIOUS
<1>1. View(ShortJumps) = View(TRUE) /\ View(ShortJumps)' = View(TRUE)'
  <2>1. ShortJumps = TRUE
    BY Zenon DEF ShortJumps
  <2>2. View(ShortJumps)' =
          IF status' # "running" \/ cpu'.pc \in Prefix \cup Window THEN Dawn
          ELSE Sight(GamePc(cpu'.pc), cpu', ShortJumps, dead')
    BY NextView
  <2>3. View(TRUE)' =
          IF status' # "running" \/ cpu'.pc \in Prefix \cup Window THEN Dawn
          ELSE Sight(GamePc(cpu'.pc), cpu', TRUE, dead')
    BY NextWholeView
  <2>4. View(ShortJumps) = View(TRUE)
    BY ONLY Zenon, <2>1
  <2>5. Sight(GamePc(cpu'.pc), cpu', ShortJumps, dead') = Sight(GamePc(cpu'.pc), cpu', TRUE, dead')
    BY ONLY Zenon, <2>1
  <2>6. View(ShortJumps)' = View(TRUE)'
    <3>1. CASE status' # "running" \/ cpu'.pc \in Prefix \cup Window
      BY ONLY Zenon, <2>2, <2>3, <3>1
    <3>2. CASE ~ (status' # "running" \/ cpu'.pc \in Prefix \cup Window)
      BY ONLY Zenon, <2>2, <2>3, <2>5, <3>2
    <3> QED  BY ONLY <3>1, <3>2
  <2> QED  BY ONLY Zenon, <2>4, <2>6
<1>2. CASE Lax!GameStep
  <2>1. Whole!GameStep
    BY <1>1, <1>2 DEF Lax!GameStep, Whole!GameStep, Lax!TextAddrs, Whole!TextAddrs, Lax!TextWord, Whole!TextWord
  <2> QED  BY <2>1
<1>3. CASE UNCHANGED Lax!gameVars
  <2>1. scene' = scene /\ View(ShortJumps)' = View(ShortJumps)
    BY <1>3 DEF Lax!gameVars
  <2>2. View(TRUE)' = View(TRUE)
    BY ONLY Zenon, <1>1, <2>1
  <2>3. UNCHANGED Whole!gameVars
    BY ONLY Zenon, <2>1, <2>2 DEF Whole!gameVars
  <2> QED  BY <2>3
<1> QED  BY <1>2, <1>3

LEMMA InitWhole == Init /\ ~ Links => Whole!GameInit
<1> SUFFICES ASSUME Init, ~ Links PROVE Whole!GameInit
  OBVIOUS
<1>1. scene \in Scenes /\ status = "idle"
  BY DEF Init
<1>2. View(TRUE) = Dawn
  <2>1. Starting
    BY <1>1 DEF Starting
  <2> QED  BY <2>1, ViewIs
<1>3. Whole!Start(scene, Reg(scene.toc)) = Dawn
  BY DEF Dawn, Whole!Start, G!Start, Whole!EntryRegs, G!EntryRegs
<1> QED  BY <1>1, <1>2, <1>3 DEF Whole!GameInit

\* Where both jumps are single branches nothing is excepted: the game resumes
\* exactly as if nothing had happened.
THEOREM ResumesExactly ==
  Low(scene) /\ LowToc(scene) /\ ~ Links /\ ShortJumps /\ Spec /\ []Behaves => ResumesGame
<1> DEFINE Fixed == LowToc(scene) /\ ~ Links /\ ShortJumps
<1>1. Behaves => StaysOut
  BY DEF Behaves
<1>2. Fixed /\ [Next]_vars => Fixed'
  <2> SUFFICES ASSUME Fixed, [Next]_vars PROVE Fixed'
    OBVIOUS
  <2>1. scene' = scene
    BY SceneStays
  <2> QED  BY <2>1, SamePlan DEF LowToc
<1>3. Booted /\ Course /\ Kept /\ Fixed /\ Behaves /\ [Next]_vars => [Whole!GameStep]_(Whole!gameVars)
  BY NextSeen, WholeSteps, SceneStays
<1>4. Booted /\ Course /\ Kept /\ Fixed /\ Behaves /\ [Next]_vars => Booted' /\ Course' /\ Kept' /\ Fixed'
  BY <1>1, <1>2, NextBooted, NextCourse, NextKept
<1>5. Low(scene) /\ Fixed /\ Init => Booted /\ Course /\ Kept /\ Fixed /\ Whole!GameInit
  BY InitBooted, InitCourse, InitKept, InitWhole
<1> HIDE DEF Fixed
<1>6. Low(scene) /\ Fixed /\ Spec /\ []Behaves => ResumesGame
  BY <1>3, <1>4, <1>5, PTL DEF Spec, ResumesGame, Whole!GameSpec
<1> QED  BY <1>6 DEF Fixed
=============================================================================
