------------------------------ MODULE Relocation ------------------------------
(***************************************************************************)
(* One instruction that the ppc encoders assemble and that the relocator   *)
(* then moves from address to address, as relocateDisplacedInstructions    *)
(* moves each instruction of the displaced window.  Isa says what a word   *)
(* means to the processor where it stands, and the properties say that the *)
(* meaning never changes.                                                  *)
(***************************************************************************)
EXTENDS Trampoline, Isa

CONSTANTS
  Instrs,     \* instructions to assemble, in the notation of Decode
  Addresses   \* where they are placed and moved

\* The instructions there is an encoder for, with the arguments its parameter
\* types allow: int16_t and uint16_t immediates, registers and conditions of
\* five bits; a displacement is any integer.  bcctr is only ever bctr, and a
\* bclr is only ever met in the code of the game.
Bit      == 0 .. 1
Register == 0 .. 31
Signed   == {n \in Int : -32768 <= n /\ n <= 32767}
Unsigned == {n \in Nat : n < 65536}

Instructions ==
       [op : {"addi", "addis"}, t : Register, a : Register, imm : Signed]
  \cup [op : {"ori"}, t : Register, a : Register, imm : Unsigned]
  \cup [op : {"rldicl"}, t : Register, a : Register, sh : 0 .. 63, mb : 0 .. 63, rc : Bit]
  \cup [op : {"mtspr", "mfspr"}, t : Register, spr : 0 .. 1023]
  \cup [op : {"std", "stdu", "ld", "ldu"}, t : Register, a : Register, imm : Int]
  \cup [op : {"b"}, imm : Int, aa : Bit, lk : Bit]
  \cup [op : {"bc"}, bo : Register, bi : Register, imm : Int, aa : Bit, lk : Bit]
  \cup [op : {"bclr"}, bo : Register, bi : Register, lk : Bit]
  \cup {[op |-> "bcctr", bo |-> 20, bi |-> 0, lk |-> 0], [op |-> "sc"]}

ASSUME RelocationAssumption ==
  /\ Instrs \subseteq Instructions
  /\ Addresses \subseteq Address

VARIABLES
  status,   \* "empty", "placed", "rejected" (encoder threw), "refused" (nullopt)
  meant,    \* the instruction asked for
  origin,   \* history: the address it was asked for
  first,    \* history: its word there
  word, at, \* its word and address now
  asked     \* the address of the last request

vars == << status, meant, origin, first, word, at, asked >>

\* The encoder call that asks for instruction i.
Encode(i) ==
  CASE i.op = "addi"   -> encodeAddi(i.t, i.a, i.imm)
    [] i.op = "addis"  -> encodeAddis(i.t, i.a, i.imm)
    [] i.op = "ori"    -> encodeOri(i.t, i.a, i.imm)
    [] i.op = "rldicl" -> encodeRldicl(i.t, i.a, i.sh, i.mb, i.rc)
    [] i.op = "mtspr"  -> encodeMtspr(i.t, i.spr)
    [] i.op = "mfspr"  -> encodeMfspr(i.t, i.spr)
    [] i.op = "std"    -> encodeStd(i.t, i.a, i.imm)
    [] i.op = "stdu"   -> encodeStdu(i.t, i.a, i.imm)
    [] i.op = "ld"     -> encodeLd(i.t, i.a, i.imm)
    [] i.op = "ldu"    -> encodeLdu(i.t, i.a, i.imm)
    [] i.op = "b"      -> encodeBranch(i.imm, i.aa, i.lk)
    [] i.op = "bc"     -> encodeBranchConditional(i.bo, i.bi, i.imm, i.aa, i.lk)
    [] i.op = "bcctr"  -> encodeBctr
    [] i.op = "bclr"   -> Form(19, i.bo, i.bi, 32 + i.lk)
    [] i.op = "sc"     -> encodeSc

Init ==
  /\ status = "empty"
  /\ meant = [op |-> "illegal"]
  /\ origin = 0 /\ at = 0 /\ asked = 0
  /\ first = Invalid /\ word = Invalid

Assemble(i, a) ==
  /\ status = "empty"
  /\ meant' = i
  /\ origin' = a /\ at' = a /\ asked' = a
  /\ word' = Encode(i)
  /\ first' = word'
  /\ status' = IF word' = Invalid THEN "rejected" ELSE "placed"

Move(a) ==
  LET moved == relocateInstruction(word, at, a)
  IN  /\ status = "placed"
      /\ asked' = a
      /\ \/ moved # Invalid /\ word' = moved /\ at' = a /\ UNCHANGED status
         \/ moved = Invalid /\ status' = "refused" /\ UNCHANGED << word, at >>
      /\ UNCHANGED << meant, origin, first >>

Next ==
  \/ \E i \in Instrs, a \in Addresses : Assemble(i, a)
  \/ \E a \in Addresses : Move(a)

Spec == Init /\ [][Next]_vars

-----------------------------------------------------------------------------
Relative(i) == i.op \in {"b", "bc"} /\ i.aa = 0

\* The word where it stands is the instruction that was asked for: the encoder
\* put every field where the processor looks for it, and moving a branch kept
\* its form, its condition, its link bit and the address it goes to ("a
\* corrected displacement to still hit the same absolute target").
MeaningKept ==
  status \in {"placed", "refused"} =>
    LET d == Decode(word)
    IN  IF Relative(meant)
        THEN /\ [d EXCEPT !.imm = 0] = [meant EXCEPT !.imm = 0]
             /\ DirectTarget(d, at) = DirectTarget(meant, origin)
        ELSE d = meant

\* Relocation loses nothing: whatever way the instruction went, back at its
\* first address it is the word it was.
BackHome == status = "placed" /\ at = origin => word = first

\* The displacements an instruction has a field for.
Representable(i, d) ==
  CASE i.op = "b"  -> d % 4 = 0 /\ -33554432 <= d /\ d <= 33554431
    [] i.op = "bc" -> d % 4 = 0 /\ -32768 <= d /\ d <= 32767
    [] i.op \in {"ld", "ldu", "std", "stdu"} -> d % 4 = 0 /\ -32768 <= d /\ d <= 32767
    [] OTHER -> TRUE

\* The two refusals are only for what cannot be encoded: an encoder throws
\* only for a displacement its field cannot hold, and a relocation is refused
\* only if the target is out of reach of the new address.
RefusedOnlyIfUnreachable ==
  /\ status = "rejected" => ~ Representable(meant, meant.imm)
  /\ status = "refused"  => ~ Representable(meant, DirectTarget(meant, origin) - asked)

\* The branch classification the relocator decides on is the processor's view
\* of the same word: what it copies verbatim does not depend on its address.
ClassifiedRight ==
  status = "placed" =>
    LET c == classify(word)
        d == Decode(word)
    IN  /\ (c.kind = "DirectRelative") <=> Relative(d)
        /\ (c.kind = "DirectAbsolute") <=> d.op \in {"b", "bc"} /\ d.aa = 1
        /\ c.kind = "DirectAbsolute" => c.absoluteTarget = DirectTarget(d, at)
        /\ (c.kind = "ToLinkRegister")  <=> d.op = "bclr"
        /\ (c.kind = "ToCountRegister") <=> d.op = "bcctr"
        /\ c.kind # "NotABranch" => c.link = d.lk
=============================================================================
