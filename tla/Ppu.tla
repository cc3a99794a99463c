--------------------------------- MODULE Ppu ---------------------------------
(***************************************************************************)
(* The processor the emitted words run on: what the instructions of Isa do *)
(* (Power ISA v2.06, 64-bit).  External, as Isa is.                        *)
(*                                                                         *)
(* A register holds 64 bits as four halves, most significant first, of     *)
(* HalfMod values each.                                                    *)
(***************************************************************************)
EXTENDS Isa

Regs == 0 .. 31

\* An address in a register, and the address a register holds; NoAddress when
\* its upper 32 bits are not clear, since nothing is mapped there.
NoAddress == AddrMod
Reg(a)    == << 0, 0, a \div HalfMod, a % HalfMod >>
AddrOf(v) == IF v[1] = 0 /\ v[2] = 0 THEN v[3] * HalfMod + v[4] ELSE NoAddress

\* A signed 16-bit immediate extended to 64 bits, and the same shifted left by
\* one half (addis).
Extended(n) == LET f == IF n < 0 THEN HalfMod - 1 ELSE 0 IN << f, f, f, n % HalfMod >>
Shifted(n)  == LET v == Extended(n) IN << v[2], v[3], v[4], 0 >>

Plus(x, y) ==
  LET s4 == x[4] + y[4]
      s3 == x[3] + y[3] + (s4 \div HalfMod)
      s2 == x[2] + y[2] + (s3 \div HalfMod)
      s1 == x[1] + y[1] + (s2 \div HalfMod)
  IN  << s1 % HalfMod, s2 % HalfMod, s3 % HalfMod, s4 % HalfMod >>

-----------------------------------------------------------------------------
(***************************************************************************)
(* Execution of one instruction other than sc.  A machine state is         *)
(*    [pc, gpr, lr, ctr, mem]                                              *)
(* mem holds the doublewords written so far.  The condition register is    *)
(* not modelled: taken says how a conditional branch goes.                 *)
(***************************************************************************)

\* What memory holds before anything is stored there.
Untouched(ea) == << 1, 1, ea \div HalfMod, ea % HalfMod >>

Peek(s, ea) == IF ea \in DOMAIN s.mem THEN s.mem[ea] ELSE Untouched(ea)

\* Memory m with v written to the addresses of S.
Written(m, S, v) == [a \in S \cup DOMAIN m |-> IF a \in S THEN v ELSE m[a]]

Base(s, a) == IF a = 0 THEN << 0, 0, 0, 0 >> ELSE s.gpr[a]

\* The register of an effective address.
Ea(s, i) == Plus(Base(s, i.a), Extended(i.imm))

\* The bitwise or of two halves: what both have in common counts once.
Or(x, y) ==
  LET Both(p) == IF (x \div p) % 2 = 1 /\ (y \div p) % 2 = 1 THEN p ELSE 0
  IN  x + y - (Both(1) + Both(2) + Both(4) + Both(8) + Both(16) + Both(32) + Both(64) + Both(128)
                 + Both(256) + Both(512) + Both(1024) + Both(2048) + Both(4096) + Both(8192)
                 + Both(16384) + Both(32768))

\* The high n bits of v cleared, for whole halves.
ClearHigh(v, n) == [k \in 1..4 |-> IF k <= n \div 16 THEN 0 ELSE v[k]]

Always(bo)     == (bo \div 16) % 2 = 1 /\ (bo \div 4) % 2 = 1
CountsDown(bo) == (bo \div 4) % 2 = 0

\* The instructions that are modelled, sc apart, and the branches among them.
Branches == {"b", "bc", "bclr", "bcctr"}
Executed == {"addi", "addis", "ori", "rldicl", "mfspr", "mtspr", "ld", "std", "stdu"} \cup Branches

\* Where a branch goes; the two low bits of LR and CTR are ignored.
Target(s, i) ==
  LET Aligned(a) == a - (a % 4)
  IN  CASE i.op = "bclr"  -> Aligned(AddrOf(s.lr))
        [] i.op = "bcctr" -> Aligned(AddrOf(s.ctr))
        [] OTHER          -> DirectTarget(i, s.pc)

\* A branch; only its own condition decides whether it is taken.
Branch(s, i, bo, taken) ==
  LET goes == Always(bo) \/ taken
  IN  [s EXCEPT !.pc  = IF goes THEN Target(s, i) ELSE s.pc + 4,
                !.lr  = IF i.lk = 1 THEN Reg(s.pc + 4) ELSE s.lr,
                !.ctr = IF CountsDown(bo) THEN Plus(s.ctr, Extended(-1)) ELSE s.ctr]

Exec(s, i, taken) ==
  LET Set(reg, v) == [s EXCEPT !.pc = s.pc + 4, !.gpr[reg] = v]
      ea    == Ea(s, i)
      Put   == [s EXCEPT !.pc = s.pc + 4, !.mem = Written(s.mem, {AddrOf(ea)}, s.gpr[i.t])]
  IN  CASE i.op = "addi"   -> Set(i.t, Ea(s, i))
        [] i.op = "addis"  -> Set(i.t, Plus(Base(s, i.a), Shifted(i.imm)))
        [] i.op = "ori"    -> Set(i.t, [s.gpr[i.a] EXCEPT ![4] = Or(s.gpr[i.a][4], i.imm)])
        [] i.op = "rldicl" -> Set(i.t, ClearHigh(s.gpr[i.a], i.mb))
        [] i.op = "mfspr"  -> Set(i.t, CASE i.spr = 8 -> s.lr [] i.spr = 9 -> s.ctr [] OTHER -> s.gpr[i.t])
        [] i.op = "mtspr"  -> [s EXCEPT !.pc  = s.pc + 4,
                                        !.lr  = IF i.spr = 8 THEN s.gpr[i.t] ELSE s.lr,
                                        !.ctr = IF i.spr = 9 THEN s.gpr[i.t] ELSE s.ctr]
        [] i.op = "ld"     -> Set(i.t, Peek(s, AddrOf(ea)))
        [] i.op = "std"    -> Put
        [] i.op = "stdu"   -> [Put EXCEPT !.gpr[i.a] = ea]
        [] i.op = "b"      -> Branch(s, i, 20, TRUE)
        [] i.op \in {"bc", "bclr", "bcctr"} -> Branch(s, i, i.bo, taken)
=============================================================================
