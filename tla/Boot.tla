--------------------------------- MODULE Boot ---------------------------------
(***************************************************************************)
(* A patched program from buildTrampoline to the game: the blob and the    *)
(* jump at the entry point are built, the loader maps them, and the        *)
(* processor runs through the trampoline, the two system calls and the     *)
(* displaced instructions back into the game's code.                       *)
(*                                                                         *)
(* The processor, the loader and the kernel are external.  The kernel may  *)
(* answer anything, and whatever it or the module it starts may write      *)
(* under the calling convention, it writes.                                *)
(***************************************************************************)
EXTENDS Trampoline, Ppu

CONSTANTS
  Scenes,     \* patching jobs: see Game
  StackTop,   \* the stack pointer at entry
  Answers,    \* results of a system call, errors included
  MaxCalls    \* bound: system calls in one run

ASSUME BootAssumption ==
  /\ \A sc \in Scenes :
       /\ sc.code \in Address /\ sc.toc \in Address /\ sc.trampolineAddr \in Address
       /\ sc.text \in Seq(Word) /\ sc.path \in Seq({n \in Nat : n < 256})
       /\ sc.patched \in BOOLEAN /\ sc.mapped \in BOOLEAN
       /\ sc.cut \in Nat /\ sc.cut <= 4 * Len(sc.text)
  /\ StackTop \in Address /\ StackTop >= 256
  /\ MaxCalls \in Nat

VARIABLES
  status,     \* "idle", "refused", "running"
  err,        \* the ErrorCode of buildTrampoline, or "none"
  scene,      \* the patching job
  image,      \* what the loader maps: [blob, text], the text as bytes
  cpu,        \* the processor
  dead,       \* history: doublewords of memory that are not the game's
  calls       \* history: system calls, [number, args, answer]

vars == << status, err, scene, image, cpu, dead, calls >>

G == INSTANCE Game

Junk == << 3, 3, 3, 3 >>

-----------------------------------------------------------------------------
(***************************************************************************)
(* Addresses.                                                              *)
(***************************************************************************)
CodeBase == codeBaseAddr(scene.trampolineAddr)
Resume   == resumeAddr(scene.trampolineAddr)

Displaced == Len(makeMinimalJump(scene.code, CodeBase))

\* The end of the code in the blob, which is where the path begins.
PathAt ==
  pathAddress(scene.trampolineAddr, Displaced, Len(jumpBack(scene.code, scene.trampolineAddr, Displaced)))

Prefix   == CodeBase .. (Resume - 1)
Moved    == Resume .. (Resume + 4 * Displaced - 1)
Window   == scene.code .. (scene.code + 4 * Displaced - 1)
BlobCode == CodeBase .. (scene.trampolineAddr + Len(image.blob) - 1)
Text     == scene.code .. (scene.code + Len(image.text) - 1)

Fetch(a) ==
  IF a \in BlobCode THEN WordAt(image.blob, a - scene.trampolineAddr)
  ELSE WordAt(image.text, a - scene.code)

-----------------------------------------------------------------------------
Init ==
  /\ scene \in Scenes
  /\ status = "idle"
  /\ err = "none"
  /\ image = [blob |-> << >>, text |-> << >>]
  /\ cpu = G!Start(scene, Junk)
  /\ dead = {}
  /\ calls = << >>

\* buildTrampoline, its entry patch written over the text (the caller's
\* patchBytesAt), and the loader.
Patch ==
  LET bytes == toBigEndianBytes(scene.text)
      r == buildTrampoline([patched |-> scene.patched, mapped |-> scene.mapped,
                            bytes |-> SubSeq(bytes, 1, scene.cut)],
                           [codeAddress |-> scene.code, tocValue |-> scene.toc],
                           scene.trampolineAddr, scene.path)
  IN  /\ status = "idle"
      /\ \/ /\ r.ok
            /\ status' = "running"
            /\ image' = [blob |-> r.value.blob,
                         text |-> [k \in 1..Len(bytes) |->
                                     IF k <= Len(r.value.entryPatchBytes)
                                     THEN r.value.entryPatchBytes[k] ELSE bytes[k]]]
            /\ UNCHANGED err
         \/ ~ r.ok /\ status' = "refused" /\ err' = r.code /\ UNCHANGED image
      /\ UNCHANGED << scene, cpu, dead, calls >>

\* The processor executes one instruction.  A store in the injected code is
\* not the game's; the displaced instructions are.
Execute ==
  LET i == Decode(Fetch(cpu.pc))
  IN  /\ status = "running"
      /\ cpu.pc \in BlobCode \cup Text /\ cpu.pc % 4 = 0
      /\ i.op \in Executed
      /\ \E taken \in BOOLEAN : cpu' = Exec(cpu, i, taken)
      /\ dead' = IF i.op \notin {"std", "stdu"} THEN dead
                 ELSE IF cpu.pc \in Prefix THEN dead \cup {AddrOf(Ea(cpu, i))}
                 ELSE dead \ {AddrOf(Ea(cpu, i))}
      /\ UNCHANGED << status, err, scene, image, calls >>

\* The memory the kernel, or the initialisation routine of the module running
\* on this thread, may write: below the stack pointer, and the linkage and
\* parameter area of the frame that calls it.
CalleeArea == { AddrOf(cpu.gpr[1]) + d : d \in {-112, -8, 8, 16, 48, 104} }

Volatile == {0} \cup 4..12

SystemCall ==
  /\ status = "running"
  /\ cpu.pc \in Prefix
  /\ Decode(Fetch(cpu.pc)).op = "sc"
  /\ Len(calls) < MaxCalls
  /\ \E answer \in Answers :
       /\ calls' = Append(calls, [number |-> AddrOf(cpu.gpr[11]),
                                  args   |-> [k \in 1..6 |-> cpu.gpr[2 + k]],
                                  answer |-> answer])
       /\ cpu' = [cpu EXCEPT !.pc = cpu.pc + 4, !.lr = Junk, !.ctr = Junk,
                    !.gpr = [r \in Regs |-> IF r = 3 THEN answer
                                            ELSE IF r \in Volatile THEN Junk ELSE cpu.gpr[r]],
                    !.mem = Written(cpu.mem, CalleeArea, Junk)]
  /\ dead' = dead \cup CalleeArea
  /\ UNCHANGED << status, err, scene, image >>

Next == Patch \/ Execute \/ SystemCall

\* The processor goes on executing and a system call returns.
Spec == Init /\ [][Next]_vars /\ WF_vars(Execute \/ SystemCall)

-----------------------------------------------------------------------------
(***************************************************************************)
(* The view of the game: inside the trampoline it has not started; a       *)
(* displaced instruction runs as if at its old place, and an address of    *)
(* one (a return address) stands for the old place too.                    *)
(***************************************************************************)
OldPlace(a) == IF a \in Resume .. (Resume + 4 * Displaced) THEN scene.code + (a - Resume) ELSE a

\* One of the displaced instructions leaves a return address.
Links ==
  \E k \in 1..Displaced :
    LET i == Decode(scene.text[k]) IN i.op \in Branches /\ i.lk = 1

OldValue(v) ==
  IF Links /\ AddrOf(v) \in Resume .. (Resume + 4 * Displaced) THEN Reg(OldPlace(AddrOf(v))) ELSE v

JumpBackPc == (Resume + 4 * Displaced) .. (PathAt - 1)

Starting == status # "running" \/ cpu.pc \in Prefix \cup Window

\* keep is FALSE for the view that does not look at r12 and CTR.
View(keep) ==
  LET start == G!Start(scene, Reg(scene.toc))
  IN  IF Starting THEN start
      ELSE [pc  |-> IF cpu.pc \in JumpBackPc THEN scene.code + 4 * Displaced ELSE OldPlace(cpu.pc),
            gpr |-> [r \in Regs |-> IF r = 12 /\ ~ keep THEN start.gpr[12] ELSE OldValue(cpu.gpr[r])],
            lr  |-> OldValue(cpu.lr),
            ctr |-> IF keep THEN OldValue(cpu.ctr) ELSE start.ctr,
            mem |-> [a \in DOMAIN cpu.mem \ dead |-> OldValue(cpu.mem[a])]]

Whole == INSTANCE Game WITH cpu <- View(TRUE)

\* Both jumps are single branches.
ShortJumps ==
  Displaced = 1 /\ Len(jumpBack(scene.code, scene.trampolineAddr, Displaced)) = 1

Lax == INSTANCE Game WITH cpu <- View(ShortJumps)

\* "hands control back exactly where it would have gone otherwise": the
\* patched program, seen from the game, is a run of the original program.
\* Every register, LR, CTR and all of the game's memory are as they would be.
ResumesGame == Whole!GameSpec

\* The same, except that r12 and CTR, which a long jump overwrites, are not
\* looked at if one of the two jumps is long.
ResumesGameButScratch == Lax!GameSpec

\* The trampoline is where ps3patch puts it, above the program, and below the
\* middle of the address space, where loadImmediate32 loads what it is asked to.
Low(sc) ==
  /\ sc.code + 4 * Len(sc.text) <= sc.trampolineAddr
  /\ sc.trampolineAddr + L!blobSize(5, 5, kMaxPathLength) <= AddrMod \div 2

\* The TOC of the game is there too.
LowToc(sc) == sc.toc < AddrMod \div 2

\* Where a displaced call returns to.
ReturnPoints == { Resume + 4 * k : k \in 1..Displaced }

\* What the patched program relies on in a game: an instruction of the game,
\* wherever it runs, does not branch to a displaced instruction's old place or
\* into the injected code (but for a return to a displaced call), does not read what
\* the trampoline left on the dead part of the stack, and, if a jump is long,
\* uses neither r12 nor CTR.
Stranger(i) ==
  \/ /\ i.op \in Branches
     /\ Target(cpu, i) \in Window \cup (BlobCode \ IF Links THEN ReturnPoints ELSE {})

UsesScratch(i) ==
  \/ i.op \in Executed \ Branches /\ i.t = 12
  \/ i.op \in {"addi", "addis", "ori", "rldicl", "ld", "std", "stdu"} /\ i.a = 12
  \/ i.op \in {"mfspr", "mtspr"} /\ i.spr = 9
  \/ i.op \in {"bc", "bclr"} /\ CountsDown(i.bo)
  \/ i.op = "bcctr"

AtGame == status = "running" /\ cpu.pc \in Moved \cup (Text \ Window)

StaysOut == AtGame => ~ Stranger(Decode(Fetch(cpu.pc)))

Behaves ==
  /\ StaysOut
  /\ AtGame => LET i == Decode(Fetch(cpu.pc))
               IN  /\ i.op = "ld" => AddrOf(Ea(cpu, i)) \notin dead
                   /\ ShortJumps \/ ~ UsesScratch(i)

\* "makeAbsoluteJump can reach any 32-bit address": from the entry point on,
\* the processor is in the jump-in or in the injected code until the first
\* system call.
EntersTrampoline ==
  status = "running" /\ calls = << >> => cpu.pc \in Window \cup Prefix

\* "hands control back exactly where it would have gone otherwise": once the
\* game runs, nothing executes the words that were written over its entry
\* point.  This does not hold for a game that branches there.
WindowOnlyOnEntry ==
  status = "running" /\ cpu.pc \in Window => calls = << >>

\* sys_prx_load_module gets a pointer to the null-terminated path, and zeros.
LoadGetsPath ==
  calls # << >> =>
    LET c == calls[1]
        p == AddrOf(c.args[1]) - scene.trampolineAddr
    IN  /\ c.number = SYS_PRX_LOAD_MODULE
        /\ p + Len(scene.path) < Len(image.blob)
        /\ SubSeq(image.blob, p + 1, p + Len(scene.path) + 1) = scene.path \o << 0 >>
        /\ c.args[2] = Reg(0) /\ c.args[3] = Reg(0)

\* sys_prx_start_module gets what the load returned, and zeros.
StartGetsId ==
  Len(calls) > 1 =>
    /\ calls[2].number = SYS_PRX_START_MODULE
    /\ calls[2].args[1] = calls[1].answer
    /\ \A k \in 2..6 : calls[2].args[k] = Reg(0)

\* "loaded and started before the game's original code ever runs": no displaced
\* instruction and nothing after the window runs before both calls.
ModuleFirst ==
  status = "running" /\ cpu.pc \notin Prefix \cup Window => Len(calls) >= 2

\* And once: whatever the game's code does that does not branch to its entry, the
\* injected code does not run again.
ModuleOnce == Len(calls) <= 2

\* The two "internal inconsistency" checks never fire: the layout that was
\* planned is the code that was assembled, and the blob has the planned size.
LayoutAgrees ==
  /\ err # "Unsupported"
  /\ status = "running" =>
       Len(image.blob) = L!blobSize(Displaced, Len(jumpBack(scene.code, scene.trampolineAddr, Displaced)),
                                    Len(scene.path))

\* Whatever the kernel answers, the game gets past its entry point.
GameProceeds ==
  (status = "running") ~> (cpu.pc \notin BlobCode \cup Window)
=============================================================================
