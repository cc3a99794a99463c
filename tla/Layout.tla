------------------------------- MODULE Layout -------------------------------
(***************************************************************************)
(* What buildTrampoline decides before it emits an instruction: which jump *)
(* reaches, whether the job is refused, and how large the blob will be.    *)
(* Trampoline uses it with the numbers of the code, Ps3Patch, which leaves *)
(* the instructions out, with smaller ones.                                *)
(***************************************************************************)
EXTENDS Integers, Result

CONSTANTS
  Reach,        \* a direct branch goes from -Reach to Reach - 4; 2^25 in the code
  PrefixCount,  \* fixedPrefixInstrCount, 49 in the code
  MaxPath       \* kMaxPathLength, 1023 in the code

MagicSize == 8

reaches(fromAddr, toAddr) ==
  LET disp == toAddr - fromAddr
  IN  disp % 4 = 0 /\ disp >= -Reach /\ disp <= Reach - 4

\* Mutant: five instructions are always reserved.
JumpLengthAlwaysLong(fromAddr, toAddr) == 5

\* Instructions of the smallest jump.
jumpLength(fromAddr, toAddr) == IF reaches(fromAddr, toAddr) THEN 1 ELSE 5

\* The refusals that do not depend on the displaced instructions, in the order
\* of the code.  file.left is the number of bytes from the entry to the end of
\* the file, displacedCount the length of the jump-in.
checks(file, codeAddress, trampolineAddr, displacedCount, pathLength) ==
  IF \/ pathLength \notin 1..MaxPath
     \/ trampolineAddr % 4 # 0
     \/ codeAddress % 4 # 0             THEN Err("InvalidArgument")
  ELSE IF file.patched                  THEN Err("AlreadyPatched")
  ELSE IF ~ file.mapped                 THEN Err("OffsetOutOfBounds")
  ELSE IF file.left < displacedCount * 4 THEN Err("TruncatedFile")
  ELSE Ok("checked")

\* The size of the blob: magic, code, path with its null, rounded up to words.
blobSize(displacedCount, jumpBackCount, pathLength) ==
  LET n == MagicSize + (PrefixCount + displacedCount + jumpBackCount) * 4 + pathLength + 1
  IN  n + ((-n) % 4)
=============================================================================
