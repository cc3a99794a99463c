------------------------------- MODULE Ps3Patch -------------------------------
(***************************************************************************)
(* ps3patch/src/main.cpp: runs of the command-line tool, one after the     *)
(* other, on a disk that remembers.  A run stops at its first error, and   *)
(* the process can be killed, the disk be full or a read be cut short at   *)
(* any point.                                                              *)
(*                                                                         *)
(* A step of the model is what the disk can tell apart: reading the input, *)
(* the work in memory, and opening, writing and closing the output.        *)
(***************************************************************************)
EXTENDS Ps3Elf

CONSTANTS
  Paths,        \* file names
  NoFile,       \* what a path without a file holds
  Disks,        \* initial contents of the disk
  Invocations,  \* argument vectors without the program's name
  Tears(_),     \* how much of n bytes is transferred when a transfer fails
  Faults,       \* the faults that may happen, of FaultNames
  MaxRuns,      \* bound: runs of the tool
  MaxFaults     \* bound: faults

FaultNames == {"read", "open", "write", "flush", "kill"}

ASSUME Ps3PatchAssumption ==
  /\ NoFile \notin Seq(Byte)
  /\ "none" \notin Paths
  /\ Disks \subseteq [Paths -> Seq(Byte) \cup {NoFile}]
  /\ \A args \in Invocations :
       /\ Len(args) \in Nat
       /\ Len(args) = 2 /\ args[1] = "--info" => args[2] \in Paths
       /\ Len(args) = 3 => args[1] \in Paths /\ args[2] \in Paths /\ args[3] \in Seq(Byte)
  /\ Faults \subseteq FaultNames
  /\ MaxRuns \in Nat /\ MaxFaults \in Nat

VARIABLES
  disk,     \* path -> bytes or NoFile
  pc,       \* "idle", "read", "work", "open", "write", "close"
  argv,     \* the arguments of this run
  input,    \* the bytes read
  output,   \* the bytes to write
  exit,     \* "none" while running; "ok" for 0; why it returned 1; "killed"
  report,   \* what --info printed: one report or none
  runs, faults,
  made,     \* history: path -> the input it was patched from, if it was written
            \*   completely and not overwritten since, or NoFile
  kind,     \* history: path -> Kind of what it holds
  before    \* history: disk and made when this run began

vars == << disk, pc, argv, input, output, exit, report, runs, faults, made, kind, before >>

InfoMode == Len(argv) = 2

\* Where the trampolines of a file are in it; two segments can show the same one.
Blobs(f) == {P(f, i, "p_offset") : i \in Trampolines(f)}

\* What a run of the tool will take a file for: see Patcher.
KindOf(r) ==
  IF ~ r.ok \/ ~ resolveEntryDescriptor(r.value).ok THEN "refused"
  ELSE CASE Blobs(r.value) = {} -> "clean"
         [] \E o \in Blobs(r.value) : Blobs(r.value) = {o} -> "patched"
         [] OTHER -> "stacked"

Kind(b) ==
  IF b = NoFile THEN "absent" ELSE CHOOSE k \in {KindOf(r) : r \in {ps3File(b)}} : TRUE

\* Types; the 32-bit fields of the report are in range, and what goes to the
\* disk is bytes.
TypeOK ==
  /\ disk \in [Paths -> Seq(Byte) \cup {NoFile}]
  /\ made \in [Paths -> Seq(Byte) \cup {NoFile}]
  /\ pc \in {"idle", "read", "work", "open", "write", "close"}
  /\ input \in Seq(Byte) /\ output \in Seq(Byte)
  /\ exit \in ErrorCode \cup {"none", "ok", "killed", "Usage", "NotBig64"}
  /\ \A r \in report : r.entry.codeAddress < U32 /\ r.entry.tocValue < U32
  /\ runs \in 0..MaxRuns /\ faults \in 0..MaxFaults

Init ==
  /\ disk \in Disks
  /\ pc = "idle"
  /\ argv = << >>
  /\ input = << >> /\ output = << >>
  /\ exit = "none"
  /\ report = {}
  /\ runs = 0 /\ faults = 0
  /\ made = [p \in Paths |-> NoFile]
  /\ kind = [p \in Paths |-> Kind(disk[p])]
  /\ before = [disk |-> disk, made |-> made]

-----------------------------------------------------------------------------
(***************************************************************************)
(* The process.  argc counts the program's name.                           *)
(***************************************************************************)
Return(status) == pc' = "idle" /\ exit' = status

Invoke(args) ==
  LET argc == Len(args) + 1
      info == argc = 3 /\ args[1] = "--info"
  IN  /\ pc = "idle"
      /\ runs < MaxRuns
      /\ runs' = runs + 1
      /\ argv' = args
      /\ input' = << >> /\ output' = << >>
      /\ report' = {}
      /\ before' = [disk |-> disk, made |-> made]
      /\ \/ (info \/ argc = 4) /\ pc' = "read" /\ exit' = "none"
         \/ ~ info /\ argc # 4 /\ Return("Usage")
      /\ UNCHANGED << disk, faults, made, kind >>

InputPath  == IF InfoMode THEN argv[2] ELSE argv[1]
OutputPath == argv[2]

OnDisk(bytes) ==
  /\ disk' = [disk EXCEPT ![OutputPath] = bytes]
  /\ kind' = [kind EXCEPT ![OutputPath] = Kind(bytes)]

Torn(bytes) == {SubSeq(bytes, 1, n) : n \in Tears(Len(bytes)) \cap (0..(Len(bytes) - 1))}

\* Mutant: the output is opened along with the input.
ReadInputOpensOutput ==
  /\ pc = "read"
  /\ disk[InputPath] # NoFile
  /\ input' = disk[InputPath]
  /\ OnDisk(<< >>)
  /\ pc' = "work"
  /\ UNCHANGED << argv, output, exit, report, runs, faults, made, before >>

\* readFile: the whole file, or a file that does not open.
ReadInput ==
  /\ pc = "read"
  /\ \/ /\ disk[InputPath] # NoFile
        /\ input' = disk[InputPath]
        /\ pc' = "work"
        /\ UNCHANGED exit
     \/ disk[InputPath] = NoFile /\ Return("IoError") /\ UNCHANGED input
  /\ UNCHANGED << disk, argv, output, report, runs, faults, made, kind, before >>

\* --info: parse, format, print.
Info ==
  /\ pc = "work" /\ InfoMode
  /\ \E r \in {AndThen(ps3File(input), formatInfo)} :
       \/ ~ r.ok /\ Return(r.code) /\ UNCHANGED report
       \/ r.ok /\ Return("ok") /\ report' = {r.value}
  /\ UNCHANGED << disk, argv, input, output, runs, faults, made, kind, before >>

\* Patch mode, from parsing to serialize().
Patch ==
  /\ pc = "work" /\ ~ InfoMode
  /\ \E r \in {patchFile(input, argv[3])} :
       \/ r.ok /\ output' = r.value /\ pc' = "open" /\ UNCHANGED exit
       \/ ~ r.ok /\ Return(r.code) /\ UNCHANGED output
  /\ UNCHANGED << disk, argv, input, report, runs, faults, made, kind, before >>

\* Mutant: an existing output is not replaced.
OpenOutputNew ==
  /\ pc = "open"
  /\ \/ disk[OutputPath] = NoFile /\ OnDisk(<< >>)
        /\ pc' = "write" /\ UNCHANGED exit
     \/ disk[OutputPath] # NoFile /\ Return("IoError") /\ UNCHANGED << disk, kind >>
  /\ UNCHANGED << argv, input, output, report, runs, faults, made, before >>

\* writeFile: the constructor of ofstream truncates,
OpenOutput ==
  /\ pc = "open"
  /\ OnDisk(<< >>)
  /\ made' = [made EXCEPT ![OutputPath] = NoFile]
  /\ pc' = "write"
  /\ UNCHANGED << argv, input, output, exit, report, runs, faults, before >>

\* write() hands over all bytes, of which some may stay in the stream's buffer,
WriteOutput ==
  /\ pc = "write"
  /\ \E bytes \in Torn(output) \cup {output} : OnDisk(bytes)
  /\ pc' = "close"
  /\ UNCHANGED << argv, input, output, exit, report, runs, faults, made, before >>

\* and the destructor writes these and closes.  main reports success.
CloseOutput ==
  /\ pc = "close"
  /\ OnDisk(output)
  /\ made' = [made EXCEPT ![OutputPath] = input]
  /\ Return("ok")
  /\ UNCHANGED << argv, input, output, report, runs, faults, before >>

-----------------------------------------------------------------------------
(***************************************************************************)
(* Faults.                                                                 *)
(***************************************************************************)
Fault(name) ==
  /\ name \in Faults
  /\ faults < MaxFaults
  /\ faults' = faults + 1
  /\ UNCHANGED << argv, report, runs, before >>

\* A read error ends the iteration over the stream like the end of the file.
ReadCutShort ==
  /\ pc = "read" /\ disk[InputPath] # NoFile
  /\ input' \in Torn(disk[InputPath])
  /\ pc' = "work"
  /\ Fault("read")
  /\ UNCHANGED << disk, output, exit, made, kind >>

OpenFails ==
  /\ \/ pc = "read"
     \/ pc = "open"
  /\ Return("IoError")
  /\ Fault("open")
  /\ UNCHANGED << disk, input, output, made, kind >>

\* Mutant: the state of the stream is not looked at.
WriteFailsUnnoticed ==
  /\ pc = "write"
  /\ \E bytes \in Torn(output) : OnDisk(bytes)
  /\ Return("ok")
  /\ Fault("write")
  /\ UNCHANGED << input, output, made >>

WriteFails ==
  /\ pc = "write"
  /\ \E bytes \in Torn(output) : OnDisk(bytes)
  /\ Return("IoError")
  /\ Fault("write")
  /\ UNCHANGED << input, output, made >>

\* writeFile has already computed its result when the destructor flushes.
FlushFails ==
  /\ pc = "close"
  /\ disk[OutputPath] # output
  /\ Return("ok")
  /\ Fault("flush")
  /\ UNCHANGED << disk, input, output, made, kind >>

Kill ==
  /\ pc # "idle"
  /\ Return("killed")
  /\ Fault("kill")
  /\ UNCHANGED << disk, input, output, made, kind >>

Step == ReadInput \/ Info \/ Patch \/ OpenOutput \/ WriteOutput \/ CloseOutput

FaultStep == ReadCutShort \/ OpenFails \/ WriteFails \/ FlushFails \/ Kill

Next == (\E args \in Invocations : Invoke(args)) \/ Step \/ FaultStep

Spec == Init /\ [][Next]_vars

\* A script that runs the tool again until it returns 0.
Retry == exit # "ok" /\ \E args \in Invocations : Invoke(args)

\* The system lets the process go on, or ends it; no step of it waits for
\* anything, so that one of them is possible whenever it is running.
Scheduled == pc # "idle" /\ pc' \in {"idle", "work", "open", "write", "close"} \ {pc}

RetrySpec == Init /\ [][Retry \/ Step \/ FaultStep]_vars /\ WF_pc(Scheduled) /\ WF_vars(Retry)

-----------------------------------------------------------------------------
(***************************************************************************)
(* The disk as the user of the tool sees it: module Patcher.               *)
(***************************************************************************)
Writing == pc \in {"write", "close"} /\ disk[OutputPath] # output

User == INSTANCE Patcher WITH job <- IF Writing THEN OutputPath ELSE "none"

\* Whatever is interrupted, a path never holds a file with two trampolines, and
\* a file of which only a part was written is never taken for a clean or for a
\* patched one: its program header table is missing, for that is what
\* addLoadSegment puts last.  This does not hold if a file that begins with its
\* table, and ends with a trampoline, is read in part.
OnceFromClean == User!Spec

-----------------------------------------------------------------------------
(***************************************************************************)
(* The output, against the input it was made from.                         *)
(***************************************************************************)
\* What the properties below compare: the files before and after, the address
\* of the new segment, the last of the output, and the entry of the input.
Change ==
  CHOOSE v \in {[src   |-> src, dst |-> dst, t |-> P(dst, Len(dst.phdrs), "p_vaddr"),
                 entry |-> resolveEntryDescriptor(src).value] :
                src \in {ps3File(input).value}, dst \in {ps3File(output).value}} : TRUE

\* The length of the window at the entry.
WindowSize(v) == Len(Jump(v.entry.codeAddress, codeBaseAddr(v.t)))

\* The bytes of a file at an address, found through its segments.
At(f, vaddr, n) == AndThen(vaddrToFileOffset(f, vaddr), LAMBDA off : readAt(f, off, n))

\* The integration test's chain, by address in the file that is written: the
\* entry jumps past the magic of the new segment, the displaced instructions
\* are in the resume section, behind them is the jump to what follows them.
ChainIntact ==
  output # << >> =>
    \E v \in {Change} : \E code \in {v.entry.codeAddress}, resume \in {resumeAddr(v.t)}, size \in {WindowSize(v)} :
      \E back \in {Jump(resume + size, code + size)} :
        /\ At(v.dst, code, size) = Ok(Jump(code, codeBaseAddr(v.t)))
        /\ At(v.dst, resume, size) = At(v.src, code, size)
        /\ At(v.dst, resume + size, Len(back)) = Ok(back)
        /\ At(v.dst, v.t, MagicSize) = Ok(TRAMPOLINE_MAGIC)

\* Every byte of the input is in the output at its place, but for the window at
\* the entry and the header's e_phoff and e_phnum; the segments it had are in
\* the new table, with exactly one more.
RestKept ==
  output # << >> =>
    \E v \in {Change} : \E at \in {vaddrToFileOffset(v.src, v.entry.codeAddress).value} :
      LET kept == (0..(Len(input) - 1)) \ (at..(at + WindowSize(v) - 1)
                     \cup FieldOffsets(64, "e_phoff") \cup FieldOffsets(64, "e_phnum"))
      IN  /\ \A o \in kept : output[o + 1] = input[o + 1]
          /\ Len(v.dst.phdrs) = Len(v.src.phdrs) + 1
          /\ SubSeq(v.dst.phdrs, 1, Len(v.src.phdrs)) = v.src.phdrs

\* "patching does not corrupt the entry descriptor".  This does not hold for a
\* program whose descriptor lies within five instructions of its entry.
DescriptorKept ==
  output # << >> => \E v \in {Change} : resolveEntryDescriptor(v.dst) = Ok(v.entry)

\* "just past the highest existing PT_LOAD segment, aligned up": the new segment
\* begins where no segment ends later, without skipping a page, and ends within the
\* 32-bit address space.  This does not hold for a segment that ends within the
\* last 64 KB of that space.
NewSegmentClear ==
  output # << >> =>
    \E v \in {Change} : \E ends \in {{0} \cup {SegmentEnd(v.src, i) : i \in LoadSegments(v.src)}} :
      /\ \A e \in ends : e <= v.t
      /\ \E e \in ends : v.t < e + SEGMENT_ALIGN
      /\ v.t + P(v.dst, Len(v.dst.phdrs), "p_memsz") <= U32

-----------------------------------------------------------------------------
(***************************************************************************)
(* Runs.                                                                   *)
(***************************************************************************)

\* A run that refuses its input, or that only looks at it, leaves the disk as
\* it was: the output of an earlier run is not lost to a later error.
RefusalTouchesNothing ==
  exit \notin {"none", "ok", "killed", "IoError"} \/ InfoMode => disk = before.disk

\* "re-running ps3patch on an already-patched file is refused", however many
\* runs lie between, and changes nothing, unless it could not be read.
RepatchRefused ==
  Len(argv) = 3 /\ before.made[InputPath] # NoFile /\ pc = "idle" =>
    /\ exit # "ok"
    /\ disk = before.disk
    /\ input = before.disk[InputPath] => exit \in {"AlreadyPatched", "killed"}

\* --info tells of a file the tool has made that it is patched, the header and
\* the entry of the file it was made from, and that file's segments and one
\* more.
InfoTells ==
  \A r \in report :
    before.made[InputPath] # NoFile =>
      \E src \in {formatInfo(ps3File(before.made[InputPath]).value).value} :
          /\ r.patched
          /\ r.header = src.header /\ r.entry = src.entry
          /\ Len(r.segments) = Len(src.segments) + 1
          /\ SubSeq(r.segments, 1, Len(src.segments)) = src.segments

\* "Wrote %zu bytes to %s", "Patched successfully": a run that returns 0 has
\* left on disk the whole file, made of the whole input.  This does not hold if
\* the flush on closing fails, or if reading does.
SuccessMeansComplete ==
  exit = "ok" /\ ~ InfoMode =>
    Ok(disk[OutputPath]) = patchFile(before.disk[InputPath], argv[3])

\* "write the result to a new file": the input is still there, whatever happens
\* to the run.  This does not hold if both paths are the same.
InputSurvives ==
  Len(argv) = 3 => disk[InputPath] = before.disk[InputPath]

\* An interrupted patch can be repeated: the script ends with the output
\* complete, whatever earlier runs have left in its place.
RetryCompletes ==
  <>[](exit = "ok" /\ \A args \in Invocations : made[args[2]] # NoFile)
=============================================================================
