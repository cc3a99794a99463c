---------------------------- MODULE Ps3PatchProofs ----------------------------
(***************************************************************************)
(* Theorems about runs of the tool, for every disk, every sequence of      *)
(* invocations, every fault and every value of the constants.              *)
(***************************************************************************)
EXTENDS Ps3Patch, Ps3ElfProofs

Contents == Seq(Byte) \cup {NoFile}

-----------------------------------------------------------------------------
(* The inductive invariant. *)

\* The arguments of a run that is under way, or that has written a file.
ArgsOK ==
  /\ Len(argv) \in Nat
  /\ Len(argv) = 3 => argv[1] \in Paths /\ argv[2] \in Paths /\ argv[3] \in Seq(Byte)
  /\ pc # "idle" => Len(argv) = 3 \/ (Len(argv) = 2 /\ argv[2] \in Paths)

\* The disk is touched only between opening the output and closing it; --info
\* never gets there.
Untouched ==
  /\ before.disk \in [Paths -> Contents] /\ before.made \in [Paths -> Contents]
  /\ pc \in {"read", "work", "open"} => disk = before.disk /\ made = before.made
  /\ pc # "idle" => exit = "none"
  /\ pc \in {"open", "write", "close"} => Len(argv) = 3
  /\ RefusalTouchesNothing

\* What is to be written is the patched input.
OutputMade ==
  /\ pc \in {"read", "work"} => output = << >>
  /\ output # << >> \/ pc \in {"open", "write", "close"} =>
       Len(argv) = 3 /\ patchFile(input, argv[3]) = Ok(output)

IInv == TypeOK /\ ArgsOK /\ Untouched /\ OutputMade

-----------------------------------------------------------------------------
(* What the actions use. *)

\* A part of a buffer is a buffer.
LEMMA TornType ==
  ASSUME NEW b \in Seq(Byte), NEW t \in Torn(b)
  PROVE  t \in Seq(Byte)
<1>1. PICK n \in 0..(Len(b) - 1) : t = SubSeq(b, 1, n)
  BY DEF Torn
<1>2. n \in Nat /\ n <= Len(b) /\ Len(b) \in Nat
  BY <1>1
<1>3. PICK m \in Nat : m = 1
  OBVIOUS
<1>4. m >= 1 /\ m <= n + 1
  BY <1>2, <1>3
<1>5. SubSeq(b, m, n) \in Seq(Byte)
  BY ONLY <1>2, <1>3, <1>4, b \in Seq(Byte), SubSeqOf
<1> QED  BY <1>1, <1>3, <1>5

\* A report on f has its entry; the tool may refuse to make one.
LEMMA InfoResult ==
  ASSUME NEW f \in FileType, Sized(f)
  PROVE  \/ Refuses(formatInfo(f))
         \/ \E v : /\ formatInfo(f) = Ok(v)
                   /\ v.entry.codeAddress < U32 /\ v.entry.tocValue < U32
<1> DEFINE rd == resolveEntryDescriptor(f)
           rep(entry) == [header |-> [name \in {"e_machine", "e_type", "e_flags", "e_entry"} |-> H(f, name)],
                          unusual |-> ~ hasTypicalEFlags(f),
                          entry |-> entry,
                          patched |-> isAlreadyPatched(f),
                          segments |-> [i \in 1..Len(f.phdrs) |-> SegmentLine(f, i)]]
<1>d. formatInfo(f) = IF rd.ok THEN Ok(rep(rd.value)) ELSE rd
  BY DEF formatInfo, AndThen
<1>e. \A entry : rep(entry).entry = entry
  OBVIOUS
<1> HIDE DEF rep
<1>1. CASE Refuses(rd)
  <2> HIDE DEF rd
  <2>1. formatInfo(f) = rd
    BY <1>1, <1>d, RefusedNotOk
  <2> QED  BY <1>1, <2>1
<1>2. CASE \E e, off, d : DescriptorAt(f, e, off, d) /\ rd = Ok(e)
  <2>1. PICK e, off, d : DescriptorAt(f, e, off, d) /\ rd = Ok(e)
    BY <1>2
  <2> HIDE DEF rd
  <2>2. formatInfo(f) = Ok(rep(e))
    BY <1>d, <2>1 DEF Ok
  <2>3. e.codeAddress < U32 /\ e.tocValue < U32
    BY <2>1 DEF DescriptorAt
  <2> QED  BY <2>2, <2>3, <1>e
<1> QED  BY <1>1, <1>2, EntryResult

\* So may it of the bytes of a file.
LEMMA ReportResult ==
  ASSUME NEW b \in Seq(Byte)
  PROVE  LET r == AndThen(ps3File(b), formatInfo)
         IN  \/ Refuses(r)
             \/ \E v : r = Ok(v) /\ v.entry.codeAddress < U32 /\ v.entry.tocValue < U32
<1> DEFINE pf == ps3File(b)
           r  == AndThen(ps3File(b), formatInfo)
<1>d. r = IF pf.ok THEN formatInfo(pf.value) ELSE pf
  BY DEF AndThen
<1> HIDE DEF r
<1>1. CASE Refuses(pf)
  <2> HIDE DEF pf
  <2>1. r = pf
    BY <1>1, <1>d, RefusedNotOk
  <2> QED  BY <1>1, <2>1 DEF r
<1>2. CASE \E f : Loaded(f, b) /\ pf = Ok(f)
  <2>1. PICK f : Loaded(f, b) /\ pf = Ok(f)
    BY <1>2
  <2> HIDE DEF pf
  <2>2. r = formatInfo(f)
    BY <1>d, <2>1 DEF Ok
  <2>3. f \in FileType /\ Sized(f)
    BY <2>1 DEF Loaded
  <2> QED  BY <2>2, <2>3, InfoResult DEF r
<1> QED  BY <1>1, <1>2, FileResult

\* patchFile returns bytes or a reason.
LEMMA PatchType ==
  ASSUME NEW b \in Seq(Byte), NEW path \in Seq(Byte)
  PROVE  Refuses(patchFile(b, path)) \/ \E out \in Seq(Byte) : patchFile(b, path) = Ok(out)
<1>1. CASE Refuses(patchFile(b, path))
  BY <1>1
<1>2. CASE \E f, entry, tr, off, g, h :
             Job(b, f, entry, tr, off, g, h) /\ patchFile(b, path) = Ok(serialize(h))
  <2>1. PICK f, entry, tr, off, g, h : Job(b, f, entry, tr, off, g, h) /\ patchFile(b, path) = Ok(serialize(h))
    BY <1>2
  <2>2. h \in FileType /\ Sized(h)
    BY <2>1 DEF Job
  <2>3. serialize(h) \in Seq(Byte)
    BY <2>2, SerializeShape
  <2> QED  BY <2>1, <2>3
<1> QED  BY <1>1, <1>2, PatchResult

-----------------------------------------------------------------------------
(* The invariant holds at first, and every action keeps it. *)

Exits == ErrorCode \cup {"none", "ok", "killed", "Usage", "NotBig64"}

\* The invariant holds before the first run.
LEMMA InitIInv == Init => IInv
<1> SUFFICES ASSUME Init PROVE IInv
  OBVIOUS
<1> USE Ps3PatchAssumption
<1>0. disk \in [Paths -> Contents] /\ made \in [Paths -> Contents]
  BY DEF Init, Contents
<1>1. << >> \in Seq(Byte) /\ Len(<< >>) = 0
  OBVIOUS
<1>2. TypeOK
  BY <1>0, <1>1 DEF Init, TypeOK, Contents
<1>3. ArgsOK
  BY <1>1 DEF Init, ArgsOK
<1>4. Untouched
  BY <1>0, <1>1 DEF Init, Untouched, RefusalTouchesNothing, InfoMode
<1>5. OutputMade
  BY DEF Init, OutputMade
<1> QED  BY <1>2, <1>3, <1>4, <1>5 DEF IInv

\* The start of a run.
LEMMA InvokeIInv ==
  ASSUME IInv, NEW args \in Invocations, Invoke(args)
  PROVE  IInv'
<1> USE Ps3PatchAssumption
<1>i. TypeOK /\ ArgsOK /\ Untouched /\ OutputMade
  BY DEF IInv
<1>a. /\ Len(args) \in Nat
      /\ Len(args) = 2 /\ args[1] = "--info" => args[2] \in Paths
      /\ Len(args) = 3 => args[1] \in Paths /\ args[2] \in Paths /\ args[3] \in Seq(Byte)
  OBVIOUS
<1>1. /\ runs < MaxRuns /\ runs' = runs + 1 /\ argv' = args
      /\ input' = << >> /\ output' = << >> /\ report' = {}
      /\ before' = [disk |-> disk, made |-> made]
      /\ disk' = disk /\ faults' = faults /\ made' = made
  BY DEF Invoke
<1>2. \/ /\ pc' = "read" /\ exit' = "none"
         /\ Len(args) = 3 \/ (Len(args) = 2 /\ args[1] = "--info")
      \/ pc' = "idle" /\ exit' = "Usage"
  <2>0. \A n \in Nat : (n + 1 = 4 => n = 3) /\ (n + 1 = 3 => n = 2)
    BY ONLY TRUE
  <2>1. (Len(args) + 1 = 4 => Len(args) = 3) /\ (Len(args) + 1 = 3 => Len(args) = 2)
    BY ONLY <1>a, <2>0
  <2> QED  BY <2>1 DEF Invoke, Return
<1>e. << >> \in Seq(Byte)
  OBVIOUS
<1>3. TypeOK'
  <2>1. runs' \in 0..MaxRuns
    BY <1>i, <1>1 DEF TypeOK
  <2>2. pc' \in {"idle", "read", "work", "open", "write", "close"} /\ exit' \in Exits
    BY <1>2 DEF Exits
  <2> QED  BY <1>i, <1>1, <2>1, <2>2, <1>e DEF TypeOK, Exits
<1>4. ArgsOK'
  BY <1>1, <1>2, <1>a DEF ArgsOK
<1>5. Untouched'
  <2>1. disk \in [Paths -> Contents] /\ made \in [Paths -> Contents]
    BY <1>i DEF TypeOK, Contents
  <2>2. before'.disk = disk' /\ before'.made = made' /\ before'.disk = disk /\ before'.made = made
    BY <1>1
  <2>3. RefusalTouchesNothing'
    BY <2>2 DEF RefusalTouchesNothing
  <2> QED  BY <2>1, <2>2, <2>3, <1>2 DEF Untouched
<1>6. OutputMade'
  BY <1>1, <1>2 DEF OutputMade
<1> QED  BY <1>3, <1>4, <1>5, <1>6 DEF IInv

\* The steps before the output is opened leave the disk alone.
LEMMA QuietIInv ==
  ASSUME IInv, ReadInput \/ Info \/ Patch \/ ReadCutShort \/ OpenFails
  PROVE  IInv'
<1> USE Ps3PatchAssumption
<1>i. TypeOK /\ ArgsOK /\ Untouched /\ OutputMade
  BY DEF IInv
<1>u. /\ disk' = disk /\ argv' = argv /\ runs' = runs /\ made' = made /\ before' = before
      /\ pc \in {"read", "work", "open"}
  BY DEF ReadInput, Info, Patch, ReadCutShort, OpenFails, Fault
<1>d. disk = before.disk /\ made = before.made
  BY <1>u, <1>i DEF Untouched
<1>r. RefusalTouchesNothing'
  BY <1>u, <1>d DEF RefusalTouchesNothing
<1>p. InputPath \in Paths /\ (Len(argv) # 2 => argv[3] \in Seq(Byte) /\ Len(argv) = 3)
  BY <1>i, <1>u DEF ArgsOK, InputPath, InfoMode
<1>f. disk[InputPath] # NoFile => disk[InputPath] \in Seq(Byte)
  BY <1>i, <1>p DEF TypeOK
<1>m. faults' \in 0..MaxFaults
  BY <1>i DEF ReadInput, Info, Patch, ReadCutShort, OpenFails, Fault, TypeOK
<1>c. \A r : Refuses(r) => r.ok = FALSE /\ r.code \in Codes
  BY DEF Refuses, Err
<1>k. Codes \subseteq Exits /\ "ok" \in Exits /\ "IoError" \in Exits /\ "none" \in Exits
  BY DEF Codes, Exits, ErrorCode
<1> DEFINE Goal(p) ==
      /\ pc' = p /\ exit' \in Exits /\ input' \in Seq(Byte) /\ output' \in Seq(Byte)
      /\ \A r \in report' : r.entry.codeAddress < U32 /\ r.entry.tocValue < U32
      /\ p # "idle" => exit' = "none" /\ OutputMade'
      /\ p = "open" => Len(argv) = 3
      /\ OutputMade'
<1>g. ASSUME Goal("idle") \/ Goal("work") \/ Goal("open") PROVE IInv'
  <2>1. TypeOK'
    BY <1>g, <1>i, <1>u, <1>m DEF TypeOK, Exits
  <2>2. ArgsOK'
    BY <1>g, <1>i, <1>u DEF ArgsOK
  <2>3. Untouched'
    BY <1>g, <1>i, <1>u, <1>d, <1>r DEF Untouched
  <2>4. OutputMade'
    BY <1>g
  <2> QED  BY <2>1, <2>2, <2>3, <2>4 DEF IInv
<1>t. /\ input \in Seq(Byte) /\ output \in Seq(Byte) /\ exit \in Exits
      /\ \A r \in report : r.entry.codeAddress < U32 /\ r.entry.tocValue < U32
      /\ exit = "none"
  BY <1>i, <1>u DEF TypeOK, Exits, Untouched
<1>1. CASE ReadInput
  <2>1. output = << >> /\ output' = output /\ report' = report
    BY <1>1, <1>i DEF ReadInput, OutputMade
  <2>2. \/ pc' = "work" /\ input' = disk[InputPath] /\ disk[InputPath] # NoFile /\ exit' = exit
        \/ pc' = "idle" /\ exit' = "IoError" /\ input' = input
    BY <1>1 DEF ReadInput, Return
  <2>3. OutputMade'
    BY <2>1, <2>2 DEF OutputMade
  <2> QED  BY <1>g, <1>f, <1>k, <1>t, <2>1, <2>2, <2>3
<1>2. CASE ReadCutShort
  <2>1. output = << >> /\ output' = output /\ report' = report /\ pc' = "work" /\ exit' = exit
    BY <1>2, <1>i DEF ReadCutShort, Fault, OutputMade
  <2>2. input' \in Seq(Byte)
    BY <1>2, <1>f, TornType DEF ReadCutShort
  <2>3. OutputMade'
    BY <2>1 DEF OutputMade
  <2> QED  BY <1>g, <1>k, <1>t, <2>1, <2>2, <2>3
<1>3. CASE OpenFails
  <2>1. output' = output /\ input' = input /\ report' = report /\ pc' = "idle" /\ exit' = "IoError"
    BY <1>3 DEF OpenFails, Fault, Return
  <2>2. OutputMade'
    BY <2>1, <1>i, <1>u DEF OutputMade
  <2> QED  BY <1>g, <1>k, <1>t, <2>1, <2>2
<1>4. CASE Info
  <2> DEFINE r == AndThen(ps3File(input), formatInfo)
  <2>1. output = << >> /\ output' = output /\ input' = input /\ pc' = "idle"
    BY <1>4, <1>i DEF Info, OutputMade, Return
  <2>2. \/ ~ r.ok /\ exit' = r.code /\ report' = report
        \/ r.ok /\ exit' = "ok" /\ report' = {r.value}
    BY <1>4 DEF Info, Return
  <2>3. Refuses(r) \/ \E v : r = Ok(v) /\ v.entry.codeAddress < U32 /\ v.entry.tocValue < U32
    BY <1>t, ReportResult
  <2> HIDE DEF r
  <2>4. exit' \in Exits /\ \A x \in report' : x.entry.codeAddress < U32 /\ x.entry.tocValue < U32
    <3>1. CASE Refuses(r)
      BY <3>1, <2>2, <1>c, <1>k, <1>t
    <3>2. CASE \E v : r = Ok(v) /\ v.entry.codeAddress < U32 /\ v.entry.tocValue < U32
      <4>1. PICK v : r = Ok(v) /\ v.entry.codeAddress < U32 /\ v.entry.tocValue < U32
        BY <3>2
      <4>2. r.ok = TRUE /\ r.value = v
        BY <4>1 DEF Ok
      <4> QED  BY <4>1, <4>2, <2>2, <1>k
    <3> QED  BY <3>1, <3>2, <2>3
  <2>5. OutputMade'
    BY <2>1 DEF OutputMade
  <2> QED  BY <1>g, <1>t, <2>1, <2>4, <2>5
<1>5. CASE Patch
  <2> DEFINE r == patchFile(input, argv[3])
  <2>0. Len(argv) = 3 /\ argv[3] \in Seq(Byte)
    BY <1>5, <1>p DEF Patch, InfoMode
  <2>1. input' = input /\ report' = report /\ output = << >>
    BY <1>5, <1>i DEF Patch, OutputMade
  <2>2. \/ r.ok /\ output' = r.value /\ pc' = "open" /\ exit' = exit
        \/ ~ r.ok /\ pc' = "idle" /\ exit' = r.code /\ output' = output
    BY <1>5 DEF Patch, Return
  <2>3. Refuses(r) \/ \E out \in Seq(Byte) : r = Ok(out)
    BY <2>0, <1>t, PatchType
  <2>4. CASE Refuses(r)
    <3>1. pc' = "idle" /\ exit' \in Exits /\ output' = << >>
      <4> HIDE DEF r
      <4> QED  BY <2>1, <2>2, <2>4, <1>c, <1>k
    <3>2. OutputMade'
      BY <3>1 DEF OutputMade
    <3> QED  BY <1>g, <1>t, <2>1, <3>1, <3>2
  <2>5. CASE \E out \in Seq(Byte) : r = Ok(out)
    <3>1. PICK out \in Seq(Byte) : r = Ok(out)
      BY <2>5
    <3>2. output' = out /\ pc' = "open" /\ exit' = exit
      <4> HIDE DEF r
      <4>1. r.ok = TRUE /\ r.value = out
        BY <3>1 DEF Ok
      <4> QED  BY <4>1, <2>2
    <3>3. OutputMade'
      BY <2>0, <2>1, <3>1, <3>2, <1>u DEF OutputMade
    <3> QED  BY <1>g, <1>t, <2>0, <2>1, <3>1, <3>2, <3>3
  <2> QED  BY <2>3, <2>4, <2>5
<1> QED  BY <1>1, <1>2, <1>3, <1>4, <1>5

\* The steps that write the output, and the ends of a run that interrupt it.
LEMMA WritingIInv ==
  ASSUME IInv, OpenOutput \/ WriteOutput \/ CloseOutput \/ WriteFails \/ FlushFails \/ Kill
  PROVE  IInv'
<1> USE Ps3PatchAssumption
<1>i. TypeOK /\ ArgsOK /\ Untouched /\ OutputMade
  BY DEF IInv
<1>u. /\ argv' = argv /\ runs' = runs /\ before' = before /\ input' = input /\ output' = output
      /\ report' = report /\ pc # "idle"
  BY DEF OpenOutput, WriteOutput, CloseOutput, WriteFails, FlushFails, Kill, Fault
<1>t. /\ disk \in [Paths -> Contents] /\ made \in [Paths -> Contents]
      /\ input \in Seq(Byte) /\ output \in Seq(Byte) /\ exit = "none"
  BY <1>i, <1>u DEF TypeOK, Contents, Untouched
<1>e. << >> \in Seq(Byte)
  OBVIOUS
<1>w. ASSUME NEW bytes \in Seq(Byte), OnDisk(bytes) PROVE disk' \in [Paths -> Contents]
  BY <1>t, <1>w DEF OnDisk, Contents
<1>o. \A bytes \in Torn(output) \cup {output} : bytes \in Seq(Byte)
  BY <1>t, TornType
<1>m. faults' \in 0..MaxFaults
  BY <1>i DEF OpenOutput, WriteOutput, CloseOutput, WriteFails, FlushFails, Kill, Fault, TypeOK
<1>d. disk' \in [Paths -> Contents]
  BY <1>t, <1>e, <1>w, <1>o DEF OpenOutput, WriteOutput, CloseOutput, WriteFails, FlushFails, Kill
<1>h. made' \in [Paths -> Contents]
  BY <1>t DEF OpenOutput, WriteOutput, CloseOutput, WriteFails, FlushFails, Kill, Contents
<1>p. \/ pc' \in {"write", "close"} /\ exit' = "none" /\ pc \in {"open", "write"}
      \/ pc' = "idle" /\ exit' \in {"ok", "IoError", "killed"}
  BY <1>t DEF OpenOutput, WriteOutput, CloseOutput, WriteFails, FlushFails, Kill, Return
<1>s. pc \in {"read", "work"} => disk' = disk
  BY DEF OpenOutput, WriteOutput, CloseOutput, WriteFails, FlushFails, Kill
<1>r. RefusalTouchesNothing'
  <2>1. exit' \in {"none", "ok", "killed", "IoError"}
    BY <1>p
  <2>2. ASSUME Len(argv) = 2 PROVE disk' = before'.disk
    <3>1. pc \notin {"open", "write", "close"}
      BY <1>i, <2>2 DEF Untouched
    <3>2. pc \in {"read", "work"}
      BY <1>i, <1>u, <3>1 DEF TypeOK
    <3> QED  BY <3>2, <1>s, <1>i, <1>u DEF Untouched
  <2> QED  BY <2>1, <2>2, <1>u DEF RefusalTouchesNothing, InfoMode
<1>1. TypeOK'
  <2>1. exit' \in ErrorCode \cup {"none", "ok", "killed", "Usage", "NotBig64"}
    BY <1>p DEF ErrorCode
  <2> QED  BY <1>i, <1>u, <1>m, <1>d, <1>h, <1>p, <2>1 DEF TypeOK, Contents
<1>2. ArgsOK'
  BY <1>i, <1>u DEF ArgsOK
<1>3. Untouched'
  BY <1>i, <1>u, <1>p, <1>r DEF Untouched
<1>4. OutputMade'
  BY <1>i, <1>u, <1>p DEF OutputMade
<1> QED  BY <1>1, <1>2, <1>3, <1>4 DEF IInv

\* So does every step.
LEMMA NextIInv == IInv /\ [Next]_vars => IInv'
<1> SUFFICES ASSUME IInv, [Next]_vars PROVE IInv'
  OBVIOUS
<1>1. CASE \E args \in Invocations : Invoke(args)
  BY <1>1, InvokeIInv
<1>2. CASE Step \/ FaultStep
  BY <1>2, QuietIInv, WritingIInv DEF Step, FaultStep
<1>3. CASE UNCHANGED vars
  BY <1>3 DEF vars, IInv, TypeOK, ArgsOK, Untouched, RefusalTouchesNothing, InfoMode, OutputMade
<1> QED  BY <1>1, <1>2, <1>3 DEF Next

\* The state of the tool is well typed: what goes to the disk is bytes, and the
\* numbers it reports fit 32 bits.
THEOREM ToolTypes == Spec => []TypeOK
<1>1. IInv => TypeOK
  BY DEF IInv
<1> QED  BY InitIInv, NextIInv, <1>1, PTL DEF Spec

\* A run that refuses its input, or that only reports, leaves the disk alone.
THEOREM RefusalIsQuiet == Spec => []RefusalTouchesNothing
<1>1. IInv => RefusalTouchesNothing
  BY DEF IInv, Untouched
<1> QED  BY InitIInv, NextIInv, <1>1, PTL DEF Spec

-----------------------------------------------------------------------------
(* A run that returns 0. *)

\* The input in memory is what was on disk when the run began.
Reading ==
  /\ pc \in {"work", "open", "write", "close"} => input = before.disk[InputPath]
  /\ SuccessMeansComplete

\* Without the faults that go unnoticed, every step keeps this.
LEMMA NextReading ==
  ASSUME Faults \cap {"read", "flush"} = {}, IInv, Reading, [Next]_vars
  PROVE  Reading'
<1> USE Ps3PatchAssumption
<1>i. TypeOK /\ ArgsOK /\ Untouched /\ OutputMade
  BY DEF IInv
<1>f. ~ ReadCutShort /\ ~ FlushFails
  BY DEF ReadCutShort, FlushFails, Fault
<1>g. ASSUME argv' = argv, before' = before, exit' # "ok" \/ Len(argv) = 2,
             pc' \in {"work", "open", "write", "close"} => input' = before.disk[InputPath]
      PROVE  Reading'
  BY <1>g DEF Reading, SuccessMeansComplete, InfoMode, InputPath
<1>1. CASE \E args \in Invocations : Invoke(args)
  <2>1. pc' \in {"idle", "read"} /\ exit' \in {"none", "Usage"}
    BY <1>1 DEF Invoke, Return
  <2> QED  BY <2>1 DEF Reading, SuccessMeansComplete
<1>2. CASE ReadInput
  <2>1. argv' = argv /\ before' = before /\ exit' # "ok"
    BY <1>2, <1>i DEF ReadInput, Return, Untouched
  <2>2. pc' = "idle" \/ input' = before.disk[InputPath]
    BY <1>2, <1>i DEF ReadInput, Return, Untouched
  <2> QED  BY <1>g, <2>1, <2>2
<1>3. CASE Info
  <2>1. argv' = argv /\ before' = before /\ Len(argv) = 2 /\ pc' = "idle"
    BY <1>3 DEF Info, InfoMode, Return
  <2> QED  BY <1>g, <2>1
<1>4. CASE Patch
  <2> DEFINE r == patchFile(input, argv[3])
  <2>1. argv' = argv /\ before' = before /\ input' = input /\ input = before.disk[InputPath]
    BY <1>4 DEF Patch, Reading
  <2>2. (r.ok /\ exit' = exit) \/ (~ r.ok /\ exit' = r.code)
    BY <1>4 DEF Patch, Return
  <2>3. argv[3] \in Seq(Byte) /\ input \in Seq(Byte) /\ exit = "none"
    BY <1>4, <1>i DEF Patch, InfoMode, ArgsOK, TypeOK, Untouched
  <2>4. Refuses(r) \/ \E out \in Seq(Byte) : r = Ok(out)
    BY <2>3, PatchType
  <2> HIDE DEF r
  <2>5. \A x : Refuses(x) => x.code \in Codes
    BY DEF Refuses, Err
  <2>6. \A x : r = Ok(x) => r.ok = TRUE
    BY DEF Ok
  <2>7. "ok" \notin Codes
    BY DEF Codes, ErrorCode
  <2>8. exit' # "ok"
    BY <2>2, <2>3, <2>4, <2>5, <2>6, <2>7
  <2> QED  BY <1>g, <2>1, <2>8
<1>5. CASE OpenOutput \/ WriteOutput \/ WriteFails \/ Kill \/ OpenFails
  <2>1. /\ argv' = argv /\ before' = before /\ input' = input
        /\ exit' \in {exit, "IoError", "killed"}
        /\ pc' = "idle" \/ pc \in {"open", "write"}
    BY <1>5 DEF OpenOutput, WriteOutput, WriteFails, Kill, OpenFails, Fault, Return
  <2>2. pc # "idle"
    BY <1>5 DEF OpenOutput, WriteOutput, WriteFails, Kill, OpenFails
  <2>3. exit = "none"
    BY <2>2, <1>i DEF Untouched
  <2> QED  BY <1>g, <2>1, <2>3 DEF Reading
<1>6. CASE CloseOutput
  <2>1. /\ argv' = argv /\ before' = before /\ pc' = "idle" /\ pc = "close"
        /\ disk' = [disk EXCEPT ![OutputPath] = output]
    BY <1>6 DEF CloseOutput, OnDisk, Return
  <2>2. input = before.disk[InputPath] /\ Len(argv) = 3 /\ patchFile(input, argv[3]) = Ok(output)
    BY <2>1, <1>i DEF Reading, OutputMade
  <2>3. disk'[OutputPath] = output
    BY <2>1, <2>2, <1>i DEF TypeOK, ArgsOK, OutputPath
  <2>4. OutputPath' = OutputPath /\ InputPath' = InputPath
    BY <2>1 DEF OutputPath, InputPath, InfoMode
  <2> QED  BY <2>1, <2>2, <2>3, <2>4 DEF Reading, SuccessMeansComplete
<1>7. CASE UNCHANGED vars
  BY <1>7 DEF vars, Reading, SuccessMeansComplete, InfoMode, InputPath, OutputPath
<1> QED  BY <1>1, <1>2, <1>3, <1>4, <1>5, <1>6, <1>7, <1>f DEF Next, Step, FaultStep

\* A run that returns 0 has left the whole patched input on disk, if no read is
\* cut short and no flush fails: the two faults that main does not notice.
THEOREM SuccessIsComplete ==
  ASSUME Faults \cap {"read", "flush"} = {}
  PROVE  Spec => []SuccessMeansComplete
<1>1. Init => Reading
  BY DEF Init, Reading, SuccessMeansComplete
<1>2. IInv /\ Reading /\ [Next]_vars => Reading'
  BY NextReading
<1>3. Reading => SuccessMeansComplete
  BY DEF Reading
<1> QED  BY InitIInv, NextIInv, <1>1, <1>2, <1>3, PTL DEF Spec

\* The input outlives the run, if it is not also the output.
THEOREM InputIsKept ==
  ASSUME \A args \in Invocations : Len(args) = 3 => args[1] # args[2]
  PROVE  Spec => []InputSurvives
<1> DEFINE Distinct == /\ Len(argv) = 3 => argv[1] # argv[2]
                    /\ InputSurvives
<1>1. Init => Distinct
  BY DEF Init, InputSurvives
<1>2. IInv /\ Distinct /\ [Next]_vars => Distinct'
  <2> SUFFICES ASSUME IInv, Distinct, [Next]_vars PROVE Distinct'
    OBVIOUS
  <2>1. CASE \E args \in Invocations : Invoke(args)
    <3>1. PICK args \in Invocations : Invoke(args)
      BY <2>1
    <3>2. argv' = args /\ disk' = disk /\ before'.disk = disk
      BY <3>1 DEF Invoke
    <3> QED  BY <3>2 DEF InputSurvives
  <2>2. CASE Step \/ FaultStep \/ UNCHANGED vars
    <3>1. argv' = argv /\ before' = before
      BY <2>2 DEF Step, FaultStep, Fault, vars, ReadInput, Info, Patch, OpenOutput, WriteOutput, CloseOutput,
                  ReadCutShort, OpenFails, WriteFails, FlushFails, Kill
    <3>2. disk' = disk \/ \E bytes : disk' = [disk EXCEPT ![OutputPath] = bytes]
      BY <2>2 DEF Step, FaultStep, vars, ReadInput, Info, Patch, OpenOutput, WriteOutput, CloseOutput,
                  ReadCutShort, OpenFails, WriteFails, FlushFails, Kill, OnDisk
    <3>3. disk \in [Paths -> Contents]
      BY DEF IInv, TypeOK, Contents
    <3>4. ASSUME Len(argv) = 3 PROVE disk'[argv[1]] = disk[argv[1]]
      <4>1. argv[1] \in Paths /\ argv[2] \in Paths /\ argv[1] # argv[2]
        BY <3>4 DEF IInv, ArgsOK
      <4> QED  BY <3>2, <3>3, <4>1 DEF OutputPath
    <3> QED  BY <3>1, <3>4 DEF InputSurvives, InputPath, InfoMode
  <2> QED  BY <2>1, <2>2 DEF Next
<1>3. Distinct => InputSurvives
  OBVIOUS
<1> QED  BY InitIInv, NextIInv, <1>1, <1>2, <1>3, PTL DEF Spec

-----------------------------------------------------------------------------
(* The output, against the input. *)

\* What Change is, of an output made of an input that was parsed into f.
Changed(f, entry, tr, off, g, h, dst) ==
  /\ input \in Seq(Byte) /\ Patches(output, input, f, entry, tr, off, g, h, dst)
  /\ Change = [src |-> f, dst |-> dst, t |-> TrampolineAddr(f), entry |-> entry]

\* While there is an output, Change is about it.
LEMMA ChangeOf ==
  ASSUME IInv, output # << >>, Regular(ps3File(input).value)
  PROVE  \E f, entry, tr, off, g, h, dst : Changed(f, entry, tr, off, g, h, dst)
<1>1. input \in Seq(Byte) /\ argv[3] \in Seq(Byte) /\ patchFile(input, argv[3]) = Ok(output)
  BY DEF IInv, TypeOK, ArgsOK, OutputMade
<1>2. PICK f, entry, tr, off, g, h, dst : Patches(output, input, f, entry, tr, off, g, h, dst)
  BY <1>1, PatchedFile
<1>3. /\ ps3File(input).value = f /\ ps3File(output).value = dst /\ resolveEntryDescriptor(f).value = entry
      /\ P(dst, Len(dst.phdrs), "p_vaddr") = TrampolineAddr(f)
  BY <1>2 DEF Patches, Added
<1>4. Change = [src |-> f, dst |-> dst, t |-> TrampolineAddr(f), entry |-> entry]
  <2> DEFINE rec == [src |-> f, dst |-> dst, t |-> TrampolineAddr(f), entry |-> entry]
             all == {[src   |-> src, dst |-> d, t |-> P(d, Len(d.phdrs), "p_vaddr"),
                      entry |-> resolveEntryDescriptor(src).value] :
                      src \in {ps3File(input).value}, d \in {ps3File(output).value}}
  <2>1. all = {rec}
    BY <1>3
  <2>2. Change = CHOOSE v \in all : TRUE
    BY DEF Change
  <2> HIDE DEF all, rec
  <2>3. Change = rec
    BY <2>1, <2>2
  <2> QED  BY <2>3 DEF rec
<1> QED  BY <1>1, <1>2, <1>4 DEF Changed

\* The first n of n + 1 elements.
LEMMA AllButLast ==
  ASSUME NEW S, NEW s \in Seq(S), NEW t \in Seq(S), Len(t) = Len(s) + 1,
         \A i \in 1..Len(s) : t[i] = s[i]
  PROVE  SubSeq(t, 1, Len(s)) = s
<1>1. Len(s) \in Nat
  OBVIOUS
<1>2. SubSeq(t, 1, Len(s)) \in Seq(S) /\ Len(SubSeq(t, 1, Len(s))) = Len(s)
  BY <1>1
<1>3. \A i \in 1..Len(s) : SubSeq(t, 1, Len(s))[i] = t[i]
  BY <1>1
<1> QED  BY <1>1, <1>2, <1>3

\* The record Change, field by field.
LEMMA ChangeFields ==
  ASSUME NEW f, NEW entry, NEW tr, NEW off, NEW g, NEW h, NEW dst, Changed(f, entry, tr, off, g, h, dst)
  PROVE  /\ Change.src = f /\ Change.dst = dst /\ Change.t = TrampolineAddr(f) /\ Change.entry = entry
         /\ Jump(entry.codeAddress, codeBaseAddr(TrampolineAddr(f))) = tr.entryPatchBytes
         /\ WindowSize(Change) = Len(tr.entryPatchBytes)
         /\ vaddrToFileOffset(f, entry.codeAddress) = Ok(off)
         /\ vaddrToFileOffset(f, entry.codeAddress).value = off
<1>1. Change.src = f /\ Change.dst = dst /\ Change.t = TrampolineAddr(f) /\ Change.entry = entry
  BY DEF Changed
<1>2. Built(f, entry, TrampolineAddr(f), tr, off)
  BY DEF Changed, Patches, Job
<1>3. Jump(entry.codeAddress, codeBaseAddr(TrampolineAddr(f))) = tr.entryPatchBytes
  BY <1>2 DEF Built, JumpIn
<1>4. vaddrToFileOffset(f, entry.codeAddress) = Ok(off)
  BY <1>2 DEF Built
<1>5. Ok(off).value = off
  BY DEF Ok
<1>6. WindowSize(Change) = Len(tr.entryPatchBytes)
  BY <1>1, <1>3 DEF WindowSize
<1> QED  BY <1>1, <1>3, <1>4, <1>5, <1>6

\* Nothing but the entry, the header's e_phoff and e_phnum and the end of the
\* file is changed by patching, of every regular file; the segments it had stay
\* as they were, with one more behind them.
THEOREM PatchKeepsRest == Spec => [](Regular(ps3File(input).value) => RestKept)
<1>1. IInv => (Regular(ps3File(input).value) => RestKept)
  <2> SUFFICES ASSUME IInv, Regular(ps3File(input).value), output # << >>
               PROVE  \E v \in {Change} : \E at \in {vaddrToFileOffset(v.src, v.entry.codeAddress).value} :
                        /\ \A o \in (0..(Len(input) - 1)) \ (at..(at + WindowSize(v) - 1)
                               \cup FieldOffsets(64, "e_phoff") \cup FieldOffsets(64, "e_phnum")) :
                             output[o + 1] = input[o + 1]
                        /\ Len(v.dst.phdrs) = Len(v.src.phdrs) + 1
                        /\ SubSeq(v.dst.phdrs, 1, Len(v.src.phdrs)) = v.src.phdrs
    BY DEF RestKept
  <2>1. PICK f, entry, tr, off, g, h, dst : Changed(f, entry, tr, off, g, h, dst)
    BY ChangeOf
  <2>2. /\ Change.src = f /\ Change.dst = dst /\ Change.entry = entry
        /\ WindowSize(Change) = Len(tr.entryPatchBytes)
        /\ vaddrToFileOffset(f, entry.codeAddress).value = off
    BY <2>1, ChangeFields
  <2>3. /\ Output(output, input, f, tr, off, g, h, dst) /\ Added(dst, f, TrampolineAddr(f), Len(tr.blob))
        /\ f \in FileType /\ dst \in FileType
    BY <2>1 DEF Changed, Patches, Job, Loaded, Output
  <2>4. \A o \in (0..(Len(input) - 1)) \ (off..(off + Len(tr.entryPatchBytes) - 1)
               \cup FieldOffsets(64, "e_phoff") \cup FieldOffsets(64, "e_phnum")) :
          output[o + 1] = input[o + 1]
    <3>1. \A o \in 0..(Len(input) - 1) :
            o \notin off..(off + Len(tr.entryPatchBytes) - 1)
              \cup FieldOffsets(64, "e_phoff") \cup FieldOffsets(64, "e_phnum") => output[o + 1] = input[o + 1]
      BY <2>3 DEF Output
    <3> QED  BY ONLY <3>1
  <2>5. Len(dst.phdrs) = Len(f.phdrs) + 1 /\ SubSeq(dst.phdrs, 1, Len(f.phdrs)) = f.phdrs
    <3>1. Len(dst.phdrs) = Len(f.phdrs) + 1 /\ \A i \in 1..Len(f.phdrs) : dst.phdrs[i] = f.phdrs[i]
      BY <2>3 DEF Added
    <3>2. f.phdrs \in Seq(Seq(Byte)) /\ dst.phdrs \in Seq(Seq(Byte))
      BY <2>3 DEF FileType
    <3> QED  BY ONLY <3>1, <3>2, AllButLast
  <2> QED  BY ONLY <2>2, <2>4, <2>5
<1> QED  BY InitIInv, NextIInv, <1>1, PTL DEF Spec

\* The new segment lies above every other one and within 32 bits, if no segment
\* of the input ends in the last 64 KB.
THEOREM SegmentIsClear ==
  Spec => [](Regular(ps3File(input).value) /\ Roomy(ps3File(input).value) => NewSegmentClear)
<1> DEFINE Ends(f) == {0} \cup {SegmentEnd(f, i) : i \in LoadSegments(f)}
<1>1. IInv => (Regular(ps3File(input).value) /\ Roomy(ps3File(input).value) => NewSegmentClear)
  <2> SUFFICES ASSUME IInv, Regular(ps3File(input).value), Roomy(ps3File(input).value), output # << >>
               PROVE  /\ \A e \in Ends(Change.src) : e <= Change.t
                      /\ \E e \in Ends(Change.src) : Change.t < e + U16
                      /\ Change.t + P(Change.dst, Len(Change.dst.phdrs), "p_memsz") <= U32
    BY DEF NewSegmentClear, SEGMENT_ALIGN
  <2>1. PICK f, entry, tr, off, g, h, dst : Changed(f, entry, tr, off, g, h, dst)
    BY ChangeOf
  <2>2. Change.src = f /\ Change.dst = dst /\ Change.t = TrampolineAddr(f)
    BY <2>1, ChangeFields
  <2>3. f \in FileType /\ Sized(f) /\ Roomy(f)
    BY <2>1 DEF Changed, Patches, Job, Loaded
  <2>4. P(dst, Len(dst.phdrs), "p_memsz") = Len(tr.blob)
    BY <2>1 DEF Changed, Patches, Added
  <2>5. tr.blob \in Seq(Byte) /\ Len(tr.blob) < U16
    BY <2>1 DEF Changed, Patches, Job, Built, Assembles
  <2>6. /\ TrampolineAddr(f) \in Nat /\ TrampolineAddr(f) + U16 <= U32
        /\ \A e \in Ends(f) : e <= TrampolineAddr(f)
        /\ \E e \in Ends(f) : TrampolineAddr(f) < e + U16
    BY <2>3, RoomAbove
  <2>7. TrampolineAddr(f) + Len(tr.blob) <= U32
    <3>1. Len(tr.blob) \in Nat /\ U16 \in Nat /\ U32 \in Nat
      BY <2>5, Moduli
    <3> QED  BY ONLY <3>1, <2>5, <2>6
  <2> HIDE DEF Ends
  <2> QED  BY ONLY <2>2, <2>4, <2>6, <2>7
<1> QED  BY InitIInv, NextIInv, <1>1, PTL DEF Spec

\* Patching leaves the entry descriptor of an ordinary program as it was.
THEOREM DescriptorIsKept == Spec => [](Ordinary(ps3File(input).value) => DescriptorKept)
<1>1. IInv => (Ordinary(ps3File(input).value) => DescriptorKept)
  <2> SUFFICES ASSUME IInv, Ordinary(ps3File(input).value), output # << >>
               PROVE  \E v \in {Change} : resolveEntryDescriptor(v.dst) = Ok(v.entry)
    BY DEF DescriptorKept
  <2>0. Regular(ps3File(input).value)
    BY DEF Ordinary
  <2>1. PICK f, entry, tr, off, g, h, dst : Changed(f, entry, tr, off, g, h, dst)
    BY <2>0, ChangeOf
  <2>2. Change.dst = dst /\ Change.entry = entry
    BY <2>1, ChangeFields
  <2>3. Ordinary(f)
    BY <2>1 DEF Changed, Patches
  <2>4. DescriptorOffsets(f) \cap (Window(f) \cup HeaderOffsets(f)) = {}
    BY <2>3 DEF Ordinary
  <2>5. /\ input \in Seq(Byte) /\ Job(input, f, entry, tr, off, g, h) /\ Regular(f)
        /\ Output(output, input, f, tr, off, g, h, dst)
    BY <2>1 DEF Changed, Patches
  <2>6. resolveEntryDescriptor(dst) = Ok(entry)
    BY ONLY <2>4, <2>5, OutputEntryKept
  <2> QED  BY ONLY <2>2, <2>6
<1> QED  BY InitIInv, NextIInv, <1>1, PTL DEF Spec

\* Reading at an address that a segment backs.
LEMMA AtOffset ==
  ASSUME NEW f, NEW a, NEW o, NEW n, vaddrToFileOffset(f, a) = Ok(o)
  PROVE  At(f, a, n) = readAt(f, o, n)
<1> DEFINE r == vaddrToFileOffset(f, a)
<1>1. r = Ok(o)
  OBVIOUS
<1>2. At(f, a, n) = IF r.ok THEN readAt(f, r.value, n) ELSE r
  BY DEF At, AndThen
<1> HIDE DEF r
<1>3. r.ok = TRUE /\ r.value = o
  BY <1>1 DEF Ok
<1> QED  BY <1>2, <1>3

\* No address of the trampoline of an ordinary program wraps around.
LEMMA NoWrap ==
  ASSUME NEW T \in Nat, NEW code \in Nat, NEW size \in {4, 20}, NEW blob \in Seq(Byte), NEW rest \in Nat,
         T + U16 <= U32, code + U16 < U32, Len(blob) < U16, ResumeOffset + size + rest <= Len(blob)
  PROVE  /\ resumeAddr(T) = T + ResumeOffset /\ ResumeOffset \in Nat
         /\ (resumeAddr(T) + size) % U32 = T + (ResumeOffset + size)
         /\ resumeAddr(T) + size = T + (ResumeOffset + size)
         /\ (code + size) % U32 = code + size
<1> DEFINE k == Len(blob)
<1>1. U32 \in Nat /\ U16 \in Nat /\ U16 > 56 /\ k \in Nat /\ size \in Nat /\ size <= 20
  BY Moduli, SegmentRoom
<1>2. PrefixCount \in Nat /\ PrefixCount >= 2
  BY Ps3ElfAssumption
<1> DEFINE pc4 == PrefixCount * 4
<1>3. pc4 \in Nat /\ ResumeOffset = 8 + pc4
  BY <1>2 DEF ResumeOffset, MagicSize
<1>4. k < U16 /\ ResumeOffset + size + rest <= k
  OBVIOUS
<1> HIDE DEF k, pc4
<1>5. T + 8 + pc4 + size < U32 /\ code + size < U32
  BY ONLY <1>1, <1>3, <1>4, T \in Nat, code \in Nat, rest \in Nat, T + U16 <= U32, code + U16 < U32
<1>m. \A x \in Nat : x < U32 => x % U32 = x
  BY ONLY <1>1
<1>6. codeBaseAddr(T) = T + 8
  <2>1. T + 8 \in Nat /\ T + 8 < U32
    BY ONLY <1>1, <1>3, <1>5, T \in Nat
  <2> QED  BY <2>1, <1>m DEF codeBaseAddr, MagicSize
<1>7. resumeAddr(T) = T + ResumeOffset
  <2>1. T + 8 + pc4 \in Nat /\ T + 8 + pc4 < U32
    BY ONLY <1>1, <1>3, <1>5, T \in Nat
  <2>2. resumeAddr(T) = (T + 8 + pc4) % U32
    BY <1>6 DEF resumeAddr, pc4
  <2>3. resumeAddr(T) = T + 8 + pc4
    BY ONLY <2>1, <2>2, <1>m
  <2> QED  BY ONLY <2>3, <1>3, T \in Nat
<1>8. resumeAddr(T) + size = T + (ResumeOffset + size) /\ resumeAddr(T) + size \in Nat /\ resumeAddr(T) + size < U32
  BY ONLY <1>1, <1>3, <1>5, <1>7, T \in Nat
<1>9. (resumeAddr(T) + size) % U32 = T + (ResumeOffset + size)
  BY ONLY <1>8, <1>m
<1>10. code + size \in Nat
  BY ONLY <1>1, code \in Nat
<1> QED  BY ONLY <1>3, <1>5, <1>7, <1>8, <1>9, <1>10, <1>m

\* The chain from the entry through the trampoline and back is in the file that
\* is written, at the addresses the jumps name, for every ordinary program.
THEOREM ChainIsIntact == Spec => [](Ordinary(ps3File(input).value) => ChainIntact)
<1>1. IInv => (Ordinary(ps3File(input).value) => ChainIntact)
  <2> SUFFICES ASSUME IInv, Ordinary(ps3File(input).value), output # << >>
               PROVE  ChainIntact
    BY DEF ChainIntact
  <2>0. Regular(ps3File(input).value)
    BY DEF Ordinary
  <2>1. PICK f, entry, tr, off, g, h, dst : Changed(f, entry, tr, off, g, h, dst)
    BY <2>0, ChangeOf
  <2> DEFINE T    == TrampolineAddr(f)
             code == entry.codeAddress
             bs   == tr.entryPatchBytes
             size == Len(bs)
             old  == Slice(input, off, size)
             back == JumpBack(entry, T)
  <2>2. /\ Change.src = f /\ Change.dst = dst /\ Change.t = T /\ Change.entry = entry
        /\ WindowSize(Change) = size /\ Jump(code, codeBaseAddr(T)) = bs
        /\ vaddrToFileOffset(f, code) = Ok(off)
    BY <2>1, ChangeFields
  <2>3. /\ input \in Seq(Byte) /\ Job(input, f, entry, tr, off, g, h) /\ Regular(f)
        /\ Output(output, input, f, tr, off, g, h, dst)
    BY <2>1 DEF Changed, Patches
  <2>4. Ordinary(f)
    BY <2>1 DEF Changed, Patches
  <2>5. Roomy(f) /\ Window(f) \cap (HeaderOffsets(f) \cup ShdrOffsets(f)) = {}
    BY <2>4 DEF Ordinary
  <2>6. Holds(output, off, bs) /\ bs \in Seq(Byte) /\ size \in {4, 20} /\ off \in Nat
    BY ONLY <2>3, <2>5, OutputJump
  <2>7. f \in FileType /\ Sized(f) /\ f.raw = input /\ dst \in FileType /\ Sized(dst) /\ dst.raw = output
        /\ output \in Seq(Byte)
    BY <2>3 DEF Job, Loaded, Output
  <2>8. code \in Nat /\ code < U32
    BY <2>3 DEF Job, DescriptorAt
  <2>9. Built(f, entry, T, tr, off)
    BY <2>3 DEF Job
  <2>10. /\ tr.blob \in Seq(Byte) /\ Len(tr.blob) < U16 /\ off + size <= Len(input)
         /\ Holds(tr.blob, 0, TRAMPOLINE_MAGIC) /\ Holds(tr.blob, ResumeOffset, old)
         /\ Holds(tr.blob, ResumeOffset + Len(old), back)
    BY <2>7, <2>9 DEF Built, Assembles
  <2>11. T \in Nat /\ T + U16 <= U32
    BY <2>5, <2>7, RoomAbove
  <2>12. back \in Seq(Byte) /\ Len(back) \in {4, 20}
    BY <2>8, <2>11, Jumps
  <2>13. vaddrToFileOffset(f, code).ok /\ code + U16 < U32
    <3>1. \A r : r = Ok(off) => r.ok = TRUE
      BY DEF Ok
    <3>2. vaddrToFileOffset(f, code).ok
      BY ONLY <3>1, <2>2
    <3> QED  BY <3>2, <2>5, <2>7, <2>8, BackedLow
  <2>14. old \in Seq(Byte) /\ Len(old) = size
    BY <2>3, <2>6, <2>10, SliceShape
  <2>jb. back = Jump((resumeAddr(T) + size) % U32, (code + size) % U32)
    BY <2>9 DEF Built, JumpBack
  <2> HIDE DEF T, code, bs, size, old, back
  <2>s. size \in Nat /\ size > 0 /\ size <= 20 /\ U16 \in Nat /\ U16 > 56 /\ size < U16
    <3>1. \A x \in {4, 20} : x \in Nat /\ x > 0 /\ x <= 20
      BY ONLY TRUE
    <3>2. size \in Nat /\ size > 0 /\ size <= 20
      BY ONLY <3>1, <2>6
    <3> QED  BY ONLY <3>2, SegmentRoom
  <2>l. Len(back) \in Nat /\ Len(back) > 0
    <3>1. \A x \in {4, 20} : x \in Nat /\ x > 0
      BY ONLY TRUE
    <3> QED  BY ONLY <3>1, <2>12
  <2>15. /\ resumeAddr(T) = T + ResumeOffset /\ ResumeOffset \in Nat
         /\ (resumeAddr(T) + size) % U32 = T + (ResumeOffset + size)
         /\ resumeAddr(T) + size = T + (ResumeOffset + size)
         /\ (code + size) % U32 = code + size
    <3>1. ResumeOffset + size + Len(back) <= Len(tr.blob)
      BY ONLY <2>10, <2>14 DEF Holds
    <3> QED  BY ONLY <3>1, <2>6, <2>8, <2>10, <2>11, <2>13, <2>l, NoWrap
  <2>16. back = Jump(resumeAddr(T) + size, code + size)
    BY ONLY <2>jb, <2>15
  <2>17. At(dst, code, size) = Ok(bs)
    <3>1. vaddrToFileOffset(dst, code) = Ok(off)
      BY ONLY <2>2, <2>3, <2>8, <2>13, OutputTranslates
    <3>2. off + size <= Len(output)
      BY ONLY <2>6 DEF Holds, size
    <3>3. readAt(dst, off, size) = Ok(Slice(output, off, size))
      BY ONLY <3>2, <2>6, <2>7, <2>s, ReadInside
    <3>4. Slice(output, off, size) = bs
      BY ONLY <2>6, <2>7, SliceHolds DEF size
    <3> QED  BY ONLY <3>1, <3>3, <3>4, AtOffset
  <2>18. At(f, code, size) = Ok(old)
    <3>1. readAt(f, off, size) = Ok(Slice(input, off, size))
      BY ONLY <2>6, <2>7, <2>10, <2>s, ReadInside
    <3> QED  BY ONLY <3>1, <2>2, AtOffset DEF old
  <2>r. ASSUME NEW k \in Nat, NEW d \in Seq(Byte), Len(d) > 0, Holds(tr.blob, k, d)
        PROVE  At(dst, T + k, Len(d)) = Ok(d)
    <3>1. /\ vaddrToFileOffset(dst, T + k) = Ok(Len(input) + k)
          /\ readAt(dst, Len(input) + k, Len(d)) = Ok(d)
      BY ONLY <2>r, <2>3, <2>5, OutputReads DEF T
    <3> QED  BY ONLY <3>1, AtOffset
  <2>19. At(dst, resumeAddr(T), size) = Ok(old)
    BY ONLY <2>r, <2>10, <2>14, <2>15, <2>s
  <2>20. At(dst, resumeAddr(T) + size, Len(back)) = Ok(back)
    <3>1. ResumeOffset + size \in Nat
      BY ONLY <2>15, <2>s
    <3>2. Holds(tr.blob, ResumeOffset + size, back)
      BY ONLY <2>10, <2>14
    <3> QED  BY ONLY <3>1, <3>2, <2>r, <2>12, <2>15, <2>l
  <2>21. At(dst, T, MagicSize) = Ok(TRAMPOLINE_MAGIC)
    <3>1. PICK k \in Nat : k = 0
      OBVIOUS
    <3>2. T + k = T
      BY ONLY <3>1, <2>11
    <3>3. Holds(tr.blob, k, TRAMPOLINE_MAGIC)
      BY ONLY <3>1, <2>10
    <3>4. At(dst, T + k, Len(TRAMPOLINE_MAGIC)) = Ok(TRAMPOLINE_MAGIC)
      <4>1. TRAMPOLINE_MAGIC \in Seq(Byte) /\ Len(TRAMPOLINE_MAGIC) > 0
        BY MagicShape
      <4> QED  BY ONLY <2>r, <3>3, <4>1, k \in Nat
    <3>5. Len(TRAMPOLINE_MAGIC) = MagicSize
      BY MagicShape DEF MagicSize
    <3> QED  BY ONLY <3>2, <3>4, <3>5
  <2> QED
    <3>1. \E resume \in {resumeAddr(T)} : \E bk \in {Jump(resume + size, code + size)} :
            /\ At(dst, code, size) = Ok(Jump(code, codeBaseAddr(T)))
            /\ At(dst, resume, size) = At(f, code, size)
            /\ At(dst, resume + size, Len(bk)) = Ok(bk)
            /\ At(dst, T, MagicSize) = Ok(TRAMPOLINE_MAGIC)
      BY ONLY <2>2, <2>16, <2>17, <2>18, <2>19, <2>20, <2>21
    <3>2. Change.entry.codeAddress = code
      BY <2>2 DEF code
    <3> QED  BY ONLY <3>1, <3>2, <2>2 DEF ChainIntact
<1> QED  BY InitIInv, NextIInv, <1>1, PTL DEF Spec

-----------------------------------------------------------------------------
(* Runs that follow one another. *)

\* What the history says was patched was, and nothing else has been written
\* there since.
MadeOf(from, contents) ==
  \A p \in Paths : from[p] # NoFile => \E path \in Seq(Byte) : patchFile(from[p], path) = Ok(contents[p])

\* What was read, all of it or a part.
FromDisk == input \in Torn(before.disk[InputPath]) \cup {before.disk[InputPath]}

History ==
  /\ MadeOf(made, disk) /\ MadeOf(before.made, before.disk)
  /\ pc \in {"write", "close"} => made[OutputPath] = NoFile
  /\ pc = "read" => input = << >>
  /\ pc = "work" => FromDisk
  /\ pc # "idle" => report = {}
  /\ \A r \in report : InputPath \in Paths /\ FromDisk /\ AndThen(ps3File(input), formatInfo) = Ok(r)

\* The history holds at first.
LEMMA InitHistory == Init => History
<1> SUFFICES ASSUME Init PROVE History
  OBVIOUS
<1>1. \A p \in Paths : made[p] = NoFile
  BY DEF Init
<1>2. before.made = made /\ pc = "idle" /\ report = {}
  BY DEF Init
<1> QED  BY <1>1, <1>2 DEF History, MadeOf

\* Every step keeps it.
LEMMA NextHistory == IInv /\ History /\ [Next]_vars => History'
<1> SUFFICES ASSUME IInv, History, [Next]_vars PROVE History'
  OBVIOUS
<1>i. TypeOK /\ ArgsOK /\ Untouched /\ OutputMade
  BY DEF IInv
<1>h. MadeOf(made, disk) /\ MadeOf(before.made, before.disk) /\ (pc # "idle" => report = {})
  BY DEF History
<1>1. CASE \E args \in Invocations : Invoke(args)
  <2>1. /\ disk' = disk /\ made' = made /\ before'.disk = disk /\ before'.made = made
        /\ input' = << >> /\ report' = {} /\ pc' \in {"read", "idle"}
    BY <1>1 DEF Invoke, Return
  <2>2. MadeOf(made, disk)' /\ MadeOf(before.made, before.disk)'
    BY <1>h, <2>1 DEF MadeOf
  <2> QED  BY <2>1, <2>2 DEF History
<1>2. CASE ReadInput \/ ReadCutShort \/ Info \/ Patch \/ OpenFails \/ Kill
  <2>1. disk' = disk /\ made' = made /\ before' = before /\ argv' = argv
    BY <1>2 DEF ReadInput, ReadCutShort, Info, Patch, OpenFails, Kill, Fault
  <2>2. MadeOf(made, disk)' /\ MadeOf(before.made, before.disk)'
    BY <1>h, <2>1 DEF MadeOf
  <2>3. pc' \in {"work", "open", "idle"} /\ pc # "idle" /\ report = {}
    BY <1>2, <1>h DEF ReadInput, ReadCutShort, Info, Patch, OpenFails, Kill, Return
  <2>4. pc' = "work" => FromDisk'
    <3>1. ASSUME pc' = "work" PROVE input' \in Torn(before.disk[InputPath]) \cup {before.disk[InputPath]}
      <4>1. ReadInput \/ ReadCutShort
        BY <1>2, <3>1 DEF Info, Patch, OpenFails, Kill, Return
      <4>2. disk = before.disk
        BY <4>1, <1>i DEF ReadInput, ReadCutShort, Untouched
      <4> QED  BY <3>1, <4>1, <4>2 DEF ReadInput, ReadCutShort, Return
    <3> QED  BY <3>1, <2>1 DEF FromDisk, Torn, InputPath, InfoMode
  <2>5. \A r \in report' : InputPath' \in Paths /\ FromDisk' /\ (AndThen(ps3File(input), formatInfo) = Ok(r))'
    <3>1. CASE Info
      <4> DEFINE r == AndThen(ps3File(input), formatInfo)
      <4>1. /\ input' = input /\ FromDisk
            /\ \/ ~ r.ok /\ report' = report
               \/ r.ok /\ report' = {r.value}
        BY <3>1 DEF Info, History
      <4>2. FromDisk' /\ InputPath' \in Paths
        <5>1. InputPath \in Paths
          BY <1>i, <2>3 DEF ArgsOK, InputPath, InfoMode
        <5> QED  BY <5>1, <4>1, <2>1 DEF FromDisk, Torn, InputPath, InfoMode
      <4>3. Refuses(r) \/ \E v : r = Ok(v)
        BY <1>i, ReportResult DEF TypeOK
      <4>d. r = AndThen(ps3File(input), formatInfo)
        OBVIOUS
      <4> HIDE DEF r
      <4>4. CASE Refuses(r)
        BY <4>1, <4>4, <2>3, RefusedNotOk
      <4>5. CASE \E v : r = Ok(v)
        <5>1. PICK v : r = Ok(v)
          BY <4>5
        <5>2. r.ok = TRUE /\ r.value = v
          BY <5>1 DEF Ok
        <5>3. report' = {v}
          BY <5>2, <4>1
        <5> QED  BY <5>1, <5>3, <4>d, <4>1, <4>2
      <4> QED  BY <4>3, <4>4, <4>5
    <3>2. CASE ~ Info
      <4>1. report' = {}
        BY <3>2, <1>2, <2>3 DEF ReadInput, ReadCutShort, Patch, OpenFails, Kill, Fault
      <4> QED  BY <4>1
    <3> QED  BY <3>1, <3>2
  <2>6. pc' # "idle" => report' = {}
    BY <1>2, <2>3 DEF ReadInput, ReadCutShort, Info, Patch, OpenFails, Kill, Fault, Return
  <2> QED  BY <2>2, <2>3, <2>4, <2>5, <2>6 DEF History
<1>3. CASE OpenOutput \/ WriteOutput \/ WriteFails \/ FlushFails \/ CloseOutput
  <2>1. /\ argv' = argv /\ before' = before /\ report' = report /\ report = {}
        /\ pc \in {"open", "write", "close"} /\ pc' \in {"write", "close", "idle"}
    BY <1>3, <1>h DEF OpenOutput, WriteOutput, WriteFails, FlushFails, CloseOutput, Fault, Return
  <2>2. Len(argv) = 3 /\ OutputPath \in Paths /\ OutputPath' = OutputPath
    BY <2>1, <1>i DEF Untouched, ArgsOK, OutputPath
  <2>3. disk \in [Paths -> Contents] /\ made \in [Paths -> Contents]
    BY <1>i DEF TypeOK, Contents
  <2>4. disk' = disk \/ \E bytes : disk' = [disk EXCEPT ![OutputPath] = bytes]
    BY <1>3 DEF OpenOutput, WriteOutput, WriteFails, FlushFails, CloseOutput, OnDisk
  <2>5. MadeOf(before.made, before.disk)'
    BY <1>h, <2>1 DEF MadeOf
  <2>o. \A p \in Paths \ {OutputPath} : disk'[p] = disk[p]
    BY <2>2, <2>3, <2>4
  <2>6. CASE ~ CloseOutput
    <3>1. made' = [made EXCEPT ![OutputPath] = NoFile]
      <4>1. CASE OpenOutput
        BY <4>1 DEF OpenOutput
      <4>2. CASE ~ OpenOutput
        <5>1. made' = made /\ pc \in {"write", "close"}
          BY <1>3, <2>6, <4>2 DEF WriteOutput, WriteFails, FlushFails
        <5>2. made[OutputPath] = NoFile
          BY <5>1 DEF History
        <5> QED  BY <5>1, <5>2, <2>2, <2>3
      <4> QED  BY <4>1, <4>2
    <3>2. made'[OutputPath] = NoFile /\ \A p \in Paths \ {OutputPath} : made'[p] = made[p]
      BY <3>1, <2>2, <2>3
    <3>3. MadeOf(made, disk)'
      BY <3>2, <2>o, <1>h DEF MadeOf
    <3> QED  BY <2>1, <2>2, <2>5, <3>2, <3>3 DEF History
  <2>7. CASE CloseOutput
    <3>1. /\ made' = [made EXCEPT ![OutputPath] = input] /\ disk' = [disk EXCEPT ![OutputPath] = output]
          /\ pc' = "idle" /\ pc = "close"
      BY <2>7 DEF CloseOutput, OnDisk, Return
    <3>2. /\ made'[OutputPath] = input /\ disk'[OutputPath] = output
          /\ \A p \in Paths \ {OutputPath} : made'[p] = made[p]
      BY <3>1, <2>2, <2>3
    <3>3. patchFile(input, argv[3]) = Ok(output) /\ argv[3] \in Seq(Byte)
      BY <3>1, <2>2, <1>i DEF OutputMade, ArgsOK
    <3>4. MadeOf(made, disk)'
      BY <3>2, <3>3, <2>o, <1>h DEF MadeOf
    <3> QED  BY <2>1, <2>5, <3>1, <3>4 DEF History
  <2> QED  BY <2>6, <2>7
<1>4. CASE UNCHANGED vars
  BY <1>4 DEF vars, History, MadeOf, FromDisk, Torn, InputPath, OutputPath, InfoMode
<1> QED  BY <1>1, <1>2, <1>3, <1>4 DEF Next, Step, FaultStep

\* A part of a file is a shorter one.
LEMMA TornPart ==
  ASSUME NEW b \in Seq(Byte), NEW t \in Torn(b)
  PROVE  \E n \in Nat : n < Len(b) /\ t = SubSeq(b, 1, n) /\ t # b
<1>1. PICK n \in 0..(Len(b) - 1) : t = SubSeq(b, 1, n)
  BY DEF Torn
<1>2. n \in Nat /\ n < Len(b) /\ Len(b) \in Nat
  BY <1>1
<1>3. Len(SubSeq(b, 1, n)) = n
  BY <1>2
<1>4. t # b
  BY ONLY <1>1, <1>2, <1>3
<1> QED  BY <1>1, <1>2, <1>4

\* --info says of every file made from an ordinary one that it is patched, with
\* the header and the entry it had and one segment more, after any runs and
\* whatever failed in them.
THEOREM InfoIsTrue ==
  Spec => [](Ordinary(ps3File(before.made[InputPath]).value) => InfoTells)
<1>1. IInv /\ History => (Ordinary(ps3File(before.made[InputPath]).value) => InfoTells)
  <2> SUFFICES ASSUME IInv, History, Ordinary(ps3File(before.made[InputPath]).value),
                      NEW r \in report, before.made[InputPath] # NoFile
               PROVE  \E src \in {formatInfo(ps3File(before.made[InputPath]).value).value} : ReportsAgree(r, src)
    BY DEF InfoTells, ReportsAgree
  <2> DEFINE b   == before.made[InputPath]
             out == before.disk[InputPath]
  <2>1. InputPath \in Paths /\ FromDisk /\ AndThen(ps3File(input), formatInfo) = Ok(r)
    BY DEF History
  <2>2. b \in Seq(Byte)
    BY <2>1 DEF IInv, Untouched, Contents
  <2>3. PICK path \in Seq(Byte) : patchFile(b, path) = Ok(out)
    BY <2>1 DEF History, MadeOf
  <2>4. Ordinary(ps3File(b).value) /\ Regular(ps3File(b).value)
    BY DEF Ordinary
  <2>5. input \in Torn(out) \cup {out}
    BY <2>1 DEF FromDisk
  <2> DEFINE q == ps3File(input)
  <2>6. Ok(r) = IF q.ok THEN formatInfo(q.value) ELSE q
    BY <2>1 DEF AndThen
  <2>g. formatInfo(ps3File(before.made[InputPath]).value).value = formatInfo(ps3File(b).value).value
    OBVIOUS
  <2> HIDE DEF b, out
  <2>7. input = out
    <3>1. ASSUME input \in Torn(out) PROVE FALSE
      <4>1. out \in Seq(Byte) /\ \A n \in Nat : n < Len(out) => Refuses(ps3File(SubSeq(out, 1, n)))
        BY ONLY <2>2, <2>3, <2>4, AgainRefused
      <4>2. PICK n \in Nat : n < Len(out) /\ input = SubSeq(out, 1, n)
        BY ONLY <3>1, <4>1, TornPart
      <4>3. Refuses(q)
        BY ONLY <4>1, <4>2
      <4> HIDE DEF q
      <4>4. q.ok = FALSE
        BY <4>3, RefusedNotOk
      <4>5. Refuses(Ok(r))
        BY ONLY <2>6, <4>3, <4>4
      <4>6. Ok(r).ok = TRUE
        BY DEF Ok
      <4> QED  BY ONLY <4>5, <4>6, RefusedNotOk
    <3> QED  BY <3>1, <2>5
  <2>8. PICK f, entry, tr, off, g, h, dst : Patches(out, b, f, entry, tr, off, g, h, dst)
    BY ONLY <2>2, <2>3, <2>4, PatchedFile
  <2>9. ps3File(b).value = f /\ ps3File(out) = Ok(dst)
    BY <2>8 DEF Patches, Output
  <2>10. Ordinary(f)
    BY ONLY <2>4, <2>9
  <2>11. /\ formatInfo(f).value = Report(f, entry) /\ formatInfo(dst) = Ok(Report(dst, entry))
         /\ ReportsAgree(Report(dst, entry), Report(f, entry))
    BY ONLY <2>2, <2>8, <2>10, OutputReport
  <2>12. r = Report(dst, entry)
    <3>1. q = Ok(dst)
      BY ONLY <2>7, <2>9
    <3> HIDE DEF q
    <3>2. q.ok = TRUE /\ q.value = dst
      BY <3>1 DEF Ok
    <3>3. Ok(r) = Ok(Report(dst, entry))
      BY ONLY <3>2, <2>6, <2>11
    <3>4. Ok(r).value = r /\ Ok(Report(dst, entry)).value = Report(dst, entry)
      BY DEF Ok
    <3> QED  BY ONLY <3>3, <3>4
  <2> QED  BY ONLY <2>g, <2>9, <2>11, <2>12
<1> QED  BY InitIInv, NextIInv, InitHistory, NextHistory, <1>1, PTL DEF Spec

\* Of a run that is given a file made from a regular one: it does not get as far
\* as opening the output, and returns with an error.
Refusing ==
  Len(argv) = 3 /\ before.made[InputPath] # NoFile /\ Regular(ps3File(before.made[InputPath]).value) =>
    /\ pc \in {"idle", "read", "work"} /\ disk = before.disk
    /\ pc = "idle" => exit # "ok" /\ (input = before.disk[InputPath] => exit \in {"AlreadyPatched", "killed"})

\* Every step keeps this.
LEMMA NextRefusing == IInv /\ History /\ Refusing /\ [Next]_vars => Refusing'
<1> SUFFICES ASSUME IInv, History, Refusing, [Next]_vars,
                    Len(argv') = 3, (before.made[InputPath] # NoFile)', Regular(ps3File(before.made[InputPath]).value)'
             PROVE  /\ pc' \in {"idle", "read", "work"} /\ disk' = before'.disk
                    /\ pc' = "idle" => exit' # "ok" /\ (input' = (before.disk[InputPath])' => exit' \in {"AlreadyPatched", "killed"})
  BY DEF Refusing
<1>i. TypeOK /\ ArgsOK /\ Untouched /\ OutputMade
  BY DEF IInv
<1>1. CASE \E args \in Invocations : Invoke(args)
  <2>1. PICK args \in Invocations : Invoke(args)
    BY <1>1
  <2>2. argv' = args /\ disk' = disk /\ before'.disk = disk
    BY <2>1 DEF Invoke
  <2>3. pc' = "read"
    <3>1. Len(args) = 3
      BY <2>2
    <3>2. \A n \in Nat : n = 3 => n + 1 = 4
      BY ONLY TRUE
    <3>3. Len(args) + 1 = 4
      BY ONLY <3>1, <3>2
    <3> QED  BY <3>3, <2>1 DEF Invoke
  <2> QED  BY <2>2, <2>3
<1>2. CASE Step \/ FaultStep \/ UNCHANGED vars
  <2> DEFINE b   == before.made[InputPath]
             out == before.disk[InputPath]
  <2>1. argv' = argv /\ before' = before
    BY <1>2 DEF Step, FaultStep, Fault, vars, ReadInput, Info, Patch, OpenOutput, WriteOutput, CloseOutput,
                ReadCutShort, OpenFails, WriteFails, FlushFails, Kill
  <2>2. Len(argv) = 3 /\ InputPath' = InputPath /\ b # NoFile /\ Regular(ps3File(b).value)
    BY <2>1 DEF InputPath, InfoMode
  <2>3. /\ pc \in {"idle", "read", "work"} /\ disk = before.disk
        /\ pc = "idle" => exit # "ok" /\ (input = out => exit \in {"AlreadyPatched", "killed"})
    BY <2>2 DEF Refusing
  <2>4. InputPath \in Paths /\ argv[3] \in Seq(Byte)
    BY <2>2, <1>i DEF ArgsOK, InputPath, InfoMode
  <2>5. b \in Seq(Byte)
    BY <2>2, <2>4, <1>i DEF Untouched, Contents
  <2>6. PICK path \in Seq(Byte) : patchFile(b, path) = Ok(out)
    BY <2>2, <2>4 DEF History, MadeOf
  <2>o. out = before.disk[InputPath]
    OBVIOUS
  <2> HIDE DEF b, out
  <2>7. /\ out \in Seq(Byte) /\ Len(out) > 0
        /\ patchFile(out, argv[3]) = Err("AlreadyPatched")
        /\ \A n \in Nat : n < Len(out) => Refuses(patchFile(SubSeq(out, 1, n), argv[3]))
    BY ONLY <2>2, <2>5, <2>6, AgainRefused
  <2>8. out # << >> /\ out # NoFile
    <3>1. Len(<< >>) = 0
      OBVIOUS
    <3>2. out # << >>
      BY ONLY <3>1, <2>7
    <3> QED  BY <3>2, <2>7, Ps3PatchAssumption
  <2>9. SUFFICES /\ pc' \in {"idle", "read", "work"} /\ disk' = disk
                 /\ pc' = "idle" => exit' # "ok" /\ (input' = out => exit' \in {"AlreadyPatched", "killed"})
    BY <2>1, <2>2, <2>3, <2>o
  <2>10. CASE UNCHANGED vars
    BY <2>10, <2>3 DEF vars
  <2>11. CASE ReadInput
    BY <2>11, <2>3, <2>8, <2>o DEF ReadInput, Return
  <2>12. CASE ReadCutShort
    BY <2>12 DEF ReadCutShort
  <2>13. CASE OpenFails
    <3>1. pc = "read" /\ disk' = disk /\ pc' = "idle" /\ exit' = "IoError" /\ input' = input
      BY <2>13, <2>3 DEF OpenFails, Return
    <3>2. input # out
      BY <3>1, <2>8 DEF History
    <3> QED  BY <3>1, <3>2
  <2>14. CASE Kill
    BY <2>14 DEF Kill, Return
  <2>15. CASE Patch
    <3> DEFINE r == patchFile(input, argv[3])
    <3>1. pc = "work" /\ disk' = disk /\ input' = input
      BY <2>15 DEF Patch
    <3>2. (r.ok /\ pc' = "open") \/ (~ r.ok /\ pc' = "idle" /\ exit' = r.code)
      BY <2>15 DEF Patch, Return
    <3>3. input \in Torn(out) \cup {out}
      BY <3>1, <2>o DEF History, FromDisk
    <3>4. CASE input = out
      <4>1. r = Err("AlreadyPatched")
        BY ONLY <3>4, <2>7
      <4> HIDE DEF r
      <4>2. r.ok = FALSE /\ r.code = "AlreadyPatched"
        BY <4>1 DEF Err
      <4> QED  BY <4>2, <3>1, <3>2
    <3>5. CASE input \in Torn(out)
      <4>1. PICK n \in Nat : n < Len(out) /\ input = SubSeq(out, 1, n) /\ input # out
        BY ONLY <3>5, <2>7, TornPart
      <4>2. Refuses(r)
        BY ONLY <4>1, <2>7
      <4> HIDE DEF r
      <4>3. r.ok = FALSE /\ r.code \in Codes
        BY <4>2 DEF Refuses, Err
      <4>4. "ok" \notin Codes
        BY DEF Codes, ErrorCode
      <4> QED  BY <4>1, <4>3, <4>4, <3>1, <3>2
    <3> QED  BY <3>3, <3>4, <3>5
  <2>16. ~ Info
    BY <2>2 DEF Info, InfoMode
  <2>17. ~ (OpenOutput \/ WriteOutput \/ CloseOutput \/ WriteFails \/ FlushFails)
    BY <2>3 DEF OpenOutput, WriteOutput, CloseOutput, WriteFails, FlushFails
  <2> QED  BY <1>2, <2>10, <2>11, <2>12, <2>13, <2>14, <2>15, <2>16, <2>17 DEF Step, FaultStep
<1> QED  BY <1>1, <1>2 DEF Next

\* A file that the tool has made is refused as an input ever after, and nothing
\* is written then, if the file it was made from is regular.
THEOREM RepatchIsRefused ==
  Spec => [](Regular(ps3File(before.made[InputPath]).value) => RepatchRefused)
<1>1. Init => Refusing
  BY DEF Init, Refusing
<1>2. Refusing => (Regular(ps3File(before.made[InputPath]).value) => RepatchRefused)
  BY DEF Refusing, RepatchRefused
<1> QED  BY InitIInv, NextIInv, InitHistory, NextHistory, <1>1, NextRefusing, <1>2, PTL DEF Spec

-----------------------------------------------------------------------------
(* The disk as the user sees it. *)

\* Kind looks at the file once.
LEMMA KindIs ==
  ASSUME NEW b \in Seq(Byte)
  PROVE  Kind(b) = KindOf(ps3File(b))
<1>1. b # NoFile
  BY Ps3PatchAssumption
<1> DEFINE k == KindOf(ps3File(b))
           all == {KindOf(r) : r \in {ps3File(b)}}
<1>2. all = {k}
  OBVIOUS
<1>3. Kind(b) = CHOOSE x \in all : TRUE
  BY <1>1 DEF Kind
<1> HIDE DEF k, all
<1>4. Kind(b) = k
  BY <1>2, <1>3
<1> QED  BY <1>4 DEF k

\* What is not parsed is refused.
LEMMA RefusedKind ==
  ASSUME NEW b \in Seq(Byte), Refuses(ps3File(b))
  PROVE  Kind(b) = "refused"
<1> DEFINE r == ps3File(b)
<1>1. Kind(b) = KindOf(r) /\ r.ok = FALSE
  BY KindIs, RefusedNotOk
<1> HIDE DEF r
<1> QED  BY <1>1 DEF KindOf

\* The kind of a file with a descriptor.
LEMMA ParsedKind ==
  ASSUME NEW b \in Seq(Byte), NEW f, NEW e, ps3File(b) = Ok(f), resolveEntryDescriptor(f) = Ok(e)
  PROVE  /\ Blobs(f) = {} => Kind(b) = "clean"
         /\ \A o : Blobs(f) = {o} => Kind(b) = "patched"
<1> DEFINE r == ps3File(b)
           d == resolveEntryDescriptor(f)
<1>1. Kind(b) = KindOf(r)
  BY KindIs
<1>2. r = Ok(f) /\ d = Ok(e)
  OBVIOUS
<1>3. d = resolveEntryDescriptor(f)
  OBVIOUS
<1> HIDE DEF r, d
<1>4. r.ok = TRUE /\ r.value = f /\ d.ok = TRUE
  BY <1>2 DEF Ok
<1>5. KindOf(r) = CASE Blobs(f) = {} -> "clean"
                    [] \E o \in Blobs(f) : Blobs(f) = {o} -> "patched"
                    [] OTHER -> "stacked"
  BY <1>3, <1>4 DEF KindOf
<1>6. ASSUME NEW o, Blobs(f) = {o} PROVE Kind(b) = "patched"
  <2>1. Blobs(f) # {} /\ \E x \in Blobs(f) : Blobs(f) = {x}
    BY <1>6
  <2> QED  BY ONLY <1>1, <1>5, <2>1
<1>7. ASSUME Blobs(f) = {} PROVE Kind(b) = "clean"
  <2>1. ~ \E x \in Blobs(f) : Blobs(f) = {x}
    BY <1>7
  <2> QED  BY ONLY <1>1, <1>5, <1>7, <2>1
<1> QED  BY <1>6, <1>7

\* What can be patched is clean.
LEMMA InputKind ==
  ASSUME NEW b \in Seq(Byte), NEW path \in Seq(Byte), NEW out, patchFile(b, path) = Ok(out)
  PROVE  Kind(b) = "clean"
<1> DEFINE r == patchFile(b, path)
<1>1. r = Ok(out) /\ r = patchFile(b, path)
  OBVIOUS
<1>2. Refuses(r) \/ \E f, entry, tr, off, g, h : Job(b, f, entry, tr, off, g, h)
  BY PatchResult
<1> HIDE DEF r
<1>3. r.ok = TRUE
  BY <1>1 DEF Ok
<1>4. PICK f, entry, tr, off, g, h : Job(b, f, entry, tr, off, g, h)
  BY <1>2, <1>3, RefusedNotOk
<1>5. ps3File(b) = Ok(f) /\ resolveEntryDescriptor(f) = Ok(entry) /\ Trampolines(f) = {}
  BY <1>4 DEF Job, isAlreadyPatched
<1>6. Blobs(f) = {}
  BY ONLY <1>5 DEF Blobs
<1> QED  BY ONLY <1>5, <1>6, b \in Seq(Byte), ParsedKind

\* What becomes of it, while it is written and afterwards.
LEMMA OutputKinds ==
  ASSUME NEW b \in Seq(Byte), NEW path \in Seq(Byte), NEW out, patchFile(b, path) = Ok(out),
         Ordinary(ps3File(b).value), Unmarked(ps3File(b).value)
  PROVE  /\ out \in Seq(Byte) /\ out # << >>
         /\ Kind(out) = "patched" /\ Kind(<< >>) = "refused"
         /\ \A t \in Torn(out) : t # out /\ t \in Seq(Byte) /\ Kind(t) = "refused"
<1>0. Regular(ps3File(b).value)
  BY DEF Ordinary
<1>1. PICK f, entry, tr, off, g, h, dst : Patches(out, b, f, entry, tr, off, g, h, dst)
  BY <1>0, PatchedFile
<1>2. /\ out \in Seq(Byte) /\ Len(out) > 0
      /\ \A n \in Nat : n < Len(out) => Refuses(ps3File(SubSeq(out, 1, n)))
  BY ONLY <1>0, b \in Seq(Byte), path \in Seq(Byte), patchFile(b, path) = Ok(out), AgainRefused
<1>3. << >> \in Seq(Byte) /\ Len(<< >>) = 0
  OBVIOUS
<1>4. out # << >>
  BY ONLY <1>2, <1>3
<1>5. Kind(<< >>) = "refused"
  <2>1. PICK n \in Nat : n = 0
    OBVIOUS
  <2>2. SubSeq(out, 1, n) = << >>
    BY <2>1, <1>2
  <2>3. Refuses(ps3File(<< >>))
    BY ONLY <1>2, <2>1, <2>2
  <2> QED  BY ONLY <1>3, <2>3, RefusedKind
<1>6. ASSUME NEW t \in Torn(out) PROVE t # out /\ t \in Seq(Byte) /\ Kind(t) = "refused"
  <2>1. t \in Seq(Byte)
    BY <1>2, TornType
  <2>2. PICK n \in Nat : n < Len(out) /\ t = SubSeq(out, 1, n) /\ t # out
    BY ONLY <1>2, <1>6, TornPart
  <2>3. Refuses(ps3File(t))
    BY ONLY <1>2, <2>2
  <2> QED  BY ONLY <2>1, <2>2, <2>3, RefusedKind
<1>7. Kind(out) = "patched"
  <2>1. Ordinary(f) /\ Unmarked(f)
    BY <1>1 DEF Patches
  <2>2. Trampolines(dst) = {Len(dst.phdrs)}
    BY ONLY <1>1, <2>1, b \in Seq(Byte), OutputOnce
  <2>3. Blobs(dst) = {P(dst, Len(dst.phdrs), "p_offset")}
    BY ONLY <2>2 DEF Blobs
  <2>4. ps3File(out) = Ok(dst)
    BY <1>1 DEF Patches, Output
  <2>5. resolveEntryDescriptor(dst) = Ok(entry)
    <3>1. DescriptorOffsets(f) \cap (Window(f) \cup HeaderOffsets(f)) = {}
      BY <2>1 DEF Ordinary
    <3>2. Job(b, f, entry, tr, off, g, h) /\ Regular(f) /\ Output(out, b, f, tr, off, g, h, dst)
      BY <1>1 DEF Patches
    <3> QED  BY ONLY <3>1, <3>2, b \in Seq(Byte), OutputEntryKept
  <2> QED  BY ONLY <1>2, <2>3, <2>4, <2>5, ParsedKind
<1> QED  BY ONLY <1>2, <1>4, <1>5, <1>6, <1>7

\* A program that is ordinary, and stays recognizable; a file that is not
\* stacked, and ordinary if it can be patched.
Good(b) == Ordinary(ps3File(b).value) /\ Unmarked(ps3File(b).value)

Patchable(b) == \E path \in Seq(Byte) : \E out : patchFile(b, path) = Ok(out)

Sound(b) == Kind(b) # "stacked" /\ (Patchable(b) => Good(b))

\* The refinement mapping for the path being written.
Target == IF Writing THEN OutputPath ELSE "none"

\* The kinds are those of the disk, where every file that can be patched is
\* ordinary; what is being written is made from one of these, and is there in
\* part.
Viewed ==
  /\ kind = [p \in Paths |-> Kind(disk[p])]
  /\ \A p \in Paths : Sound(disk[p])
  /\ pc \in {"work", "open", "write", "close"} => input = before.disk[InputPath]
  /\ pc \in {"open", "write", "close"} => Good(input)
  /\ pc = "write" => disk[OutputPath] = << >>
  /\ pc = "close" => disk[OutputPath] \in Torn(output) \cup {output}

\* The kinds of a file.
LEMMA KindType ==
  ASSUME NEW b \in Contents
  PROVE  Kind(b) \in {"absent", "clean", "patched", "refused", "stacked"}
<1>1. CASE b = NoFile
  BY <1>1 DEF Kind
<1>2. CASE b \in Seq(Byte)
  <2>1. \A r : KindOf(r) \in {"clean", "patched", "refused", "stacked"}
    BY DEF KindOf
  <2> QED  BY <1>2, <2>1, KindIs
<1> QED  BY <1>1, <1>2 DEF Contents

\* What is known of the output when it is written.
LEMMA OutputKnown ==
  ASSUME IInv, Viewed, pc \in {"open", "write", "close"}
  PROVE  /\ OutputPath \in Paths /\ InputPath \in Paths /\ Kind(input) = "clean"
         /\ output \in Seq(Byte) /\ output # << >>
         /\ Kind(output) = "patched" /\ Kind(<< >>) = "refused"
         /\ \A t \in Torn(output) : t # output /\ t \in Seq(Byte) /\ Kind(t) = "refused"
<1>1. Len(argv) = 3 /\ patchFile(input, argv[3]) = Ok(output)
  BY DEF IInv, OutputMade
<1>2. argv[1] \in Paths /\ argv[2] \in Paths /\ argv[3] \in Seq(Byte) /\ input \in Seq(Byte)
  BY <1>1 DEF IInv, ArgsOK, TypeOK
<1>3. Good(input)
  BY DEF Viewed
<1>4. OutputPath \in Paths /\ InputPath \in Paths
  BY <1>1, <1>2 DEF OutputPath, InputPath, InfoMode
<1>5. Kind(input) = "clean"
  BY ONLY <1>1, <1>2, InputKind
<1>6. /\ output \in Seq(Byte) /\ output # << >>
      /\ Kind(output) = "patched" /\ Kind(<< >>) = "refused"
      /\ \A t \in Torn(output) : t # output /\ t \in Seq(Byte) /\ Kind(t) = "refused"
  <2>1. Ordinary(ps3File(input).value) /\ Unmarked(ps3File(input).value)
    BY <1>3 DEF Good
  <2> QED  BY ONLY <1>1, <1>2, <2>1, OutputKinds
<1> QED  BY ONLY <1>4, <1>5, <1>6

\* Writing something refused or patched to the output keeps the picture.
LEMMA OnDiskViewed ==
  ASSUME IInv, Viewed, OutputPath \in Paths, NEW bytes \in Seq(Byte), OnDisk(bytes), Kind(bytes) \in {"refused", "patched"}
  PROVE  /\ kind' = [p \in Paths |-> Kind(disk'[p])] /\ \A p \in Paths : Sound(disk'[p])
         /\ kind' = [kind EXCEPT ![OutputPath] = Kind(bytes)] /\ disk'[OutputPath] = bytes
<1>1. disk \in [Paths -> Contents] /\ kind = [p \in Paths |-> Kind(disk[p])] /\ \A p \in Paths : Sound(disk[p])
  BY DEF IInv, TypeOK, Viewed, Contents
<1>2. disk' = [disk EXCEPT ![OutputPath] = bytes] /\ kind' = [kind EXCEPT ![OutputPath] = Kind(bytes)]
  BY DEF OnDisk
<1>3. disk'[OutputPath] = bytes /\ \A p \in Paths : p # OutputPath => disk'[p] = disk[p]
  BY ONLY <1>1, <1>2, OutputPath \in Paths
<1>4. Sound(bytes)
  <2>1. Patchable(bytes) => Kind(bytes) = "clean"
    BY InputKind DEF Patchable
  <2> QED  BY <2>1 DEF Sound
<1>5. \A p \in Paths : Sound(disk'[p])
  BY ONLY <1>1, <1>3, <1>4
<1>6. kind' = [p \in Paths |-> Kind(disk'[p])]
  BY ONLY <1>1, <1>2, <1>3
<1> QED  BY ONLY <1>2, <1>3, <1>5, <1>6

\* Every step keeps the picture, and is a step of the user's view or none.
LEMMA NextViewed ==
  ASSUME "read" \notin Faults, IInv, Viewed, [Next]_vars
  PROVE  Viewed' /\ (User!Next \/ (kind' = kind /\ Target' = Target))
<1>i. TypeOK /\ ArgsOK /\ Untouched /\ OutputMade
  BY DEF IInv
<1>v. kind = [p \in Paths |-> Kind(disk[p])] /\ \A p \in Paths : Sound(disk[p])
  BY DEF Viewed
<1>n. "none" \notin Paths
  BY Ps3PatchAssumption
<1>r. ~ ReadCutShort
  BY DEF ReadCutShort, Fault
<1>1. CASE \E args \in Invocations : Invoke(args)
  <2>1. pc = "idle" /\ pc' \in {"idle", "read"} /\ disk' = disk /\ kind' = kind
    BY <1>1 DEF Invoke, Return
  <2>2. Target = "none" /\ Target' = "none"
    BY <2>1 DEF Target, Writing
  <2>3. Viewed'
    BY <2>1, <1>v DEF Viewed
  <2> QED  BY <2>1, <2>2, <2>3
<1>2. CASE ReadInput \/ Info \/ Patch \/ OpenFails
  <2>1. /\ pc \in {"read", "work", "open"} /\ pc' \in {"idle", "work", "open"}
        /\ disk' = disk /\ kind' = kind /\ before' = before /\ argv' = argv
    BY <1>2 DEF ReadInput, Info, Patch, OpenFails, Return, Fault
  <2>2. Target = "none" /\ Target' = "none"
    BY <2>1 DEF Target, Writing
  <2>3. pc' \in {"work", "open"} => input' = before.disk[InputPath]
    <3>1. CASE ReadInput
      BY <3>1, <1>i DEF ReadInput, Untouched, Return
    <3>2. CASE Patch
      BY <3>2 DEF Patch, Viewed
    <3>3. CASE Info \/ OpenFails
      BY <3>3 DEF Info, OpenFails, Return
    <3> QED  BY <1>2, <3>1, <3>2, <3>3
  <2>4. pc' = "open" => Good(input')
    <3>1. SUFFICES ASSUME pc' = "open" PROVE Good(input')
      OBVIOUS
    <3>2. Patch
      BY <1>2, <3>1 DEF ReadInput, Info, OpenFails, Return
    <3>3. pc = "work" /\ ~ InfoMode /\ input' = input
      BY <3>2 DEF Patch
    <3>4. Len(argv) = 3 /\ argv[1] \in Paths /\ argv[3] \in Seq(Byte) /\ InputPath \in Paths
      BY <3>3, <1>i DEF ArgsOK, InfoMode, InputPath
    <3>5. input = disk[InputPath] /\ input \in Seq(Byte)
      BY <3>3, <1>i DEF Viewed, Untouched, TypeOK
    <3>6. \E out : patchFile(input, argv[3]) = Ok(out)
      <4> DEFINE r == patchFile(input, argv[3])
      <4>1. r.ok
        BY <3>1, <3>2 DEF Patch, Return
      <4>2. Refuses(r) \/ \E out \in Seq(Byte) : r = Ok(out)
        BY <3>4, <3>5, PatchType
      <4> HIDE DEF r
      <4>3. \E out : r = Ok(out)
        BY <4>1, <4>2, RefusedNotOk
      <4> QED  BY <4>3 DEF r
    <3>7. Patchable(input)
      BY ONLY <3>4, <3>6 DEF Patchable
    <3>8. Sound(input)
      BY <3>4, <3>5, <1>v
    <3> QED  BY <3>3, <3>7, <3>8 DEF Sound
  <2>5. InputPath' = InputPath
    BY <2>1 DEF InputPath, InfoMode
  <2>6. Viewed'
    BY <2>1, <2>3, <2>4, <2>5, <1>v DEF Viewed
  <2> QED  BY <2>1, <2>2, <2>6
<1>3. CASE OpenOutput \/ WriteOutput \/ CloseOutput \/ WriteFails
  <2>1. /\ pc \in {"open", "write", "close"} /\ argv' = argv /\ before' = before /\ input' = input /\ output' = output
        /\ pc' \in {"write", "close", "idle"}
    BY <1>3 DEF OpenOutput, WriteOutput, CloseOutput, WriteFails, Fault, Return
  <2>2. /\ OutputPath \in Paths /\ InputPath \in Paths /\ Kind(input) = "clean"
        /\ output \in Seq(Byte) /\ output # << >>
        /\ Kind(output) = "patched" /\ Kind(<< >>) = "refused"
        /\ \A t \in Torn(output) : t # output /\ t \in Seq(Byte) /\ Kind(t) = "refused"
    BY <2>1, OutputKnown
  <2>3. OutputPath' = OutputPath /\ InputPath' = InputPath /\ Torn(output)' = Torn(output)
    BY <2>1 DEF OutputPath, InputPath, InfoMode, Torn
  <2>4. input = before.disk[InputPath] /\ Good(input)
    BY <2>1 DEF Viewed
  <2>5. PICK bytes \in Torn(output) \cup {output, << >>} : OnDisk(bytes) /\
          \/ OpenOutput /\ bytes = << >>
          \/ WriteOutput /\ bytes \in Torn(output) \cup {output}
          \/ CloseOutput /\ bytes = output
          \/ WriteFails /\ bytes \in Torn(output)
    BY <1>3 DEF OpenOutput, WriteOutput, CloseOutput, WriteFails
  <2>6. Kind(bytes) \in {"refused", "patched"}
    BY ONLY <2>2, <2>5
  <2>7. /\ kind' = [p \in Paths |-> Kind(disk'[p])] /\ \A p \in Paths : Sound(disk'[p])
        /\ kind' = [kind EXCEPT ![OutputPath] = Kind(bytes)] /\ disk'[OutputPath] = bytes
    <3>1. << >> \in Seq(Byte)
      OBVIOUS
    <3>2. bytes \in Seq(Byte)
      BY ONLY <3>1, <2>2, <2>5
    <3> QED  BY <3>2, <2>2, <2>5, <2>6, OnDiskViewed
  <2>8. /\ pc' = "write" => OpenOutput
        /\ pc' = "close" => WriteOutput
    BY <1>3 DEF OpenOutput, WriteOutput, CloseOutput, WriteFails, Return
  <2>9. Viewed'
    <3>1. pc' = "write" => disk'[OutputPath] = << >>
      BY <2>5, <2>7, <2>8 DEF OpenOutput, WriteOutput, CloseOutput, WriteFails
    <3>2. pc' = "close" => disk'[OutputPath] \in Torn(output) \cup {output}
      BY <2>5, <2>7, <2>8 DEF OpenOutput, WriteOutput, CloseOutput, WriteFails
    <3>3. Good(input)'
      BY <2>1, <2>4 DEF Good
    <3> QED  BY <2>1, <2>3, <2>4, <2>7, <3>1, <3>2, <3>3 DEF Viewed
  <2>k. kind \in [Paths -> {"absent", "clean", "patched", "refused", "stacked"}] /\ kind[OutputPath] = Kind(disk[OutputPath])
    <3>1. \A p \in Paths : Kind(disk[p]) \in {"absent", "clean", "patched", "refused", "stacked"}
      BY <1>i, KindType DEF TypeOK, Contents
    <3> QED  BY ONLY <3>1, <1>v, <2>2
  <2>10. CASE OpenOutput
    <3>1. pc = "open" /\ pc' = "write" /\ bytes = << >>
      BY <2>5, <2>10 DEF OpenOutput, WriteOutput, CloseOutput, WriteFails
    <3>2. Target = "none" /\ Target' = OutputPath
      BY <3>1, <2>1, <2>2, <2>3, <2>7 DEF Target, Writing
    <3>3. kind[InputPath] = "clean"
      BY <3>1, <2>2, <2>4, <1>i, <1>v DEF Untouched
    <3>4. kind' = [kind EXCEPT ![OutputPath] = "refused"]
      BY <3>1, <2>2, <2>7
    <3>5. User!Begin(InputPath, OutputPath)
      BY <3>2, <3>3, <3>4 DEF User!Begin, Target
    <3> QED  BY <3>5, <2>2, <2>9 DEF User!Next
  <2>11. CASE ~ OpenOutput
    <3>1. pc \in {"write", "close"} /\ bytes \in Torn(output) \cup {output}
      BY <1>3, <2>5, <2>11 DEF OpenOutput, WriteOutput, CloseOutput, WriteFails
    <3>2. CASE bytes = output
      <4>1. Target' = "none"
        BY <3>2, <2>1, <2>3, <2>7 DEF Target, Writing
      <4>2. CASE disk[OutputPath] = output
        <5>1. Target = "none"
          BY <4>2 DEF Target, Writing
        <5>2. kind[OutputPath] = Kind(output)
          BY <2>k, <4>2
        <5>3. kind' = kind
          BY ONLY <5>2, <3>2, <2>7, <2>k, <2>2
        <5> QED  BY <4>1, <5>1, <5>3, <2>9
      <4>3. CASE disk[OutputPath] # output
        <5>1. Target = OutputPath
          BY <3>1, <4>3 DEF Target, Writing
        <5>2. kind' = [kind EXCEPT ![Target] = "patched"] /\ Target # "none"
          BY ONLY <5>1, <3>2, <2>2, <2>7, <1>n
        <5>3. User!Finish
          BY <4>1, <5>2 DEF User!Finish, Target
        <5> QED  BY <5>3, <2>9 DEF User!Next
      <4> QED  BY <4>2, <4>3
    <3>3. CASE bytes \in Torn(output)
      <4>1. disk[OutputPath] \in Torn(output) \cup {<< >>} /\ disk[OutputPath] # output
        <5>1. pc = "write"
          BY <2>5, <2>11, <3>3, <2>2 DEF WriteOutput, CloseOutput, WriteFails
        <5> QED  BY <5>1, <2>2 DEF Viewed
      <4>2. Kind(disk[OutputPath]) = "refused" /\ Kind(bytes) = "refused"
        BY ONLY <4>1, <3>3, <2>2
      <4>3. kind' = kind
        BY ONLY <4>2, <2>k, <2>7, <2>2
      <4>4. Target = OutputPath /\ Target # "none"
        BY <4>1, <3>1, <2>2, <1>n DEF Target, Writing
      <4>5. Target' = IF pc' = "idle" THEN "none" ELSE OutputPath
        BY <2>1, <2>2, <2>3, <2>7, <3>3 DEF Target, Writing
      <4>6. CASE pc' = "idle"
        <5>1. User!Abandon
          BY <4>3, <4>4, <4>5, <4>6 DEF User!Abandon, Target
        <5> QED  BY <5>1, <2>9 DEF User!Next
      <4>7. CASE pc' # "idle"
        BY <4>3, <4>4, <4>5, <4>7, <2>9
      <4> QED  BY <4>6, <4>7
    <3> QED  BY <3>1, <3>2, <3>3
  <2> QED  BY <2>10, <2>11
<1>4. CASE FlushFails \/ Kill
  <2>1. pc # "idle" /\ pc' = "idle" /\ disk' = disk /\ kind' = kind
    BY <1>4 DEF FlushFails, Kill, Return
  <2>2. Viewed'
    BY <2>1, <1>v DEF Viewed
  <2>3. Target' = "none"
    BY <2>1 DEF Target, Writing
  <2>4. CASE Target = "none"
    BY <2>1, <2>2, <2>3, <2>4
  <2>5. CASE Target # "none"
    <3>1. User!Abandon
      BY <2>1, <2>3, <2>5 DEF User!Abandon, Target
    <3> QED  BY <3>1, <2>2 DEF User!Next
  <2> QED  BY <2>4, <2>5
<1>5. CASE UNCHANGED vars
  <2>1. Viewed'
    BY <1>5 DEF vars, Viewed, Good, Torn, InputPath, OutputPath, InfoMode
  <2>2. kind' = kind /\ Target' = Target
    BY <1>5 DEF vars, Target, Writing, OutputPath
  <2> QED  BY <2>1, <2>2
<1> QED  BY <1>1, <1>2, <1>3, <1>4, <1>5, <1>r DEF Next, Step, FaultStep

\* Runs of the tool implement the user's view of the disk, whatever is
\* interrupted, if the files at first that can be patched are ordinary and
\* nothing is read in part.
THEOREM PatchesOnce ==
  ASSUME "read" \notin Faults, \A d \in Disks : \A p \in Paths : Sound(d[p])
  PROVE  Spec => OnceFromClean
<1>1. Init => User!Init /\ Viewed
  <2> SUFFICES ASSUME Init PROVE User!Init /\ Viewed
    OBVIOUS
  <2>1. disk \in Disks /\ pc = "idle" /\ kind = [p \in Paths |-> Kind(disk[p])]
    BY DEF Init
  <2>2. disk \in [Paths -> Contents]
    BY <2>1, Ps3PatchAssumption DEF Contents
  <2>3. Viewed
    BY <2>1 DEF Viewed
  <2>4. \A p \in Paths : Kind(disk[p]) \in {"absent", "clean", "patched", "refused"}
    <3> TAKE p \in Paths
    <3>1. Kind(disk[p]) \in {"absent", "clean", "patched", "refused", "stacked"}
      BY <2>2, KindType
    <3>2. Kind(disk[p]) # "stacked"
      BY <2>1 DEF Sound
    <3> QED  BY <3>1, <3>2
  <2>5. kind \in [Paths -> {"absent", "clean", "patched", "refused"}]
    BY ONLY <2>1, <2>4
  <2>6. Target = "none"
    BY <2>1 DEF Target, Writing
  <2> QED  BY <2>3, <2>5, <2>6 DEF User!Init, User!Kinds, Target
<1>2. IInv /\ Viewed /\ [Next]_vars => Viewed' /\ [User!Next]_<< kind, Target >>
  BY NextViewed
<1> QED  BY InitIInv, NextIInv, <1>1, <1>2, PTL DEF Spec, OnceFromClean, User!Spec, Target
=============================================================================
