# A TLA+ development of ELF-Craft

ELF-Craft (`src/`) is a C++17 tool, `ps3patch`, that takes a decrypted PS3
executable, appends a segment with a *trampoline*, and overwrites the first
instructions of the program with a jump into it. At start-up the trampoline
loads and starts a user-supplied module with two system calls, then runs the
overwritten instructions from a new place and jumps back, so that the game
should not notice. This directory specifies the parts of the tool in TLA+,
checks them with TLC on small instances and proves the central facts with
TLAPS for all instances.

## 1. Inventory

| Component | Source | State | Operations | Interaction |
|---|---|---|---|---|
| byte order, layouts | `libelf/include/elf/endian.hpp`, `types.hpp` | the bytes of a field | `Endianed::get`, `set` | every struct field of libelf |
| ELF object | `file.hpp`, `errors.hpp` | `header_`, `phdrs_`, `shdrs_`, `raw_`: the same data twice | `parseAny`, `parse`, `setEntry`, `patchBytesAt`, `addLoadSegment`, `readAt`, `vaddrToFileOffset`, `segmentData`, `serialize` | called by ps3patch |
| encoders | `ppc/include/ppc/encode.hpp` | none | the instruction encoders, `loadImmediate32`, `makeAbsoluteJump` | called by decode, syscalls, trampoline; their output is run by a processor |
| branch relocator | `decode.hpp` | none | `classify`, `relocateBranch` | called by the trampoline for each displaced instruction |
| system calls | `ps3patch/include/ps3patch/syscalls.hpp` | none | the load and start sequences | part of the trampoline; run against the LV2 kernel |
| trampoline | `trampoline.hpp` | the planned layout | `isAlreadyPatched`, `relocateDisplacedInstructions`, `buildTrampoline` | reads the ELF object, returns bytes to write |
| entry descriptor | `toc.hpp` | none | `validatePs3Executable`, `resolveEntryDescriptor` | reads the ELF object |
| report | `info.hpp` | none | `formatInfo` | reads the ELF object |
| command line | `ps3patch/src/main.cpp` | files on disk, one ELF object | `readFile`, `writeFile`, `alignUp`, the patch pipeline | drives all of the above |

A run of the tool is sequential: there are no threads, messages or timeouts in
it. But runs follow each other on files that stay, and each can be cut off. What
is hard is of four kinds.

* **Two copies of one state.** The ELF object caches header and tables beside
  the raw bytes. Every mutator changes one copy; `serialize()` merges them in
  a fixed order. Correct means: no byte, patch or segment is lost in any
  sequence of calls, and what is written parses back to what was in memory.
* **Integers at their edges.** Offsets near 2^64, sums that wrap, fields of 14
  and 24 bits, sign extension of half an address.
* **Code that is data.** The output runs on another machine. Correct means: the
  processor sees the instructions that were meant, every branch keeps its
  target, and the patched program, seen from the game, is a run of the
  original program, whatever the kernel answers and overwrites in between.
* **Failures half way**: a system call that fails, a read or a write that does,
  a killed process. Correct means: an error is reported, the input and earlier
  outputs are safe, an output that was cut off is not mistaken for a result,
  nothing is patched twice, and an interrupted run can be repeated.

`PROJECT.json` lists these one by one, with their lines, under `hazards`.

## 2. Modules

| Module | What it is |
|---|---|
| `Result` | error codes and `Result<T, Error>`; `AndThen` is `if (!r.ok()) return r.error();` |
| `Bytes` | buffers, integers in both byte orders, `regionFits`, `ensureCapacity`, `writeStruct`, `writeTable` |
| `Elf` | struct layouts and every operation of `ElfFile` as an operator on a file value |
| `ElfFile` | one object as a state machine: parse, any sequence of mutators, save and reopen |
| `Ppc` | all encoders, `classify`, `relocateBranch` |
| `Isa` | external: what an instruction word means to the processor (`Decode`), written from the Power ISA independently of `classify` |
| `Ppu` | external: executing what `Isa` decodes |
| `Layout` | what `buildTrampoline` decides before it emits an instruction: sizes, reach, refusals |
| `Trampoline` | `syscalls.hpp` and `trampoline.hpp`, instruction by instruction |
| `Relocation` | one instruction, assembled and moved from address to address |
| `Game` | external, abstract: the unpatched program on the processor |
| `Boot` | the patched program: built, mapped, run through trampoline and system calls |
| `Ps3Elf` | `toc.hpp`, `isAlreadyPatched`, `info.hpp`, and `main.cpp` between reading and writing, as operators on a file |
| `Ps3Patch` | runs of the tool on a disk, with faults |
| `Patcher` | abstract: what a user may rely on about the files on the disk |
| `Images` | structs and headers for the instances |
| `MCElfFile`, `MCRelocation`, `MCBoot`, `MCPs3Patch` | instances for TLC |
| `ElfProofs`, `Ps3ElfProofs` | lemmas about the operators of `Bytes`, `Elf` and `Ps3Elf` |
| `ElfFileProofs`, `PpcProofs`, `RelocationProofs`, `BootProofs`, `ResumeProofs`, `Ps3PatchProofs` | theorems |

`Elf` extends `Bytes` and `Result`; `Trampoline` extends `Ppc` and `Result`;
`Relocation` composes `Trampoline` with `Isa`, and `Boot` with `Ppu`, which
extends `Isa`. `Game` takes the processor as a parameter; `Boot` instantiates it with its own, so that
both programs run on the same machine, twice through a refinement mapping (`Whole`, `Lax`) and
once for the state at the start (`G`). `Ps3Elf` composes `Elf` with `Layout`, and `Ps3Patch` instantiates `Patcher` through a refinement mapping.
`Trampoline` takes `Layout` with the numbers of the code; `Ps3Elf` takes it with
small ones, so that a whole file fits TLC. The property `LayoutAgrees` of `Boot`
ties the two together: the blob that is assembled has the size `Layout` says.

### How state and actions correspond to the code

*ElfFile.* `file` is the C++ object; its `header`, `phdrs` and `shdrs` are kept
as the bytes of the structs because that is what `memcpy` puts there, and a
field is converted when it is read or assigned. `ParseInput`, `CallSetEntry`,
`CallPatch`, `CallAddLoadSegment` are the public calls, with any argument of
the given sets; a call that returns an error leaves the object alone and sets
`err`. `SaveAndReopen` is `serialize()` followed by `parseAny` of the result,
which is what the tool's output meets next. `input` and `patched` are history
variables. Error messages are left out.

*Relocation.* `Assemble` calls an encoder (which may throw: `rejected`), `Move`
is one iteration of the loop of `relocateDisplacedInstructions` (which may
refuse: `refused`).

*Boot.* `Patch` is `buildTrampoline` and the caller's `patchBytesAt`; the three
questions `buildTrampoline` asks of the file are fields of the scene. `Execute`
is one instruction of the processor, `SystemCall` one `sc`: the kernel returns
any of `Answers` (a module id or a negative error) and overwrites everything
the calling convention lets it, as may the module's initialiser, which runs on
the same thread: r0, r4-r12, LR, CTR, memory below the stack pointer and the
112-byte linkage and parameter area of the frame that called. A conditional branch may
go either way. The view `View` maps this to `Game`: inside the trampoline the
game has not started; an instruction in the resume section counts as the one
at its old place; memory written by the trampoline or the kernel on the dead
part of the stack is not the game's until the game writes it. If a displaced instruction leaves a return
address (`Links`), a value that is the address of a moved instruction stands for
that of the old one.

Three definitions of `Boot` say of a game what the code relies on, over the states
the patched program is in. `StaysOut`: no instruction of the game, wherever it runs,
branches to the old place of a displaced one or into the injected code. `Behaves`:
`StaysOut`, the game does not load what the trampoline left on the dead part of the
stack, and, if a jump is long, it uses neither r12 nor CTR. They are invariants
of the run and hypotheses of the theorems, never constraints of the model.

*Ps3Patch.* `Invoke` is the start of `main` with one of the argument vectors;
`ReadInput` is `readFile`; `Info` is the rest of `--info`; `Patch` is patch mode
from `parseAny` to `serialize()`, one step because nothing outside the process
can see into it; `OpenOutput`, `WriteOutput` and `CloseOutput` are the
constructor of the `ofstream`, its `write` and its destructor, between which the
disk holds nothing, a part of the output, and all of it. `exit` is the exit
status with its reason. The environment may cut a read short, let an open, a
write or the flush on closing fail, or kill the process at any step. `made`,
`kind` and `before` are history variables: what an output was made from, what a
path holds, and the disk when the run began.

In `Ps3Elf` a jump is one word or five that name its target, the prefix of the
blob is its length and the two addresses it refers to, and whether displaced
words can be moved is a parameter; `Trampoline`, `Relocation` and `Boot` are about
what the words mean.

*Patcher.* Every path holds no file, a clean executable, one patched once, or
something the tool refuses; writing begins from a clean input only, and a path
whose writing is not finished is refused. `Ps3Patch` implements it with `kind`
as it is and `job` the output path while the file on it is not complete.

## 3. Runs

| Run | Property | Shows |
|---|---|---|
| `elf_file` (pass) | `TypeOK` | types, struct sizes, writes in bounds also for offsets near 2^64 |
| | `RoundTrip` | an unmutated file is written back byte for byte, even if its tables overlap |
| | `InputBytesKept` | no sequence of calls loses an input byte |
| | `PatchesSurvive` | a patch is in the output unless a cached table covers its place |
| | `ReparseAgrees` | the written file parses back to the object in memory, if its layout is sound |
| | `TranslationStable` | no call, and no saving and reopening of an object with a sound layout, changes the offset of an address that had one |
| | `NewSegmentReadable` | the added segment has its data (`segmentData`) and is found at its addresses, up to the end of the address space; older segments keep only the addresses they have, so one that wraps captures none |
| `segment_offsets` (violation) | `OffsetsBacked` | with a `p_offset` near 2^64, `vaddrToFileOffset` returns an offset at the start of the file |
| `relocation` (pass) | `MeaningKept` | every word means to the processor what was asked for; a moved branch keeps form, condition, link and target (`rldicl` with MB 0 and 63; for MB 32 see `boot_high`) |
| | `BackHome` | moved back, an instruction is the word it was |
| | `RefusedOnlyIfUnreachable` | exceptions and refusals only for what has no encoding |
| | `ClassifiedRight` | `classify` agrees with the processor about what depends on its address |
| `boot` (pass) | `LoadGetsPath`, `StartGetsId` | the system calls get the null-terminated path, the id, and zeros |
| | `ModuleFirst` | no instruction of the game before both calls |
| | `ModuleOnce` | the injected code runs once: never more than two calls |
| | `LayoutAgrees` | the two "internal inconsistency" errors cannot occur, and the blob has its planned size |
| | `EntersTrampoline` | the jump-in arrives |
| | `WindowOnlyOnEntry` | the words over the entry point run on the way in only |
| | `Behaves` | the games of the scenes keep to what the code relies on, also where they are moved |
| | `ResumesGameButScratch` | refinement: the patched program implements `Game`; r12 and CTR are left out if a jump is long |
| | `GameProceeds` | liveness: the game gets past its entry point whatever the kernel answers |
| `boot_scratch` (violation) | `ResumesGame` | long jumps overwrite r12 and CTR |
| `boot_window` (violation) | `WindowOnlyOnEntry` | a branch into the displaced window runs the jump-in |
| `boot_high` (violation) | `EntersTrampoline` | `clrldi 32` is encoded as `clrldi 16` |
| `ps3patch` (pass) | `ChainIntact` | in the written file, by address: entry, jump-in, magic, displaced words, jump-back |
| | `RestKept` | every other byte and every segment of the input is where it was |
| | `DescriptorKept` | the entry descriptor still resolves, to the same code and TOC |
| | `NewSegmentClear` | the new segment begins past all others and less than 64 KB after the highest, and ends below 2^32 |
| | `TypeOK` | types, 32-bit values in range |
| | `OnceFromClean` | refinement: the disk follows `Patcher` through three runs and two faults |
| | `RepatchRefused` | an output of the tool is refused as input, and nothing changes |
| | `RefusalTouchesNothing` | a refused run, and `--info`, leave the disk alone |
| | `InfoTells` | the report on an output says that it is patched, and otherwise what it says of the input |
| `ps3patch_retry` (pass) | `RetryCompletes` | liveness: repeating an interrupted run gets done |
| | `SuccessMeansComplete` | exit status 0 only with the whole output of the whole input on disk |
| | `OnceFromClean` | an output cut off anywhere is refused |
| `ps3patch_flush` (violation) | `SuccessMeansComplete` | a failing flush on closing is not noticed |
| `ps3patch_in_place` (violation) | `InputSurvives` | same path for input and output, interrupted: the original is gone |
| `ps3patch_high` (violation) | `NewSegmentClear` | the address of the new segment is cut to 32 bits |

The violations are described, with the line of documentation each one
contradicts, under `findings` in `PROJECT.json`. `boot_high` is a bug: in the
MD-form the most significant bit of MB comes last, `encodeRldicl` stores the
six bits in order; `clrldi r3,r3,32` should be `0x78630020` and is emitted as
`0x78630400`. Below 0x80000000 the wrong word does no harm, since `lis` leaves
nothing to clear.

`rldicl` is in `MeaningKept` with the MBs whose six bits are all equal, for which
the order does not matter. The MB of 32 that the long jump uses shows where its
word is executed, in `EntersTrampoline`.

`segment_offsets`: `p_offset + delta` (`file.hpp:209`) wraps, the small sum passes
the test against the size of the file, and the segment's addresses resolve to the
header. `TranslationStable` holds all the same: a wrong offset is as stable as any
other. It could not happen if `parse()` validated the segments, as the
comment at `file.hpp:221` says it does. For the same reason `segmentData()` of a
freshly parsed file can fail, and an address of a segment that is cut off can
resolve to the offset one past the last byte, which `file.hpp:210` lets through.

Three properties hold in the passing runs only because of what those runs leave
out. `SuccessMeansComplete` does not survive a failing flush (`ps3patch_flush`)
nor a failing read (fault `"read"`, which `readFile` takes for the end of the
file), so `ps3patch_retry` has neither. `NewSegmentClear` needs segments that end
below the last 64 KB (`ps3patch_high`). `DescriptorKept` needs the entry
descriptor to lie outside the window of the jump-in, which the tool does not
check; the file `Tight` has it right behind a window of one instruction, and
would lose it to a window of five.

Patch mode does not look at `e_flags`: the warning that `toc.hpp:92` announces
"before patching" exists in `--info` only. `Patch` has therefore no such step.

That a cut-off output is always refused is not by design: it holds because
`addLoadSegment` moves the program header table to the end of the file and
`parse()` checks that the table fits. The mutant that leaves the table in its
place breaks it.

`CHECK_DEADLOCK FALSE` is set everywhere: an object may be
rejected or its calls used up, an instruction refused, the game leaves the
modelled part of its code, and the runs of the tool are counted.

### Bounds

* `ByteBase = 13` values to a byte instead of 256: the widths of all fields
  follow from it, 13^8 fits TLC's integers, so wrap-around at 2^64 is checked
  with real wrap-around, and 13^2 still holds the struct sizes.
* `MaxOps = 4` calls on an object: enough for patch, add, save, add again.
  Images have up to three segments and one section, of both classes and byte
  orders, among them overlapping segments, segments past the end, one whose
  addresses wrap and one whose file offsets wrap, tables over the header, no table, and one image for each parse error.
* `Segments`: at low addresses, which the wrapping segment of an image also
  claims if its range is taken for a distance (the mutant of
  `NewSegmentReadable`); across the start of other segments; and at the last
  three addresses. `Addresses` has all of these, those of the images' segments,
  and their neighbours.
* `FileLimit = 1000` bytes: below a 32-bit offset, as PS3 executables are.
* `HalfMod = 2^15` values to half an address (2^16 in the code), so that an
  address fits TLC; instruction fields keep their real widths, so the reach of
  a branch and its edges are the real ones, and half of the addresses still
  have an upper half that `lis` sign-extends.
* `MaxCalls = 4` system calls: two are expected, two more let a trampoline that
  runs twice be seen.
* Scenes: short and long jumps, the last trampoline address with two short
  jumps and the first one with a long jump back, entry code with frames, calls,
  conditional and counting branches, absolute and register branches, paths of
  all lengths modulo 4, and one scene for every refusal.

* `ByteBase = 12` in `MCPs3Patch`: 144 stands for 0x10000 and 20736 for 2^32, so
  that aligning to 64 KB and cutting to 32 bits are the real operations on
  small numbers. `Reach = 608` bytes for 2^25, `PrefixCount = 3` instructions
  for 49, `MaxPath = 3` for 1023: a blob stays shorter than 64 KB, as in the
  code (`Ps3ElfAssumption`).
* Files: one and five displaced instructions, short in and long back, the last
  segment ending exactly at a multiple of 64 KB, the highest possible trampoline
  address, no section table, unusual flags, the descriptor right behind the
  entry, code at the very end of the file, a file marked by hand, a file of three
  segments whose last one begins where a read can be cut off, and one file for
  every refusal. `CleanIsOrdinary` has TLC evaluate the hypothesis of
  the theorems on these files.
* `MaxRuns = 3` with `MaxFaults = 2`: make an output, lose or overwrite it, look
  at it or repeat it, one run more than faults. The command lines include
  in-place patching, output back to input, a missing file, paths that are empty
  and too long, and wrong numbers of arguments.
* `Tears`: in `ps3patch`, a cut inside the header, behind it, in the contents and
  in the table; in `ps3patch_retry`, every second word and every one of the last
  bytes.

### Fairness

`Boot!Spec` assumes weak fairness of `Execute \/ SystemCall`: a processor goes
on executing and a system call returns. The code needs and gets no other.
`Ps3Patch!RetrySpec` assumes weak fairness of `Scheduled`, that a running process
goes on or ends (no step of the tool waits for anything, so one is always
possible), and of `Retry`, a script that starts the tool again as long as it
did not return 0. Faults are not fair and there are finitely many. `Spec`
itself has no fairness: a user may stop.
`ElfFile` and `Relocation` state no liveness: their caller may stop any time.

## 4. Proofs

All theorems hold for every value of the constants that the named assumptions
allow: `ByteBaseAssumption`, `ElfMagAssumption`, `ElfFileAssumption`,
`Ps3ElfAssumption`, `Ps3PatchAssumption`, `HalfModAssumption`,
`RelocationAssumption` and `BootAssumption` say that inputs are byte sequences, arguments have the
types of the C++ parameters, and instructions and addresses are ones that exist. TLC
evaluates each assumption on the instances.

### One object (`ElfFileProofs`)

| Theorem | Property |
|---|---|
| `TypeCorrect` | `TypeOK` |
| `InputKept` | `InputBytesKept` |
| `RoundTripHolds` | `RoundTrip` |
| `PatchesKept` | `PatchesSurvive` |
| `ReparseHolds` | `ReparseAgrees` |
| `TranslationKeeps` | `TranslationStable` |
| `SegmentReadable` | `NewSegmentReadable` |

The invariants talk about the output of `serialize()` and are not inductive. The
invariant `IInv` says why they hold: the raw bytes agree with the input except
where patched, and with the history of patches where they are; the header
agrees except in the three mutable fields; the section table's entries are the
input's bytes at `e_shoff`, which no mutator moves; and the program header table
either still has its entries where the input has them, or `e_phoff` lies at or
after the end of the input, so that writing it cannot touch an input byte. `IInv`
also relates the counts in the header to the lengths of the tables (`Coherent`),
which is what `ReparseAgrees` needs. From that, `SerializeKeeps` follows the
three writes of `serialize()` in order, and `SerializeShape` describes the
result byte by byte. The lemmas of `ElfProofs` say what the helpers do (a stored
integer is read back in either byte order, `Store` and `writeStruct` change
their bytes and no other), that `regionFits` really
bounds the region (`RegionFitsMeans`), when `parse` accepts and what it
then returns (`ParseMeans`), what `addLoadSegment` leaves alone, and which
offset `vaddrToFileOffset` finds.

`TranslationKeeps` is about every step and every address: `TranslationKept` says
that a translation that succeeded depends only on the segments up to the one it
found and on a size that never shrinks, and each action is shown to leave these
alone, `SaveAndReopen` by `Reparse`. In `SegmentReadable` the sums `p_vaddr +
p_filesz` wrap as in the code; `HasMeansBacks` shows that a segment whose sum wraps
backs nothing (`(v + n) mod 2^64` is then at most `v`), so it cannot capture an
address of the new one.

### The relocator (`PpcProofs`, `RelocationProofs`)

| Theorem | Property | Hypothesis |
|---|---|---|
| `RelocationKeepsTarget` | | every word, every two addresses |
| `ClassifyAgrees` | | every word, not only the encoders' |
| `MeaningIsKept` | `MeaningKept` | `rldicl` only with an MB of 0 or 63 |
| `ComesBackHome` | `BackHome` | |
| `RefusesOnlyTheUnreachable` | `RefusedOnlyIfUnreachable` | |
| `ClassifiesRight` | `ClassifiedRight` | |

`IInv` is `Holds`: the word at hand is the one the instruction has, up to what
`Seen` allows, and for a relative branch the displacement is the one that
leads from here to the target, in the range of its field. `EncodeDecode` goes
through the encoders one by one: the fields that an encoder packs are the ones that
`Decode` unpacks. The hypothesis of `MeaningIsKept` is the bug of `boot_high`
seen from the other side: `Seen` states which MB the processor sees instead, and
0 and 63 are the values where the two agree. Nothing else depends on it.

### The patched program (`BootProofs`)

| Theorem | Property | Hypothesis |
|---|---|---|
| `BlobAsPlanned` | `LayoutAgrees` | |
| `JumpReachesTrampoline` | `EntersTrampoline` | `Low(scene)` |
| `PathReachesKernel` | `LoadGetsPath` | `Low(scene)` |
| `IdReachesKernel` | `StartGetsId` | `Low(scene)` |
| `ModuleBeforeGame` | `ModuleFirst` | `Low(scene)` |

They hold for every path, every text of the game, every TOC, all addresses, both
kinds of jump, and whatever the kernel answers, any number of times. `Low` says
that the trampoline lies above the text, where `main.cpp` puts it, and ends in
the lower half of the address space. In the upper half `loadImmediate32` does
not load what it is asked to, and `boot_high` shows `EntersTrampoline` violated
there, so the hypothesis is needed; `ScenesLow` has TLC evaluate it, and `LowToc`, on the
scenes of the run `boot`.

Two inductive invariants carry this. `Loaded` says that what the loader maps is what
`buildTrampoline` returned for this job; `JobResult` and the lemmas on the single
pieces of code (`PrologueWords`, `LoadWords`, `StartWords`, `EpilogueWords`,
`JumpWords`) give every word of the blob up to the second system call, and
`FetchCode` says that the processor fetches it. `Booted` adds `Passage`: after no system call the
processor is in the jump-in (`InJump`, which says what r12 and CTR hold at each
of its words) or at a word of the prologue or the load sequence
(`BeforeLoad`), after one call it is at a word of the start sequence
(`BeforeStart`), and at each of these words the argument registers set so far hold
their values. None of the properties is inductive without it: that the kernel gets
the path depends on what five instructions left in three registers. After the second
call `Passage` asks for nothing more, since the two calls that the properties look at are
in the history. The argument relies on no fact about the game's code: it may
branch back to its entry or anywhere else.

### Back in the game (`ResumeProofs`)

| Theorem | Property | Hypotheses |
|---|---|---|
| `ModuleLoadedOnce` | `ModuleOnce` | `Low(scene)`, `[]StaysOut` |
| `EntryRunsOnce` | `WindowOnlyOnEntry` | `Low(scene)`, `[]StaysOut` |
| `ResumesTheGame` | `ResumesGameButScratch` | `Low(scene)`, `LowToc(scene)`, `~ Links`, `[]Behaves` |
| `ResumesExactly` | `ResumesGame` | these and `ShortJumps` |

These are about everything after the second system call, for every scene, every
answer of the kernel and runs of any length. The last two are the promise of the
tool as a refinement: every step of the patched program is, in the view of the game, a
step of the original program on the same machine or none. No register, neither
LR nor CTR, no doubleword of the game's memory and no branch differs; in `ResumesTheGame`
r12 and CTR are not looked at if a jump is long.
`ResumesGame` as such is violated by a run (`boot_scratch`), whose scene has long jumps; where
both are short it is what `ResumesGameButScratch` says.

The hypotheses are what the code takes for granted, and each is needed:

* `StaysOut`: a game that branches to a displaced instruction's old place runs
  the jump-in again, and the module with it (`boot_window`).
* `LowToc`: the TOC is loaded by `loadImmediate32`, which is wrong in the upper half
  of the address space (`boot_high`).
* Not loading what is dead on the stack: the trampoline's frame lies where the game
  has no live data, but its old contents are gone.
* `ShortJumps`, or neither r12 nor CTR used: a long jump goes through them
  outside the region where they are saved (`boot_scratch`).
* `~ Links`: a displaced `bl` leaves a return address in the injected code,
  which the view has to translate back. Memory has no types, so the view would
  translate any number that looks like such an address. TLC checks the
  refinement for such scenes (`CallOut`, `Absolute`, `Count`).

The argument has four parts.

* `Course`, inductive with `Booted` under `StaysOut`: after two calls the processor is in the
  rest of the prefix, in the moved instructions, in the jump back (and what r12 and CTR
  hold there), or in the text behind the window. Both `ModuleOnce` and
  `WindowOnlyOnEntry` follow (`NextCourse`, `OnEntry`).
* `Kept`: what each word of the prefix has saved or given back so far. The jump-in
  changes nothing but r12 and CTR, and these only if it is long (`Spared`). From the
  first word of the prologue on, the save slots stored so far hold the values at entry (`Stored`),
  also after a system call (`CallNext`: the kernel's area lies apart from the slots), and
  `Regular` and `Special` say for each word which registers have their value at entry;
  at the first moved instruction all have, and r2 holds the TOC (`HandedOver`).
* `Sight`: the view of a machine state, as a function. It commutes with `Exec`
  for every instruction that behaves (`UnbranchedStep`, `BranchStep`), and
  `MovedInstruction` says that a word that `relocateInstruction` moved decodes
  to the instruction it was, with the same absolute target.
* `NextSeen` puts these together, one case per place of `Course`: a step in the
  prefix or the jump back is none of the game's, a step in the moved instructions or in the
  text is the game's step at the old place.

### Runs of the tool (`Ps3PatchProofs`)

| Theorem | Property | Hypothesis |
|---|---|---|
| `ToolTypes` | `TypeOK` | |
| `RefusalIsQuiet` | `RefusalTouchesNothing` | |
| `SuccessIsComplete` | `SuccessMeansComplete` | no faults `"read"` and `"flush"` |
| `InputIsKept` | `InputSurvives` | no command line names one path twice |
| `PatchKeepsRest` | `RestKept` | the input is `Regular` |
| `SegmentIsClear` | `NewSegmentClear` | `Regular` and `Roomy` |
| `DescriptorIsKept` | `DescriptorKept` | `Ordinary` |
| `ChainIsIntact` | `ChainIntact` | `Ordinary` |
| `InfoIsTrue` | `InfoTells` | the file it was made from is `Ordinary` |
| `RepatchIsRefused` | `RepatchRefused` | the file it was made from is `Regular` |
| `PatchesOnce` | `OnceFromClean` | no fault `"read"`, the files at first are `Sound` |

The hypotheses are about files, not about the runs: any number of runs, any
order of command lines, any of the other faults. They say exactly what the
code takes for granted and does not ask for, and each is needed.

* `Regular`: less than 4 GB, fewer than 65535 segments, and a section table that does
  not lie over the header. Otherwise `e_phnum` wraps, or `serialize()` writes the
  section table over the new `e_phoff`.
* `Roomy`: no segment ends in the last 64 KB of the address space
  (`ps3patch_high` shows what happens then), and none has more bytes in the file
  than in memory, since the address of the new segment is computed from `p_memsz`.
* `Ordinary`: the window of the jump-in lies apart from the header, the section
  table and the descriptor, and the descriptor apart from the header. The tool patches `raw_`,
  and `serialize()` would write the cached structs over the jump.
* `Sound`: a file that can be patched is ordinary and none of its segments begins with
  the magic of a trampoline after patching (`Unmarked`), and no file has two
  trampolines.

The invariant `IInv` (types, argument shapes, a disk that is untouched before the
output is opened, an output that is the patched input) carries the properties
of one run. `Reading` adds that the input is what was on the disk; `History`
relates what is on the disk to what it was made from, across runs, and is what
`InfoIsTrue` and `RepatchIsRefused` need; `Refusing` is the course of a run on
the tool's own output; `Viewed` is the refinement of `Patcher`: every kind is the kind
of the bytes on the disk, and what is being written is there in part. The
facts about one patch are lemmas of `Ps3ElfProofs`: which refusals `patchFile`
has and what it returns (`PatchResult`), that the chain is found by address in
the written file, and that no strict prefix of an output parses (`TornOutput`), since
`addLoadSegment` moves the program header table to its end.

`OnceFromClean` was once stated with a count of the segments that begin with the
magic. The proof failed for a reason that TLC then confirmed with one more
place to cut a read: if a read stops exactly where a segment's bytes begin, the
tool appends its blob there, and the old segment and the new one show the
same trampoline. That is one trampoline, reached through two segments, so
`Blobs` counts the places and not the segments; and it is the reason why
`PatchesOnce` excludes cut reads, where `ps3patch` still checks those of
its instance.

### Only model-checked

* `RetryCompletes` and `GameProceeds`: liveness is outside the prover's reach.
* The refinement of `Game` for scenes with a displaced call (`Links`).
* That the games of the scenes keep to `Behaves`: a fact about them, which
  `boot` checks, and no consequence of the code for games in general.
* `OnceFromClean` with cut reads, `SuccessMeansComplete` and the rest without
  the hypotheses above where a run checks them on its instance.
* What a recursive definition computes for all inputs would need induction
  over data, which the installed provers cannot instantiate; the helpers are
  written as functions and their lemmas need no induction.

## 5. Plan

1. *Done*: all modules, and the theorems of section 4. The bitwise or of `Ppu` is
   written without recursion so that it can be reasoned about.
2. *Done*: the patched program through the epilogue back into the game, and the
   refinement of `Game`.
3. *Open*: the refinement for displaced calls. It needs a view that
   knows which values are return addresses, and not only how they look.
4. *Open*: composition of `Ps3Patch` with `Boot`: scenes that come out of a file. The
   two meet at `Layout` now, and at the addresses of the chain
   (`ChainIntact` in the one, `EntersTrampoline` and `ResumesGame` in the other).

## 6. Not modelled

* Messages, printing, usage text; headings and padding of the report and its
  fixed lines on the two system calls.
* Section header fields: libelf copies them and never reads them.
* A big-endian host: `host_is_little_endian()` is true everywhere.
* More than 65535 program headers: `e_phnum` then wraps (`file.hpp:174`), which
  `ReparseAgrees` excludes.
* Files with an empty program header table and another `e_phentsize`: `parse()` does
  not look at the entry size of an empty table (`file.hpp:91`) and `addLoadSegment`
  does not set it, so that what is written then is refused. `ReparseAgrees` leaves this
  case out too; the model takes it (`NoPhdrs`), and the tool refuses such a file.
* The condition register: a conditional branch may go either way.
* Instructions other than those `encode.hpp` emits and `bclr`; the game's
  entry code in the scenes consists of these. A run stops at any other one, the
  game's own `sc` included: the theorems are about everything before that.
* What a loader requires of `p_offset` and `p_align`: the tool appends its blob at
  any offset with an alignment of 64 KB, and no file of the repository says
  what the console's loader does with that.
* Allocation failure, and files too large for memory.
* Tests, fixture generators and build files.

The writeup's section 6.1 still describes a descriptor of 24 bytes with an
environment pointer (`docs/TECHNICAL_WRITEUP.md:203-205`); section 5.1 and the
code have 8 bytes, which is what is modelled.
