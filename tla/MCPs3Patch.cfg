CONSTANTS
  ByteBase = 12
  ELFMAG <- MCElfMag
  TRAMPOLINE_MAGIC <- MCMagic
  EM_PPC64 = 21
  Relocates <- MCRelocates
  Reach = 608
  PrefixCount = 3
  MaxPath = 3
  Paths = {"a", "b", "c"}
  NoFile = NoFile
  Disks <- MCDisks
  Invocations <- MCInvocations
  Tears <- MCTears
  Faults = {"read", "open", "write", "flush", "kill"}
  MaxRuns = 3
  MaxFaults = 2
SPECIFICATION Spec
CHECK_DEADLOCK FALSE
INVARIANTS
  TypeOK
  ChainIntact
  RestKept
  DescriptorKept
  NewSegmentClear
  RefusalTouchesNothing
  RepatchRefused
  InfoTells
PROPERTIES
  OnceFromClean
