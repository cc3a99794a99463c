CONSTANTS
  ByteBase = 12
  ELFMAG <- MCElfMag
  TRAMPOLINE_MAGIC <- MCMagic
  EM_PPC64 = 21
  Relocates <- MCRelocates
  Reach = 608
  PrefixCount = 3
  MaxPath = 3
  Paths = {"a", "b", "c"}
  NoFile = NoFile
  Disks <- MCTail
  Invocations <- MCPatch
  Tears <- MCTears
  Faults = {"flush"}
  MaxRuns = 1
  MaxFaults = 1
SPECIFICATION Spec
CHECK_DEADLOCK FALSE
INVARIANTS
  SuccessMeansComplete
