CONSTANTS
  ByteBase = 12
  ELFMAG <- MCElfMag
  TRAMPOLINE_MAGIC <- MCMagic
  EM_PPC64 = 21
  Relocates <- MCRelocates
  Reach = 608
  PrefixCount = 3
  MaxPath = 3
  Paths = {"a", "b", "c"}
  NoFile = NoFile
  Disks <- MCClean
  Invocations <- MCPatch
  Tears <- MCManyTears
  Faults = {"open", "write", "kill"}
  MaxRuns = 3
  MaxFaults = 2
SPECIFICATION RetrySpec
CHECK_DEADLOCK FALSE
INVARIANTS
  SuccessMeansComplete
PROPERTIES
  RetryCompletes
  OnceFromClean
