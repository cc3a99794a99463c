CONSTANTS
  ByteBase = 12
  ELFMAG <- MCElfMag
  TRAMPOLINE_MAGIC <- MCMagic
  EM_PPC64 = 21
  Relocates <- MCRelocates
  Reach = 608
  PrefixCount = 3
  MaxPath = 3
  Paths = {"a", "b", "c"}
  NoFile = NoFile
  Disks <- MCHigh
  Invocations <- MCPatch
  Tears <- MCTears
  Faults = {}
  MaxRuns = 1
  MaxFaults = 0
SPECIFICATION Spec
CHECK_DEADLOCK FALSE
INVARIANTS
  NewSegmentClear
