CONSTANTS
  ByteBase = 13
  ELFMAG <- MCElfMag
  Inputs <- MCInputs
  EntryAddrs <- MCAddrs
  PatchOffsets <- MCOffsets
  PatchBytes <- MCBytes
  Segments <- MCSegments
  Addresses <- MCAddresses
  MaxOps = 1
  FileLimit = 1000
SPECIFICATION Spec
CHECK_DEADLOCK FALSE
INVARIANT OffsetsBacked
