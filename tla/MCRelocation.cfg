CONSTANTS
  HalfMod = 32768
  Instrs <- MCInstrs
  Addresses <- MCAddresses
SPECIFICATION Spec
CHECK_DEADLOCK FALSE
INVARIANTS
  MeaningKept
  BackHome
  RefusedOnlyIfUnreachable
  ClassifiedRight
