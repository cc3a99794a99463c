CONSTANTS
  HalfMod = 32768
  Scenes <- MCScenes
  StackTop = 4194304
  Answers <- MCAnswers
  MaxCalls = 4
SPECIFICATION Spec
CHECK_DEADLOCK FALSE
INVARIANTS
  LoadGetsPath
  StartGetsId
  ModuleFirst
  ModuleOnce
  LayoutAgrees
  EntersTrampoline
  Behaves
  WindowOnlyOnEntry
PROPERTIES
  ResumesGameButScratch
  GameProceeds
