CONSTANTS
  HalfMod = 32768
  Scenes <- MCFarScratch
  StackTop = 4194304
  Answers <- MCAnswers
  MaxCalls = 4
SPECIFICATION Spec
CHECK_DEADLOCK FALSE
PROPERTY ResumesGame
