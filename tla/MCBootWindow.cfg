CONSTANTS
  HalfMod = 32768
  Scenes <- MCIntoWindow
  StackTop = 4194304
  Answers <- MCAnswers
  MaxCalls = 4
SPECIFICATION Spec
CHECK_DEADLOCK FALSE
INVARIANT WindowOnlyOnEntry
