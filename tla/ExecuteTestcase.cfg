SPECIFICATION Spec
CONSTANTS
  NoScore = NoScore
  NoFile = NoFile
  Unreadable = Unreadable
  Problems <- MCProblems
  Passes <- MCPasses
  HighLimit = 6
  LowLimit = 3
  Second = 2
INVARIANTS
  HighRunSpeaksForLow
  ScoreIsLastWritten
  SinglePassIsDirect
  BlameIsDeserved
CHECK_DEADLOCK FALSE
