SPECIFICATION JudgeSafety
CONSTANTS
  NoScore = NoScore
  NoGrader = NoGrader
  NoTest = NoTest
  CustomGrade <- NoCustomGrade
  Main = main
  Consumers = {main}
  Workers = {w1, w2}
  Keys <- MCKeys
  Schedule <- Limits
  Behaviours <- MCBehaviours
  MayFail = FALSE
  Tests <- MCTests
  Groups <- MCGroups
  Root = "root"
  Items <- MCItems
  KeyOf <- MCKeyOf
  Matching <- NoSample
  Config <- MCConfig
  Scoring = TRUE
INVARIANTS
  LaterCallsRunNothing
  AtMostOneDuplicateRun
PROPERTIES
  ImplementsSequentialJudge
CHECK_DEADLOCK FALSE
