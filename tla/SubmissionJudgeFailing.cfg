SPECIFICATION JudgeSpec
CONSTANTS
  NoScore = NoScore
  NoGrader = NoGrader
  NoTest = NoTest
  CustomGrade <- NoCustomGrade
  Main = main
  Consumers = {main}
  Workers = {w1, w2}
  Keys <- MCKeys
  Schedule <- LargestFirst
  Behaviours <- FailingBehaviours
  MayFail = TRUE
  Tests <- MCTests
  Groups <- MCGroups
  Root = "root"
  Items <- MCItems
  KeyOf <- MCKeyOf
  Matching <- NoSample
  Config <- MCConfig
  Scoring = TRUE
INVARIANTS
  ClaimHasOneRunner
  NoLostWakeup
  ServedVerdictIsDirect
  JudgeErrorIsNotLost
PROPERTIES
  EntriesAreFinal
  CallsReturn
CHECK_DEADLOCK FALSE
