SPECIFICATION Spec
CONSTANTS
  NoScore = NoScore
  NoGrader = NoGrader
  Malformed = Malformed
  CustomGrade <- BonusGrade
  Tests <- MCTests
  Groups <- MCGroups
  Root = "root"
  Keys <- MCTests
  KeyOf <- MCKeyOf
  Sample = {"sample"}
  Secret = {"secret"}
  Problems <- EmptySample
  Behaviours <- MCBehaviours
  Limit = 1
  Fine = 77760
  Digits = 2
  Infinity = 1000000000
INVARIANTS
  ScoresStayInRange
CHECK_DEADLOCK FALSE
