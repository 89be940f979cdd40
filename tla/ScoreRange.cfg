SPECIFICATION Spec
CONSTANTS
  NoScore = NoScore
  NoGrader = NoGrader
  Malformed = Malformed
  CustomGrade <- BonusGrade
  Tests <- MCTests
  Groups <- MCGroups
  Root = "root"
  Keys <- MCTests
  KeyOf <- MCKeyOf
  Sample = {"sample"}
  Secret = {"secret"}
  Problems <- MCProblems
  Behaviours <- MCBehaviours
  Limit = 1
  Fine = 77760
  Digits = 2
  Infinity = 1000000000
INVARIANTS
  ScoresStayInRange
  BoundsAreReached
  AdviceSettles
CHECK_DEADLOCK FALSE
