SPECIFICATION Spec
CONSTANTS
  NoScore = NoScore
  NoGrader = NoGrader
  None = None
  Infinite = Infinite
  CustomGrade <- NoCustomGrade
  Keys <- MCKeys
  Tests <- MCTests
  Groups <- MCGroups
  Root = "root"
  Items <- MCItems
  KeyOf <- MCKeyOf
  Matching <- MCTests
  Config <- MCConfig
  Ranges <- MCRanges
  Scoring = TRUE
  Objective = "max"
  SampleTests = {"s1"}
  Packages <- MCPackages
  Directory <- MCDirectory
  FixedLimits = {6}
  Cap = 20
  AcToTimeLimit = 2
  TimeLimitToTle = 2
  TimeResolution = 3
INVARIANTS
  LargestLimitFirst
  ComputedLimitFits
  PacWarningIsExact
  SlowSubmissionsAreRejected
  SilenceMeansAgreement
CHECK_DEADLOCK FALSE
