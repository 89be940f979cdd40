SPECIFICATION Spec
CONSTANTS
  WallTimeLimit = TRUE
INVARIANTS
  CauseComesFirst
  ReportIsTrue
PROPERTIES
  RunnerReports
CHECK_DEADLOCK FALSE
