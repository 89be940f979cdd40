SPECIFICATION Spec
CONSTANTS
  Problems = 2
  Workers = {w1, w2}
  Parts = {"data", "submissions"}
  MaxJobs = 3
  MaxErrors = 1
  NoJob = NoJob
INVARIANTS
  RemovalWaitsForJobs
  ProblemsDoNotOverlap
  ExitStatusTellsErrors
PROPERTIES
  NothingStartsAfterCancel
  RunEnds
CHECK_DEADLOCK FALSE
