SPECIFICATION ChecksSpec
CONSTANTS
  Programs <- MCPrograms
  Main = main
  Threads = {main, w1, w2}
  Names = {checker, broken, unbuilt, solution}
  checker = checker
  broken = broken
  unbuilt = unbuilt
  solution = solution
  NameOf <- MCNameOf
  Fate <- MCFate
  MaxCalls = 12
  Nobody = Nobody
  None = None
  Default = Default
  Unset = Unset
  Problems <- DataOnly
  AllTests <- MCTests
  Matching = {"s", "t"}
  Sample = {"s"}
  FlagsOf <- MCFlags
  Submissions <- MCSubmissions
  Junk = {"junk"}
  Modified = {"spaces"}
  JunkOutputs = {"empty"}
  CrashOutputs = {"number"}
INVARIANTS
  PassedOverWereReported
CHECK_DEADLOCK FALSE
