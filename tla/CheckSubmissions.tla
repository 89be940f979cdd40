--------------------------- MODULE CheckSubmissions ---------------------------
(***************************************************************************)
(* Checking a problem's submissions (checks/submissions.py): the accepted  *)
(* ones are judged at a provisional limit and determine the time limit,    *)
(* then the others are judged at it, and what they do is compared with     *)
(* what their directory says (model/submissions.py).                       *)
(*                                                                         *)
(* One submission is judged by several calls of its judge; what a call     *)
(* returns is Answer of module TestTree, which SubmissionJudge implements  *)
(* when no call is at a higher limit than the first.  An error is reported *)
(* and the checks go on, as they do without --bail_on_error.               *)
(*                                                                         *)
(* Times, limits and scores are integers and the multipliers whole         *)
(* numbers, so the rounding errors of floating point are left out.         *)
(***************************************************************************)
EXTENDS TestTree

CONSTANTS
  Keys, KeyOf,      \* the reuse keys of the test cases
  Packages,         \* submissions (sorted by path), the included ones, what they may do
  Directory,        \* the directory each submission is in
  FixedLimits,      \* values for a fixed limit in problem.yaml and on the command line
  Cap,              \* 5 minutes, the provisional limit
  AcToTimeLimit, TimeLimitToTle, TimeResolution,
  Ranges,           \* the score range of each group, a pair
  Infinite,         \* no bound in a score range
  Objective,
  SampleTests,
  None

ASSUME LimitsAssumption ==
  /\ AcToTimeLimit \in Nat \ {0} /\ TimeLimitToTle \in Nat \ {0}
  /\ TimeResolution \in Nat \ {0} /\ Cap \in Nat \ {0}
  /\ FixedLimits \subseteq Nat \ {0} /\ None \notin Nat

ASSUME PackagesAssumption ==
  /\ KeyOf \in [Tests -> Keys]
  /\ \A p \in Packages :
       /\ p.submissions \in Seq(DOMAIN Directory)
       /\ \A i, j \in DOMAIN p.submissions : p.submissions[i] = p.submissions[j] => i = j
       /\ p.behaviours \subseteq Behaviour

VARIABLES
  pc,
  package,      \* the submissions to check
  yaml, cli,        \* the fixed limit in problem.yaml, and of --fixed_timelim
  timelim, timelim_high,
  todo,             \* submissions of the current group still to be checked
  judged,           \* all_submission_results, with how each was judged
  seen_oob_score_groups,
  reports,          \* the warnings and errors
  announced         \* the time limit check() returns

settings == <<package, yaml, cli>>
vars == <<pc, settings, timelim, timelim_high, todo, judged,
          seen_oob_score_groups, reports, announced>>

-----------------------------------------------------------------------------
(* LegacyPolicy: what a directory expects of the submissions in it.        *)
Expectations == [accepted |-> "AC", partially_accepted |-> "AC", wrong_answer |-> "WA",
                 run_time_error |-> "RTE", time_limit_exceeded |-> "TLE"]

Matches(s) == Directory[s] \in DOMAIN Expectations
Expected(s) == Expectations[Directory[s]]
LowerBoundsTimeLimit(s) == Directory[s] = "accepted"
Partial(s) == Directory[s] = "partially_accepted"

Submissions == package.submissions

Checked(s) == Matches(s) /\ s \in package.included

(* The submissions of a set, in the order of their paths.                  *)
Those(chosen) ==
  FlattenSeq([i \in DOMAIN Submissions |->
                IF Submissions[i] \in chosen THEN <<Submissions[i]>> ELSE <<>>])

LowerBoundSubmissions ==
  Those({s \in ToSet(Submissions) : Checked(s) /\ LowerBoundsTimeLimit(s)})

(* The submissions that are presumably slowest come last.                  *)
Rest ==
  LET rest(slow) == Those({s \in ToSet(Submissions) :
        Checked(s) /\ ~ LowerBoundsTimeLimit(s) /\ (Expected(s) = "TLE") = slow})
  IN  rest(FALSE) \o rest(TRUE)

HasTestcases == Selected(AllTestcases[Root]) # <<>>

FixedLimit == IF cli # None THEN cli ELSE yaml

(* _initial_time_limit.                                                    *)
InitialTimeLimit ==
  IF FixedLimit = None THEN [low |-> Cap, high |-> Cap]
  ELSE [low |-> FixedLimit, high |-> FixedLimit * TimeLimitToTle]

Warning(what, about) == [level |-> "warning", what |-> what, about |-> about]
Error(what, about) == [level |-> "error", what |-> what, about |-> about]
If(condition, report) == IF condition THEN {report} ELSE {}

-----------------------------------------------------------------------------
(* The judge of a submission that behaves like b.                          *)
Results(b, limit) == Answer([t \in Tests |-> Judgement(Direct(b[KeyOf[t]], limit))])
Overall(b, limit) == Last(Results(b, limit)).result
Accepts(b, limit) == Overall(b, limit).verdict = "AC"

(* check_submissions up to the first group.                                *)
Start ==
  /\ pc = "start"
  /\ pc' = "lower"
  /\ todo' = LowerBoundSubmissions
  /\ timelim' = InitialTimeLimit.low
  /\ timelim_high' = InitialTimeLimit.high
  /\ reports' = {Error("unknown directory", s) : s \in {t \in ToSet(Submissions) : ~ Matches(t)}}
       \union If(\A s \in ToSet(Submissions) : ~ LowerBoundsTimeLimit(s), Error("none accepted", None))
       \union If(~ HasTestcases, Warning("no test cases", None))
       \union If(cli # None /\ yaml # None, Warning("two fixed limits", None))
  /\ UNCHANGED <<settings, judged, seen_oob_score_groups, announced>>

(* A submission that is not compiled, or judged on nothing.                *)
SkipSubmission ==
  /\ pc \in {"lower", "rest"}
  /\ todo # <<>>
  /\ todo' = Tail(todo)
  /\ reports' \in {reports \union {Error("compile error", Head(todo))}}
                    \union (IF HasTestcases THEN {} ELSE {reports})
  /\ UNCHANGED <<pc, settings, timelim, timelim_high, judged, seen_oob_score_groups, announced>>

-----------------------------------------------------------------------------
(* Scores against the expected ranges of the groups.                       *)
InRange(score, range) ==
  /\ range[1] = Infinite \/ range[1] <= score
  /\ range[2] = Infinite \/ score <= range[2]

OutOfBounds(results) ==
  {results[i].node : i \in
     {j \in DOMAIN results : /\ Scoring
                             /\ results[j].node \in Groups
                             /\ results[j].result.score # NoScore
                             /\ ~ InRange(results[j].result.score, Ranges[results[j].node])}}

BestScore == IF Objective = "min" THEN Ranges[Root][1] ELSE Ranges[Root][2]

FullyAccepted(r) == r.verdict = "AC" /\ (Scoring => r.score = BestScore)

SampleFailure(results) ==
  \E i \in DOMAIN results :
    results[i].node \in SampleTests /\ results[i].result.verdict # "AC"

-----------------------------------------------------------------------------
(* Mutants of Unaffecting: the multiplier is applied the wrong way, or     *)
(* forgotten.                                                              *)
UnaffectingMultiplied == timelim * AcToTimeLimit

UnaffectingUndivided == timelim

(* _warn_pac_too_slow: the judge is called at the longest runtime that     *)
(* would not move the limit, and then at the runtimes above it, least      *)
(* first, until one suffices.                                              *)
Unaffecting == timelim \div AcToTimeLimit

Runtimes(results) == {results[i].result.runtime : i \in DOMAIN results}

Candidates(results) == {t \in Runtimes(results) : t > Unaffecting}

Tried(b, results) ==
  {Unaffecting} \union
    {t \in Candidates(results) :
       \A u \in Candidates(results) \union {Unaffecting} : u < t => ~ Accepts(b, u)}

(* Mutant of Comparison: acceptance at the high limit is good enough.      *)
ComparisonLenient(s, low, high) ==
  IF low.verdict = Expected(s) \/ high.verdict \in {Expected(s), "AC"} THEN {}
  ELSE {Error("verdict", s)}

(* What the comparison of the two verdicts with the expected one gives.    *)
Comparison(s, low, high) ==
  IF Partial(s) /\ FullyAccepted(low) THEN {Warning("fully accepted", s)}
  ELSE IF low.verdict = Expected(s)
  THEN If(/\ LowerBoundsTimeLimit(s)
          /\ ~ FullyAccepted(low)
          /\ BestScore # Infinite, Warning("not full score", s))
  ELSE IF high.verdict = Expected(s) /\ ~ (Partial(s) /\ FullyAccepted(high)) THEN {}
  ELSE {Error("verdict", s)}

(* Mutant of Sensitive: only the scores are compared.                      *)
SensitiveScore(low, high) == low.score # high.score

Sensitive(low, high) == low.verdict # high.verdict \/ low.score # high.score

(* _check_submission: judge() is called at the high limit first.           *)
CheckSubmission ==
  /\ pc \in {"lower", "rest"}
  /\ todo # <<>>
  /\ HasTestcases
  /\ \E b \in [Keys -> package.behaviours] :
       LET s == Head(todo)
           high == Overall(b, timelim_high)
           results == Results(b, timelim)
           low == Last(results).result
           oob == OutOfBounds(results)
           tried == IF Partial(s) /\ low.verdict = "AC" THEN Tried(b, results) ELSE {}
       IN  /\ judged' = [t \in DOMAIN judged \union {s} |->
                           IF t # s THEN judged[t]
                           ELSE [beh |-> b, low |-> low, high |-> high,
                                 first |-> timelim_high, second |-> timelim, tried |-> tried]]
           /\ seen_oob_score_groups' = seen_oob_score_groups \union oob
           /\ reports' = reports
                \union {Error("score range", <<s, g>>) : g \in oob \ seen_oob_score_groups}
                \union If(Expected(s) = "AC" /\ ~ Partial(s) /\ low.verdict = "AC"
                            /\ SampleFailure(results), Warning("sample", s))
                \union If(\E t \in tried \ {Unaffecting} : Accepts(b, t),
                          Warning("slower than all", s))
                \union If(Sensitive(low, high), Warning("sensitive", s))
                \union Comparison(s, low, high)
           /\ todo' = Tail(todo)
  /\ UNCHANGED <<pc, settings, timelim, timelim_high, announced>>

-----------------------------------------------------------------------------
(* _compute_time_limit.                                                    *)
CeilDiv(a, b) == - ((- a) \div b)

(* Mutant of RoundedLimit: rounded down.                                   *)
RoundedDown(runtime) ==
  Max({1, (runtime * AcToTimeLimit) \div TimeResolution}) * TimeResolution

RoundedLimit(runtime) ==
  Max({1, CeilDiv(runtime * AcToTimeLimit, TimeResolution)}) * TimeResolution

SlowestRuntime == Max({judged[s].low.runtime : s \in DOMAIN judged})

TooTight == FixedLimit # None /\ SlowestRuntime * AcToTimeLimit > FixedLimit

ComputeTimeLimit ==
  /\ pc = "lower"
  /\ todo = <<>>
  /\ judged # <<>>
  /\ timelim' = IF FixedLimit = None THEN RoundedLimit(SlowestRuntime) ELSE FixedLimit
  /\ timelim_high' = timelim' * TimeLimitToTle
  /\ announced' = timelim'
  /\ reports' = reports
       \union If(TooTight, IF cli # None THEN Warning("tight limit", None)
                                         ELSE Error("tight limit", None))
  /\ pc' = "rest"
  /\ todo' = Rest
  /\ UNCHANGED <<settings, judged, seen_oob_score_groups>>

(* No accepted submission was judged: the provisional limit stays.         *)
KeepTimeLimit ==
  /\ pc = "lower"
  /\ todo = <<>>
  /\ judged = <<>>
  /\ announced' = FixedLimit
  /\ reports' = reports \union If(FixedLimit = None, Error("no time limit", None))
  /\ pc' = "rest"
  /\ todo' = Rest
  /\ UNCHANGED <<settings, timelim, timelim_high, judged, seen_oob_score_groups>>

Finish ==
  /\ pc = "rest"
  /\ todo = <<>>
  /\ pc' = "done"
  /\ UNCHANGED <<settings, timelim, timelim_high, todo, judged, seen_oob_score_groups,
                 reports, announced>>

Init ==
  /\ pc = "start"
  /\ package \in Packages
  /\ yaml \in FixedLimits \union {None}
  /\ cli \in FixedLimits \union {None}
  /\ timelim = 0
  /\ timelim_high = 0
  /\ todo = <<>>
  /\ judged = <<>>
  /\ seen_oob_score_groups = {}
  /\ reports = {}
  /\ announced = None

Next ==
  \/ Start \/ SkipSubmission \/ CheckSubmission \/ ComputeTimeLimit \/ KeepTimeLimit
  \/ Finish

Spec == Init /\ [][Next]_vars

-----------------------------------------------------------------------------
Reported(what) == {r.about : r \in {q \in reports : q.what = what}}

(* The judge of a submission is asked at no limit above the first, the one *)
(* its background jobs ran at, although _warn_pac_too_slow takes its       *)
(* limits from runtimes, which may lie above it: otherwise the store would *)
(* answer with too low a run.                                              *)
LargestLimitFirst ==
  \A s \in DOMAIN judged :
    \A limit \in {judged[s].second} \union judged[s].tried : limit <= judged[s].first

(* A computed time limit leaves the accepted submissions the promised room *)
(* and no more than the rounding asks for: run on a machine slower by the  *)
(* multiplier they would get the same verdict, and one step of the         *)
(* resolution less would be too little for one of them.                    *)
Slowed(b) == [k \in Keys |-> [b[k] EXCEPT !.time = @ * AcToTimeLimit]]

Accepted == {s \in DOMAIN judged : LowerBoundsTimeLimit(s)}

ComputedLimitFits ==
  pc \in {"rest", "done"} /\ FixedLimit = None /\ Accepted # {} =>
    /\ timelim % TimeResolution = 0 /\ timelim > 0
    /\ \A s \in Accepted : judged[s].low.verdict = "AC" =>
         Accepts(Slowed(judged[s].beh), timelim)
    /\ timelim > TimeResolution =>
         \E s \in Accepted :
           judged[s].low.runtime * AcToTimeLimit > timelim - TimeResolution

(* The warning about a slow partially accepted submission is exact: it is  *)
(* given if and only if the submission needs a limit that would have moved *)
(* the computed one, and the limit it names is the least that suffices.    *)
Suffices(s) == {t \in 0 .. Cap : Accepts(judged[s].beh, t)}

PacWarningIsExact ==
  \A s \in DOMAIN judged :
    Partial(s) /\ judged[s].low.verdict = "AC" /\ FixedLimit = None /\ Accepted # {} =>
      LET needed == Min(Suffices(s))
      IN  IF s \in Reported("slower than all")
          THEN /\ RoundedLimit(needed) > timelim
               /\ Max(judged[s].tried) = needed
          ELSE RoundedLimit(needed) <= timelim

(* A submission meant to be too slow that gets AC at the time limit is     *)
(* never passed over: that it times out at the high limit is only accepted *)
(* instead of another rejection.                                           *)
SlowSubmissionsAreRejected ==
  \A s \in DOMAIN judged :
    Expected(s) = "TLE" /\ judged[s].low.verdict = "AC" => s \in Reported("verdict")

(* A submission nothing is said about has done what its directory says,    *)
(* with the same score, at both limits.                                    *)
Mentioned ==
  UNION {Reported(w) : w \in {"sensitive", "fully accepted", "not full score", "verdict"}}

SilenceMeansAgreement ==
  \A s \in DOMAIN judged \ Mentioned :
    /\ judged[s].low.verdict = Expected(s)
    /\ judged[s].high.verdict = Expected(s)
    /\ judged[s].low.score = judged[s].high.score
    /\ FullyAccepted(judged[s].high) => ~ Partial(s)
===============================================================================
