------------------------------ MODULE ScoreRange ------------------------------
(***************************************************************************)
(* The static check of score ranges (_check_score_range in                 *)
(* checks/testdata.py) against the scores judging really gives: the check  *)
(* reads the tree of groups once, without running anything, and computes   *)
(* the least and the largest score each group can get; afterwards a        *)
(* submission is judged (module TestTree).                                 *)
(*                                                                         *)
(* A problem is a tree with what each testdata.yaml declares; a group      *)
(* inherits the rest of its configuration (_load_group, model/testdata.py). *)
(* The trees are checked and judged without a data filter.                 *)
(*                                                                         *)
(* Scores are integers, in units of the last decimal the grader prints, as *)
(* in Grading.  Ranges are not rounded like that: they are given in parts  *)
(* of a unit, so fine that the bounds computed here are integers, too.     *)
(* Floating point is taken to be exact.  -Infinity and Infinity stand      *)
(* beyond all finite bounds.                                               *)
(***************************************************************************)
EXTENDS Grading

CONSTANTS
  Tests, Groups, Root, Keys, KeyOf,
  Sample, Secret,   \* the groups called "sample", and "secret"
  Problems,     \* items, own declarations of each group, legacy grading, custom scores,
                \* and whether there is a custom grader
  Behaviours,   \* what a submission may do on an input
  Limit,        \* the limit submissions are judged at
  Fine,         \* the parts of a unit that bounds are counted in
  Digits,       \* what :g prints of a number
  Infinity,
  Malformed     \* a declared range that is not two numbers

ASSUME RootAssumption == Root \in Groups /\ Limit \in Nat
ASSUME FineAssumption ==
  /\ Fine \in Nat \ {0} /\ Fine % 10 = 0 /\ Digits \in Nat \ {0}
  /\ \A p \in Problems, g \in Groups : \A n \in 1 .. Len(p.items[g]) :
       (Fine \div 10) % n ^ Cardinality(Groups) = 0
ASSUME InfinityAssumption == Infinity \in Nat \ {0} /\ Malformed \notin Int \X Int

VARIABLES
  problem,
  ranges,      \* what _check_score_range returns for each group it reaches
  aggregates,  \* the range it computes from the group's children
  reports,
  answer       \* the list judge() returned for a submission

vars == <<problem, ranges, aggregates, reports, answer>>

Unlimited == <<-Infinity, Infinity>>

DefaultConfig ==
  [break |-> TRUE, grader |-> "default", flags |-> <<>>, accept_score |-> 1,
   reject_score |-> 0, range |-> Unlimited]

(* _load_group: the problem's legacy grading comes before what the group   *)
(* declares itself, and that before what it inherits from its parent.      *)
ParentOf(p, g) == CHOOSE h \in Groups : Contains(p.items[h], g)

Merged(p) ==
  LET merged[g \in Groups] ==
        p.legacy @@ p.own[g] @@ (IF g = Root THEN DefaultConfig ELSE merged[ParentOf(p, g)])
  IN  [g \in Groups |-> merged[g]]

Load(p) == [items |-> p.items, own |-> p.own, legacy |-> p.legacy, custom |-> p.custom,
            grader |-> p.grader, config |-> Merged(p)]
Loaded == {Load(p) : p \in Problems}

DeclaredRange(p, g) == p.config[g].range

Report(level, what, g) == [level |-> level, what |-> what, about |-> g]
If(condition, report) == IF condition THEN {report} ELSE {}

-----------------------------------------------------------------------------
(* The children a group's range is computed from.                          *)
Flags(p, g) == p.config[g].flags

Counted(p, g) ==
  SelectSeq(p.items[g],
            LAMBDA n : ~ (g = Root /\ Contains(Flags(p, g), "ignore_sample") /\ n \in Sample))

(* An aggregator on bounds: an infinite one makes a sum infinite, and an   *)
(* average is the exact quotient.                                          *)
AggregateBounds(how, bounds) ==
  LET infinite == {i \in DOMAIN bounds : bounds[i] \in {-Infinity, Infinity}}
  IN  IF how \in {"sum", "avg"} /\ infinite # {} THEN bounds[Min(infinite)]
      ELSE IF how = "avg" THEN Total(bounds) \div Len(bounds)
      ELSE AggregateScores(how, bounds)

Lows(rs) == [i \in DOMAIN rs |-> rs[i][1]]
Highs(rs) == [i \in DOMAIN rs |-> rs[i][2]]

(* Mutant of Graded: breaks are forgotten.                                 *)
GradedInFull(config, bounds) == {bounds}

(* The group may stop after any prefix of its children when it breaks.     *)
Graded(config, bounds) ==
  IF config.break THEN Prefixes(bounds) \ {<<>>} ELSE {bounds}

ScoreFlag(p, g) == LastFlag(Flags(p, g), ScoreFlags, "sum")

GroupAggregate(p, g, rs) ==
  LET config == p.config[g]
      how == ScoreFlag(p, g)
  IN  IF rs = <<>> THEN <<0, 0>>
      ELSE IF config.grader = "custom" THEN Unlimited
      ELSE <<Min({AggregateBounds(how, b) : b \in Graded(config, Lows(rs))}),
             Max({AggregateBounds(how, b) : b \in Graded(config, Highs(rs))})>>

(* Mutant of TestRange: rejecting is taken to give 0.                      *)
TestRangeFromZero(p, g) ==
  LET scores == {0, p.config[g].accept_score, p.config[g].reject_score}
  IN  IF p.custom THEN Unlimited ELSE <<Fine * Min(scores), Fine * Max(scores)>>

TestRange(p, g) ==
  LET scores == {p.config[g].accept_score, p.config[g].reject_score}
  IN  IF p.custom THEN Unlimited ELSE <<Fine * Min(scores), Fine * Max(scores)>>

(* Mutant of Looser: a tight range is taken for a loose one.               *)
LooserOrEqual(declared, agg) == declared[1] <= agg[1] \/ declared[2] >= agg[2]

(* _warn_score_range and the two errors before it.                         *)
Disjoint(declared, agg) == declared[2] < agg[1] \/ declared[1] > agg[2]
Looser(declared, agg) == declared[1] < agg[1] \/ declared[2] > agg[2]

Trusted(declared, agg) ==
  IF declared = Malformed THEN agg
  ELSE IF declared[1] > declared[2] THEN agg
  ELSE IF Disjoint(declared, agg) THEN declared
  ELSE <<Max({agg[1], declared[1]}), Min({agg[2], declared[2]})>>

RangeReports(g, declared, agg) ==
  IF declared = Malformed THEN {Report("error", "range format", g)}
  ELSE IF declared[1] > declared[2] THEN {Report("error", "range inverted", g)}
  ELSE IF Disjoint(declared, agg) THEN {Report("warning", "range disjoint", g)}
  ELSE IF Looser(declared, agg) THEN {Report("warning", "range loose", g)}
  ELSE IF g = Root /\ declared = Unlimited THEN {Report("warning", "no range", g)}
  ELSE If(g = Root /\ declared[1] < 0, Report("warning", "range negative", g))

(* The whole recursion: the aggregate of each group, from its children's   *)
(* trusted ranges.                                                         *)
Aggregates(p) ==
  LET agg[g \in Groups] ==
        GroupAggregate(p, g,
          [i \in DOMAIN Counted(p, g) |->
             LET n == Counted(p, g)[i]
             IN  IF n \in Tests THEN TestRange(p, g) ELSE Trusted(DeclaredRange(p, n), agg[n])])
  IN  [g \in Groups |-> agg[g]]

(* The groups the recursion reaches from the root: it does not go below a  *)
(* group with a grader of its own.                                         *)
Reached(p) ==
  LET reach[g \in Groups] ==
        {g} \union (IF p.config[g].grader = "custom" THEN {}
                    ELSE UNION {reach[n] : n \in ToSet(Counted(p, g)) \intersect Groups})
  IN  reach[Root]

-----------------------------------------------------------------------------
(* _check_group, but for what it says about file names and answer files,   *)
(* and _warn_reject_score.                                                 *)
Subtree(p) ==
  LET below[g \in Groups] ==
        {g} \union (UNION {below[n] : n \in ToSet(p.items[g]) \intersect Groups})
  IN  below

IgnoresSample(p, g) ==
  p.config[g].grader = "default" /\ Contains(Flags(p, g), "ignore_sample")

LacksGrader(p, g) == p.config[g].grader = "custom" /\ ~ p.grader

RootReports(items) ==
  (UNION {If(n \in Tests, Report("error", "test at top level", n))
            \union If(n \in Groups \ (Sample \union Secret),
                      Report("error", "group at top level", n)) : n \in items})
    \union If(items \intersect Secret = {}, Report("error", "no secret", Root))
    \union If(items \intersect Sample = {}, Report("warning", "no sample", Root))

GroupReports(p, g) ==
  IF LacksGrader(p, g) THEN {Report("error", "no grader", g)}
  ELSE If(IgnoresSample(p, g) /\ g # Root, Report("error", "ignore_sample", g))
         \union If(IgnoresSample(p, g) /\ g = Root /\ p.config[g].break,
                   Report("error", "ignore_sample breaks", g))
         \union (IF g = Root THEN RootReports(ToSet(p.items[g])) ELSE {})
         \union If(p.items[g] = <<>>,
                   Report(IF g \in Sample THEN "warning" ELSE "error", "empty", g))

(* The groups are gone through in order, the first without the grader it   *)
(* needs ends the verification of the problem.                             *)
Walk(p) ==
  LET walk[g \in Groups] ==
        <<g>> \o FlattenSeq([i \in DOMAIN p.items[g] |->
                               IF p.items[g][i] \in Groups THEN walk[p.items[g][i]] ELSE <<>>])
  IN  walk[Root]

Visited(p) ==
  {Walk(p)[i] : i \in {j \in DOMAIN Walk(p) : \A k \in 1 .. j - 1 : ~ LacksGrader(p, Walk(p)[k])}}

WarnRejectScore(p) ==
  UNION {If(p.config[g].reject_score # 0, Report("warning", "reject score", g)) :
           g \in Subtree(p)[Root]}

-----------------------------------------------------------------------------
Init ==
  /\ problem \in Loaded
  /\ ranges = <<>>
  /\ aggregates = <<>>
  /\ reports = {}
  /\ answer = <<>>

(* check_testdata.                                                         *)
CheckTestdata ==
  /\ ranges = <<>>
  /\ aggregates' = [g \in Reached(problem) |-> Aggregates(problem)[g]]
  /\ ranges' = [g \in Reached(problem) |-> Trusted(DeclaredRange(problem, g), aggregates'[g])]
  /\ reports' = WarnRejectScore(problem)
       \union (UNION {RangeReports(g, DeclaredRange(problem, g), aggregates'[g]) :
                         g \in Reached(problem)})
       \union (UNION {GroupReports(problem, g) : g \in Visited(problem)})
  /\ UNCHANGED <<problem, answer>>

Judge == INSTANCE TestTree WITH
  Items <- problem.items, Config <- problem.config, Matching <- Tests, Scoring <- TRUE

Results(b) == Judge!Answer([t \in Tests |-> Judgement(Direct(b[KeyOf[t]], Limit))])

Submission(p) == [Keys -> {b \in Behaviours : p.custom \/ b.score = NoScore}]

JudgeSubmission ==
  /\ ranges # <<>>
  /\ \A r \in reports : r.what # "no grader"
  /\ answer = <<>>
  /\ \E b \in Submission(problem) : answer' = Results(b)
  /\ UNCHANGED <<problem, ranges, aggregates, reports>>

Next == CheckTestdata \/ JudgeSubmission

Spec == Init /\ [][Next]_vars

-----------------------------------------------------------------------------
Errors == {r \in reports : r.level = "error"}

(* Every average is printed in whole units, so a score may miss what its   *)
(* group would get exactly by half a unit for each one below it.           *)
Averaging(g) ==
  {n \in Subtree(problem)[g] :
     problem.config[n].grader = "default" /\ ScoreFlag(problem, n) = "avg"}

Rounding(g) == (Fine * Cardinality(Averaging(g))) \div 2

Within(g, score, range) ==
  /\ range[1] - Rounding(g) <= Fine * score
  /\ Fine * score <= range[2] + Rounding(g)

ScoresOf(list, g) ==
  {list[i].result.score : i \in {j \in DOMAIN list :
     list[j].node = g /\ list[j].result.verdict # "JE"}}

SubgroupsOf(g) == (DOMAIN ranges \intersect Subtree(problem)[g]) \ {g}

(* The computed range of a group is right for every submission, when the   *)
(* check found no error: whatever prefix of its children the judge gets to *)
(* before the group breaks, and whatever a custom grader does with their   *)
(* scores, the group's score lies in it, up to the rounding of what the    *)
(* graders print, provided the scores of the groups below lie in the       *)
(* ranges declared for them.                                               *)
ScoresStayInRange ==
  Errors = {} =>
    \A g \in DOMAIN ranges :
      (\A n \in SubgroupsOf(g) :
         \A s \in ScoresOf(answer, n) : Within(n, s, DeclaredRange(problem, n)))
        => \A s \in ScoresOf(answer, g) : Within(g, s, aggregates[g])

(* Without breaks, custom scores, declared ranges and ignored errors the   *)
(* computed range is the tightest there is, so the advice to tighten a     *)
(* declared range is sound: some submission gets the least score, and some *)
(* submission the largest, up to the rounding of what the graders print.   *)
Plain(p) ==
  /\ ~ p.custom
  /\ \A g \in Groups :
       DeclaredRange(p, g) = Unlimited /\ ~ p.config[g].break /\ p.config[g].grader = "default"

Reaches(bound) ==
  \E b \in Submission(problem) :
    Within(Root, Last(Results(b)).result.score, <<bound, bound>>)

BoundsAreReached ==
  ranges # <<>> /\ answer = <<>> /\ Errors = {} /\ Plain(problem) =>
    Reaches(aggregates[Root][1]) /\ Reaches(aggregates[Root][2])

(* A bound as :g prints it, to Digits digits, but in the model never finer *)
(* than a tenth of a unit: 5/3 becomes 1.66667.                            *)
Magnitude(v) == IF v < 0 THEN -v ELSE v

Grain(v) ==
  Min({g \in {(Fine \div 10) * 10 ^ k : k \in 0 .. 3} : Magnitude(v) < g * 10 ^ Digits})

Printed(v) ==
  IF v \in {-Infinity, Infinity} THEN v
  ELSE ((2 * v + Grain(v)) \div (2 * Grain(v))) * Grain(v)

(* Advice settles: when the range that is printed is declared for every    *)
(* group the check calls loose, the next check calls none loose, although  *)
(* a group may have lost a tighter bound of its own and the groups above   *)
(* are computed anew.  That is so when                                     *)
(*   - every bound is printed exactly: after highs of 1, 1 and 3, an       *)
(*     average of 5/3, the advice "range: 0 1.66667" is loose for ever;    *)
(*   - the new declarations are inherited by no group without one, which   *)
(*     would change what is computed from it;                              *)
(*   - no declared range is disjoint from the computed one: the check      *)
(*     believes it, and it may overlap what is computed the next time.     *)
Advised(p, agg) ==
  {g \in Reached(p) : \E r \in RangeReports(g, DeclaredRange(p, g), agg[g]) :
     r.what = "range loose"}

Advice(bounds) == <<Printed(bounds[1]), Printed(bounds[2])>>

Follow(p) ==
  LET agg == Aggregates(p)
      own == [g \in Groups |->
                IF g \in Advised(p, agg) THEN [range |-> Advice(agg[g])] @@ p.own[g]
                                         ELSE p.own[g]]
  IN  Load([p EXCEPT !.own = own])

AdviceSettles ==
  /\ ranges # <<>> /\ answer = <<>> /\ "range" \notin DOMAIN problem.legacy
  /\ \A r \in reports : r.what # "range disjoint"
  /\ \A g \in Advised(problem, aggregates) : Advice(aggregates[g]) = aggregates[g]
  =>
    \A p \in {Follow(problem)} :
      (\A g \in Groups \ Advised(problem, aggregates) :
         DeclaredRange(p, g) = DeclaredRange(problem, g))
        => Advised(p, Aggregates(p)) = {}
===============================================================================
