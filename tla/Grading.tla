------------------------------- MODULE Grading -------------------------------
(***************************************************************************)
(* How the results of a group's children become the group's result: the    *)
(* default grader (support/default_grader), grade_group (judge/grade.py)   *)
(* and SubmissionJudge._aggregate_group_result.                            *)
(*                                                                         *)
(* Scores are integers, in units of the last decimal the grader prints.    *)
(***************************************************************************)
EXTENDS SubmissionResult, SequencesExt

CONSTANTS
  CustomGrade(_, _),  \* the problem's own grader: flags and lines to <<verdict, score>>
  NoGrader            \* the value of Graders.grader when the problem has none

(* What a grader reads of the results: a line for each.                    *)
Lines(results) ==
  [i \in DOMAIN results |->
     [verdict |-> results[i].verdict,
      score |-> IF results[i].score = NoScore THEN 0 ELSE results[i].score]]

Verdicts(lines) == [i \in DOMAIN lines |-> lines[i].verdict]
Scores(lines) == [i \in DOMAIN lines |-> lines[i].score]

-----------------------------------------------------------------------------
(* The verdict aggregators of the default grader.                          *)
SortingOrder == <<"JE", "RTE", "MLE", "TLE", "OLE", "WA", "AC">>

WorstError(verdicts) ==
  SortingOrder[Min({i \in DOMAIN SortingOrder :
                      SortingOrder[i] \in ToSet(verdicts) \union {"AC"}})]

FirstError(verdicts) ==
  LET errors == {i \in DOMAIN verdicts : verdicts[i] # "AC"}
  IN  IF errors = {} THEN "AC" ELSE verdicts[Min(errors)]

AggregateVerdicts(how, verdicts) ==
  CASE how \in {"worst_error", "no_errors"} -> WorstError(verdicts)
    [] how = "first_error"                  -> FirstError(verdicts)
    [] how = "always_accept"                -> "AC"

(* The score aggregators; avg is rounded to the printed precision.         *)
Total(scores) == FoldLeft(LAMBDA a, b : a + b, 0, scores)

AggregateScores(how, scores) ==
  CASE how = "sum" -> Total(scores)
    [] how = "avg" -> (2 * Total(scores) + Len(scores)) \div (2 * Len(scores))
    [] how = "max" -> Max(ToSet(scores))
    [] how = "min" -> Min(ToSet(scores))

VerdictFlags == {"worst_error", "no_errors", "first_error", "always_accept"}
ScoreFlags == {"sum", "avg", "max", "min"}

(* The last flag of each kind counts.                                      *)
LastFlag(flags, kind, default) ==
  LET at == SelectLastInSeq(flags, LAMBDA f : f \in kind)
  IN  IF at = 0 THEN default ELSE flags[at]

(* The default grader's whole answer; its assertion that ignore_sample is  *)
(* used on one or two children ends in a judge error with score 0.         *)
DefaultGrader(flags, lines) ==
  LET ignore_sample == Contains(flags, "ignore_sample")
      kept == IF ignore_sample THEN <<Last(lines)>> ELSE lines
      how == LastFlag(flags, VerdictFlags, "worst_error")
      verdict == IF /\ Contains(flags, "accept_if_any_accepted")
                    /\ Contains(Verdicts(kept), "AC")
                 THEN "AC"
                 ELSE AggregateVerdicts(how, Verdicts(kept))
      score == AggregateScores(LastFlag(flags, ScoreFlags, "sum"), Scores(kept))
  IN  IF ignore_sample /\ Len(lines) > 2 THEN <<"JE", 0>> ELSE <<verdict, score>>

(* grade_group; the empty case does not arise from _judge_group.           *)
GradeGroup(grader, flags, results) ==
  CASE results = <<>>      -> <<"AC", 0>>
    [] grader = "default"  -> DefaultGrader(flags, Lines(results))
    [] grader = "custom"   -> CustomGrade(flags, Lines(results))

-----------------------------------------------------------------------------
(* The largest runtime of a non-empty sequence of results.                 *)
Slowest(results) == Max({results[i].runtime : i \in DOMAIN results})

(* Mutant of AggregateGroupResult: judge errors go to the grader, too.     *)
GradedWithErrors(grader, flags, scoring, children) ==
  LET graded == GradeGroup(grader, flags, children)
  IN  IF grader = NoGrader THEN Judgement(NewResult("JE"))
      ELSE [verdict |-> graded[1], runtime |-> Slowest(children),
            score |-> IF scoring THEN graded[2] ELSE NoScore]

(***************************************************************************)
(* _aggregate_group_result: a judge error among the children is copied as  *)
(* it is, score and runtime included; otherwise the grader decides and the *)
(* slowest child gives the runtime.  A grader that misbehaves answers JE   *)
(* without a score.                                                        *)
(***************************************************************************)
AggregateGroupResult(grader, flags, scoring, children) ==
  LET errors == {i \in DOMAIN children : children[i].verdict = "JE"}
      graded == GradeGroup(grader, flags, children)
  IN  IF errors # {} THEN children[Min(errors)]
      ELSE IF grader = NoGrader THEN Judgement(NewResult("JE"))
      ELSE [verdict |-> graded[1], runtime |-> Slowest(children),
            score |-> IF scoring THEN graded[2] ELSE NoScore]
=============================================================================
