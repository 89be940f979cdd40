-------------------------- MODULE SubmissionResult --------------------------
(***************************************************************************)
(* The result of running a submission on one test case, and what a cached  *)
(* result is worth at a time limit other than the one it was run at.       *)
(*                                                                         *)
(* Times are integers (ticks of CPU time); -1 is the runtime of a result   *)
(* no run stands behind.  The reason, additional_info and runtime_testcase *)
(* fields carry text for the report and are left out.                      *)
(***************************************************************************)
EXTENDS Integers

CONSTANT NoScore  \* SubmissionResult.score is None

ASSUME NoScoreAssumption == NoScore \notin Int

Verdict == {"AC", "WA", "TLE", "RTE", "MLE", "OLE", "JE"}

Result == [verdict : Verdict, runtime : Int, first : BOOLEAN,
           score : Int \union {NoScore}]

NewResult(v) == [verdict |-> v, runtime |-> -1, first |-> FALSE,
                 score |-> NoScore]

(* What the groups see of a result: only the store asks who ended first.   *)
Judgement(r) == [verdict |-> r.verdict, runtime |-> r.runtime, score |-> r.score]

(* The job wrapper's answer when the run itself raised.                    *)
InternalError == NewResult("JE")

Least(a, b) == IF a <= b THEN a ELSE b

(* Mutant of Reclassify: a cached result is returned as it is.             *)
ReclassifyNothing(r, limit) == r

(***************************************************************************)
(* _reclassify: a result run at some limit, read at a lower one.  A        *)
(* submission that ran past the limit gets TLE and keeps its runtime; only *)
(* an interactive run the validator ended first with WA stays WA.          *)
(***************************************************************************)
Reclassify(r, limit) ==
  IF r.runtime <= limit THEN r
  ELSE IF r.first /\ r.verdict = "WA" THEN [r EXCEPT !.runtime = limit]
  ELSE [NewResult("TLE") EXCEPT !.runtime = r.runtime]

(***************************************************************************)
(* What a submission does on one input, apart from any limit: the time it  *)
(* needs, the verdict it gets when it is given that time, the custom score *)
(* the validator attaches to it, whether the validator exits first (in an  *)
(* interactive problem), and whether a judge error is one the validator    *)
(* makes itself while the submission is running.                           *)
(***************************************************************************)
Behaviour == [verdict : {"AC", "WA", "RTE", "OLE", "JE"}, time : Nat,
              first : BOOLEAN, crash : BOOLEAN, score : Int \union {NoScore}]

(* The validator decides before the submission's time does.                *)
ValidatorDecides(b) ==
  \/ b.verdict = "WA" /\ b.first
  \/ b.verdict = "JE" /\ b.crash

(***************************************************************************)
(* The result of one execution at a limit, as execute_testcase delivers it *)
(* for a problem with a single pass (module ExecuteTestcase has the detail *)
(* and the multi-pass case).                                               *)
(***************************************************************************)
Direct(b, limit) ==
  IF ValidatorDecides(b)
  THEN [verdict |-> b.verdict, runtime |-> Least(b.time, limit),
        first |-> b.first, score |-> NoScore]
  ELSE IF b.time > limit
  THEN [verdict |-> "TLE", runtime |-> b.time, first |-> b.first,
        score |-> NoScore]
  ELSE [verdict |-> b.verdict, runtime |-> b.time, first |-> b.first,
        score |-> b.score]
=============================================================================
