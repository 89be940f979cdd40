-------------------------- MODULE MCSubmissionJudge --------------------------
(***************************************************************************)
(* Instances of SubmissionJudge for TLC: a root with a sample group and    *)
(* two secret groups, the first of which breaks; the second repeats a test *)
(* case of the first under a score of its own.  The sample repeats one too *)
(* and is filtered out.                                                    *)
(***************************************************************************)
EXTENDS SubmissionJudge

B(v, t, f) == [verdict |-> v, time |-> t, first |-> f, crash |-> FALSE,
               score |-> NoScore]

MCBehaviours == {B("AC", 2, FALSE), B("AC", 1, FALSE), B("WA", 3, TRUE)}

FailingBehaviours == {B("AC", 2, FALSE), B("WA", 3, TRUE)}

NoCustomGrade(flags, lines) == <<"JE", 0>>

Limits == <<2, 1>>

LargestFirst == <<2, 1, 2>>

MCTests == {"s1", "a1", "a2", "b1"}
MCGroups == {"root", "sample", "a", "b"}
MCItems == [g \in MCGroups |->
              CASE g = "root"   -> <<"sample", "a", "b">>
                [] g = "sample" -> <<"s1">>
                [] g = "a"      -> <<"a1", "a2">>
                [] g = "b"      -> <<"b1">>]
MCKeyOf == [t \in MCTests |->
              IF t \in {"s1", "a1"} THEN "k1" ELSE "k2"]
MCKeys == {"k1", "k2"}

Conf(b, acc, rej, flags) ==
  [break |-> b, accept_score |-> acc, reject_score |-> rej, grader |-> "default",
   flags |-> flags]

MCConfig == [g \in MCGroups |->
               CASE g = "root"   -> Conf(FALSE, 0, 0, <<"first_error", "sum">>)
                 [] g = "sample" -> Conf(FALSE, 0, 0, <<>>)
                 [] g = "a"      -> Conf(TRUE, 3, 0, <<"min">>)
                 [] g = "b"      -> Conf(TRUE, 5, 1, <<"sum">>)]

NoSample == MCTests \ {"s1"}
==============================================================================
