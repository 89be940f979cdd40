-------------------------- MODULE MCCheckSubmissions --------------------------
(***************************************************************************)
(* Instances of CheckSubmissions for TLC.  The sample is ignored by the    *)
(* root's grader and repeated in the secret group, which accepts when one  *)
(* of its test cases is accepted, so a submission can be accepted although *)
(* it times out; two accepted test cases leave the group's score range.    *)
(***************************************************************************)
EXTENDS CheckSubmissions

B(v, t) == [verdict |-> v, time |-> t, first |-> FALSE, crash |-> FALSE, score |-> NoScore]

NoCustomGrade(flags, lines) == <<"JE", 0>>

MCTests == {"s1", "t1", "t2"}
MCGroups == {"root", "sample", "secret"}
MCItems == [g \in MCGroups |->
              CASE g = "root"   -> <<"sample", "secret">>
                [] g = "sample" -> <<"s1">>
                [] g = "secret" -> <<"t1", "t2">>]
MCKeyOf == [t \in MCTests |-> IF t = "t2" THEN "k2" ELSE "k1"]
MCKeys == {"k1", "k2"}

Conf(acc, flags) ==
  [break |-> FALSE, accept_score |-> acc, reject_score |-> 0, grader |-> "default",
   flags |-> flags]

MCConfig == [g \in MCGroups |->
               CASE g = "root"   -> Conf(0, <<"ignore_sample", "sum">>)
                 [] g = "sample" -> Conf(0, <<>>)
                 [] g = "secret" -> Conf(5, <<"accept_if_any_accepted", "sum">>)]

MCRanges == [g \in MCGroups |->
               CASE g = "root" -> <<0, 10>> [] g = "sample" -> <<0, 0>>
                 [] g = "secret" -> <<0, 5>>]

(* Two submissions that determine the limit and one it is held against;    *)
(* they are quick, near the computed limit, just within the provisional    *)
(* one, or wrong.                                                          *)
LimitPackage ==
  [submissions |-> <<"a", "b", "p">>, included |-> {"a", "b", "p"},
   behaviours |-> {B("AC", 1), B("AC", 4), B("AC", 19), B("WA", 2)}]

(* Submissions with different expectations, one filtered out and one in no *)
(* known directory; the behaviours let each do what it should, at both     *)
(* limits or at one.                                                       *)
VerdictPackage ==
  [submissions |-> <<"a", "b", "r", "t", "x">>, included |-> {"a", "r", "t", "x"},
   behaviours |-> {B("AC", 4), B("AC", 19), B("WA", 2), B("RTE", 9)}]

MCPackages == {LimitPackage, VerdictPackage}

MCDirectory == [s \in {"a", "b", "p", "r", "t", "x"} |->
                  CASE s \in {"a", "b"} -> "accepted" [] s = "p" -> "partially_accepted"
                    [] s = "r" -> "run_time_error" [] s = "t" -> "time_limit_exceeded"
                    [] s = "x" -> "drafts"]
==============================================================================
