----------------------------- MODULE MCScoreRange -----------------------------
(***************************************************************************)
(* Instances of ScoreRange for TLC: a sample group and a secret group with *)
(* two subgroups, over the flags, break rules, scores and declared ranges  *)
(* that the computation distinguishes.                                     *)
(***************************************************************************)
EXTENDS ScoreRange

B(v, s) == [verdict |-> v, time |-> 1, first |-> FALSE, crash |-> FALSE, score |-> s]

MCBehaviours == {B("AC", NoScore), B("WA", NoScore), B("AC", 9)}

(* A grader that gives bonus points for whatever was accepted.             *)
BonusGrade(flags, lines) ==
  IF "AC" \in ToSet(Verdicts(lines)) THEN <<"AC", 20>> ELSE <<"WA", 0>>

MCTests == {"s1", "a1", "a2", "b1"}
MCGroups == {"root", "sample", "secret", "a", "b"}
MCKeyOf == [t \in MCTests |-> t]

Tree(sample) ==
  [g \in MCGroups |->
     CASE g = "root"   -> <<"sample", "secret">>
       [] g = "sample" -> sample
       [] g = "secret" -> <<"a", "b">>
       [] g = "a"      -> <<"a1", "a2">>
       [] g = "b"      -> <<"b1">>]

Own(break, how) == [break |-> break, flags |-> how]

RootOwn ==
  {Own(FALSE, <<"ignore_sample", "sum">>), Own(FALSE, <<"max", "min">>), [flags |-> <<"avg">>]}
SecretOwn ==
  {Own(k, <<how>>) : k \in BOOLEAN, how \in ScoreFlags}
    \union {[grader |-> "custom", flags |-> <<>>], [break |-> TRUE]}
AOwn ==
  {[break |-> k, accept_score |-> s[1], reject_score |-> s[2], flags |-> <<how, "first_error">>] :
     k \in BOOLEAN, s \in {<<3, 0>>, <<1, 4>>, <<2, -3>>}, how \in {"sum", "min"}}

(* Each problem varies the subgroup, the secret group, or the declarations.*)
Problem(root, secret, a, custom, sample) ==
  [items |-> Tree(sample),
   own |-> [g \in MCGroups |->
              CASE g = "root" -> root [] g = "secret" -> secret [] g = "a" -> a
                [] g = "sample" -> [break |-> FALSE, flags |-> <<>>]
                [] g = "b" -> [accept_score |-> 5, reject_score |-> 1]],
   legacy |-> <<>>,
   custom |-> custom,
   grader |-> TRUE]

(* The range that a group declares, if it declares one.                    *)
InUnits(range) == IF range = Malformed THEN range ELSE <<Fine * range[1], Fine * range[2]>>

With(range, own) == IF range = <<>> THEN own ELSE [range |-> InUnits(range)] @@ own

Declaring ==
  {Problem(With(r, Own(FALSE, <<"max", "min">>)), With(s, secret),
           With(a, [break |-> TRUE, accept_score |-> 2, reject_score |-> -3, flags |-> <<"sum">>]),
           c, <<"s1">>) :
     r \in {<<>>, <<0, 8>>}, s \in {<<>>, <<0, 8>>, <<30, 40>>},
     a \in {<<>>, <<0, 3>>, <<5, 1>>, Malformed},
     secret \in {Own(TRUE, <<"avg">>), Own(FALSE, <<"sum">>),
                 [grader |-> "custom", flags |-> <<>>]},
     c \in BOOLEAN}

(* Other groups or test cases at the top level, and no custom grader.      *)
Misplaced ==
  {[Tree(<<"s1">>) EXCEPT !["root"] = <<"secret">>, !["secret"] = <<"sample", "a", "b">>],
   [Tree(<<"s1">>) EXCEPT !["root"] = <<"sample", "secret", "b">>, !["secret"] = <<"a">>],
   [Tree(<<>>) EXCEPT !["root"] = <<"s1", "secret">>, !["secret"] = <<"sample", "a", "b">>]}

Incomplete ==
  {[Problem([flags |-> <<"avg">>], secret, [flags |-> <<"sum">>], FALSE, <<>>) EXCEPT
      !.items = items, !.grader = FALSE] : secret \in SecretOwn, items \in Misplaced}

(* A range that is disjoint from what is computed, and is not any more when *)
(* the range below it is widened.                                          *)
DisjointAbove ==
  {[Problem(Own(FALSE, <<"max", "min">>),
            With(<<9, 20>>, Own(FALSE, <<"sum">>)),
            With(<<-10, 3>>, [accept_score |-> 5, reject_score |-> 0]), FALSE, <<"s1">>)
      EXCEPT !.own["b"] = With(<<1, 5>>, @)]}

MCProblems ==
  {Problem(r, s, a, FALSE, <<"s1">>) : r \in RootOwn, s \in SecretOwn, a \in AOwn}
    \union Declaring
    \union {[p EXCEPT !.legacy = l] :
              p \in {q \in Declaring : ~ q.custom /\ "range" \notin DOMAIN q.own["secret"]},
              l \in {[break |-> FALSE], [accept_score |-> 4, range |-> InUnits(<<0, 6>>)]}}
    \union DisjointAbove
    \union Incomplete

(* A sample group without test cases, which is allowed.                    *)
EmptySample ==
  {Problem(Own(FALSE, <<"avg">>), Own(FALSE, <<"sum">>),
           [accept_score |-> 3, flags |-> <<"min">>], FALSE, <<>>)}
===============================================================================
