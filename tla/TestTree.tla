------------------------------- MODULE TestTree -------------------------------
(***************************************************************************)
(* The tree of test data groups a submission is judged on                  *)
(* (model/testdata.py), the parts of grading that read it, and what        *)
(* judging one test case after the other answers.                          *)
(***************************************************************************)
EXTENDS Grading

CONSTANTS
  Tests,       \* the test cases, by their input files
  Groups,      \* the test data groups
  Root,
  Items,       \* the items of each group, in order
  Matching,    \* the test cases the data filter selects
  Config,      \* break, accept_score, reject_score, grader, flags per group
  Scoring      \* metadata.is_scoring()

ASSUME TreeAssumption ==
  /\ Root \in Groups
  /\ IsFiniteSet(Groups)
  /\ Tests \intersect Groups = {}
  /\ Items \in [Groups -> Seq(Tests \union Groups)]
  /\ Matching \subseteq Tests
  /\ Scoring \in BOOLEAN

(* The recursion over the groups ends: the tree is read from a directory,  *)
(* so a group is less high than the one it is in.                          *)
ASSUME FiniteTreeAssumption ==
  \E height \in [Groups -> 0 .. Cardinality(Groups)] :
    \A g \in Groups : \A n \in ToSet(Items[g]) \intersect Groups : height[n] < height[g]

(* The test cases of a subtree, TestDataGroup.get_all_testcases.           *)
AllTestcases[g \in Groups] ==
  FlattenSeq([i \in DOMAIN Items[g] |->
                IF Items[g][i] \in Tests THEN <<Items[g][i]>>
                ELSE AllTestcases[Items[g][i]]])

(* A filter never drops a group, only test cases.                          *)
Selected(nodes) ==
  FlattenSeq([i \in DOMAIN nodes |->
                IF nodes[i] \in Groups \union Matching THEN <<nodes[i]>> ELSE <<>>])

(* The score a test case gets from its group when the validator gave none. *)
WithDefaultScore(r, g) ==
  IF r.score # NoScore THEN r
  ELSE [r EXCEPT !.score = IF r.verdict = "AC" THEN Config[g].accept_score
                                               ELSE Config[g].reject_score]

(* A group stops at a child with this result.                              *)
Breaks(g, r) == r.verdict # "AC" /\ Config[g].break

GroupResult(g, children) ==
  AggregateGroupResult(Config[g].grader, Config[g].flags, Scoring, children)

(* One line of the list judge() returns.                                   *)
At(node, r) == [node |-> node, result |-> r]

-----------------------------------------------------------------------------
(***************************************************************************)
(* The list a call of judge() returns when the test cases are run one      *)
(* after the other and give the outcomes run: depth first, test cases and  *)
(* groups, each group after its items and none with nothing in it.         *)
(***************************************************************************)
ListOf(out, run, g, item) ==
  IF item \in Groups THEN out[item] ELSE <<At(item, WithDefaultScore(run[item], g))>>

(* A group of which everything is filtered out is passed over.             *)
Child(list) == IF list = <<>> THEN <<>> ELSE <<list>>

Children(out, run, g) ==
  LET items == Selected(Items[g])
      first[n \in 0 .. Len(items)] ==
        IF n = 0 THEN <<>> ELSE first[n - 1] \o Child(ListOf(out, run, g, items[n]))
  IN  first[Len(items)]

(* The children of a group up to the first one it breaks at.               *)
UpToBreak(g, children) ==
  LET stops == {i \in DOMAIN children : Breaks(g, Last(children[i]).result)}
  IN  IF stops = {} THEN children ELSE SubSeq(children, 1, Min(stops))

OwnResults(children) == [i \in DOMAIN children |-> Last(children[i]).result]

GroupAnswer(out, run, g) ==
  LET children == UpToBreak(g, Children(out, run, g))
  IN  IF children = <<>> THEN <<>>
      ELSE Append(FlattenSeq(children), At(g, GroupResult(g, OwnResults(children))))

Answer(run) == LET out[g \in Groups] == GroupAnswer(out, run, g) IN out[Root]
===============================================================================
