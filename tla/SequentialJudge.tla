--------------------------- MODULE SequentialJudge ---------------------------
(***************************************************************************)
(* What judging a submission promises, with no store, no threads and no    *)
(* cancellation: a call of judge() answers what the submission does at the *)
(* limit it is called with, whatever the calls before it have left behind. *)
(***************************************************************************)
EXTENDS Naturals, Sequences

CONSTANTS
  Submissions,    \* what a submission may do
  Schedule,       \* the limits judge() is called with, in order
  Answer(_, _)    \* the answer of a submission at a limit

VARIABLES
  sub,      \* what the submission does
  judged    \* what the finished calls of judge() answered

Init ==
  /\ sub \in Submissions
  /\ judged = <<>>

Judge ==
  /\ Len(judged) < Len(Schedule)
  /\ judged' = Append(judged, Answer(sub, Schedule[Len(judged) + 1]))
  /\ UNCHANGED sub

Spec == Init /\ [][Judge]_<<sub, judged>>
==============================================================================
