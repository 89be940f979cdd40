-------------------------- MODULE MCExecuteTestcase --------------------------
(***************************************************************************)
(* Instances of ExecuteTestcase for TLC.  A second is two ticks, the       *)
(* limits are 3 and 6 ticks (1.5 s and 3 s); a submission needs just the   *)
(* low limit, a time between the two, or more than SIGXCPU allows.         *)
(***************************************************************************)
EXTENDS ExecuteTestcase

MCProblems == [interactive : BOOLEAN, multi_pass : BOOLEAN, passes : {3},
               custom_score : {"no", "allowed", "mandatory"}, builds : BOOLEAN]

P(t, idle, ok, out, v, ends, s, next) ==
  [time |-> t, idle |-> idle, exits_ok |-> ok, output_ok |-> out, validator |-> v,
   ends |-> ends, score |-> s, next |-> next]

Times == {3, 5, 13}
Validators == {"accept", "reject", "fail"}

(* The wall-time limits are 6 and 12 ticks: the validator ends before the  *)
(* submission, with it, or later, up to after either alarm and just as it  *)
(* rings; a submission idles until the first alarm or past it.             *)
MCPasses ==
  {P(t, 0, TRUE, TRUE, v, e, s, n) : t \in Times, v \in Validators, e \in {1, 8},
     s \in {NoFile, 7}, n \in BOOLEAN}
  \union {P(t, 0, TRUE, TRUE, v, t, s, n) : t \in Times, v \in Validators,
            s \in {NoFile, Unreadable, 7}, n \in BOOLEAN}
  \union {P(t, 0, ok, FALSE, v, e, NoFile, FALSE) : t \in {3, 5}, ok \in BOOLEAN,
            v \in {"accept", "reject"}, e \in {1, 3, 5}}
  \union {P(3, i, TRUE, TRUE, "accept", e, NoFile, n) : i \in {3, 4}, e \in {1, 7},
            n \in BOOLEAN}
  \union {P(t, 0, TRUE, TRUE, v, e, 7, n) : t \in Times, v \in Validators,
            e \in {6, 12, 14}, n \in BOOLEAN}
=============================================================================
