--------------------------- MODULE ExecuteTestcase ---------------------------
(***************************************************************************)
(* Running a submission on one test case (judge/execute.py) and reading    *)
(* the output validator's verdict (judge/validate.py), for the four kinds  *)
(* of problem: interactive or not, with one pass or several.               *)
(*                                                                         *)
(* The same submission is run twice, in execution directories of its own:  *)
(* at the high limit, as the store's entries are, and at a lower one.      *)
(* What a pass does until it is cut off is the same in both runs.          *)
(*                                                                         *)
(* Times are ticks, Second of them to a second.  The files the programs'   *)
(* output goes to and the texts of the results are left out.               *)
(***************************************************************************)
EXTENDS SubmissionResult, Sequences

CONSTANTS
  Problems,     \* the kinds of problem
  Passes,       \* what submission and validator may do in a pass
  HighLimit, LowLimit,
  Second,
  NoFile,       \* the feedback directory has no such file
  Unreadable    \* score.txt does not hold a number

ASSUME LimitsAssumption ==
  /\ Second \in Nat \ {0} /\ LowLimit \in Nat \ {0} /\ HighLimit \in Nat
  /\ LowLimit <= HighLimit

ASSUME FilesAssumption ==
  NoFile \notin Int /\ Unreadable \notin Int /\ NoFile # Unreadable

Problem == [interactive  : BOOLEAN,
            multi_pass   : BOOLEAN,
            passes       : Nat \ {0, 1},   \* limits.validation_passes
            custom_score : {"no", "allowed", "mandatory"},
            builds       : BOOLEAN]        \* validator compiles, runner is found

(* In a pass the submission uses some CPU time, waits idly for some more,  *)
(* and ends well or not; the validator accepts (42), rejects (43) or fails *)
(* (any other end), and may write score.txt and nextpass.in.  In an        *)
(* interactive problem the two run side by side, and the validator ends by *)
(* a clock of its own.                                                     *)
PassBehaviour == [time : Nat, idle : Nat, exits_ok : BOOLEAN, output_ok : BOOLEAN,
                  validator : {"accept", "reject", "fail"}, ends : Nat,
                  score : Int \union {NoFile, Unreadable}, next : BOOLEAN]

ASSUME InputsAssumption == Problems \subseteq Problem /\ Passes \subseteq PassBehaviour

VARIABLES
  problem,   \* the problem
  script,    \* what the passes seen so far do
  run        \* the two executions

vars == <<problem, script, run>>

Runs == {"high", "low"}
Timelim(x) == IF x = "high" THEN HighLimit ELSE LowLimit

Pending == [verdict |-> "pending"]
Answered(x) == run[x].result # Pending

(* math.ceil of a time in seconds.                                         *)
Ceil(t) == ((t + Second - 1) \div Second) * Second

-----------------------------------------------------------------------------
(* Mutant of Written: the score of the first pass stays.                   *)
WrittenOnce(b, fb, pass) ==
  [score    |-> IF fb.score = NoFile THEN b.score ELSE fb.score,
   nextpass |-> IF b.next THEN pass ELSE fb.nextpass]

(* The feedback directory.  A validator that writes no score.txt leaves    *)
(* the one of an earlier pass.  A file next to be read as input is known   *)
(* by the pass that wrote it.                                              *)
Written(b, fb, pass) ==
  [score    |-> IF b.score = NoFile THEN fb.score ELSE b.score,
   nextpass |-> IF b.next THEN pass ELSE fb.nextpass]

Exists(file) == file # NoFile

(* _parse_validator_result, for problem p.                                 *)
ParseAccept(p, fb) ==
  IF p.custom_score = "no"
  THEN NewResult(IF Exists(fb.score) THEN "JE" ELSE "AC")
  ELSE CASE fb.score = Unreadable -> NewResult("JE")
         [] fb.score \notin {NoFile, Unreadable} ->
              [NewResult("AC") EXCEPT !.score = fb.score]
         [] fb.score = NoFile /\ p.multi_pass /\ Exists(fb.nextpass) ->
              [NewResult("AC") EXCEPT !.score = 0]
         [] OTHER ->
              NewResult(IF p.custom_score = "mandatory" THEN "JE" ELSE "AC")

ParseValidatorResult(p, validator, fb) ==
  CASE validator = "fail"   -> NewResult("JE")
    [] validator = "reject" -> NewResult(IF Exists(fb.score) THEN "JE" ELSE "WA")
    [] validator = "accept" -> ParseAccept(p, fb)

Outcome(r, runtime, fb) == [result |-> [r EXCEPT !.runtime = runtime], feedback |-> fb]

(* Program.run.  SIGXCPU comes when the CPU time reaches the limit.        *)
Ended(b) == IF b.exits_ok THEN "ok" ELSE "failed"

Ran(b, timelim) ==
  IF b.time >= timelim THEN [status |-> "SIGXCPU", time |-> timelim]
                       ELSE [status |-> Ended(b), time |-> b.time]

(* Mutant of IsTLE: exactly the limit is too much.                         *)
IsTLEAtLimit(ran, limit) == ran.status \in {"SIGXCPU", "SIGUSR1"} \/ ran.time >= limit

IsTLE(ran, limit) == ran.status \in {"SIGXCPU", "SIGUSR1"} \/ ran.time > limit

(* _validate_output.                                                       *)
ValidateOutput(p, b, fb, pass) ==
  IF ~ b.output_ok THEN [result |-> NewResult("OLE"), feedback |-> fb]
  ELSE IF ~ p.builds THEN [result |-> NewResult("JE"), feedback |-> fb]
  ELSE LET after == Written(b, fb, pass)
       IN  [result |-> ParseValidatorResult(p, b.validator, after), feedback |-> after]

(* _run_normal: the submission, then the validator on its output.          *)
CpuLimit(limit) == Ceil(limit) + Second

RunNormal(p, b, fb, pass, limit) ==
  LET ran == Ran(b, CpuLimit(limit))
      validated == ValidateOutput(p, b, fb, pass)
  IN  IF IsTLE(ran, limit) THEN Outcome(NewResult("TLE"), ran.time, fb)
      ELSE IF ran.status = "failed" THEN Outcome(NewResult("RTE"), ran.time, fb)
      ELSE Outcome(validated.result, ran.time, validated.feedback)

Largest(a, b) == IF a >= b THEN a ELSE b

SubEnds(b) == b.time + b.idle
First(b) == b.ends < SubEnds(b)

(* Whether the interactive runner knows that a program has ended, at time  *)
(* t, when its alarm rings at the wall-time limit.  An end at that very    *)
(* time may catch it half-way through taking note (RaceWindow of module    *)
(* InteractiveRunner): it may then know the end or not, and have taken     *)
(* only part of the CPU time.                                              *)
WallLimit(limit) == Ceil(2 * limit)
Seen(t, limit) ==
  (IF t <= WallLimit(limit) THEN {"ended"} ELSE {})
    \union (IF WallLimit(limit) <= t THEN {"running"} ELSE {})
SeenFirst(b, limit, val) ==
  IF b.ends = WallLimit(limit) THEN {First(b), FALSE} ELSE {First(b) /\ val = "ended"}
SeenTime(b, limit) ==
  IF SubEnds(b) = WallLimit(limit) THEN 0 .. b.time ELSE {b.time}
Race(b, limit) == WallLimit(limit) \in {SubEnds(b), b.ends}

(* The line it reports: a submission still running is killed and gets      *)
(* SIGUSR1 and the whole wall time, one that has ended keeps its own; a    *)
(* validator still running is assumed to reject, even if all the wait was  *)
(* for it.                                                                 *)
Report(b, limit, val, sub, first, time) ==
  [validator |-> IF val = "ended" THEN b.validator ELSE "reject",
   first     |-> first,
   status    |-> IF sub = "ended" THEN Ended(b) ELSE "SIGUSR1",
   time      |-> IF sub = "ended" THEN time ELSE WallLimit(limit)]

Reports(b, limit, val) ==
  {Report(b, limit, val, sub, first, time) :
     sub \in Seen(SubEnds(b), limit), first \in SeenFirst(b, limit, val),
     time \in SeenTime(b, limit)}

(* _run_interactive, once the runner has reported.                         *)
RunInteractive(p, rep, fb, limit) ==
  LET decided == rep.validator = "fail" \/ (rep.validator = "reject" /\ rep.first)
      r == IF decided THEN ParseValidatorResult(p, rep.validator, fb)
           ELSE IF IsTLE(rep, limit) THEN NewResult("TLE")
           ELSE IF rep.status = "failed" THEN NewResult("RTE")
           ELSE ParseValidatorResult(p, rep.validator, fb)
  IN  Outcome([r EXCEPT !.first = rep.first],
              IF decided THEN Least(rep.time, limit) ELSE rep.time, fb)

(* With both programs gone main reports, too; an alarm between that and    *)
(* the runner's exit finds the file closed and crashes the runner, or      *)
(* doubles the line.                                                       *)
ReportsTwice(p, b, limit) ==
  /\ p.interactive /\ p.builds
  /\ Largest(SubEnds(b), b.ends) = WallLimit(limit)

(* A validator killed at the wall-time limit may have written its files.   *)
Interactively(p, b, fb, pass, limit, val) ==
  {RunInteractive(p, rep, after, limit) :
     rep \in Reports(b, limit, val),
     after \in {Written(b, fb, pass)} \union (IF val = "ended" THEN {} ELSE {fb})}

NotRun(fb) == Outcome(NewResult("JE"), -1, fb)

Outcomes(p, b, fb, pass, limit) ==
  IF ~ p.interactive THEN {RunNormal(p, b, fb, pass, limit)}
  ELSE IF ~ p.builds THEN {NotRun(fb)}
  ELSE (UNION {Interactively(p, b, fb, pass, limit, val) : val \in Seen(b.ends, limit)})
         \union (IF ReportsTwice(p, b, limit) THEN {NotRun(Written(b, fb, pass))} ELSE {})

-----------------------------------------------------------------------------
(* What a run does with the outcome of a pass: execute_testcase, and the   *)
(* loop of _run_multipass.                                                 *)
(* Mutant of Timed: the last pass gives the runtime.                       *)
TimedByLastPass(x, out) == out.result

Timed(x, out) ==
  [out.result EXCEPT !.runtime = Largest(run[x].slowest, out.result.runtime)]

Answer(x, r, out) ==
  run' = [run EXCEPT ![x].result = r, ![x].feedback = out.feedback]

SinglePass(x, out) ==
  /\ ~ problem.multi_pass
  /\ Answer(x, out.result, out)

StopAtVerdict(x, out) ==
  /\ problem.multi_pass
  /\ ~ Exists(out.feedback.nextpass)
  /\ Answer(x, Timed(x, out), out)

BlameNextpass(x, out) ==
  /\ problem.multi_pass
  /\ out.result.verdict # "AC"
  /\ Exists(out.feedback.nextpass)
  /\ Answer(x, NewResult("JE"), out)

(* Mutant of GoOn: nextpass.in is copied and stays.                        *)
GoOnKeepingNextpass(x, out) ==
  /\ problem.multi_pass
  /\ out.result.verdict = "AC"
  /\ Exists(out.feedback.nextpass)
  /\ run' = [run EXCEPT ![x].pass = @ + 1,
                        ![x].infile = out.feedback.nextpass,
                        ![x].feedback = out.feedback,
                        ![x].slowest = Largest(@, out.result.runtime)]

(* nextpass.in is renamed to the next pass's input.                        *)
GoOn(x, out) ==
  /\ problem.multi_pass
  /\ out.result.verdict = "AC"
  /\ Exists(out.feedback.nextpass)
  /\ run' = [run EXCEPT ![x].pass = @ + 1,
                        ![x].infile = out.feedback.nextpass,
                        ![x].feedback = [out.feedback EXCEPT !.nextpass = NoFile],
                        ![x].slowest = Largest(@, out.result.runtime)]

TooManyPasses(x) ==
  /\ ~ Answered(x)
  /\ run[x].pass > problem.passes
  /\ run' = [run EXCEPT ![x].result = NewResult("JE")]
  /\ UNCHANGED <<problem, script>>

(* A doubled line is more than output.split() can be unpacked into.        *)
LineRaises(x, b) ==
  /\ ReportsTwice(problem, b, Timelim(x))
  /\ Answer(x, InternalError, [feedback |-> Written(b, run[x].feedback, run[x].pass)])

(* What the run's next pass does; the run that gets there first fixes it.  *)
(* Only in interactive problems is there idle waiting and a validator that *)
(* does not start when the submission ends.                                *)
NextBehaviours(x) ==
  IF run[x].pass <= Len(script) THEN {script[run[x].pass]}
  ELSE {b \in Passes : problem.interactive \/ (b.idle = 0 /\ b.ends = b.time)}

RunPass(x) ==
  /\ ~ Answered(x)
  /\ run[x].pass <= problem.passes
  /\ \E b \in NextBehaviours(x) :
       /\ script' = IF run[x].pass <= Len(script) THEN script ELSE Append(script, b)
       /\ \/ LineRaises(x, b)
          \/ \E out \in Outcomes(problem, b, run[x].feedback, run[x].pass, Timelim(x)) :
               SinglePass(x, out) \/ StopAtVerdict(x, out) \/ BlameNextpass(x, out) \/ GoOn(x, out)
  /\ UNCHANGED problem

Init ==
  /\ problem \in Problems
  /\ script = <<>>
  /\ run = [x \in Runs |->
              [pass |-> 1, infile |-> 0, slowest |-> 0, result |-> Pending,
               feedback |-> [score |-> NoFile, nextpass |-> NoFile]]]

Next == \E x \in Runs : RunPass(x) \/ TooManyPasses(x)

Spec == Init /\ [][Next]_vars /\ WF_vars(Next)

-----------------------------------------------------------------------------
(* The store's bargain: the result at the high limit, reclassified, has    *)
(* the verdict and score of a run at the low limit.  Where it fails, in    *)
(* interactive problems: the wall-time limit cuts off a submission within  *)
(* its CPU limit, or a validator that is slow to answer one (which is WA   *)
(* at the low limit and the validator's own verdict at the high one); it   *)
(* comes before a rejection that the higher one would have waited for; or  *)
(* a program ends just as the alarm rings.  And, when a pass took longer   *)
(* than the low limit: judge errors of interactive or multi-pass problems  *)
(* and what follows the slow pass of an interactive, multi-pass problem.   *)
Overruns(b, limit) == WallLimit(limit) <= Largest(SubEnds(b), b.ends)
Slow(b) == b.time > LowLimit

RejectsLate(b) ==
  /\ b.validator = "reject" /\ First(b)
  /\ WallLimit(LowLimit) < b.ends /\ b.ends < WallLimit(HighLimit)

Exempt ==
  \E i \in DOMAIN script :
    \/ /\ problem.interactive
       /\ \/ Overruns(script[i], LowLimit) /\ ~ Slow(script[i])
          \/ RejectsLate(script[i])
          \/ Race(script[i], LowLimit) \/ Race(script[i], HighLimit)
    \/ /\ Slow(script[i])
       /\ \/ problem.interactive /\ problem.multi_pass
          \/ /\ run["high"].result.verdict = "JE"
             /\ problem.interactive \/ problem.multi_pass

HighRunSpeaksForLow ==
  Answered("high") /\ Answered("low") /\ ~ Exempt =>
    LET r == Reclassify(run["high"].result, LowLimit)
    IN  /\ r.verdict = run["low"].result.verdict
        /\ r.verdict = "AC" => r.score = run["low"].result.score

(* The score of an accepted run is the one the validator wrote last; a     *)
(* problem that demands a score never accepts without one, and a problem   *)
(* without custom scores never attaches one.                               *)
LastScore(x) ==
  LET written == {i \in 1 .. run[x].pass : script[i].score # NoFile}
  IN  IF written = {} THEN NoScore
      ELSE script[CHOOSE i \in written : \A j \in written : j <= i].score

ScoreIsLastWritten ==
  \A x \in Runs : run[x].result.verdict = "AC" =>
    /\ run[x].result.score = LastScore(x)
    /\ (run[x].result.score = NoScore) => problem.custom_score # "mandatory"
    /\ (run[x].result.score # NoScore) => problem.custom_score # "no"

(* One execution as the rest of the judge sees it: Direct of module        *)
(* SubmissionResult, applied to what the pass amounts to.  Only the wall-  *)
(* time limit can make a difference: it cuts off an idle submission, a     *)
(* validator slow to answer a submission within its limit, or one that     *)
(* would have decided later; and ends that race its alarm.                 *)
Decides(b) == b.validator = "fail" \/ (b.validator = "reject" /\ First(b))

CutShort(b, limit) ==
  \/ Race(b, limit)
  \/ Overruns(b, limit) /\ b.time <= limit
  \/ Decides(b) /\ WallLimit(limit) < b.ends

AsBehaviour(b) ==
  LET decided == problem.interactive /\ Decides(b)
      parsed == ParseValidatorResult(problem, b.validator,
                  Written(b, [score |-> NoFile, nextpass |-> NoFile], 1))
      verdict == IF decided THEN parsed.verdict
                 ELSE IF ~ b.exits_ok THEN "RTE"
                 ELSE IF ~ b.output_ok /\ ~ problem.interactive THEN "OLE"
                 ELSE parsed.verdict
  IN  [verdict |-> verdict, time |-> b.time, first |-> First(b), crash |-> decided,
       score |-> IF verdict = "AC" THEN parsed.score ELSE NoScore]

SinglePassIsDirect ==
  \A x \in Runs :
    /\ ~ problem.multi_pass
    /\ problem.builds
    /\ Answered(x)
    /\ ~ (problem.interactive /\ CutShort(script[1], Timelim(x)))
    => LET r == run[x].result
           d == Direct(AsBehaviour(script[1]), Timelim(x))
       IN  /\ r.verdict = d.verdict /\ r.score = d.score
           /\ r.verdict = "WA" => r.first = d.first
           /\ Least(r.runtime, Timelim(x) + 1) = Least(d.runtime, Timelim(x) + 1)

(* nextpass.in "despite non-42 exit code" is only held against a validator *)
(* that wrote the file in this pass, and did not exit with 42 or wrote a   *)
(* bad score.txt.  The exceptions are in interactive problems: the verdict *)
(* of a submission that breaks its limit or crashes, and that of the       *)
(* runner at the wall-time limit, is taken for that of the validator,      *)
(* whatever the validator did.                                             *)
BlameIsDeserved ==
  \A x \in Runs :
    LET b == script[run[x].pass]
    IN  /\ problem.multi_pass
        /\ Answered(x)
        /\ run[x].pass <= problem.passes
        /\ Exists(run[x].feedback.nextpass)
        => /\ run[x].feedback.nextpass = run[x].pass
           /\ \/ b.validator # "accept"
              \/ ParseAccept(problem, run[x].feedback).verdict # "AC"
              \/ /\ problem.interactive
                 /\ b.time > Timelim(x) \/ ~ b.exits_ok \/ Overruns(b, Timelim(x))
==============================================================================
