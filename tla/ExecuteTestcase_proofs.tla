------------------------ MODULE ExecuteTestcase_proofs ------------------------
(***************************************************************************)
(* Theorems about the execution of a submission on one test case, for any  *)
(* problems, any behaviour of the passes, any limits and any number of     *)
(* ticks to the second.  What the store relies on is HighRunSpeaks: the    *)
(* result at the high limit, reclassified, is that of a run at the low     *)
(* limit.  First what one pass does, then the invariant IInv that ties the *)
(* executions to the passes so far, then the theorems.                     *)
(***************************************************************************)
EXTENDS ExecuteTestcase, TLAPS

(* math.ceil gives the least whole number of seconds that suffices.        *)
LEMMA CeilBounds ==
  ASSUME NEW t \in Nat
  PROVE  Ceil(t) \in Nat /\ Ceil(t) >= t /\ Ceil(t) < t + Second
<1>1. Second \in Nat \ {0}
  BY LimitsAssumption
<1>2. t + Second - 1 \in Nat
  BY <1>1
<1> DEFINE a == t + Second - 1
           q == a \div Second
<1>3. q \in Int /\ q * Second <= a /\ a < q * Second + Second
  BY <1>1, <1>2, Z3
<1>. QED  BY <1>1, <1>3 DEF Ceil

LEMMA CeilMonotone ==
  ASSUME NEW s \in Nat, NEW t \in Nat, s <= t
  PROVE  Ceil(s) <= Ceil(t)
<1>1. Second \in Nat \ {0}
  BY LimitsAssumption
<1> DEFINE p == (s + Second - 1) \div Second
           q == (t + Second - 1) \div Second
<1>2. p \in Int /\ q \in Int /\ p <= q
  BY <1>1, Z3
<1>3. p * Second <= q * Second
  BY <1>1, <1>2, Z3
<1>. QED  BY <1>3 DEF Ceil

(* SIGXCPU and the wall-time limit come after the limit itself, and later  *)
(* at a larger limit.                                                      *)
LEMMA KillsComeLater ==
  ASSUME NEW limit \in Nat \ {0}
  PROVE  /\ CpuLimit(limit) \in Nat /\ CpuLimit(limit) > limit
         /\ WallLimit(limit) \in Nat /\ WallLimit(limit) > limit
<1>1. 2 * limit \in Nat /\ 2 * limit > limit
  OBVIOUS
<1>. QED  BY <1>1, CeilBounds, LimitsAssumption DEF CpuLimit, WallLimit

LEMMA WallMonotone ==
  ASSUME NEW low \in Nat, NEW high \in Nat, low <= high
  PROVE  WallLimit(low) <= WallLimit(high)
BY CeilMonotone, 2 * low \in Nat, 2 * high \in Nat, 2 * low <= 2 * high DEF WallLimit

-----------------------------------------------------------------------------
(* One pass, at one limit.                                                 *)
Feedback == [score    : Int \union {NoFile, Unreadable},
             nextpass : Nat \union {NoFile}]

(* A pass whose validator accepts, and that nothing cuts short.            *)
Clean(p, b, limit) ==
  /\ b.time <= limit /\ b.exits_ok /\ p.builds /\ b.validator = "accept"
  /\ IF p.interactive THEN ~ Overruns(b, limit) ELSE b.output_ok

(* A pass in which a program ends just as the alarm rings.                 *)
Raced(p, b, limit) == p.interactive /\ Race(b, limit)

LEMMA WrittenTyped ==
  ASSUME NEW b \in PassBehaviour, NEW fb \in Feedback, NEW pass \in Nat
  PROVE  Written(b, fb, pass) \in Feedback
BY DEF Written, Feedback, PassBehaviour

LEMMA NewResultIs ==
  ASSUME NEW v \in Verdict
  PROVE  /\ NewResult(v) \in Result
         /\ NewResult(v).verdict = v
         /\ NewResult(v).runtime = -1
         /\ NewResult(v).first = FALSE
         /\ NewResult(v).score = NoScore
BY DEF NewResult, Result, Verdict

LEMMA ResultExcept ==
  ASSUME NEW r \in Result, NEW t \in Int, NEW f \in BOOLEAN, NEW s \in Int
  PROVE  /\ [r EXCEPT !.runtime = t] \in Result
         /\ [r EXCEPT !.runtime = t] =
              [verdict |-> r.verdict, runtime |-> t, first |-> r.first, score |-> r.score]
         /\ [r EXCEPT !.first = f] \in Result
         /\ [r EXCEPT !.first = f] =
              [verdict |-> r.verdict, runtime |-> r.runtime, first |-> f, score |-> r.score]
         /\ [r EXCEPT !.score = s] \in Result
         /\ [r EXCEPT !.score = s] =
              [verdict |-> r.verdict, runtime |-> r.runtime, first |-> r.first, score |-> s]
BY DEF Result

LEMMA ScoredAccept ==
  ASSUME NEW s \in Int
  PROVE  [NewResult("AC") EXCEPT !.score = s] =
           [verdict |-> "AC", runtime |-> -1, first |-> FALSE, score |-> s]
<1>1. /\ NewResult("AC") \in Result /\ NewResult("AC").verdict = "AC"
      /\ NewResult("AC").runtime = -1 /\ NewResult("AC").first = FALSE
  BY NewResultIs DEF Verdict
<1>2. [NewResult("AC") EXCEPT !.score = s] =
        [verdict |-> NewResult("AC").verdict, runtime |-> NewResult("AC").runtime,
         first |-> NewResult("AC").first, score |-> s]
  BY <1>1, ResultExcept, Zenon
<1>. QED  BY <1>1, <1>2, Zenon

(* What _parse_validator_result makes of an accepting validator.           *)
LEMMA AcceptTyped ==
  ASSUME NEW p \in Problem, NEW fb \in Feedback
  PROVE  /\ ParseAccept(p, fb) \in Result
         /\ ParseAccept(p, fb).verdict \in {"AC", "JE"}
         /\ ParseAccept(p, fb).runtime = -1
         /\ ParseAccept(p, fb).first = FALSE
         /\ ParseAccept(p, fb).verdict = "JE" => ParseAccept(p, fb).score = NoScore
         /\ ParseAccept(p, fb).verdict = "AC" =>
              \/ fb.score = NoFile /\ ParseAccept(p, fb).score = NoScore
                                   /\ p.custom_score # "mandatory"
              \/ fb.score \in Int /\ ParseAccept(p, fb).score = fb.score
                                  /\ p.custom_score # "no"
              \/ fb.score = NoFile /\ p.multi_pass /\ Exists(fb.nextpass)
<1>1. NewResult("AC") \in Result /\ NewResult("JE") \in Result
  BY NewResultIs DEF Verdict
<1>2. fb.score \in Int \/ fb.score = NoFile \/ fb.score = Unreadable
  BY DEF Feedback
<1>3. CASE fb.score \in Int
  <2>1. fb.score # NoFile /\ fb.score # Unreadable
    BY <1>3, FilesAssumption
  <2>2. ParseAccept(p, fb) = IF p.custom_score = "no" THEN NewResult("JE")
                          ELSE [NewResult("AC") EXCEPT !.score = fb.score]
    BY <2>1 DEF ParseAccept, Exists
  <2>3. CASE p.custom_score = "no"
    BY <1>1, <2>2, <2>3, NewResultIs DEF Verdict
  <2>4. CASE p.custom_score # "no"
    <3>1. ParseAccept(p, fb) = [NewResult("AC") EXCEPT !.score = fb.score]
      BY <2>2, <2>4, Zenon
    <3>2. ParseAccept(p, fb) =
            [verdict |-> "AC", runtime |-> -1, first |-> FALSE, score |-> fb.score]
      BY <1>3, <3>1, ScoredAccept, Zenon
    <3>. QED  BY <1>3, <2>4, <3>2 DEF Result, Verdict
  <2>. QED  BY <2>3, <2>4
<1>4. CASE fb.score = Unreadable
  <2>1. ParseAccept(p, fb) = NewResult("JE")
    BY <1>4, FilesAssumption DEF ParseAccept, Exists
  <2>. QED  BY <1>1, <2>1, NewResultIs DEF Verdict
<1>5. CASE fb.score = NoFile
  <2>1. CASE p.custom_score = "no" \/ ~ (p.multi_pass /\ Exists(fb.nextpass))
    <3>1. ParseAccept(p, fb) = IF p.custom_score = "mandatory" THEN NewResult("JE")
                            ELSE NewResult("AC")
      BY <1>5, <2>1, FilesAssumption DEF ParseAccept, Exists
    <3>. QED  BY <1>1, <1>5, <3>1, NewResultIs DEF Verdict
  <2>2. CASE p.custom_score # "no" /\ p.multi_pass /\ Exists(fb.nextpass)
    <3>1. ParseAccept(p, fb) = [NewResult("AC") EXCEPT !.score = 0]
      BY <1>5, <2>2, FilesAssumption DEF ParseAccept
    <3>2. ParseAccept(p, fb) =
            [verdict |-> "AC", runtime |-> -1, first |-> FALSE, score |-> 0]
      BY 0 \in Int, <3>1, ScoredAccept, Zenon
    <3>. QED  BY <1>5, <2>2, <3>2 DEF Result, Verdict
  <2>. QED  BY <2>1, <2>2
<1>. QED  BY <1>2, <1>3, <1>4, <1>5

LEMMA ParseTyped ==
  ASSUME NEW p \in Problem, NEW v \in {"accept", "reject", "fail"}, NEW fb \in Feedback
  PROVE  /\ ParseValidatorResult(p, v, fb) \in Result
         /\ ParseValidatorResult(p, v, fb).runtime = -1
         /\ ParseValidatorResult(p, v, fb).first = FALSE
         /\ v = "accept" => ParseValidatorResult(p, v, fb) = ParseAccept(p, fb)
         /\ v = "fail" => ParseValidatorResult(p, v, fb) = NewResult("JE")
         /\ v = "reject" => ParseValidatorResult(p, v, fb) =
                              NewResult(IF Exists(fb.score) THEN "JE" ELSE "WA")
<1>1. /\ v = "accept" => ParseValidatorResult(p, v, fb) = ParseAccept(p, fb)
      /\ v = "fail" => ParseValidatorResult(p, v, fb) = NewResult("JE")
      /\ v = "reject" => ParseValidatorResult(p, v, fb) =
                           NewResult(IF Exists(fb.score) THEN "JE" ELSE "WA")
  BY DEF ParseValidatorResult
<1>. QED  BY <1>1, AcceptTyped, NewResultIs DEF Verdict

(* The two ways to run a pass, without the records.                        *)
LEMMA OnlyAcceptAccepts ==
  ASSUME NEW p \in Problem, NEW v \in {"accept", "reject", "fail"}, NEW fb \in Feedback,
         ParseValidatorResult(p, v, fb).verdict = "AC"
  PROVE  v = "accept"
<1>1. \A u \in {"JE", "WA"} : NewResult(u).verdict = u
  BY NewResultIs DEF Verdict
<1>2. CASE v = "fail"
  BY <1>1, <1>2 DEF ParseValidatorResult
<1>3. CASE v = "reject"
  BY <1>1, <1>3 DEF ParseValidatorResult
<1>. QED  BY <1>2, <1>3

LEMMA OutcomeIs ==
  ASSUME NEW r \in Result, NEW t \in Int, NEW fb
  PROVE  /\ Outcome(r, t, fb).feedback = fb
         /\ Outcome(r, t, fb).result \in Result
         /\ Outcome(r, t, fb).result.verdict = r.verdict
         /\ Outcome(r, t, fb).result.score = r.score
         /\ Outcome(r, t, fb).result.first = r.first
         /\ Outcome(r, t, fb).result.runtime = t
BY ResultExcept DEF Outcome, Result

(* The ends of the two programs, and the alarm.                            *)
LEMMA EndsTyped ==
  ASSUME NEW b \in PassBehaviour, NEW limit \in Nat \ {0}
  PROVE  /\ b.time \in Nat /\ b.idle \in Nat /\ b.ends \in Nat
         /\ b.exits_ok \in BOOLEAN /\ b.output_ok \in BOOLEAN
         /\ b.validator \in {"accept", "reject", "fail"}
         /\ SubEnds(b) \in Nat /\ First(b) \in BOOLEAN
         /\ Overruns(b, limit) <=> WallLimit(limit) <= SubEnds(b) \/ WallLimit(limit) <= b.ends
         /\ Race(b, limit) => Overruns(b, limit)
         /\ ~ Race(b, limit) => /\ SubEnds(b) < WallLimit(limit) \/ WallLimit(limit) < SubEnds(b)
                                /\ b.ends < WallLimit(limit) \/ WallLimit(limit) < b.ends
<1>1. /\ b.time \in Nat /\ b.idle \in Nat /\ b.ends \in Nat
      /\ b.exits_ok \in BOOLEAN /\ b.output_ok \in BOOLEAN
      /\ b.validator \in {"accept", "reject", "fail"}
  BY DEF PassBehaviour
<1>2. SubEnds(b) \in Nat
  BY <1>1 DEF SubEnds
<1>3. WallLimit(limit) \in Nat
  BY KillsComeLater
<1>. QED  BY <1>1, <1>2, <1>3 DEF First, Overruns, Race, Largest

LEMMA TwiceIsRace ==
  ASSUME NEW p, NEW b \in PassBehaviour, NEW limit \in Nat \ {0}, ReportsTwice(p, b, limit)
  PROVE  Raced(p, b, limit) /\ p.builds
<1>1. SubEnds(b) \in Nat /\ b.ends \in Nat
  BY EndsTyped
<1>. QED  BY <1>1 DEF ReportsTwice, Raced, Race, Largest

(* What the interactive runner's report decides.                           *)
Decided(rep) == rep.validator = "fail" \/ (rep.validator = "reject" /\ rep.first)

Raw(p, rep, fb, limit) ==
  IF Decided(rep) THEN ParseValidatorResult(p, rep.validator, fb)
  ELSE IF IsTLE(rep, limit) THEN NewResult("TLE")
  ELSE IF rep.status = "failed" THEN NewResult("RTE")
  ELSE ParseValidatorResult(p, rep.validator, fb)

Told(raw, time, rep, fb) == Outcome([raw EXCEPT !.first = rep.first], time, fb)

ToldTime(rep, limit) == IF Decided(rep) THEN Least(rep.time, limit) ELSE rep.time

LEMMA RunInteractiveIs ==
  ASSUME NEW p \in Problem, NEW rep, NEW fb, NEW limit
  PROVE  RunInteractive(p, rep, fb, limit) =
           Told(Raw(p, rep, fb, limit), ToldTime(rep, limit), rep, fb)
BY Zenon DEF RunInteractive, Raw, Decided, Told, ToldTime

(* The lines the runner may report.  A program that ends well before the   *)
(* alarm or well after it leaves no choice.                                *)
LEMMA ReportTyped ==
  ASSUME NEW b \in PassBehaviour, NEW limit \in Nat \ {0},
         NEW val \in Seen(b.ends, limit), NEW rep \in Reports(b, limit, val)
  PROVE  /\ val # "ended" => WallLimit(limit) <= b.ends
         /\ rep.validator = IF val = "ended" THEN b.validator ELSE "reject"
         /\ rep.validator \in {"accept", "reject", "fail"}
         /\ rep.first \in BOOLEAN /\ rep.time \in Nat
         /\ \/ rep.status = "SIGUSR1" /\ rep.time = WallLimit(limit)
            \/ rep.status = Ended(b) /\ rep.time <= b.time
         /\ ~ Race(b, limit) =>
              /\ val = "ended" <=> b.ends < WallLimit(limit)
              /\ rep.first <=> First(b) /\ val = "ended"
              /\ SubEnds(b) < WallLimit(limit) => rep.status = Ended(b) /\ rep.time = b.time
              /\ WallLimit(limit) < SubEnds(b) => rep.status = "SIGUSR1"
<1>1. /\ b.time \in Nat /\ SubEnds(b) \in Nat /\ b.ends \in Nat /\ First(b) \in BOOLEAN
      /\ b.validator \in {"accept", "reject", "fail"} /\ b.exits_ok \in BOOLEAN
      /\ WallLimit(limit) \in Nat
  BY EndsTyped, KillsComeLater
<1>2. /\ val # "ended" => WallLimit(limit) <= b.ends
      /\ ~ Race(b, limit) => (val = "ended" <=> b.ends < WallLimit(limit))
  BY <1>1 DEF Seen, Race
<1>3. PICK sub \in Seen(SubEnds(b), limit), first \in SeenFirst(b, limit, val),
           time \in SeenTime(b, limit) :
        rep = Report(b, limit, val, sub, first, time)
  BY DEF Reports
<1>4. time \in Nat /\ time <= b.time /\ (~ Race(b, limit) => time = b.time)
  BY <1>1, <1>3 DEF Race, SeenTime
<1>5. first \in BOOLEAN /\ (~ Race(b, limit) => (first <=> First(b) /\ val = "ended"))
  <2>1. CASE b.ends = WallLimit(limit)
    <3>1. Race(b, limit) /\ first \in {First(b), FALSE}
      BY <1>3, <2>1 DEF Race, SeenFirst
    <3>. QED  BY <1>1, <3>1, Zenon
  <2>2. CASE b.ends # WallLimit(limit)
    <3>1. first = (First(b) /\ val = "ended")
      BY <1>3, <2>2, Zenon DEF SeenFirst
    <3>. QED  BY <1>1, <3>1, Zenon
  <2>. QED  BY <2>1, <2>2
<1>6. ~ Race(b, limit) => (sub = "ended" <=> SubEnds(b) < WallLimit(limit))
  BY <1>1, <1>3 DEF Seen, Race
<1>7. /\ rep.validator = IF val = "ended" THEN b.validator ELSE "reject"
      /\ rep.first = first
      /\ rep.status = IF sub = "ended" THEN Ended(b) ELSE "SIGUSR1"
      /\ rep.time = IF sub = "ended" THEN time ELSE WallLimit(limit)
  BY <1>3, Zenon DEF Report
<1>8. WallLimit(limit) < SubEnds(b) => ~ (SubEnds(b) < WallLimit(limit))
  BY <1>1
<1>9. /\ rep.validator \in {"accept", "reject", "fail"} /\ rep.time \in Nat
      /\ \/ rep.status = "SIGUSR1" /\ rep.time = WallLimit(limit)
         \/ rep.status = Ended(b) /\ rep.time <= b.time
  BY <1>1, <1>4, <1>7
<1>10. ASSUME ~ Race(b, limit)
       PROVE  /\ SubEnds(b) < WallLimit(limit) => rep.status = Ended(b) /\ rep.time = b.time
              /\ WallLimit(limit) < SubEnds(b) => rep.status = "SIGUSR1"
  BY <1>4, <1>6, <1>7, <1>8, <1>10, Zenon
<1>11. rep.first \in BOOLEAN /\ (~ Race(b, limit) => (rep.first <=> First(b) /\ val = "ended"))
  BY <1>5, <1>7, Zenon
<1>. QED  BY <1>2, <1>7, <1>9, <1>10, <1>11, Zenon

(* What the report says of the submission.                                 *)
LEMMA ReportTLE ==
  ASSUME NEW b \in PassBehaviour, NEW limit \in Nat \ {0},
         NEW val \in Seen(b.ends, limit), NEW rep \in Reports(b, limit, val)
  PROVE  /\ ~ IsTLE(rep, limit) =>
              /\ rep.status = Ended(b) /\ rep.time <= limit /\ rep.time <= b.time
              /\ rep.status = "failed" <=> ~ b.exits_ok
         /\ ~ Race(b, limit) /\ b.time > limit => IsTLE(rep, limit) /\ rep.time > limit
         /\ ~ Race(b, limit) /\ WallLimit(limit) < SubEnds(b) => IsTLE(rep, limit)
         /\ ~ Race(b, limit) /\ ~ IsTLE(rep, limit) =>
              SubEnds(b) < WallLimit(limit) /\ rep.time = b.time
<1>1. /\ b.time \in Nat /\ SubEnds(b) \in Nat /\ b.exits_ok \in BOOLEAN
      /\ ~ Race(b, limit) => SubEnds(b) < WallLimit(limit) \/ WallLimit(limit) < SubEnds(b)
  BY EndsTyped
<1>2. WallLimit(limit) \in Nat /\ WallLimit(limit) > limit
  BY KillsComeLater
<1>3. /\ rep.time \in Nat
      /\ \/ rep.status = "SIGUSR1" /\ rep.time = WallLimit(limit)
         \/ rep.status = Ended(b) /\ rep.time <= b.time
      /\ ~ Race(b, limit) /\ SubEnds(b) < WallLimit(limit) =>
           rep.status = Ended(b) /\ rep.time = b.time
      /\ ~ Race(b, limit) /\ WallLimit(limit) < SubEnds(b) => rep.status = "SIGUSR1"
  BY ReportTyped
<1>4. Ended(b) = "failed" <=> ~ b.exits_ok
  BY <1>1 DEF Ended
<1>5. rep.status = "SIGUSR1" => IsTLE(rep, limit)
  BY DEF IsTLE
<1>6. rep.status = Ended(b) => (IsTLE(rep, limit) <=> rep.time > limit)
  BY DEF IsTLE, Ended
<1>7. ASSUME ~ IsTLE(rep, limit)
      PROVE  /\ rep.status = Ended(b) /\ rep.time <= limit /\ rep.time <= b.time
             /\ rep.status = "failed" <=> ~ b.exits_ok
  <2>1. rep.status = Ended(b) /\ rep.time <= b.time /\ ~ (rep.time > limit)
    BY <1>3, <1>5, <1>6, <1>7
  <2>. QED  BY <1>3, <1>4, <2>1
<1>8. ASSUME ~ Race(b, limit)
      PROVE  /\ b.time > limit => IsTLE(rep, limit) /\ rep.time > limit
             /\ WallLimit(limit) < SubEnds(b) => IsTLE(rep, limit)
             /\ ~ IsTLE(rep, limit) => SubEnds(b) < WallLimit(limit) /\ rep.time = b.time
  <2>1. CASE SubEnds(b) < WallLimit(limit)
    <3>1. rep.status = Ended(b) /\ rep.time = b.time /\ ~ (WallLimit(limit) < SubEnds(b))
      BY <1>1, <1>2, <1>3, <1>8, <2>1
    <3>. QED  BY <1>6, <2>1, <3>1
  <2>2. CASE WallLimit(limit) < SubEnds(b)
    <3>1. rep.status = "SIGUSR1"
      BY <1>3, <1>8, <2>2
    <3>2. Ended(b) # "SIGUSR1"
      BY DEF Ended
    <3>3. rep.time > limit
      BY <1>2, <1>3, <3>1, <3>2
    <3>. QED  BY <1>5, <3>1, <3>3
  <2>. QED  BY <1>1, <1>8, <2>1, <2>2
<1>. QED  BY <1>7, <1>8

LEMMA RawTyped ==
  ASSUME NEW p \in Problem, NEW fb \in Feedback,
         NEW limit \in Nat \ {0}, NEW rep, rep.validator \in {"accept", "reject", "fail"}
  PROVE  Raw(p, rep, fb, limit) \in Result
BY ParseTyped, NewResultIs DEF Raw, Verdict

(* Judge errors without a run to stand behind them.                        *)
NotRunFacts(out) ==
  /\ out.result \in Result /\ out.result.verdict = "JE" /\ out.result.runtime = -1
  /\ out.result.first = FALSE /\ out.result.score = NoScore

LEMMA NotRunIs ==
  ASSUME NEW fb, NEW out, out = NotRun(fb)
  PROVE  NotRunFacts(out) /\ out.feedback = fb
<1>1. /\ NewResult("JE") \in Result /\ NewResult("JE").verdict = "JE"
      /\ NewResult("JE").first = FALSE /\ NewResult("JE").score = NoScore
  BY NewResultIs DEF Verdict
<1>2. -1 \in Int
  OBVIOUS
<1> DEFINE je == NewResult("JE")
<1> HIDE DEF je
<1>3. out = Outcome(je, -1, fb) /\ je \in Result
  BY <1>1 DEF je, NotRun
<1>4. /\ out.result \in Result /\ out.result.verdict = je.verdict /\ out.result.runtime = -1
      /\ out.result.first = je.first /\ out.result.score = je.score /\ out.feedback = fb
  BY <1>2, <1>3, OutcomeIs
<1>. QED  BY <1>1, <1>4 DEF je, NotRunFacts

RunFacts(p, rep, after, limit, out) ==
  LET raw == Raw(p, rep, after, limit)
  IN  /\ out.feedback = after
      /\ out.result \in Result
      /\ raw \in Result
      /\ out.result.verdict = raw.verdict
      /\ out.result.score = raw.score
      /\ out.result.first = rep.first
      /\ out.result.runtime = ToldTime(rep, limit)
      /\ ToldTime(rep, limit) \in Nat

LEMMA RunIs ==
  ASSUME NEW p \in Problem, NEW limit \in Nat \ {0}, NEW after \in Feedback,
         NEW rep, rep.validator \in {"accept", "reject", "fail"},
         rep.first \in BOOLEAN, rep.time \in Nat,
         NEW out, out = RunInteractive(p, rep, after, limit)
  PROVE  RunFacts(p, rep, after, limit, out)
<1> DEFINE raw == Raw(p, rep, after, limit)
           t == ToldTime(rep, limit)
           r == [raw EXCEPT !.first = rep.first]
<1>3. out = Outcome(r, t, after)
  BY RunInteractiveIs, Zenon DEF Told
<1>4. raw \in Result /\ t \in Nat
  BY RawTyped DEF Least, ToldTime
<1> HIDE DEF raw, t
<1>6. r \in Result /\ r.verdict = raw.verdict /\ r.score = raw.score /\ r.first = rep.first
  <2>1. r \in Result
    <3>1. rep.first \in BOOLEAN /\ 0 \in Int
      OBVIOUS
    <3>. QED  BY <1>4, <3>1, ResultExcept, Zenon
  <2>2. r = [verdict |-> raw.verdict, runtime |-> raw.runtime, first |-> rep.first,
             score |-> raw.score]
    <3>1. rep.first \in BOOLEAN /\ 0 \in Int
      OBVIOUS
    <3>. QED  BY <1>4, <3>1, ResultExcept, Zenon
  <2> HIDE DEF r
  <2>. QED  BY <2>1, <2>2
<1> HIDE DEF r
<1>7. /\ out.feedback = after /\ out.result \in Result
      /\ out.result.verdict = raw.verdict /\ out.result.score = raw.score
      /\ out.result.first = rep.first /\ out.result.runtime = t
  BY <1>3, <1>4, <1>6, OutcomeIs
<1>. QED  BY <1>4, <1>7 DEF raw, t, RunFacts

(* A pass in an interactive problem: what the runner reports, or its end   *)
(* without a report.                                                       *)
InteractiveFacts(p, b, fb, pass, limit, out) ==
  \/ /\ ReportsTwice(p, b, limit)
     /\ NotRunFacts(out) /\ out.feedback = Written(b, fb, pass)
  \/ \E val \in Seen(b.ends, limit) : \E rep \in Reports(b, limit, val) :
       /\ out.feedback = Written(b, fb, pass) \/ (val # "ended" /\ out.feedback = fb)
       /\ RunFacts(p, rep, out.feedback, limit, out)

LEMMA InteractiveIs ==
  ASSUME NEW p \in Problem, NEW b \in PassBehaviour, NEW fb \in Feedback, NEW pass \in Nat,
         NEW limit \in Nat \ {0},
         p.interactive, p.builds,
         NEW out \in Outcomes(p, b, fb, pass, limit)
  PROVE  InteractiveFacts(p, b, fb, pass, limit, out)
<1>1. CASE ReportsTwice(p, b, limit) /\ out = NotRun(Written(b, fb, pass))
  <2>1. NotRunFacts(out) /\ out.feedback = Written(b, fb, pass)
    BY <1>1, NotRunIs
  <2>. QED  BY <1>1, <2>1 DEF InteractiveFacts
<1>2. ASSUME NEW val \in Seen(b.ends, limit), out \in Interactively(p, b, fb, pass, limit, val)
      PROVE  InteractiveFacts(p, b, fb, pass, limit, out)
  <2>1. PICK rep \in Reports(b, limit, val),
             f \in {Written(b, fb, pass)} \union (IF val = "ended" THEN {} ELSE {fb}) :
               out = RunInteractive(p, rep, f, limit)
    BY <1>2 DEF Interactively
  <2>2. rep.validator \in {"accept", "reject", "fail"}
        /\ rep.first \in BOOLEAN /\ rep.time \in Nat
    BY <2>1, ReportTyped, Zenon
  <2>3. f = Written(b, fb, pass) \/ (val # "ended" /\ f = fb)
    BY <2>1
  <2>4. f \in Feedback
    BY <2>3, WrittenTyped
  <2>5. RunFacts(p, rep, f, limit, out)
    BY <2>1, <2>2, <2>4, RunIs
  <2>6. out.feedback = f
    BY <2>5 DEF RunFacts
  <2>. QED  BY <2>1, <2>3, <2>5, <2>6, Zenon DEF InteractiveFacts
<1>3. \/ ReportsTwice(p, b, limit) /\ out = NotRun(Written(b, fb, pass))
      \/ \E val \in Seen(b.ends, limit) : out \in Interactively(p, b, fb, pass, limit, val)
  <2> DEFINE U == UNION {Interactively(p, b, fb, pass, limit, val) : val \in Seen(b.ends, limit)}
             T == IF ReportsTwice(p, b, limit) THEN {NotRun(Written(b, fb, pass))} ELSE {}
  <2>1. Outcomes(p, b, fb, pass, limit) = U \union T
    BY Zenon DEF Outcomes
  <2>2. out \in U => \E val \in Seen(b.ends, limit) :
                       out \in Interactively(p, b, fb, pass, limit, val)
    BY Zenon
  <2>3. out \in T => ReportsTwice(p, b, limit) /\ out = NotRun(Written(b, fb, pass))
    BY Zenon
  <2> HIDE DEF U, T
  <2>4. out \in U \/ out \in T
    BY <2>1
  <2>. QED  BY <2>2, <2>3, <2>4, Zenon
<1>. QED  BY <1>1, <1>2, <1>3

(* Without a wall-time limit in the way the runner reports what happened.  *)
OwnReport(b) == [validator |-> b.validator, first |-> First(b), status |-> Ended(b),
                 time |-> b.time]

LEMMA NotCutIs ==
  ASSUME NEW p \in Problem, NEW b \in PassBehaviour, NEW fb \in Feedback, NEW pass \in Nat,
         NEW limit \in Nat \ {0}, p.interactive, p.builds, ~ Overruns(b, limit)
  PROVE  Outcomes(p, b, fb, pass, limit) =
           {RunInteractive(p, OwnReport(b), Written(b, fb, pass), limit)}
<1>1. /\ SubEnds(b) \in Nat /\ b.ends \in Nat /\ First(b) \in BOOLEAN
      /\ ~ (WallLimit(limit) <= SubEnds(b)) /\ ~ (WallLimit(limit) <= b.ends)
      /\ WallLimit(limit) \in Nat
  BY EndsTyped, KillsComeLater
<1>2. Seen(SubEnds(b), limit) = {"ended"} /\ Seen(b.ends, limit) = {"ended"}
  BY <1>1 DEF Seen
<1>3. SubEnds(b) # WallLimit(limit) /\ b.ends # WallLimit(limit)
      /\ Largest(SubEnds(b), b.ends) # WallLimit(limit)
  BY <1>1 DEF Largest
<1>4. Reports(b, limit, "ended") = {OwnReport(b)}
  <2>1. (First(b) /\ "ended" = "ended") = First(b)
    BY <1>1, Zenon
  <2>2. SeenFirst(b, limit, "ended") = {First(b)} /\ SeenTime(b, limit) = {b.time}
    BY <1>3, <2>1, Zenon DEF SeenFirst, SeenTime
  <2>3. Report(b, limit, "ended", "ended", First(b), b.time) = OwnReport(b)
    BY Zenon DEF Report, OwnReport
  <2>. QED  BY <1>2, <2>2, <2>3 DEF Reports
<1>5. ~ ReportsTwice(p, b, limit)
  BY <1>3 DEF ReportsTwice
<1>6. Interactively(p, b, fb, pass, limit, "ended") =
        {RunInteractive(p, OwnReport(b), Written(b, fb, pass), limit)}
  BY <1>4 DEF Interactively
<1>. QED  BY <1>2, <1>5, <1>6 DEF Outcomes

LEMMA OwnIs ==
  ASSUME NEW b \in PassBehaviour, NEW limit \in Nat \ {0}
  PROVE  /\ OwnReport(b).validator = b.validator
         /\ OwnReport(b).first = First(b)
         /\ OwnReport(b).time = b.time
         /\ IsTLE(OwnReport(b), limit) <=> b.time > limit
         /\ OwnReport(b).status = "failed" <=> ~ b.exits_ok
<1>1. b.exits_ok \in BOOLEAN
  BY EndsTyped
<1>. QED  BY <1>1 DEF OwnReport, IsTLE, Ended

LEMMA NotCutFacts ==
  ASSUME NEW p \in Problem, NEW b \in PassBehaviour, NEW fb \in Feedback, NEW pass \in Nat,
         NEW limit \in Nat \ {0}, p.interactive, p.builds, ~ Overruns(b, limit),
         NEW out \in Outcomes(p, b, fb, pass, limit)
  PROVE  RunFacts(p, OwnReport(b), Written(b, fb, pass), limit, out)
<1>1. out = RunInteractive(p, OwnReport(b), Written(b, fb, pass), limit)
  BY NotCutIs
<1>2. /\ OwnReport(b).validator \in {"accept", "reject", "fail"}
      /\ OwnReport(b).first \in BOOLEAN /\ OwnReport(b).time \in Nat
  BY OwnIs, EndsTyped
<1>. QED  BY <1>1, <1>2, RunIs, WrittenTyped

LEMMA NotBuiltIs ==
  ASSUME NEW p \in Problem, NEW b \in PassBehaviour, NEW fb \in Feedback, NEW pass \in Nat,
         NEW limit \in Nat \ {0},
         p.interactive, ~ p.builds,
         NEW out \in Outcomes(p, b, fb, pass, limit)
  PROVE  NotRunFacts(out) /\ out.feedback = fb
<1>1. out = NotRun(fb)
  BY DEF Outcomes
<1>. QED  BY <1>1, NotRunIs

LEMMA ValidateTyped ==
  ASSUME NEW p \in Problem, NEW b \in PassBehaviour, NEW fb \in Feedback, NEW pass \in Nat
  PROVE  /\ ValidateOutput(p, b, fb, pass).result \in Result
         /\ ValidateOutput(p, b, fb, pass).result.first = FALSE
         /\ ValidateOutput(p, b, fb, pass).feedback \in {fb, Written(b, fb, pass)}
<1>1. b.validator \in {"accept", "reject", "fail"}
  BY DEF PassBehaviour
<1>2. Written(b, fb, pass) \in Feedback
  BY WrittenTyped
<1>. QED  BY <1>1, <1>2, ParseTyped, NewResultIs DEF ValidateOutput, Verdict

(* The submission that ends within its limit, and the one that does not.   *)
LEMMA NormalIs ==
  ASSUME NEW p \in Problem, NEW b \in PassBehaviour, NEW fb \in Feedback, NEW pass \in Nat,
         NEW limit \in Nat \ {0}
  PROVE  LET val == ValidateOutput(p, b, fb, pass)
             ran == Ran(b, CpuLimit(limit))
         IN  /\ ran.time \in Nat
             /\ b.time > limit =>
                  /\ ran.time > limit
                  /\ RunNormal(p, b, fb, pass, limit) = Outcome(NewResult("TLE"), ran.time, fb)
             /\ b.time <= limit =>
                  RunNormal(p, b, fb, pass, limit) =
                    IF b.exits_ok THEN Outcome(val.result, b.time, val.feedback)
                                  ELSE Outcome(NewResult("RTE"), b.time, fb)
<1>1. b.time \in Nat /\ b.exits_ok \in BOOLEAN
  BY DEF PassBehaviour
<1>2. CpuLimit(limit) \in Nat /\ CpuLimit(limit) > limit
  BY KillsComeLater
<1> DEFINE ran == Ran(b, CpuLimit(limit))
<1>3. /\ ran.time \in Nat
      /\ b.time > limit => IsTLE(ran, limit) /\ ran.time > limit
      /\ b.time <= limit => ~ IsTLE(ran, limit) /\ ran.time = b.time
                            /\ (ran.status = "failed" <=> ~ b.exits_ok)
  BY <1>1, <1>2 DEF Ran, IsTLE, Ended
<1> HIDE DEF ran
<1>4. RunNormal(p, b, fb, pass, limit) =
        IF IsTLE(ran, limit) THEN Outcome(NewResult("TLE"), ran.time, fb)
        ELSE IF ran.status = "failed" THEN Outcome(NewResult("RTE"), ran.time, fb)
        ELSE Outcome(ValidateOutput(p, b, fb, pass).result, ran.time,
                     ValidateOutput(p, b, fb, pass).feedback)
  BY Zenon DEF RunNormal, ran
<1>. QED  BY <1>3, <1>4 DEF ran

NormalFacts(p, b, fb, pass, limit, out) ==
  LET val == ValidateOutput(p, b, fb, pass)
  IN  /\ out.result \in Result
      /\ out.result.runtime \in Nat
      /\ out.feedback \in {fb, Written(b, fb, pass)}
      /\ out.result.first = FALSE
      /\ b.time > limit => /\ out.result.verdict = "TLE" /\ out.result.score = NoScore
                           /\ out.result.runtime > limit /\ out.feedback = fb
      /\ b.time <= limit =>
           /\ out.result.runtime = b.time
           /\ ~ b.exits_ok => /\ out.result.verdict = "RTE" /\ out.feedback = fb
                              /\ out.result.score = NoScore
           /\ b.exits_ok => /\ out.result.verdict = val.result.verdict
                            /\ out.result.score = val.result.score
                            /\ out.feedback = val.feedback

LEMMA NormalOutcome ==
  ASSUME NEW p \in Problem, NEW b \in PassBehaviour, NEW fb \in Feedback, NEW pass \in Nat,
         NEW limit \in Nat \ {0}, ~ p.interactive,
         NEW out \in Outcomes(p, b, fb, pass, limit)
  PROVE  NormalFacts(p, b, fb, pass, limit, out)
<1> DEFINE val == ValidateOutput(p, b, fb, pass)
           ran == Ran(b, CpuLimit(limit))
<1>1. out = RunNormal(p, b, fb, pass, limit)
  BY DEF Outcomes
<1>2. b.time \in Nat /\ b.exits_ok \in BOOLEAN
  BY DEF PassBehaviour
<1>3. /\ val.result \in Result /\ val.result.first = FALSE
      /\ val.feedback \in {fb, Written(b, fb, pass)}
  BY ValidateTyped
<1>4. /\ NewResult("TLE") \in Result /\ NewResult("RTE") \in Result
      /\ NewResult("TLE").verdict = "TLE" /\ NewResult("TLE").score = NoScore
      /\ NewResult("RTE").verdict = "RTE" /\ NewResult("RTE").score = NoScore
      /\ NewResult("TLE").first = FALSE /\ NewResult("RTE").first = FALSE
  BY NewResultIs DEF Verdict
<1> HIDE DEF val, ran
<1>5. CASE b.time > limit
  <2>1. out = Outcome(NewResult("TLE"), ran.time, fb) /\ ran.time \in Nat /\ ran.time > limit
    BY <1>1, <1>5, NormalIs DEF ran
  <2>. QED  BY <1>2, <1>4, <1>5, <2>1, OutcomeIs DEF NormalFacts
<1>6. CASE b.time <= limit /\ ~ b.exits_ok
  <2>1. out = Outcome(NewResult("RTE"), b.time, fb)
    BY <1>1, <1>6, NormalIs
  <2>. QED  BY <1>2, <1>4, <1>6, <2>1, OutcomeIs DEF NormalFacts
<1>7. CASE b.time <= limit /\ b.exits_ok
  <2>1. out = Outcome(val.result, b.time, val.feedback)
    BY <1>1, <1>7, NormalIs DEF val
  <2>. QED  BY <1>2, <1>3, <1>7, <2>1, OutcomeIs DEF val, NormalFacts
<1>8. b.time > limit \/ b.time <= limit
  BY <1>2
<1>. QED  BY <1>5, <1>6, <1>7, <1>8

-----------------------------------------------------------------------------
(* A pass that is accepted was cut short by nothing, unless a program      *)
(* ended just as the alarm rang, and its score is the one in the feedback  *)
(* directory.                                                              *)
LEMMA AcceptedPass ==
  ASSUME NEW p \in Problem, NEW b \in PassBehaviour, NEW fb \in Feedback, NEW pass \in Nat,
         NEW limit \in Nat \ {0},
         NEW out \in Outcomes(p, b, fb, pass, limit), out.result.verdict = "AC"
  PROVE  /\ Clean(p, b, limit) \/ Raced(p, b, limit)
         /\ out.feedback = Written(b, fb, pass)
         /\ ParseAccept(p, out.feedback).verdict = "AC"
         /\ out.result.score = ParseAccept(p, out.feedback).score
         /\ out.result.runtime \in Nat /\ out.result.runtime <= b.time
         /\ ~ Raced(p, b, limit) => out.result.runtime = b.time
<1>1. /\ b.time \in Nat /\ b.validator \in {"accept", "reject", "fail"}
      /\ b.exits_ok \in BOOLEAN /\ b.output_ok \in BOOLEAN
      /\ p.interactive \in BOOLEAN /\ p.builds \in BOOLEAN
  BY DEF PassBehaviour, Problem
<1>2. Written(b, fb, pass) \in Feedback
  BY WrittenTyped
<1>3. CASE ~ p.interactive
  <2>0. NormalFacts(p, b, fb, pass, limit, out)
    BY <1>3, NormalOutcome
  <2>1. b.time <= limit /\ b.exits_ok
    BY <1>1, <2>0 DEF NormalFacts
  <2>2. /\ ValidateOutput(p, b, fb, pass).result.verdict = "AC"
        /\ out.result.score = ValidateOutput(p, b, fb, pass).result.score
        /\ out.feedback = ValidateOutput(p, b, fb, pass).feedback
        /\ out.result.runtime = b.time
    BY <2>0, <2>1 DEF NormalFacts
  <2>3. b.output_ok /\ p.builds
    BY <2>2, NewResultIs DEF ValidateOutput, Verdict
  <2>4. /\ out.feedback = Written(b, fb, pass)
        /\ ValidateOutput(p, b, fb, pass).result =
             ParseValidatorResult(p, b.validator, out.feedback)
    BY <2>2, <2>3 DEF ValidateOutput
  <2>5. b.validator = "accept"
    <3>1. ParseValidatorResult(p, b.validator, out.feedback).verdict = "AC"
      BY <2>2, <2>4
    <3>. QED  BY <1>1, <1>2, <2>4, <3>1, OnlyAcceptAccepts
  <2>6. Clean(p, b, limit)
    BY <1>3, <2>1, <2>3, <2>5 DEF Clean
  <2>7. ParseValidatorResult(p, b.validator, out.feedback) = ParseAccept(p, out.feedback)
    BY <1>2, <2>4, <2>5, ParseTyped
  <2>8. b.time <= b.time
    BY <1>1
  <2>. QED  BY <1>1, <2>2, <2>4, <2>6, <2>7, <2>8, Zenon
<1>4. CASE p.interactive
  <2>1. p.builds
    BY <1>4, NotBuiltIs DEF NotRunFacts
  <2>2. InteractiveFacts(p, b, fb, pass, limit, out)
    BY <1>4, <2>1, InteractiveIs
  <2>3. ~ NotRunFacts(out)
    BY DEF NotRunFacts
  <2>4. PICK val \in Seen(b.ends, limit) : \E rep \in Reports(b, limit, val) :
          /\ out.feedback = Written(b, fb, pass) \/ (val # "ended" /\ out.feedback = fb)
          /\ RunFacts(p, rep, out.feedback, limit, out)
    BY <2>2, <2>3, Zenon DEF InteractiveFacts
  <2>5. PICK rep \in Reports(b, limit, val) :
          /\ out.feedback = Written(b, fb, pass) \/ (val # "ended" /\ out.feedback = fb)
          /\ RunFacts(p, rep, out.feedback, limit, out)
    BY <2>4
  <2>6. /\ out.feedback \in Feedback
        /\ out.result.verdict = Raw(p, rep, out.feedback, limit).verdict
        /\ out.result.score = Raw(p, rep, out.feedback, limit).score
        /\ out.result.runtime = IF Decided(rep) THEN Least(rep.time, limit) ELSE rep.time
    BY <1>2, <2>5 DEF RunFacts, ToldTime
  <2>7. /\ rep.validator \in {"accept", "reject", "fail"}
        /\ rep.validator = IF val = "ended" THEN b.validator ELSE "reject"
        /\ rep.time \in Nat
    BY ReportTyped
  <2>8. ~ Decided(rep)
    <3> SUFFICES ASSUME Decided(rep)
                 PROVE  FALSE
      OBVIOUS
    <3>1. ParseValidatorResult(p, rep.validator, out.feedback).verdict = "AC"
      BY <2>6 DEF Raw
    <3>. QED  BY <2>6, <2>7, <3>1, OnlyAcceptAccepts DEF Decided
  <2>9. ~ IsTLE(rep, limit) /\ rep.status # "failed"
    BY <2>6, <2>8, NewResultIs DEF Raw, Verdict
  <2>10. /\ Raw(p, rep, out.feedback, limit) =
             ParseValidatorResult(p, rep.validator, out.feedback)
         /\ rep.validator = "accept"
    <3>1. Raw(p, rep, out.feedback, limit) =
            ParseValidatorResult(p, rep.validator, out.feedback)
      BY <2>8, <2>9 DEF Raw
    <3>2. ParseValidatorResult(p, rep.validator, out.feedback).verdict = "AC"
      BY <2>6, <3>1
    <3>. QED  BY <2>6, <2>7, <3>1, <3>2, OnlyAcceptAccepts
  <2>11. val = "ended" /\ b.validator = "accept" /\ out.feedback = Written(b, fb, pass)
    BY <2>5, <2>7, <2>10
  <2>12. b.exits_ok /\ rep.time <= limit /\ rep.time <= b.time
    BY <1>1, <2>9, ReportTLE
  <2>13. ASSUME ~ Raced(p, b, limit)
         PROVE  Clean(p, b, limit) /\ rep.time = b.time
    <3>1. ~ Race(b, limit)
      BY <1>4, <2>13 DEF Raced
    <3>2. b.ends < WallLimit(limit)
      BY <2>11, <3>1, ReportTyped
    <3>3. SubEnds(b) < WallLimit(limit) /\ rep.time = b.time
      BY <2>9, <3>1, ReportTLE
    <3>4. ~ Overruns(b, limit)
      <4>1. SubEnds(b) \in Nat /\ b.ends \in Nat /\ WallLimit(limit) \in Nat
        BY EndsTyped, KillsComeLater
      <4>. QED  BY <3>2, <3>3, <4>1, EndsTyped
    <3>. QED  BY <1>4, <2>1, <2>11, <2>12, <3>3, <3>4 DEF Clean
  <2>14. ParseValidatorResult(p, rep.validator, out.feedback) = ParseAccept(p, out.feedback)
    BY <2>6, <2>10, ParseTyped
  <2>. QED  BY <2>6, <2>7, <2>8, <2>10, <2>11, <2>12, <2>13, <2>14, Zenon
<1>. QED  BY <1>1, <1>3, <1>4

(* The other way round: such a pass is judged by its validator.            *)
LEMMA CleanPass ==
  ASSUME NEW p \in Problem, NEW b \in PassBehaviour, NEW fb \in Feedback, NEW pass \in Nat,
         NEW limit \in Nat \ {0}, Clean(p, b, limit),
         NEW out \in Outcomes(p, b, fb, pass, limit)
  PROVE  /\ out.feedback = Written(b, fb, pass)
         /\ out.result.verdict = ParseAccept(p, out.feedback).verdict
         /\ ~ Raced(p, b, limit)
<1>1. /\ b.time \in Nat /\ b.validator = "accept" /\ b.time <= limit /\ b.exits_ok
      /\ p.interactive \in BOOLEAN /\ p.builds
  BY DEF PassBehaviour, Problem, Clean
<1>2. Written(b, fb, pass) \in Feedback
  BY WrittenTyped
<1>3. CASE ~ p.interactive
  <2>1. b.output_ok
    BY <1>3 DEF Clean
  <2>2. /\ ValidateOutput(p, b, fb, pass).result = ParseAccept(p, Written(b, fb, pass))
        /\ ValidateOutput(p, b, fb, pass).feedback = Written(b, fb, pass)
    <3>1. ParseValidatorResult(p, "accept", Written(b, fb, pass)) =
            ParseAccept(p, Written(b, fb, pass))
      BY <1>2, ParseTyped
    <3>. QED  BY <1>1, <2>1, <3>1 DEF ValidateOutput
  <2>3. NormalFacts(p, b, fb, pass, limit, out)
    BY <1>3, NormalOutcome
  <2>. QED  BY <1>1, <1>3, <2>2, <2>3 DEF NormalFacts, Raced
<1>4. CASE p.interactive
  <2>1. ~ Overruns(b, limit) /\ ~ Race(b, limit)
    BY <1>4, EndsTyped DEF Clean
  <2>2. RunFacts(p, OwnReport(b), Written(b, fb, pass), limit, out)
    BY <1>1, <1>4, <2>1, NotCutFacts
  <2>3. /\ OwnReport(b).validator = "accept" /\ ~ IsTLE(OwnReport(b), limit)
        /\ OwnReport(b).status # "failed"
    BY <1>1, OwnIs
  <2>4. Raw(p, OwnReport(b), Written(b, fb, pass), limit) = ParseAccept(p, Written(b, fb, pass))
    BY <1>2, <2>3, ParseTyped DEF Raw, Decided
  <2>. QED  BY <2>1, <2>2, <2>4 DEF RunFacts, Raced
<1>. QED  BY <1>1, <1>3, <1>4

LEMMA OverrunsMonotone ==
  ASSUME NEW b \in PassBehaviour, NEW low \in Nat \ {0}, NEW high \in Nat \ {0},
         low <= high, Overruns(b, high)
  PROVE  Overruns(b, low)
<1>1. /\ WallLimit(low) <= WallLimit(high)
      /\ WallLimit(low) \in Nat /\ WallLimit(high) \in Nat
  BY WallMonotone, KillsComeLater
<1>2. SubEnds(b) \in Nat /\ b.ends \in Nat
  BY EndsTyped
<1>. QED  BY <1>1, <1>2, EndsTyped

(* A pass within the low limit goes the same way at every higher limit.    *)
LEMMA InTimePass ==
  ASSUME NEW p \in Problem, NEW b \in PassBehaviour, NEW fb \in Feedback, NEW pass \in Nat,
         NEW low \in Nat \ {0}, NEW high \in Nat \ {0}, low <= high,
         b.time <= low, p.interactive => ~ Overruns(b, low)
  PROVE  /\ Outcomes(p, b, fb, pass, low) = Outcomes(p, b, fb, pass, high)
         /\ \A out \in Outcomes(p, b, fb, pass, low) : out.result.runtime <= low
         /\ \A o1, o2 \in Outcomes(p, b, fb, pass, low) : o1 = o2
<1>1. /\ b.time \in Nat /\ b.idle \in Nat /\ b.time <= high
      /\ p.interactive \in BOOLEAN /\ p.builds \in BOOLEAN
  BY DEF PassBehaviour, Problem
<1>2. CASE ~ p.interactive
  <2>1. RunNormal(p, b, fb, pass, low) = RunNormal(p, b, fb, pass, high)
    BY <1>1, NormalIs
  <2>2. Outcomes(p, b, fb, pass, low) = Outcomes(p, b, fb, pass, high)
    BY <1>2, <2>1, Zenon DEF Outcomes
  <2>3. ASSUME NEW out \in Outcomes(p, b, fb, pass, low)
        PROVE  out.result.runtime <= low
    <3>1. NormalFacts(p, b, fb, pass, low, out)
      BY <1>2, NormalOutcome
    <3>. QED  BY <1>1, <3>1 DEF NormalFacts
  <2>4. \A o1, o2 \in Outcomes(p, b, fb, pass, low) : o1 = o2
    BY <1>2 DEF Outcomes
  <2>. QED  BY <2>2, <2>3, <2>4
<1>3. CASE p.interactive /\ ~ p.builds
  <2>1. Outcomes(p, b, fb, pass, low) = Outcomes(p, b, fb, pass, high)
    BY <1>3, Zenon DEF Outcomes
  <2>2. ASSUME NEW out \in Outcomes(p, b, fb, pass, low)
        PROVE  out.result.runtime <= low
    <3>1. NotRunFacts(out)
      BY <1>3, NotBuiltIs
    <3>. QED  BY <3>1 DEF NotRunFacts
  <2>3. \A o1, o2 \in Outcomes(p, b, fb, pass, low) : o1 = o2
    BY <1>3 DEF Outcomes
  <2>. QED  BY <2>1, <2>2, <2>3
<1>4. CASE p.interactive /\ p.builds
  <2>1. ~ Overruns(b, low) /\ ~ Overruns(b, high)
    BY <1>4, OverrunsMonotone
  <2> DEFINE rep == OwnReport(b)
             after == Written(b, fb, pass)
  <2>2. rep.time = b.time /\ ~ IsTLE(rep, low) /\ ~ IsTLE(rep, high)
    BY <1>1, OwnIs
  <2> HIDE DEF rep, after
  <2>3. Least(rep.time, low) = b.time /\ Least(rep.time, high) = b.time
    BY <1>1, <2>2 DEF Least
  <2>4. RunInteractive(p, rep, after, low) = RunInteractive(p, rep, after, high)
    <3>1. Raw(p, rep, after, low) = Raw(p, rep, after, high)
      BY <2>2, Zenon DEF Raw
    <3>2. ToldTime(rep, low) = ToldTime(rep, high)
      BY <2>3 DEF ToldTime
    <3>. QED  BY <3>1, <3>2, RunInteractiveIs
  <2>5. /\ Outcomes(p, b, fb, pass, low) = {RunInteractive(p, rep, after, low)}
        /\ Outcomes(p, b, fb, pass, high) = {RunInteractive(p, rep, after, high)}
    BY <1>4, <2>1, NotCutIs DEF rep, after
  <2>6. ASSUME NEW out \in Outcomes(p, b, fb, pass, low)
        PROVE  out.result.runtime <= low
    <3>1. out.result.runtime = ToldTime(rep, low)
      <4>1. RunFacts(p, rep, after, low, out)
        BY <1>4, <2>1, NotCutFacts DEF rep, after
      <4>. QED  BY <4>1 DEF RunFacts
    <3>. QED  BY <1>1, <2>2, <2>3, <3>1 DEF ToldTime
  <2>. QED  BY <2>4, <2>5, <2>6
<1>. QED  BY <1>1, <1>2, <1>3, <1>4

(* A submission over the limit in an interactive problem: the validator    *)
(* that has decided before either alarm decides at both limits; otherwise  *)
(* it is TLE.                                                              *)
LEMMA SlowInteractive ==
  ASSUME NEW p \in Problem, NEW b \in PassBehaviour, NEW fb \in Feedback, NEW pass \in Nat,
         NEW low \in Nat \ {0}, NEW high \in Nat \ {0}, low <= high,
         p.interactive, p.builds, b.time > low,
         ~ Race(b, low), ~ Race(b, high),
         b.validator = "reject" /\ First(b) /\ b.ends < WallLimit(high) =>
           b.ends < WallLimit(low),
         NEW oh \in Outcomes(p, b, fb, pass, high), oh.result.verdict # "JE",
         NEW ol \in Outcomes(p, b, fb, pass, low)
  PROVE  /\ Reclassify(oh.result, low).verdict = ol.result.verdict
         /\ ol.result.verdict # "AC"
<1>1. /\ b.time \in Nat /\ b.ends \in Nat /\ First(b) \in BOOLEAN /\ SubEnds(b) \in Nat
      /\ b.validator \in {"accept", "reject", "fail"}
      /\ SubEnds(b) < WallLimit(high) \/ WallLimit(high) < SubEnds(b)
  BY EndsTyped
<1>2. /\ WallLimit(low) <= WallLimit(high)
      /\ WallLimit(low) \in Nat /\ WallLimit(high) \in Nat /\ WallLimit(high) > high
  BY WallMonotone, KillsComeLater
<1>3. Written(b, fb, pass) \in Feedback
  BY WrittenTyped
<1>4. ~ ReportsTwice(p, b, low) /\ ~ ReportsTwice(p, b, high)
  BY TwiceIsRace DEF Raced
<1>5. /\ InteractiveFacts(p, b, fb, pass, high, oh)
      /\ InteractiveFacts(p, b, fb, pass, low, ol)
  BY InteractiveIs
<1>6. PICK vh \in Seen(b.ends, high) : \E rep \in Reports(b, high, vh) :
        /\ oh.feedback = Written(b, fb, pass) \/ (vh # "ended" /\ oh.feedback = fb)
        /\ RunFacts(p, rep, oh.feedback, high, oh)
  BY <1>4, <1>5, Zenon DEF InteractiveFacts
<1>7. PICK rh \in Reports(b, high, vh) :
        /\ oh.feedback = Written(b, fb, pass) \/ (vh # "ended" /\ oh.feedback = fb)
        /\ RunFacts(p, rh, oh.feedback, high, oh)
  BY <1>6
<1>8. PICK vl \in Seen(b.ends, low) : \E rep \in Reports(b, low, vl) :
        /\ ol.feedback = Written(b, fb, pass) \/ (vl # "ended" /\ ol.feedback = fb)
        /\ RunFacts(p, rep, ol.feedback, low, ol)
  BY <1>4, <1>5, Zenon DEF InteractiveFacts
<1>9. PICK rl \in Reports(b, low, vl) :
        /\ ol.feedback = Written(b, fb, pass) \/ (vl # "ended" /\ ol.feedback = fb)
        /\ RunFacts(p, rl, ol.feedback, low, ol)
  BY <1>8
<1>10. /\ vh = "ended" <=> b.ends < WallLimit(high)
       /\ rh.validator = IF vh = "ended" THEN b.validator ELSE "reject"
       /\ rh.first \in BOOLEAN /\ (rh.first <=> First(b) /\ vh = "ended")
       /\ rh.time \in Nat /\ rh.time > low
  <2>1. /\ vh = "ended" <=> b.ends < WallLimit(high)
        /\ rh.validator = IF vh = "ended" THEN b.validator ELSE "reject"
        /\ rh.first \in BOOLEAN /\ (rh.first <=> First(b) /\ vh = "ended")
    BY ReportTyped, Zenon
  <2>2. rh.time \in Nat /\ (rh.time = b.time \/ rh.time = WallLimit(high))
    BY <1>1, ReportTyped DEF Ended
  <2>. QED  BY <1>1, <1>2, <2>1, <2>2
<1>11. /\ vl = "ended" <=> b.ends < WallLimit(low)
       /\ rl.validator = IF vl = "ended" THEN b.validator ELSE "reject"
       /\ rl.first \in BOOLEAN /\ (rl.first <=> First(b) /\ vl = "ended")
       /\ IsTLE(rl, low)
  <2>1. /\ vl = "ended" <=> b.ends < WallLimit(low)
        /\ rl.validator = IF vl = "ended" THEN b.validator ELSE "reject"
        /\ rl.first \in BOOLEAN /\ (rl.first <=> First(b) /\ vl = "ended")
    BY ReportTyped, Zenon
  <2>2. IsTLE(rl, low)
    BY ReportTLE
  <2>. QED  BY <2>1, <2>2
<1>12. /\ oh.feedback \in Feedback
       /\ vh = "ended" => oh.feedback = Written(b, fb, pass)
       /\ oh.result \in Result
       /\ oh.result.verdict = Raw(p, rh, oh.feedback, high).verdict
       /\ oh.result.first = rh.first
       /\ oh.result.runtime = IF Decided(rh) THEN Least(rh.time, high) ELSE rh.time
  BY <1>3, <1>7 DEF RunFacts, ToldTime
<1>13. /\ vl = "ended" => ol.feedback = Written(b, fb, pass)
       /\ ol.result.verdict = Raw(p, rl, ol.feedback, low).verdict
  BY <1>9 DEF RunFacts
<1>14. vl = "ended" => vh = "ended"
  BY <1>1, <1>2, <1>10, <1>11
<1>15. CASE Decided(rh)
  <2>1. vh = "ended" /\ rh.validator = b.validator
    BY <1>10, <1>15, Zenon DEF Decided
  <2>2. b.validator # "fail"
    <3> SUFFICES ASSUME b.validator = "fail"
                 PROVE  oh.result.verdict = "JE"
      OBVIOUS
    <3>1. Raw(p, rh, oh.feedback, high) = ParseValidatorResult(p, "fail", oh.feedback)
      BY <1>15, <2>1 DEF Raw
    <3>2. ParseValidatorResult(p, "fail", oh.feedback).verdict = "JE"
      BY <1>12, ParseTyped, NewResultIs DEF Verdict
    <3>. QED  BY <1>12, <3>1, <3>2
  <2>3. b.validator = "reject" /\ rh.first
    BY <1>15, <2>1, <2>2, Zenon DEF Decided
  <2>4. First(b) /\ vl = "ended"
    BY <1>10, <1>11, <2>1, <2>3, Zenon
  <2>5. Decided(rl) /\ rl.validator = "reject"
    BY <1>11, <2>3, <2>4, Zenon DEF Decided
  <2> DEFINE parsed == ParseValidatorResult(p, "reject", Written(b, fb, pass))
  <2>6. oh.result.verdict = parsed.verdict
    BY <1>12, <1>15, <2>1, <2>3 DEF Raw
  <2>7. ol.result.verdict = parsed.verdict
    BY <1>13, <2>4, <2>5 DEF Raw
  <2>8. parsed.verdict = "WA"
    BY ZenonT(30), <1>3, <2>6, ParseTyped, NewResultIs DEF Verdict
  <2> HIDE DEF parsed
  <2>9. oh.result.runtime \in Int
    BY <1>12 DEF Result
  <2>10. Reclassify(oh.result, low).verdict = "WA"
    <3>1. CASE oh.result.runtime <= low
      BY <2>6, <2>8, <3>1 DEF Reclassify
    <3>2. CASE ~ oh.result.runtime <= low
      <4>1. Reclassify(oh.result, low) = [oh.result EXCEPT !.runtime = low]
        BY <1>12, <2>3, <2>6, <2>8, <3>2 DEF Reclassify
      <4>2. [oh.result EXCEPT !.runtime = low].verdict = oh.result.verdict
        BY <1>12 DEF Result
      <4>. QED  BY <2>6, <2>8, <4>1, <4>2, Zenon
    <3>. QED  BY <3>1, <3>2
  <2>. QED  BY <2>7, <2>8, <2>10
<1>16. CASE ~ Decided(rh)
  <2>1. ~ Decided(rl)
    <3> SUFFICES ASSUME Decided(rl)
                 PROVE  FALSE
      OBVIOUS
    <3>1. vl = "ended" /\ rl.validator = b.validator
      BY <1>11, Zenon DEF Decided
    <3>2. vh = "ended" /\ rh.validator = rl.validator /\ (rh.first <=> rl.first)
      BY <1>10, <1>11, <1>14, <3>1, Zenon
    <3>. QED  BY <1>16, <3>2, Zenon DEF Decided
  <2>2. ol.result.verdict = "TLE"
    BY <1>11, <1>13, <2>1, NewResultIs DEF Raw, Verdict
  <2>3. oh.result.runtime > low
    BY <1>10, <1>12, <1>16
  <2>4. ~ (oh.result.first /\ oh.result.verdict = "WA")
    <3> SUFFICES ASSUME rh.first
                 PROVE  oh.result.verdict # "WA"
      BY <1>12
    <3>1. rh.validator = "accept"
      <4>1. rh.validator \in {"accept", "reject", "fail"}
        BY <1>1, <1>10
      <4>. QED  BY <1>16, <4>1 DEF Decided
    <3>2. ParseValidatorResult(p, "accept", oh.feedback).verdict \in {"AC", "JE"}
      BY <1>12, AcceptTyped, ParseTyped
    <3>3. NewResult("TLE").verdict = "TLE" /\ NewResult("RTE").verdict = "RTE"
      BY NewResultIs DEF Verdict
    <3>. QED  BY <1>12, <1>16, <3>1, <3>2, <3>3 DEF Raw
  <2>5. Reclassify(oh.result, low).verdict = "TLE"
    <3> DEFINE tle == NewResult("TLE")
    <3>1. tle \in Result /\ tle.verdict = "TLE"
      BY NewResultIs DEF Verdict
    <3>2. Reclassify(oh.result, low) = [tle EXCEPT !.runtime = oh.result.runtime]
      <4>1. ~ (oh.result.runtime <= low)
        BY <1>12, <2>3 DEF Result
      <4>. QED  BY <2>4, <4>1, Zenon DEF Reclassify
    <3> HIDE DEF tle
    <3>3. [tle EXCEPT !.runtime = oh.result.runtime].verdict = tle.verdict
      BY <3>1 DEF Result
    <3>. QED  BY <3>1, <3>2, <3>3
  <2>. QED  BY <2>2, <2>5
<1>. QED  BY <1>15, <1>16

-----------------------------------------------------------------------------
(* The passes so far.  The score in the feedback directory is the one that *)
(* was written last.                                                       *)
Highest(S) == CHOOSE i \in S : \A j \in S : j <= i

WrittenBy(s, n) == {i \in 1 .. n : s[i].score # NoFile}

ScoreAfter(s, n) ==
  IF WrittenBy(s, n) = {} THEN NoFile ELSE s[Highest(WrittenBy(s, n))].score

(* The feedback directory in which pass n starts.                          *)
Before(s, n) == [score |-> ScoreAfter(s, n - 1), nextpass |-> NoFile]

RunState == [pass : Nat, infile : Nat \union {NoFile}, slowest : Nat,
             result : Result \union {Pending}, feedback : Feedback]

TypeOK ==
  /\ problem \in Problem
  /\ script \in Seq(PassBehaviour)
  /\ run \in [Runs -> RunState]

(* Every set of passes that wrote a score has a last one.                  *)
LastExists(s) ==
  \A n \in 0 .. Len(s) : WrittenBy(s, n) # {} =>
    /\ Highest(WrittenBy(s, n)) \in WrittenBy(s, n)
    /\ \A j \in WrittenBy(s, n) : j <= Highest(WrittenBy(s, n))

(* Pass i was followed by another one.                                     *)
Passed(i, x) ==
  /\ problem.multi_pass
  /\ Clean(problem, script[i], Timelim(x)) \/ Raced(problem, script[i], Timelim(x))
  /\ script[i].next
  /\ ParseAccept(problem, [score |-> ScoreAfter(script, i), nextpass |-> i]).verdict = "AC"

(* The answer of a run is made of the outcome of its last pass.            *)
LastPass(x) ==
  LET n == run[x].pass
  IN  /\ n \in 1 .. Len(script)
      /\ \E out \in Outcomes(problem, script[n], Before(script, n), n, Timelim(x)) :
           /\ run[x].feedback = out.feedback
           /\ \/ ~ problem.multi_pass /\ run[x].result = out.result
              \/ /\ problem.multi_pass /\ ~ Exists(out.feedback.nextpass)
                 /\ run[x].result =
                      [out.result EXCEPT !.runtime = Largest(run[x].slowest, out.result.runtime)]
              \/ /\ problem.multi_pass /\ Exists(out.feedback.nextpass)
                 /\ out.result.verdict # "AC"
                 /\ run[x].result = NewResult("JE")
              \/ /\ ReportsTwice(problem, script[n], Timelim(x))
                 /\ run[x].result = NewResult("JE")

(* What a pass surely adds to the runtime.                                 *)
SureTime(i, x) == IF Raced(problem, script[i], Timelim(x)) THEN 0 ELSE script[i].time

OneRun(x) ==
  LET n == run[x].pass
  IN  /\ n \in 1 .. problem.passes + 1 /\ n - 1 <= Len(script)
      /\ ~ problem.multi_pass => n = 1
      /\ \A i \in 1 .. n - 1 : Passed(i, x) /\ SureTime(i, x) <= run[x].slowest
      /\ run[x].slowest = 0 \/ \E i \in 1 .. n - 1 : run[x].slowest <= script[i].time
      /\ ~ Answered(x) => run[x].feedback = Before(script, n)
      /\ Answered(x) => \/ n <= problem.passes /\ LastPass(x)
                        \/ n = problem.passes + 1 /\ run[x].result = NewResult("JE")

IInv == TypeOK /\ LastExists(script) /\ \A x \in Runs : OneRun(x)

LEMMA HighestIs ==
  ASSUME NEW S, NEW m \in S, \A j \in S : j \in Nat /\ j <= m
  PROVE  Highest(S) = m
<1>1. Highest(S) \in S /\ \A j \in S : j <= Highest(S)
  BY DEF Highest
<1>. QED  BY <1>1

(* What is known about the passes so far does not change when one more is  *)
(* added.                                                                  *)
LEMMA ScriptGrows ==
  ASSUME TypeOK, LastExists(script),
         script' = script \/ \E b \in PassBehaviour : script' = Append(script, b)
  PROVE  /\ script' \in Seq(PassBehaviour)
         /\ Len(script) <= Len(script') /\ Len(script) \in Nat /\ Len(script') \in Nat
         /\ \A i \in 1 .. Len(script) : script'[i] = script[i]
         /\ \A n \in 0 .. Len(script) : /\ WrittenBy(script', n) = WrittenBy(script, n)
                                        /\ ScoreAfter(script', n) = ScoreAfter(script, n)
         /\ LastExists(script')
<1>1. /\ script' \in Seq(PassBehaviour)
      /\ Len(script) \in Nat /\ Len(script') \in Nat
      /\ Len(script') = Len(script) \/ Len(script') = Len(script) + 1
      /\ \A i \in 1 .. Len(script) : script'[i] = script[i]
  BY DEF TypeOK
<1>2. ASSUME NEW n \in 0 .. Len(script)
      PROVE  WrittenBy(script', n) = WrittenBy(script, n)
  BY <1>1, <1>2 DEF WrittenBy
<1>3. ASSUME NEW n \in 0 .. Len(script)
      PROVE  ScoreAfter(script', n) = ScoreAfter(script, n)
  <2>1. CASE WrittenBy(script, n) = {}
    BY <1>2, <2>1 DEF ScoreAfter
  <2>2. CASE WrittenBy(script, n) # {}
    <3>1. Highest(WrittenBy(script, n)) \in WrittenBy(script, n)
      BY <2>2 DEF LastExists
    <3>2. Highest(WrittenBy(script, n)) \in 1 .. Len(script)
      BY <1>1, <3>1 DEF WrittenBy
    <3>3. Highest(WrittenBy(script', n)) = Highest(WrittenBy(script, n))
      BY <1>2
    <3>. QED  BY <1>1, <1>2, <2>2, <3>2, <3>3 DEF ScoreAfter
  <2>. QED  BY <2>1, <2>2
<1>4. ASSUME NEW n \in 0 .. Len(script'), WrittenBy(script', n) # {}
      PROVE  /\ Highest(WrittenBy(script', n)) \in WrittenBy(script', n)
             /\ \A j \in WrittenBy(script', n) : j <= Highest(WrittenBy(script', n))
  <2>1. CASE n \in 0 .. Len(script)
    BY <1>2, <1>4, <2>1 DEF LastExists
  <2>2. CASE n = Len(script) + 1 /\ script'[n].score # NoFile
    <3>1. n \in WrittenBy(script', n) /\ \A j \in WrittenBy(script', n) : j \in Nat /\ j <= n
      BY <1>1, <2>2 DEF WrittenBy
    <3>. QED  BY <3>1, HighestIs
  <2>3. CASE n = Len(script) + 1 /\ ~ script'[n].score # NoFile
    <3>1. WrittenBy(script', n) = WrittenBy(script', n - 1) /\ n - 1 \in 0 .. Len(script)
      BY <1>1, <2>3 DEF WrittenBy
    <3>2. WrittenBy(script', n) = WrittenBy(script, n - 1)
      BY <1>2, <3>1
    <3>. QED  BY <1>4, <3>1, <3>2 DEF LastExists
  <2>. QED  BY <1>1, <2>1, <2>2, <2>3
<1>. QED  BY <1>1, <1>2, <1>3, <1>4 DEF LastExists

(* What the last pass does to the score.                                   *)
LEMMA ScoreOfNext ==
  ASSUME NEW s \in Seq(PassBehaviour), LastExists(s), NEW n \in 1 .. Len(s)
  PROVE  /\ ScoreAfter(s, n) = IF s[n].score # NoFile THEN s[n].score
                            ELSE ScoreAfter(s, n - 1)
         /\ ScoreAfter(s, n) \in Int \union {NoFile, Unreadable}
         /\ ScoreAfter(s, n) = NoFile <=> WrittenBy(s, n) = {}
<1>1. s \in Seq(PassBehaviour) /\ Len(s) \in Nat
  BY DEF TypeOK
<1>2. CASE s[n].score # NoFile
  <2>1. n \in WrittenBy(s, n) /\ \A j \in WrittenBy(s, n) : j \in Nat /\ j <= n
    BY <1>1, <1>2 DEF WrittenBy
  <2>2. Highest(WrittenBy(s, n)) = n
    BY <2>1, HighestIs
  <2>3. ScoreAfter(s, n) = s[n].score
    BY <2>1, <2>2 DEF ScoreAfter
  <2>4. s[n] \in PassBehaviour
    BY <1>1
  <2>. QED  BY <1>2, <2>1, <2>3, <2>4 DEF PassBehaviour
<1>3. CASE ~ s[n].score # NoFile
  <2>1. WrittenBy(s, n) = WrittenBy(s, n - 1) /\ n \in 0 .. Len(s)
    BY <1>1, <1>3 DEF WrittenBy
  <2>2. ScoreAfter(s, n) = ScoreAfter(s, n - 1)
    BY <2>1 DEF ScoreAfter
  <2>3. CASE WrittenBy(s, n) = {}
    BY <1>3, <2>2, <2>3 DEF ScoreAfter
  <2>4. CASE WrittenBy(s, n) # {}
    <3>1. Highest(WrittenBy(s, n)) \in WrittenBy(s, n)
      BY <2>1, <2>4 DEF LastExists
    <3>2. Highest(WrittenBy(s, n)) \in 1 .. Len(s) /\ s[Highest(WrittenBy(s, n))].score # NoFile
      BY <1>1, <3>1 DEF WrittenBy
    <3>3. s[Highest(WrittenBy(s, n))] \in PassBehaviour
      BY <1>1, <3>2
    <3>4. ScoreAfter(s, n) = s[Highest(WrittenBy(s, n))].score
      BY <2>4 DEF ScoreAfter
    <3>. QED  BY <1>3, <2>2, <2>4, <3>2, <3>3, <3>4 DEF PassBehaviour
  <2>. QED  BY <2>3, <2>4
<1>. QED  BY <1>2, <1>3

(* Both facts about a pass that hold however it ends.                      *)
LEMMA PassTyped ==
  ASSUME NEW p \in Problem, NEW b \in PassBehaviour, NEW fb \in Feedback, NEW pass \in Nat,
         NEW limit \in Nat \ {0},
         NEW out \in Outcomes(p, b, fb, pass, limit)
  PROVE  /\ out.result \in Result /\ out.result.runtime \in Int
         /\ out.feedback \in Feedback
         /\ out.feedback \in {fb, Written(b, fb, pass)}
<1>1. p.interactive \in BOOLEAN /\ p.builds \in BOOLEAN
  BY DEF Problem
<1>2. Written(b, fb, pass) \in Feedback
  BY WrittenTyped
<1>3. CASE ~ p.interactive
  <2>1. NormalFacts(p, b, fb, pass, limit, out)
    BY <1>3, NormalOutcome
  <2>. QED  BY <1>2, <2>1 DEF NormalFacts, Result
<1>4. CASE p.interactive /\ ~ p.builds
  <2>1. NotRunFacts(out) /\ out.feedback = fb
    BY <1>4, NotBuiltIs
  <2>. QED  BY <2>1 DEF NotRunFacts
<1>5. CASE p.interactive /\ p.builds
  <2>1. InteractiveFacts(p, b, fb, pass, limit, out)
    BY <1>5, InteractiveIs
  <2>2. out.result \in Result /\ out.feedback \in {fb, Written(b, fb, pass)}
    <3>1. CASE NotRunFacts(out) /\ out.feedback = Written(b, fb, pass)
      BY <3>1 DEF NotRunFacts
    <3>2. ASSUME NEW val \in Seen(b.ends, limit), NEW rep \in Reports(b, limit, val),
                 out.feedback = Written(b, fb, pass) \/ (val # "ended" /\ out.feedback = fb),
                 RunFacts(p, rep, out.feedback, limit, out)
          PROVE  out.result \in Result /\ out.feedback \in {fb, Written(b, fb, pass)}
      BY <3>2 DEF RunFacts
    <3>. QED  BY <2>1, <3>1, <3>2, Zenon DEF InteractiveFacts
  <2>. QED  BY <1>2, <2>2 DEF Result
<1>. QED  BY <1>1, <1>3, <1>4, <1>5

LEMMA LimitsTyped ==
  ASSUME NEW x \in Runs
  PROVE  Timelim(x) \in Nat \ {0} /\ LowLimit <= Timelim(x) /\ Timelim(x) <= HighLimit
BY LimitsAssumption DEF Runs, Timelim

(* The step of a run leaves the other one alone, and what is known of      *)
(* earlier passes.                                                         *)
Grows ==
  /\ problem' = problem
  /\ script' = script \/ \E b \in PassBehaviour : script' = Append(script, b)

LEMMA PassedStays ==
  ASSUME TypeOK, LastExists(script), Grows, NEW x \in Runs, NEW i \in 1 .. Len(script)
  PROVE  /\ Passed(i, x)' = Passed(i, x)
         /\ SureTime(i, x)' = SureTime(i, x)
         /\ script'[i] = script[i]
         /\ Before(script', i) = Before(script, i)
<1>1. /\ script'[i] = script[i]
      /\ \A n \in 0 .. Len(script) : ScoreAfter(script', n) = ScoreAfter(script, n)
      /\ Len(script) \in Nat
  BY ScriptGrows DEF Grows
<1>2. /\ ScoreAfter(script', i) = ScoreAfter(script, i)
      /\ ScoreAfter(script', i - 1) = ScoreAfter(script, i - 1)
  BY <1>1
<1>3. problem' = problem /\ Timelim(x)' = Timelim(x)
  BY DEF Grows, Timelim
<1>. QED  BY <1>1, <1>2, <1>3 DEF Passed, SureTime, Before

LEMMA OtherRun ==
  ASSUME TypeOK, LastExists(script), Grows, NEW y \in Runs, OneRun(y), run'[y] = run[y]
  PROVE  OneRun(y)'
<1>0. PICK n : n = run[y].pass
  OBVIOUS
<1>1. /\ n \in 1 .. problem.passes + 1 /\ n - 1 <= Len(script) /\ n \in Nat
      /\ problem.passes \in Nat /\ Len(script) \in Nat
  BY <1>0 DEF OneRun, TypeOK, Problem
<1>2. run[y]' = run[y] /\ problem' = problem /\ Timelim(y)' = Timelim(y)
  BY DEF Grows, Timelim
<1>3. /\ Len(script) <= Len(script') /\ Len(script') \in Nat
      /\ \A i \in 0 .. Len(script) : ScoreAfter(script', i) = ScoreAfter(script, i)
  BY ScriptGrows DEF Grows
<1>4. \A i \in 1 .. n - 1 : i \in 1 .. Len(script)
  BY <1>1
<1>5. Before(script', n) = Before(script, n)
  <2>1. n - 1 \in 0 .. Len(script)
    BY <1>1
  <2>. QED  BY <1>3, <2>1 DEF Before
<1>6. \A i \in 1 .. n - 1 :
        /\ Passed(i, y)' = Passed(i, y) /\ SureTime(i, y)' = SureTime(i, y)
        /\ script'[i] = script[i]
  BY <1>4, PassedStays
<1>7. Answered(y)' = Answered(y)
  BY <1>2 DEF Answered, Pending
<1>8. LastPass(y) => LastPass(y)'
  <2> SUFFICES ASSUME LastPass(y)
               PROVE  LastPass(y)'
    OBVIOUS
  <2>1. n \in 1 .. Len(script)
    BY <1>0 DEF LastPass
  <2>2. script'[n] = script[n] /\ n \in 1 .. Len(script')
    BY <1>1, <1>3, <2>1, PassedStays
  <2>. QED  BY <1>0, <1>2, <1>5, <2>2 DEF LastPass
<1>9. run[y].pass = n /\ run'[y] = run[y]
  BY <1>0
<1>10. /\ \A i \in 1 .. n - 1 : Passed(i, y)' /\ SureTime(i, y)' <= run[y].slowest
       /\ run[y].slowest = 0 \/ \E i \in 1 .. n - 1 : run[y].slowest <= script'[i].time
  BY <1>6, <1>9 DEF OneRun
<1>11. /\ n \in 1 .. problem.passes + 1 /\ n - 1 <= Len(script')
       /\ ~ problem.multi_pass => n = 1
  BY <1>1, <1>3, <1>9 DEF OneRun
<1>12. /\ ~ Answered(y) => run[y].feedback = Before(script', n)
       /\ Answered(y) => \/ n <= problem.passes /\ LastPass(y)'
                         \/ n = problem.passes + 1 /\ run[y].result = NewResult("JE")
  BY <1>5, <1>8, <1>9 DEF OneRun
<1>. QED  BY <1>2, <1>7, <1>9, <1>10, <1>11, <1>12 DEF OneRun

THEOREM ExecuteInit == Init => IInv
<1> SUFFICES ASSUME Init
             PROVE  IInv
  OBVIOUS
<1>1. problem \in Problem /\ problem.passes \in Nat
  BY InputsAssumption DEF Init, Problem
<1>2. script = <<>> /\ Len(script) = 0
  BY DEF Init
<1> DEFINE fresh == [pass |-> 1, infile |-> 0, slowest |-> 0, result |-> Pending,
                     feedback |-> [score |-> NoFile, nextpass |-> NoFile]]
<1>3. \A x \in Runs : run[x] = fresh
  BY DEF Init
<1>4. fresh \in RunState
  BY DEF RunState, Feedback
<1>5. TypeOK
  BY <1>1, <1>2, <1>3, <1>4 DEF TypeOK, Init
<1>6. WrittenBy(script, 0) = {}
  BY DEF WrittenBy
<1>7. LastExists(script)
  BY <1>2, <1>6 DEF LastExists
<1>8. Before(script, 1) = [score |-> NoFile, nextpass |-> NoFile]
  BY <1>6 DEF Before, ScoreAfter
<1>9. ASSUME NEW x \in Runs
      PROVE  OneRun(x)
  BY <1>1, <1>2, <1>3, <1>8 DEF OneRun, Answered
<1>. QED  BY <1>5, <1>7, <1>9 DEF IInv

LEMMA BeforeTyped ==
  ASSUME NEW s \in Seq(PassBehaviour), LastExists(s), NEW n \in Nat \ {0}, n - 1 <= Len(s)
  PROVE  Before(s, n) \in Feedback
<1>1. Len(s) \in Nat
  BY DEF TypeOK
<1>2. CASE n = 1
  BY <1>2 DEF Before, ScoreAfter, WrittenBy, Feedback
<1>3. CASE n # 1
  <2>1. n - 1 \in 1 .. Len(s)
    BY <1>1, <1>3
  <2>. QED  BY <2>1, ScoreOfNext DEF Before, Feedback
<1>. QED  BY <1>2, <1>3

(* The feedback directory after a pass that wrote its files.               *)
LEMMA WrittenAfter ==
  ASSUME NEW s \in Seq(PassBehaviour), LastExists(s), NEW n \in 1 .. Len(s)
  PROVE  Written(s[n], Before(s, n), n) =
           [score |-> ScoreAfter(s, n), nextpass |-> IF s[n].next THEN n ELSE NoFile]
BY ScoreOfNext DEF Written, Before

(* A run that answers.                                                     *)
LEMMA AnswerStep ==
  ASSUME IInv, NEW x \in Runs, NEW n, n = run[x].pass, n <= problem.passes,
         Grows, n \in 1 .. Len(script'),
         NEW out \in Outcomes(problem, script'[n], Before(script, n), n, Timelim(x)),
         NEW r \in Result, Answer(x, r, out),
         \/ ~ problem.multi_pass /\ r = out.result
         \/ /\ problem.multi_pass /\ ~ Exists(out.feedback.nextpass)
            /\ r = [out.result EXCEPT !.runtime = Largest(run[x].slowest, out.result.runtime)]
         \/ /\ problem.multi_pass /\ Exists(out.feedback.nextpass)
            /\ out.result.verdict # "AC"
            /\ r = NewResult("JE")
         \/ ReportsTwice(problem, script'[n], Timelim(x)) /\ r = NewResult("JE")
  PROVE  IInv'
<1> USE DEF IInv
<1>1. /\ n \in 1 .. problem.passes + 1 /\ n - 1 <= Len(script) /\ n \in Nat \ {0}
      /\ problem \in Problem /\ problem.passes \in Nat /\ Len(script) \in Nat
      /\ problem' = problem /\ Timelim(x)' = Timelim(x)
  BY DEF OneRun, TypeOK, Problem, Grows, Timelim
<1>2. /\ script' \in Seq(PassBehaviour) /\ LastExists(script') /\ Len(script') \in Nat
      /\ Len(script) <= Len(script')
      /\ \A i \in 0 .. Len(script) : ScoreAfter(script', i) = ScoreAfter(script, i)
  BY ScriptGrows DEF Grows
<1>3. out.feedback \in Feedback
  <2>1. script'[n] \in PassBehaviour
    BY <1>2
  <2>2. Before(script, n) \in Feedback
    BY <1>1, BeforeTyped DEF TypeOK
  <2>. QED  BY <1>1, <2>1, <2>2, PassTyped, LimitsTyped
<1>4. /\ run' \in [Runs -> RunState]
      /\ \A y \in Runs \ {x} : run'[y] = run[y]
      /\ run'[x].pass = n /\ run'[x].slowest = run[x].slowest
      /\ run'[x].result = r /\ run'[x].feedback = out.feedback
  BY <1>3 DEF Answer, TypeOK, RunState
<1>5. TypeOK'
  BY <1>1, <1>2, <1>4 DEF TypeOK
<1>6. \A y \in Runs \ {x} : OneRun(y)'
  BY <1>4, OtherRun
<1>7. Before(script', n) = Before(script, n)
  <2>1. n - 1 \in 0 .. Len(script)
    BY <1>1
  <2>. QED  BY <1>2, <2>1 DEF Before
<1>8. LastPass(x)'
  BY <1>1, <1>4, <1>7 DEF LastPass
<1>9. r # Pending
  BY DEF Result, Verdict, Pending
<1>10. \A i \in 1 .. n - 1 :
         /\ Passed(i, x)' = Passed(i, x) /\ SureTime(i, x)' = SureTime(i, x)
         /\ script'[i] = script[i]
  <2>1. \A i \in 1 .. n - 1 : i \in 1 .. Len(script)
    BY <1>1
  <2>. QED  BY <2>1, PassedStays
<1>11. /\ \A i \in 1 .. n - 1 : Passed(i, x)' /\ SureTime(i, x)' <= run'[x].slowest
       /\ run'[x].slowest = 0 \/ \E i \in 1 .. n - 1 : run'[x].slowest <= script'[i].time
       /\ ~ problem.multi_pass => n = 1
  BY <1>4, <1>10 DEF OneRun
<1>12. Answered(x)'
  BY <1>4, <1>9 DEF Answered, Pending
<1>13. OneRun(x)'
  BY <1>1, <1>2, <1>4, <1>8, <1>11, <1>12 DEF OneRun
<1>. QED  BY <1>2, <1>5, <1>6, <1>13

(* A run that goes on to its next pass.                                    *)
LEMMA GoOnStep ==
  ASSUME IInv, NEW x \in Runs, NEW n, n = run[x].pass, n <= problem.passes, ~ Answered(x),
         Grows, n \in 1 .. Len(script'),
         NEW out \in Outcomes(problem, script'[n], Before(script, n), n, Timelim(x)),
         GoOn(x, out)
  PROVE  IInv'
<1> USE DEF IInv
<1>1. /\ n \in 1 .. problem.passes + 1 /\ n - 1 <= Len(script) /\ n \in Nat \ {0}
      /\ problem \in Problem /\ problem.passes \in Nat /\ Len(script) \in Nat
      /\ problem' = problem /\ Timelim(x)' = Timelim(x)
      /\ problem.multi_pass
      /\ run[x].slowest \in Nat
  BY DEF OneRun, TypeOK, Problem, Grows, Timelim, GoOn, RunState
<1>2. /\ script' \in Seq(PassBehaviour) /\ LastExists(script') /\ Len(script') \in Nat
      /\ Len(script) <= Len(script')
      /\ \A i \in 0 .. Len(script) : ScoreAfter(script', i) = ScoreAfter(script, i)
  BY ScriptGrows DEF Grows
<1> DEFINE b == script'[n]
<1>3. b \in PassBehaviour /\ b.time \in Nat
  <2>1. b \in PassBehaviour
    BY <1>2
  <2>. QED  BY <2>1 DEF PassBehaviour
<1>4. Before(script, n) \in Feedback
  BY <1>1, BeforeTyped DEF TypeOK
<1>5. Before(script', n) = Before(script, n)
  <2>1. n - 1 \in 0 .. Len(script)
    BY <1>1
  <2>. QED  BY <1>2, <2>1 DEF Before
<1> DEFINE t == out.result.runtime
<1>6. /\ Clean(problem, b, Timelim(x)) \/ Raced(problem, b, Timelim(x))
      /\ out.feedback = Written(b, Before(script, n), n)
      /\ ParseAccept(problem, out.feedback).verdict = "AC"
      /\ t \in Nat /\ t <= b.time
      /\ ~ Raced(problem, b, Timelim(x)) => t = b.time
      /\ out.feedback \in Feedback
  <2>1. out.result.verdict = "AC"
    BY DEF GoOn
  <2>2. Timelim(x) \in Nat \ {0}
    BY LimitsTyped
  <2>3. Written(b, Before(script, n), n) \in Feedback
    BY <1>1, <1>3, <1>4, WrittenTyped
  <2>4. /\ Clean(problem, b, Timelim(x)) \/ Raced(problem, b, Timelim(x))
        /\ out.feedback = Written(b, Before(script, n), n)
        /\ ParseAccept(problem, out.feedback).verdict = "AC"
        /\ t \in Nat /\ t <= b.time
        /\ ~ Raced(problem, b, Timelim(x)) => t = b.time
    BY SMTT(30), <1>1, <1>3, <1>4, <2>1, <2>2, AcceptedPass
  <2>. QED  BY <2>3, <2>4
<1> HIDE DEF b, t
<1>8. /\ run' \in [Runs -> RunState]
      /\ \A y \in Runs \ {x} : run'[y] = run[y]
      /\ run'[x].pass = n + 1
      /\ run'[x].slowest = Largest(run[x].slowest, t)
      /\ run'[x].result = run[x].result
      /\ run'[x].feedback = [score |-> out.feedback.score, nextpass |-> NoFile]
  <2>1. [out.feedback EXCEPT !.nextpass = NoFile] =
          [score |-> out.feedback.score, nextpass |-> NoFile]
    BY <1>6 DEF Feedback
  <2>2. [score |-> out.feedback.score, nextpass |-> NoFile] \in Feedback
    BY <1>6 DEF Feedback
  <2>3. Largest(run[x].slowest, t) \in Nat
    BY <1>1, <1>6 DEF Largest
  <2>4. run' = [run EXCEPT ![x].pass = @ + 1,
                          ![x].infile = out.feedback.nextpass,
                          ![x].feedback = [score |-> out.feedback.score, nextpass |-> NoFile],
                          ![x].slowest = Largest(@, t)]
    BY <1>6, <2>1 DEF GoOn, t
  <2>5. out.feedback.nextpass \in Nat \union {NoFile}
    BY <1>6 DEF Feedback
  <2> DEFINE inf == out.feedback.nextpass
             fb == [score |-> out.feedback.score, nextpass |-> NoFile]
             slow == Largest(run[x].slowest, t)
  <2>6. run[x] \in RunState /\ run \in [Runs -> RunState]
    BY DEF TypeOK
  <2>7. run' = [run EXCEPT ![x].pass = @ + 1, ![x].infile = inf,
                          ![x].feedback = fb, ![x].slowest = slow]
    BY <2>4, Zenon
  <2> HIDE DEF inf, fb, slow
  <2>8. \A y \in Runs \ {x} : run'[y] = run[y]
    BY <2>6, <2>7
  <2>10. run'[x] = [pass |-> n + 1, infile |-> inf, slowest |-> slow,
                    result |-> run[x].result, feedback |-> fb]
    BY <2>6, <2>7 DEF RunState
  <2>11. run'[x] \in RunState
    BY <1>1, <2>2, <2>3, <2>5, <2>6, <2>10 DEF RunState, inf, fb, slow
  <2>12. run' \in [Runs -> RunState]
    BY <2>6, <2>7, <2>8, <2>11
  <2>. QED  BY <2>8, <2>10, <2>12 DEF fb, slow
<1>9. TypeOK'
  BY <1>1, <1>2, <1>8 DEF TypeOK
<1>10. \A y \in Runs \ {x} : OneRun(y)'
  BY <1>8, OtherRun
<1>11. Written(b, Before(script, n), n) =
        [score |-> ScoreAfter(script', n), nextpass |-> IF b.next THEN n ELSE NoFile]
  <2>1. Written(script'[n], Before(script', n), n) =
          [score |-> ScoreAfter(script', n),
           nextpass |-> IF script'[n].next THEN n ELSE NoFile]
    BY <1>2, WrittenAfter
  <2>. QED  BY <1>5, <2>1 DEF b
<1>12. b.next
  BY <1>6, <1>11 DEF GoOn, Exists
<1>13. Passed(n, x)'
  BY <1>1, <1>6, <1>11, <1>12 DEF b, Passed
<1>14. \A i \in 1 .. n - 1 : Passed(i, x)' /\ SureTime(i, x)' <= run[x].slowest
  <2>1. \A i \in 1 .. n - 1 : i \in 1 .. Len(script)
    BY <1>1
  <2>2. \A i \in 1 .. n - 1 : Passed(i, x)' = Passed(i, x) /\ SureTime(i, x)' = SureTime(i, x)
    BY <2>1, PassedStays
  <2>. QED  BY <2>2 DEF OneRun
<1>15. \A i \in 1 .. n : Passed(i, x)' /\ SureTime(i, x)' <= run'[x].slowest
  <2> SUFFICES ASSUME NEW i \in 1 .. n
               PROVE  Passed(i, x)' /\ SureTime(i, x)' <= run'[x].slowest
    OBVIOUS
  <2>0. t <= run'[x].slowest /\ run[x].slowest <= run'[x].slowest
        /\ run[x].slowest \in Nat /\ run'[x].slowest \in Nat
    BY <1>1, <1>6, <1>8 DEF Largest
  <2>1. CASE i = n
    <3>1. SureTime(n, x)' = IF Raced(problem, b, Timelim(x)) THEN 0 ELSE b.time
      BY <1>1 DEF SureTime, b
    <3>2. SureTime(n, x)' <= run'[x].slowest
      <4> DEFINE u == SureTime(n, x)'
                 m == run'[x].slowest
      <4>1. u = 0 \/ u = t
        BY <1>6, <3>1
      <4>2. t \in Nat /\ m \in Nat /\ t <= m
        BY <1>6, <2>0
      <4> HIDE DEF u, m
      <4>3. u <= m
        BY <4>1, <4>2
      <4>. QED  BY <4>3 DEF u, m
    <3>. QED  BY <1>13, <2>1, <3>2
  <2>2. CASE i # n
    <3>1. i \in 1 .. n - 1
      BY <1>1, <2>2
    <3>2. SureTime(i, x)' \in Nat
      <4>1. script'[i] \in PassBehaviour
        BY <1>1, <1>2, <3>1
      <4>2. script'[i].time \in Nat
        BY <4>1 DEF PassBehaviour
      <4>. QED  BY <4>2 DEF SureTime
    <3>3. Passed(i, x)' /\ SureTime(i, x)' <= run[x].slowest
      BY <1>14, <3>1
    <3>4. SureTime(i, x)' <= run'[x].slowest
      <4> DEFINE u == SureTime(i, x)'
                 s == run[x].slowest
                 m == run'[x].slowest
      <4>1. u \in Nat /\ s \in Nat /\ m \in Nat /\ u <= s /\ s <= m
        BY <2>0, <3>2, <3>3
      <4> HIDE DEF u, s, m
      <4>2. u <= m
        BY <4>1
      <4>. QED  BY <4>2 DEF u, m
    <3>. QED  BY <3>3, <3>4
  <2>. QED  BY <2>1, <2>2
<1>16. run'[x].slowest = 0 \/ \E i \in 1 .. n : run'[x].slowest <= script'[i].time
  <2>1. CASE run'[x].slowest = t
    BY <1>1, <1>6, <2>1 DEF b
  <2>2. CASE run'[x].slowest = run[x].slowest
    <3>1. \A i \in 1 .. n - 1 : script'[i] = script[i] /\ i \in 1 .. n
      <4>1. \A i \in 1 .. n - 1 : i \in 1 .. Len(script) /\ i \in 1 .. n
        BY <1>1
      <4>. QED  BY <4>1, PassedStays
    <3>. QED  BY <2>2, <3>1 DEF OneRun
  <2>. QED  BY <1>8, <2>1, <2>2 DEF Largest
<1>17. Before(script', n + 1) = run'[x].feedback
  BY <1>1, <1>6, <1>8, <1>11 DEF Before
<1>18. n + 1 - 1 = n /\ n + 1 \in 1 .. problem.passes + 1
  BY <1>1
<1>19. ~ Answered(x)' /\ n <= Len(script')
  BY <1>1, <1>2, <1>8 DEF Answered, Pending
<1>20. OneRun(x)'
  BY SMTT(30), <1>1, <1>8, <1>15, <1>16, <1>17, <1>18, <1>19 DEF OneRun
<1>. QED  BY <1>2, <1>9, <1>10, <1>20

THEOREM ExecuteStep == IInv /\ [Next]_vars => IInv'
<1> SUFFICES ASSUME IInv, [Next]_vars
             PROVE  IInv'
  OBVIOUS
<1> USE DEF IInv
<1>1. CASE UNCHANGED vars
  <2>1. Grows /\ run' = run
    BY <1>1 DEF vars, Grows
  <2>2. TypeOK' /\ LastExists(script')
    BY <1>1 DEF vars, TypeOK
  <2>. QED  BY <2>1, <2>2, OtherRun
<1>2. ASSUME NEW x \in Runs, TooManyPasses(x)
      PROVE  IInv'
  <2>1. Grows /\ script' = script /\ problem' = problem
    BY <1>2 DEF TooManyPasses, Grows
  <2> DEFINE je == NewResult("JE")
  <2>2. je \in Result /\ je # Pending
    BY NewResultIs DEF Verdict, Pending, Result
  <2> HIDE DEF je
  <2>3. /\ run' \in [Runs -> RunState]
        /\ \A y \in Runs \ {x} : run'[y] = run[y]
        /\ run'[x].pass = run[x].pass /\ run'[x].slowest = run[x].slowest
        /\ run'[x].result = je
    <3>1. run' = [run EXCEPT ![x].result = je]
      BY <1>2 DEF TooManyPasses, je
    <3>. QED  BY <2>2, <3>1 DEF TypeOK, RunState
  <2>4. TypeOK' /\ LastExists(script')
    BY <2>1, <2>3 DEF TypeOK
  <2>5. \A y \in Runs \ {x} : OneRun(y)'
    BY <2>1, <2>3, OtherRun
  <2>6. run[x].pass \in Nat /\ run[x].pass = problem.passes + 1 /\ OneRun(x)
    BY <1>2 DEF TooManyPasses, OneRun, TypeOK, Problem, RunState
  <2>7. Answered(x)'
    BY <2>2, <2>3 DEF Answered, Pending
  <2>8. \A i \in 1 .. run[x].pass - 1 :
          /\ Passed(i, x)' = Passed(i, x) /\ SureTime(i, x)' = SureTime(i, x)
          /\ script'[i] = script[i]
    <3>1. \A i \in 1 .. run[x].pass - 1 : i \in 1 .. Len(script)
      BY <2>6 DEF OneRun, TypeOK
    <3>. QED  BY <2>1, <3>1, PassedStays
  <2>9. OneRun(x)'
    BY <2>1, <2>3, <2>6, <2>7, <2>8 DEF OneRun, je
  <2>. QED  BY <2>4, <2>5, <2>9
<1>3. ASSUME NEW x \in Runs, RunPass(x)
      PROVE  IInv'
  <2>1. PICK n : n = run[x].pass
    OBVIOUS
  <2>2. /\ n \in Nat \ {0} /\ n <= problem.passes /\ n - 1 <= Len(script) /\ Len(script) \in Nat
        /\ run[x].feedback = Before(script, n)
        /\ script \in Seq(PassBehaviour)
        /\ run[x].slowest \in Nat
    BY <1>3, <2>1 DEF RunPass, OneRun, TypeOK, RunState
  <2>3. PICK b \in NextBehaviours(x) :
          /\ script' = IF n <= Len(script) THEN script ELSE Append(script, b)
          /\ \/ LineRaises(x, b)
             \/ \E out \in Outcomes(problem, b, Before(script, n), n, Timelim(x)) :
                  SinglePass(x, out) \/ StopAtVerdict(x, out) \/ BlameNextpass(x, out) \/ GoOn(x, out)
    BY <1>3, <2>1, <2>2 DEF RunPass
  <2>4. b \in PassBehaviour
    BY <2>1, <2>2, <2>3, InputsAssumption DEF NextBehaviours
  <2>5. Grows
    BY <1>3, <2>3, <2>4 DEF RunPass, Grows
  <2>6. script'[n] = b /\ n \in 1 .. Len(script')
    BY <2>1, <2>2, <2>3, <2>4 DEF NextBehaviours
  <2>7. CASE LineRaises(x, b)
    <3>1. /\ ReportsTwice(problem, b, Timelim(x))
          /\ Answer(x, NewResult("JE"), [feedback |-> Written(b, Before(script, n), n)])
      BY <2>1, <2>2, <2>7 DEF LineRaises, InternalError
    <3>2. PICK out : out = NotRun(Written(b, Before(script, n), n))
      OBVIOUS
    <3>3. out \in Outcomes(problem, script'[n], Before(script, n), n, Timelim(x))
      BY <2>6, <3>1, <3>2 DEF Outcomes, ReportsTwice
    <3>4. out.feedback = Written(b, Before(script, n), n)
      BY <3>2, NotRunIs
    <3>5. Answer(x, NewResult("JE"), out)
      BY <3>1, <3>4 DEF Answer
    <3>6. NewResult("JE") \in Result
      BY NewResultIs DEF Verdict
    <3>. QED  BY <2>1, <2>2, <2>5, <2>6, <3>1, <3>3, <3>5, <3>6, AnswerStep
  <2>8. ASSUME NEW out \in Outcomes(problem, script'[n], Before(script, n), n, Timelim(x)),
               \/ SinglePass(x, out) \/ StopAtVerdict(x, out)
               \/ BlameNextpass(x, out) \/ GoOn(x, out)
        PROVE  IInv'
    <3>1. out.result \in Result /\ out.result.runtime \in Int
      <4>1. Before(script, n) \in Feedback /\ Timelim(x) \in Nat \ {0} /\ problem \in Problem
        BY <2>2, BeforeTyped, LimitsTyped DEF TypeOK
      <4>. QED  BY <2>2, <2>4, <2>6, <4>1, PassTyped
    <3>2. CASE SinglePass(x, out)
      BY <2>1, <2>2, <2>5, <2>6, <3>1, <3>2, AnswerStep DEF SinglePass
    <3>3. CASE StopAtVerdict(x, out)
      <4> DEFINE t == Largest(run[x].slowest, out.result.runtime)
      <4>1. t \in Int
        BY <2>2, <3>1 DEF Largest
      <4> HIDE DEF t
      <4>2. [out.result EXCEPT !.runtime = t] \in Result
        BY <3>1, <4>1, ResultExcept
      <4>. QED
        BY <2>1, <2>2, <2>5, <2>6, <3>3, <4>2, AnswerStep DEF StopAtVerdict, Timed, t
    <3>4. CASE BlameNextpass(x, out)
      <4>1. NewResult("JE") \in Result
        BY NewResultIs DEF Verdict
      <4>. QED
        BY <2>1, <2>2, <2>5, <2>6, <3>4, <4>1, AnswerStep DEF BlameNextpass
    <3>5. CASE GoOn(x, out)
      BY <1>3, <2>1, <2>2, <2>5, <2>6, <3>5, GoOnStep DEF RunPass
    <3>. QED  BY <2>8, <3>2, <3>3, <3>4, <3>5
  <2>. QED  BY <2>3, <2>6, <2>7, <2>8
<1>. QED  BY <1>1, <1>2, <1>3 DEF Next

THEOREM ExecuteInvariant == Spec => []IInv
BY ExecuteInit, ExecuteStep, PTL DEF Spec

(* Whatever the passes do, the executions keep to their types: every pass  *)
(* leaves a result, a runtime and a feedback directory the next can use.   *)
THEOREM TypeCorrect == Spec => []TypeOK
BY ExecuteInvariant, PTL DEF IInv

-----------------------------------------------------------------------------
(* The two limits.                                                         *)
LEMMA SlowIsTLE ==
  ASSUME NEW r \in Result, NEW limit \in Nat, r.runtime > limit,
         ~ (r.first /\ r.verdict = "WA")
  PROVE  Reclassify(r, limit).verdict = "TLE"
<1> DEFINE tle == NewResult("TLE")
<1>1. tle \in Result /\ tle.verdict = "TLE"
  BY NewResultIs DEF Verdict
<1>2. r.runtime \in Int
  BY DEF Result
<1>3. ~ (r.runtime <= limit)
  BY <1>2
<1>4. Reclassify(r, limit) = [tle EXCEPT !.runtime = r.runtime]
  BY <1>3, Zenon DEF Reclassify
<1> HIDE DEF tle
<1>5. [tle EXCEPT !.runtime = r.runtime].verdict = tle.verdict
  BY <1>1 DEF Result
<1>. QED  BY <1>1, <1>4, <1>5

(* The result of a run of several passes is that of the last one, with the *)
(* largest runtime.                                                        *)
LEMMA TimedIs ==
  ASSUME NEW r \in Result, NEW s \in Int
  PROVE  LET t == [r EXCEPT !.runtime = Largest(s, r.runtime)]
         IN  /\ t \in Result /\ t.verdict = r.verdict /\ t.score = r.score
             /\ t.first = r.first /\ t.runtime = Largest(s, r.runtime)
<1> DEFINE m == Largest(s, r.runtime)
<1>1. r.runtime \in Int
  BY DEF Result
<1>2. m \in Int
  BY <1>1 DEF Largest
<1> HIDE DEF m
<1>3. [r EXCEPT !.runtime = m] \in Result
  BY <1>2, ResultExcept
<1>4. [r EXCEPT !.runtime = m] =
        [verdict |-> r.verdict, runtime |-> m, first |-> r.first, score |-> r.score]
  BY <1>2 DEF Result
<1>. QED  BY <1>3, <1>4 DEF m

(* A pass within the low limit and the one that is not, for short.         *)
InTime(p, b) == b.time <= LowLimit /\ (p.interactive => ~ Overruns(b, LowLimit))

(* What one last pass gives at both limits.                                *)
Bargain(x, y) ==
  LET r == Reclassify(x, LowLimit)
  IN  /\ r.verdict = y.verdict
      /\ r.verdict = "AC" => r.score = y.score

LEMMA SlowNormal ==
  ASSUME NEW p \in Problem, NEW b \in PassBehaviour, NEW fb \in Feedback, NEW pass \in Nat,
         NEW limit \in Nat \ {0}, LowLimit <= limit, ~ p.interactive, b.time > LowLimit,
         NEW out \in Outcomes(p, b, fb, pass, limit)
  PROVE  out.result \in Result /\ out.result.runtime > LowLimit /\ out.result.first = FALSE
<1>1. NormalFacts(p, b, fb, pass, limit, out)
  BY NormalOutcome
<1>2. b.time \in Nat /\ LowLimit \in Nat
  BY LimitsAssumption DEF PassBehaviour
<1>. QED  BY <1>1, <1>2 DEF NormalFacts

LEMMA SlowAtLow ==
  ASSUME NEW p \in Problem, NEW b \in PassBehaviour, NEW fb \in Feedback, NEW pass \in Nat,
         ~ p.interactive, b.time > LowLimit,
         NEW out \in Outcomes(p, b, fb, pass, LowLimit)
  PROVE  out.result.verdict = "TLE" /\ out.feedback = fb /\ out.result \in Result
<1>1. LowLimit \in Nat \ {0}
  BY LimitsAssumption
<1>2. NormalFacts(p, b, fb, pass, LowLimit, out)
  BY <1>1, NormalOutcome
<1>. QED  BY <1>2 DEF NormalFacts

(* A run that went on after a pass goes on after it at the other limit.    *)
LEMMA GoesOn ==
  ASSUME IInv, NEW x \in Runs, NEW n, n = run[x].pass, n <= problem.passes, Answered(x),
         problem.multi_pass, Clean(problem, script[n], Timelim(x)), script[n].next,
         ParseAccept(problem, [score |-> ScoreAfter(script, n), nextpass |-> n]).verdict = "AC"
  PROVE  FALSE
<1> USE DEF IInv
<1>1. /\ LastPass(x) /\ n \in 1 .. Len(script) /\ problem \in Problem
      /\ script \in Seq(PassBehaviour) /\ n \in Nat \ {0} /\ Len(script) \in Nat
  <2>1. /\ problem \in Problem /\ problem.passes \in Nat /\ run[x].pass \in Nat
        /\ script \in Seq(PassBehaviour) /\ Len(script) \in Nat
    BY DEF TypeOK, Problem, RunState
  <2>2. LastPass(x)
    BY <2>1 DEF OneRun
  <2>. QED  BY SMTT(30), <2>1, <2>2 DEF LastPass
<1>2. PICK out \in Outcomes(problem, script[n], Before(script, n), n, Timelim(x)) :
        \/ ~ Exists(out.feedback.nextpass)
        \/ out.result.verdict # "AC"
        \/ ReportsTwice(problem, script[n], Timelim(x))
  BY <1>1 DEF LastPass
<1>3. script[n] \in PassBehaviour /\ Before(script, n) \in Feedback /\ Timelim(x) \in Nat \ {0}
  BY <1>1, BeforeTyped, LimitsTyped
<1>4. /\ out.feedback = Written(script[n], Before(script, n), n)
      /\ out.result.verdict = ParseAccept(problem, out.feedback).verdict
      /\ ~ ReportsTwice(problem, script[n], Timelim(x))
  BY <1>1, <1>3, CleanPass, TwiceIsRace
<1>5. out.feedback = [score |-> ScoreAfter(script, n), nextpass |-> n]
  BY <1>1, <1>4, WrittenAfter
<1>. QED  BY <1>1, <1>2, <1>4, <1>5, FilesAssumption DEF Exists

(* The last pass of a run that answered within the number of passes.       *)
LEMMA LastPassIs ==
  ASSUME IInv, NEW x \in Runs, Answered(x), NEW n, n = run[x].pass, n <= problem.passes
  PROVE  /\ LastPass(x)
         /\ n \in 1 .. Len(script) /\ n \in Nat \ {0}
         /\ script[n] \in PassBehaviour
         /\ Before(script, n) \in Feedback
         /\ problem \in Problem
         /\ script \in Seq(PassBehaviour)
         /\ script[n].time \in Nat
<1> USE DEF IInv
<1>1. /\ problem \in Problem /\ problem.passes \in Nat /\ run[x].pass \in Nat
      /\ script \in Seq(PassBehaviour) /\ Len(script) \in Nat
  BY DEF TypeOK, Problem, RunState
<1>2. LastPass(x)
  BY <1>1 DEF OneRun
<1>3. n \in 1 .. Len(script) /\ n \in Nat \ {0}
  BY <1>1, <1>2 DEF LastPass
<1>4. Before(script, n) \in Feedback
  BY <1>1, <1>3, BeforeTyped
<1>5. script[n] \in PassBehaviour
  BY <1>1, <1>3
<1>6. script[n].time \in Nat
  BY <1>5 DEF PassBehaviour
<1>. QED  BY <1>1, <1>2, <1>3, <1>4, <1>5, <1>6

(* The largest runtime of the passes before the last.                      *)
LEMMA SlowestIs ==
  ASSUME IInv, NEW x \in Runs
  PROVE  /\ run[x].slowest \in Nat
         /\ \A i \in 1 .. run[x].pass - 1 :
              /\ i \in DOMAIN script /\ script[i].time \in Nat
              /\ SureTime(i, x) <= run[x].slowest /\ Passed(i, x)
         /\ (\A i \in 1 .. run[x].pass - 1 : script[i].time <= LowLimit) =>
              run[x].slowest <= LowLimit
<1> USE DEF IInv
<1>1. /\ run[x].slowest \in Nat /\ run[x].pass \in Nat /\ Len(script) \in Nat
      /\ script \in Seq(PassBehaviour) /\ LowLimit \in Nat
  BY LimitsAssumption DEF TypeOK, RunState
<1>2. \A i \in 1 .. run[x].pass - 1 : i \in 1 .. Len(script)
  BY <1>1 DEF OneRun
<1>3. \A i \in 1 .. run[x].pass - 1 : script[i] \in PassBehaviour
  BY <1>1, <1>2
<1>4. \A i \in 1 .. run[x].pass - 1 : script[i].time \in Nat
  BY <1>3 DEF PassBehaviour
<1>5. 1 .. Len(script) = DOMAIN script
  BY <1>1
<1>6. ASSUME \A i \in 1 .. run[x].pass - 1 : script[i].time <= LowLimit
      PROVE  run[x].slowest <= LowLimit
  <2>1. CASE run[x].slowest = 0
    BY <1>1, <2>1
  <2>2. ASSUME NEW i \in 1 .. run[x].pass - 1, run[x].slowest <= script[i].time
        PROVE  run[x].slowest <= LowLimit
    BY <1>1, <1>4, <1>6, <2>2
  <2>. QED  BY <2>1, <2>2 DEF OneRun
<1>. QED  BY <1>1, <1>2, <1>4, <1>5, <1>6 DEF OneRun

LEMMA SamePassInTime ==
  ASSUME NEW p \in Problem, NEW b \in PassBehaviour, NEW fb \in Feedback, NEW pass \in Nat,
         InTime(p, b),
         NEW oh \in Outcomes(p, b, fb, pass, HighLimit),
         NEW ol \in Outcomes(p, b, fb, pass, LowLimit)
  PROVE  oh = ol /\ ol.result.runtime <= LowLimit /\ ol.result \in Result
<1>1. LowLimit \in Nat \ {0} /\ HighLimit \in Nat \ {0} /\ LowLimit <= HighLimit
  BY LimitsAssumption
<1>2. /\ Outcomes(p, b, fb, pass, LowLimit) = Outcomes(p, b, fb, pass, HighLimit)
      /\ \A out \in Outcomes(p, b, fb, pass, LowLimit) : out.result.runtime <= LowLimit
      /\ \A o1, o2 \in Outcomes(p, b, fb, pass, LowLimit) : o1 = o2
  BY <1>1, InTimePass DEF InTime
<1>3. ol.result \in Result
  BY <1>1, PassTyped
<1>. QED  BY <1>2, <1>3

LEMMA SameResult ==
  ASSUME NEW r \in Result, r.runtime <= LowLimit
  PROVE  Reclassify(r, LowLimit) = r
BY DEF Reclassify

(* One pass: the store's bargain.                                          *)
LEMMA BargainOfOnePass ==
  ASSUME IInv, Answered("high"), Answered("low"), ~ Exempt, ~ problem.multi_pass
  PROVE  Bargain(run["high"].result, run["low"].result)
<1> USE DEF IInv
<1>1. "high" \in Runs /\ "low" \in Runs /\ Timelim("high") = HighLimit
      /\ Timelim("low") = LowLimit /\ LowLimit \in Nat \ {0} /\ HighLimit \in Nat \ {0}
      /\ LowLimit <= HighLimit
  BY LimitsAssumption DEF Runs, Timelim
<1>2. problem.passes \in Nat /\ 1 <= problem.passes /\ problem \in Problem
      /\ problem.interactive \in BOOLEAN /\ problem.builds \in BOOLEAN
  BY DEF TypeOK, Problem
<1>3. run["high"].pass = 1 /\ run["low"].pass = 1
  BY <1>1 DEF OneRun
<1> DEFINE b == script[1]
           fb == Before(script, 1)
<1>4. /\ b \in PassBehaviour /\ fb \in Feedback /\ 1 \in 1 .. Len(script)
      /\ b.time \in Nat /\ 1 \in DOMAIN script /\ LastPass("high") /\ LastPass("low")
  BY <1>1, <1>2, <1>3, LastPassIs
<1>5. b \in PassBehaviour /\ fb \in Feedback
  BY <1>4
<1>6. /\ problem.interactive => /\ Overruns(b, LowLimit) => b.time > LowLimit
                               /\ ~ RejectsLate(b) /\ ~ Race(b, LowLimit) /\ ~ Race(b, HighLimit)
      /\ Slow(b) => ~ (run["high"].result.verdict = "JE" /\ problem.interactive)
  BY <1>4 DEF Exempt, Slow
<1>7. ~ ReportsTwice(problem, b, LowLimit) /\ ~ ReportsTwice(problem, b, HighLimit)
  BY <1>1, <1>5, <1>6, TwiceIsRace DEF Raced
<1>8. PICK oh \in Outcomes(problem, b, fb, 1, HighLimit) : run["high"].result = oh.result
  BY <1>1, <1>3, <1>4, <1>7 DEF LastPass
<1>9. PICK ol \in Outcomes(problem, b, fb, 1, LowLimit) : run["low"].result = ol.result
  BY <1>1, <1>3, <1>4, <1>7 DEF LastPass
<1> HIDE DEF b, fb
<1>10. CASE InTime(problem, b)
  <2>1. oh = ol /\ ol.result.runtime <= LowLimit /\ ol.result \in Result
    BY <1>1, <1>2, <1>5, <1>10, SamePassInTime
  <2>. QED  BY <1>8, <1>9, <2>1, SameResult DEF Bargain
<1>11. CASE b.time > LowLimit /\ ~ problem.interactive
  <2>1. /\ oh.result \in Result /\ oh.result.runtime > LowLimit /\ oh.result.first = FALSE
        /\ ol.result.verdict = "TLE"
    <3>2. oh.result \in Result /\ oh.result.runtime > LowLimit /\ oh.result.first = FALSE
      <4>1. HighLimit \in Nat \ {0} /\ LowLimit <= HighLimit
        BY <1>1
      <4>2. problem \in Problem
        BY <1>2
      <4>. QED  BY <1>5, <1>11, <4>1, <4>2, SlowNormal
    <3>3. ol.result.verdict = "TLE"
      BY <1>2, <1>5, <1>11, SlowAtLow
    <3>. QED  BY <3>2, <3>3
  <2>2. Reclassify(oh.result, LowLimit).verdict = "TLE"
    BY <1>1, <2>1, SlowIsTLE
  <2>. QED  BY <1>8, <1>9, <2>1, <2>2 DEF Bargain
<1>12. CASE b.time > LowLimit /\ problem.interactive /\ ~ problem.builds
  <2>1. NotRunFacts(oh)
    BY <1>1, <1>2, <1>5, <1>12, NotBuiltIs
  <2>. QED  BY <1>8, <1>6, <1>12, <2>1 DEF NotRunFacts, Slow
<1>13. CASE b.time > LowLimit /\ problem.interactive /\ problem.builds
  <2>1. oh.result.verdict # "JE"
    BY <1>8, <1>6, <1>13 DEF Slow
  <2>2. b.validator = "reject" /\ First(b) /\ b.ends < WallLimit(HighLimit) =>
          b.ends < WallLimit(LowLimit)
    <3>1. b.ends < WallLimit(LowLimit) \/ WallLimit(LowLimit) < b.ends
      BY <1>1, <1>5, <1>6, <1>13, EndsTyped
    <3>. QED  BY <1>6, <1>13, <3>1 DEF RejectsLate
  <2>3. /\ Reclassify(oh.result, LowLimit).verdict = ol.result.verdict
        /\ ol.result.verdict # "AC"
    BY <1>1, <1>2, <1>5, <1>6, <1>13, <2>1, <2>2, SlowInteractive
  <2>. QED  BY <1>8, <1>9, <2>3 DEF Bargain
<1>14. b.time <= LowLimit \/ b.time > LowLimit
  BY <1>1, <1>4 DEF b
<1>15. InTime(problem, b) \/ b.time > LowLimit
  BY <1>1, <1>4, <1>6, <1>14 DEF InTime, b
<1>. QED  BY <1>2, <1>10, <1>11, <1>12, <1>13, <1>15

(* Several passes.  A run at the high limit that used more than the low    *)
(* limit is TLE at the low one.                                            *)
LEMMA SlowHighRun ==
  ASSUME IInv, Answered("high"), problem.multi_pass, ~ problem.interactive,
         run["high"].result.verdict # "JE",
         \/ run["high"].slowest > LowLimit
         \/ script[run["high"].pass].time > LowLimit
  PROVE  Reclassify(run["high"].result, LowLimit).verdict = "TLE"
<1> USE DEF IInv
<1>1. "high" \in Runs /\ Timelim("high") = HighLimit /\ LowLimit \in Nat
      /\ HighLimit \in Nat \ {0} /\ LowLimit <= HighLimit
  BY LimitsAssumption DEF Runs, Timelim
<1>2. PICK n : n = run["high"].pass
  OBVIOUS
<1>3. NewResult("JE").verdict = "JE"
  BY NewResultIs DEF Verdict
<1>4. n <= problem.passes
  BY <1>1, <1>2, <1>3 DEF OneRun
<1>5. /\ LastPass("high") /\ script[n] \in PassBehaviour /\ Before(script, n) \in Feedback
      /\ problem \in Problem /\ n \in Nat \ {0} /\ script[n].time \in Nat
  BY <1>1, <1>2, <1>4, LastPassIs
<1>6. PICK out \in Outcomes(problem, script[n], Before(script, n), n, HighLimit) :
        run["high"].result =
          [out.result EXCEPT !.runtime = Largest(run["high"].slowest, out.result.runtime)]
  BY <1>1, <1>2, <1>3, <1>5 DEF LastPass, ReportsTwice
<1>7. run["high"].slowest \in Nat
  BY <1>1, SlowestIs
<1>8. NormalFacts(problem, script[n], Before(script, n), n, HighLimit, out)
  BY <1>1, <1>5, NormalOutcome
<1>9. out.result \in Result /\ out.result.first = FALSE /\ out.result.runtime \in Nat
  BY <1>8 DEF NormalFacts
<1>10. script[n].time > LowLimit => out.result.runtime > LowLimit
  BY <1>1, <1>5, <1>6, SlowNormal
<1>11. /\ run["high"].result \in Result
       /\ run["high"].result.first = FALSE
       /\ run["high"].result.runtime = Largest(run["high"].slowest, out.result.runtime)
  BY <1>6, <1>7, <1>9, TimedIs
<1>12. run["high"].result.runtime > LowLimit
  BY <1>1, <1>2, <1>7, <1>9, <1>10, <1>11 DEF Largest
<1>. QED  BY <1>1, <1>11, <1>12, SlowIsTLE

(* A run at the low limit that exceeds it in its last pass.                *)
LEMMA SlowLowRun ==
  ASSUME IInv, Answered("low"), problem.multi_pass, ~ problem.interactive,
         run["low"].pass <= problem.passes,
         script[run["low"].pass].time > LowLimit
  PROVE  run["low"].result.verdict = "TLE"
<1> USE DEF IInv
<1>1. "low" \in Runs /\ Timelim("low") = LowLimit /\ LowLimit \in Nat \ {0}
  BY LimitsAssumption DEF Runs, Timelim
<1>2. PICK n : n = run["low"].pass
  OBVIOUS
<1>3. /\ LastPass("low") /\ script[n] \in PassBehaviour /\ Before(script, n) \in Feedback
      /\ problem \in Problem /\ n \in Nat \ {0}
  BY <1>1, <1>2, LastPassIs
<1>4. PICK out \in Outcomes(problem, script[n], Before(script, n), n, LowLimit) :
        \/ /\ ~ Exists(out.feedback.nextpass)
           /\ run["low"].result =
                [out.result EXCEPT !.runtime = Largest(run["low"].slowest, out.result.runtime)]
        \/ Exists(out.feedback.nextpass)
  BY <1>1, <1>2, <1>3 DEF LastPass, ReportsTwice
<1>5. out.result.verdict = "TLE" /\ out.feedback = Before(script, n) /\ out.result \in Result
  BY <1>1, <1>2, <1>3, SlowAtLow
<1>6. ~ Exists(out.feedback.nextpass)
  BY <1>5 DEF Before, Exists
<1>7. run["low"].slowest \in Int
  BY <1>1, SlowestIs
<1>. QED  BY ZenonT(30), <1>4, <1>5, <1>6, <1>7, TimedIs

LEMMA BargainOfSeveralPasses ==
  ASSUME IInv, Answered("high"), Answered("low"), ~ Exempt, problem.multi_pass
  PROVE  Bargain(run["high"].result, run["low"].result)
<1> USE DEF IInv
<1>1. "high" \in Runs /\ "low" \in Runs /\ Timelim("high") = HighLimit
      /\ Timelim("low") = LowLimit /\ LowLimit \in Nat \ {0} /\ HighLimit \in Nat \ {0}
      /\ LowLimit <= HighLimit
  BY LimitsAssumption DEF Runs, Timelim
<1>2. PICK h : h = run["high"].pass
  OBVIOUS
<1>3. PICK l : l = run["low"].pass
  OBVIOUS
<1>4. /\ problem.passes \in Nat /\ h \in Nat /\ l \in Nat
      /\ h \in 1 .. problem.passes + 1 /\ l \in 1 .. problem.passes + 1
      /\ problem \in Problem /\ problem.interactive \in BOOLEAN
  BY <1>1, <1>2, <1>3 DEF TypeOK, Problem, RunState, OneRun
<1>5. \A i \in DOMAIN script :
        /\ problem.interactive => /\ ~ Slow(script[i]) /\ ~ Overruns(script[i], LowLimit)
                                 /\ ~ Race(script[i], LowLimit) /\ ~ Race(script[i], HighLimit)
        /\ Slow(script[i]) => run["high"].result.verdict # "JE"
  BY DEF Exempt
<1>6. \A i \in DOMAIN script : script[i] \in PassBehaviour /\ script[i].time \in Nat
  <2>1. \A i \in DOMAIN script : script[i] \in PassBehaviour
    BY DEF TypeOK
  <2>. QED  BY <2>1 DEF PassBehaviour
<1>7. \A i \in DOMAIN script :
        \/ InTime(problem, script[i])
        \/ ~ problem.interactive /\ script[i].time > LowLimit
           /\ run["high"].result.verdict # "JE"
  BY <1>1, <1>4, <1>5, <1>6 DEF InTime, Slow
<1>8. \A i \in DOMAIN script :
        /\ ~ Raced(problem, script[i], LowLimit) /\ ~ Raced(problem, script[i], HighLimit)
        /\ ~ ReportsTwice(problem, script[i], LowLimit)
        /\ ~ ReportsTwice(problem, script[i], HighLimit)
  <2>1. \A i \in DOMAIN script :
          ~ Raced(problem, script[i], LowLimit) /\ ~ Raced(problem, script[i], HighLimit)
    BY <1>5 DEF Raced
  <2>. QED  BY <1>1, <1>6, <2>1, TwiceIsRace
<1>9. CASE h < l
  <2>1. h <= problem.passes /\ h \in 1 .. l - 1
    BY <1>4, <1>9
  <2>2. Passed(h, "low")
    BY <1>1, <1>3, <2>1, SlowestIs
  <2>3. h \in Nat \ {0} /\ script[h] \in PassBehaviour /\ script[h].time \in Nat
    BY <1>1, <1>2, <2>1, LastPassIs
  <2>4. Clean(problem, script[h], HighLimit)
    <3>1. Clean(problem, script[h], LowLimit)
      BY <1>1, <1>3, <1>8, <2>1, <2>2, SlowestIs DEF Passed
    <3>2. ~ Overruns(script[h], LowLimit) => ~ Overruns(script[h], HighLimit)
      BY <1>1, <2>3, OverrunsMonotone
    <3>. QED  BY <1>1, <2>3, <3>1, <3>2 DEF Clean
  <2>. QED  BY <1>1, <1>2, <2>1, <2>2, <2>4, GoesOn DEF Passed
<1>10. CASE l < h
  <2>1. l <= problem.passes /\ l \in 1 .. h - 1
    BY <1>4, <1>10
  <2>2. /\ Clean(problem, script[l], HighLimit) /\ Passed(l, "high") /\ l \in DOMAIN script
        /\ script[l].time <= run["high"].slowest
    <3>1. Passed(l, "high") /\ l \in DOMAIN script /\ SureTime(l, "high") <= run["high"].slowest
      BY <1>1, <1>2, <2>1, SlowestIs
    <3>. QED  BY <1>1, <1>8, <3>1 DEF Passed, SureTime
  <2>3. ~ InTime(problem, script[l])
    <3> SUFFICES ASSUME InTime(problem, script[l])
                 PROVE  FALSE
      OBVIOUS
    <3>1. Clean(problem, script[l], LowLimit)
      BY <2>2 DEF Clean, InTime
    <3>. QED  BY <1>1, <1>3, <2>1, <2>2, <3>1, GoesOn DEF Passed
  <2>4. ~ problem.interactive /\ script[l].time > LowLimit /\ run["high"].result.verdict # "JE"
    BY <1>7, <2>2, <2>3
  <2>5. run["high"].slowest > LowLimit
    <3>1. run["high"].slowest \in Nat /\ script[l].time \in Nat
      BY <1>1, <1>6, <2>2, SlowestIs
    <3>. QED  BY <1>1, <2>2, <2>4, <3>1
  <2>6. Reclassify(run["high"].result, LowLimit).verdict = "TLE"
    BY <2>4, <2>5, SlowHighRun
  <2>7. run["low"].result.verdict = "TLE"
    BY <1>3, <2>1, <2>4, SlowLowRun
  <2>. QED  BY <2>6, <2>7 DEF Bargain
<1>11. CASE l = h /\ h = problem.passes + 1
  <2>1. ~ (h <= problem.passes)
    BY <1>4, <1>11
  <2>2. run["high"].result = NewResult("JE") /\ run["low"].result = NewResult("JE")
    BY ZenonT(30), <1>1, <1>2, <1>3, <1>11, <2>1 DEF OneRun
  <2>3. NewResult("JE") \in Result /\ NewResult("JE").runtime = -1
    BY NewResultIs DEF Verdict
  <2>4. NewResult("JE").runtime <= LowLimit
    BY <1>1, <2>3
  <2>. QED  BY <2>2, <2>3, <2>4, SameResult DEF Bargain
<1>12. CASE l = h /\ h <= problem.passes
  <2>1. /\ LastPass("high") /\ LastPass("low") /\ h \in DOMAIN script /\ h \in Nat \ {0}
        /\ script[h] \in PassBehaviour /\ Before(script, h) \in Feedback /\ script[h].time \in Nat
    <3>1. /\ LastPass("high") /\ h \in 1 .. Len(script) /\ h \in Nat \ {0}
          /\ script[h] \in PassBehaviour /\ Before(script, h) \in Feedback
          /\ script[h].time \in Nat /\ script \in Seq(PassBehaviour)
      BY <1>1, <1>2, <1>12, LastPassIs
    <3>2. LastPass("low")
      BY <1>1, <1>3, <1>12, LastPassIs
    <3>. QED  BY <3>1, <3>2
  <2>2. CASE ~ InTime(problem, script[h])
    <3>1. ~ problem.interactive /\ script[h].time > LowLimit /\ run["high"].result.verdict # "JE"
      BY <1>7, <2>1, <2>2
    <3>2. Reclassify(run["high"].result, LowLimit).verdict = "TLE"
      BY <1>2, <3>1, SlowHighRun
    <3>3. run["low"].result.verdict = "TLE"
      BY <1>3, <1>12, <3>1, SlowLowRun
    <3>. QED  BY <3>2, <3>3 DEF Bargain
  <2>3. CASE InTime(problem, script[h])
    <3> DEFINE b == script[h]
               fb == Before(script, h)
    <3>1. PICK oh \in Outcomes(problem, b, fb, h, HighLimit) :
            \/ /\ ~ Exists(oh.feedback.nextpass)
               /\ run["high"].result =
                    [oh.result EXCEPT !.runtime = Largest(run["high"].slowest, oh.result.runtime)]
            \/ Exists(oh.feedback.nextpass) /\ run["high"].result = NewResult("JE")
      BY <1>1, <1>2, <1>12, <1>8, <2>1 DEF LastPass
    <3>2. PICK ol \in Outcomes(problem, b, fb, h, LowLimit) :
            \/ /\ ~ Exists(ol.feedback.nextpass)
               /\ run["low"].result =
                    [ol.result EXCEPT !.runtime = Largest(run["low"].slowest, ol.result.runtime)]
            \/ Exists(ol.feedback.nextpass) /\ run["low"].result = NewResult("JE")
      BY <1>1, <1>3, <1>12, <1>8, <2>1 DEF LastPass
    <3>3. oh = ol /\ ol.result.runtime <= LowLimit /\ ol.result \in Result
      BY <1>1, <1>4, <2>1, <2>3, SamePassInTime
    <3>4. CASE Exists(ol.feedback.nextpass)
      <4>1. run["high"].result = NewResult("JE") /\ run["low"].result = NewResult("JE")
        BY <3>1, <3>2, <3>3, <3>4
      <4>2. NewResult("JE") \in Result /\ NewResult("JE").runtime = -1
        BY NewResultIs DEF Verdict
      <4>3. NewResult("JE").runtime <= LowLimit
        BY <1>1, <4>2
      <4>. QED  BY <4>1, <4>2, <4>3, SameResult DEF Bargain
    <3>5. CASE ~ Exists(ol.feedback.nextpass)
      <4>1. run["high"].slowest \in Nat /\ run["low"].slowest \in Nat
        BY <1>1, SlowestIs
      <4>2. run["high"].slowest <= LowLimit
        <5>1. \A i \in 1 .. h - 1 : Passed(i, "low") /\ i \in DOMAIN script
          BY <1>1, <1>3, <1>12, SlowestIs
        <5>2. \A i \in 1 .. h - 1 : script[i].time <= LowLimit
          BY <1>1, <1>8, <5>1 DEF Passed, Clean
        <5>. QED  BY <1>1, <1>2, <5>2, SlowestIs
      <4>3. /\ run["high"].result \in Result
            /\ run["high"].result.verdict = ol.result.verdict
            /\ run["high"].result.score = ol.result.score
            /\ run["high"].result.runtime = Largest(run["high"].slowest, ol.result.runtime)
        <5>1. run["high"].result =
                [ol.result EXCEPT !.runtime = Largest(run["high"].slowest, ol.result.runtime)]
          BY <3>1, <3>3, <3>5, Zenon
        <5>. QED  BY <3>3, <4>1, <5>1, TimedIs
      <4>4. /\ run["low"].result.verdict = ol.result.verdict
            /\ run["low"].result.score = ol.result.score
        <5>1. run["low"].result =
                [ol.result EXCEPT !.runtime = Largest(run["low"].slowest, ol.result.runtime)]
          BY <3>2, <3>5, Zenon
        <5>. QED  BY <3>3, <4>1, <5>1, TimedIs
      <4>5. run["high"].result.runtime <= LowLimit
        BY <1>1, <3>3, <4>1, <4>2, <4>3 DEF Largest
      <4>. QED  BY <4>3, <4>4, <4>5, SameResult DEF Bargain
    <3>. QED  BY <3>4, <3>5
  <2>. QED  BY <2>2, <2>3
<1>13. h < l \/ l < h \/ (l = h /\ h = problem.passes + 1) \/ (l = h /\ h <= problem.passes)
  BY <1>4
<1>. QED  BY <1>9, <1>10, <1>11, <1>12, <1>13

(* The store's bargain, for every problem, every pair of limits and        *)
(* whatever submission and validator do in any number of passes: the       *)
(* result of a run at the high limit, read at the low one, has the verdict *)
(* and the score of a run at the low limit.  Exempt names where it need    *)
(* not: in an interactive problem a submission or a validator cut off at   *)
(* the wall-time limit though the submission kept to the low limit, a      *)
(* rejection that comes between the two wall-time limits, and ends that    *)
(* race the alarm; and after a pass over the low limit judge errors, and   *)
(* all that follows in an interactive problem of several passes.           *)
THEOREM HighRunSpeaks == Spec => []HighRunSpeaksForLow
<1>1. IInv => HighRunSpeaksForLow
  <2> SUFFICES ASSUME IInv, Answered("high"), Answered("low"), ~ Exempt
               PROVE  Bargain(run["high"].result, run["low"].result)
    BY DEF HighRunSpeaksForLow, Bargain
  <2>. QED  BY BargainOfOnePass, BargainOfSeveralPasses
<1>. QED  BY <1>1, ExecuteInvariant, PTL

(* The score of an accepted run is the one written last.                   *)
THEOREM ScoresAreCurrent == Spec => []ScoreIsLastWritten
<1>1. IInv => ScoreIsLastWritten
  <2> SUFFICES ASSUME IInv, NEW x \in Runs, run[x].result.verdict = "AC"
               PROVE  /\ run[x].result.score = LastScore(x)
                      /\ (run[x].result.score = NoScore) => problem.custom_score # "mandatory"
                      /\ (run[x].result.score # NoScore) => problem.custom_score # "no"
    BY DEF ScoreIsLastWritten
  <2> USE DEF IInv
  <2>1. NewResult("JE").verdict = "JE"
    BY NewResultIs DEF Verdict
  <2>2. Answered(x)
    BY DEF Answered, Pending
  <2>3. PICK n : n = run[x].pass
    OBVIOUS
  <2>4. n <= problem.passes
    BY <2>1, <2>2, <2>3 DEF OneRun
  <2>5. /\ LastPass(x) /\ n \in 1 .. Len(script) /\ n \in Nat \ {0}
        /\ script[n] \in PassBehaviour /\ Before(script, n) \in Feedback
        /\ problem \in Problem /\ script \in Seq(PassBehaviour) /\ Timelim(x) \in Nat \ {0}
    BY <2>2, <2>3, <2>4, LastPassIs, LimitsTyped
  <2>6. PICK out \in Outcomes(problem, script[n], Before(script, n), n, Timelim(x)) :
          \/ ~ problem.multi_pass /\ run[x].result = out.result
          \/ /\ ~ Exists(out.feedback.nextpass)
             /\ run[x].result =
                  [out.result EXCEPT !.runtime = Largest(run[x].slowest, out.result.runtime)]
    BY <2>1, <2>3, <2>5 DEF LastPass
  <2>7. out.result \in Result
    BY <2>5, PassTyped
  <2>8. run[x].result.verdict = out.result.verdict /\ run[x].result.score = out.result.score
    <3>1. run[x].slowest \in Int
      BY SlowestIs
    <3>2. CASE run[x].result = out.result
      BY <3>2
    <3>3. CASE run[x].result =
                 [out.result EXCEPT !.runtime = Largest(run[x].slowest, out.result.runtime)]
      BY <2>7, <3>1, <3>3, TimedIs
    <3>. QED  BY <2>6, <3>2, <3>3
  <2>9. /\ out.feedback = Written(script[n], Before(script, n), n)
        /\ ParseAccept(problem, out.feedback).verdict = "AC"
        /\ out.result.score = ParseAccept(problem, out.feedback).score
    BY <2>5, <2>8, AcceptedPass
  <2>10. out.feedback.score = ScoreAfter(script, n) /\ out.feedback \in Feedback
    <3>1. out.feedback = [score |-> ScoreAfter(script, n),
                          nextpass |-> IF script[n].next THEN n ELSE NoFile]
      BY <2>5, <2>9, WrittenAfter
    <3>2. out.feedback \in Feedback
      BY <2>5, <2>9, WrittenTyped
    <3>. QED  BY <3>1, <3>2
  <2>11. ~ (problem.multi_pass /\ Exists(out.feedback.nextpass))
    BY <2>6
  <2>12. \/ /\ ScoreAfter(script, n) = NoFile /\ out.result.score = NoScore
            /\ problem.custom_score # "mandatory"
         \/ /\ ScoreAfter(script, n) \in Int /\ out.result.score = ScoreAfter(script, n)
            /\ problem.custom_score # "no"
    BY <2>5, <2>9, <2>10, <2>11, AcceptTyped
  <2>13. LastScore(x) = IF ScoreAfter(script, n) = NoFile THEN NoScore ELSE ScoreAfter(script, n)
    <3>1. /\ LastScore(x) = IF WrittenBy(script, n) = {} THEN NoScore
                            ELSE script[Highest(WrittenBy(script, n))].score
          /\ ScoreAfter(script, n) = IF WrittenBy(script, n) = {} THEN NoFile
                            ELSE script[Highest(WrittenBy(script, n))].score
      BY <2>3 DEF LastScore, WrittenBy, ScoreAfter, Highest
    <3>2. ScoreAfter(script, n) = NoFile <=> WrittenBy(script, n) = {}
      BY <2>5, ScoreOfNext
    <3>. QED  BY <3>1, <3>2
  <2>. QED  BY <2>8, <2>12, <2>13, FilesAssumption, NoScoreAssumption
<1>. QED  BY <1>1, ExecuteInvariant, PTL

(* nextpass.in is held against the validator of this pass, and only if it  *)
(* did not accept, wrote a bad score, or the submission was cut off.       *)
THEOREM BlameDeserved == Spec => []BlameIsDeserved
<1>1. IInv => BlameIsDeserved
  <2> SUFFICES ASSUME IInv, NEW x \in Runs, problem.multi_pass, Answered(x),
                      run[x].pass <= problem.passes, Exists(run[x].feedback.nextpass)
               PROVE  LET b == script[run[x].pass]
                      IN  /\ run[x].feedback.nextpass = run[x].pass
                          /\ \/ b.validator # "accept"
                             \/ ParseAccept(problem, run[x].feedback).verdict # "AC"
                             \/ /\ problem.interactive
                                /\ b.time > Timelim(x) \/ ~ b.exits_ok \/ Overruns(b, Timelim(x))
    BY DEF BlameIsDeserved
  <2> USE DEF IInv
  <2>1. PICK n : n = run[x].pass
    OBVIOUS
  <2>2. /\ LastPass(x) /\ n \in 1 .. Len(script) /\ n \in Nat \ {0}
        /\ script[n] \in PassBehaviour /\ Before(script, n) \in Feedback
        /\ problem \in Problem /\ script \in Seq(PassBehaviour) /\ Timelim(x) \in Nat \ {0}
    BY <2>1, LastPassIs, LimitsTyped
  <2>3. PICK out \in Outcomes(problem, script[n], Before(script, n), n, Timelim(x)) :
          /\ run[x].feedback = out.feedback
          /\ \/ out.result.verdict # "AC"
             \/ ReportsTwice(problem, script[n], Timelim(x))
    BY <2>1, <2>2 DEF LastPass
  <2>4. out.feedback \in {Before(script, n), Written(script[n], Before(script, n), n)}
    BY <2>2, PassTyped
  <2>5. out.feedback = Written(script[n], Before(script, n), n)
    BY <2>3, <2>4 DEF Before, Exists
  <2>6. out.feedback.nextpass = n
    <3>1. out.feedback = [score |-> ScoreAfter(script, n),
                          nextpass |-> IF script[n].next THEN n ELSE NoFile]
      BY <2>2, <2>5, WrittenAfter
    <3>. QED  BY <2>3, <3>1 DEF Exists
  <2> DEFINE b == script[n]
  <2>7. out.feedback # Before(script, n)
    BY <2>6, <2>2, FilesAssumption DEF Before
  <2>8. /\ b.time \in Nat /\ b.exits_ok \in BOOLEAN /\ b.output_ok \in BOOLEAN
        /\ problem.interactive \in BOOLEAN /\ problem.builds \in BOOLEAN
    BY <2>2 DEF PassBehaviour, Problem
  <2>9. ASSUME b.validator = "accept",
               ~ (/\ problem.interactive
                  /\ b.time > Timelim(x) \/ ~ b.exits_ok \/ Overruns(b, Timelim(x)))
        PROVE  Clean(problem, b, Timelim(x))
    <3>1. CASE problem.interactive
      <4>1. problem.builds
        <5> SUFFICES ASSUME ~ problem.builds
                     PROVE  FALSE
          OBVIOUS
        <5>1. out.feedback = Before(script, n)
          BY <2>2, <3>1, NotBuiltIs
        <5>. QED  BY <2>7, <5>1
      <4>2. b.time <= Timelim(x)
        BY <2>2, <2>8, <2>9, <3>1
      <4>. QED  BY <2>9, <3>1, <4>1, <4>2 DEF Clean
    <3>2. CASE ~ problem.interactive
      <4>1. NormalFacts(problem, b, Before(script, n), n, Timelim(x), out)
        BY <2>2, <3>2, NormalOutcome
      <4>2. b.time <= Timelim(x) /\ b.exits_ok
        BY <2>2, <2>7, <2>8, <4>1 DEF NormalFacts
      <4>3. ValidateOutput(problem, b, Before(script, n), n).feedback = out.feedback
        BY <4>1, <4>2 DEF NormalFacts
      <4>4. b.output_ok /\ problem.builds
        BY <2>7, <4>3 DEF ValidateOutput
      <4>. QED  BY <2>9, <3>2, <4>2, <4>4 DEF Clean
    <3>. QED  BY <2>8, <3>1, <3>2
  <2>10. Clean(problem, b, Timelim(x)) => ParseAccept(problem, out.feedback).verdict # "AC"
    BY <2>2, <2>3, CleanPass, TwiceIsRace
  <2>. QED  BY <2>1, <2>3, <2>6, <2>9, <2>10
<1>. QED  BY <1>1, ExecuteInvariant, PTL

-----------------------------------------------------------------------------
(* Only in an interactive problem can the validator exit first.            *)
Quiet == \A i \in 1 .. Len(script) : problem.interactive \/ ~ First(script[i])

LEMMA QuietStep == IInv /\ Quiet /\ [Next]_vars => Quiet'
<1> SUFFICES ASSUME IInv, Quiet, [Next]_vars
             PROVE  Quiet'
  OBVIOUS
<1>1. script \in Seq(PassBehaviour) /\ Len(script) \in Nat
  BY DEF IInv, TypeOK
<1>2. CASE UNCHANGED vars
  BY <1>2 DEF vars, Quiet
<1>3. ASSUME NEW x \in Runs, TooManyPasses(x)
      PROVE  Quiet'
  BY <1>3 DEF TooManyPasses, Quiet
<1>4. ASSUME NEW x \in Runs, RunPass(x)
      PROVE  Quiet'
  <2>1. PICK b \in NextBehaviours(x) :
          script' = IF run[x].pass <= Len(script) THEN script ELSE Append(script, b)
    BY <1>4 DEF RunPass
  <2>2. problem' = problem
    BY <1>4 DEF RunPass
  <2>3. CASE run[x].pass <= Len(script)
    BY <2>1, <2>2, <2>3 DEF Quiet
  <2>4. CASE ~ (run[x].pass <= Len(script))
    <3>1. b \in PassBehaviour /\ (problem.interactive \/ ~ First(b))
      <4>1. b \in PassBehaviour /\ (problem.interactive \/ (b.idle = 0 /\ b.ends = b.time))
        BY <2>4, InputsAssumption DEF NextBehaviours
      <4>2. b.time \in Nat
        BY <4>1 DEF PassBehaviour
      <4>. QED  BY <4>1, <4>2 DEF First, SubEnds
    <3>2. script' = Append(script, b)
      BY <2>1, <2>4
    <3>3. /\ Len(script') = Len(script) + 1 /\ script'[Len(script) + 1] = b
          /\ \A i \in 1 .. Len(script) : script'[i] = script[i]
      BY <1>1, <3>1, <3>2
    <3>. QED  BY <1>1, <2>2, <3>1, <3>3 DEF Quiet
  <2>. QED  BY <2>3, <2>4
<1>. QED  BY <1>2, <1>3, <1>4 DEF Next

LEMMA ParseSingle ==
  ASSUME NEW p \in Problem, NEW v \in {"accept", "reject", "fail"}, NEW fb \in Feedback
  PROVE  /\ ParseValidatorResult(p, v, fb).verdict \in {"AC", "WA", "JE"}
         /\ ParseValidatorResult(p, v, fb).verdict # "AC" =>
              ParseValidatorResult(p, v, fb).score = NoScore
         /\ ParseValidatorResult(p, v, fb).verdict = "WA" => v = "reject"
         /\ v = "fail" => ParseValidatorResult(p, v, fb).verdict = "JE"
         /\ v = "reject" => ParseValidatorResult(p, v, fb).verdict \in {"WA", "JE"}
<1>1. \A u \in {"JE", "WA"} : NewResult(u).verdict = u /\ NewResult(u).score = NoScore
  BY NewResultIs DEF Verdict
<1>2. CASE v = "accept"
  <2>1. ParseValidatorResult(p, v, fb) = ParseAccept(p, fb)
    BY <1>2, ParseTyped
  <2>2. /\ ParseAccept(p, fb).verdict \in {"AC", "JE"}
        /\ ParseAccept(p, fb).verdict = "JE" => ParseAccept(p, fb).score = NoScore
    BY AcceptTyped
  <2>. QED  BY <1>2, <2>1, <2>2
<1>3. CASE v # "accept"
  BY <1>1, <1>3, ParseTyped
<1>. QED  BY <1>2, <1>3

LEMMA DirectIs ==
  ASSUME NEW a, NEW limit
  PROVE  LET d == Direct(a, limit)
         IN  /\ d.first = a.first
             /\ ValidatorDecides(a) =>
                  d.verdict = a.verdict /\ d.runtime = Least(a.time, limit) /\ d.score = NoScore
             /\ ~ ValidatorDecides(a) /\ a.time > limit =>
                  d.verdict = "TLE" /\ d.runtime = a.time /\ d.score = NoScore
             /\ ~ ValidatorDecides(a) /\ ~ (a.time > limit) =>
                  d.verdict = a.verdict /\ d.runtime = a.time /\ d.score = a.score
BY DEF Direct

AsFacts(a, b, parsed) ==
  LET decided == problem.interactive /\ Decides(b)
  IN  /\ a.time = b.time /\ a.first = First(b) /\ a.crash = decided
      /\ a.score = IF a.verdict = "AC" THEN parsed.score ELSE NoScore
      /\ decided => a.verdict = parsed.verdict
      /\ ~ decided /\ ~ b.exits_ok => a.verdict = "RTE"
      /\ ~ decided /\ b.exits_ok /\ ~ b.output_ok /\ ~ problem.interactive => a.verdict = "OLE"
      /\ ~ decided /\ b.exits_ok /\ (b.output_ok \/ problem.interactive) =>
           a.verdict = parsed.verdict

LEMMA AsBehaviourIs ==
  ASSUME NEW b
  PROVE  AsFacts(AsBehaviour(b), b,
                 ParseValidatorResult(problem, b.validator, Written(b, Before(script, 1), 1)))
<1>1. Before(script, 1) = [score |-> NoFile, nextpass |-> NoFile]
  BY DEF Before, ScoreAfter, WrittenBy
<1>. QED  BY <1>1 DEF AsBehaviour, AsFacts

(* The two results agree as far as the rest of the judge is concerned.     *)
SameAs(r, d, limit) ==
  /\ r.verdict = d.verdict /\ r.score = d.score
  /\ r.verdict = "WA" => r.first = d.first
  /\ Least(r.runtime, limit + 1) = Least(d.runtime, limit + 1)

LEMMA DirectNormal ==
  ASSUME problem \in Problem, NEW b \in PassBehaviour, NEW limit \in Nat \ {0},
         ~ problem.interactive, problem.builds, ~ First(b), Before(script, 1) \in Feedback,
         NEW out \in Outcomes(problem, b, Before(script, 1), 1, limit)
  PROVE  SameAs(out.result, Direct(AsBehaviour(b), limit), limit)
<1> DEFINE fb == Before(script, 1)
           parsed == ParseValidatorResult(problem, b.validator, Written(b, fb, 1))
           a == AsBehaviour(b)
           d == Direct(a, limit)
<1>1. AsFacts(a, b, parsed)
  BY AsBehaviourIs
<1>2. NormalFacts(problem, b, fb, 1, limit, out)
  BY NormalOutcome
<1>3. b.time \in Nat /\ b.exits_ok \in BOOLEAN /\ b.validator \in {"accept", "reject", "fail"}
      /\ b.output_ok \in BOOLEAN
  BY DEF PassBehaviour
<1>4. parsed.verdict # "AC" => parsed.score = NoScore
  BY <1>3, WrittenTyped, ParseSingle
<1>5. ~ ValidatorDecides(a)
  BY <1>1 DEF AsFacts, ValidatorDecides
<1>6. /\ d.first = FALSE
      /\ b.time > limit => d.verdict = "TLE" /\ d.runtime = b.time /\ d.score = NoScore
      /\ b.time <= limit => d.verdict = a.verdict /\ d.runtime = b.time /\ d.score = a.score
  <2>1. a.time = b.time /\ a.first = FALSE
    <3>1. First(b) = FALSE
      BY EndsTyped
    <3>. QED  BY <1>1, <3>1, Zenon DEF AsFacts
  <2>. QED  BY <1>3, <1>5, <2>1, DirectIs
<1>7. /\ ~ b.output_ok => /\ ValidateOutput(problem, b, fb, 1).result.verdict = "OLE"
                          /\ ValidateOutput(problem, b, fb, 1).result.score = NoScore
      /\ b.output_ok => ValidateOutput(problem, b, fb, 1).result = parsed
  BY NewResultIs DEF ValidateOutput, Verdict
<1> HIDE DEF fb, parsed, a, d
<1>8. CASE b.time > limit
  BY <1>2, <1>3, <1>6, <1>8 DEF NormalFacts, SameAs, Least, d, a
<1>9. CASE b.time <= limit
  <2>1. out.result.runtime = b.time /\ d.runtime = b.time /\ out.result.first = d.first
    BY <1>2, <1>6, <1>9 DEF NormalFacts
  <2>2. out.result.verdict = d.verdict /\ out.result.score = d.score
    BY <1>1, <1>2, <1>3, <1>4, <1>6, <1>7, <1>9 DEF NormalFacts, AsFacts, fb
  <2>. QED  BY <2>1, <2>2 DEF SameAs, d, a
<1>. QED  BY <1>3, <1>8, <1>9

LEMMA DirectInteractive ==
  ASSUME problem \in Problem, NEW b \in PassBehaviour, NEW limit \in Nat \ {0},
         problem.interactive, problem.builds, ~ CutShort(b, limit),
         Before(script, 1) \in Feedback,
         NEW out \in Outcomes(problem, b, Before(script, 1), 1, limit)
  PROVE  SameAs(out.result, Direct(AsBehaviour(b), limit), limit)
<1> DEFINE fb == Before(script, 1)
           parsed == ParseValidatorResult(problem, b.validator, Written(b, fb, 1))
           a == AsBehaviour(b)
           d == Direct(a, limit)
<1>1. AsFacts(a, b, parsed)
  BY AsBehaviourIs
<1>2. /\ b.time \in Nat /\ b.ends \in Nat /\ b.exits_ok \in BOOLEAN
      /\ b.validator \in {"accept", "reject", "fail"}
      /\ SubEnds(b) \in Nat /\ First(b) \in BOOLEAN
      /\ WallLimit(limit) \in Nat /\ WallLimit(limit) > limit
  BY EndsTyped, KillsComeLater
<1>3. /\ ~ Race(b, limit)
      /\ SubEnds(b) < WallLimit(limit) \/ (WallLimit(limit) < SubEnds(b) /\ b.time > limit)
      /\ b.time <= limit => SubEnds(b) < WallLimit(limit) /\ b.ends < WallLimit(limit)
      /\ Decides(b) => b.ends < WallLimit(limit)
  <2>1. ~ Race(b, limit) /\ (Overruns(b, limit) => ~ (b.time <= limit))
        /\ (Decides(b) => ~ (WallLimit(limit) < b.ends))
    BY DEF CutShort
  <2>. QED  BY <1>2, <2>1, EndsTyped
<1>4. InteractiveFacts(problem, b, fb, 1, limit, out)
  BY InteractiveIs
<1>5. ~ ReportsTwice(problem, b, limit)
  BY <1>3, TwiceIsRace DEF Raced
<1>6. PICK val \in Seen(b.ends, limit) : \E rep \in Reports(b, limit, val) :
        /\ out.feedback = Written(b, fb, 1) \/ (val # "ended" /\ out.feedback = fb)
        /\ RunFacts(problem, rep, out.feedback, limit, out)
  BY <1>4, <1>5, Zenon DEF InteractiveFacts
<1>7. PICK rep \in Reports(b, limit, val) :
        /\ out.feedback = Written(b, fb, 1) \/ (val # "ended" /\ out.feedback = fb)
        /\ RunFacts(problem, rep, out.feedback, limit, out)
  BY <1>6
<1> DEFINE raw == Raw(problem, rep, out.feedback, limit)
<1>8. /\ out.result.verdict = raw.verdict /\ out.result.score = raw.score
      /\ out.result.first = rep.first
      /\ out.result.runtime = IF Decided(rep) THEN Least(rep.time, limit) ELSE rep.time
  BY <1>7 DEF RunFacts, ToldTime
<1>9. /\ val = "ended" <=> b.ends < WallLimit(limit)
      /\ rep.validator = IF val = "ended" THEN b.validator ELSE "reject"
      /\ rep.first \in BOOLEAN /\ (rep.first <=> First(b) /\ val = "ended")
  BY <1>3, ReportTyped, Zenon
<1>10. val = "ended" => /\ rep.validator = b.validator /\ out.feedback = Written(b, fb, 1)
                        /\ rep.first = First(b)
  <2>1. val = "ended" => rep.validator = b.validator /\ out.feedback = Written(b, fb, 1)
    BY <1>7, <1>9
  <2>2. val = "ended" => rep.first = First(b)
    BY <1>2, <1>9, Zenon
  <2>. QED  BY <2>1, <2>2, Zenon
<1>11. /\ rep.time \in Nat
       /\ SubEnds(b) < WallLimit(limit) => rep.status = Ended(b) /\ rep.time = b.time
       /\ b.time > limit => IsTLE(rep, limit) /\ rep.time > limit
  BY <1>3, ReportTyped, ReportTLE
<1>12. Decides(b) => val = "ended" /\ Decided(rep)
  <2>1. Decides(b) => val = "ended"
    BY <1>3, <1>9
  <2>. QED  BY <1>10, <2>1, Zenon DEF Decides, Decided
<1>13. ~ Decides(b) => ~ Decided(rep)
  <2>1. CASE val = "ended"
    BY <1>10, <2>1, Zenon DEF Decides, Decided
  <2>2. CASE val # "ended"
    <3>1. rep.validator = "reject" /\ ~ rep.first
      BY <1>9, <2>2, Zenon
    <3>. QED  BY <3>1 DEF Decided
  <2>. QED  BY <2>1, <2>2
<1>14. /\ parsed.verdict \in {"AC", "WA", "JE"}
       /\ parsed.verdict # "AC" => parsed.score = NoScore
       /\ parsed.verdict = "WA" => b.validator = "reject"
       /\ Decides(b) => parsed.verdict \in {"WA", "JE"}
       /\ b.validator = "fail" => parsed.verdict = "JE"
  <2>1. Written(b, fb, 1) \in Feedback
    BY WrittenTyped
  <2>2. /\ parsed.verdict \in {"AC", "WA", "JE"}
        /\ parsed.verdict # "AC" => parsed.score = NoScore
        /\ parsed.verdict = "WA" => b.validator = "reject"
        /\ b.validator = "fail" => parsed.verdict = "JE"
        /\ b.validator = "reject" => parsed.verdict \in {"WA", "JE"}
    BY <1>2, <2>1, ParseSingle
  <2> HIDE DEF parsed
  <2>. QED  BY <2>2 DEF Decides
<1>15. a.time = b.time /\ a.first = First(b) /\ a.crash = Decides(b)
  <2>1. (problem.interactive /\ Decides(b)) = Decides(b)
    BY Zenon DEF Decides
  <2>. QED  BY <1>1, <2>1, Zenon DEF AsFacts
<1>16. d.first = First(b)
  BY <1>15, DirectIs
<1>17. /\ NewResult("TLE").verdict = "TLE" /\ NewResult("TLE").score = NoScore
       /\ NewResult("RTE").verdict = "RTE" /\ NewResult("RTE").score = NoScore
  BY NewResultIs DEF Verdict
<1>18. CASE Decides(b)
  <2>1. rep.validator = b.validator /\ out.feedback = Written(b, fb, 1) /\ rep.first = First(b)
    BY <1>10, <1>12, <1>18
  <2>2. raw = parsed
    BY <1>12, <1>18, <2>1 DEF Raw
  <2>3. a.verdict = parsed.verdict
    BY <1>1, <1>18, Zenon DEF AsFacts
  <2>4. ValidatorDecides(a)
    <3>1. a.crash
      BY <1>15, <1>18, Zenon
    <3>2. a.verdict = "WA" => a.first
      <4>1. a.verdict = "WA" => b.validator = "reject"
        BY <1>14, <2>3
      <4>2. a.verdict = "WA" => First(b)
        BY <1>18, <4>1 DEF Decides
      <4>. QED  BY <1>15, <4>2, Zenon
    <3>3. a.verdict \in {"WA", "JE"}
      BY <1>14, <1>18, <2>3
    <3>. QED  BY <3>1, <3>2, <3>3, Zenon DEF ValidatorDecides
  <2>5. d.verdict = parsed.verdict /\ d.score = NoScore /\ d.runtime = Least(b.time, limit)
    BY <1>15, <2>3, <2>4, DirectIs
  <2>6. Least(rep.time, limit) = Least(b.time, limit)
    BY <1>2, <1>3, <1>11 DEF Least
  <2>7. parsed.score = NoScore
    BY <1>14, <1>18
  <2> HIDE DEF raw, parsed, d, a
  <2>8. /\ out.result.verdict = d.verdict /\ out.result.score = d.score
        /\ out.result.first = d.first /\ out.result.runtime = d.runtime
    BY <1>8, <1>12, <1>16, <1>18, <2>1, <2>2, <2>5, <2>6, <2>7, Zenon
  <2>. QED  BY <2>8 DEF SameAs, d, a
<1>19. CASE ~ Decides(b)
  <2>1. ~ Decided(rep)
    BY <1>13, <1>19
  <2>2. /\ ~ b.exits_ok => a.verdict = "RTE"
        /\ b.exits_ok => a.verdict = parsed.verdict
        /\ a.score = IF a.verdict = "AC" THEN parsed.score ELSE NoScore
    BY <1>1, <1>19, Zenon DEF AsFacts
  <2>3. ~ ValidatorDecides(a)
    <3>1. ~ a.crash
      BY <1>15, <1>19, Zenon
    <3>2. ~ (a.verdict = "WA" /\ a.first)
      <4>1. a.verdict = "WA" => b.validator = "reject"
        BY <1>2, <1>14, <2>2
      <4>2. a.verdict = "WA" => ~ First(b)
        BY <1>19, <4>1 DEF Decides
      <4>. QED  BY <1>15, <4>2, Zenon
    <3>. QED  BY <3>1, <3>2, Zenon DEF ValidatorDecides
  <2>4. /\ b.time > limit => d.verdict = "TLE" /\ d.runtime = b.time /\ d.score = NoScore
        /\ ~ (b.time > limit) => d.verdict = a.verdict /\ d.runtime = b.time /\ d.score = a.score
    BY <1>15, <2>3, DirectIs
  <2>5. out.result.runtime = rep.time
    BY <1>8, <2>1
  <2>6. CASE b.time > limit
    <3>1. raw = NewResult("TLE") /\ rep.time > limit
      BY <1>11, <2>1, <2>6 DEF Raw
    <3> HIDE DEF raw, d, a
    <3>2. out.result.verdict = "TLE" /\ out.result.score = NoScore
      BY <1>8, <1>17, <3>1
    <3>3. Least(rep.time, limit + 1) = limit + 1 /\ Least(b.time, limit + 1) = limit + 1
      BY <1>2, <1>11, <2>6, <3>1 DEF Least
    <3>. QED  BY <2>4, <2>5, <2>6, <3>2, <3>3 DEF SameAs, d, a
  <2>7. CASE ~ (b.time > limit)
    <3>1. val = "ended" /\ SubEnds(b) < WallLimit(limit)
      BY <1>2, <1>3, <1>9, <2>7
    <3>2. out.feedback = Written(b, fb, 1) /\ rep.validator = b.validator
          /\ rep.first = First(b) /\ rep.time = b.time /\ rep.status = Ended(b)
      BY <1>10, <1>11, <3>1
    <3>3. ~ IsTLE(rep, limit) /\ (rep.status = "failed" <=> ~ b.exits_ok)
      BY <1>2, <2>7, <3>2 DEF IsTLE, Ended
    <3>4. raw = IF b.exits_ok THEN parsed ELSE NewResult("RTE")
      BY <2>1, <3>2, <3>3 DEF Raw
    <3> HIDE DEF parsed, raw, d, a
    <3>5. out.result.verdict = d.verdict /\ out.result.score = d.score
      BY <1>2, <1>8, <1>14, <1>17, <2>2, <2>4, <2>7, <3>4
    <3>6. out.result.first = d.first /\ out.result.runtime = d.runtime
      BY <1>8, <1>16, <2>4, <2>5, <2>7, <3>2, Zenon
    <3>. QED  BY <3>5, <3>6 DEF SameAs, d, a
  <2>. QED  BY <2>6, <2>7
<1>. QED  BY <1>18, <1>19

(* One execution as the rest of the judge sees it: what Direct of module   *)
(* SubmissionResult gives, for every single-pass problem, unless the wall- *)
(* time limit of an interactive problem cuts off a submission within its   *)
(* limit, a validator that is slow to answer it, or one that would have    *)
(* decided, or a program ends just as the alarm rings (CutShort).          *)
THEOREM DirectIsRight == Spec => []SinglePassIsDirect
<1>1. Init => Quiet
  BY DEF Init, Quiet
<1>2. IInv /\ Quiet => SinglePassIsDirect
  <2> SUFFICES ASSUME IInv, Quiet, NEW x \in Runs, ~ problem.multi_pass, problem.builds,
                      Answered(x), ~ (problem.interactive /\ CutShort(script[1], Timelim(x)))
               PROVE  SameAs(run[x].result, Direct(AsBehaviour(script[1]), Timelim(x)),
                             Timelim(x))
    BY DEF SinglePassIsDirect, SameAs
  <2> USE DEF IInv
  <2>1. run[x].pass = 1 /\ problem.passes \in Nat /\ 1 <= problem.passes
    BY DEF OneRun, TypeOK, Problem
  <2>2. /\ LastPass(x) /\ 1 \in 1 .. Len(script) /\ script[1] \in PassBehaviour
        /\ Before(script, 1) \in Feedback /\ problem \in Problem
        /\ Timelim(x) \in Nat \ {0} /\ problem.interactive \in BOOLEAN
    BY <2>1, LastPassIs, LimitsTyped DEF Problem
  <2>3. PICK out \in Outcomes(problem, script[1], Before(script, 1), 1, Timelim(x)) :
          run[x].result = out.result
    <3>1. ~ ReportsTwice(problem, script[1], Timelim(x))
      BY <2>2, TwiceIsRace DEF Raced, CutShort
    <3>. QED  BY <2>1, <2>2, <3>1 DEF LastPass
  <2>4. CASE problem.interactive
    BY <2>2, <2>3, <2>4, DirectInteractive
  <2>5. CASE ~ problem.interactive
    <3>1. ~ First(script[1])
      BY <2>2, <2>5 DEF Quiet
    <3>. QED  BY <2>2, <2>3, <2>5, <3>1, DirectNormal
  <2>. QED  BY <2>2, <2>4, <2>5
<1>3. Spec => []Quiet
  BY <1>1, ExecuteInvariant, QuietStep, PTL DEF Spec
<1>. QED  BY <1>2, <1>3, ExecuteInvariant, PTL
=============================================================================
