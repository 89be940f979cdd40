----------------------- MODULE CheckSubmissions_proofs -----------------------
(***************************************************************************)
(* Theorems about checking a problem's submissions, for any package, any   *)
(* tree of test data and any time limits:                                  *)
(*   - a submission nothing is said about has done what its directory says *)
(*     (SilenceIsAgreement);                                               *)
(*   - its judge is asked at no limit above the first                      *)
(*     (JudgeIsAskedHighestFirst);                                         *)
(*   - a computed time limit has the promised room and is tight            *)
(*     (ComputedLimitIsFitting);                                           *)
(*   - a submission meant to be too slow does not get past with AC         *)
(*     (SlowSubmissionsAreCaught);                                         *)
(*   - the warning about a slow partially accepted submission is exact     *)
(*     (SlowWarningIsExact).                                               *)
(* The first three hold for any grader, the last two for strict ones (a    *)
(* group is accepted only if all its children are); those about the        *)
(* computed limit ask that test cases end within the provisional limit.    *)
(***************************************************************************)
EXTENDS CheckSubmissions, TestTree_proofs

(* A report, once made, stays.                                             *)
LEMMA ReportedStay ==
  ASSUME reports \subseteq reports', NEW what
  PROVE  Reported(what) \subseteq Reported(what)'
<1>1. ASSUME NEW about \in Reported(what)
      PROVE  about \in Reported(what)'
  <2>1. PICK r \in reports : r.what = what /\ about = r.about
    BY DEF Reported
  <2>. QED  BY <2>1 DEF Reported
<1>. QED  BY <1>1

LEMMA ReportsStay ==
  ASSUME reports \subseteq reports'
  PROVE  Mentioned \subseteq Mentioned'
BY ReportedStay DEF Mentioned

(* The headings under which a submission is mentioned, and who is after   *)
(* a step.                                                                 *)
Headings == {"sensitive", "fully accepted", "not full score", "verdict"}

LEMMA WhoIsMentioned == \A r \in reports' : r.what \in Headings => r.about \in Mentioned'
<1> SUFFICES ASSUME NEW r \in reports', r.what \in Headings
             PROVE  r.about \in Mentioned'
  OBVIOUS
<1>1. r.about \in Reported(r.what)'
  BY DEF Reported
<1>. QED  BY <1>1 DEF Mentioned, Headings

(* What the property says of one submission.                               *)
Agrees(s) ==
  /\ judged[s].low.verdict = Expected(s)
  /\ judged[s].high.verdict = Expected(s)
  /\ judged[s].low.score = judged[s].high.score
  /\ FullyAccepted(judged[s].high) => ~ Partial(s)

(* If the two results are the same for the comparison of the limits, and   *)
(* the comparison with the directory has nothing to say, then both are     *)
(* what the directory says.                                                *)
LEMMA ComparisonIsSound ==
  ASSUME NEW s, NEW low, NEW high,
         ~ Sensitive(low, high), Comparison(s, low, high) = {}
  PROVE  /\ low.verdict = Expected(s)
         /\ high.verdict = Expected(s)
         /\ low.score = high.score
         /\ FullyAccepted(high) => ~ Partial(s)
<1>1. low.verdict = high.verdict /\ low.score = high.score
  BY DEF Sensitive
<1>2. FullyAccepted(low) = FullyAccepted(high)
  BY <1>1 DEF FullyAccepted
<1>3. ~ (Partial(s) /\ FullyAccepted(low))
  BY DEF Comparison
<1>4. low.verdict = Expected(s) \/ high.verdict = Expected(s)
  BY <1>3 DEF Comparison
<1>. QED  BY <1>1, <1>2, <1>3, <1>4

(* What is said of a submission when it has been judged.                   *)
Said(s, low, high) == Comparison(s, low, high)
  \union If(Sensitive(low, high), Warning("sensitive", s))

(* If nothing is said, the submission agrees with its directory.           *)
LEMMA WhatIsSaid ==
  ASSUME NEW s, NEW low, NEW high, NEW told, Said(s, low, high) \subseteq told,
         \A r \in told : r.what \in Headings => r.about # s
  PROVE  ~ Sensitive(low, high) /\ Comparison(s, low, high) = {}
<1>1. \A what \in Headings :
        Warning(what, s) \notin told /\ Error(what, s) \notin told
  BY DEF Warning, Error, Headings
<1>2. ~ Sensitive(low, high)
  BY <1>1 DEF Said, If, Headings
<1>3. Comparison(s, low, high) \subseteq {Warning("fully accepted", s), Warning("not full score", s),
                                          Error("verdict", s)}
  BY DEF Comparison, If
<1>. QED  BY <1>1, <1>2, <1>3 DEF Said, Headings

(* What is kept of a judged submission s that behaves like b.              *)
Entry(s, b) ==
  LET results == Results(b, timelim)
      low == Last(results).result
  IN  [beh |-> b, low |-> low, high |-> Overall(b, timelim_high),
       first |-> timelim_high, second |-> timelim,
       tried |-> IF Partial(s) /\ low.verdict = "AC" THEN Tried(b, results) ELSE {}]

(* A check of one submission adds it to the judged ones.                   *)
LEMMA JudgedSubmission ==
  ASSUME CheckSubmission
  PROVE  \E b \in [Keys -> package.behaviours] :
           /\ judged' = [t \in DOMAIN judged \union {Head(todo)} |->
                           IF t # Head(todo) THEN judged[t] ELSE Entry(Head(todo), b)]
           /\ reports \subseteq reports'
           /\ If(Sensitive(Entry(Head(todo), b).low, Entry(Head(todo), b).high),
                 Warning("sensitive", Head(todo))) \subseteq reports'
           /\ Comparison(Head(todo), Entry(Head(todo), b).low, Entry(Head(todo), b).high)
                \subseteq reports'
BY DEF CheckSubmission, Entry

(* What a check of one submission adds to the judged ones and to the       *)
(* reports, whatever it did and whatever limits it was tried at.           *)
LEMMA CheckedSubmission ==
  ASSUME CheckSubmission
  PROVE  \E s : /\ \A t \in DOMAIN judged' \ {s} : t \in DOMAIN judged /\ judged'[t] = judged[t]
                /\ reports \subseteq reports'
                /\ Said(s, judged'[s].low, judged'[s].high) \subseteq reports'
<1> DEFINE s == Head(todo)
           entry(b) == Entry(s, b)
<1>1. PICK b \in [Keys -> package.behaviours] :
        /\ judged' = [t \in DOMAIN judged \union {s} |-> IF t # s THEN judged[t] ELSE entry(b)]
        /\ reports \subseteq reports'
        /\ If(Sensitive(entry(b).low, entry(b).high), Warning("sensitive", s)) \subseteq reports'
        /\ Comparison(s, entry(b).low, entry(b).high) \subseteq reports'
  BY JudgedSubmission
<1> HIDE DEF s, entry
<1>2. judged'[s] = entry(b)
  BY <1>1
<1>. QED  BY <1>1, <1>2 DEF Said

(* Nothing is judged before the checks begin.                              *)
StartsEmpty == pc = "start" => judged = <<>>

(* Every step keeps the submissions in silence in agreement.               *)
LEMMA AgreementStep ==
  ASSUME StartsEmpty, SilenceMeansAgreement, [Next]_vars
  PROVE  StartsEmpty' /\ SilenceMeansAgreement'
<1>1. CASE CheckSubmission
  <2>1. PICK s :
          /\ \A t \in DOMAIN judged' \ {s} : t \in DOMAIN judged /\ judged'[t] = judged[t]
          /\ reports \subseteq reports'
          /\ Said(s, judged'[s].low, judged'[s].high) \subseteq reports'
    BY <1>1, CheckedSubmission
  <2>2. pc' = pc /\ pc # "start"
    BY <1>1 DEF CheckSubmission
  <2>3. ASSUME NEW t \in DOMAIN judged', t \notin Mentioned'
        PROVE  Agrees(t)'
    <3>1. CASE t = s
      <4> DEFINE low == judged'[s].low
                 high == judged'[s].high
      <4>1. ~ Sensitive(low, high) /\ Comparison(s, low, high) = {}
        <5>1. \A r \in reports' : r.what \in Headings => r.about # s
          BY <2>3, <3>1, WhoIsMentioned
        <5>. QED  BY <2>1, <5>1, WhatIsSaid
      <4>. QED  BY <3>1, <4>1, ComparisonIsSound DEF Agrees
    <3>2. CASE t # s
      <4>1. t \in DOMAIN judged /\ judged'[t] = judged[t]
        BY <2>1, <2>3, <3>2
      <4>2. t \notin Mentioned
        BY <2>1, <2>3, ReportsStay
      <4>. QED  BY <4>1, <4>2 DEF SilenceMeansAgreement, Agrees
    <3>. QED  BY <3>1, <3>2
  <2>. QED  BY <2>2, <2>3 DEF StartsEmpty, SilenceMeansAgreement, Agrees
<1>2. CASE Start
  <2>1. judged' = <<>> /\ pc' # "start"
    BY <1>2 DEF Start, StartsEmpty
  <2>2. DOMAIN <<>> = {}
    OBVIOUS
  <2>. QED  BY <2>1, <2>2 DEF StartsEmpty, SilenceMeansAgreement
<1>3. CASE SkipSubmission \/ ComputeTimeLimit \/ KeepTimeLimit
  <2>1. judged' = judged /\ pc' # "start" /\ reports \subseteq reports'
    BY <1>3 DEF SkipSubmission, ComputeTimeLimit, KeepTimeLimit
  <2>2. Mentioned \subseteq Mentioned'
    BY <2>1, ReportsStay
  <2>. QED  BY <2>1, <2>2 DEF StartsEmpty, SilenceMeansAgreement
<1>4. CASE Finish \/ UNCHANGED vars
  BY <1>4 DEF Finish, vars, settings, StartsEmpty, SilenceMeansAgreement, Mentioned, Reported
<1>. QED  BY <1>1, <1>2, <1>3, <1>4 DEF Next

(* A submission that is judged and about which no report speaks has the    *)
(* verdict its directory expects and the same score at both limits.        *)
THEOREM SilenceIsAgreement == Spec => []SilenceMeansAgreement
<1>1. Init => StartsEmpty /\ SilenceMeansAgreement
  BY DEF Init, StartsEmpty, SilenceMeansAgreement
<1>. QED  BY <1>1, AgreementStep, PTL DEF Spec

-----------------------------------------------------------------------------
(* What the test cases give at a limit.                                    *)
RunAt(b, limit) == [t \in Tests |-> Judgement(Direct(b[KeyOf[t]], limit))]

(* It is what judges compare.                                              *)
LEMMA RunsTyped ==
  ASSUME NEW b \in [Keys -> Behaviour], NEW limit \in Int
  PROVE  RunAt(b, limit) \in [Tests -> Judgements]
<1>1. ASSUME NEW t \in Tests
      PROVE  Judgement(Direct(b[KeyOf[t]], limit)) \in Judgements
  <2> DEFINE beh == b[KeyOf[t]]
  <2>1. beh \in Behaviour
    BY PackagesAssumption
  <2> HIDE DEF beh
  <2>2. beh.verdict \in Verdict /\ beh.time \in Int /\ beh.score \in Int \union {NoScore}
    BY <2>1 DEF Behaviour, Verdict
  <2>3. Least(beh.time, limit) \in Int
    BY <2>2 DEF Least
  <2>4. "TLE" \in Verdict
    BY DEF Verdict
  <2>5. /\ Direct(beh, limit).verdict \in Verdict
        /\ Direct(beh, limit).runtime \in Int
        /\ Direct(beh, limit).score \in Int \union {NoScore}
    BY <2>2, <2>3, <2>4 DEF Direct
  <2>6. Judgement(Direct(beh, limit)) \in Judgements
    BY <2>5 DEF Judgement, Judgements
  <2>. QED  BY <2>6 DEF beh
<1>. QED  BY <1>1 DEF RunAt

(* Lowering the limit makes no difference to a run that does not end       *)
(* between the two limits.                                                 *)
LEMMA DirectAlike ==
  ASSUME NEW beh \in Behaviour, NEW limit \in Int, NEW lower \in Int, lower <= limit,
         Direct(beh, limit).runtime <= limit => Direct(beh, limit).runtime <= lower
  PROVE  Alike(Direct(beh, limit), Direct(beh, lower))
<1>1. beh.time \in Int
  BY DEF Behaviour
<1>2. CASE ValidatorDecides(beh)
  BY <1>2 DEF Direct, Alike
<1>3. CASE ~ ValidatorDecides(beh) /\ beh.time > limit
  <2>1. beh.time > lower
    BY <1>1, <1>3
  <2>. QED  BY <1>3, <2>1 DEF Direct, Alike
<1>4. CASE ~ ValidatorDecides(beh) /\ ~ (beh.time > limit)
  <2>1. Direct(beh, limit).runtime = beh.time
    BY <1>4 DEF Direct
  <2>2. ~ (beh.time > lower)
    BY <1>1, <1>4, <2>1
  <2>. QED  BY <1>4, <2>2 DEF Direct, Alike
<1>. QED  BY <1>2, <1>3, <1>4

(* So the verdict does not change as long as the limit stays above the     *)
(* runtimes within it.                                                     *)
LEMMA AcceptsAlike ==
  ASSUME NEW b \in [Keys -> Behaviour], NEW limit \in Int, NEW lower \in Int, lower <= limit,
         HasTestcases, \A r \in Runtimes(Results(b, limit)) : r <= limit => r <= lower
  PROVE  Accepts(b, limit) <=> Accepts(b, lower)
<1> DEFINE run == RunAt(b, limit)
           other == RunAt(b, lower)
           list == AnswersOf(run)[Root]
           another == AnswersOf(other)[Root]
<1>0. Root \in Groups
  BY TreeAssumption
<1>1. run \in [Tests -> Judgements] /\ other \in [Tests -> Judgements]
  BY RunsTyped
<1>2. Results(b, limit) = list /\ Results(b, lower) = another
  <2>1. Results(b, limit) = Answer(run) /\ Results(b, lower) = Answer(other)
    BY DEF Results, RunAt
  <2> HIDE DEF run, other
  <2>. QED  BY <2>1, AnswersDef
<1>3. ASSUME NEW i \in DOMAIN list, list[i].node \in Tests
      PROVE  Alike(run[list[i].node], other[list[i].node])
  <2> DEFINE t == list[i].node
             beh == b[KeyOf[t]]
  <2>1. list[i].result.runtime = run[t].runtime
    <3> HIDE DEF run
    <3>. QED  BY <1>0, <1>1, <1>3, AnswersTimed DEF Timed
  <2>2. run[t].runtime \in Runtimes(Results(b, limit))
    BY <1>2, <2>1 DEF Runtimes
  <2>3. run[t] = Judgement(Direct(beh, limit)) /\ other[t] = Judgement(Direct(beh, lower))
    BY <1>3 DEF RunAt
  <2>4. beh \in Behaviour
    BY <1>3, PackagesAssumption
  <2> HIDE DEF beh, t, run, other
  <2>5. run[t].runtime = Direct(beh, limit).runtime
    BY <2>3 DEF Judgement
  <2>6. Alike(Direct(beh, limit), Direct(beh, lower))
    BY <2>2, <2>4, <2>5, DirectAlike
  <2>7. Alike(run[t], other[t])
    BY <2>3, <2>6 DEF Alike, Judgement
  <2>. QED  BY <2>7 DEF t
<1>4. AlikeLists(list, another)
  <2>1. SeenAlike(run, other, list)
    <3> HIDE DEF list, run, other
    <3>. QED  BY <1>3 DEF SeenAlike
  <2> HIDE DEF run, other
  <2>. QED  BY <1>0, <1>1, <2>1, AnswersAlike
<1>5. IsSeq(list) /\ IsSeq(another)
  BY <1>0, AnswersAreSeqs
<1>6. list # <<>>
  BY <1>0, AnswersDef, SomethingToAnswer DEF HasTestcases
<1> HIDE DEF list, another
<1>7. Last(list).result.verdict = Last(another).result.verdict
  BY <1>4, <1>5, <1>6, LastAlike DEF Alike
<1>. QED  BY <1>2, <1>7 DEF Accepts, Overall

(* The last line of the results has a runtime.                             *)
LEMMA RuntimesAreNumbers ==
  ASSUME NEW b \in [Keys -> Behaviour], NEW limit \in Int, HasTestcases
  PROVE  /\ Runtimes(Results(b, limit)) \subseteq Int
         /\ Last(Results(b, limit)).result.runtime \in Int
<1> DEFINE run == RunAt(b, limit)
           list == AnswersOf(run)[Root]
<1>0. Root \in Groups
  BY TreeAssumption
<1>1. run \in [Tests -> Judgements]
  BY RunsTyped
<1>2. Results(b, limit) = list
  <2>1. Results(b, limit) = Answer(run)
    BY DEF Results, RunAt
  <2> HIDE DEF run
  <2>. QED  BY <2>1, AnswersDef
<1>3. \A i \in DOMAIN list : list[i].result.runtime \in Int
  <2> HIDE DEF run
  <2>. QED  BY <1>0, <1>1, AnswersTimed DEF Timed
<1>4. IsSeq(list) /\ list # <<>>
  BY <1>0, AnswersAreSeqs, AnswersDef, SomethingToAnswer DEF HasTestcases
<1> HIDE DEF list
<1>5. Len(list) \in DOMAIN list
  BY <1>4, SeqIsSeq, EmptySeq DEF IsSeq
<1>. QED  BY <1>2, <1>3, <1>5 DEF Runtimes, Last

-----------------------------------------------------------------------------
(* The longest runtime that does not move the limit is within it.          *)
LEMMA QuotientIsLess ==
  ASSUME NEW a \in Nat, NEW d \in Nat \ {0}
  PROVE  a \div d \in Nat /\ a \div d <= a
<1> DEFINE q == a \div d
           r == a % d
<1>1. q \in Int /\ r \in 0 .. d - 1 /\ a = d * q + r
  OBVIOUS
<1> HIDE DEF q, r
<1>2. CASE q < 0
  <2>1. d * q <= d * (-1)
    BY <1>1, <1>2
  <2>. QED  BY <1>1, <2>1
<1>3. CASE q >= 0
  <2>1. d * q >= 1 * q
    BY <1>1, <1>3
  <2>. QED  BY <1>1, <1>3, <2>1 DEF q
<1>. QED  BY <1>1, <1>2, <1>3

(* An accepted submission is tried at no limit above the one it was        *)
(* accepted at: at the greatest of the limits to try that is within it,    *)
(* the submission is accepted, for no run ends between the two.            *)
LEMMA TriedWithinLimit ==
  ASSUME NEW b \in [Keys -> Behaviour], timelim \in Nat, HasTestcases, Accepts(b, timelim)
  PROVE  \A t \in Tried(b, Results(b, timelim)) : t \in Int /\ t <= timelim
<1> DEFINE C == Candidates(Results(b, timelim)) \union {Unaffecting}
           D == {timelim - t : t \in {u \in C : u <= timelim}}
<1>1. Unaffecting \in Nat /\ Unaffecting <= timelim
  BY LimitsAssumption, QuotientIsLess DEF Unaffecting
<1>2. C \subseteq Int
  BY <1>1, RuntimesAreNumbers DEF Candidates
<1>3. D \subseteq Nat /\ D # {}
  BY <1>1, <1>2
<1>4. PICK m \in C : m <= timelim /\ \A u \in C : u <= timelim => u <= m
  <2>1. Min(D) \in D /\ \A x \in D : Min(D) <= x
    <3> HIDE DEF D
    <3>. QED  BY <1>3, MinIsLeast
  <2>2. PICK m \in C : m <= timelim /\ Min(D) = timelim - m
    BY <2>1
  <2>3. ASSUME NEW u \in C, u <= timelim
        PROVE  u <= m
    <3>1. timelim - u \in D
      BY <2>3
    <3>2. timelim - m <= timelim - u
      BY <2>1, <2>2, <3>1
    <3> HIDE DEF C, D
    <3>. QED  BY <1>2, <2>2, <2>3, <3>2
  <2>. QED  BY <2>2, <2>3
<1>5. m \in Int /\ Unaffecting <= m
  BY <1>1, <1>2, <1>4
<1>6. \A r \in Runtimes(Results(b, timelim)) : r <= timelim => r <= m
  <2>1. ASSUME NEW r \in Runtimes(Results(b, timelim)), r <= timelim
        PROVE  r <= m
    <3>1. r \in Int
      BY RuntimesAreNumbers
    <3>2. CASE r > Unaffecting
      BY <1>4, <2>1, <3>2 DEF Candidates
    <3>3. CASE ~ (r > Unaffecting)
      BY <1>1, <1>5, <3>1, <3>3
    <3>. QED  BY <3>2, <3>3
  <2>. QED  BY <2>1
<1>7. Accepts(b, m)
  BY <1>4, <1>5, <1>6, AcceptsAlike
<1>8. ASSUME NEW t \in Tried(b, Results(b, timelim))
      PROVE  t \in Int /\ t <= timelim
  <2>1. t = Unaffecting \/ (t \in C /\ \A u \in C : u < t => ~ Accepts(b, u))
    BY DEF Tried
  <2>2. t \in Int
    BY <1>1, <1>2, <2>1
  <2>3. CASE t = Unaffecting
    BY <1>1, <2>3
  <2>4. CASE \A u \in C : u < t => ~ Accepts(b, u)
    <3>1. ~ (m < t)
      BY <1>4, <1>7, <2>4
    <3>. QED  BY <1>4, <1>5, <2>2, <3>1
  <2>. QED  BY <2>1, <2>2, <2>3, <2>4
<1>. QED  BY <1>8

-----------------------------------------------------------------------------
(* A finite set of numbers with something in it has a greatest one.        *)
LEMMA MaxOfFinite ==
  ASSUME NEW T \in SUBSET Int, IsFiniteSet(T), T # {}
  PROVE  Max(T) \in T /\ \A x \in T : x <= Max(T)
<1>1. PICK n \in Nat : ExistsSurjection(1 .. n, T)
  BY FS_NatSurjection
<1>2. PICK e \in [1 .. n -> T] : \A t \in T : \E i \in 1 .. n : e[i] = t
  BY <1>1 DEF ExistsSurjection, Surjection
<1>3. n \in Nat \ {0}
  <2>1. CASE n = 0
    <3>1. 1 .. n = {}
      BY <2>1
    <3>. QED  BY <1>2, <3>1
  <2>. QED  BY <2>1
<1>4. \A i \in 1 .. n : e[i] \in Int
  BY <1>2
<1>5. T = {e[i] : i \in 1 .. n}
  BY <1>2
<1>. QED  BY <1>3, <1>4, <1>5, MaxIsGreatest

(* Limits and runtimes are numbers, and the high limit is one.             *)
LimitsInv ==
  /\ package \in Packages
  /\ yaml \in FixedLimits \union {None} /\ cli \in FixedLimits \union {None}
  /\ timelim \in Nat /\ timelim_high \in Nat /\ timelim <= timelim_high
  /\ judged = [s \in DOMAIN judged |-> judged[s]]
  /\ IsFiniteSet(DOMAIN judged)
  /\ \A s \in DOMAIN judged : judged[s].low.runtime \in Int
  /\ pc = "start" => judged = <<>>

(* A limit times a multiplier is no smaller.                               *)
LEMMA ProductIsMore ==
  ASSUME NEW a \in Nat, NEW d \in Nat \ {0}
  PROVE  a * d \in Nat /\ a <= a * d
<1>1. PICK e \in Nat : d = e + 1
  <2>1. d - 1 \in Nat /\ d = (d - 1) + 1
    OBVIOUS
  <2>. QED  BY <2>1
<1>2. a * e >= 0 /\ a * e \in Nat
  OBVIOUS
<1>3. a * d = a * e + a
  BY <1>1
<1>. QED  BY <1>2, <1>3

(* A fixed limit is a number.                                              *)
LEMMA FixedLimitIsNumber ==
  ASSUME LimitsInv, FixedLimit # None
  PROVE  FixedLimit \in Nat \ {0}
BY LimitsAssumption DEF LimitsInv, FixedLimit

(* The computed limit is a number.                                         *)
LEMMA RoundedLimitIsNumber ==
  ASSUME NEW r \in Int
  PROVE  RoundedLimit(r) \in Nat
<1> DEFINE x == CeilDiv(r * AcToTimeLimit, TimeResolution)
           S == {1, x}
<1>1. x \in Int
  <2>1. r * AcToTimeLimit \in Int
    BY LimitsAssumption
  <2>. QED  BY <2>1, LimitsAssumption DEF CeilDiv
<1> HIDE DEF x
<1>2. \E m \in S : \A y \in S : m >= y
  BY <1>1
<1>3. Max(S) \in S /\ \A y \in S : Max(S) >= y
  <2> HIDE DEF S
  <2>. QED  BY <1>2 DEF Max
<1>4. Max(S) \in Nat
  BY <1>1, <1>3
<1> HIDE DEF S
<1>5. Max(S) * TimeResolution \in Nat
  BY <1>4, LimitsAssumption
<1>. QED  BY <1>5 DEF RoundedLimit, S, x

(* The runtime the limit is computed from is that of a judged submission,  *)
(* and none was slower.                                                    *)
LEMMA SlowestIsJudged ==
  ASSUME LimitsInv, judged # <<>>
  PROVE  \E s \in DOMAIN judged :
           /\ SlowestRuntime = judged[s].low.runtime
           /\ \A t \in DOMAIN judged : judged[t].low.runtime <= judged[s].low.runtime
<1> DEFINE f == [s \in DOMAIN judged |-> judged[s].low.runtime]
           T == {judged[s].low.runtime : s \in DOMAIN judged}
<1>1. T \in SUBSET Int
  BY DEF LimitsInv
<1>2. IsFiniteSet(T)
  <2>1. IsFiniteSet({f[s] : s \in DOMAIN judged})
    <3>1. f \in Surjection(DOMAIN judged, T)
      BY DEF Surjection
    <3>2. IsFiniteSet(DOMAIN judged)
      BY DEF LimitsInv
    <3> HIDE DEF f, T
    <3>3. IsFiniteSet(T)
      BY <3>1, <3>2, FS_Surjection
    <3>. QED  BY <3>3 DEF f, T
  <2>. QED  BY <2>1
<1>3. T # {}
  <2>1. DOMAIN judged # {}
    <3>1. CASE DOMAIN judged = {}
      <4>1. judged = [s \in {} |-> judged[s]]
        BY <3>1 DEF LimitsInv
      <4>2. [s \in {} |-> judged[s]] \in Seq({}) /\ Len([s \in {} |-> judged[s]]) = 0
        BY SeqDef
      <4>. QED  BY <4>1, <4>2
    <3>. QED  BY <3>1
  <2>. QED  BY <2>1
<1> HIDE DEF T
<1>4. Max(T) \in T /\ \A x \in T : x <= Max(T)
  BY <1>1, <1>2, <1>3, MaxOfFinite
<1>5. SlowestRuntime = Max(T)
  BY DEF SlowestRuntime, T
<1>6. PICK s \in DOMAIN judged : Max(T) = judged[s].low.runtime
  BY <1>4 DEF T
<1>7. \A t \in DOMAIN judged : judged[t].low.runtime \in T
  BY DEF T
<1>. QED  BY <1>4, <1>5, <1>6, <1>7

(* It is a number.                                                         *)
LEMMA SlowestRuntimeIsNumber ==
  ASSUME LimitsInv, judged # <<>>
  PROVE  SlowestRuntime \in Int
BY SlowestIsJudged DEF LimitsInv

(* What a submission is judged with: numbers, and limits in order.         *)
LEMMA EntryInOrder ==
  ASSUME LimitsInv, HasTestcases, NEW s, NEW b \in [Keys -> package.behaviours]
  PROVE  LET e == Entry(s, b)
         IN  /\ e.low.runtime \in Int
             /\ \A limit \in {e.second} \union e.tried : limit <= e.first
<1> DEFINE results == Results(b, timelim)
           low == Last(results).result
           tried == IF Partial(s) /\ low.verdict = "AC" THEN Tried(b, results) ELSE {}
           e == Entry(s, b)
<1>1. timelim \in Nat /\ timelim_high \in Nat /\ timelim <= timelim_high
  BY DEF LimitsInv
<1>2. b \in [Keys -> Behaviour]
  <2>1. package.behaviours \subseteq Behaviour
    BY PackagesAssumption DEF LimitsInv
  <2>. QED  BY <2>1
<1>3. low.runtime \in Int
  BY <1>1, <1>2, RuntimesAreNumbers
<1>4. \A t \in tried : t \in Int /\ t <= timelim
  <2>1. CASE low.verdict = "AC"
    <3>1. Accepts(b, timelim)
      BY <2>1 DEF Accepts, Overall
    <3> HIDE DEF low, results
    <3>2. \A t \in Tried(b, results) : t \in Int /\ t <= timelim
      BY <1>1, <1>2, <3>1, TriedWithinLimit DEF results
    <3>. QED  BY <3>2
  <2>. QED  BY <2>1
<1>5. e.low = low /\ e.first = timelim_high /\ e.second = timelim /\ e.tried = tried
  BY DEF Entry
<1> HIDE DEF low, tried, e
<1>6. \A limit \in {e.second} \union e.tried : limit <= e.first
  BY <1>1, <1>4, <1>5
<1>. QED  BY <1>3, <1>5, <1>6 DEF e

(* Every step keeps the limits numbers in order, and the judge is asked at *)
(* the highest limit first.                                                *)
LEMMA LimitsStep ==
  ASSUME LimitsInv, LargestLimitFirst, [Next]_vars
  PROVE  LimitsInv' /\ LargestLimitFirst'
<1>1. CASE Start
  <2>1. /\ judged' = judged /\ judged = <<>> /\ pc' # "start"
        /\ package' = package /\ yaml' = yaml /\ cli' = cli
        /\ timelim' = InitialTimeLimit.low /\ timelim_high' = InitialTimeLimit.high
    BY <1>1 DEF Start, settings, LimitsInv
  <2>2. timelim' \in Nat /\ timelim_high' \in Nat /\ timelim' <= timelim_high'
    <3>1. CASE FixedLimit = None
      BY <2>1, <3>1, LimitsAssumption DEF InitialTimeLimit
    <3>2. CASE FixedLimit # None
      <4>1. timelim' = FixedLimit /\ timelim_high' = FixedLimit * TimeLimitToTle
        BY <2>1, <3>2 DEF InitialTimeLimit
      <4>2. FixedLimit \in Nat /\ TimeLimitToTle \in Nat \ {0}
        BY <3>2, FixedLimitIsNumber, LimitsAssumption
      <4> HIDE DEF FixedLimit
      <4>. QED  BY <4>1, <4>2, ProductIsMore
    <3>. QED  BY <3>1, <3>2
  <2>3. LargestLimitFirst'
    BY <2>1 DEF LargestLimitFirst
  <2>. QED  BY <2>1, <2>2, <2>3 DEF LimitsInv
<1>2. CASE CheckSubmission
  <2> DEFINE s == Head(todo)
             entry(b) == Entry(s, b)
  <2>1. PICK b \in [Keys -> package.behaviours] :
          judged' = [t \in DOMAIN judged \union {s} |-> IF t # s THEN judged[t] ELSE entry(b)]
    BY <1>2, JudgedSubmission
  <2>2. /\ package' = package /\ yaml' = yaml /\ cli' = cli /\ pc' = pc /\ pc # "start"
        /\ timelim' = timelim /\ timelim_high' = timelim_high /\ HasTestcases
    BY <1>2 DEF CheckSubmission, settings
  <2>3. /\ entry(b).low.runtime \in Int
        /\ \A limit \in {entry(b).second} \union entry(b).tried : limit <= entry(b).first
    BY <2>2, EntryInOrder
  <2> HIDE DEF s, entry
  <2>4. /\ DOMAIN judged' = DOMAIN judged \union {s}
        /\ judged' = [t \in DOMAIN judged' |-> judged'[t]]
        /\ judged'[s] = entry(b)
        /\ \A t \in DOMAIN judged' : t # s => t \in DOMAIN judged /\ judged'[t] = judged[t]
    BY <2>1
  <2>5. IsFiniteSet(DOMAIN judged')
    BY <2>4, FS_AddElement DEF LimitsInv
  <2>6. \A t \in DOMAIN judged' : judged'[t].low.runtime \in Int
    BY <2>3, <2>4 DEF LimitsInv
  <2>7. LargestLimitFirst'
    <3>1. ASSUME NEW t \in DOMAIN judged'
          PROVE  \A limit \in {judged'[t].second} \union judged'[t].tried : limit <= judged'[t].first
      BY <2>3, <2>4 DEF LargestLimitFirst
    <3>. QED  BY <3>1 DEF LargestLimitFirst
  <2>. QED  BY <2>2, <2>4, <2>5, <2>6, <2>7 DEF LimitsInv
<1>3. CASE ComputeTimeLimit
  <2>1. /\ judged' = judged /\ judged # <<>> /\ pc' # "start"
        /\ package' = package /\ yaml' = yaml /\ cli' = cli
        /\ timelim' = IF FixedLimit = None THEN RoundedLimit(SlowestRuntime) ELSE FixedLimit
        /\ timelim_high' = timelim' * TimeLimitToTle
    BY <1>3 DEF ComputeTimeLimit, settings
  <2>2. timelim' \in Nat
    <3>1. RoundedLimit(SlowestRuntime) \in Nat
      BY <2>1, SlowestRuntimeIsNumber, RoundedLimitIsNumber
    <3>2. FixedLimit # None => FixedLimit \in Nat
      BY FixedLimitIsNumber
    <3>. QED  BY <2>1, <3>1, <3>2
  <2>3. timelim_high' \in Nat /\ timelim' <= timelim_high'
    BY <2>1, <2>2, ProductIsMore, LimitsAssumption
  <2>4. LargestLimitFirst'
    BY <2>1 DEF LargestLimitFirst
  <2>. QED  BY <2>1, <2>2, <2>3, <2>4 DEF LimitsInv
<1>4. CASE SkipSubmission \/ KeepTimeLimit
  <2>1. /\ judged' = judged /\ pc' # "start" /\ timelim' = timelim /\ timelim_high' = timelim_high
        /\ package' = package /\ yaml' = yaml /\ cli' = cli
    BY <1>4 DEF SkipSubmission, KeepTimeLimit, settings
  <2>. QED  BY <2>1 DEF LimitsInv, LargestLimitFirst
<1>5. CASE Finish \/ UNCHANGED vars
  <2>1. /\ judged' = judged /\ (pc' = pc \/ pc' # "start")
        /\ timelim' = timelim /\ timelim_high' = timelim_high
        /\ package' = package /\ yaml' = yaml /\ cli' = cli
    BY <1>5 DEF Finish, vars, settings
  <2>. QED  BY <2>1 DEF LimitsInv, LargestLimitFirst
<1>. QED  BY <1>1, <1>2, <1>3, <1>4, <1>5 DEF Next

(* So it is at the start.                                                  *)
LEMMA LimitsInit == Init => LimitsInv /\ LargestLimitFirst
<1> SUFFICES ASSUME Init
             PROVE  LimitsInv /\ LargestLimitFirst
  OBVIOUS
<1>1. DOMAIN judged = {} /\ judged = <<>> /\ <<>> = [s \in {} |-> judged[s]]
  <2>1. judged = <<>> /\ DOMAIN <<>> = {}
    BY DEF Init
  <2>2. <<>> \in Seq({})
    BY EmptySeq
  <2>. QED  BY <2>1, <2>2
<1>2. IsFiniteSet({})
  BY FS_EmptySet
<1>3. timelim = 0 /\ timelim_high = 0
  BY DEF Init
<1>. QED  BY <1>1, <1>2, <1>3 DEF Init, LimitsInv, LargestLimitFirst

(* The judge of a submission is asked at no limit above the first.         *)
THEOREM JudgeIsAskedHighestFirst == Spec => []LargestLimitFirst
BY LimitsInit, LimitsStep, PTL DEF Spec

-----------------------------------------------------------------------------
(* The packages of which every test case ends within the provisional       *)
(* limit.  Elsewhere a time limit exceeded at the provisional limit may     *)
(* turn into any other verdict at the computed one, and a grader that       *)
(* accepts less then may take back the acceptance.                         *)
NothingOutlastsCap == \A p \in Packages : \A b \in p.behaviours : b.time <= Cap

(* Rounding gives a multiple of the resolution, no less than what is       *)
(* rounded, and less than one step of the resolution more, unless it is    *)
(* the first step.                                                         *)
LEMMA RoundingUp ==
  ASSUME NEW p \in Int, NEW d \in Nat \ {0}
  PROVE  LET x == CeilDiv(p, d)
         IN  x \in Int /\ x * d >= p /\ x * d - d < p
<1> DEFINE q == (- p) \div d
           r == (- p) % d
<1>1. q \in Int /\ r \in 0 .. d - 1 /\ - p = d * q + r
  OBVIOUS
<1>2. CeilDiv(p, d) = - q
  BY DEF CeilDiv
<1> HIDE DEF q, r
<1>3. (- q) * d = - (d * q)
  BY <1>1
<1>. QED  BY <1>1, <1>2, <1>3

(* A multiple leaves no remainder.                                         *)
LEMMA MultipleDivides ==
  ASSUME NEW y \in Int, NEW d \in Nat \ {0}
  PROVE  (y * d) % d = 0
<1> DEFINE a == y * d
           q == a \div d
           r == a % d
<1>1. a \in Int
  OBVIOUS
<1> HIDE DEF a
<1>2. q \in Int /\ r \in 0 .. d - 1 /\ a = d * q + r
  BY <1>1
<1> HIDE DEF q, r
<1>3. r = d * (y - q)
  BY <1>2 DEF a
<1>4. PICK e \in Int : e = y - q
  BY <1>2
<1>5. CASE e >= 1
  <2>1. d * e >= d * 1
    BY <1>4, <1>5
  <2>. QED  BY <1>2, <1>3, <1>4, <2>1
<1>6. CASE e <= -1
  <2>1. d * e <= d * (-1)
    BY <1>4, <1>6
  <2>. QED  BY <1>2, <1>3, <1>4, <2>1
<1>7. CASE e = 0
  BY <1>2, <1>3, <1>4, <1>7 DEF r, a
<1>. QED  BY <1>4, <1>5, <1>6, <1>7

(* Quotient and remainder.                                                 *)
LEMMA DivMod ==
  ASSUME NEW x \in Nat, NEW d \in Nat \ {0}
  PROVE  x \div d \in Int /\ x % d \in 0 .. d - 1 /\ x = d * (x \div d) + (x % d)
OBVIOUS

(* Two multiples that differ are a step apart.                             *)
LEMMA MultiplesApart ==
  ASSUME NEW x \in Nat, NEW y \in Nat, NEW d \in Nat \ {0}, x % d = 0, y % d = 0, x > 0, y > x
  PROVE  x >= d /\ y >= x + d
<1> DEFINE p == x \div d
           q == y \div d
<1>1. p \in Int /\ q \in Int /\ x = d * p /\ y = d * q
  OBVIOUS
<1> HIDE DEF p, q
<1>2. p >= 1
  <2>1. CASE p <= 0
    <3>1. d * p <= d * 0
      BY <1>1, <2>1
    <3>. QED  BY <1>1, <3>1
  <2>. QED  BY <1>1, <2>1
<1>3. PICK e \in Int : q = p + e
  <2>1. q - p \in Int /\ q = p + (q - p)
    BY <1>1
  <2>. QED  BY <2>1
<1>4. y = x + d * e
  BY <1>1, <1>3
<1>5. e >= 1
  <2>1. CASE e <= 0
    <3>1. d * e <= d * 0
      BY <2>1
    <3>. QED  BY <1>1, <1>4, <3>1
  <2>. QED  BY <2>1
<1>6. d * e >= d * 1 /\ d * p >= d * 1
  BY <1>1, <1>2, <1>5
<1>. QED  BY <1>1, <1>4, <1>6

LEMMA RoundedLimitIsTight ==
  ASSUME NEW r \in Int
  PROVE  LET limit == RoundedLimit(r)
         IN  /\ limit \in Nat /\ limit > 0 /\ limit % TimeResolution = 0
             /\ limit >= r * AcToTimeLimit
             /\ limit > TimeResolution => r * AcToTimeLimit > limit - TimeResolution
<1> DEFINE p == r * AcToTimeLimit
           x == CeilDiv(p, TimeResolution)
           m == Max({1, x})
           limit == m * TimeResolution
<1>1. p \in Int /\ TimeResolution \in Nat \ {0}
  BY LimitsAssumption
<1>2. limit = RoundedLimit(r)
  BY DEF RoundedLimit
<1> HIDE DEF p
<1>3. x \in Int /\ x * TimeResolution >= p /\ x * TimeResolution - TimeResolution < p
  BY <1>1, RoundingUp
<1> HIDE DEF x
<1>4. m \in {1, x} /\ m >= 1 /\ m >= x
  <2>1. \E k \in {1, x} : \A y \in {1, x} : k >= y
    BY <1>3
  <2> DEFINE S == {1, x}
  <2>2. m = Max(S)
    OBVIOUS
  <2> HIDE DEF S, m
  <2>3. m \in S /\ \A y \in S : m >= y
    BY <2>1, <2>2 DEF Max, S
  <2>. QED  BY <2>3 DEF S
<1> HIDE DEF m
<1>5. limit % TimeResolution = 0
  BY <1>1, <1>3, <1>4, MultipleDivides
<1>6. CASE m = x
  <2>1. x * TimeResolution >= 1 * TimeResolution
    BY <1>1, <1>3, <1>4, <1>6
  <2>. QED  BY <1>1, <1>2, <1>3, <1>5, <1>6, <2>1 DEF p
<1>7. CASE m = 1 /\ x < 1
  <2>1. x * TimeResolution <= 1 * TimeResolution
    BY <1>1, <1>3, <1>7
  <2>2. limit = TimeResolution
    BY <1>1, <1>7
  <2> HIDE DEF limit
  <2>. QED  BY <1>1, <1>2, <1>3, <1>5, <2>1, <2>2 DEF p
<1>. QED  BY <1>3, <1>4, <1>6, <1>7

-----------------------------------------------------------------------------
(* Slower by the multiplier, a submission is what a submission may be.     *)
LEMMA SlowedIsBehaviour ==
  ASSUME NEW b \in [Keys -> Behaviour]
  PROVE  /\ Slowed(b) \in [Keys -> Behaviour]
         /\ \A k \in Keys : /\ Slowed(b)[k].time = b[k].time * AcToTimeLimit
                            /\ Slowed(b)[k].verdict = b[k].verdict
                            /\ Slowed(b)[k].first = b[k].first
                            /\ Slowed(b)[k].crash = b[k].crash
                            /\ Slowed(b)[k].score = b[k].score
<1>1. ASSUME NEW k \in Keys
      PROVE  /\ [b[k] EXCEPT !.time = @ * AcToTimeLimit] \in Behaviour
             /\ [b[k] EXCEPT !.time = @ * AcToTimeLimit].time = b[k].time * AcToTimeLimit
             /\ [b[k] EXCEPT !.time = @ * AcToTimeLimit].verdict = b[k].verdict
             /\ [b[k] EXCEPT !.time = @ * AcToTimeLimit].first = b[k].first
             /\ [b[k] EXCEPT !.time = @ * AcToTimeLimit].crash = b[k].crash
             /\ [b[k] EXCEPT !.time = @ * AcToTimeLimit].score = b[k].score
  <2>1. b[k] \in Behaviour
    OBVIOUS
  <2>2. b[k].time * AcToTimeLimit \in Nat
    BY <2>1, LimitsAssumption DEF Behaviour
  <2>. QED  BY <2>1, <2>2 DEF Behaviour
<1>2. \A k \in Keys : Slowed(b)[k] = [b[k] EXCEPT !.time = @ * AcToTimeLimit]
  BY DEF Slowed
<1>. QED  BY <1>1, <1>2 DEF Slowed

(* A run that ends within the provisional limit, and slowed within the     *)
(* computed one, gives the same either way.                                *)
LEMMA SlowedAlike ==
  ASSUME NEW beh \in Behaviour, NEW slow \in Behaviour, NEW limit \in Int, NEW computed \in Int,
         slow.verdict = beh.verdict, slow.first = beh.first, slow.crash = beh.crash,
         slow.score = beh.score, beh.time <= limit, slow.time <= computed
  PROVE  Alike(Direct(beh, limit), Direct(slow, computed))
<1>1. beh.time \in Int /\ slow.time \in Int
  BY DEF Behaviour
<1>2. ~ (beh.time > limit) /\ ~ (slow.time > computed)
  BY <1>1
<1>3. ValidatorDecides(beh) <=> ValidatorDecides(slow)
  BY DEF ValidatorDecides
<1>. QED  BY <1>2, <1>3 DEF Direct, Alike

(* The computed limit has room for what was accepted, on a machine slower  *)
(* by the multiplier.                                                      *)
LEMMA RoomForSlowed ==
  ASSUME NEW b \in [Keys -> Behaviour], \A k \in Keys : b[k].time <= Cap, HasTestcases,
         Accepts(b, Cap), NEW computed \in Int,
         computed >= Overall(b, Cap).runtime * AcToTimeLimit
  PROVE  Accepts(Slowed(b), computed)
<1> DEFINE slow == Slowed(b)
           run == RunAt(b, Cap)
           other == RunAt(slow, computed)
           list == AnswersOf(run)[Root]
           another == AnswersOf(other)[Root]
<1>0. Root \in Groups /\ Cap \in Int
  BY TreeAssumption, LimitsAssumption
<1>1. slow \in [Keys -> Behaviour]
  BY SlowedIsBehaviour
<1> HIDE DEF slow
<1>2. run \in [Tests -> Judgements] /\ other \in [Tests -> Judgements]
  BY <1>0, <1>1, RunsTyped
<1>3. Results(b, Cap) = list /\ Results(slow, computed) = another
  <2>1. Results(b, Cap) = Answer(run) /\ Results(slow, computed) = Answer(other)
    BY DEF Results, RunAt
  <2> HIDE DEF run, other
  <2>. QED  BY <2>1, AnswersDef
<1>4. IsSeq(list) /\ IsSeq(another) /\ list # <<>>
  BY <1>0, AnswersAreSeqs, AnswersDef, SomethingToAnswer DEF HasTestcases
<1>5. Last(list).result.verdict = "AC" /\ Overall(b, Cap).runtime = Last(list).result.runtime
  <2> HIDE DEF list
  <2>. QED  BY <1>3 DEF Accepts, Overall
<1>6. NoneSlower(list, Last(list).result)
  <2>1. LastIsSlowest(list)
    <3> HIDE DEF run
    <3>. QED  BY <1>0, <1>2, AnswersSlowest
  <2> HIDE DEF list
  <2>. QED  BY <1>4, <1>5, <2>1 DEF LastIsSlowest
<1>7. Last(list).result.runtime \in Int
  <2>1. Last(Results(b, Cap)).result.runtime \in Int
    BY <1>0, RuntimesAreNumbers
  <2> HIDE DEF list
  <2>. QED  BY <1>3, <2>1
<1>8. ASSUME NEW i \in DOMAIN list, list[i].node \in Tests
      PROVE  Alike(run[list[i].node], other[list[i].node])
  <2> DEFINE t == list[i].node
             beh == b[KeyOf[t]]
             then == slow[KeyOf[t]]
  <2>1. list[i].result.runtime = run[t].runtime
    <3> HIDE DEF run
    <3>. QED  BY <1>0, <1>2, <1>8, AnswersTimed DEF Timed
  <2>2. run[t].runtime <= Last(list).result.runtime
    <3> HIDE DEF list
    <3>. QED  BY <1>6, <1>8, <2>1 DEF NoneSlower
  <2>3. run[t] = Judgement(Direct(beh, Cap)) /\ other[t] = Judgement(Direct(then, computed))
    BY <1>8 DEF RunAt
  <2>4. KeyOf[t] \in Keys
    BY <1>8, PackagesAssumption
  <2>5. beh \in Behaviour /\ then \in Behaviour /\ beh.time <= Cap
    BY <1>1, <2>4
  <2>6. /\ then.time = beh.time * AcToTimeLimit /\ then.verdict = beh.verdict
        /\ then.first = beh.first /\ then.crash = beh.crash /\ then.score = beh.score
    BY <2>4, SlowedIsBehaviour DEF slow
  <2> DEFINE top == Last(list).result.runtime
  <2>7. top \in Int /\ run[t].runtime <= top /\ computed >= top * AcToTimeLimit
    BY <1>5, <1>7, <2>2
  <2> HIDE DEF beh, then, t, run, other, list, top
  <2>8. Direct(beh, Cap).runtime = beh.time
    BY <1>0, <2>5 DEF Direct, Least, Behaviour
  <2>9. beh.time \in Int /\ beh.time <= top
    BY <2>3, <2>5, <2>7, <2>8 DEF Judgement, Behaviour
  <2>10. then.time <= computed
    <3>1. AcToTimeLimit \in Nat
      BY LimitsAssumption
    <3>2. PICK gap \in Nat : top = beh.time + gap
      <4>1. top - beh.time \in Nat /\ top = beh.time + (top - beh.time)
        BY <2>7, <2>9
      <4>. QED  BY <4>1
    <3>3. top * AcToTimeLimit = beh.time * AcToTimeLimit + gap * AcToTimeLimit
      BY <2>9, <3>1, <3>2
    <3>4. gap * AcToTimeLimit \in Nat /\ beh.time * AcToTimeLimit \in Int
      BY <2>9, <3>1, <3>2
    <3>. QED  BY <2>6, <2>7, <3>3, <3>4
  <2>11. Alike(Direct(beh, Cap), Direct(then, computed))
    BY <1>0, <2>5, <2>6, <2>10, SlowedAlike
  <2>12. Alike(run[t], other[t])
    BY <2>3, <2>11 DEF Alike, Judgement
  <2>. QED  BY <2>12 DEF t
<1>9. AlikeLists(list, another)
  <2>1. SeenAlike(run, other, list)
    <3> HIDE DEF list, run, other
    <3>. QED  BY <1>8 DEF SeenAlike
  <2> HIDE DEF run, other
  <2>. QED  BY <1>0, <1>2, <2>1, AnswersAlike
<1> HIDE DEF list, another
<1>10. Last(list).result.verdict = Last(another).result.verdict
  BY <1>4, <1>9, LastAlike DEF Alike
<1>. QED  BY <1>3, <1>5, <1>10 DEF Accepts, Overall, slow

-----------------------------------------------------------------------------
(* The submissions chosen are among the package's.                         *)
LEMMA ThoseTyped ==
  ASSUME NEW chosen, package \in Packages
  PROVE  Those(chosen) \in Seq(chosen)
<1> DEFINE parts == [i \in DOMAIN Submissions |->
                       IF Submissions[i] \in chosen THEN <<Submissions[i]>> ELSE <<>>]
<1>1. DOMAIN Submissions = 1 .. Len(Submissions) /\ Len(Submissions) \in Nat
  <2>1. Submissions \in Seq(DOMAIN Directory)
    BY PackagesAssumption DEF Submissions
  <2>. QED  BY <2>1, SeqIsSeq
<1>2. ASSUME NEW i \in DOMAIN Submissions
      PROVE  parts[i] \in Seq(chosen)
  <2>1. CASE Submissions[i] \in chosen
    <3> DEFINE s == Submissions[i]
    <3> HIDE DEF s
    <3>1. s \in chosen => <<s>> \in Seq(chosen)
      OBVIOUS
    <3>. QED  BY <2>1, <3>1 DEF s
  <2>2. CASE Submissions[i] \notin chosen
    BY <2>2, EmptySeq
  <2>. QED  BY <2>1, <2>2
<1>3. parts \in Seq(Seq(chosen))
  <2>1. parts \in [1 .. Len(Submissions) -> Seq(chosen)]
    BY <1>1, <1>2
  <2>. QED  BY <1>1, <2>1, SeqDef
<1>. QED  BY <1>3, FlattenTyped DEF Those

(* The submissions that bound the limit, and the others.                   *)
Bounding == {s \in DOMAIN Directory : LowerBoundsTimeLimit(s)}
Unbounding == {s \in DOMAIN Directory : ~ LowerBoundsTimeLimit(s)}

LEMMA GroupsOfSubmissions ==
  ASSUME package \in Packages
  PROVE  LowerBoundSubmissions \in Seq(Bounding) /\ Rest \in Seq(Unbounding)
<1>1. ToSet(Submissions) \subseteq DOMAIN Directory
  <2>1. Submissions \in Seq(DOMAIN Directory)
    BY PackagesAssumption DEF Submissions
  <2>2. \A i \in DOMAIN Submissions : Submissions[i] \in DOMAIN Directory
    BY <2>1, SeqIsSeq
  <2>. QED  BY <2>2 DEF ToSet
<1> DEFINE lower == {s \in ToSet(Submissions) : Checked(s) /\ LowerBoundsTimeLimit(s)}
           rest(slow) == {s \in ToSet(Submissions) :
             Checked(s) /\ ~ LowerBoundsTimeLimit(s) /\ (Expected(s) = "TLE") = slow}
<1>2. lower \subseteq Bounding /\ rest(FALSE) \subseteq Unbounding /\ rest(TRUE) \subseteq Unbounding
  BY <1>1 DEF Bounding, Unbounding
<1>3. LowerBoundSubmissions = Those(lower) /\ Rest = Those(rest(FALSE)) \o Those(rest(TRUE))
  BY DEF LowerBoundSubmissions, Rest
<1> HIDE DEF lower, rest
<1>4. Those(lower) \in Seq(Bounding)
  BY <1>2, ThoseTyped, SeqMonotonic
<1>5. Those(rest(FALSE)) \in Seq(Unbounding) /\ Those(rest(TRUE)) \in Seq(Unbounding)
  BY <1>2, ThoseTyped, SeqMonotonic
<1>6. Those(rest(FALSE)) \o Those(rest(TRUE)) \in Seq(Unbounding)
  BY <1>5, ConcatProperties
<1>. QED  BY <1>3, <1>4, <1>6

-----------------------------------------------------------------------------
(* Sequences without repetition.                                           *)
Distinct(s) == \A i, j \in DOMAIN s : s[i] = s[j] => i = j

LEMMA ConcatDistinct ==
  ASSUME NEW s, NEW t, IsSeq(s), IsSeq(t), Distinct(s), Distinct(t),
         \A i \in DOMAIN s : \A k \in DOMAIN t : s[i] # t[k]
  PROVE  Distinct(s \o t)
<1> DEFINE u == s \o t
           m == Len(s)
           n == Len(t)
<1>1. /\ m \in Nat /\ n \in Nat /\ DOMAIN s = 1 .. m /\ DOMAIN t = 1 .. n /\ DOMAIN u = 1 .. m + n
      /\ \A i \in DOMAIN u : u[i] = IF i <= m THEN s[i] ELSE t[i - m]
  BY ConcatIsSeq
<1> HIDE DEF u, m, n
<1>2. \A i \in 1 .. m + n : (i \in 1 .. m /\ i <= m) \/ (~ (i <= m) /\ i - m \in 1 .. n)
  BY <1>1
<1>3. ASSUME NEW i \in DOMAIN u, NEW j \in DOMAIN u, u[i] = u[j]
      PROVE  i = j
  <2>1. CASE i <= m /\ j <= m
    BY <1>1, <1>2, <1>3, <2>1 DEF Distinct
  <2>2. CASE ~ (i <= m) /\ ~ (j <= m)
    <3>1. i - m = j - m
      BY <1>1, <1>2, <1>3, <2>2 DEF Distinct
    <3>. QED  BY <1>1, <3>1
  <2>3. CASE i <= m /\ ~ (j <= m)
    BY <1>1, <1>2, <1>3, <2>3
  <2>4. CASE ~ (i <= m) /\ j <= m
    BY <1>1, <1>2, <1>3, <2>4
  <2>. QED  BY <2>1, <2>2, <2>3, <2>4
<1>4. Distinct(u)
  BY <1>3 DEF Distinct
<1>. QED  BY <1>4 DEF u

(* What is left after the first is without repetition and without it.      *)
LEMMA TailDistinct ==
  ASSUME NEW S, NEW s \in Seq(S), s # <<>>, Distinct(s)
  PROVE  /\ Distinct(Tail(s))
         /\ \E i \in DOMAIN s : s[i] = Head(s)
         /\ \A k \in DOMAIN Tail(s) : Tail(s)[k] # Head(s) /\ \E i \in DOMAIN s : Tail(s)[k] = s[i]
<1>1. DOMAIN s = 1 .. Len(s) /\ Len(s) \in Nat \ {0}
  BY SeqIsSeq, EmptySeq
<1>2. /\ Tail(s) \in Seq(S) /\ Len(Tail(s)) = Len(s) - 1
      /\ \A i \in 1 .. Len(Tail(s)) : Tail(s)[i] = s[i + 1]
  BY HeadTailProperties
<1>3. DOMAIN Tail(s) = 1 .. Len(s) - 1
  BY <1>2, SeqIsSeq
<1>4. Head(s) = s[1]
  BY <1>1
<1>5. \A k \in 1 .. Len(s) - 1 : k \in Int /\ k + 1 \in 1 .. Len(s) /\ k + 1 # 1
  BY <1>1
<1>6. ASSUME NEW i \in DOMAIN Tail(s), NEW j \in DOMAIN Tail(s), Tail(s)[i] = Tail(s)[j]
      PROVE  i = j
  <2>1. s[i + 1] = s[j + 1]
    BY <1>2, <1>3, <1>6
  <2>2. i + 1 = j + 1
    BY <1>1, <1>3, <1>5, <2>1 DEF Distinct
  <2>. QED  BY <1>3, <1>5, <2>2
<1>7. 1 \in DOMAIN s
  BY <1>1
<1>8. \A k \in DOMAIN Tail(s) : Tail(s)[k] = s[k + 1] /\ k + 1 \in DOMAIN s /\ k + 1 # 1
  BY <1>1, <1>2, <1>3, <1>5
<1>. QED  BY <1>4, <1>6, <1>7, <1>8 DEF Distinct

(* The submissions chosen come once each.                                  *)
LEMMA ThoseDistinct ==
  ASSUME NEW chosen, package \in Packages
  PROVE  Distinct(Those(chosen))
<1> DEFINE parts == [i \in DOMAIN Submissions |->
                       IF Submissions[i] \in chosen THEN <<Submissions[i]>> ELSE <<>>]
           N == Len(Submissions)
<1>1. DOMAIN Submissions = 1 .. N /\ N \in Nat /\ Distinct(Submissions)
  <2>1. Submissions \in Seq(DOMAIN Directory) /\ Distinct(Submissions)
    BY PackagesAssumption DEF Submissions, Distinct
  <2>. QED  BY <2>1, SeqIsSeq
<1>2. /\ DOMAIN parts = 1 .. N
      /\ \A i \in 1 .. N : parts[i] = IF Submissions[i] \in chosen THEN <<Submissions[i]>> ELSE <<>>
  BY <1>1
<1>3. Those(chosen) = FlattenSeq(parts)
  BY DEF Those
<1>3b. parts = [i \in 1 .. N |-> parts[i]]
  BY <1>1
<1> HIDE DEF parts
<1> HIDE DEF N
<1>4. \A i \in 1 .. N : IsSeq(parts[i]) /\ (parts[i] = <<>> \/ parts[i] = <<Submissions[i]>>)
  BY <1>2, ShortSeqs
<1>5. IsSeq(parts) /\ Len(parts) = N
  BY <1>1, <1>2, <1>3b, FunctionIsSeq
<1>6. PICK j : Joins(j, parts, N) /\ FlattenSeq(parts) = j[N]
  BY <1>2, <1>4, <1>5, FlattenJoins
<1> DEFINE From(n) == \A k \in DOMAIN j[n] : \E i \in 1 .. n : j[n][k] = Submissions[i]
           S == {n \in Nat : n <= N => Distinct(j[n]) /\ From(n)}
<1>7. 0 \in S
  <2>1. j[0] = <<>>
    BY <1>1, <1>6, JoinsSteps
  <2>. QED  BY <2>1, ShortSeqs DEF Distinct
<1>8. ASSUME NEW n \in Nat, n \in S
      PROVE  n + 1 \in S
  <2> SUFFICES ASSUME n + 1 <= N
               PROVE  Distinct(j[n + 1]) /\ From(n + 1)
    OBVIOUS
  <2>1. j[n + 1] = j[n] \o parts[n + 1]
    <3>1. j[n + 1] = Glue(j[n], parts[n + 1])
      BY <1>1, <1>6, JoinsSteps
    <3>. QED  BY <3>1 DEF Glue
  <2>2. n \in 0 .. N /\ n + 1 \in 1 .. N /\ n <= N /\ 1 .. n \subseteq 1 .. n + 1
        /\ n + 1 \in 1 .. n + 1 /\ \A i \in 1 .. n : i \in 1 .. N /\ i # n + 1
    BY <1>1
  <2>3. IsSeq(j[n]) /\ IsSeq(parts[n + 1])
    BY <1>1, <1>4, <1>6, <2>2, JoinsAreSeqs
  <2>4. Distinct(j[n]) /\ From(n)
    BY <1>8, <2>2
  <2> DEFINE a == j[n]
             c == parts[n + 1]
             x == Submissions[n + 1]
  <2>5. \A i \in DOMAIN c : c[i] = x
    BY <1>4, <2>2, ShortSeqs
  <2>6. Distinct(c)
    <3>1. DOMAIN c = {} \/ DOMAIN c = {1}
      BY <1>4, <2>2, ShortSeqs
    <3>. QED  BY <3>1 DEF Distinct
  <2>7. \A i \in 1 .. n : Submissions[i] # x
    BY <1>1, <2>2 DEF Distinct
  <2> HIDE DEF c, x
  <2>8. \A i \in DOMAIN a : \A k \in DOMAIN c : a[i] # c[k]
    BY <2>4, <2>5, <2>7
  <2> HIDE DEF a
  <2>9. Distinct(a \o c)
    BY <2>3, <2>4, <2>6, <2>8, ConcatDistinct DEF a, c
  <2>10. /\ Len(a) \in Nat /\ Len(c) \in Nat /\ DOMAIN a = 1 .. Len(a) /\ DOMAIN c = 1 .. Len(c)
         /\ DOMAIN (a \o c) = 1 .. Len(a) + Len(c)
         /\ \A i \in DOMAIN (a \o c) : (a \o c)[i] = IF i <= Len(a) THEN a[i] ELSE c[i - Len(a)]
    BY <2>3, ConcatIsSeq DEF a, c
  <2>11. ASSUME NEW k \in DOMAIN (a \o c)
         PROVE  \E i \in 1 .. n + 1 : (a \o c)[k] = Submissions[i]
    <3>1. CASE k <= Len(a)
      <4>1. k \in DOMAIN a /\ (a \o c)[k] = a[k]
        BY <2>10, <3>1
      <4>2. \A m \in DOMAIN a : \E i \in 1 .. n : a[m] = Submissions[i]
        BY <2>4 DEF a
      <4>. QED  BY <2>2, <4>1, <4>2
    <3>2. CASE ~ (k <= Len(a))
      <4>1. k - Len(a) \in DOMAIN c /\ (a \o c)[k] = c[k - Len(a)]
        BY <2>10, <3>2
      <4>. QED  BY <2>2, <2>5, <4>1 DEF x
    <3>. QED  BY <3>1, <3>2
  <2>. QED  BY <2>1, <2>9, <2>11 DEF a, c
<1>9. \A n \in Nat : n \in S
  <2> HIDE DEF S
  <2>. QED  BY <1>7, <1>8, SetInduction
<1>10. Distinct(j[N])
  BY <1>1, <1>9
<1>. QED  BY <1>3, <1>6, <1>10

(* The submissions that do not bound the limit come once each.             *)
LEMMA RestDistinct ==
  ASSUME package \in Packages
  PROVE  Distinct(Rest)
<1> DEFINE rest(slow) == {s \in ToSet(Submissions) :
             Checked(s) /\ ~ LowerBoundsTimeLimit(s) /\ (Expected(s) = "TLE") = slow}
           a == rest(FALSE)
           c == rest(TRUE)
<1>1. Rest = Those(a) \o Those(c)
  BY DEF Rest
<1>2. a \intersect c = {}
  OBVIOUS
<1> HIDE DEF a, c
<1>3. Those(a) \in Seq(a) /\ Those(c) \in Seq(c)
  BY ThoseTyped
<1>4. IsSeq(Those(a)) /\ IsSeq(Those(c))
  BY <1>3, SeqIsSeq
<1>5. /\ \A i \in DOMAIN Those(a) : Those(a)[i] \in a
      /\ \A i \in DOMAIN Those(c) : Those(c)[i] \in c
  BY <1>3, SeqIsSeq
<1>6. \A i \in DOMAIN Those(a) : \A k \in DOMAIN Those(c) : Those(a)[i] # Those(c)[k]
  BY <1>2, <1>5
<1>. QED  BY <1>1, <1>4, <1>6, ThoseDistinct, ConcatDistinct

(* Who is judged when: first those that bound the limit, then the others,  *)
(* each of these once.                                                     *)
GroupsInv ==
  /\ pc = "lower" => todo \in Seq(Bounding) /\ DOMAIN judged \subseteq Bounding
  /\ pc = "rest" => /\ todo \in Seq(Unbounding) /\ Distinct(todo)
                    /\ \A k \in DOMAIN todo : todo[k] \notin DOMAIN judged

(* Who is next, and who is left.                                           *)
LEMMA NextSubmission ==
  ASSUME GroupsInv, todo # <<>>
  PROVE  /\ pc = "lower" => Head(todo) \in Bounding /\ Tail(todo) \in Seq(Bounding)
         /\ pc = "rest" => /\ Head(todo) \in Unbounding \ DOMAIN judged
                           /\ Tail(todo) \in Seq(Unbounding) /\ Distinct(Tail(todo))
                           /\ \A k \in DOMAIN Tail(todo) :
                                Tail(todo)[k] \notin DOMAIN judged \union {Head(todo)}
<1>1. CASE pc = "lower"
  BY <1>1, HeadTailProperties DEF GroupsInv
<1>2. CASE pc = "rest"
  <2>1. todo \in Seq(Unbounding) /\ Distinct(todo) /\ \A k \in DOMAIN todo : todo[k] \notin DOMAIN judged
    BY <1>2 DEF GroupsInv
  <2>2. Head(todo) \in Unbounding /\ Tail(todo) \in Seq(Unbounding)
    BY <2>1, HeadTailProperties
  <2>3. /\ Distinct(Tail(todo)) /\ \E i \in DOMAIN todo : todo[i] = Head(todo)
        /\ \A k \in DOMAIN Tail(todo) : Tail(todo)[k] # Head(todo)
                                        /\ \E i \in DOMAIN todo : Tail(todo)[k] = todo[i]
    BY <2>1, TailDistinct
  <2>. QED  BY <1>2, <2>1, <2>2, <2>3
<1>. QED  BY <1>1, <1>2

(* Every step keeps the order.                                             *)
LEMMA GroupsStep ==
  ASSUME LimitsInv, GroupsInv, [Next]_vars
  PROVE  GroupsInv'
<1>1. CASE Start
  <2>1. pc' = "lower" /\ todo' = LowerBoundSubmissions /\ judged' = judged /\ judged = <<>>
    BY <1>1 DEF Start, LimitsInv
  <2>2. LowerBoundSubmissions \in Seq(Bounding) /\ DOMAIN judged = {}
    BY <2>1, ShortSeqs, GroupsOfSubmissions DEF LimitsInv
  <2>. QED  BY <2>1, <2>2 DEF GroupsInv
<1>2. CASE CheckSubmission \/ SkipSubmission
  <2>1. pc' = pc /\ pc \in {"lower", "rest"} /\ todo # <<>> /\ todo' = Tail(todo)
    BY <1>2 DEF CheckSubmission, SkipSubmission
  <2>2. DOMAIN judged' \subseteq DOMAIN judged \union {Head(todo)}
    <3>1. CASE CheckSubmission
      <4> DEFINE s == Head(todo)
      <4> HIDE DEF s
      <4>1. PICK b : judged' = [t \in DOMAIN judged \union {s} |->
                                  IF t # s THEN judged[t] ELSE Entry(s, b)]
        BY <3>1, JudgedSubmission DEF s
      <4>. QED  BY <4>1 DEF s
    <3>2. CASE SkipSubmission
      BY <3>2 DEF SkipSubmission
    <3>. QED  BY <1>2, <3>1, <3>2
  <2>3. CASE pc = "lower"
    <3>1. Head(todo) \in Bounding /\ Tail(todo) \in Seq(Bounding) /\ DOMAIN judged \subseteq Bounding
      BY <2>1, <2>3, NextSubmission DEF GroupsInv
    <3>. QED  BY <2>1, <2>2, <2>3, <3>1 DEF GroupsInv
  <2>4. CASE pc = "rest"
    <3>1. /\ Tail(todo) \in Seq(Unbounding) /\ Distinct(Tail(todo))
          /\ \A k \in DOMAIN Tail(todo) : Tail(todo)[k] \notin DOMAIN judged \union {Head(todo)}
      BY <2>1, <2>4, NextSubmission
    <3>2. Distinct(todo')
      BY <2>1, <3>1
    <3>3. \A k \in DOMAIN todo' : todo'[k] \notin DOMAIN judged'
      BY <2>1, <2>2, <3>1
    <3>. QED  BY <2>1, <2>4, <3>1, <3>2, <3>3 DEF GroupsInv, Distinct
  <2>. QED  BY <2>1, <2>3, <2>4
<1>3. CASE ComputeTimeLimit \/ KeepTimeLimit
  <2>1. pc = "lower" /\ pc' = "rest" /\ todo' = Rest /\ judged' = judged
    BY <1>3 DEF ComputeTimeLimit, KeepTimeLimit
  <2>2. Rest \in Seq(Unbounding) /\ Distinct(Rest) /\ DOMAIN judged \subseteq Bounding
    BY <2>1, GroupsOfSubmissions, RestDistinct DEF LimitsInv, GroupsInv
  <2>3. \A k \in DOMAIN Rest : Rest[k] \notin DOMAIN judged
    <3>1. \A k \in DOMAIN Rest : Rest[k] \in Unbounding
      BY <2>2, SeqIsSeq
    <3>. QED  BY <2>2, <3>1 DEF Bounding, Unbounding
  <2>4. Distinct(todo')
    BY <2>1, <2>2
  <2>. QED  BY <2>1, <2>2, <2>3, <2>4 DEF GroupsInv, Distinct
<1>4. CASE Finish
  BY <1>4 DEF Finish, GroupsInv
<1>5. CASE UNCHANGED vars
  BY <1>5 DEF vars, GroupsInv, Distinct
<1>. QED  BY <1>1, <1>2, <1>3, <1>4, <1>5 DEF Next

-----------------------------------------------------------------------------
(* While the limit is to be computed, it is the provisional one, and so    *)
(* the accepted submissions are judged at it; once it is computed, it is    *)
(* the rounded slowest runtime of those.                                   *)
JudgedAtCap(s) ==
  /\ judged[s].beh \in [Keys -> package.behaviours]
  /\ judged[s].low = Overall(judged[s].beh, Cap)
  /\ HasTestcases

LimitOf(s) ==
  /\ \A t \in Accepted : judged[t].low.runtime <= judged[s].low.runtime
  /\ timelim = RoundedLimit(judged[s].low.runtime)

ComputedInv ==
  FixedLimit = None =>
    /\ pc = "lower" => timelim = Cap
    /\ \A s \in Accepted : JudgedAtCap(s)
    /\ pc \in {"rest", "done"} /\ Accepted # {} => \E s \in Accepted : LimitOf(s)

(* Every step keeps it.                                                    *)
LEMMA ComputedStep ==
  ASSUME LimitsInv, GroupsInv, ComputedInv, [Next]_vars
  PROVE  ComputedInv'
<1> SUFFICES ASSUME FixedLimit' = None
             PROVE  ComputedInv'
  BY DEF ComputedInv
<1>0. FixedLimit = None /\ package' = package
  BY DEF Next, Start, SkipSubmission, CheckSubmission, ComputeTimeLimit, KeepTimeLimit, Finish,
         FixedLimit, settings, vars
<1>1. CASE Start
  <2>1. /\ judged' = judged /\ judged = <<>> /\ pc' = "lower"
        /\ timelim' = Cap
    BY <1>0, <1>1 DEF Start, LimitsInv, InitialTimeLimit
  <2>2. DOMAIN judged = {}
    BY <2>1, ShortSeqs
  <2>. QED  BY <2>1, <2>2 DEF ComputedInv, Accepted
<1>2. CASE CheckSubmission
  <2> DEFINE s == Head(todo)
             entry(b) == Entry(s, b)
  <2>1. PICK b \in [Keys -> package.behaviours] :
          judged' = [t \in DOMAIN judged \union {s} |-> IF t # s THEN judged[t] ELSE entry(b)]
    BY <1>2, JudgedSubmission
  <2>2. /\ pc' = pc /\ pc \in {"lower", "rest"} /\ todo # <<>>
        /\ timelim' = timelim /\ HasTestcases
    BY <1>2 DEF CheckSubmission
  <2>3. entry(b).beh = b /\ entry(b).low = Overall(b, timelim)
    BY DEF Entry, Overall
  <2>4. CASE pc = "lower"
    <3>1. timelim = Cap
      BY <1>0, <2>4 DEF ComputedInv
    <3> HIDE DEF s, entry
    <3>2. ASSUME NEW t \in Accepted'
          PROVE  JudgedAtCap(t)'
      <4>1. t \in DOMAIN judged' /\ LowerBoundsTimeLimit(t)
        BY DEF Accepted
      <4>2. CASE t = s
        <5>1. judged'[t] = entry(b)
          BY <2>1, <4>2
        <5>. QED  BY <1>0, <2>2, <2>3, <3>1, <5>1 DEF JudgedAtCap
      <4>3. CASE t # s
        <5>1. t \in DOMAIN judged /\ judged'[t] = judged[t]
          BY <2>1, <4>1, <4>3
        <5>2. JudgedAtCap(t)
          BY <1>0, <4>1, <5>1 DEF ComputedInv, Accepted
        <5>. QED  BY <1>0, <5>1, <5>2 DEF JudgedAtCap
      <4>. QED  BY <4>2, <4>3
    <3>. QED  BY <2>2, <2>4, <3>1, <3>2 DEF ComputedInv
  <2>5. CASE pc = "rest"
    <3>1. ~ LowerBoundsTimeLimit(s)
      BY <2>2, <2>5, NextSubmission DEF Unbounding
    <3> HIDE DEF s, entry
    <3>2. /\ Accepted' = Accepted
          /\ \A t \in Accepted : judged'[t] = judged[t]
      BY <2>1, <3>1 DEF Accepted
    <3>3. \A t \in Accepted' : JudgedAtCap(t)'
      BY <1>0, <3>2 DEF ComputedInv, JudgedAtCap
    <3>4. Accepted' # {} => \E t \in Accepted' : LimitOf(t)'
      BY <1>0, <2>2, <2>5, <3>2 DEF ComputedInv, LimitOf
    <3>. QED  BY <2>2, <2>5, <3>3, <3>4 DEF ComputedInv
  <2>. QED  BY <2>2, <2>4, <2>5
<1>3. CASE ComputeTimeLimit
  <2>1. /\ judged' = judged /\ judged # <<>> /\ pc = "lower" /\ pc' = "rest"
        /\ timelim' = RoundedLimit(SlowestRuntime)
    BY <1>0, <1>3 DEF ComputeTimeLimit
  <2>2. DOMAIN judged \subseteq Bounding
    BY <2>1 DEF GroupsInv
  <2>3. Accepted = DOMAIN judged /\ Accepted' = Accepted
    BY <2>1, <2>2 DEF Accepted, Bounding
  <2>4. PICK s \in DOMAIN judged :
          /\ SlowestRuntime = judged[s].low.runtime
          /\ \A t \in DOMAIN judged : judged[t].low.runtime <= judged[s].low.runtime
    BY <2>1, SlowestIsJudged
  <2>5. LimitOf(s)'
    BY <2>1, <2>3, <2>4 DEF LimitOf
  <2>6. \A t \in Accepted' : JudgedAtCap(t)'
    BY <1>0, <2>1, <2>3 DEF ComputedInv, JudgedAtCap
  <2>. QED  BY <2>1, <2>3, <2>5, <2>6 DEF ComputedInv
<1>4. CASE KeepTimeLimit
  <2>1. /\ judged' = judged /\ judged = <<>> /\ pc' = "rest"
    BY <1>4 DEF KeepTimeLimit
  <2>2. Accepted' = {}
    BY <2>1, ShortSeqs DEF Accepted
  <2>. QED  BY <2>1, <2>2 DEF ComputedInv
<1>5. CASE SkipSubmission \/ Finish \/ UNCHANGED vars
  <2>1. /\ judged' = judged /\ timelim' = timelim
        /\ pc' = pc \/ (pc = "rest" /\ pc' = "done")
    BY <1>5 DEF SkipSubmission, Finish, vars
  <2>2. Accepted' = Accepted
    BY <2>1 DEF Accepted
  <2>. QED  BY <1>0, <2>1, <2>2 DEF ComputedInv, JudgedAtCap, LimitOf
<1>. QED  BY <1>1, <1>2, <1>3, <1>4, <1>5 DEF Next

(* So it is at the start.                                                  *)
LEMMA ComputedInit == Init => GroupsInv /\ ComputedInv
<1> SUFFICES ASSUME Init
             PROVE  GroupsInv /\ ComputedInv
  OBVIOUS
<1>1. pc = "start" /\ judged = <<>> /\ DOMAIN judged = {}
  BY ShortSeqs DEF Init
<1>. QED  BY <1>1 DEF GroupsInv, ComputedInv, Accepted

(* It is what the property asks for.                                       *)
LEMMA ComputedFits ==
  ASSUME NothingOutlastsCap, LimitsInv, ComputedInv
  PROVE  ComputedLimitFits
<1> SUFFICES ASSUME pc \in {"rest", "done"}, FixedLimit = None, Accepted # {}
             PROVE  /\ timelim % TimeResolution = 0 /\ timelim > 0
                    /\ \A s \in Accepted : judged[s].low.verdict = "AC" =>
                         Accepts(Slowed(judged[s].beh), timelim)
                    /\ timelim > TimeResolution =>
                         \E s \in Accepted :
                           judged[s].low.runtime * AcToTimeLimit > timelim - TimeResolution
  BY DEF ComputedLimitFits
<1>1. PICK s \in Accepted : LimitOf(s)
  BY DEF ComputedInv
<1> DEFINE top == judged[s].low.runtime
<1>2. top \in Int
  BY <1>1 DEF LimitsInv, Accepted
<1>3. timelim = RoundedLimit(top) /\ \A t \in Accepted : judged[t].low.runtime <= top
  BY <1>1 DEF LimitOf
<1> HIDE DEF top
<1>4. /\ timelim \in Nat /\ timelim > 0 /\ timelim % TimeResolution = 0
      /\ timelim >= top * AcToTimeLimit
      /\ timelim > TimeResolution => top * AcToTimeLimit > timelim - TimeResolution
  BY <1>2, <1>3, RoundedLimitIsTight
<1>5. ASSUME NEW t \in Accepted, judged[t].low.verdict = "AC"
      PROVE  Accepts(Slowed(judged[t].beh), timelim)
  <2> DEFINE b == judged[t].beh
             r == judged[t].low.runtime
  <2>1. b \in [Keys -> package.behaviours] /\ judged[t].low = Overall(b, Cap) /\ HasTestcases
    BY <1>5 DEF ComputedInv, JudgedAtCap
  <2>2. b \in [Keys -> Behaviour] /\ \A k \in Keys : b[k].time <= Cap
    <3>1. package.behaviours \subseteq Behaviour
      BY PackagesAssumption DEF LimitsInv
    <3>2. \A e \in package.behaviours : e.time <= Cap
      BY DEF NothingOutlastsCap, LimitsInv
    <3>. QED  BY <2>1, <3>1, <3>2
  <2>3. r \in Int /\ r <= top
    BY <1>3, <1>5 DEF LimitsInv, Accepted
  <2>4. r = Overall(b, Cap).runtime /\ Accepts(b, Cap)
    BY <1>5, <2>1 DEF Accepts
  <2> HIDE DEF b, r
  <2>5. timelim >= r * AcToTimeLimit
    <3>1. AcToTimeLimit \in Nat
      BY LimitsAssumption
    <3>2. PICK gap \in Nat : top = r + gap
      <4>1. top - r \in Nat /\ top = r + (top - r)
        BY <1>2, <2>3
      <4>. QED  BY <4>1
    <3>3. top * AcToTimeLimit = r * AcToTimeLimit + gap * AcToTimeLimit
      BY <2>3, <3>1, <3>2
    <3>4. gap * AcToTimeLimit \in Nat /\ r * AcToTimeLimit \in Int
      BY <2>3, <3>1, <3>2
    <3>. QED  BY <1>4, <3>3, <3>4
  <2>6. Accepts(Slowed(b), timelim)
    BY <1>4, <2>1, <2>2, <2>4, <2>5, RoomForSlowed
  <2>. QED  BY <2>6 DEF b
<1>. QED  BY <1>4, <1>5 DEF top

(* Where every test case ends within the provisional limit, a computed     *)
(* time limit leaves the accepted submissions the promised room, and no    *)
(* more than the rounding asks for, whatever the graders and the           *)
(* multipliers.                                                            *)
THEOREM ComputedLimitIsFitting == NothingOutlastsCap => (Spec => []ComputedLimitFits)
<1> SUFFICES ASSUME NothingOutlastsCap
             PROVE  Spec => []ComputedLimitFits
  OBVIOUS
<1>1. Init => LimitsInv /\ LargestLimitFirst
  BY LimitsInit
<1>2. Init => GroupsInv /\ ComputedInv
  BY ComputedInit
<1>3. LimitsInv /\ ComputedInv => ComputedLimitFits
  BY ComputedFits
<1>. QED  BY <1>1, <1>2, <1>3, LimitsStep, GroupsStep, ComputedStep, PTL DEF Spec

-----------------------------------------------------------------------------
(* With strict graders, what is accepted at a limit is at a higher one.    *)
LEMMA AcceptedHigher ==
  ASSUME StrictGraders, NEW b \in [Keys -> Behaviour], NEW limit \in Int, NEW higher \in Int,
         limit <= higher, HasTestcases, Accepts(b, limit)
  PROVE  Accepts(b, higher)
<1> DEFINE run == RunAt(b, limit)
           other == RunAt(b, higher)
           list == AnswersOf(run)[Root]
           another == AnswersOf(other)[Root]
<1>0. Root \in Groups
  BY TreeAssumption
<1>1. run \in [Tests -> Judgements] /\ other \in [Tests -> Judgements]
  BY RunsTyped
<1>2. Results(b, limit) = list /\ Results(b, higher) = another
  <2>1. Results(b, limit) = Answer(run) /\ Results(b, higher) = Answer(other)
    BY DEF Results, RunAt
  <2> HIDE DEF run, other
  <2>. QED  BY <2>1, AnswersDef
<1>3. IsSeq(list) /\ IsSeq(another) /\ list # <<>>
  BY <1>0, AnswersAreSeqs, AnswersDef, SomethingToAnswer DEF HasTestcases
<1>4. Last(list).result.verdict = "AC"
  <2> HIDE DEF list
  <2>. QED  BY <1>2 DEF Accepts, Overall
<1>5. TestsAccepted(run, list)
  <2>1. AcceptedThroughout(run, list)
    <3> HIDE DEF run
    <3>. QED  BY <1>0, <1>1, AnswersAccepted
  <2> HIDE DEF list, run
  <2>. QED  BY <1>3, <1>4, <2>1 DEF AcceptedThroughout
<1>6. ASSUME NEW i \in DOMAIN list, list[i].node \in Tests
      PROVE  Alike(run[list[i].node], other[list[i].node])
  <2> DEFINE t == list[i].node
             beh == b[KeyOf[t]]
  <2>1. run[t].verdict = "AC"
    <3> HIDE DEF list, run
    <3>. QED  BY <1>5, <1>6 DEF TestsAccepted
  <2>2. run[t] = Judgement(Direct(beh, limit)) /\ other[t] = Judgement(Direct(beh, higher))
    BY <1>6 DEF RunAt
  <2>3. beh \in Behaviour
    BY <1>6, PackagesAssumption
  <2> HIDE DEF beh, t, run, other
  <2>4. Direct(beh, limit).verdict = "AC"
    BY <2>1, <2>2 DEF Judgement
  <2>5. Alike(Direct(beh, limit), Direct(beh, higher))
    BY <2>3, <2>4, DirectHigher
  <2>6. Alike(run[t], other[t])
    BY <2>2, <2>5 DEF Alike, Judgement
  <2>. QED  BY <2>6 DEF t
<1>7. AlikeLists(list, another)
  <2>1. SeenAlike(run, other, list)
    <3> HIDE DEF list, run, other
    <3>. QED  BY <1>6 DEF SeenAlike
  <2> HIDE DEF run, other
  <2>. QED  BY <1>0, <1>1, <2>1, AnswersAlike
<1> HIDE DEF list, another
<1>8. Last(list).result.verdict = Last(another).result.verdict
  BY <1>3, <1>7, LastAlike DEF Alike
<1>. QED  BY <1>2, <1>4, <1>8 DEF Accepts, Overall

(* The comparison of two accepted results of a submission meant to be too  *)
(* slow is an error.                                                       *)
LEMMA SlowIsAnError ==
  ASSUME NEW s, Expected(s) = "TLE", NEW low, NEW high, low.verdict = "AC", high.verdict = "AC"
  PROVE  Comparison(s, low, high) = {Error("verdict", s)}
<1>1. ~ Partial(s)
  BY DEF Partial, Expected, Expectations
<1>. QED  BY <1>1 DEF Comparison

(* Every step keeps the submissions that are too fast in the reports.      *)
LEMMA SlowStep ==
  ASSUME StrictGraders, LimitsInv, SlowSubmissionsAreRejected, [Next]_vars
  PROVE  SlowSubmissionsAreRejected'
<1>1. CASE CheckSubmission
  <2> DEFINE s == Head(todo)
             entry(b) == Entry(s, b)
  <2>1. PICK b \in [Keys -> package.behaviours] :
          /\ judged' = [t \in DOMAIN judged \union {s} |-> IF t # s THEN judged[t] ELSE entry(b)]
          /\ reports \subseteq reports'
          /\ Comparison(s, entry(b).low, entry(b).high) \subseteq reports'
    BY <1>1, JudgedSubmission
  <2>2. entry(b).low = Overall(b, timelim) /\ entry(b).high = Overall(b, timelim_high)
    BY DEF Entry, Overall
  <2>3. HasTestcases /\ timelim \in Int /\ timelim_high \in Int /\ timelim <= timelim_high
    <3>1. HasTestcases
      BY <1>1 DEF CheckSubmission
    <3>2. timelim \in Int /\ timelim_high \in Int /\ timelim <= timelim_high
      BY DEF LimitsInv
    <3>. QED  BY <3>1, <3>2
  <2>4. b \in [Keys -> Behaviour]
    <3>1. package.behaviours \subseteq Behaviour
      BY PackagesAssumption DEF LimitsInv
    <3>. QED  BY <3>1
  <2>5. entry(b).low.verdict = "AC" => entry(b).high.verdict = "AC"
    <3> HIDE DEF entry
    <3>. QED  BY <2>2, <2>3, <2>4, AcceptedHigher DEF Accepts
  <2> HIDE DEF s, entry
  <2>6. ASSUME NEW t \in DOMAIN judged', Expected(t) = "TLE", judged'[t].low.verdict = "AC"
        PROVE  t \in Reported("verdict")'
    <3>1. CASE t = s
      <4>1. judged'[t] = entry(b)
        BY <2>1, <3>1
      <4>2. Error("verdict", t) \in reports'
        BY <2>1, <2>5, <2>6, <3>1, <4>1, SlowIsAnError
      <4>. QED  BY <4>2 DEF Reported, Error
    <3>2. CASE t # s
      <4>1. t \in DOMAIN judged /\ judged'[t] = judged[t]
        BY <2>1, <2>6, <3>2
      <4>2. t \in Reported("verdict")
        BY <2>6, <4>1 DEF SlowSubmissionsAreRejected
      <4>. QED  BY <2>1, <4>2, ReportedStay
    <3>. QED  BY <3>1, <3>2
  <2>. QED  BY <2>6 DEF SlowSubmissionsAreRejected
<1>2. CASE Start
  <2>1. judged' = judged /\ DOMAIN judged = {}
    BY <1>2, ShortSeqs DEF Start, LimitsInv
  <2>. QED  BY <2>1 DEF SlowSubmissionsAreRejected
<1>3. CASE SkipSubmission \/ ComputeTimeLimit \/ KeepTimeLimit \/ Finish \/ UNCHANGED vars
  <2>1. judged' = judged /\ reports \subseteq reports'
    BY <1>3 DEF SkipSubmission, ComputeTimeLimit, KeepTimeLimit, Finish, vars
  <2>2. Reported("verdict") \subseteq Reported("verdict")'
    BY <2>1, ReportedStay
  <2>. QED  BY <2>1, <2>2 DEF SlowSubmissionsAreRejected
<1>. QED  BY <1>1, <1>2, <1>3 DEF Next

(* Where a group is accepted only if all its children are, a submission    *)
(* meant to be too slow that gets AC at the time limit is never passed     *)
(* over: it cannot time out at the high limit.                             *)
THEOREM SlowSubmissionsAreCaught == StrictGraders => (Spec => []SlowSubmissionsAreRejected)
<1> SUFFICES ASSUME StrictGraders
             PROVE  Spec => []SlowSubmissionsAreRejected
  OBVIOUS
<1>1. Init => LimitsInv /\ LargestLimitFirst
  BY LimitsInit
<1>2. Init => SlowSubmissionsAreRejected
  <2>1. Init => DOMAIN judged = {}
    BY ShortSeqs DEF Init
  <2>. QED  BY <2>1 DEF SlowSubmissionsAreRejected
<1>. QED  BY <1>1, <1>2, LimitsStep, SlowStep, PTL DEF Spec

-----------------------------------------------------------------------------
(* With strict graders, what is accepted at a limit is accepted at its      *)
(* runtime and above, and not below: there the slowest test case times out. *)
LEMMA AcceptsFrom ==
  ASSUME StrictGraders, NEW b \in [Keys -> Behaviour], \A k \in Keys : b[k].time <= Cap,
         HasTestcases, NEW limit \in Nat, Accepts(b, limit)
  PROVE  LET needed == Overall(b, limit).runtime
         IN  /\ needed \in 0 .. Cap /\ needed <= limit
             /\ needed \in Runtimes(Results(b, limit))
             /\ \A t \in Int : Accepts(b, t) <=> t >= needed
<1> DEFINE needed == Overall(b, limit).runtime
           run == RunAt(b, limit)
           list == AnswersOf(run)[Root]
<1>0. Root \in Groups /\ Cap \in Nat
  BY TreeAssumption, LimitsAssumption
<1>1. run \in [Tests -> Judgements]
  BY RunsTyped
<1>2. Results(b, limit) = list
  <2>1. Results(b, limit) = Answer(run)
    BY DEF Results, RunAt
  <2> HIDE DEF run
  <2>. QED  BY <2>1, AnswersDef
<1>3. IsSeq(list) /\ list # <<>>
  BY <1>0, AnswersAreSeqs, AnswersDef, SomethingToAnswer DEF HasTestcases
<1>4. Last(list).result.verdict = "AC" /\ needed = Last(list).result.runtime
  <2> HIDE DEF list
  <2>. QED  BY <1>2 DEF Accepts, Overall
<1>5. TestsAccepted(run, list)
  <2>1. AcceptedThroughout(run, list)
    <3> HIDE DEF run
    <3>. QED  BY <1>0, <1>1, AnswersAccepted
  <2> HIDE DEF list, run, needed
  <2>. QED  BY <1>3, <1>4, <2>1 DEF AcceptedThroughout
<1>6. NoneSlower(list, Last(list).result) /\ SomeTestTook(list, Last(list).result)
  <2>1. LastIsSlowest(list)
    <3> HIDE DEF run
    <3>. QED  BY <1>0, <1>1, AnswersSlowest
  <2> HIDE DEF list, needed
  <2>. QED  BY <1>3, <1>4, <2>1 DEF LastIsSlowest
<1>7. PICK i \in DOMAIN list : list[i].node \in Tests /\ list[i].result.runtime = needed
  <2> HIDE DEF list, needed
  <2>. QED  BY <1>4, <1>6 DEF SomeTestTook
<1> DEFINE test == list[i].node
           beh == b[KeyOf[test]]
<1>8. beh \in Behaviour /\ beh.time <= Cap /\ beh.time \in Nat
  <2>1. KeyOf[test] \in Keys
    BY <1>7, PackagesAssumption
  <2>2. beh \in Behaviour /\ beh.time <= Cap
    BY <2>1
  <2> HIDE DEF beh
  <2>. QED  BY <2>2 DEF Behaviour
<1>9. run[test].runtime = needed /\ run[test].verdict = "AC"
  <2>1. Timed(run, list[i])
    <3> HIDE DEF run
    <3>. QED  BY <1>0, <1>1, <1>7, AnswersTimed
  <2> HIDE DEF run, list, needed
  <2>. QED  BY <1>5, <1>7, <2>1 DEF Timed, TestsAccepted
<1>10. run[test] = Judgement(Direct(beh, limit))
  BY <1>7 DEF RunAt
<1> HIDE DEF beh
<1>11. ~ ValidatorDecides(beh) /\ needed = beh.time /\ needed <= limit
  <2>1. Direct(beh, limit).verdict = "AC" /\ Direct(beh, limit).runtime = needed
    <3> HIDE DEF run, list, needed
    <3>. QED  BY <1>9, <1>10 DEF Judgement
  <2> HIDE DEF run, list, needed
  <2>2. ~ ValidatorDecides(beh)
    BY <2>1 DEF Direct, ValidatorDecides
  <2>3. ~ (beh.time > limit)
    BY <2>1, <2>2 DEF Direct
  <2>. QED  BY <1>8, <2>1, <2>2, <2>3 DEF Direct
<1>12. needed \in Runtimes(Results(b, limit))
  <2> HIDE DEF list, needed
  <2>. QED  BY <1>2, <1>7 DEF Runtimes
<1>13. \A r \in Runtimes(Results(b, limit)) : r <= needed
  <2> HIDE DEF list, needed
  <2>. QED  BY <1>2, <1>4, <1>6 DEF Runtimes, NoneSlower
<1>14. needed \in Nat /\ needed <= Cap
  <2> HIDE DEF needed
  <2>. QED  BY <1>8, <1>11
<1>15. ASSUME NEW t \in Int, t >= needed
       PROVE  Accepts(b, t)
  <2>1. CASE t <= limit
    <3>1. \A r \in Runtimes(Results(b, limit)) : r <= limit => r <= t
      <4>1. Runtimes(Results(b, limit)) \subseteq Int
        BY RuntimesAreNumbers
      <4> HIDE DEF needed
      <4>. QED  BY <1>13, <1>14, <1>15, <4>1
    <3>. QED  BY <2>1, <3>1, AcceptsAlike
  <2>2. CASE t > limit
    BY <2>2, AcceptedHigher
  <2>. QED  BY <2>1, <2>2
<1>16. ASSUME NEW t \in Int, t < needed, Accepts(b, t)
       PROVE  FALSE
  <2> DEFINE early == RunAt(b, t)
             another == AnswersOf(early)[Root]
  <2>1. early \in [Tests -> Judgements]
    BY RunsTyped
  <2>2. Results(b, t) = another
    <3>1. Results(b, t) = Answer(early)
      BY DEF Results, RunAt
    <3> HIDE DEF early
    <3>. QED  BY <3>1, AnswersDef
  <2>3. IsSeq(another) /\ another # <<>>
    BY <1>0, AnswersAreSeqs, AnswersDef, SomethingToAnswer DEF HasTestcases
  <2>4. Last(another).result.verdict = "AC"
    <3> HIDE DEF another
    <3>. QED  BY <1>16, <2>2 DEF Accepts, Overall
  <2>5. TestsAccepted(early, another)
    <3>1. AcceptedThroughout(early, another)
      <4> HIDE DEF early
      <4>. QED  BY <1>0, <2>1, AnswersAccepted
    <3> HIDE DEF another, early
    <3>. QED  BY <2>3, <2>4, <3>1 DEF AcceptedThroughout
  <2>6. ASSUME NEW k \in DOMAIN another, another[k].node \in Tests
        PROVE  Alike(early[another[k].node], run[another[k].node])
    <3> DEFINE node == another[k].node
               does == b[KeyOf[node]]
    <3>1. early[node].verdict = "AC"
      <4> HIDE DEF another, early
      <4>. QED  BY <2>5, <2>6 DEF TestsAccepted
    <3>2. early[node] = Judgement(Direct(does, t)) /\ run[node] = Judgement(Direct(does, limit))
      BY <2>6 DEF RunAt
    <3>3. does \in Behaviour
      BY <2>6, PackagesAssumption
    <3>4. t <= limit
      <4> HIDE DEF needed
      <4>. QED  BY <1>11, <1>14, <1>16
    <3> HIDE DEF does, node, run, early
    <3>5. Direct(does, t).verdict = "AC"
      BY <3>1, <3>2 DEF Judgement
    <3>6. Alike(Direct(does, t), Direct(does, limit))
      BY <3>3, <3>4, <3>5, DirectHigher
    <3>7. Alike(early[node], run[node])
      BY <3>2, <3>6 DEF Alike, Judgement
    <3>. QED  BY <3>7 DEF node
  <2>7. AlikeLists(another, list)
    <3>1. SeenAlike(early, run, another)
      <4> HIDE DEF another, run, early
      <4>. QED  BY <2>6 DEF SeenAlike
    <3> HIDE DEF run, early
    <3>. QED  BY <1>0, <1>1, <2>1, <3>1, AnswersAlike
  <2>8. i \in DOMAIN another /\ another[i].node = test
    <3> HIDE DEF list, another
    <3>1. DOMAIN another = 1 .. Len(another) /\ DOMAIN list = 1 .. Len(list)
      BY <1>3, <2>3, SeqIsSeq DEF IsSeq
    <3>2. i \in 1 .. Len(another)
      BY <1>7, <2>7, <3>1 DEF AlikeLists
    <3>. QED  BY <2>7, <3>1, <3>2 DEF AlikeLists
  <2>9. early[test].verdict = "AC"
    <3> HIDE DEF another, early, list
    <3>. QED  BY <1>7, <2>5, <2>8 DEF TestsAccepted
  <2>10. early[test] = Judgement(Direct(beh, t))
    BY <1>7 DEF RunAt, beh
  <2> HIDE DEF early, another, list, run, needed, test
  <2>11. Direct(beh, t).verdict = "AC"
    BY <2>9, <2>10 DEF Judgement
  <2>12. ~ (beh.time > t)
    BY <1>11, <2>11 DEF Direct
  <2>. QED  BY <1>8, <1>11, <1>16, <2>12
<1>17. \A t \in Int : Accepts(b, t) <=> t >= needed
  <2> HIDE DEF needed
  <2>1. ASSUME NEW t \in Int
        PROVE  Accepts(b, t) <=> t >= needed
    <3>1. t >= needed \/ t < needed
      BY <1>14
    <3>2. CASE t >= needed
      BY <1>15, <3>2
    <3>3. CASE t < needed
      <4>1. ~ Accepts(b, t)
        BY <1>16, <3>3
      <4>. QED  BY <1>14, <3>3, <4>1
    <3>. QED  BY <3>1, <3>2, <3>3
  <2>. QED  BY <2>1
<1> HIDE DEF needed
<1>18. needed \in 0 .. Cap
  BY <1>0, <1>14
<1>. QED  BY <1>11, <1>12, <1>17, <1>18 DEF needed

-----------------------------------------------------------------------------
(* Above the longest runtime that does not move the limit, the rounding    *)
(* gives more than a limit it gave for something else; up to it, no more.  *)
LEMMA UnaffectedByLess ==
  ASSUME NEW r \in Nat, NEW top \in Int, timelim = RoundedLimit(top)
  PROVE  r > Unaffecting <=> RoundedLimit(r) > timelim
<1> DEFINE a == AcToTimeLimit
           q == timelim \div a
           m == timelim % a
           limit == RoundedLimit(r)
<1>1. a \in Nat \ {0} /\ TimeResolution \in Nat \ {0}
  BY LimitsAssumption
<1>2. timelim \in Nat /\ timelim > 0 /\ timelim % TimeResolution = 0
  BY RoundedLimitIsTight
<1>3. /\ limit \in Nat /\ limit > 0 /\ limit % TimeResolution = 0 /\ limit >= r * a
      /\ limit > TimeResolution => r * a > limit - TimeResolution
  BY RoundedLimitIsTight
<1>4. Unaffecting = q
  BY DEF Unaffecting
<1> HIDE DEF a, limit
<1>5. q \in Int /\ m \in 0 .. a - 1 /\ timelim = a * q + m
  BY <1>1, <1>2, DivMod
<1> HIDE DEF q, m
<1>6. r > q => r * a > timelim
  <2> SUFFICES ASSUME r > q
               PROVE  r * a > timelim
    OBVIOUS
  <2>1. PICK e \in Nat : r = q + 1 + e
    <3>1. r - q - 1 \in Nat /\ r = q + 1 + (r - q - 1)
      BY <1>5
    <3>. QED  BY <3>1
  <2>2. r * a = a * q + a + e * a
    BY <1>1, <1>5, <2>1
  <2>3. e * a \in Nat /\ a * q \in Int
    BY <1>1, <1>5
  <2>. QED  BY <1>1, <1>5, <2>2, <2>3
<1>7. ~ (r > q) => r * a <= timelim
  <2> SUFFICES ASSUME ~ (r > q)
               PROVE  r * a <= timelim
    OBVIOUS
  <2>1. PICK e \in Nat : q = r + e
    <3>1. q - r \in Nat /\ q = r + (q - r)
      BY <1>5
    <3>. QED  BY <3>1
  <2>2. a * q = r * a + e * a
    BY <1>1, <1>5, <2>1
  <2>3. e * a \in Nat /\ r * a \in Nat
    BY <1>1
  <2>. QED  BY <1>1, <1>5, <2>2, <2>3
<1>8. r * a \in Nat
  BY <1>1
<1>9. r * a <= timelim => limit <= timelim
  <2> SUFFICES ASSUME r * a <= timelim, limit > timelim
               PROVE  FALSE
    BY <1>2, <1>3
  <2>1. timelim >= TimeResolution /\ limit >= timelim + TimeResolution
    BY <1>1, <1>2, <1>3, MultiplesApart
  <2>2. limit > TimeResolution
    BY <1>1, <1>2, <2>1, <1>3
  <2>. QED  BY <1>1, <1>2, <1>3, <1>8, <2>1, <2>2
<1>. QED  BY <1>2, <1>3, <1>4, <1>6, <1>7, <1>8, <1>9 DEF limit

-----------------------------------------------------------------------------
(* The heading of the warning that a slow partial submission sets off.     *)
Slower == "slower than all"

(* The partially accepted submissions, as they were judged at the limit.   *)
Warned(b) == \E t \in Tried(b, Results(b, timelim)) \ {Unaffecting} : Accepts(b, t)

PacJudged(s) ==
  /\ pc \in {"rest", "done"} /\ HasTestcases
  /\ judged[s].beh \in [Keys -> package.behaviours]
  /\ judged[s].low = Overall(judged[s].beh, timelim)
  /\ judged[s].low.verdict = "AC" =>
       /\ judged[s].tried = Tried(judged[s].beh, Results(judged[s].beh, timelim))
       /\ s \in Reported(Slower) <=> Warned(judged[s].beh)

PacInv ==
  /\ Reported(Slower) \subseteq DOMAIN judged
  /\ \A s \in DOMAIN judged : Partial(s) => PacJudged(s)

(* The reports under other headings than the one of slow submissions.      *)
Other(r) == r.what # Slower

LEMMA OtherHeading ==
  ASSUME NEW w, w # Slower
  PROVE  \A x : Other(Warning(w, x)) /\ Other(Error(w, x))
BY DEF Other, Warning, Error

LEMMA OtherReports ==
  \A x : /\ Other(Error("score range", x))
         /\ Other(Warning("sample", x))
         /\ Other(Warning("sensitive", x))
         /\ Other(Warning("fully accepted", x))
         /\ Other(Warning("not full score", x))
         /\ Other(Error("verdict", x))
         /\ Other(Error("unknown directory", x))
         /\ Other(Error("none accepted", x))
         /\ Other(Warning("no test cases", x))
         /\ Other(Warning("two fixed limits", x))
         /\ Other(Warning("tight limit", x))
         /\ Other(Error("tight limit", x))
         /\ Other(Error("no time limit", x))
         /\ Other(Error("compile error", x))
<1>1. /\ "score range" # Slower /\ "sample" # Slower
      /\ "sensitive" # Slower /\ "fully accepted" # Slower
      /\ "not full score" # Slower /\ "verdict" # Slower
      /\ "unknown directory" # Slower /\ "none accepted" # Slower
      /\ "no test cases" # Slower /\ "two fixed limits" # Slower
      /\ "tight limit" # Slower /\ "no time limit" # Slower
      /\ "compile error" # Slower
  BY DEF Slower
<1>. QED  BY <1>1, OtherHeading

(* What a check of a submission adds to the reports of slow ones.          *)
LEMMA SlowerReports ==
  ASSUME CheckSubmission
  PROVE  \E b \in [Keys -> package.behaviours] :
           LET e == Entry(Head(todo), b)
           IN  /\ judged' = [t \in DOMAIN judged \union {Head(todo)} |->
                               IF t # Head(todo) THEN judged[t] ELSE e]
               /\ Reported(Slower)' = Reported(Slower) \union
                    (IF \E t \in e.tried \ {Unaffecting} : Accepts(b, t) THEN {Head(todo)} ELSE {})
<1> DEFINE s == Head(todo)
<1>1. PICK b \in [Keys -> package.behaviours] :
        /\ judged' = [t \in DOMAIN judged \union {s} |-> IF t # s THEN judged[t] ELSE Entry(s, b)]
        /\ \E others :
             /\ reports' = reports \union others \union
                  If(\E t \in Entry(s, b).tried \ {Unaffecting} : Accepts(b, t),
                     Warning(Slower, s))
             /\ \A r \in others : Other(r)
  <2>1. PICK b \in [Keys -> package.behaviours] :
          LET high == Overall(b, timelim_high)
              results == Results(b, timelim)
              low == Last(results).result
              oob == OutOfBounds(results)
              tried == IF Partial(s) /\ low.verdict = "AC" THEN Tried(b, results) ELSE {}
          IN  /\ judged' = [t \in DOMAIN judged \union {s} |->
                              IF t # s THEN judged[t]
                              ELSE [beh |-> b, low |-> low, high |-> high,
                                    first |-> timelim_high, second |-> timelim, tried |-> tried]]
              /\ reports' = reports
                   \union {Error("score range", <<s, g>>) : g \in oob \ seen_oob_score_groups}
                   \union If(Expected(s) = "AC" /\ ~ Partial(s) /\ low.verdict = "AC"
                               /\ SampleFailure(results), Warning("sample", s))
                   \union If(\E t \in tried \ {Unaffecting} : Accepts(b, t),
                             Warning("slower than all", s))
                   \union If(Sensitive(low, high), Warning("sensitive", s))
                   \union Comparison(s, low, high)
    BY Zenon DEF CheckSubmission
  <2> DEFINE high == Overall(b, timelim_high)
             results == Results(b, timelim)
             low == Last(results).result
             oob == OutOfBounds(results)
             tried == IF Partial(s) /\ low.verdict = "AC" THEN Tried(b, results) ELSE {}
             ranged == {Error("score range", <<s, g>>) : g \in oob \ seen_oob_score_groups}
             failed == If(Expected(s) = "AC" /\ ~ Partial(s) /\ low.verdict = "AC"
                            /\ SampleFailure(results), Warning("sample", s))
             slow == If(\E t \in tried \ {Unaffecting} : Accepts(b, t), Warning(Slower, s))
             near == If(Sensitive(low, high), Warning("sensitive", s))
             others == ranged \union failed \union near \union Comparison(s, low, high)
  <2>2. \A r \in others : Other(r)
    <3> HIDE DEF high, results, low, oob, s
    <3>1. \A r \in Comparison(s, low, high) : Other(r)
      <4>1. Comparison(s, low, high) \subseteq
              {Warning("fully accepted", s), Warning("not full score", s), Error("verdict", s)}
        BY DEF Comparison, If
      <4>. QED  BY <4>1, OtherReports
    <3>2. \A c \in BOOLEAN : \A q : Other(q) => \A r \in If(c, q) : Other(r)
      BY DEF If
    <3>3. \A r \in ranged : Other(r)
      BY OtherReports
    <3> DEFINE c1 == Expected(s) = "AC" /\ ~ Partial(s) /\ low.verdict = "AC"
                       /\ SampleFailure(results)
               c2 == Sensitive(low, high)
    <3>4. c1 \in BOOLEAN /\ c2 \in BOOLEAN
      BY DEF Sensitive
    <3>5. failed = If(c1, Warning("sample", s)) /\ near = If(c2, Warning("sensitive", s))
      OBVIOUS
    <3> HIDE DEF c1, c2, ranged, failed, near
    <3>6. /\ \A r \in If(c1, Warning("sample", s)) : Other(r)
          /\ \A r \in If(c2, Warning("sensitive", s)) : Other(r)
      BY <3>2, <3>4, OtherReports
    <3>. QED  BY <3>1, <3>3, <3>5, <3>6
  <2>3. Entry(s, b) = [beh |-> b, low |-> low, high |-> high,
                       first |-> timelim_high, second |-> timelim, tried |-> tried]
    BY DEF Entry
  <2>4. judged' = [t \in DOMAIN judged \union {s} |-> IF t # s THEN judged[t] ELSE Entry(s, b)]
    BY <2>1, <2>3, Zenon
  <2>5. reports' = reports \union ranged \union failed \union slow \union near
                     \union Comparison(s, low, high)
    BY <2>1, Zenon DEF Slower
  <2>6. Entry(s, b).tried = tried
    <3> HIDE DEF high, low, tried, s
    <3>. QED  BY <2>3
  <2>7. reports' = reports \union others \union slow
    <3> HIDE DEF s, high, results, low, oob, ranged, failed, slow, near
    <3>. QED  BY <2>5
  <2> HIDE DEF others, tried, s
  <2>. QED  BY <2>2, <2>4, <2>6, <2>7
<1> DEFINE warns == \E t \in Entry(s, b).tried \ {Unaffecting} : Accepts(b, t)
<1>2. PICK others :
        /\ reports' = reports \union others \union If(warns, Warning(Slower, s))
        /\ \A r \in others : Other(r)
  BY <1>1
<1> HIDE DEF s, warns
<1>3. If(warns, Warning(Slower, s)) =
        IF warns THEN {Warning(Slower, s)} ELSE {}
  BY DEF If
<1>4. /\ Warning(Slower, s).what = Slower
      /\ Warning(Slower, s).about = s
  BY DEF Warning
<1>5. Reported(Slower)' =
        Reported(Slower) \union (IF warns THEN {s} ELSE {})
  BY <1>2, <1>3, <1>4 DEF Reported, Other
<1>. QED  BY <1>1, <1>5 DEF s, warns

(* Every step keeps that.                                                  *)
LEMMA PacStep ==
  ASSUME LimitsInv, GroupsInv, PacInv, [Next]_vars
  PROVE  PacInv'
<1> DEFINE slower == Reported(Slower)
<1>1. CASE Start
  <2>1. judged' = judged /\ DOMAIN judged = {}
    BY <1>1, ShortSeqs DEF Start, LimitsInv
  <2>2. \A r \in reports' : Other(r)
    BY <1>1, OtherReports DEF Start, If
  <2>3. slower' = {}
    BY <2>2 DEF Reported, Other
  <2>. QED  BY <2>1, <2>3 DEF PacInv
<1>2. CASE CheckSubmission
  <2> DEFINE s == Head(todo)
             entry(b) == Entry(s, b)
             warns(b) == \E t \in entry(b).tried \ {Unaffecting} : Accepts(b, t)
  <2>1. PICK b \in [Keys -> package.behaviours] :
          /\ judged' = [t \in DOMAIN judged \union {s} |-> IF t # s THEN judged[t] ELSE entry(b)]
          /\ slower' = slower \union (IF warns(b) THEN {s} ELSE {})
    BY <1>2, SlowerReports
  <2>2. /\ pc' = pc /\ pc \in {"lower", "rest"} /\ todo # <<>>
        /\ timelim' = timelim /\ package' = package /\ HasTestcases
    BY <1>2 DEF CheckSubmission, settings
  <2>3. /\ entry(b).beh = b /\ entry(b).low = Overall(b, timelim)
        /\ Partial(s) /\ entry(b).low.verdict = "AC" => entry(b).tried = Tried(b, Results(b, timelim))
    BY DEF Entry, Overall
  <2>4. Partial(s) => pc = "rest" /\ s \notin DOMAIN judged
    <3>1. pc = "lower" => LowerBoundsTimeLimit(s)
      BY <2>2, NextSubmission DEF Bounding
    <3>2. ~ (Partial(s) /\ LowerBoundsTimeLimit(s))
      BY DEF Partial, LowerBoundsTimeLimit
    <3>3. pc = "rest" => s \notin DOMAIN judged
      BY <2>2, NextSubmission
    <3>. QED  BY <2>2, <3>1, <3>2, <3>3
  <2> HIDE DEF s, entry
  <2>5. slower' \subseteq DOMAIN judged'
    BY <2>1 DEF PacInv
  <2>6. ASSUME NEW t \in DOMAIN judged', Partial(t)
        PROVE  PacJudged(t)'
    <3>1. CASE t = s
      <4>1. judged'[t] = entry(b) /\ s \notin slower /\ pc = "rest"
        BY <2>1, <2>4, <2>6, <3>1 DEF PacInv
      <4>2. entry(b).low.verdict = "AC" => (t \in slower' <=> Warned(b))
        BY <2>1, <2>3, <2>6, <3>1, <4>1 DEF Warned
      <4>3. Warned(b)' <=> Warned(b)
        BY <2>2 DEF Warned, Tried, Candidates, Unaffecting
      <4>4. judged'[t].beh = b /\ judged'[t].low = Overall(b, timelim')
        BY <2>2, <2>3, <4>1
      <4>5. judged'[t].low.verdict = "AC" => judged'[t].tried = Tried(b, Results(b, timelim))
        BY <2>3, <2>6, <3>1, <4>1
      <4>6. Tried(b, Results(b, timelim))' = Tried(b, Results(b, timelim))
        BY <2>2 DEF Tried, Candidates, Unaffecting
      <4>. QED  BY <2>2, <2>3, <4>1, <4>2, <4>3, <4>4, <4>5, <4>6 DEF PacJudged
    <3>2. CASE t # s
      <4>1. t \in DOMAIN judged /\ judged'[t] = judged[t]
        BY <2>1, <2>6, <3>2
      <4>2. PacJudged(t) /\ (t \in slower' <=> t \in slower)
        BY <2>1, <2>6, <3>2, <4>1 DEF PacInv
      <4>. QED  BY <2>2, <4>1, <4>2 DEF PacJudged, Warned, Tried, Candidates, Unaffecting
    <3>. QED  BY <3>1, <3>2
  <2>. QED  BY <2>5, <2>6 DEF PacInv
<1>3. CASE ComputeTimeLimit \/ KeepTimeLimit
  <2>1. judged' = judged /\ pc = "lower"
    BY <1>3 DEF ComputeTimeLimit, KeepTimeLimit
  <2>2. slower' = slower
    <3>1. reports \subseteq reports' /\ \A r \in reports' \ reports : Other(r)
      BY <1>3, OtherReports DEF ComputeTimeLimit, KeepTimeLimit, If
    <3>. QED  BY <3>1 DEF Reported, Other
  <2>3. \A s \in DOMAIN judged : ~ Partial(s)
    BY <2>1 DEF GroupsInv, Bounding, Partial, LowerBoundsTimeLimit
  <2>. QED  BY <2>1, <2>2, <2>3 DEF PacInv
<1>4. CASE SkipSubmission
  <2>1. judged' = judged /\ pc' = pc /\ timelim' = timelim /\ package' = package
    BY <1>4 DEF SkipSubmission, settings
  <2>2. slower' = slower
    <3>1. reports \subseteq reports' /\ \A r \in reports' \ reports : Other(r)
      BY <1>4, OtherReports DEF SkipSubmission
    <3>. QED  BY <3>1 DEF Reported, Other
  <2>3. ASSUME NEW t \in DOMAIN judged, Partial(t)
        PROVE  PacJudged(t)'
    BY <2>1, <2>2, <2>3 DEF PacInv, PacJudged, Warned, Tried, Candidates, Unaffecting
  <2>. QED  BY <2>1, <2>2, <2>3 DEF PacInv
<1>5. CASE Finish \/ UNCHANGED vars
  <2>1. /\ judged' = judged /\ timelim' = timelim /\ package' = package /\ reports' = reports
        /\ pc' = pc \/ pc' = "done"
    BY <1>5 DEF Finish, settings, vars
  <2>2. slower' = slower
    BY <2>1 DEF Reported
  <2>3. ASSUME NEW t \in DOMAIN judged, Partial(t)
        PROVE  PacJudged(t)'
    BY <2>1, <2>2, <2>3 DEF PacInv, PacJudged, Warned, Tried, Candidates, Unaffecting
  <2>. QED  BY <2>1, <2>2, <2>3 DEF PacInv
<1>. QED  BY <1>1, <1>2, <1>3, <1>4, <1>5 DEF Next

-----------------------------------------------------------------------------
(* A number of a set that is no smaller than the others is its greatest,   *)
(* and one that is no greater its least.                                   *)
LEMMA MaxIs ==
  ASSUME NEW T \in SUBSET Int, NEW m \in T, \A x \in T : x <= m
  PROVE  Max(T) = m
<1>1. \A x \in T : m >= x
  OBVIOUS
<1> DEFINE x == Max(T)
<1>2. x \in T /\ x >= m
  BY <1>1 DEF Max
<1> HIDE DEF x
<1>3. x = m
  BY <1>2
<1>. QED  BY <1>3 DEF x

LEMMA MinIs ==
  ASSUME NEW T \in SUBSET Nat, NEW m \in T, \A x \in T : m <= x
  PROVE  Min(T) = m
<1> DEFINE x == Min(T)
<1>1. x \in T /\ x <= m
  BY MinIsLeast
<1> HIDE DEF x
<1>2. x = m
  BY <1>1
<1>. QED  BY <1>2 DEF x

(* The judge is called at the runtimes above the one that does not move    *)
(* the limit until one suffices: at exactly the runtime that is needed.    *)
LEMMA TriedIsExact ==
  ASSUME NEW b \in [Keys -> Behaviour], timelim \in Nat, HasTestcases,
         NEW needed \in Nat, needed \in Runtimes(Results(b, timelim)),
         \A t \in Int : Accepts(b, t) <=> t >= needed
  PROVE  /\ Warned(b) <=> needed > Unaffecting
         /\ Warned(b) => Max(Tried(b, Results(b, timelim))) = needed
<1> DEFINE C == Candidates(Results(b, timelim))
           T == Tried(b, Results(b, timelim))
           U == Unaffecting
<1>1. U \in Nat
  BY LimitsAssumption, QuotientIsLess DEF Unaffecting
<1>2. C \subseteq Int /\ (\A t \in C : t > U) /\ (needed > U => needed \in C)
  <2>1. Runtimes(Results(b, timelim)) \subseteq Int
    BY RuntimesAreNumbers
  <2>. QED  BY <2>1 DEF Candidates
<1>3. \A t : t \in T <=> t = U \/ (t \in C /\ \A u \in C \union {U} : u < t => ~ Accepts(b, u))
  BY DEF Tried
<1>4. Warned(b) <=> \E t \in T \ {U} : Accepts(b, t)
  BY DEF Warned
<1> HIDE DEF C, T, U
<1>5. T \subseteq Int
  <2> SUFFICES ASSUME NEW t \in T
               PROVE  t \in Int
    OBVIOUS
  <2>1. CASE t = U
    BY <1>1, <2>1
  <2>2. CASE t \in C
    BY <1>2, <2>2
  <2>. QED  BY <1>3, <2>1, <2>2
<1>6. ASSUME needed > U
      PROVE  Warned(b) /\ Max(T) = needed
  <2>1. needed \in C /\ needed # U
    BY <1>1, <1>2, <1>6
  <2>2. ASSUME NEW u \in C \union {U}, u < needed
        PROVE  ~ Accepts(b, u)
    <3>1. u \in Int
      BY <1>1, <1>2
    <3>. QED  BY <2>2, <3>1
  <2>3. needed \in T
    BY <1>3, <2>1, <2>2
  <2>4. Accepts(b, needed)
    OBVIOUS
  <2>5. ASSUME NEW t \in T
        PROVE  t <= needed
    <3>1. t \in Int
      BY <1>5
    <3>2. CASE t = U
      BY <1>1, <1>6, <3>2
    <3>3. CASE \A u \in C \union {U} : u < t => ~ Accepts(b, u)
      <4>1. ~ (needed < t)
        BY <2>1, <2>4, <3>3
      <4>. QED  BY <3>1, <4>1
    <3>. QED  BY <1>3, <3>2, <3>3
  <2>6. Max(T) = needed
    BY <1>5, <2>3, <2>5, MaxIs
  <2>. QED  BY <1>4, <2>1, <2>3, <2>4, <2>6
<1>7. ASSUME ~ (needed > U)
      PROVE  ~ Warned(b)
  <2>1. Accepts(b, U)
    BY <1>1, <1>7
  <2>2. ASSUME NEW t \in T \ {U}
        PROVE  FALSE
    <3>1. t \in C /\ \A u \in C \union {U} : u < t => ~ Accepts(b, u)
      BY <1>3, <2>2
    <3>2. U < t
      BY <1>1, <1>2, <3>1
    <3>. QED  BY <2>1, <3>1, <3>2
  <2>. QED  BY <1>4, <2>2
<1>. QED  BY <1>6, <1>7 DEF T, U

(* So the warning says what it should.                                     *)
LEMMA PacExact ==
  ASSUME StrictGraders, NothingOutlastsCap, LimitsInv, ComputedInv, PacInv
  PROVE  PacWarningIsExact
<1> SUFFICES ASSUME NEW s \in DOMAIN judged, Partial(s), judged[s].low.verdict = "AC",
                    FixedLimit = None, Accepted # {}
             PROVE  LET needed == Min(Suffices(s))
                    IN  IF s \in Reported(Slower)
                        THEN /\ RoundedLimit(needed) > timelim
                             /\ Max(judged[s].tried) = needed
                        ELSE RoundedLimit(needed) <= timelim
  BY DEF PacWarningIsExact, Slower
<1> DEFINE b == judged[s].beh
           needed == Overall(b, timelim).runtime
<1>1. PacJudged(s)
  BY DEF PacInv
<1>2. /\ b \in [Keys -> package.behaviours] /\ HasTestcases /\ pc \in {"rest", "done"}
      /\ judged[s].tried = Tried(b, Results(b, timelim))
      /\ s \in Reported(Slower) <=> Warned(b)
      /\ judged[s].low = Overall(b, timelim)
  BY <1>1 DEF PacJudged
<1>3. b \in [Keys -> Behaviour] /\ \A k \in Keys : b[k].time <= Cap
  <2>1. package.behaviours \subseteq Behaviour
    BY PackagesAssumption DEF LimitsInv
  <2>2. \A e \in package.behaviours : e.time <= Cap
    BY DEF NothingOutlastsCap, LimitsInv
  <2>. QED  BY <1>2, <2>1, <2>2
<1>4. Accepts(b, timelim)
  BY <1>2 DEF Accepts
<1>5. PICK top \in Int : timelim = RoundedLimit(top)
  <2>1. PICK t \in Accepted : LimitOf(t)
    BY <1>2 DEF ComputedInv
  <2>. QED  BY <2>1 DEF LimitOf, LimitsInv, Accepted
<1>6. timelim \in Nat /\ Suffices(s) = {t \in 0 .. Cap : Accepts(b, t)}
  BY DEF LimitsInv, Suffices
<1> HIDE DEF b
<1>7. /\ needed \in 0 .. Cap /\ needed \in Runtimes(Results(b, timelim))
      /\ \A t \in Int : Accepts(b, t) <=> t >= needed
  BY <1>2, <1>3, <1>4, <1>6, AcceptsFrom
<1> HIDE DEF needed
<1>8. Cap \in Nat /\ needed \in Nat
  BY <1>7, LimitsAssumption
<1>9. Min(Suffices(s)) = needed
  <2> DEFINE T == Suffices(s)
  <2>1. T \in SUBSET Nat /\ needed \in T /\ \A t \in T : needed <= t
    BY <1>6, <1>7, <1>8
  <2> HIDE DEF T
  <2>2. Min(T) = needed
    BY <2>1, MinIs
  <2>. QED  BY <2>2 DEF T
<1>10. /\ Warned(b) <=> needed > Unaffecting
       /\ Warned(b) => Max(Tried(b, Results(b, timelim))) = needed
  BY <1>2, <1>3, <1>6, <1>7, <1>8, TriedIsExact
<1>11. needed > Unaffecting <=> RoundedLimit(needed) > timelim
  BY <1>5, <1>8, UnaffectedByLess
<1>12. RoundedLimit(needed) \in Nat
  BY <1>8, RoundedLimitIsNumber
<1>13. CASE s \in Reported(Slower)
  BY <1>2, <1>9, <1>10, <1>11, <1>13
<1>14. CASE s \notin Reported(Slower)
  <2>1. ~ (RoundedLimit(needed) > timelim)
    BY <1>2, <1>10, <1>11, <1>14
  <2> DEFINE limit == RoundedLimit(needed)
  <2> HIDE DEF limit
  <2>2. limit <= timelim
    BY <1>6, <1>12, <2>1 DEF limit
  <2>. QED  BY <1>9, <1>14, <2>2 DEF limit
<1>. QED  BY <1>13, <1>14

(* With strict graders, and where every test case ends within the          *)
(* provisional limit, the warning about a slow partially accepted          *)
(* submission is exact: it is given if and only if the submission would    *)
(* have moved the computed limit, and names the least limit that suffices. *)
THEOREM SlowWarningIsExact == StrictGraders /\ NothingOutlastsCap => (Spec => []PacWarningIsExact)
<1> SUFFICES ASSUME StrictGraders, NothingOutlastsCap
             PROVE  Spec => []PacWarningIsExact
  OBVIOUS
<1>1. Init => LimitsInv /\ LargestLimitFirst
  BY LimitsInit
<1>2. Init => GroupsInv /\ ComputedInv
  BY ComputedInit
<1>3. Init => PacInv
  <2> SUFFICES ASSUME Init
               PROVE  PacInv
    OBVIOUS
  <2>1. DOMAIN judged = {} /\ reports = {}
    BY ShortSeqs DEF Init
  <2>. QED  BY <2>1 DEF PacInv, Reported
<1>4. LimitsInv /\ ComputedInv /\ PacInv => PacWarningIsExact
  BY PacExact
<1>. QED  BY <1>1, <1>2, <1>3, <1>4, LimitsStep, GroupsStep, ComputedStep, PacStep, PTL DEF Spec
==============================================================================
