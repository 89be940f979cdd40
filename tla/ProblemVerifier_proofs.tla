------------------------ MODULE ProblemVerifier_proofs ------------------------
(***************************************************************************)
(* Proofs about module ProblemVerifier, for any number of problems, jobs   *)
(* and workers and any presses of Ctrl-C.                                  *)
(***************************************************************************)
EXTENDS ProblemVerifier, TLAPS

(* Whether the wait before the removal is undisturbed.                     *)
Undisturbed == hits \intersect {"appending", "waiting"} = {}

(* Why removal is safe: the list lacks at most the job being submitted,    *)
(* so the wait leaves no job over; only a run without Ctrl-C goes on to    *)
(* another problem; and a directory is in place from Enter to Remove.      *)
Inside == {"checking", "appending", "cancelling", "waiting", "removing"}

ListIsComplete ==
  /\ pc = "appending" => submitted = tracked + 1
  /\ pc # "appending" /\ "appending" \notin hits => submitted = tracked

NobodyLeft ==
  pc \in {"loading", "removing", "exiting", "exited"} /\ Undisturbed =>
    \A j \in Jobs : ~ Unfinished(j)

InterruptsUnwind ==
  /\ hits # {} => unwinding
  /\ pc \in {"loading", "checking", "appending"} => ~ unwinding

InPlace == pc \in Inside => problem \in dirs

JobsWereSubmitted == \A j \in Jobs : Unfinished(j) => j <= submitted

IInv ==
  /\ TypeOK
  /\ ListIsComplete
  /\ NobodyLeft
  /\ InterruptsUnwind
  /\ InPlace
  /\ JobsWereSubmitted
  /\ ProblemsDoNotOverlap

(* Types; that the list is no longer than the queue needs ListIsComplete.  *)
LEMMA InitTyped == Init => TypeOK
<1> SUFFICES ASSUME Init PROVE TypeOK
  OBVIOUS
<1> USE BoundsAssumption DEF Init
<1>1. problem \in 1 .. Problems /\ cursor \in 1 .. MaxJobs + 1
  OBVIOUS
<1>2. owner \in [Jobs -> 0 .. Problems]
  OBVIOUS
<1>3. worker \in [Workers -> Jobs \union {NoJob}]
  OBVIOUS
<1>4. state \in [Jobs -> {"none", "queued", "cancelled", "running", "finished", "notified"}]
  OBVIOUS
<1>5. submitted \in 0 .. MaxJobs /\ tracked \in 0 .. submitted
  OBVIOUS
<1>6. pc \in Labels /\ hits \subseteq Labels /\ dirs \subseteq 1 .. Problems
  BY DEF Labels
<1>7. CountsTypeOK
  BY DEF CountsTypeOK
<1>8. step \in Nat /\ purpose \in [Jobs -> Nat]
  OBVIOUS
<1>9. unwinding \in BOOLEAN
  OBVIOUS
<1>. QED  BY <1>1, <1>2, <1>3, <1>4, <1>5, <1>6, <1>7, <1>8, <1>9 DEF TypeOK

(* The counters of errors stay between 0 and the bound.                    *)
LEMMA CountedTyped ==
  ASSUME CountsTypeOK, NEW p, errors' = [errors EXCEPT ![p] = Counted(@)]
  PROVE  errors' \in [1 .. Problems -> 0 .. MaxErrors]
<1>1. \A n \in 0 .. MaxErrors : Counted(n) \in 0 .. MaxErrors
  BY BoundsAssumption DEF Counted
<1>2. errors \in [1 .. Problems -> 0 .. MaxErrors]
  BY DEF CountsTypeOK
<1>3. ASSUME NEW q \in 1 .. Problems PROVE errors'[q] \in 0 .. MaxErrors
  BY <1>1, <1>2
<1>4. errors' = [q \in 1 .. Problems |-> errors'[q]]
  BY <1>2
<1>. QED  BY <1>3, <1>4

LEMMA StepCountsTyped == TypeOK /\ [Next]_vars => CountsTypeOK'
<1> SUFFICES ASSUME TypeOK, [Next]_vars PROVE CountsTypeOK'
  OBVIOUS
<1>0. CountsTypeOK /\ problem \in 1 .. Problems
  BY DEF TypeOK
<1>1. CASE CheckError \/ Fail \/ LoadFails \/ \E w \in Workers : JobError(w)
  <2>1. errors' \in [1 .. Problems -> 0 .. MaxErrors]
    BY <1>0, <1>1, CountedTyped DEF CheckError, Fail, LoadFails, JobError
  <2>2. total' \in Nat
    BY <1>0, <1>1, <2>1 DEF CheckError, Fail, LoadFails, JobError, CountsTypeOK
  <2>3. result' = result /\ status' = status
    BY <1>1 DEF CheckError, Fail, LoadFails, JobError
  <2>. QED  BY <1>0, <2>1, <2>2, <2>3 DEF CountsTypeOK
<1>2. CASE Wait
  BY <1>0, <1>2 DEF Wait, CountsTypeOK
<1>3. CASE Remove
  <2>1. total' = total \/ total' = total + result
    BY <1>3 DEF Remove
  <2>2. UNCHANGED <<errors, result, status>>
    BY <1>3 DEF Remove
  <2>. QED  BY <1>0, <2>1, <2>2, BoundsAssumption DEF CountsTypeOK
<1>4. CASE Exit
  BY <1>0, <1>4 DEF Exit, CountsTypeOK
<1>5. CASE UNCHANGED counts
  BY <1>0, <1>5 DEF counts, CountsTypeOK
<1>. QED
  BY <1>1, <1>2, <1>3, <1>4, <1>5
     DEF Next, Main, Work, Enter, Submit, AppendFuture, NextStep, FinishCheck, Crash, CancelNext,
         CancelDone, Interrupt, Take, FinishJob, vars

LEMMA StepTyped == TypeOK /\ ListIsComplete /\ [Next]_vars => TypeOK'
<1> SUFFICES ASSUME TypeOK, ListIsComplete, [Next]_vars PROVE TypeOK'
  OBVIOUS
<1>0. CountsTypeOK'
  BY StepCountsTyped
<1> USE <1>0, BoundsAssumption DEF TypeOK, Jobs, Labels, jobVars
<1>1. CASE Enter \/ LoadFails \/ Remove
  <2>1. problem' \in 1 .. Problems /\ pc' \in Labels
    BY <1>1 DEF Enter, LoadFails, Remove, NextProblem
  <2>2. dirs' \subseteq 1 .. Problems
    BY <1>1 DEF Enter, LoadFails, Remove
  <2>3. UNCHANGED <<submitted, tracked, owner, purpose, state, worker, cursor, unwinding, hits>>
    BY <1>1 DEF Enter, LoadFails, Remove
  <2>4. step' \in Nat
    BY <1>1 DEF Enter, LoadFails, Remove
  <2>. QED  BY <2>1, <2>2, <2>3, <2>4
<1>2. CASE Submit \/ AppendFuture
  <2>1. CASE Submit
    <3>1. submitted' \in 0 .. MaxJobs /\ tracked' \in 0 .. submitted'
      BY <2>1 DEF Submit
    <3>2. owner' \in [Jobs -> 0 .. Problems]
      BY <2>1 DEF Submit
    <3>3. state' \in [Jobs -> {"none", "queued", "cancelled", "running", "finished", "notified"}]
      BY <2>1 DEF Submit
    <3>4. purpose' \in [Jobs -> Nat]
      BY <2>1 DEF Submit
    <3>. QED  BY <2>1, <3>1, <3>2, <3>3, <3>4 DEF Submit
  <2>2. CASE AppendFuture
    <3>1. submitted = tracked + 1
      BY <2>2 DEF AppendFuture, ListIsComplete
    <3>. QED  BY <2>2, <3>1 DEF AppendFuture
  <2>. QED BY <1>2, <2>1, <2>2
<1>3. CASE FinishCheck \/ Crash \/ CancelDone \/ Wait \/ Exit \/ NextStep
  <2>1. CASE FinishCheck
    BY <2>1 DEF FinishCheck
  <2>2. CASE Crash
    BY <2>2 DEF Crash
  <2>3. CASE CancelDone
    BY <2>3 DEF CancelDone
  <2>4. CASE Wait
    BY <2>4 DEF Wait
  <2>5. CASE Exit
    BY <2>5 DEF Exit
  <2>6. CASE NextStep
    <3>1. step' \in Nat
      BY <2>6 DEF NextStep
    <3>. QED  BY <2>6, <3>1 DEF NextStep
  <2>. QED  BY <1>3, <2>1, <2>2, <2>3, <2>4, <2>5, <2>6
<1>4. CASE CancelNext
  <2>1. \/ state' = [state EXCEPT ![cursor] = "cancelled"]
        \/ state' = [state EXCEPT ![cursor] = state[cursor]]
    BY <1>4 DEF CancelNext
  <2>2. state' \in [Jobs -> {"none", "queued", "cancelled", "running", "finished", "notified"}]
    BY <2>1
  <2>3. cursor' \in 1 .. MaxJobs + 1
    BY <1>4 DEF CancelNext
  <2>. QED  BY <1>4, <2>2, <2>3 DEF CancelNext
<1>5. CASE Interrupt
  <2>1. pc' \in Labels
    BY <1>5 DEF Interrupt, After
  <2>. QED BY <1>5, <2>1 DEF Interrupt
<1>6. ASSUME NEW w \in Workers, NEW j \in Jobs, Take(w, j) PROVE TypeOK'
  BY <1>6 DEF Take
<1>7. ASSUME NEW w \in Workers, FinishJob(w) PROVE TypeOK'
  BY <1>7 DEF FinishJob
<1>8. CASE UNCHANGED vars
  BY <1>8 DEF vars
<1>9. CASE CheckError \/ Fail
  BY <1>9 DEF CheckError, Fail
<1>10. ASSUME NEW w \in Workers, JobError(w) PROVE TypeOK'
  BY <1>10 DEF JobError
<1>. QED
  BY <1>1, <1>2, <1>3, <1>4, <1>5, <1>6, <1>7, <1>8, <1>9, <1>10 DEF Next, Main, Work

LEMMA InitInvariant == Init => IInv
<1> SUFFICES ASSUME Init PROVE IInv
  OBVIOUS
<1>1. TypeOK
  BY InitTyped
<1>. QED
  BY <1>1 DEF Init, IInv, ListIsComplete, NobodyLeft, InterruptsUnwind, InPlace,
              Inside, JobsWereSubmitted, ProblemsDoNotOverlap, Unfinished, Jobs

(* Only Submit makes a job unfinished.                                     *)
LEMMA WorkKeepsInvariant ==
  ASSUME IInv, TypeOK', NEW w \in Workers, Work(w) PROVE IInv'
<1>1. \A j \in Jobs : Unfinished(j)' => Unfinished(j)
  BY DEF IInv, TypeOK, Work, Take, FinishJob, JobError, jobVars, Unfinished, FirstPending, Pending
<1>2. UNCHANGED <<problem, pc, dirs, submitted, tracked, owner, unwinding, hits>>
  BY DEF Work, Take, FinishJob, JobError, jobVars
<1>. QED
  BY <1>1, <1>2 DEF IInv, ListIsComplete, NobodyLeft, Undisturbed, InterruptsUnwind,
                    InPlace, JobsWereSubmitted, ProblemsDoNotOverlap

LEMMA MainKeepsInvariant ==
  ASSUME IInv, TypeOK', Main \/ Interrupt PROVE IInv'
<1> USE DEF IInv, ListIsComplete, NobodyLeft, Undisturbed, InterruptsUnwind, InPlace,
            Inside, JobsWereSubmitted, ProblemsDoNotOverlap, jobVars
<1>1. CASE Enter
  BY <1>1 DEF Enter, Unfinished
<1>2. CASE LoadFails
  BY <1>2 DEF LoadFails, NextProblem, Unfinished
<1>3. CASE Submit
  <2>1. \A j \in Jobs : Unfinished(j)' => Unfinished(j) \/ j = submitted + 1
    BY <1>3 DEF Submit, Unfinished, TypeOK
  <2>2. ProblemsDoNotOverlap'
    BY <1>3, <2>1 DEF Submit, TypeOK
  <2>3. JobsWereSubmitted'
    BY <1>3, <2>1 DEF Submit, TypeOK, Jobs
  <2>. QED BY <1>3, <2>2, <2>3 DEF Submit, TypeOK
<1>4. CASE AppendFuture
  BY <1>4 DEF AppendFuture, Unfinished, TypeOK
<1>5. CASE FinishCheck \/ Crash \/ Fail \/ NextStep \/ CheckError
  BY <1>5 DEF FinishCheck, Crash, Fail, NextStep, CheckError, Unfinished
<1>6. CASE CancelNext
  <2>1. \A j \in Jobs : Unfinished(j)' => Unfinished(j)
    BY <1>6 DEF CancelNext, Unfinished, TypeOK
  <2>. QED BY <1>6, <2>1 DEF CancelNext
<1>7. CASE CancelDone
  BY <1>7 DEF CancelDone, Unfinished
<1>8. CASE Wait
  <2>1. Undisturbed => submitted = tracked
    BY <1>8 DEF Wait
  <2>2. Undisturbed => \A j \in Jobs : ~ Unfinished(j)
    BY <1>8, <2>1 DEF Wait, Over, Unfinished
  <2>3. NobodyLeft'
    BY <1>8, <2>2 DEF Wait, Unfinished
  <2>. QED BY <1>8, <2>3 DEF Wait, Unfinished
<1>9. CASE Remove
  <2>1. hits = {} => \A j \in Jobs : ~ Unfinished(j)
    BY <1>9 DEF Remove
  <2>2. ~ unwinding => hits = {}
    OBVIOUS
  <2>3. ProblemsDoNotOverlap'
    BY <1>9, <2>1, <2>2 DEF Remove, NextProblem, Unfinished
  <2>4. NobodyLeft' /\ InPlace'
    BY <1>9 DEF Remove, NextProblem, Unfinished
  <2>5. ListIsComplete' /\ JobsWereSubmitted'
    BY <1>9 DEF Remove, NextProblem, Unfinished
  <2>6. InterruptsUnwind'
    BY <1>9, <2>2 DEF Remove, NextProblem
  <2>. QED BY <2>3, <2>4, <2>5, <2>6
<1>10. CASE Exit
  BY <1>10 DEF Exit, Unfinished
<1>11. CASE Interrupt
  <2>1. /\ pc = "loading" => pc' = "exiting"
        /\ pc \in {"checking", "appending"} => pc' = "cancelling"
        /\ pc = "cancelling" => pc' = "waiting"
        /\ pc = "waiting" => pc' = "removing"
        /\ pc = "removing" => pc' = "exiting"
    BY <1>11 DEF Interrupt, After
  <2>2. pc \in {"loading", "checking", "appending", "cancelling", "waiting", "removing"}
    BY <1>11 DEF Interrupt, TypeOK, Labels
  <2>3. hits' = hits \union {pc} /\ unwinding' = TRUE
    BY <1>11 DEF Interrupt
  <2>4. UNCHANGED <<problem, submitted, tracked, owner, state>>
    BY <1>11 DEF Interrupt
  <2>5. \A j \in Jobs : Unfinished(j)' = Unfinished(j)
    BY <2>4 DEF Unfinished
  <2>6. ListIsComplete' /\ InterruptsUnwind'
    BY <2>1, <2>2, <2>3, <2>4
  <2>7. JobsWereSubmitted' /\ ProblemsDoNotOverlap'
    BY <2>4, <2>5
  <2>8. NobodyLeft'
    BY <2>1, <2>2, <2>3, <2>5
  <2>9. InPlace'
    BY <1>11, <2>1, <2>2, <2>4 DEF Interrupt
  <2>. QED  BY <2>6, <2>7, <2>8, <2>9
<1>. QED BY <1>1, <1>2, <1>3, <1>4, <1>5, <1>6, <1>7, <1>8, <1>9, <1>10, <1>11 DEF Main

LEMMA StepInvariant == IInv /\ [Next]_vars => IInv'
<1> SUFFICES ASSUME IInv, [Next]_vars PROVE IInv'
  OBVIOUS
<1>1. TypeOK'
  BY StepTyped DEF IInv
<1>2. CASE \E w \in Workers : Work(w)
  BY <1>1, <1>2, WorkKeepsInvariant
<1>3. CASE Main \/ Interrupt
  BY <1>1, <1>3, MainKeepsInvariant
<1>4. CASE UNCHANGED vars
  BY <1>1, <1>4 DEF vars, jobVars, IInv, ListIsComplete, NobodyLeft, Undisturbed,
              InterruptsUnwind, InPlace, JobsWereSubmitted, ProblemsDoNotOverlap, Unfinished
<1>. QED BY <1>2, <1>3, <1>4 DEF Next

(* Ctrl-C struck once, while the checks ran.                               *)
OnceInCheck == hits = {"checking"}

(* What the cancelling loop has been through holds no queued job.          *)
CancelledSoFar ==
  /\ pc = "cancelling" /\ OnceInCheck =>
       \A j \in Jobs : j < cursor => state[j] # "queued"
  /\ Cancelled => \A j \in Jobs : state[j] # "queued"

LEMMA InitCancelled == Init => CancelledSoFar
BY DEF Init, CancelledSoFar, Cancelled, OnceInCheck

LEMMA StepCancelled ==
  ASSUME IInv, CancelledSoFar, [Next]_vars PROVE CancelledSoFar'
<1> USE DEF CancelledSoFar, Cancelled, OnceInCheck, jobVars
<1>1. CASE \/ Enter \/ LoadFails \/ Submit \/ AppendFuture \/ NextStep
           \/ CheckError \/ FinishCheck \/ Fail \/ Crash
  <2>1. hits = {}
    BY <1>1 DEF IInv, InterruptsUnwind, Enter, LoadFails, Submit, AppendFuture, NextStep,
                CheckError, FinishCheck, Fail, Crash
  <2>2. hits' = hits
    BY <1>1 DEF Enter, LoadFails, Submit, AppendFuture, NextStep, CheckError, FinishCheck,
                Fail, Crash
  <2>. QED  BY <2>1, <2>2
<1>2. CASE CancelNext
  <2>1. pc = "cancelling" /\ pc' = pc /\ hits' = hits
    BY <1>2 DEF CancelNext
  <2>2. OnceInCheck => \A j \in Jobs : j < cursor + 1 => state'[j] # "queued"
    BY <1>2 DEF CancelNext, IInv, TypeOK, Jobs
  <2>. QED  BY <1>2, <2>1, <2>2 DEF CancelNext
<1>3. CASE CancelDone
  <2>1. OnceInCheck => submitted = tracked
    BY <1>3 DEF CancelDone, IInv, ListIsComplete
  <2>2. \A j \in Jobs : state[j] = "queued" => j <= submitted
    BY DEF IInv, JobsWereSubmitted, Unfinished
  <2>3. OnceInCheck => \A j \in Jobs : state[j] # "queued"
    BY <1>3, <2>1, <2>2 DEF CancelDone, IInv, TypeOK, Jobs
  <2>. QED  BY <1>3, <2>3 DEF CancelDone
<1>4. CASE Wait \/ Remove \/ Exit
  <2>1. pc \in {"waiting", "removing", "exiting"} /\ hits' = hits /\ state' = state
    BY <1>4 DEF Wait, Remove, Exit
  <2>2. OnceInCheck => pc' \in {"removing", "exiting", "exited"}
    BY <1>4 DEF Wait, Remove, Exit, IInv, InterruptsUnwind
  <2>. QED  BY <2>1, <2>2
<1>5. CASE Interrupt
  <2>1. hits' = hits \union {pc} /\ state' = state /\ cursor' = 1
    BY <1>5 DEF Interrupt
  <2>2. hits' = {"checking"} => pc = "checking"
    BY <2>1
  <2>3. pc = "checking" => pc' = "cancelling"
    BY <1>5 DEF Interrupt, After
  <2>4. \A j \in Jobs : ~ (j < 1)
    BY DEF Jobs
  <2>. QED  BY <2>1, <2>2, <2>3, <2>4
<1>6. ASSUME NEW w \in Workers, Work(w) PROVE CancelledSoFar'
  <2>1. \A j \in Jobs : state'[j] = "queued" => state[j] = "queued"
    BY <1>6 DEF Work, Take, FinishJob, JobError, jobVars, IInv, TypeOK
  <2>2. UNCHANGED <<pc, cursor, hits>>
    BY <1>6 DEF Work, Take, FinishJob, JobError
  <2>. QED  BY <2>1, <2>2
<1>7. CASE UNCHANGED vars
  BY <1>7 DEF vars
<1>. QED  BY <1>1, <1>2, <1>3, <1>4, <1>5, <1>6, <1>7 DEF Next, Main

(* A worker that is not idle runs a job of its own.                        *)
WorkersRun ==
  /\ \A w \in Workers : worker[w] # NoJob => state[worker[w]] = "running"
  /\ \A v, w \in Workers : v # w /\ worker[v] # NoJob => worker[v] # worker[w]

LEMMA StepWorkersRun ==
  ASSUME IInv, WorkersRun, [Next]_vars PROVE WorkersRun'
<1> USE DEF WorkersRun, IInv, TypeOK
<1>1. ASSUME NEW w \in Workers, NEW j \in Jobs, Take(w, j) PROVE WorkersRun'
  <2>1. CASE state[j] = "queued"
    <3>1. state' = [state EXCEPT ![j] = "running"] /\ worker' = [worker EXCEPT ![w] = j]
      BY <1>1, <2>1 DEF Take
    <3>2. \A v \in Workers : worker[v] # j
      BY <2>1, BoundsAssumption DEF Jobs
    <3>. QED  BY <3>1, <3>2
  <2>2. CASE state[j] # "queued"
    <3>1. state' = [state EXCEPT ![j] = "notified"] /\ worker' = worker /\ state[j] = "cancelled"
      BY <1>1, <2>2 DEF Take, FirstPending, Pending
    <3>. QED  BY <3>1
  <2>. QED  BY <2>1, <2>2
<1>2. ASSUME NEW w \in Workers, FinishJob(w) PROVE WorkersRun'
  BY <1>2 DEF FinishJob
<1>3. CASE Submit
  <2>0. submitted \in Nat /\ submitted + 1 \in Jobs
    BY <1>3, BoundsAssumption DEF Submit, Jobs
  <2>1. state[submitted + 1] # "running" /\ worker' = worker
    <3>1. ~ (submitted + 1 <= submitted)
      BY <2>0
    <3>2. ~ Unfinished(submitted + 1)
      BY <2>0, <3>1 DEF JobsWereSubmitted
    <3>. QED  BY <1>3, <3>2 DEF Submit, Unfinished
  <2>2. state' = [state EXCEPT ![submitted + 1] = "queued"]
    BY <1>3 DEF Submit
  <2>. QED  BY <2>1, <2>2
<1>4. CASE CancelNext
  <2>1. \A j \in Jobs : state[j] = "running" => state'[j] = "running"
    BY <1>4 DEF CancelNext
  <2>. QED  BY <1>4, <2>1 DEF CancelNext
<1>5. CASE UNCHANGED <<state, worker>>
  BY <1>5
<1>. QED
  BY <1>1, <1>2, <1>3, <1>4, <1>5
     DEF Next, Main, Work, JobError, Enter, LoadFails, AppendFuture, NextStep, CheckError,
         FinishCheck, Fail, Crash, CancelDone, Wait, Remove, Exit, Interrupt, jobVars, vars

(* Why the exit status is true: the total holds the errors of the problems *)
(* that are through, and a problem is through when its jobs are.           *)
Clean == hits = {} /\ ~ unwinding

Erroneous(p) == errors[p] > 0

TotalIsRight ==
  Clean /\ pc \notin {"exiting", "exited"} =>
    /\ total > 0 <=> \E p \in 1 .. Problems : p < problem /\ Erroneous(p)
    /\ \A p \in 1 .. Problems : p > problem => ~ Erroneous(p)
    /\ pc = "loading" => ~ Erroneous(problem)
    /\ pc = "removing" => result = errors[problem]

TotalIsComplete ==
  Clean /\ pc = "exiting" => (total > 0 <=> \E p \in 1 .. Problems : Erroneous(p))

Told == TotalIsRight /\ TotalIsComplete /\ ExitStatusTellsErrors

LEMMA InitTold == Init => WorkersRun /\ Told
<1> SUFFICES ASSUME Init PROVE WorkersRun /\ Told
  OBVIOUS
<1>1. WorkersRun
  BY DEF Init, WorkersRun
<1>2. \A p \in 1 .. Problems : ~ Erroneous(p)
  BY DEF Init, Erroneous
<1>3. problem \in 1 .. Problems /\ total = 0 /\ pc = "loading"
  BY BoundsAssumption DEF Init
<1>. QED
  BY <1>1, <1>2, <1>3 DEF Told, TotalIsRight, TotalIsComplete, ExitStatusTellsErrors

(* An error leaves the other problems' counters alone, and makes its own   *)
(* positive.                                                               *)
LEMMA CountedPositive ==
  ASSUME CountsTypeOK, NEW p \in 1 .. Problems, errors' = [errors EXCEPT ![p] = Counted(@)]
  PROVE  /\ errors'[p] \in Nat
         /\ errors'[p] > 0
         /\ \A q \in 1 .. Problems : q # p => (Erroneous(q)' <=> Erroneous(q))
<1>1. errors'[p] = Counted(errors[p])
  BY DEF CountsTypeOK
<1>2. errors'[p] \in Nat /\ errors'[p] > 0
  BY <1>1, BoundsAssumption DEF CountsTypeOK, Counted
<1>3. \A q \in 1 .. Problems : q # p => errors'[q] = errors[q]
  BY DEF CountsTypeOK
<1>. QED  BY <1>2, <1>3 DEF Erroneous

LEMMA OwnErrorsTold ==
  ASSUME IInv, Told, errors' = [errors EXCEPT ![problem] = Counted(@)],
         pc \notin {"loading", "removing", "exiting", "exited"},
         pc' \notin {"loading", "removing", "exiting", "exited"},
         UNCHANGED <<problem, total, hits, unwinding>>
  PROVE  Told'
<1>1. /\ problem \in 1 .. Problems
      /\ \A q \in 1 .. Problems : q # problem => (Erroneous(q)' <=> Erroneous(q))
  <2>1. problem \in 1 .. Problems /\ CountsTypeOK
    BY DEF IInv, TypeOK
  <2>. QED  BY <2>1, CountedPositive
<1>2. \A q \in 1 .. Problems : q \in Nat
  OBVIOUS
<1>3. TotalIsRight'
  BY <1>1, <1>2 DEF Told, TotalIsRight, Clean
<1>. QED  BY <1>3 DEF Told, TotalIsComplete, ExitStatusTellsErrors

LEMMA StepTold ==
  ASSUME IInv, WorkersRun, Told, [Next]_vars PROVE Told'
<1> USE DEF Told
<1>1. ASSUME NEW w \in Workers, JobError(w), Clean PROVE Told'
  <2>1. worker[w] \in Jobs /\ Unfinished(worker[w])
    BY <1>1 DEF JobError, WorkersRun, Unfinished, IInv, TypeOK
  <2>2. owner[worker[w]] = problem
    BY <2>1 DEF IInv, ProblemsDoNotOverlap
  <2>3. pc \notin {"loading", "removing", "exiting", "exited"}
    BY <1>1, <2>1 DEF Clean, IInv, NobodyLeft, Undisturbed
  <2>. QED  BY <1>1, <2>2, <2>3, OwnErrorsTold DEF JobError
<1>2. CASE CheckError
  BY <1>2, OwnErrorsTold DEF CheckError
<1>3. CASE Fail
  BY <1>3, OwnErrorsTold DEF Fail
<1>4. CASE LoadFails /\ Clean
  <2>1. /\ problem \in 1 .. Problems /\ total \in Nat
        /\ errors'[problem] \in Nat /\ errors'[problem] > 0
        /\ \A q \in 1 .. Problems : q # problem => (Erroneous(q)' <=> Erroneous(q))
    <3>1. /\ problem \in 1 .. Problems /\ total \in Nat /\ CountsTypeOK
          /\ errors' = [errors EXCEPT ![problem] = Counted(@)]
      BY <1>4 DEF LoadFails, IInv, TypeOK, CountsTypeOK
    <3>. QED  BY <3>1, CountedPositive
  <2>2. total' > 0
    BY <1>4, <2>1 DEF LoadFails
  <2>3. \A q \in 1 .. Problems : q > problem => ~ Erroneous(q)
    BY <1>4 DEF LoadFails, TotalIsRight
  <2>4. CASE problem < Problems
    <3>1. pc' = "loading" /\ problem' = problem + 1 /\ problem + 1 \in 1 .. Problems
      BY <1>4, <2>1, <2>4, BoundsAssumption DEF LoadFails, NextProblem
    <3>. QED
      BY <2>1, <2>2, <2>3, <3>1 DEF TotalIsRight, TotalIsComplete, ExitStatusTellsErrors, Erroneous
  <2>5. CASE ~ (problem < Problems)
    <3>1. pc' = "exiting"
      BY <1>4, <2>5 DEF LoadFails, NextProblem
    <3>. QED
      BY <2>1, <2>2, <3>1 DEF TotalIsRight, TotalIsComplete, ExitStatusTellsErrors, Erroneous
  <2>. QED  BY <2>4, <2>5
<1>5. CASE Remove /\ Clean
  <2>1. /\ problem \in 1 .. Problems /\ total \in Nat /\ errors[problem] \in Nat
        /\ errors' = errors /\ total' = total + errors[problem]
    BY <1>5 DEF Remove, Clean, TotalIsRight, IInv, TypeOK, CountsTypeOK
  <2>2. total' > 0 <=> \E p \in 1 .. Problems : p < problem + 1 /\ Erroneous(p)
    BY <1>5, <2>1 DEF Remove, TotalIsRight, Erroneous
  <2>3. \A q \in 1 .. Problems : q > problem => ~ Erroneous(q)
    BY <1>5 DEF Remove, TotalIsRight
  <2>4. \A q \in 1 .. Problems : Erroneous(q)' <=> Erroneous(q)
    BY <2>1 DEF Erroneous
  <2>5. CASE problem < Problems
    <3>1. pc' = "loading" /\ problem' = problem + 1 /\ problem + 1 \in 1 .. Problems
      BY <1>5, <2>1, <2>5, BoundsAssumption DEF Remove, Clean, NextProblem
    <3>. QED
      BY <2>1, <2>2, <2>3, <3>1 DEF TotalIsRight, TotalIsComplete, ExitStatusTellsErrors, Erroneous
  <2>6. CASE ~ (problem < Problems)
    <3>1. pc' = "exiting" /\ \A q \in 1 .. Problems : q < problem + 1
      BY <1>5, <2>1, <2>6, BoundsAssumption DEF Remove, Clean, NextProblem
    <3>. QED
      BY <2>2, <2>4, <3>1 DEF TotalIsRight, TotalIsComplete, ExitStatusTellsErrors
  <2>. QED  BY <2>5, <2>6
<1>6. CASE Wait
  <2>1. pc = "waiting" /\ pc' = "removing" /\ UNCHANGED <<problem, unwinding, hits, errors, total>>
    BY <1>6 DEF Wait
  <2>2. Clean => result' = errors[problem]
    BY <1>6 DEF Wait, Clean
  <2>. QED
    BY <2>1, <2>2 DEF TotalIsRight, TotalIsComplete, ExitStatusTellsErrors, Clean, Erroneous
<1>7. CASE Exit
  <2>1. /\ pc = "exiting" /\ pc' = "exited" /\ UNCHANGED <<unwinding, hits, errors>>
        /\ status' = IF total > 0 \/ (unwinding /\ hits = {}) THEN 1 ELSE 0
    BY <1>7 DEF Exit
  <2>2. hits = {} /\ ~ unwinding => (total > 0 <=> \E p \in 1 .. Problems : errors[p] > 0)
    BY <2>1 DEF TotalIsComplete, Clean, Erroneous
  <2>. QED
    BY <2>1, <2>2 DEF TotalIsRight, TotalIsComplete, ExitStatusTellsErrors
<1>8. CASE Interrupt \/ Crash
  <2>1. (~ Clean' /\ pc' # "exited") \/ hits' # {}
    BY <1>8 DEF Interrupt, Crash, Clean
  <2>. QED  BY <2>1 DEF TotalIsRight, TotalIsComplete, ExitStatusTellsErrors, Clean
<1>9. CASE \/ Enter \/ Submit \/ AppendFuture \/ NextStep
           \/ FinishCheck \/ CancelNext \/ CancelDone
  <2>1. /\ pc \notin {"removing", "exiting", "exited"}
        /\ pc' \notin {"loading", "removing", "exiting", "exited"}
        /\ UNCHANGED <<problem, unwinding, hits, errors, total>>
    BY <1>9 DEF Enter, Submit, AppendFuture, NextStep, FinishCheck, CancelNext, CancelDone, counts
  <2>. QED
    BY <2>1 DEF TotalIsRight, TotalIsComplete, ExitStatusTellsErrors, Clean, Erroneous
<1>10. CASE UNCHANGED <<pc, problem, unwinding, hits, counts>>
  BY <1>10 DEF counts, TotalIsRight, TotalIsComplete, ExitStatusTellsErrors, Clean, Erroneous
<1>11. ASSUME NEW w \in Workers, NEW j \in Jobs, Take(w, j) PROVE Told'
  BY <1>10, <1>11 DEF Take
<1>12. ASSUME NEW w \in Workers, FinishJob(w) PROVE Told'
  BY <1>10, <1>12 DEF FinishJob
<1>13. ASSUME NEW w \in Workers, JobError(w), ~ Clean PROVE Told'
  BY <1>13 DEF JobError, Clean, TotalIsRight, TotalIsComplete, ExitStatusTellsErrors
<1>14. CASE (LoadFails \/ Remove) /\ ~ Clean
  <2>1. pc' # "exited" /\ UNCHANGED <<unwinding, hits>>
    BY <1>14 DEF LoadFails, Remove, NextProblem
  <2>. QED
    BY <1>14, <2>1 DEF Clean, TotalIsRight, TotalIsComplete, ExitStatusTellsErrors
<1>15. CASE UNCHANGED vars
  BY <1>10, <1>15 DEF vars
<1>. QED
  BY <1>1, <1>2, <1>3, <1>4, <1>5, <1>6, <1>7, <1>8, <1>9, <1>11, <1>12, <1>13, <1>14, <1>15
     DEF Next, Main, Work

LEMMA InvariantHolds == Safety => []IInv
BY InitInvariant, StepInvariant, PTL DEF Safety

(* Every variable keeps its type.                                          *)
THEOREM TypeCorrect == Safety => []TypeOK
<1>1. IInv => TypeOK
  BY DEF IInv
<1>. QED BY <1>1, InvariantHolds, PTL

(* The work directory of a problem outlives every job that uses it, unless *)
(* Ctrl-C hits the wait itself or the append after a submission.           *)
THEOREM RemovalIsSafe == Safety => []RemovalWaitsForJobs
<1>1. IInv => RemovalWaitsForJobs
  <2> SUFFICES ASSUME IInv, Undisturbed, NEW j \in Jobs, Unfinished(j)
               PROVE owner[j] \in dirs
    BY DEF RemovalWaitsForJobs, Undisturbed
  <2>1. pc \in Inside
    BY DEF IInv, NobodyLeft, TypeOK, Labels, Inside
  <2>. QED BY <2>1 DEF IInv, InPlace, ProblemsDoNotOverlap
<1>. QED BY <1>1, InvariantHolds, PTL

(* No job of one problem is left when the next is loaded, in any run.      *)
THEOREM ProblemsAreSeparate == Safety => []ProblemsDoNotOverlap
<1>1. IInv => ProblemsDoNotOverlap
  BY DEF IInv
<1>. QED BY <1>1, InvariantHolds, PTL

(* After a cancellation that ran to its end no job of the list starts: the *)
(* executor has nothing but cancelled futures left.                        *)
THEOREM CancellationHolds == Safety => NothingStartsAfterCancel
<1> DEFINE Quiet == Cancelled => \A j \in Jobs : state'[j] = "running" => state[j] = "running"
<1>1. ASSUME IInv, CancelledSoFar, [Next]_vars PROVE [Quiet]_vars
  <2>1. ASSUME Cancelled, NEW j \in Jobs, state'[j] = "running", state[j] # "running",
               NEW w \in Workers, Work(w)
        PROVE  FALSE
    BY <1>1, <2>1 DEF CancelledSoFar, Work, Take, FinishJob, JobError, jobVars, IInv, TypeOK
  <2>2. ASSUME Cancelled, NEW j \in Jobs, Main \/ Interrupt
        PROVE  state'[j] = state[j]
    BY <2>2 DEF Cancelled, Main, Enter, LoadFails, Submit, AppendFuture, NextStep, CheckError,
                FinishCheck, Fail, Crash, CancelNext, CancelDone, Wait, Remove, Exit, Interrupt,
                jobVars
  <2>. QED  BY <1>1, <2>1, <2>2 DEF Next
<1>2. Safety => [](IInv /\ CancelledSoFar)
  BY InitInvariant, InitCancelled, StepInvariant, StepCancelled, PTL DEF Safety
<1>3. Safety => [][Quiet]_vars
  BY <1>1, <1>2, PTL DEF Safety
<1>. QED  BY <1>3 DEF NothingStartsAfterCancel

(* Without Ctrl-C the exit status is true, whatever job reports the last   *)
(* error of a problem: nothing runs when the errors are added up.          *)
THEOREM ExitStatusIsTrue == Safety => []ExitStatusTellsErrors
<1>1. Safety => [](IInv /\ WorkersRun /\ Told)
  BY InitInvariant, InitTold, StepInvariant, StepWorkersRun, StepTold, PTL DEF Safety
<1>2. Told => ExitStatusTellsErrors
  BY DEF Told
<1>. QED  BY <1>1, <1>2, PTL
==============================================================================
