--------------------------- MODULE ProblemVerifier ---------------------------
(***************************************************************************)
(* One run of verifyproblem: its problems are verified one after the       *)
(* other, each in a temporary work directory of its own, with one executor *)
(* whose workers compile and run programs there (verifyproblem.py and      *)
(* context.py).  The user may press Ctrl-C at any moment and more than     *)
(* once; Python raises KeyboardInterrupt in the main thread only.          *)
(*                                                                         *)
(* Jobs are numbered in the order they are submitted, which is the order   *)
(* the executor takes them in, over all problems.  A future joins          *)
(* Context._background_work a moment after its job is in the executor's    *)
(* queue, so the list always holds jobs 1 to tracked; it is never emptied. *)
(*                                                                         *)
(* A check is the jobs it submits, the errors it reports, and whether it   *)
(* raises.  VerifyError comes from diag.fatal, and from diag.error with    *)
(* --bail_on_error, which only takes away the checks' way to go on.        *)
(***************************************************************************)
EXTENDS Naturals, Sequences

CONSTANTS
  Problems,        \* how many problems are given
  Workers,         \* threads of the executor, none with --threads 1
  Parts,           \* the parts of a problem to check, --parts
  MaxJobs,         \* bound: jobs submitted in the whole run
  MaxErrors,       \* bound: a problem's counter of errors stays there
  NoJob            \* a worker is idle

ASSUME BoundsAssumption ==
  Problems \in Nat \ {0} /\ MaxJobs \in Nat /\ MaxErrors \in Nat \ {0} /\ NoJob \notin Nat

Jobs == 1 .. MaxJobs

(* _build_steps: the checks of each part, in order.                        *)
Step(part, name) == [part |-> part, name |-> name]

BuildSteps ==
  <<Step("config", "config"), Step("statement", "statement"), Step("statement", "attachments"),
    Step("validators", "input_validator"), Step("validators", "output_validator"),
    Step("graders", "grader"), Step("data", "data"), Step("submissions", "includes"),
    Step("submissions", "submission")>>

ActiveSteps == SelectSeq(BuildSteps, LAMBDA s : s.part \in Parts)

(* The parts whose checks start background work before the first check,    *)
(* and the checks that start some themselves.                              *)
StartersExist == {"validators", "submissions"} \intersect Parts # {}
Submitters == {"data", "submission"}

VARIABLES
  problem,     \* the problem being verified
  step,        \* the check being run, 0 before the first
  pc,          \* where the main thread is
  dirs,        \* problems whose work directory is intact
  submitted,   \* how many jobs were submitted
  tracked,     \* len(Context._background_work)
  owner,       \* the problem each job belongs to
  purpose,     \* the step that submitted it
  state,       \* the state of each job's future
  worker,      \* the job each worker is running
  cursor,      \* where the loop of cancel_background_work is
  unwinding,   \* an exception other than VerifyError is on its way to main
  errors,      \* the error counter of each problem's diagnostics
  result,      \* CheckResult.errors of the problem being verified
  total,       \* total_errors in main
  status,      \* the exit status
  hits         \* the places where Ctrl-C hit the main thread (history)

jobVars == <<submitted, tracked, owner, purpose, state, worker>>
counts == <<errors, result, total, status>>
vars == <<problem, step, pc, dirs, jobVars, cursor, unwinding, counts, hits>>

-----------------------------------------------------------------------------
(* The executor takes jobs in the order they were submitted; a cancelled   *)
(* one is only marked as notified.                                         *)
Pending(j) == state[j] \in {"queued", "cancelled"}

FirstPending(j) == Pending(j) /\ \A i \in Jobs : i < j => ~ Pending(i)

Take(w, j) ==
  /\ worker[w] = NoJob
  /\ FirstPending(j)
  /\ IF state[j] = "queued"
     THEN state' = [state EXCEPT ![j] = "running"] /\ worker' = [worker EXCEPT ![w] = j]
     ELSE state' = [state EXCEPT ![j] = "notified"] /\ UNCHANGED worker
  /\ UNCHANGED <<problem, step, pc, dirs, submitted, tracked, owner, purpose, cursor, unwinding,
                 counts, hits>>

FinishJob(w) ==
  /\ worker[w] # NoJob
  /\ state' = [state EXCEPT ![worker[w]] = "finished"]
  /\ worker' = [worker EXCEPT ![w] = NoJob]
  /\ UNCHANGED <<problem, step, pc, dirs, submitted, tracked, owner, purpose, cursor, unwinding,
                 counts, hits>>

-----------------------------------------------------------------------------
(* LoggingDiagnostics.error; the counter stops at the bound, which changes *)
(* nothing for what is asked of it: whether it is 0.                       *)
Counted(n) == IF n < MaxErrors THEN n + 1 ELSE n

(* Running a submission reports some judge errors itself; the VerifyError  *)
(* that follows with --bail_on_error makes a judge error of the result.    *)
JobError(w) ==
  /\ worker[w] # NoJob
  /\ purpose[worker[w]] # 0
  /\ ActiveSteps[purpose[worker[w]]].name = "submission"
  /\ errors' = [errors EXCEPT ![owner[worker[w]]] = Counted(@)]
  /\ UNCHANGED <<problem, step, pc, dirs, jobVars, cursor, unwinding, result, total, status, hits>>

-----------------------------------------------------------------------------
(* The main thread.  ProblemVerifier.__enter__ makes the directory.        *)
Enter ==
  /\ pc = "loading"
  /\ pc' = "checking"
  /\ dirs' = dirs \union {problem}
  /\ step' = 0
  /\ UNCHANGED <<problem, jobVars, cursor, unwinding, counts, hits>>

NextProblem ==
  IF problem < Problems THEN pc' = "loading" /\ problem' = problem + 1
                        ELSE pc' = "exiting" /\ UNCHANGED problem

(* Mutant of LoadFails: its error is not added to the total.               *)
LoadFailsUncounted ==
  /\ pc = "loading"
  /\ NextProblem
  /\ errors' = [errors EXCEPT ![problem] = Counted(@)]
  /\ UNCHANGED <<step, dirs, jobVars, cursor, unwinding, result, total, status, hits>>

(* load_problem reports one error and raises.                              *)
LoadFails ==
  /\ pc = "loading"
  /\ NextProblem
  /\ errors' = [errors EXCEPT ![problem] = Counted(@)]
  /\ total' = total + errors'[problem]
  /\ UNCHANGED <<step, dirs, jobVars, cursor, unwinding, result, status, hits>>

(* submit_background_work, called before the first check and by some of    *)
(* them: the executor has the job before the list has its future.          *)
Submit ==
  /\ pc = "checking"
  /\ Workers # {}
  /\ IF step = 0 THEN StartersExist ELSE ActiveSteps[step].name \in Submitters
  /\ submitted < MaxJobs
  /\ pc' = "appending"
  /\ submitted' = submitted + 1
  /\ owner' = [owner EXCEPT ![submitted + 1] = problem]
  /\ purpose' = [purpose EXCEPT ![submitted + 1] = step]
  /\ state' = [state EXCEPT ![submitted + 1] = "queued"]
  /\ UNCHANGED <<problem, step, dirs, tracked, worker, cursor, unwinding, counts, hits>>

AppendFuture ==
  /\ pc = "appending"
  /\ pc' = "checking"
  /\ tracked' = tracked + 1
  /\ UNCHANGED <<problem, step, dirs, submitted, owner, purpose, state, worker, cursor, unwinding,
                 counts, hits>>

(* A check reports an error and goes on.                                   *)
CheckError ==
  /\ pc = "checking"
  /\ errors' = [errors EXCEPT ![problem] = Counted(@)]
  /\ UNCHANGED <<problem, step, pc, dirs, jobVars, cursor, unwinding, result, total, status, hits>>

(* Mutant of Over: cancelled jobs are never counted.                       *)
OverWhenFinished(j) == state[j] = "finished"

(* concurrent.futures.wait: a cancelled future counts once a worker has    *)
(* come across it.                                                         *)
Over(j) == state[j] \in {"finished", "notified"}

(* The check of the test data asks for the result of each of its jobs      *)
(* (InputValidationCache.check); the others may leave some running.        *)
Awaited(j) ==
  /\ owner[j] = problem
  /\ purpose[j] = step
  /\ step # 0
  /\ ActiveSteps[step].name = "data"

AwaitedAreOver == \A j \in Jobs : j <= submitted /\ Awaited(j) => Over(j)

NextStep ==
  /\ pc = "checking"
  /\ step < Len(ActiveSteps)
  /\ AwaitedAreOver
  /\ step' = step + 1
  /\ UNCHANGED <<problem, pc, dirs, jobVars, cursor, unwinding, counts, hits>>

(* Mutant of FinishCheck: the wait is left out.                            *)
FinishCheckUnwaited ==
  /\ pc = "checking"
  /\ step = Len(ActiveSteps)
  /\ pc' \in {"waiting", "removing"}
  /\ UNCHANGED <<problem, step, dirs, jobVars, cursor, unwinding, counts, hits>>

(* The checks are through.                                                 *)
FinishCheck ==
  /\ pc = "checking"
  /\ step = Len(ActiveSteps)
  /\ AwaitedAreOver
  /\ pc' = "waiting"
  /\ UNCHANGED <<problem, step, dirs, jobVars, cursor, unwinding, counts, hits>>

(* VerifyError: an error, and no more checks; nothing is cancelled.        *)
Fail ==
  /\ pc = "checking"
  /\ pc' = "waiting"
  /\ errors' = [errors EXCEPT ![problem] = Counted(@)]
  /\ UNCHANGED <<problem, step, dirs, jobVars, cursor, unwinding, result, total, status, hits>>

(* Mutant of Crash: the wait is not in a finally clause.                   *)
CrashUnwaited ==
  /\ pc = "checking"
  /\ pc' = "removing"
  /\ unwinding' = TRUE
  /\ UNCHANGED <<problem, step, dirs, jobVars, cursor, counts, hits>>

(* Any other exception: nothing is cancelled either.                       *)
Crash ==
  /\ pc = "checking"
  /\ pc' = "waiting"
  /\ unwinding' = TRUE
  /\ UNCHANGED <<problem, step, dirs, jobVars, cursor, counts, hits>>

(* Mutant of CancelNext: the list shrinks while it is gone through.        *)
CancelEverySecond ==
  /\ pc = "cancelling"
  /\ cursor <= tracked
  /\ state' = [state EXCEPT ![cursor] = IF @ = "queued" THEN "cancelled" ELSE @]
  /\ cursor' = IF cursor < MaxJobs THEN cursor + 2 ELSE cursor + 1
  /\ UNCHANGED <<problem, step, pc, dirs, submitted, tracked, owner, purpose, worker, unwinding,
                 counts, hits>>

(* cancel_background_work: a job that has started cannot be cancelled.     *)
CancelNext ==
  /\ pc = "cancelling"
  /\ cursor <= tracked
  /\ state' = [state EXCEPT ![cursor] = IF @ = "queued" THEN "cancelled" ELSE @]
  /\ cursor' = cursor + 1
  /\ UNCHANGED <<problem, step, pc, dirs, submitted, tracked, owner, purpose, worker, unwinding,
                 counts, hits>>

CancelDone ==
  /\ pc = "cancelling"
  /\ cursor > tracked
  /\ pc' = "waiting"
  /\ UNCHANGED <<problem, step, dirs, jobVars, cursor, unwinding, counts, hits>>

(* wait_for_background_work; only then does check count the errors.        *)
Wait ==
  /\ pc = "waiting"
  /\ \A j \in Jobs : j <= tracked => Over(j)
  /\ pc' = "removing"
  /\ result' = IF unwinding THEN result ELSE errors[problem]
  /\ UNCHANGED <<problem, step, dirs, jobVars, cursor, unwinding, errors, total, status, hits>>

(* ProblemVerifier.__exit__, and on to the next problem or out of main.    *)
Remove ==
  /\ pc = "removing"
  /\ dirs' = dirs \ {problem}
  /\ IF unwinding THEN pc' = "exiting" /\ UNCHANGED <<problem, total>>
                  ELSE NextProblem /\ total' = total + result
  /\ UNCHANGED <<step, jobVars, cursor, unwinding, errors, result, status, hits>>

(* At exit the interpreter joins the workers, which empty the queue first. *)
(* A crash has exit status 1 as well; after Ctrl-C only the problems that  *)
(* were finished count.                                                    *)
Exit ==
  /\ pc = "exiting"
  /\ \A j \in Jobs : j <= submitted => Over(j)
  /\ pc' = "exited"
  /\ status' = IF total > 0 \/ (unwinding /\ hits = {}) THEN 1 ELSE 0
  /\ UNCHANGED <<problem, step, dirs, jobVars, cursor, unwinding, errors, result, total, hits>>

(* KeyboardInterrupt, by where it is raised: in check it is handled by     *)
(* cancelling; in the handler or in the finally clause it cuts that short. *)
(* An interrupted removal leaves an incomplete directory.                  *)
After(label) ==
  CASE label = "loading"                  -> "exiting"
    [] label \in {"checking", "appending"} -> "cancelling"
    [] label = "cancelling"               -> "waiting"
    [] label = "waiting"                  -> "removing"
    [] label = "removing"                 -> "exiting"

Interrupt ==
  /\ pc \notin {"exiting", "exited"}
  /\ pc' = After(pc)
  /\ unwinding' = TRUE
  /\ cursor' = 1
  /\ dirs' = IF pc = "removing" THEN dirs \ {problem} ELSE dirs
  /\ hits' = hits \union {pc}
  /\ UNCHANGED <<problem, step, jobVars, counts>>

-----------------------------------------------------------------------------
Init ==
  /\ problem = 1
  /\ step = 0
  /\ pc = "loading"
  /\ dirs = {}
  /\ submitted = 0
  /\ tracked = 0
  /\ owner = [j \in Jobs |-> 0]
  /\ purpose = [j \in Jobs |-> 0]
  /\ state = [j \in Jobs |-> "none"]
  /\ worker = [w \in Workers |-> NoJob]
  /\ cursor = 1
  /\ unwinding = FALSE
  /\ errors = [p \in 1 .. Problems |-> 0]
  /\ result = 0
  /\ total = 0
  /\ status = 0
  /\ hits = {}

Main ==
  \/ Enter \/ LoadFails \/ Submit \/ AppendFuture \/ NextStep
  \/ CheckError \/ FinishCheck \/ Fail \/ Crash
  \/ CancelNext \/ CancelDone \/ Wait \/ Remove \/ Exit

Work(w) == (\E j \in Jobs : Take(w, j)) \/ FinishJob(w) \/ JobError(w)

Next == Main \/ Interrupt \/ \E w \in Workers : Work(w)

(* The threads are scheduled.  That a check or a job ends is no part of    *)
(* it: both run programs, whose CPU time alone is limited, and compile     *)
(* without any limit.                                                      *)
Fairness ==
  /\ WF_vars(\/ Enter \/ LoadFails \/ AppendFuture \/ CancelNext \/ CancelDone
             \/ Wait \/ Remove \/ Exit)
  /\ \A w \in Workers : WF_vars(\E j \in Jobs : Take(w, j))

Safety == Init /\ [][Next]_vars

Spec == Safety /\ Fairness

-----------------------------------------------------------------------------
Labels == {"loading", "checking", "appending", "cancelling", "waiting",
           "removing", "exiting", "exited"}

CountsTypeOK ==
  /\ errors \in [1 .. Problems -> 0 .. MaxErrors]
  /\ result \in 0 .. MaxErrors
  /\ total \in Nat
  /\ status \in {0, 1}

(* Type invariant.                                                         *)
TypeOK ==
  /\ problem \in 1 .. Problems
  /\ step \in Nat
  /\ pc \in Labels
  /\ dirs \subseteq 1 .. Problems
  /\ submitted \in 0 .. MaxJobs
  /\ tracked \in 0 .. submitted
  /\ owner \in [Jobs -> 0 .. Problems]
  /\ purpose \in [Jobs -> Nat]
  /\ state \in [Jobs -> {"none", "queued", "cancelled", "running", "finished", "notified"}]
  /\ worker \in [Workers -> Jobs \union {NoJob}]
  /\ cursor \in 1 .. MaxJobs + 1
  /\ unwinding \in BOOLEAN
  /\ hits \subseteq Labels
  /\ CountsTypeOK

Unfinished(j) == state[j] \in {"queued", "cancelled", "running"}

(* No job outlives the work directory it uses, whether the checks end,     *)
(* raise, or are interrupted while they run or while their jobs are being  *)
(* cancelled: __exit__ comes after a wait for every job.  Left out are an  *)
(* interrupt between submission and append and one during the wait.        *)
RemovalWaitsForJobs ==
  hits \intersect {"appending", "waiting"} = {} =>
    \A j \in Jobs : Unfinished(j) => owner[j] \in dirs

(* The problems share one executor and one list of futures, and still no   *)
(* job of a problem is left when the next one is loaded: a VerifyError     *)
(* does not cancel the problem's jobs, but they are waited for.            *)
ProblemsDoNotOverlap ==
  \A j \in Jobs : Unfinished(j) => owner[j] = problem

(* Once the list has been gone through, undisturbed, no job in it starts   *)
(* any more, although the workers go on taking jobs from the queue while   *)
(* the loop runs.                                                          *)
Cancelled ==
  pc \in {"waiting", "removing", "exiting"} /\ hits = {"checking"}

NothingStartsAfterCancel ==
  [][Cancelled => \A j \in Jobs : state'[j] = "running" => state[j] = "running"]_vars

(* The exit status tells whether anything was wrong, also when the error   *)
(* comes from a job that is still running after the last check of its      *)
(* problem, from loading a problem, or from any but the last problem.      *)
(* After Ctrl-C it does not.                                               *)
ExitStatusTellsErrors ==
  pc = "exited" /\ hits = {} =>
    (status = 1 <=> unwinding \/ \E p \in 1 .. Problems : errors[p] > 0)

(* However often Ctrl-C is pressed, the program ends, with every job over, *)
(* if what is running ends: waiting for cancelled futures does not hang.   *)
(* A program that sleeps for ever breaks the premise, and then neither the *)
(* wait for the jobs nor Ctrl-C ends the run.                              *)
ProgramsEnd ==
  /\ WF_vars(NextStep \/ FinishCheck)
  /\ \A w \in Workers : WF_vars(FinishJob(w))

RunEnds == ProgramsEnd => <>(pc = "exited")
==============================================================================
