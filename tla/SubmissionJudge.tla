--------------------------- MODULE SubmissionJudge ---------------------------
(***************************************************************************)
(* Judging one submission (judge/submission_judge.py): the executor's      *)
(* workers run the test cases in the order they were queued and fill the   *)
(* store, while the main thread walks the tree of test data groups depth   *)
(* first, takes each result from the store (waiting for it, or running the *)
(* test case itself), grades the groups, and cancels the jobs of a group   *)
(* that breaks.  The walk is repeated at every limit of the schedule.      *)
(*                                                                         *)
(* The store and the threads' use of it are those of ResultStore.  Other   *)
(* submissions' jobs in the same executor only delay these.                *)
(***************************************************************************)
EXTENDS ResultStore, TestTree

CONSTANTS
  KeyOf,       \* the reuse key of each test case
  Main,        \* the thread that calls judge()
  NoTest       \* a worker has no job

ASSUME MainAssumption == Consumers = {Main}
ASSUME NoTestAssumption == NoTest \notin Tests
ASSUME KeyOfAssumption == KeyOf \in [Tests -> Keys]

VARIABLES
  queue,       \* the executor's queue of test cases
  job,         \* the test case of each worker's job, past its cancellation check
  cancelled,   \* SubmissionJudge._cancelled
  stack,       \* the calls of _judge_group in progress, innermost last
  judged,      \* what the finished calls of judge() returned
  runs         \* how often a run of each key was started (history)

walkVars == <<stack, judged>>
judgeVars == <<vars, queue, job, cancelled, stack, judged, runs>>

Frame(g) == [group |-> g, todo |-> Selected(Items[g]), all_results |-> <<>>,
             child_results |-> <<>>]

-----------------------------------------------------------------------------
(* The executor.  A job first looks whether its test case is cancelled,    *)
(* and claims its key in a second step.                                    *)
StartJob(w) ==
  /\ job[w] = NoTest
  /\ queue # <<>>
  /\ queue' = Tail(queue)
  /\ job' = [job EXCEPT ![w] = IF Head(queue) \in cancelled THEN NoTest ELSE Head(queue)]
  /\ UNCHANGED <<vars, cancelled, walkVars, runs>>

ClaimJob(w) ==
  /\ job[w] # NoTest
  /\ Populate(w, KeyOf[job[w]])
  /\ runs' = [runs EXCEPT ![KeyOf[job[w]]] = @ + 1]
  /\ UNCHANGED <<queue, job, cancelled, walkVars>>

RefusedJob(w) ==
  /\ job[w] # NoTest
  /\ pc[w] = "idle"
  /\ store[KeyOf[job[w]]] # Absent
  /\ job' = [job EXCEPT ![w] = NoTest]
  /\ UNCHANGED <<vars, queue, cancelled, walkVars, runs>>

FinishJob(w) ==
  /\ Finish(w) \/ FinishWithError(w)
  /\ UNCHANGED <<queue, job, cancelled, walkVars, runs>>

ResolveJob(w) ==
  /\ Resolve(w)
  /\ job' = [job EXCEPT ![w] = NoTest]
  /\ UNCHANGED <<queue, cancelled, walkVars, runs>>

-----------------------------------------------------------------------------
(* The walk.  Next is the item the innermost call of _judge_group is at.   *)
Top == Last(stack)
Walking == stack # <<>> /\ pc[Main] = "idle"
AtItem == Walking /\ Top.todo # <<>>
Item == Head(Top.todo)

EnterGroup ==
  /\ AtItem
  /\ Item \in Groups
  /\ stack' = Append(stack, Frame(Item))
  /\ UNCHANGED <<vars, queue, job, cancelled, judged, runs>>

AskForTest ==
  /\ AtItem
  /\ Item \in Tests
  /\ Get(Main, KeyOf[Item])
  /\ UNCHANGED <<queue, job, cancelled, walkVars, runs>>

RunMissing ==
  /\ ClaimMissed(Main) \/ ClaimRefused(Main)
  /\ runs' = [runs EXCEPT ![key[Main]] = @ + 1]
  /\ UNCHANGED <<queue, job, cancelled, walkVars>>

FinishMissing ==
  /\ Finish(Main) \/ Resolve(Main) \/ RunUncached(Main) \/ Subscribe(Main)
  /\ UNCHANGED <<queue, job, cancelled, walkVars, runs>>

(* A child's results enter its group: the group stops, and its jobs are    *)
(* cancelled, when the child is rejected and the group breaks.             *)
Absorb(frame, results, r) ==
  [group         |-> frame.group,
   todo          |-> IF Breaks(frame.group, r) THEN <<>> ELSE Tail(frame.todo),
   all_results   |-> frame.all_results \o results,
   child_results |-> Append(frame.child_results, r)]

CancelIfBroken(frame, r) ==
  cancelled' = IF Breaks(frame.group, r)
               THEN cancelled \union ToSet(AllTestcases[frame.group])
               ELSE cancelled

(* Mutant of TakeResult: the default score is written into the store.      *)
TakeResultInPlace ==
  /\ pc[Main] = "served"
  /\ Goto(Main, "idle")
  /\ res' = [res EXCEPT ![Main] = Unset]
  /\ LET r == WithDefaultScore(Judgement(res[Main]), Top.group)
     IN  /\ store' = IF store[key[Main]].state # "completed" THEN store
                     ELSE [store EXCEPT ![key[Main]].result.score = r.score]
         /\ stack' = Append(Front(stack), Absorb(Top, <<At(Item, r)>>, r))
         /\ CancelIfBroken(Top, r)
  /\ UNCHANGED <<beh, future, key, phase, failed, queue, job, judged, runs>>

(* The default score goes on a copy; the store keeps the original result.  *)
TakeResult ==
  /\ Return(Main)
  /\ LET r == WithDefaultScore(Judgement(res[Main]), Top.group)
     IN  /\ stack' = Append(Front(stack), Absorb(Top, <<At(Item, r)>>, r))
         /\ CancelIfBroken(Top, r)
  /\ UNCHANGED <<queue, job, judged, runs>>

(* A group's own result ends the list the call returns; a group of which   *)
(* everything is filtered out returns an empty list.                       *)
OwnResult(frame) == GroupResult(frame.group, frame.child_results)

Returned(frame) ==
  IF frame.all_results = <<>> THEN <<>>
  ELSE Append(frame.all_results, At(frame.group, OwnResult(frame)))

LeaveGroup ==
  /\ Walking
  /\ Top.todo = <<>>
  /\ Len(stack) > 1
  /\ LET parent == stack[Len(stack) - 1]
         outer == SubSeq(stack, 1, Len(stack) - 2)
     IN  IF Top.all_results = <<>>
         THEN /\ stack' = Append(outer, [parent EXCEPT !.todo = Tail(@)])
              /\ UNCHANGED cancelled
         ELSE /\ stack' = Append(outer, Absorb(parent, Returned(Top), OwnResult(Top)))
              /\ CancelIfBroken(parent, OwnResult(Top))
  /\ UNCHANGED <<vars, queue, job, judged, runs>>

FinishJudge ==
  /\ Walking
  /\ Top.todo = <<>>
  /\ Len(stack) = 1
  /\ judged' = Append(judged, Returned(Top))
  /\ stack' = <<>>
  /\ UNCHANGED <<vars, queue, job, cancelled, runs>>

JudgeAgain ==
  /\ stack = <<>>
  /\ NextJudge
  /\ stack' = <<Frame(Root)>>
  /\ UNCHANGED <<queue, job, cancelled, judged, runs>>

RaiseInJudge ==
  /\ Raise(Main)
  /\ UNCHANGED <<queue, job, cancelled, walkVars, runs>>

-----------------------------------------------------------------------------
(* precompute() queues the filtered test cases; with one thread there is   *)
(* no executor and it is not called.                                       *)
JudgeInit ==
  /\ Init
  /\ queue = IF Workers = {} THEN <<>> ELSE Selected(AllTestcases[Root])
  /\ job = [w \in Workers |-> NoTest]
  /\ cancelled = {}
  /\ stack = <<Frame(Root)>>
  /\ judged = <<>>
  /\ runs = [k \in Keys |-> 0]

WorkerStep(w) ==
  \/ StartJob(w) \/ ClaimJob(w) \/ RefusedJob(w) \/ FinishJob(w) \/ ResolveJob(w)

MainStep ==
  \/ EnterGroup \/ AskForTest \/ RunMissing \/ FinishMissing \/ TakeResult
  \/ LeaveGroup \/ FinishJudge \/ JudgeAgain

JudgeNext == (\E w \in Workers : WorkerStep(w)) \/ MainStep \/ RaiseInJudge

(* The threads are scheduled.  That an execution ends is no part of it:    *)
(* Program.run limits CPU time and waits without a timeout, and compiling  *)
(* a submission on its first run is not limited at all.                    *)
Executing(t) == pc[t] \in {"running", "uncached"}

JudgeFairness ==
  /\ \A w \in Workers : WF_judgeVars(~ Executing(w) /\ WorkerStep(w))
  /\ WF_judgeVars(~ Executing(Main) /\ MainStep)

JudgeSafety == JudgeInit /\ [][JudgeNext]_judgeVars

JudgeSpec == JudgeInit /\ [][JudgeNext]_judgeVars /\ JudgeFairness

-----------------------------------------------------------------------------
(* Judging with workers, a shared store and cancellation implements        *)
(* judging sequentially: whatever the threads do, and in whatever order    *)
(* results arrive, every call returns the same list.                       *)
Runs(submission, limit) ==
  [t \in Tests |-> Judgement(Direct(submission[KeyOf[t]], limit))]

(* What a reader of the list sees of a result: how far a time-out ran past *)
(* the limit differs between a run at the limit and a longer, cached one.  *)
Observed(list, limit) ==
  [i \in DOMAIN list |->
     [list[i] EXCEPT !.result.runtime = Least(@, limit + 1)]]

SequentialAnswer(submission, limit) == Observed(Answer(Runs(submission, limit)), limit)

Sequential == INSTANCE SequentialJudge WITH
  Submissions <- [Keys -> Behaviours],
  Answer <- SequentialAnswer,
  sub <- beh,
  judged <- [i \in DOMAIN judged |-> Observed(judged[i], Schedule[i])]

ImplementsSequentialJudge == Sequential!Spec

(* The walk and the executor use the store as its protocol demands.        *)
FollowsStoreProtocol == [][Next]_vars

(* "call with the largest first": every call but the first at a lower, or  *)
(* the same, limit.                                                        *)
LimitsNeverGrow ==
  \A i, j \in 1 .. Len(Schedule) : i <= j => Schedule[j] <= Schedule[i]

(* A later call at limits that do not grow finds every test case it needs  *)
(* in the store or in the hands of a worker: it starts no run.             *)
LaterCallsRunNothing ==
  phase > 1 => pc[Main] \notin {"missed", "running", "uncached"}

(* Claiming before the synchronous run keeps duplicated work to the one    *)
(* case the code cannot exclude: a worker that claims the key between the  *)
(* main thread's look-up and its own claim.                                *)
AtMostOneDuplicateRun == \A k \in Keys : runs[k] <= 2

(* A judge error of a test case is not lost on the way up: whatever the    *)
(* aggregators of the groups above it make of verdicts, and whichever of   *)
(* them break, it is the result of the whole call.                         *)
JudgeErrorIsNotLost ==
  \A n \in DOMAIN judged :
    (\E i \in DOMAIN judged[n] : judged[n][i].result.verdict = "JE") =>
      Last(judged[n]).result.verdict = "JE"

(* No call of judge() hangs if no execution does: unless a run of its own  *)
(* raises, it returns, and so does the next, although it waits for jobs    *)
(* that may be cancelled, refused a claim, or raise.  One submission that  *)
(* sleeps for ever is enough to break the premise.                         *)
ExecutionsEnd == \A t \in Threads : []<> ~ Executing(t)

CallsReturn ==
  ExecutionsEnd =>
    <>(Len(judged) = Len(Schedule) \/ pc[Main] \in {"abandoned", "raised"})
=============================================================================
