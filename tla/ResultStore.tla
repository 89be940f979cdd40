----------------------------- MODULE ResultStore -----------------------------
(***************************************************************************)
(* The store of execution results that the background workers and the      *)
(* judging thread share (judge/cache.py), together with the two callers    *)
(* that use it: SubmissionJudge._populate_cache_for_testcase, run by pool  *)
(* workers, and SubmissionJudge._judge_testcase, run by a consumer.        *)
(*                                                                         *)
(* Each step taken under the store's lock is one action.  The steps taken  *)
(* outside the lock are actions of their own: resolving the future after   *)
(* the entry is in place, and attaching a callback to a future that was    *)
(* read under the lock a moment before.                                    *)
(*                                                                         *)
(* A consumer asks at the limit Schedule[phase], the workers run at        *)
(* Schedule[1].  phase advances when judge() is called again with the next *)
(* limit of the schedule.                                                  *)
(***************************************************************************)
EXTENDS SubmissionResult, Sequences

CONSTANTS
  Keys,         \* reuse keys of the test cases
  Workers,      \* threads of the executor
  Consumers,    \* threads that call judge()
  Schedule,     \* the limits judge() is called with, in order
  Behaviours,   \* what the submission may do on an input
  MayFail       \* whether running a test case may raise an exception

ASSUME KeysAssumption == Keys # {}
ASSUME ThreadsAssumption == Workers \intersect Consumers = {}
ASSUME ScheduleAssumption == Schedule \in Seq(Nat) /\ Schedule # <<>>
ASSUME BehavioursAssumption == Behaviours \subseteq Behaviour
ASSUME MayFailAssumption == MayFail \in BOOLEAN

VARIABLES
  beh,      \* what the submission does on each key
  store,    \* ResultStore._store
  future,   \* the value of the Future made by the claim of a key
  pc,       \* where each thread is
  key,      \* the key a thread works on
  res,      \* the result a thread holds
  phase,    \* index of the current judge() call in Schedule
  failed    \* keys whose background run raised (history)

vars == <<beh, store, future, pc, key, res, phase, failed>>

Threads == Workers \union Consumers

Absent == [state |-> "absent"]
InFlight == [state |-> "inflight"]
Entry(r, limit) == [state |-> "completed", result |-> r, run_timelim |-> limit]

Unset == [verdict |-> "unset"]

Limit(t) == IF t \in Workers THEN Schedule[1] ELSE Schedule[phase]

Goto(t, label) == pc' = [pc EXCEPT ![t] = label]

-----------------------------------------------------------------------------
(* Mutants of Claim: it does not see that the key is in flight, or that it *)
(* is completed.                                                           *)
ClaimTaken(t, k) ==
  /\ store[k].state # "completed"
  /\ store' = [store EXCEPT ![k] = InFlight]
  /\ key' = [key EXCEPT ![t] = k]
  /\ Goto(t, "running")

ClaimCompleted(t, k) ==
  /\ store[k] # InFlight
  /\ store' = [store EXCEPT ![k] = InFlight]
  /\ key' = [key EXCEPT ![t] = k]
  /\ Goto(t, "running")

(* ResultStore.claim, the outcome True.                                    *)
Claim(t, k) ==
  /\ store[k] = Absent
  /\ store' = [store EXCEPT ![k] = InFlight]
  /\ key' = [key EXCEPT ![t] = k]
  /\ Goto(t, "running")

(* A worker's job for a test case of key k.  When the claim fails the job  *)
(* returns at once and nothing changes.                                    *)
Populate(w, k) ==
  /\ pc[w] = "idle"
  /\ Claim(w, k)
  /\ UNCHANGED <<beh, future, res, phase, failed>>

(* The run of a claimed test case ends and ResultStore.complete replaces   *)
(* the future by the entry; the future itself is still unresolved.         *)
Complete(t, r) ==
  /\ pc[t] = "running"
  /\ store' = [store EXCEPT ![key[t]] = Entry(r, Limit(t))]
  /\ res' = [res EXCEPT ![t] = r]
  /\ Goto(t, "resolving")
  /\ UNCHANGED <<beh, future, key, phase>>

Finish(t) ==
  /\ Complete(t, Direct(beh[key[t]], Limit(t)))
  /\ UNCHANGED failed

(* Mutant of FinishWithError: nothing completes the claim.                 *)
FinishWithoutResult(w) ==
  /\ MayFail
  /\ pc[w] = "running"
  /\ Goto(w, "idle")
  /\ failed' = failed \union {key[w]}
  /\ UNCHANGED <<beh, store, future, key, res, phase>>

(* A run that raises in the background is recorded as a judge error.       *)
FinishWithError(w) ==
  /\ MayFail
  /\ Complete(w, InternalError)
  /\ failed' = failed \union {key[w]}

(* On a consumer thread nothing catches the exception: it leaves judge()   *)
(* for good, and a claim the consumer holds is never completed.            *)
Raise(c) ==
  /\ MayFail
  /\ \/ pc[c] = "running" /\ Goto(c, "abandoned")
     \/ pc[c] = "uncached" /\ Goto(c, "raised")
  /\ UNCHANGED <<beh, store, future, key, res, phase, failed>>

(* future.set_result, outside the lock: every callback attached so far     *)
(* runs, so every consumer waiting for this future gets its result.        *)
Woken(t) == {c \in Consumers : pc[c] = "waiting" /\ key[c] = key[t]}

Resolve(t) ==
  /\ pc[t] = "resolving"
  /\ future' = [future EXCEPT ![key[t]] = res[t]]
  /\ res' = [u \in Threads |->
               IF u \in Woken(t) THEN Reclassify(res[t], Limit(u))
               ELSE IF u = t /\ t \in Workers THEN Unset ELSE res[u]]
  /\ pc' = [u \in Threads |->
              IF u \in Woken(t) THEN "served"
              ELSE IF u # t THEN pc[u]
              ELSE IF t \in Workers THEN "idle" ELSE "served"]
  /\ UNCHANGED <<beh, store, key, phase, failed>>

-----------------------------------------------------------------------------
(* Mutant of Reusable: the limits compared the wrong way round.            *)
ReusableFlipped(k, limit) ==
  store[k].state = "completed" /\ limit >= store[k].run_timelim

(* ResultStore.get: the look-up under the lock and what follows from it.   *)
Reusable(k, limit) ==
  store[k].state = "completed" /\ limit <= store[k].run_timelim

GetCompleted(c, k) ==
  /\ pc[c] = "idle"
  /\ Reusable(k, Limit(c))
  /\ key' = [key EXCEPT ![c] = k]
  /\ res' = [res EXCEPT ![c] = Reclassify(store[k].result, Limit(c))]
  /\ Goto(c, "served")
  /\ UNCHANGED <<beh, store, future, phase, failed>>

GetInFlight(c, k) ==
  /\ pc[c] = "idle"
  /\ store[k] = InFlight
  /\ key' = [key EXCEPT ![c] = k]
  /\ Goto(c, "subscribing")
  /\ UNCHANGED <<beh, store, future, res, phase, failed>>

GetNone(c, k) ==
  /\ pc[c] = "idle"
  /\ store[k] # InFlight
  /\ ~ Reusable(k, Limit(c))
  /\ key' = [key EXCEPT ![c] = k]
  /\ Goto(c, "missed")
  /\ UNCHANGED <<beh, store, future, res, phase, failed>>

(* Mutant of Subscribe: a future that is already resolved is waited for.   *)
SubscribeAndWait(c) ==
  /\ pc[c] = "subscribing"
  /\ Goto(c, "waiting")
  /\ UNCHANGED <<beh, store, future, key, res, phase, failed>>

(* add_done_callback on a future that may have been resolved meanwhile.    *)
Subscribe(c) ==
  /\ pc[c] = "subscribing"
  /\ IF future[key[c]] = Unset
     THEN Goto(c, "waiting") /\ UNCHANGED res
     ELSE /\ res' = [res EXCEPT ![c] = Reclassify(future[key[c]], Limit(c))]
          /\ Goto(c, "served")
  /\ UNCHANGED <<beh, store, future, key, phase, failed>>

(* The synchronous fallback: claim, and run whether or not it succeeded.   *)
ClaimMissed(c) ==
  /\ pc[c] = "missed"
  /\ Claim(c, key[c])
  /\ UNCHANGED <<beh, future, res, phase, failed>>

ClaimRefused(c) ==
  /\ pc[c] = "missed"
  /\ store[key[c]] # Absent
  /\ Goto(c, "uncached")
  /\ UNCHANGED <<beh, store, future, key, res, phase, failed>>

RunUncached(c) ==
  /\ pc[c] = "uncached"
  /\ res' = [res EXCEPT ![c] = Direct(beh[key[c]], Limit(c))]
  /\ Goto(c, "served")
  /\ UNCHANGED <<beh, store, future, key, phase, failed>>

(* _judge_testcase returns: the caller takes the result away.              *)
Return(c) ==
  /\ pc[c] = "served"
  /\ Goto(c, "idle")
  /\ res' = [res EXCEPT ![c] = Unset]
  /\ UNCHANGED <<beh, store, future, key, phase, failed>>

(* judge() is called again, with the next limit.                           *)
NextJudge ==
  /\ phase < Len(Schedule)
  /\ \A c \in Consumers : pc[c] = "idle"
  /\ phase' = phase + 1
  /\ UNCHANGED <<beh, store, future, pc, key, res, failed>>

-----------------------------------------------------------------------------
Init ==
  /\ beh \in [Keys -> Behaviours]
  /\ store = [k \in Keys |-> Absent]
  /\ future = [k \in Keys |-> Unset]
  /\ pc = [t \in Threads |-> "idle"]
  /\ key = [t \in Threads |-> CHOOSE k \in Keys : TRUE]   \* not read before it is set
  /\ res = [t \in Threads |-> Unset]
  /\ phase = 1
  /\ failed = {}

(* What a thread does next in a call it is in the middle of.               *)
Continue(t) ==
  \/ Finish(t)
  \/ Resolve(t)
  \/ /\ t \in Consumers
     /\ Subscribe(t) \/ ClaimMissed(t) \/ ClaimRefused(t) \/ RunUncached(t)

Get(c, k) == GetCompleted(c, k) \/ GetInFlight(c, k) \/ GetNone(c, k)

Next ==
  \/ \E t \in Threads : Continue(t)
  \/ \E w \in Workers : FinishWithError(w)
  \/ \E w \in Workers, k \in Keys : Populate(w, k)
  \/ \E c \in Consumers, k \in Keys : Get(c, k)
  \/ \E c \in Consumers : Return(c) \/ Raise(c)
  \/ NextJudge

StoreSafety == Init /\ [][Next]_vars

-----------------------------------------------------------------------------
StoreEntry == {Absent, InFlight}
  \union [state : {"completed"}, result : Result, run_timelim : Nat]

WorkerPC == {"idle", "running", "resolving"}
ConsumerPC == WorkerPC
  \union {"subscribing", "waiting", "missed", "uncached", "served",
          "abandoned", "raised"}

(* Type invariant: shapes of the store, the futures and the threads.       *)
TypeOK ==
  /\ beh \in [Keys -> Behaviours]
  /\ store \in [Keys -> StoreEntry]
  /\ future \in [Keys -> Result \union {Unset}]
  /\ pc \in [Threads -> ConsumerPC]
  /\ \A w \in Workers : pc[w] \in WorkerPC
  /\ key \in [Threads -> Keys]
  /\ res \in [Threads -> Result \union {Unset}]
  /\ \A t \in Threads : pc[t] \in {"resolving", "served"} => res[t] # Unset
  /\ phase \in 1 .. Len(Schedule)
  /\ failed \subseteq Keys

-----------------------------------------------------------------------------
(* The claim of a key is held by exactly one thread (still running it, or  *)
(* gone with an exception), and no thread runs under a claim the store     *)
(* does not show: the lock in claim and complete hands a key to one caller *)
(* and never loses it.                                                     *)
Holds(t) == pc[t] \in {"running", "abandoned"}

ClaimHasOneRunner ==
  /\ \A k \in Keys : store[k] = InFlight =>
       \E t \in Threads : Holds(t) /\ key[t] = k
  /\ \A t \in Threads : Holds(t) => store[key[t]] = InFlight
  /\ \A t, u \in Threads :
       /\ t # u
       /\ Holds(t) \/ pc[t] = "resolving"
       /\ Holds(u) \/ pc[u] = "resolving"
       => key[t] # key[u]

(* A consumer never sleeps on a future nobody will resolve: whoever waits  *)
(* attached its callback before the future was resolved, and the thread    *)
(* that will resolve it is still running the key or about to resolve it.   *)
NoLostWakeup ==
  \A c \in Consumers : pc[c] = "waiting" =>
    /\ future[key[c]] = Unset
    /\ \E t \in Threads : pc[t] \in {"running", "resolving"} /\ key[t] = key[c]

(* A judge error an interactive validator makes while the submission runs  *)
(* is the one outcome a lower limit does not preserve.                     *)
LimitSensitive(b) == b.verdict = "JE" /\ b.crash

(* Where the stored results come from: an entry holds what a run at its    *)
(* own run_timelim gives (or the judge error of a run that raised), a      *)
(* future holds the entry's result once it is resolved and not before, and *)
(* a consumer hanging on a future is promised a run at a sufficient limit. *)
EntryIsARun ==
  \A k \in Keys : store[k].state = "completed" =>
    /\ store[k].run_timelim \in {Schedule[i] : i \in 1 .. Len(Schedule)}
    /\ \/ store[k].result = Direct(beh[k], store[k].run_timelim)
       \/ k \in failed /\ store[k].result = InternalError

FutureFollowsEntry ==
  /\ \A k \in Keys : future[k] # Unset =>
       store[k].state = "completed" /\ future[k] = store[k].result
  /\ \A t \in Threads : pc[t] = "resolving" =>
       /\ store[key[t]].state = "completed"
       /\ store[key[t]].result = res[t]
       /\ future[key[t]] = Unset

WaitersAreCovered ==
  \A c \in Consumers :
    /\ pc[c] \in {"subscribing", "waiting"} =>
         /\ store[key[c]] # Absent
         /\ store[key[c]].state = "completed" =>
              Schedule[phase] <= store[key[c]].run_timelim
    /\ pc[c] = "resolving" => store[key[c]].run_timelim = Schedule[phase]

Provenance == EntryIsARun /\ FutureFollowsEntry /\ WaitersAreCovered

(* Whatever way a result reaches _judge_testcase's caller (completed       *)
(* entry, future, fallback run), it has the verdict a run at the caller's  *)
(* own limit would have had; the exceptions are a background run that      *)
(* raised, which stays a judge error at every limit.                       *)
ServedVerdictIsDirect ==
  \A c \in Consumers : pc[c] = "served" =>
    \/ res[c].verdict = Direct(beh[key[c]], Schedule[phase]).verdict
    \/ key[c] \in failed /\ res[c].verdict = "JE"
    \/ LimitSensitive(beh[key[c]])

(* The order of judge() calls the docstring of judge asks for, in its      *)
(* weakest form: no later limit exceeds the first.                         *)
LargestLimitFirst ==
  \A i \in 1 .. Len(Schedule) : Schedule[i] <= Schedule[1]

(* An entry is never overwritten and a resolved future never changes, so   *)
(* two look-ups of one key cannot disagree about the run behind it.        *)
EntriesAreFinal ==
  [][\A k \in Keys :
       /\ store[k].state = "completed" => store'[k] = store[k]
       /\ store[k] = InFlight => store'[k] # Absent
       /\ future[k] # Unset => future'[k] = future[k]]_<<store, future>>
=============================================================================
