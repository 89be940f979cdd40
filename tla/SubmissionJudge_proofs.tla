------------------------ MODULE SubmissionJudge_proofs ------------------------
(***************************************************************************)
(* Theorems about judging a submission and about the store it uses, for    *)
(* any tree of test data, any number of workers, any grader, any schedule  *)
(* of limits and any behaviour of the submission.                          *)
(*                                                                         *)
(* First the store: they are theorems of StoreSafety, the protocol without *)
(* fairness, for any number of keys, workers and consumers.  Then the      *)
(* walk and the executor, which use the store as ResultStore says its      *)
(* callers do, so that this holds while a submission is judged: no test    *)
(* case is run more than twice; no judge error is lost; the whole          *)
(* machinery answers what judging sequentially answers; and a second call  *)
(* runs nothing.                                                           *)
(***************************************************************************)
EXTENDS SubmissionJudge, TestTree_proofs

-----------------------------------------------------------------------------
(* Facts about results (cache.py _reclassify).                             *)

(* A result read at a lower limit is again a result.                       *)
LEMMA ReclassifyType ==
  ASSUME NEW r \in Result, NEW L \in Nat
  PROVE  Reclassify(r, L) \in Result
<1>1. CASE r.runtime <= L
  BY <1>1 DEF Reclassify
<1>2. CASE ~ (r.runtime <= L) /\ r.first /\ r.verdict = "WA"
  <2>1. Reclassify(r, L) = [r EXCEPT !.runtime = L]
    BY <1>2 DEF Reclassify
  <2>. QED  BY <2>1 DEF Result
<1>3. CASE ~ (r.runtime <= L) /\ ~ (r.first /\ r.verdict = "WA")
  <2>1. Reclassify(r, L) = [verdict |-> "TLE", runtime |-> r.runtime,
                            first |-> FALSE, score |-> NoScore]
    BY <1>3 DEF Reclassify, NewResult
  <2>. QED  BY <2>1 DEF Result, Verdict
<1>. QED  BY <1>1, <1>2, <1>3

(* One execution yields a result.                                          *)
LEMMA DirectType ==
  ASSUME NEW b \in Behaviour, NEW L \in Nat
  PROVE  Direct(b, L) \in Result
BY DEF Direct, Result, Behaviour, Verdict, ValidatorDecides, Least

(* The judge error of a failed job is a result.                            *)
LEMMA InternalErrorType == InternalError \in Result
BY DEF InternalError, NewResult, Result, Verdict

(* No result is the marker of an unset one.                                *)
LEMMA UnsetIsNoResult == Unset \notin Result
BY DEF Unset, Result

(* A run at the limit R, read at a limit L <= R, has the outcome a run at  *)
(* L would have had: caching results at the highest limit loses nothing    *)
(* but the judge errors an interactive validator makes.                    *)
THEOREM ReclassifyIsDirect ==
  ASSUME NEW b \in Behaviour, NEW L \in Nat, NEW R \in Nat,
         L <= R, ~ LimitSensitive(b)
  PROVE  Judgement(Reclassify(Direct(b, R), L)) = Judgement(Direct(b, L))
<1>1. CASE ValidatorDecides(b)
  <2>1. b.verdict = "WA" /\ b.first
    BY <1>1 DEF ValidatorDecides, LimitSensitive
  <2>2. \A T \in {L, R} : Direct(b, T) = [verdict |-> "WA", runtime |-> Least(b.time, T),
                                         first |-> b.first, score |-> NoScore]
    BY <1>1, <2>1 DEF Direct
  <2>3. CASE Least(b.time, R) <= L
    <3>1. Reclassify(Direct(b, R), L) = Direct(b, R)
      BY <2>2, <2>3 DEF Reclassify
    <3>2. Least(b.time, R) = Least(b.time, L)
      BY <2>3 DEF Least, Behaviour
    <3>. QED  BY <2>2, <3>1, <3>2
  <2>4. CASE ~ (Least(b.time, R) <= L)
    <3>1. Reclassify(Direct(b, R), L) = [Direct(b, R) EXCEPT !.runtime = L]
      BY <2>1, <2>2, <2>4 DEF Reclassify
    <3>2. Least(b.time, L) = L
      BY <2>4 DEF Least, Behaviour
    <3>. QED  BY <2>2, <3>1, <3>2 DEF Judgement
  <2>. QED  BY <2>3, <2>4
<1>2. CASE ~ ValidatorDecides(b) /\ b.time > R
  <2>1. b.time > L
    BY <1>2 DEF Behaviour
  <2>2. \A T \in {L, R} : Direct(b, T) = [verdict |-> "TLE", runtime |-> b.time,
                                         first |-> b.first, score |-> NoScore]
    BY <1>2, <2>1 DEF Direct
  <2>3. Reclassify(Direct(b, R), L) = [NewResult("TLE") EXCEPT !.runtime = b.time]
    BY <2>1, <2>2 DEF Reclassify, Behaviour
  <2>. QED  BY <2>2, <2>3 DEF Judgement, NewResult
<1>3. CASE ~ ValidatorDecides(b) /\ ~ (b.time > R)
  <2>1. Direct(b, R) = [verdict |-> b.verdict, runtime |-> b.time,
                        first |-> b.first, score |-> b.score]
    BY <1>3 DEF Direct
  <2>2. CASE b.time > L
    <3>1. Direct(b, L) = [verdict |-> "TLE", runtime |-> b.time,
                          first |-> b.first, score |-> NoScore]
      BY <1>3, <2>2 DEF Direct
    <3>2. ~ (b.first /\ b.verdict = "WA")
      BY <1>3 DEF ValidatorDecides
    <3>3. Reclassify(Direct(b, R), L) = [NewResult("TLE") EXCEPT !.runtime = b.time]
      BY <2>1, <2>2, <3>2 DEF Reclassify, Behaviour
    <3>. QED  BY <3>1, <3>3 DEF Judgement, NewResult
  <2>3. CASE ~ (b.time > L)
    BY <1>3, <2>1, <2>3 DEF Direct, Reclassify, Behaviour
  <2>. QED  BY <2>2, <2>3
<1>. QED  BY <1>1, <1>2, <1>3

(* A failed job stays a judge error at every limit.                        *)
LEMMA ErrorStaysError ==
  ASSUME NEW L \in Nat
  PROVE  Reclassify(InternalError, L).verdict = "JE"
BY DEF Reclassify, InternalError, NewResult

-----------------------------------------------------------------------------
(* The schedule and the threads.                                           *)

(* The first judge() call exists and every scheduled limit is a time.      *)
LEMMA ScheduleFacts ==
  /\ Len(Schedule) \in Nat
  /\ 1 \in 1 .. Len(Schedule)
  /\ \A i \in 1 .. Len(Schedule) : Schedule[i] \in Nat
BY ScheduleAssumption

(* A thread always asks or runs at a limit of the schedule.                *)
LEMMA LimitType ==
  ASSUME TypeOK, NEW t \in Threads
  PROVE  /\ Limit(t) \in Nat
         /\ Limit(t) \in {Schedule[i] : i \in 1 .. Len(Schedule)}
BY ScheduleFacts DEF Limit, TypeOK

(* A run delivers a result.                                                *)
LEMMA RunType ==
  ASSUME TypeOK, NEW t \in Threads
  PROVE  Direct(beh[key[t]], Limit(t)) \in Result
<1>1. beh[key[t]] \in Behaviour
  BY BehavioursAssumption DEF TypeOK
<1>. QED  BY <1>1, LimitType, DirectType

-----------------------------------------------------------------------------
(* Type correctness of the store and its callers.                          *)
THEOREM TypeCorrect == StoreSafety => []TypeOK
<1>1. Init => TypeOK
  BY KeysAssumption, ScheduleFacts DEF Init, TypeOK, StoreEntry, WorkerPC, ConsumerPC, Threads
<1>2. TypeOK /\ [Next]_vars => TypeOK'
  <2> SUFFICES ASSUME TypeOK, [Next]_vars
               PROVE  TypeOK'
    OBVIOUS
  <2> USE DEF Goto, Threads
  <2>1. ASSUME NEW t \in Threads, NEW k \in Keys, Claim(t, k),
               UNCHANGED <<beh, future, res, phase, failed>>
        PROVE  TypeOK'
    BY <2>1 DEF TypeOK, Claim, StoreEntry, WorkerPC, ConsumerPC
  <2>2. ASSUME NEW t \in Threads, NEW r \in Result, Complete(t, r),
               failed' \subseteq Keys
        PROVE  TypeOK'
    <3>1. Entry(r, Limit(t)) \in StoreEntry
      BY <2>2, LimitType DEF Entry, StoreEntry
    <3>. QED
      BY <2>2, <3>1, UnsetIsNoResult DEF TypeOK, Complete, WorkerPC, ConsumerPC
  <2>3. ASSUME NEW t \in Threads, Finish(t)
        PROVE  TypeOK'
    <3>1. failed' \subseteq Keys
      BY <2>3 DEF Finish, TypeOK
    <3>. QED  BY <2>2, <2>3, <3>1, RunType DEF Finish
  <2>4. ASSUME NEW w \in Workers, FinishWithError(w)
        PROVE  TypeOK'
    <3>1. failed' \subseteq Keys
      BY <2>4 DEF FinishWithError, TypeOK
    <3>. QED  BY <2>2, <2>4, <3>1, InternalErrorType DEF FinishWithError
  <2>5. ASSUME NEW t \in Threads, Resolve(t)
        PROVE  TypeOK'
    <3>1. /\ res[t] \in Result
          /\ key[t] \in Keys
      BY <2>5 DEF TypeOK, Resolve
    <3>2. \A u \in Threads : Reclassify(res[t], Limit(u)) \in Result
      BY <3>1, ReclassifyType, LimitType
    <3>. QED
      BY <2>5, <3>1, <3>2, UnsetIsNoResult, ThreadsAssumption
         DEF TypeOK, Resolve, Woken, WorkerPC, ConsumerPC
  <2>6. ASSUME NEW c \in Consumers, NEW k \in Keys, Get(c, k)
        PROVE  TypeOK'
    <3>1. CASE GetCompleted(c, k)
      <4>1. store[k].result \in Result
        BY <3>1 DEF GetCompleted, Reusable, TypeOK, StoreEntry, Absent, InFlight
      <4>2. Reclassify(store[k].result, Limit(c)) \in Result
        BY <4>1, ReclassifyType, LimitType
      <4>. QED
        BY <3>1, <4>2, UnsetIsNoResult, ThreadsAssumption
           DEF TypeOK, GetCompleted, WorkerPC, ConsumerPC
    <3>2. CASE GetInFlight(c, k)
      BY <3>2, ThreadsAssumption DEF TypeOK, GetInFlight, WorkerPC, ConsumerPC
    <3>3. CASE GetNone(c, k)
      BY <3>3, ThreadsAssumption DEF TypeOK, GetNone, WorkerPC, ConsumerPC
    <3>. QED  BY <2>6, <3>1, <3>2, <3>3 DEF Get
  <2>7. ASSUME NEW c \in Consumers, Subscribe(c)
        PROVE  TypeOK'
    <3>1. CASE future[key[c]] = Unset
      BY <2>7, <3>1, ThreadsAssumption DEF TypeOK, Subscribe, WorkerPC, ConsumerPC
    <3>2. CASE future[key[c]] # Unset
      <4>1. future[key[c]] \in Result
        BY <3>2 DEF TypeOK
      <4>2. Reclassify(future[key[c]], Limit(c)) \in Result
        BY <4>1, ReclassifyType, LimitType
      <4>. QED
        BY <2>7, <3>2, <4>2, UnsetIsNoResult, ThreadsAssumption
           DEF TypeOK, Subscribe, WorkerPC, ConsumerPC
    <3>. QED  BY <3>1, <3>2
  <2>8. ASSUME NEW c \in Consumers,
               ClaimRefused(c) \/ Return(c) \/ Raise(c)
        PROVE  TypeOK'
    BY <2>8, ThreadsAssumption
       DEF TypeOK, ClaimRefused, Return, Raise, WorkerPC, ConsumerPC
  <2>9. ASSUME NEW c \in Consumers, RunUncached(c)
        PROVE  TypeOK'
    <3>1. Limit(c) = Schedule[phase]
      BY ThreadsAssumption DEF Limit
    <3>2. Direct(beh[key[c]], Limit(c)) \in Result
      BY RunType
    <3>. QED
      BY <2>9, <3>2, UnsetIsNoResult, ThreadsAssumption
         DEF TypeOK, RunUncached, WorkerPC, ConsumerPC
  <2>10. CASE NextJudge
    BY <2>10, ScheduleFacts DEF TypeOK, NextJudge
  <2>11. CASE UNCHANGED vars
    BY <2>11 DEF TypeOK, vars
  <2>12. ASSUME NEW c \in Consumers, ClaimMissed(c)
         PROVE  TypeOK'
    <3>1. key[c] \in Keys
      BY DEF TypeOK
    <3>. QED  BY <2>1, <2>12, <3>1 DEF ClaimMissed
  <2>13. ASSUME NEW w \in Workers, NEW k \in Keys, Populate(w, k)
         PROVE  TypeOK'
    BY <2>1, <2>13 DEF Populate
  <2>. QED
    BY <2>3, <2>4, <2>5, <2>6, <2>7, <2>8, <2>9, <2>10, <2>11, <2>12, <2>13
       DEF Next, Continue
<1>. QED  BY <1>1, <1>2, PTL DEF StoreSafety

-----------------------------------------------------------------------------
(* A step of a call, spelled out: what the proofs below split on.          *)
LEMMA NextCases ==
  ASSUME [Next]_vars
  PROVE  \/ \E t \in Threads : Finish(t)
         \/ \E t \in Threads : Resolve(t)
         \/ \E w \in Workers : FinishWithError(w)
         \/ \E w \in Workers, k \in Keys : Populate(w, k)
         \/ \E c \in Consumers : ClaimMissed(c)
         \/ \E c \in Consumers, k \in Keys : Get(c, k)
         \/ \E c \in Consumers : Subscribe(c)
         \/ \E c \in Consumers : ClaimRefused(c)
         \/ \E c \in Consumers : RunUncached(c)
         \/ \E c \in Consumers : Return(c)
         \/ \E c \in Consumers : Raise(c)
         \/ NextJudge
         \/ UNCHANGED vars
BY DEF Next, Continue

(* Completing a claimed key, whoever does it and whatever the run gave.    *)
Completes(t) == \E r \in Result : Complete(t, r)

LEMMA FinishCompletes ==
  ASSUME TypeOK, NEW t \in Threads, Finish(t)
  PROVE  Complete(t, Direct(beh[key[t]], Limit(t))) /\ Completes(t)
BY RunType DEF Finish, Completes

LEMMA ErrorCompletes ==
  ASSUME NEW w \in Workers, FinishWithError(w)
  PROVE  Complete(w, InternalError) /\ Completes(w)
BY InternalErrorType DEF FinishWithError, Completes

(* A caller that is not idle, served or done holds on to its key.          *)
Busy(t) == Holds(t) \/ pc[t] = "resolving"

(* Nobody is busy with a key that is still unclaimed.                      *)
LEMMA AbsentIsFree ==
  ASSUME ClaimHasOneRunner, FutureFollowsEntry,
         NEW t \in Threads, Busy(t), key[t] \in Keys
  PROVE  store[key[t]] # Absent
BY DEF ClaimHasOneRunner, FutureFollowsEntry, Busy, Absent, InFlight

(* Every step keeps the claims in order.                                   *)
LEMMA ClaimStep ==
  ASSUME TypeOK, ClaimHasOneRunner, FutureFollowsEntry, [Next]_vars
  PROVE  ClaimHasOneRunner'
<1> USE ThreadsAssumption DEF Goto, Threads, Holds
<1>1. ASSUME NEW t \in Threads, NEW k \in Keys, Claim(t, k), ~ Busy(t)
      PROVE  ClaimHasOneRunner'
  <2>1. \A u \in Threads : u # t => pc'[u] = pc[u] /\ key'[u] = key[u]
    BY <1>1 DEF Claim, TypeOK
  <2>2. pc'[t] = "running" /\ key'[t] = k
    BY <1>1 DEF Claim, TypeOK
  <2>3. /\ store'[k] = InFlight
        /\ \A j \in Keys : j # k => store'[j] = store[j]
    BY <1>1 DEF Claim, TypeOK
  <2>4. \A u \in Threads : Busy(u) => key[u] # k
    BY <1>1, AbsentIsFree DEF Claim, TypeOK
  <2>. QED
    BY <1>1, <2>1, <2>2, <2>3, <2>4 DEF ClaimHasOneRunner, Busy, TypeOK
<1>2. ASSUME NEW t \in Threads, Completes(t)
      PROVE  ClaimHasOneRunner'
  <2>1. /\ pc[t] = "running"
        /\ pc' = [pc EXCEPT ![t] = "resolving"]
        /\ key' = key
    BY <1>2 DEF Completes, Complete
  <2>2. /\ store'[key[t]] # InFlight
        /\ \A j \in Keys : j # key[t] => store'[j] = store[j]
    BY <1>2 DEF Completes, Complete, Entry, InFlight, TypeOK
  <2>3. \A u \in Threads : u # t => pc'[u] = pc[u]
    BY <2>1 DEF TypeOK
  <2>4. pc'[t] = "resolving"
    BY <2>1 DEF TypeOK
  <2>5. \A u \in Threads : u # t /\ Busy(u) => key[u] # key[t]
    BY <2>1 DEF ClaimHasOneRunner, Busy
  <2>6. \A k \in Keys : store'[k] = InFlight =>
          \E u \in Threads : Holds(u)' /\ key'[u] = k
    <3> SUFFICES ASSUME NEW k \in Keys, store'[k] = InFlight
                 PROVE  \E u \in Threads : Holds(u)' /\ key'[u] = k
      OBVIOUS
    <3>1. k # key[t] /\ store[k] = InFlight
      BY <2>2
    <3>2. PICK u \in Threads : Holds(u) /\ key[u] = k
      BY <3>1 DEF ClaimHasOneRunner
    <3>. QED  BY <2>1, <2>3, <3>1, <3>2
  <2>7. \A u \in Threads : Holds(u)' => store'[key'[u]] = InFlight
    BY <2>1, <2>2, <2>3, <2>4, <2>5 DEF ClaimHasOneRunner, Busy, TypeOK
  <2>8. \A u, v \in Threads : u # v /\ Busy(u)' /\ Busy(v)' => key'[u] # key'[v]
    BY <2>1, <2>3, <2>4, <2>5 DEF ClaimHasOneRunner, Busy
  <2>. QED
    BY <2>6, <2>7, <2>8 DEF ClaimHasOneRunner, Busy
<1>3. ASSUME NEW t \in Threads, Resolve(t)
      PROVE  ClaimHasOneRunner'
  <2>1. ASSUME NEW u \in Threads
        PROVE  \/ pc'[u] = pc[u]
               \/ /\ pc[u] \in {"waiting", "resolving"}
                  /\ pc'[u] \in {"idle", "served"}
    <3>1. pc[t] = "resolving"
      BY <1>3 DEF Resolve
    <3>2. CASE u \in Woken(t)
      BY <1>3, <3>2 DEF Resolve, Woken
    <3>3. CASE u \notin Woken(t) /\ u # t
      BY <1>3, <3>3 DEF Resolve
    <3>4. CASE u = t
      <4>1. u \notin Woken(t)
        BY <3>1, <3>4 DEF Woken
      <4>. QED  BY <1>3, <3>1, <3>4, <4>1 DEF Resolve
    <3>. QED  BY <3>2, <3>3, <3>4
  <2>2. UNCHANGED <<store, key>>
    BY <1>3 DEF Resolve
  <2>3. \A u \in Threads : (Holds(u)' => Holds(u)) /\ (Holds(u) => Holds(u)')
    BY <2>1
  <2>4. \A u \in Threads : pc'[u] = "resolving" => pc[u] = "resolving"
    BY <2>1
  <2>5. \A k \in Keys : store'[k] = InFlight =>
          \E u \in Threads : Holds(u)' /\ key'[u] = k
    BY <2>2, <2>3 DEF ClaimHasOneRunner
  <2>6. \A u \in Threads : Holds(u)' => store'[key'[u]] = InFlight
    BY <2>2, <2>3 DEF ClaimHasOneRunner
  <2>7. \A u, v \in Threads : u # v /\ Busy(u)' /\ Busy(v)' => key'[u] # key'[v]
    BY <2>2, <2>3, <2>4 DEF ClaimHasOneRunner, Busy
  <2>. QED  BY <2>5, <2>6, <2>7 DEF ClaimHasOneRunner, Busy
<1>4. ASSUME NEW c \in Consumers, NEW k \in Keys, Get(c, k)
      PROVE  ClaimHasOneRunner'
  <2>1. /\ pc[c] = "idle"
        /\ \E l \in {"served", "subscribing", "missed"} : pc' = [pc EXCEPT ![c] = l]
        /\ key' = [key EXCEPT ![c] = k]
        /\ store' = store
    BY <1>4 DEF Get, GetCompleted, GetInFlight, GetNone
  <2>2. \A u \in Threads :
          /\ Holds(u)' <=> Holds(u)
          /\ pc'[u] = "resolving" <=> pc[u] = "resolving"
          /\ Busy(u) => key'[u] = key[u]
    BY <2>1 DEF TypeOK, Busy
  <2>. QED  BY <2>1, <2>2 DEF ClaimHasOneRunner, Busy, Holds
<1>5. ASSUME NEW c \in Consumers,
             Subscribe(c) \/ ClaimRefused(c) \/ RunUncached(c) \/ Return(c) \/ Raise(c)
      PROVE  ClaimHasOneRunner'
  <2>1. UNCHANGED <<store, key>>
    BY <1>5 DEF Subscribe, ClaimRefused, RunUncached, Return, Raise
  <2>2. \A u \in Threads :
          /\ Holds(u)' <=> Holds(u)
          /\ pc'[u] = "resolving" <=> pc[u] = "resolving"
    BY <1>5 DEF Subscribe, ClaimRefused, RunUncached, Return, Raise, TypeOK
  <2>. QED  BY <2>1, <2>2 DEF ClaimHasOneRunner, Holds
<1>6. CASE NextJudge \/ UNCHANGED vars
  BY <1>6 DEF NextJudge, vars, ClaimHasOneRunner
<1>7. ASSUME NEW w \in Workers, NEW k \in Keys, Populate(w, k)
      PROVE  ClaimHasOneRunner'
  BY <1>1, <1>7 DEF Populate, Busy
<1>8. ASSUME NEW c \in Consumers, ClaimMissed(c)
      PROVE  ClaimHasOneRunner'
  BY <1>1, <1>8 DEF ClaimMissed, Busy, TypeOK
<1>. QED
  BY <1>2, <1>3, <1>4, <1>5, <1>6, <1>7, <1>8,
     NextCases, FinishCompletes, ErrorCompletes

-----------------------------------------------------------------------------
(* A thread never runs below the limit that is being asked for.            *)
LEMMA LimitCoversPhase ==
  ASSUME LargestLimitFirst, TypeOK, NEW t \in Threads
  PROVE  /\ Schedule[phase] <= Limit(t)
         /\ t \in Consumers => Limit(t) = Schedule[phase]
<1>1. CASE t \in Workers
  BY <1>1, ThreadsAssumption, ScheduleFacts DEF Limit, LargestLimitFirst, TypeOK
<1>2. CASE t \notin Workers
  <2>1. Limit(t) = Schedule[phase] /\ Schedule[phase] \in Nat
    BY <1>2, ScheduleFacts DEF Limit, TypeOK
  <2>. QED  BY <2>1
<1>. QED  BY <1>1, <1>2

(* Every step keeps the stored results accounted for.                      *)
LEMMA ProvenanceStep ==
  ASSUME LargestLimitFirst, TypeOK, ClaimHasOneRunner, Provenance, [Next]_vars
  PROVE  Provenance'
<1> USE ThreadsAssumption DEF Goto, Threads
<1>1. ASSUME NEW t \in Threads, NEW k \in Keys, Claim(t, k), ~ Busy(t),
             UNCHANGED <<beh, future, res, phase, failed>>
      PROVE  Provenance'
  <2>1. \A u \in Threads : u # t => pc'[u] = pc[u] /\ key'[u] = key[u]
    BY <1>1 DEF Claim, TypeOK
  <2>2. pc'[t] = "running"
    BY <1>1 DEF Claim, TypeOK
  <2>3. /\ store'[k] = InFlight
        /\ store[k] = Absent
        /\ \A j \in Keys : j # k => store'[j] = store[j]
    BY <1>1 DEF Claim, TypeOK
  <2>4. EntryIsARun'
    BY <1>1, <2>3 DEF Provenance, EntryIsARun, InFlight
  <2>5. FutureFollowsEntry'
    BY <1>1, <2>1, <2>2, <2>3 DEF Provenance, FutureFollowsEntry, Absent, TypeOK
  <2>6. WaitersAreCovered'
    <3>1. ASSUME NEW c \in Consumers, pc[c] = "resolving"
          PROVE  key[c] # k
      BY <2>3, <3>1 DEF Provenance, FutureFollowsEntry, Absent
    <3>. QED
      BY <1>1, <2>1, <2>2, <2>3, <3>1 DEF Provenance, WaitersAreCovered, TypeOK
  <2>. QED  BY <2>4, <2>5, <2>6 DEF Provenance
<1>2. ASSUME NEW t \in Threads, NEW r \in Result, Complete(t, r),
             failed \subseteq failed',
             \/ r = Direct(beh[key[t]], Limit(t))
             \/ key[t] \in failed' /\ r = InternalError
      PROVE  Provenance'
  <2>1. /\ pc[t] = "running"
        /\ pc'[t] = "resolving"
        /\ \A u \in Threads : u # t => pc'[u] = pc[u]
        /\ res'[t] = r
        /\ \A u \in Threads : u # t => res'[u] = res[u]
    BY <1>2 DEF Complete, TypeOK
  <2>2. /\ key[t] \in Keys
        /\ store'[key[t]] = Entry(r, Limit(t))
        /\ \A j \in Keys : j # key[t] => store'[j] = store[j]
        /\ UNCHANGED <<beh, future, key, phase>>
    BY <1>2 DEF Complete, TypeOK
  <2>3. /\ store'[key[t]].state = "completed"
        /\ store'[key[t]].result = r
        /\ store'[key[t]].run_timelim = Limit(t)
    BY <2>2 DEF Entry
  <2>4. store[key[t]] = InFlight
    BY <2>1 DEF ClaimHasOneRunner, Holds
  <2>5. \A u \in Threads : u # t /\ pc[u] = "resolving" => key[u] # key[t]
    BY <2>1 DEF ClaimHasOneRunner, Holds
  <2>6. EntryIsARun'
    BY <1>2, <2>2, <2>3, LimitType DEF Provenance, EntryIsARun
  <2>7. FutureFollowsEntry'
    <3>1. future[key[t]] = Unset
      BY <2>2, <2>4 DEF Provenance, FutureFollowsEntry, InFlight
    <3>. QED
      BY <2>1, <2>2, <2>3, <2>5, <3>1 DEF Provenance, FutureFollowsEntry, TypeOK
  <2>8. WaitersAreCovered'
    <3>1. Schedule[phase] <= Limit(t)
      BY LimitCoversPhase
    <3>2. t \in Consumers => Limit(t) = Schedule[phase]
      BY LimitCoversPhase
    <3>3. store'[key[t]] # Absent
      BY <2>3 DEF Absent
    <3>. QED
      BY <2>1, <2>2, <2>3, <2>5, <3>1, <3>2, <3>3
         DEF Provenance, WaitersAreCovered, TypeOK
  <2>. QED  BY <2>6, <2>7, <2>8 DEF Provenance
<1>3. ASSUME NEW t \in Threads, Resolve(t)
      PROVE  Provenance'
  <2>1. pc[t] = "resolving" /\ UNCHANGED <<beh, store, key, phase, failed>>
    BY <1>3 DEF Resolve
  <2>2. t \notin Woken(t)
    BY <2>1 DEF Woken
  <2>3. pc'[t] \in {"idle", "served"}
    BY <1>3, <2>2 DEF Resolve
  <2>4. \A u \in Threads : u # t =>
          \/ pc'[u] = "served"
          \/ pc'[u] = pc[u] /\ res'[u] = res[u]
    BY <1>3 DEF Resolve
  <2>5. /\ future'[key[t]] = res[t]
        /\ \A k \in Keys : k # key[t] => future'[k] = future[k]
    BY <1>3 DEF Resolve, TypeOK
  <2>6. \A u \in Threads : u # t /\ pc[u] = "resolving" => key[u] # key[t]
    BY <2>1 DEF ClaimHasOneRunner
  <2>7. EntryIsARun'
    BY <2>1 DEF Provenance, EntryIsARun
  <2>8. FutureFollowsEntry'
    BY <2>1, <2>3, <2>4, <2>5, <2>6 DEF Provenance, FutureFollowsEntry, TypeOK
  <2>9. WaitersAreCovered'
    BY <2>1, <2>3, <2>4 DEF Provenance, WaitersAreCovered
  <2>. QED  BY <2>7, <2>8, <2>9 DEF Provenance
<1>4. ASSUME NEW c \in Consumers, NEW k \in Keys, Get(c, k)
      PROVE  Provenance'
  <2>1. /\ pc[c] = "idle"
        /\ pc'[c] \in {"served", "subscribing", "missed"}
        /\ \A u \in Threads : u # c =>
             pc'[u] = pc[u] /\ key'[u] = key[u] /\ res'[u] = res[u]
        /\ key'[c] = k
        /\ UNCHANGED <<beh, store, future, phase, failed>>
    BY <1>4 DEF Get, GetCompleted, GetInFlight, GetNone, TypeOK
  <2>2. pc'[c] = "subscribing" => store[k] = InFlight
    BY <1>4 DEF Get, GetCompleted, GetInFlight, GetNone, TypeOK
  <2>3. EntryIsARun'
    BY <2>1 DEF Provenance, EntryIsARun
  <2>4. FutureFollowsEntry'
    BY <2>1 DEF Provenance, FutureFollowsEntry
  <2>5. WaitersAreCovered'
    BY <2>1, <2>2 DEF Provenance, WaitersAreCovered, InFlight, Absent
  <2>. QED  BY <2>3, <2>4, <2>5 DEF Provenance
<1>5. ASSUME NEW c \in Consumers,
             Subscribe(c) \/ ClaimRefused(c) \/ RunUncached(c) \/ Return(c) \/ Raise(c)
      PROVE  Provenance'
  <2>1. /\ pc[c] # "resolving"
        /\ pc'[c] # "resolving"
        /\ pc'[c] \in {"subscribing", "waiting"} => pc[c] = "subscribing"
        /\ \A u \in Threads : u # c => pc'[u] = pc[u] /\ res'[u] = res[u]
        /\ UNCHANGED <<beh, store, future, key, phase, failed>>
    BY <1>5 DEF Subscribe, ClaimRefused, RunUncached, Return, Raise, TypeOK
  <2>2. EntryIsARun'
    BY <2>1 DEF Provenance, EntryIsARun
  <2>3. FutureFollowsEntry'
    BY <2>1 DEF Provenance, FutureFollowsEntry
  <2>4. WaitersAreCovered'
    BY <2>1 DEF Provenance, WaitersAreCovered
  <2>. QED  BY <2>2, <2>3, <2>4 DEF Provenance
<1>6. CASE NextJudge
  <2>1. UNCHANGED <<beh, store, future, pc, key, res, failed>>
    BY <1>6 DEF NextJudge
  <2>2. \A c \in Consumers : pc[c] = "idle"
    BY <1>6 DEF NextJudge
  <2>. QED
    BY <2>1, <2>2 DEF Provenance, EntryIsARun, FutureFollowsEntry, WaitersAreCovered
<1>7. CASE UNCHANGED vars
  BY <1>7 DEF vars, Provenance, EntryIsARun, FutureFollowsEntry, WaitersAreCovered
<1>8. ASSUME NEW w \in Workers, NEW k \in Keys, Populate(w, k)
      PROVE  Provenance'
  BY <1>1, <1>8 DEF Populate, Busy, Holds
<1>9. ASSUME NEW c \in Consumers, ClaimMissed(c)
      PROVE  Provenance'
  BY <1>1, <1>9 DEF ClaimMissed, Busy, Holds, TypeOK
<1>10. ASSUME NEW t \in Threads, Finish(t)
       PROVE  Provenance'
  BY <1>2, <1>10, RunType DEF Finish
<1>11. ASSUME NEW w \in Workers, FinishWithError(w)
       PROVE  Provenance'
  BY <1>2, <1>11, InternalErrorType DEF FinishWithError
<1>. QED
  BY <1>3, <1>4, <1>5, <1>6, <1>7, <1>8, <1>9, <1>10, <1>11, NextCases

-----------------------------------------------------------------------------
(* The result a caller asking about key k at a limit may be given.         *)
Faithful(r, k, limit) ==
  \/ Judgement(r) = Judgement(Direct(beh[k], limit))
  \/ k \in failed /\ r.verdict = "JE"
  \/ LimitSensitive(beh[k])

(* Whoever is served has such a result: not the verdict alone is that of a *)
(* run at the limit, but the score and the runtime as well.                *)
ServedResultIsDirect ==
  \A c \in Consumers : pc[c] = "served" => Faithful(res[c], key[c], Schedule[phase])

(* Reading an entry at a limit its run covers gives a faithful result.     *)
LEMMA EntryServes ==
  ASSUME TypeOK, EntryIsARun, NEW k \in Keys, store[k].state = "completed",
         NEW L \in Nat, L <= store[k].run_timelim
  PROVE  Faithful(Reclassify(store[k].result, L), k, L)
<1>1. beh[k] \in Behaviour
  BY BehavioursAssumption DEF TypeOK
<1>2. store[k].run_timelim \in Nat
  BY ScheduleFacts DEF EntryIsARun
<1>3. CASE store[k].result = Direct(beh[k], store[k].run_timelim)
  BY <1>1, <1>2, <1>3, ReclassifyIsDirect DEF Faithful
<1>4. CASE k \in failed /\ store[k].result = InternalError
  BY <1>4, ErrorStaysError DEF Faithful
<1>. QED  BY <1>3, <1>4 DEF EntryIsARun

(* The result a consumer takes from its own run is faithful as it is.      *)
LEMMA OwnEntryServes ==
  ASSUME TypeOK, Provenance, NEW c \in Consumers, pc[c] = "resolving"
  PROVE  Faithful(res[c], key[c], Schedule[phase])
<1>1. /\ store[key[c]].state = "completed"
      /\ store[key[c]].result = res[c]
  BY DEF Provenance, FutureFollowsEntry, Threads
<1>2. store[key[c]].run_timelim = Schedule[phase]
  BY DEF Provenance, WaitersAreCovered
<1>3. key[c] \in Keys
  BY DEF TypeOK, Threads
<1>4. CASE res[c] = Direct(beh[key[c]], Schedule[phase])
  BY <1>4 DEF Faithful
<1>5. CASE key[c] \in failed /\ res[c] = InternalError
  BY <1>5 DEF Faithful, InternalError, NewResult
<1>. QED  BY <1>1, <1>2, <1>3, <1>4, <1>5 DEF Provenance, EntryIsARun

(* Every step hands out faithful results only.                             *)
LEMMA ServedStep ==
  ASSUME LargestLimitFirst, TypeOK, ClaimHasOneRunner, Provenance,
         ServedResultIsDirect, [Next]_vars
  PROVE  ServedResultIsDirect'
<1> DEFINE Same(c) == pc[c] = "served" /\ res'[c] = res[c] /\ key'[c] = key[c]
<1> USE ThreadsAssumption DEF Goto, Threads
<1>0. Schedule[phase] \in Nat
  BY ScheduleFacts DEF TypeOK
<1>1. SUFFICES ASSUME ~ NextJudge, NEW c \in Consumers, pc'[c] = "served"
               PROVE  Same(c) \/ Faithful(res'[c], key'[c], Schedule[phase])
  <2>1. CASE NextJudge
    BY <2>1 DEF NextJudge, ServedResultIsDirect
  <2>2. CASE ~ NextJudge
    <3>1. UNCHANGED <<beh, phase>> /\ failed \subseteq failed'
      BY <2>2, NextCases
         DEF vars, Finish, Resolve, FinishWithError, Complete, Populate,
             ClaimMissed, Get, GetCompleted, GetInFlight, GetNone, Subscribe,
             ClaimRefused, RunUncached, Return, Raise
    <3>2. ASSUME NEW c \in Consumers, pc'[c] = "served"
          PROVE  \/ Judgement(res'[c]) = Judgement(Direct(beh'[key'[c]], Schedule[phase']))
                 \/ key'[c] \in failed' /\ res'[c].verdict = "JE"
                 \/ LimitSensitive(beh'[key'[c]])
      <4>1. Same(c) => Faithful(res'[c], key'[c], Schedule[phase])
        BY DEF ServedResultIsDirect, Faithful
      <4>2. Faithful(res'[c], key'[c], Schedule[phase])
        BY <1>1, <2>2, <3>2, <4>1
      <4>. QED  BY <3>1, <4>2 DEF Faithful
    <3>. QED  BY <3>2 DEF ServedResultIsDirect, Faithful
  <2>. QED  BY <2>1, <2>2
<1>2. Limit(c) = Schedule[phase] /\ key[c] \in Keys
  BY DEF Limit, TypeOK
<1>3. ASSUME NEW t \in Threads, NEW r \in Result, Complete(t, r)
      PROVE  Same(c)
  BY <1>1, <1>3 DEF Complete, TypeOK
<1>4. ASSUME NEW t \in Threads, Resolve(t)
      PROVE  Same(c) \/ Faithful(res'[c], key'[c], Schedule[phase])
  <2>1. key' = key
    BY <1>4 DEF Resolve
  <2>2. CASE c \in Woken(t)
    <3>1. res'[c] = Reclassify(res[t], Limit(c))
      BY <1>4, <2>2 DEF Resolve
    <3>2. key[c] = key[t] /\ pc[c] = "waiting"
      BY <2>2 DEF Woken
    <3>3. store[key[t]].state = "completed" /\ store[key[t]].result = res[t]
      BY <1>4 DEF Resolve, Provenance, FutureFollowsEntry
    <3>4. Schedule[phase] <= store[key[c]].run_timelim
      BY <3>2, <3>3 DEF Provenance, WaitersAreCovered
    <3>. QED
      BY <1>0, <1>2, <2>1, <3>1, <3>2, <3>3, <3>4, EntryServes DEF Provenance
  <2>3. CASE c \notin Woken(t) /\ c = t
    <3>1. pc[c] = "resolving" /\ res'[c] = res[c]
      BY <1>4, <2>3 DEF Resolve
    <3>. QED  BY <2>1, <3>1, OwnEntryServes
  <2>4. CASE c \notin Woken(t) /\ c # t
    BY <1>1, <1>4, <2>1, <2>4 DEF Resolve
  <2>. QED  BY <2>2, <2>3, <2>4
<1>5. ASSUME NEW d \in Consumers, NEW k \in Keys, Get(d, k)
      PROVE  Same(c) \/ Faithful(res'[c], key'[c], Schedule[phase])
  <2>1. CASE c = d /\ GetCompleted(d, k)
    <3>1. /\ key'[c] = k
          /\ res'[c] = Reclassify(store[k].result, Limit(c))
          /\ Reusable(k, Limit(c))
      BY <2>1 DEF GetCompleted, TypeOK
    <3>. QED
      BY <1>0, <1>2, <3>1, EntryServes DEF Reusable, Provenance
  <2>2. CASE c = d /\ ~ GetCompleted(d, k)
    BY <1>1, <1>5, <2>2 DEF Get, GetInFlight, GetNone, TypeOK
  <2>3. CASE c # d
    BY <1>1, <1>5, <2>3 DEF Get, GetCompleted, GetInFlight, GetNone, TypeOK
  <2>. QED  BY <2>1, <2>2, <2>3
<1>6. ASSUME NEW d \in Consumers, Subscribe(d)
      PROVE  Same(c) \/ Faithful(res'[c], key'[c], Schedule[phase])
  <2>1. key' = key
    BY <1>6 DEF Subscribe
  <2>2. CASE c = d
    <3>1. /\ pc[c] = "subscribing"
          /\ future[key[c]] # Unset
          /\ res'[c] = Reclassify(future[key[c]], Limit(c))
      BY <1>1, <1>6, <2>2 DEF Subscribe, TypeOK
    <3>2. /\ store[key[c]].state = "completed"
          /\ future[key[c]] = store[key[c]].result
      BY <1>2, <3>1 DEF Provenance, FutureFollowsEntry
    <3>3. Schedule[phase] <= store[key[c]].run_timelim
      BY <3>1, <3>2 DEF Provenance, WaitersAreCovered
    <3>. QED
      BY <1>0, <1>2, <2>1, <3>1, <3>2, <3>3, EntryServes DEF Provenance
  <2>3. CASE c # d
    BY <1>1, <1>6, <2>1, <2>3 DEF Subscribe, TypeOK
  <2>. QED  BY <2>2, <2>3
<1>7. ASSUME NEW d \in Consumers, RunUncached(d)
      PROVE  Same(c) \/ Faithful(res'[c], key'[c], Schedule[phase])
  <2>1. CASE c = d
    BY <1>2, <1>7, <2>1 DEF RunUncached, Faithful, TypeOK
  <2>2. CASE c # d
    BY <1>1, <1>7, <2>2 DEF RunUncached, TypeOK
  <2>. QED  BY <2>1, <2>2
<1>8. ASSUME NEW d \in Consumers,
             ClaimMissed(d) \/ ClaimRefused(d) \/ Return(d) \/ Raise(d)
      PROVE  Same(c)
  BY <1>1, <1>8 DEF ClaimMissed, Claim, ClaimRefused, Return, Raise, TypeOK
<1>9. ASSUME NEW w \in Workers, NEW k \in Keys, Populate(w, k)
      PROVE  Same(c)
  BY <1>1, <1>9 DEF Populate, Claim, TypeOK
<1>10. CASE UNCHANGED vars
  BY <1>1, <1>10 DEF vars
<1>11. ASSUME NEW t \in Threads, Finish(t)
       PROVE  Same(c)
  BY <1>3, <1>11, RunType DEF Finish
<1>12. ASSUME NEW w \in Workers, FinishWithError(w)
       PROVE  Same(c)
  BY <1>3, <1>12, InternalErrorType DEF FinishWithError
<1>. QED
  BY <1>1, <1>4, <1>5, <1>6, <1>7, <1>8, <1>9, <1>10, <1>11, <1>12, NextCases

-----------------------------------------------------------------------------
(* The inductive invariant: who holds which claim, and which run is behind *)
(* every stored result, every future and every consumer's hope.            *)
IInv == TypeOK /\ ClaimHasOneRunner /\ Provenance

(* When judge() is never called with a limit above its first, the store    *)
(* keeps the inductive invariant.                                          *)
LEMMA Inductive == LargestLimitFirst => (StoreSafety => []IInv)
<1> SUFFICES ASSUME LargestLimitFirst
             PROVE  StoreSafety => []IInv
  OBVIOUS
<1>1. Init => ClaimHasOneRunner /\ Provenance
  BY DEF Init, ClaimHasOneRunner, Holds, Provenance, EntryIsARun,
         FutureFollowsEntry, WaitersAreCovered, Absent, InFlight, Threads
<1>2. TypeOK /\ ClaimHasOneRunner /\ Provenance /\ [Next]_vars
        => ClaimHasOneRunner' /\ Provenance'
  BY ClaimStep, ProvenanceStep DEF Provenance
<1>. QED  BY <1>1, <1>2, TypeCorrect, PTL DEF StoreSafety, IInv

(* A claimed key is run by exactly one thread, and the claim shows in the  *)
(* store until that thread completes it (claim/complete, cache.py).        *)
THEOREM OneRunnerPerClaim == LargestLimitFirst => (StoreSafety => []ClaimHasOneRunner)
BY Inductive, PTL DEF IInv

(* Every entry, resolved future and pending consumer is backed by a run at *)
(* a sufficient limit.                                                     *)
THEOREM StoredResultsAreRuns == LargestLimitFirst => (StoreSafety => []Provenance)
BY Inductive, PTL DEF IInv

(* With the largest limit first, judge() sees at each of its limits the    *)
(* result a run at that very limit gives, whichever thread ran the test    *)
(* case, at whatever limit, and however the answer came (cache.py get).    *)
LEMMA CachedResultsAreDirect ==
  LargestLimitFirst => (StoreSafety => []ServedResultIsDirect)
<1> SUFFICES ASSUME LargestLimitFirst
             PROVE  StoreSafety => []ServedResultIsDirect
  OBVIOUS
<1>1. Init => ServedResultIsDirect
  BY DEF Init, ServedResultIsDirect, Threads
<1>2. IInv /\ ServedResultIsDirect /\ [Next]_vars => ServedResultIsDirect'
  BY ServedStep DEF IInv
<1>. QED  BY <1>1, <1>2, Inductive, PTL DEF StoreSafety

(* In particular it sees the verdict such a run gives.                     *)
THEOREM CachedVerdictsAreDirect ==
  LargestLimitFirst => (StoreSafety => []ServedVerdictIsDirect)
<1>1. ServedResultIsDirect => ServedVerdictIsDirect
  BY DEF ServedResultIsDirect, ServedVerdictIsDirect, Faithful, Judgement
<1>. QED  BY <1>1, CachedResultsAreDirect, PTL

(* Entries and resolved futures never change (complete replaces a claim    *)
(* exactly once, and no entry is ever withdrawn).                          *)
THEOREM EntriesNeverChange == LargestLimitFirst => (StoreSafety => EntriesAreFinal)
<1> SUFFICES ASSUME LargestLimitFirst
             PROVE  StoreSafety => EntriesAreFinal
  OBVIOUS
<1> DEFINE Final == \A k \in Keys :
       /\ store[k].state = "completed" => store'[k] = store[k]
       /\ store[k] = InFlight => store'[k] # Absent
       /\ future[k] # Unset => future'[k] = future[k]
<1>1. ASSUME IInv, [Next]_vars
      PROVE  Final
  <2>1. ASSUME NEW t \in Threads, NEW k \in Keys, Claim(t, k), UNCHANGED future
        PROVE  Final
    BY <1>1, <2>1 DEF Claim, IInv, TypeOK, Absent, InFlight
  <2>2. ASSUME NEW t \in Threads, Completes(t)
        PROVE  Final
    <3>1. store[key[t]] = InFlight /\ future' = future
      BY <1>1, <2>2 DEF Completes, Complete, IInv, ClaimHasOneRunner, Holds
    <3>2. /\ store'[key[t]] # Absent
          /\ \A j \in Keys : j # key[t] => store'[j] = store[j]
      BY <1>1, <2>2 DEF Completes, Complete, Entry, Absent, IInv, TypeOK
    <3>. QED  BY <3>1, <3>2 DEF InFlight, Absent
  <2>3. ASSUME NEW t \in Threads, Resolve(t)
        PROVE  Final
    <3>1. future[key[t]] = Unset
      BY <1>1, <2>3 DEF Resolve, IInv, Provenance, FutureFollowsEntry
    <3>. QED
      BY <1>1, <2>3, <3>1 DEF Resolve, IInv, TypeOK, InFlight, Absent
  <2>4. ASSUME UNCHANGED <<store, future>>
        PROVE  Final
    BY <2>4 DEF InFlight, Absent
  <2>5. ASSUME NEW t \in Threads, Finish(t)
        PROVE  Final
    BY <1>1, <2>2, <2>5, FinishCompletes DEF IInv
  <2>. QED
    BY <1>1, <2>1, <2>2, <2>3, <2>4, <2>5, NextCases, ErrorCompletes
       DEF vars, Populate, ClaimMissed, Get, GetCompleted, GetInFlight, GetNone,
           Subscribe, ClaimRefused, RunUncached, Return, Raise, NextJudge,
           IInv, TypeOK, Threads
<1>2. IInv /\ [Next]_vars => [Final]_<<store, future>>
  BY <1>1
<1>. QED  BY <1>2, Inductive, PTL DEF StoreSafety, EntriesAreFinal

-----------------------------------------------------------------------------
(* What keeps a wake-up from being lost: a completed entry whose future is *)
(* still unresolved has a thread about to resolve it, and whoever waits is *)
(* attached to an unresolved future.                                       *)
Resolver ==
  /\ \A k \in Keys : store[k].state = "completed" /\ future[k] = Unset =>
       \E t \in Threads : pc[t] = "resolving" /\ key[t] = k
  /\ \A c \in Consumers : pc[c] = "waiting" => future[key[c]] = Unset

(* Every step keeps a resolver for each unresolved future.                 *)
LEMMA ResolverStep ==
  ASSUME IInv, Resolver, [Next]_vars
  PROVE  Resolver'
<1> USE ThreadsAssumption DEF Goto, Threads
<1>0. TypeOK /\ ClaimHasOneRunner /\ Provenance
  BY DEF IInv
<1>1. ASSUME NEW t \in Threads, NEW k \in Keys, Claim(t, k),
             pc[t] \in {"idle", "missed"}, UNCHANGED future
      PROVE  Resolver'
  <2>1. \A u \in Threads : u # t => pc'[u] = pc[u] /\ key'[u] = key[u]
    BY <1>0, <1>1 DEF Claim, TypeOK
  <2>2. /\ store'[k] = InFlight
        /\ \A j \in Keys : j # k => store'[j] = store[j]
        /\ pc'[t] = "running"
    BY <1>0, <1>1 DEF Claim, TypeOK
  <2>. QED  BY <1>1, <2>1, <2>2 DEF Resolver, InFlight
<1>2. ASSUME NEW t \in Threads, Completes(t)
      PROVE  Resolver'
  <2>1. /\ pc[t] = "running"
        /\ pc'[t] = "resolving"
        /\ \A u \in Threads : u # t => pc'[u] = pc[u]
        /\ UNCHANGED <<key, future>>
    BY <1>0, <1>2 DEF Completes, Complete, TypeOK
  <2>2. \A j \in Keys : j # key[t] => store'[j] = store[j]
    BY <1>0, <1>2 DEF Completes, Complete, TypeOK
  <2>. QED  BY <2>1, <2>2 DEF Resolver
<1>3. ASSUME NEW t \in Threads, Resolve(t)
      PROVE  Resolver'
  <2>1. /\ pc[t] = "resolving"
        /\ res[t] # Unset
        /\ UNCHANGED <<store, key>>
    BY <1>0, <1>3 DEF Resolve, TypeOK
  <2>2. /\ future'[key[t]] = res[t]
        /\ \A k \in Keys : k # key[t] => future'[k] = future[k]
    BY <1>0, <1>3 DEF Resolve, TypeOK
  <2>3. ASSUME NEW u \in Threads, pc[u] = "resolving", u # t
        PROVE  pc'[u] = "resolving"
    <3>1. u \notin Woken(t)
      BY <2>3 DEF Woken
    <3>. QED  BY <1>3, <2>3, <3>1 DEF Resolve
  <2>4. ASSUME NEW c \in Consumers, pc'[c] = "waiting"
        PROVE  pc[c] = "waiting" /\ key[c] # key[t]
    <3>1. c \notin Woken(t) /\ c # t
      BY <1>3, <2>4 DEF Resolve
    <3>2. pc'[c] = pc[c]
      BY <1>3, <3>1 DEF Resolve
    <3>. QED  BY <2>4, <3>1, <3>2 DEF Woken
  <2>5. \A c \in Consumers : key[c] \in Keys
    BY <1>0 DEF TypeOK
  <2>. QED  BY <2>1, <2>2, <2>3, <2>4, <2>5 DEF Resolver
<1>4. ASSUME NEW c \in Consumers, NEW k \in Keys, Get(c, k)
      PROVE  Resolver'
  <2>1. /\ pc[c] = "idle"
        /\ pc'[c] \in {"served", "subscribing", "missed"}
        /\ \A u \in Threads : u # c => pc'[u] = pc[u] /\ key'[u] = key[u]
        /\ UNCHANGED <<store, future>>
    BY <1>0, <1>4 DEF Get, GetCompleted, GetInFlight, GetNone, TypeOK
  <2>. QED  BY <2>1 DEF Resolver
<1>5. ASSUME NEW c \in Consumers,
             Subscribe(c) \/ ClaimRefused(c) \/ RunUncached(c) \/ Return(c) \/ Raise(c)
      PROVE  Resolver'
  <2>1. /\ pc[c] # "resolving"
        /\ pc'[c] = "waiting" => future[key[c]] = Unset
        /\ \A u \in Threads : u # c => pc'[u] = pc[u]
        /\ UNCHANGED <<store, future, key>>
    BY <1>0, <1>5 DEF Subscribe, ClaimRefused, RunUncached, Return, Raise, TypeOK
  <2>. QED  BY <2>1 DEF Resolver
<1>6. CASE NextJudge \/ UNCHANGED vars
  BY <1>6 DEF NextJudge, vars, Resolver
<1>. QED
  BY <1>0, <1>1, <1>2, <1>3, <1>4, <1>5, <1>6, NextCases, FinishCompletes,
     ErrorCompletes DEF Populate, ClaimMissed, TypeOK

(* In the program one thread judges.                                       *)
OneConsumer == \A c, d \in Consumers : c = d

(* The judging thread never sleeps on a future that nobody will resolve,   *)
(* although it attaches its callback, and the worker resolves the future,  *)
(* outside the lock (cache.py get and complete).                           *)
THEOREM NoWakeupIsLost ==
  LargestLimitFirst /\ OneConsumer => (StoreSafety => []NoLostWakeup)
<1> SUFFICES ASSUME LargestLimitFirst, OneConsumer
             PROVE  StoreSafety => []NoLostWakeup
  OBVIOUS
<1>1. Init => Resolver
  BY DEF Init, Resolver, Absent, Threads
<1>2. IInv /\ Resolver /\ [Next]_vars => Resolver'
  BY ResolverStep
<1>3. IInv /\ Resolver => NoLostWakeup
  <2> SUFFICES ASSUME IInv, Resolver, NEW c \in Consumers, pc[c] = "waiting"
               PROVE  /\ future[key[c]] = Unset
                      /\ \E t \in Threads : /\ pc[t] \in {"running", "resolving"}
                                            /\ key[t] = key[c]
    BY DEF NoLostWakeup
  <2>1. future[key[c]] = Unset /\ key[c] \in Keys
    BY DEF Resolver, IInv, TypeOK, Threads
  <2>2. CASE store[key[c]] = InFlight
    <3>1. PICK t \in Threads : Holds(t) /\ key[t] = key[c]
      BY <2>1, <2>2 DEF IInv, ClaimHasOneRunner
    <3>2. pc[t] # "abandoned"
      BY <3>1 DEF OneConsumer, IInv, TypeOK, WorkerPC, Threads
    <3>. QED  BY <2>1, <3>1, <3>2 DEF Holds
  <2>3. CASE store[key[c]] # InFlight
    <3>1. store[key[c]] # Absent
      BY DEF IInv, Provenance, WaitersAreCovered
    <3>2. store[key[c]].state = "completed"
      BY <2>1, <2>3, <3>1 DEF IInv, TypeOK, StoreEntry
    <3>. QED  BY <2>1, <3>2 DEF Resolver
  <2>. QED  BY <2>2, <2>3
<1>. QED  BY <1>1, <1>2, <1>3, Inductive, PTL DEF StoreSafety

-----------------------------------------------------------------------------
(* The jobs in the executor are test cases.                                *)
JobsOK == queue \in Seq(Tests) /\ job \in [Workers -> Tests \union {NoTest}]

(* precompute() queues test cases, and a worker's job comes from the queue.*)
LEMMA JobsTyped == JudgeSafety => []JobsOK
<1>1. JudgeInit => JobsOK
  <2>1. AllTestcases[Root] \in Seq(Tests)
    BY AllTestcasesTyped, TreeAssumption
  <2>2. Selected(AllTestcases[Root]) \in Seq(Tests)
    <3> DEFINE all == AllTestcases[Root]
    <3>1. ToSet(all) \intersect (Groups \union Matching) \subseteq Tests
      BY <2>1 DEF ToSet
    <3> HIDE DEF all
    <3>. QED  BY <2>1, <3>1, SelectedItems, SeqMonotonic DEF all
  <2>3. <<>> \in Seq(Tests)
    OBVIOUS
  <2>. QED  BY <2>2, <2>3 DEF JudgeInit, JobsOK
<1>2. ASSUME JobsOK, [JudgeNext]_judgeVars
      PROVE  JobsOK'
  <2>1. ASSUME NEW w \in Workers, StartJob(w)
        PROVE  JobsOK'
    <3>1. Head(queue) \in Tests /\ Tail(queue) \in Seq(Tests)
      BY <1>2, <2>1 DEF StartJob, JobsOK
    <3>. QED  BY <1>2, <2>1, <3>1 DEF StartJob, JobsOK
  <2>2. ASSUME NEW w \in Workers, RefusedJob(w) \/ ResolveJob(w)
        PROVE  JobsOK'
    BY <1>2, <2>2 DEF RefusedJob, ResolveJob, JobsOK
  <2>3. ASSUME UNCHANGED <<queue, job>>
        PROVE  JobsOK'
    BY <1>2, <2>3 DEF JobsOK
  <2>. QED
    BY <1>2, <2>1, <2>2, <2>3
       DEF JudgeNext, WorkerStep, ClaimJob, FinishJob, MainStep, EnterGroup,
           AskForTest, RunMissing, FinishMissing, TakeResult, LeaveGroup,
           FinishJudge, JudgeAgain, RaiseInJudge, judgeVars
<1>. QED  BY <1>1, <1>2, PTL DEF JudgeSafety

(* Every step of the judge is a step of the store's protocol, or leaves    *)
(* the store and the threads' use of it alone.                             *)
LEMMA JudgeStepIsStoreStep ==
  ASSUME JobsOK, [JudgeNext]_judgeVars
  PROVE  [Next]_vars
<1>1. Main \in Consumers /\ Main \in Threads /\ Workers \subseteq Threads
  BY MainAssumption DEF Threads
<1>2. ASSUME NEW w \in Workers, WorkerStep(w)
      PROVE  [Next]_vars
  <2>1. CASE StartJob(w) \/ RefusedJob(w)
    BY <2>1 DEF StartJob, RefusedJob, vars
  <2>2. CASE ClaimJob(w)
    <3>1. KeyOf[job[w]] \in Keys
      BY <2>2, KeyOfAssumption DEF ClaimJob, JobsOK
    <3>. QED  BY <2>2, <3>1 DEF ClaimJob, Next
  <2>3. CASE FinishJob(w)
    BY <1>1, <2>3 DEF FinishJob, Next, Continue
  <2>4. CASE ResolveJob(w)
    BY <1>1, <2>4 DEF ResolveJob, Next, Continue
  <2>. QED  BY <1>2, <2>1, <2>2, <2>3, <2>4 DEF WorkerStep
<1>3. ASSUME MainStep
      PROVE  [Next]_vars
  <2>1. CASE EnterGroup \/ LeaveGroup \/ FinishJudge
    BY <2>1 DEF EnterGroup, LeaveGroup, FinishJudge, vars
  <2>2. CASE AskForTest
    <3>1. KeyOf[Item] \in Keys
      BY <2>2, KeyOfAssumption DEF AskForTest
    <3>. QED  BY <1>1, <2>2, <3>1 DEF AskForTest, Next
  <2>3. CASE RunMissing \/ FinishMissing
    BY <1>1, <2>3 DEF RunMissing, FinishMissing, Next, Continue
  <2>4. CASE TakeResult
    BY <1>1, <2>4 DEF TakeResult, Next
  <2>5. CASE JudgeAgain
    BY <2>5 DEF JudgeAgain, Next
  <2>. QED  BY <1>3, <2>1, <2>2, <2>3, <2>4, <2>5 DEF MainStep
<1>4. CASE RaiseInJudge
  BY <1>1, <1>4 DEF RaiseInJudge, Next
<1>5. CASE UNCHANGED judgeVars
  BY <1>5 DEF judgeVars, vars
<1>. QED  BY <1>2, <1>3, <1>4, <1>5 DEF JudgeNext

(* Judging implements the store's specification: the executor's workers    *)
(* and the walk obey the protocol under which the store is proved correct. *)
THEOREM JudgeFollowsStoreProtocol == JudgeSafety => StoreSafety /\ FollowsStoreProtocol
<1>1. JudgeInit => Init
  BY DEF JudgeInit
<1>2. JobsOK /\ [JudgeNext]_judgeVars => [Next]_vars
  BY JudgeStepIsStoreStep
<1>. QED
  BY <1>1, <1>2, JobsTyped, PTL DEF JudgeSafety, StoreSafety, FollowsStoreProtocol

(* While a submission is judged, whatever _judge_testcase hands to the     *)
(* walk has the verdict of a run at the walk's own limit.                  *)
THEOREM JudgedVerdictsAreDirect ==
  LargestLimitFirst => (JudgeSafety => []ServedVerdictIsDirect)
BY JudgeFollowsStoreProtocol, CachedVerdictsAreDirect, PTL

(* The walk never sleeps on a future nobody will resolve, whichever jobs   *)
(* are cancelled or refused a claim.                                       *)
THEOREM WalkIsWoken == LargestLimitFirst => (JudgeSafety => []NoLostWakeup)
<1>1. OneConsumer
  BY MainAssumption DEF OneConsumer
<1>. QED  BY <1>1, JudgeFollowsStoreProtocol, NoWakeupIsLost, PTL

-----------------------------------------------------------------------------
(* Duplicate runs.  With limits that never grow, an entry serves every     *)
(* call of judge() that can still ask for it.                              *)
EntriesServe ==
  \A k \in Keys : store[k].state = "completed" =>
    Schedule[phase] <= store[k].run_timelim

(* An unclaimed key has not been run; the main thread decides to run a key *)
(* itself only when nobody has, so at most one worker can get ahead of it. *)
RunsCounted ==
  /\ runs \in [Keys -> Nat]
  /\ \A k \in Keys : store[k] = Absent => runs[k] = 0
  /\ \A k \in Keys : pc[Main] = "missed" /\ key[Main] = k => runs[k] <= 1
  /\ AtMostOneDuplicateRun

(* No step makes an entry useless.                                         *)
LEMMA EntriesServeStep ==
  ASSUME LimitsNeverGrow, TypeOK, EntriesServe, [Next]_vars
  PROVE  EntriesServe'
<1> USE ThreadsAssumption, ScheduleAssumption DEF Goto
<1>1. \A i \in 1 .. Len(Schedule) : Schedule[i] \in Nat
  OBVIOUS
<1>2. ASSUME NEW t \in Threads, Completes(t)
      PROVE  EntriesServe'
  <2>1. phase' = phase /\ phase \in 1 .. Len(Schedule) /\ 1 \in 1 .. Len(Schedule)
    BY <1>2 DEF Completes, Complete, TypeOK
  <2>2. Schedule[phase] <= Limit(t)
    BY <1>1, <2>1 DEF Limit, LimitsNeverGrow
  <2>3. /\ store'[key[t]].run_timelim = Limit(t)
        /\ \A j \in Keys : j # key[t] => store'[j] = store[j]
    BY <1>2 DEF Completes, Complete, Entry, TypeOK
  <2>. QED  BY <2>1, <2>2, <2>3 DEF EntriesServe
<1>3. ASSUME NEW t \in Threads, NEW k \in Keys, Claim(t, k), UNCHANGED phase
      PROVE  EntriesServe'
  BY <1>3 DEF Claim, EntriesServe, TypeOK, InFlight
<1>4. CASE NextJudge
  <2>1. /\ store' = store
        /\ phase \in 1 .. Len(Schedule)
        /\ phase' = phase + 1
        /\ phase' \in 1 .. Len(Schedule)
    BY <1>4 DEF NextJudge, TypeOK
  <2>2. Schedule[phase'] <= Schedule[phase]
    BY <2>1 DEF LimitsNeverGrow
  <2>3. ASSUME NEW k \in Keys, store[k].state = "completed"
        PROVE  Schedule[phase'] <= store[k].run_timelim
    <3>1. store[k].run_timelim \in Nat /\ Schedule[phase] <= store[k].run_timelim
      BY <2>3 DEF EntriesServe, TypeOK, StoreEntry, Absent, InFlight
    <3>. QED  BY <1>1, <2>1, <2>2, <3>1
  <2>. QED  BY <2>1, <2>3 DEF EntriesServe
<1>5. ASSUME UNCHANGED <<store, phase>>
      PROVE  EntriesServe'
  BY <1>5 DEF EntriesServe
<1>. QED
  BY <1>2, <1>3, <1>4, <1>5, NextCases, FinishCompletes, ErrorCompletes
     DEF Populate, ClaimMissed, TypeOK, Threads, vars, Resolve, Get, GetCompleted,
         GetInFlight, GetNone, Subscribe, ClaimRefused, RunUncached, Return, Raise

(* A run is started by a worker's claim, by the main thread's claim, or by *)
(* the main thread when a worker was faster.                               *)
LEMMA RunsCountedStep ==
  ASSUME TypeOK, JobsOK, EntriesServe, RunsCounted, [JudgeNext]_judgeVars
  PROVE  RunsCounted'
<1> USE DEF Goto
<1>0. Main \in Consumers /\ Main \in Threads /\ Workers \subseteq Threads
      /\ Main \notin Workers
  BY MainAssumption, ThreadsAssumption DEF Threads
<1>1. ASSUME UNCHANGED runs, \A k \in Keys : store'[k] = Absent => store[k] = Absent,
             UNCHANGED <<pc[Main], key[Main]>> \/ pc'[Main] # "missed"
      PROVE  RunsCounted'
  BY <1>1 DEF RunsCounted, AtMostOneDuplicateRun
<1>2. ASSUME NEW t \in Threads, NEW k \in Keys, Claim(t, k),
             runs' = [runs EXCEPT ![k] = @ + 1],
             t = Main \/ UNCHANGED <<pc[Main], key[Main]>>
      PROVE  RunsCounted'
  <2>1. runs[k] = 0
    BY <1>2 DEF Claim, RunsCounted
  <2>2. /\ runs' \in [Keys -> Nat]
        /\ runs'[k] = 1
        /\ \A j \in Keys : j # k => runs'[j] = runs[j]
    BY <1>2, <2>1 DEF RunsCounted
  <2>3. /\ store'[k] # Absent
        /\ \A j \in Keys : j # k => store'[j] = store[j]
        /\ pc'[t] = "running"
    BY <1>2 DEF Claim, TypeOK, InFlight, Absent
  <2>. QED
    BY <1>2, <2>2, <2>3 DEF RunsCounted, AtMostOneDuplicateRun
<1>3. ASSUME NEW t \in Threads, NEW r, Complete(t, r), UNCHANGED runs
      PROVE  RunsCounted'
  <2>1. \A k \in Keys : store'[k] = Absent => store[k] = Absent
    BY <1>3 DEF Complete, Entry, Absent, TypeOK
  <2>2. pc'[t] = "resolving" /\ \A u \in Threads : u # t => pc'[u] = pc[u]
    BY <1>3 DEF Complete, TypeOK
  <2>3. key' = key
    BY <1>3 DEF Complete
  <2>. QED  BY <1>0, <1>1, <1>3, <2>1, <2>2, <2>3
<1>4. ASSUME NEW t \in Threads, Resolve(t), UNCHANGED runs
      PROVE  RunsCounted'
  <2>1. pc'[Main] = pc[Main] \/ pc'[Main] # "missed"
    BY <1>0, <1>4 DEF Resolve
  <2>. QED  BY <1>1, <1>4, <2>1 DEF Resolve
<1>5. CASE AskForTest
  <2>1. KeyOf[Item] \in Keys /\ UNCHANGED <<runs, store>>
    BY <1>5, KeyOfAssumption
       DEF AskForTest, Get, GetCompleted, GetInFlight, GetNone
  <2>2. CASE GetNone(Main, KeyOf[Item])
    <3>1. /\ store[KeyOf[Item]] = Absent
          /\ key'[Main] = KeyOf[Item]
      <4>1. store[KeyOf[Item]].state # "completed"
        BY <1>0, <2>1, <2>2 DEF GetNone, Reusable, Limit, EntriesServe
      <4>2. key'[Main] = KeyOf[Item]
        BY <1>0, <2>2 DEF GetNone, TypeOK
      <4>. QED  BY <2>1, <2>2, <4>1, <4>2 DEF GetNone, TypeOK, StoreEntry
    <3>2. runs[KeyOf[Item]] = 0
      BY <2>1, <3>1 DEF RunsCounted
    <3>. QED  BY <2>1, <3>1, <3>2 DEF RunsCounted, AtMostOneDuplicateRun
  <2>3. CASE GetCompleted(Main, KeyOf[Item]) \/ GetInFlight(Main, KeyOf[Item])
    <3>1. pc'[Main] # "missed"
      BY <1>0, <2>3 DEF GetCompleted, GetInFlight, TypeOK
    <3>. QED  BY <1>1, <2>1, <3>1
  <2>. QED  BY <1>5, <2>2, <2>3 DEF AskForTest, Get
<1>6. CASE RunMissing
  <2>1. CASE ClaimMissed(Main)
    BY <1>0, <1>2, <1>6, <2>1 DEF RunMissing, ClaimMissed, TypeOK
  <2>2. CASE ClaimRefused(Main)
    <3>1. /\ runs[key[Main]] \in 0 .. 1
          /\ key[Main] \in Keys
          /\ store[key[Main]] # Absent
          /\ pc'[Main] = "uncached"
          /\ UNCHANGED <<store, key>>
      BY <1>0, <2>2 DEF ClaimRefused, RunsCounted, TypeOK
    <3>2. runs' = [runs EXCEPT ![key[Main]] = @ + 1]
      BY <1>6 DEF RunMissing
    <3>. QED  BY <3>1, <3>2 DEF RunsCounted, AtMostOneDuplicateRun
  <2>. QED  BY <1>6, <2>1, <2>2 DEF RunMissing
<1>7. ASSUME UNCHANGED <<runs, store, key>>, UNCHANGED pc[Main] \/ pc'[Main] # "missed"
      PROVE  RunsCounted'
  BY <1>1, <1>7
<1>8. ASSUME NEW w \in Workers, WorkerStep(w)
      PROVE  RunsCounted'
  <2>1. CASE StartJob(w) \/ RefusedJob(w)
    BY <1>7, <2>1 DEF StartJob, RefusedJob, vars
  <2>2. CASE ClaimJob(w)
    <3>1. KeyOf[job[w]] \in Keys
      BY <2>2, KeyOfAssumption DEF ClaimJob, JobsOK
    <3>2. Claim(w, KeyOf[job[w]]) /\ UNCHANGED <<pc[Main], key[Main]>>
      BY <1>0, <2>2 DEF ClaimJob, Populate, Claim, TypeOK
    <3>. QED  BY <1>0, <1>2, <2>2, <3>1, <3>2 DEF ClaimJob
  <2>3. CASE FinishJob(w)
    BY <1>0, <1>3, <2>3 DEF FinishJob, Finish, FinishWithError
  <2>4. CASE ResolveJob(w)
    BY <1>0, <1>4, <2>4 DEF ResolveJob
  <2>. QED  BY <1>8, <2>1, <2>2, <2>3, <2>4 DEF WorkerStep
<1>9. CASE FinishMissing
  <2>1. CASE Finish(Main) \/ Resolve(Main)
    BY <1>0, <1>3, <1>4, <1>9, <2>1 DEF FinishMissing, Finish
  <2>2. CASE RunUncached(Main) \/ Subscribe(Main)
    <3>1. pc'[Main] # "missed" /\ UNCHANGED <<store, key>>
      BY <1>0, <2>2 DEF RunUncached, Subscribe, TypeOK
    <3>. QED  BY <1>7, <1>9, <3>1 DEF FinishMissing
  <2>. QED  BY <1>9, <2>1, <2>2 DEF FinishMissing
<1>10. CASE TakeResult \/ RaiseInJudge
  <2>1. pc'[Main] # "missed" /\ UNCHANGED <<runs, store, key>>
    BY <1>0, <1>10 DEF TakeResult, RaiseInJudge, Return, Raise, TypeOK
  <2>. QED  BY <1>7, <2>1
<1>11. CASE EnterGroup \/ LeaveGroup \/ FinishJudge \/ UNCHANGED judgeVars
  BY <1>7, <1>11 DEF EnterGroup, LeaveGroup, FinishJudge, judgeVars, vars
<1>12. CASE JudgeAgain
  BY <1>7, <1>12 DEF JudgeAgain, NextJudge
<1>. QED
  BY <1>5, <1>6, <1>8, <1>9, <1>10, <1>11, <1>12 DEF JudgeNext, MainStep

(* With limits that never grow, no test case is run more than twice,       *)
(* however often judge() is called and however workers and walk race.      *)
THEOREM NoTestCaseRunsThrice ==
  LimitsNeverGrow => (JudgeSafety => []AtMostOneDuplicateRun)
<1> SUFFICES ASSUME LimitsNeverGrow
             PROVE  JudgeSafety => []AtMostOneDuplicateRun
  OBVIOUS
<1>1. JudgeInit => EntriesServe /\ RunsCounted
  BY MainAssumption DEF JudgeInit, Init, EntriesServe, RunsCounted, Absent,
     AtMostOneDuplicateRun, Threads
<1>2. TypeOK /\ JobsOK /\ EntriesServe /\ RunsCounted /\ [JudgeNext]_judgeVars
        => EntriesServe' /\ RunsCounted'
  BY JudgeStepIsStoreStep, EntriesServeStep, RunsCountedStep
<1>3. JudgeSafety => []TypeOK
  BY JudgeFollowsStoreProtocol, TypeCorrect, PTL
<1>4. RunsCounted => AtMostOneDuplicateRun
  BY DEF RunsCounted
<1>. QED  BY <1>1, <1>2, <1>3, <1>4, JobsTyped, PTL DEF JudgeSafety

-----------------------------------------------------------------------------
(* A judge error among the lines of a list, or among a group's children.   *)
ErrorIn(lines) == \E i \in DOMAIN lines : lines[i].result.verdict = "JE"
ErrorAmong(results) == \E i \in DOMAIN results : results[i].verdict = "JE"

(* A judge error in the list of a call is one of the group's children.     *)
FrameOK(f) ==
  /\ IsSeq(f.all_results) /\ IsSeq(f.child_results)
  /\ ErrorIn(f.all_results) => ErrorAmong(f.child_results)

WalkOK ==
  /\ IsSeq(stack)
  /\ \A i \in DOMAIN stack : FrameOK(stack[i])
  /\ IsSeq(judged)
  /\ \A n \in DOMAIN judged : IsSeq(judged[n])
  /\ JudgeErrorIsNotLost

(* A judge error among the children is the group's result.                 *)
LEMMA ErrorIsAggregated ==
  ASSUME NEW f, FrameOK(f), ErrorAmong(f.child_results)
  PROVE  OwnResult(f).verdict = "JE"
<1> DEFINE children == f.child_results
           errors == {i \in DOMAIN children : children[i].verdict = "JE"}
<1>1. errors # {}
  BY DEF ErrorAmong
<1>2. DOMAIN children \subseteq Nat
  BY SeqIsSeq DEF FrameOK, IsSeq
<1>3. Min(errors) \in errors
  BY <1>1, <1>2, MinIsLeast
<1>4. OwnResult(f) = children[Min(errors)]
  BY <1>1 DEF OwnResult, GroupResult, AggregateGroupResult
<1>. QED  BY <1>3, <1>4

(* A list with a judge error in it ends in one.                            *)
LEMMA ReturnedEndsInError ==
  ASSUME NEW f, FrameOK(f)
  PROVE  /\ IsSeq(Returned(f))
         /\ ErrorIn(Returned(f)) => /\ OwnResult(f).verdict = "JE"
                                    /\ Last(Returned(f)).result.verdict = "JE"
<1> DEFINE own == At(f.group, OwnResult(f))
<1>1. CASE f.all_results = <<>>
  BY <1>1, ShortSeqs DEF Returned, ErrorIn
<1>2. CASE f.all_results # <<>>
  <2>1. Returned(f) = Append(f.all_results, own)
    BY <1>2 DEF Returned
  <2>2. own.result = OwnResult(f)
    BY DEF At
  <2>3. IsSeq(Returned(f)) /\ Last(Returned(f)) = own
    BY <2>1, AppendIsSeq DEF FrameOK, Last
  <2>4. ErrorIn(Returned(f)) => ErrorIn(f.all_results) \/ own.result.verdict = "JE"
    BY <2>1, AppendIsSeq DEF ErrorIn, FrameOK
  <2>. QED  BY <2>2, <2>3, <2>4, ErrorIsAggregated DEF FrameOK
<1>. QED  BY <1>1, <1>2

(* When a child's list enters a group, the child's result comes with it.   *)
LEMMA AbsorbKeepsErrors ==
  ASSUME NEW f, FrameOK(f), NEW lines, IsSeq(lines), NEW r,
         ErrorIn(lines) => r.verdict = "JE"
  PROVE  FrameOK(Absorb(f, lines, r))
<1> DEFINE g == Absorb(f, lines, r)
<1>1. /\ g.all_results = f.all_results \o lines
      /\ g.child_results = Append(f.child_results, r)
  BY DEF Absorb
<1> HIDE DEF g
<1>2. IsSeq(g.all_results) /\ IsSeq(g.child_results)
  BY <1>1, ConcatIsSeq, AppendIsSeq DEF FrameOK
<1>3. ErrorIn(g.all_results) => ErrorIn(f.all_results) \/ ErrorIn(lines)
  <2> DEFINE a == f.all_results
  <2>1. IsSeq(a) /\ g.all_results = a \o lines
    BY <1>1 DEF FrameOK
  <2> HIDE DEF a
  <2>2. ASSUME NEW i \in DOMAIN (a \o lines)
        PROVE  \/ i \in DOMAIN a /\ (a \o lines)[i] = a[i]
               \/ i - Len(a) \in DOMAIN lines /\ (a \o lines)[i] = lines[i - Len(a)]
    BY <2>1, ConcatIsSeq
  <2>. QED  BY <2>1, <2>2 DEF ErrorIn, a
<1>4. ErrorAmong(f.child_results) \/ r.verdict = "JE" => ErrorAmong(g.child_results)
  <2> DEFINE c == f.child_results
  <2>1. IsSeq(c) /\ g.child_results = Append(c, r)
    BY <1>1 DEF FrameOK
  <2> HIDE DEF c
  <2>2. /\ \A i \in DOMAIN c : i \in DOMAIN Append(c, r) /\ Append(c, r)[i] = c[i]
        /\ \E i \in DOMAIN Append(c, r) : Append(c, r)[i] = r
    BY <2>1, AppendIsSeq
  <2>. QED  BY <2>1, <2>2 DEF ErrorAmong, c
<1>. QED  BY <1>2, <1>3, <1>4 DEF FrameOK, g

(* A frame replaces the innermost ones.                                    *)
LEMMA StackKept ==
  ASSUME WalkOK, NEW n \in 0 .. Len(stack), NEW f, FrameOK(f),
         stack' = Append(SubSeq(stack, 1, n), f), UNCHANGED judged
  PROVE  WalkOK'
<1>1. IsSeq(stack')
  BY SubSeqIsSeq, AppendIsSeq DEF WalkOK
<1>2. \A i \in DOMAIN stack' : stack'[i] = f \/ \E j \in DOMAIN stack : stack'[i] = stack[j]
  BY SubSeqIsSeq, AppendIsSeq DEF WalkOK
<1>. QED  BY <1>1, <1>2 DEF WalkOK, JudgeErrorIsNotLost

(* A group begins with nothing.                                            *)
LEMMA FreshFrame ==
  ASSUME NEW g
  PROVE  FrameOK(Frame(g))
<1>1. Frame(g).all_results = <<>> /\ Frame(g).child_results = <<>>
  BY DEF Frame
<1>. QED  BY <1>1, ShortSeqs DEF FrameOK, ErrorIn

(* In a call of _judge_testcase the walk is at the test case asked for.    *)
AtTest ==
  pc[Main] # "idle" =>
    /\ stack # <<>> /\ Top.todo # <<>> /\ Item \in Tests
    /\ key[Main] = KeyOf[Item]

(* Nobody but the main thread begins a look-up for it, or changes its key. *)
LEMMA MainIsLeftAlone ==
  ASSUME TypeOK, JobsOK, [JudgeNext]_judgeVars, ~ AskForTest
  PROVE  key'[Main] = key[Main] /\ (pc[Main] = "idle" => pc'[Main] = "idle")
<1> USE DEF Goto
<1>1. Main \in Consumers /\ Main \in Threads /\ \A w \in Workers : w # Main /\ w \in Threads
  BY MainAssumption, ThreadsAssumption DEF Threads
<1>2. CASE UNCHANGED <<pc, key>>
  BY <1>2
<1>3. ASSUME NEW t \in Threads, Resolve(t)
      PROVE  key' = key /\ (pc[Main] = "idle" => pc'[Main] = "idle")
  BY <1>1, <1>3 DEF Resolve, Woken
<1>4. ASSUME NEW w \in Workers, ClaimJob(w) \/ FinishJob(w)
      PROVE  key'[Main] = key[Main] /\ pc'[Main] = pc[Main]
  BY <1>1, <1>4
     DEF ClaimJob, Populate, Claim, FinishJob, Finish, FinishWithError, Complete, TypeOK
<1>5. ASSUME RunMissing
      PROVE  key'[Main] = key[Main] /\ pc[Main] # "idle"
  BY <1>1, <1>5 DEF RunMissing, ClaimMissed, ClaimRefused, Claim, TypeOK
<1>6. ASSUME Finish(Main) \/ RunUncached(Main) \/ Subscribe(Main) \/ RaiseInJudge
      PROVE  key' = key /\ pc[Main] # "idle"
  BY <1>6 DEF Finish, Complete, RunUncached, Subscribe, RaiseInJudge, Raise
<1>7. ASSUME TakeResult
      PROVE  key' = key /\ pc[Main] # "idle"
  BY <1>7 DEF TakeResult, Return
<1>. QED
  BY <1>1, <1>2, <1>3, <1>4, <1>5, <1>6, <1>7
     DEF JudgeNext, WorkerStep, StartJob, RefusedJob, ResolveJob, MainStep, EnterGroup,
         FinishMissing, LeaveGroup, FinishJudge, JudgeAgain, NextJudge, judgeVars, vars

(* The walk does not move while a look-up is in progress.                  *)
LEMMA AtTestStep ==
  ASSUME TypeOK, JobsOK, AtTest, [JudgeNext]_judgeVars
  PROVE  AtTest'
<1>1. Main \in Threads
  BY MainAssumption DEF Threads
<1>2. CASE AskForTest
  BY <1>1, <1>2 DEF AskForTest, AtItem, Walking, Get, GetCompleted, GetInFlight, GetNone,
     AtTest, Top, Item, walkVars, TypeOK
<1>3. CASE ~ AskForTest /\ UNCHANGED stack
  BY <1>3, MainIsLeftAlone DEF AtTest, Top, Item
<1>4. CASE EnterGroup \/ LeaveGroup \/ FinishJudge \/ JudgeAgain
  <2>1. pc[Main] = "idle" /\ pc' = pc
    BY <1>4, MainAssumption
       DEF EnterGroup, LeaveGroup, FinishJudge, JudgeAgain, AtItem, Walking, NextJudge,
           vars
  <2>. QED  BY <2>1 DEF AtTest
<1>5. CASE TakeResult
  <2>1. pc'[Main] = "idle"
    BY <1>1, <1>5 DEF TakeResult, Return, Goto, TypeOK
  <2>. QED  BY <2>1 DEF AtTest
<1>. QED
  BY <1>2, <1>3, <1>4, <1>5
     DEF JudgeNext, WorkerStep, StartJob, ClaimJob, RefusedJob, FinishJob, ResolveJob,
         MainStep, RunMissing, FinishMissing, RaiseInJudge, walkVars, judgeVars

(* So it is still at the test case it asked for when the result arrives.   *)
LEMMA WalkIsAtTest == JudgeSafety => []AtTest
<1>1. JudgeInit => AtTest
  BY MainAssumption DEF JudgeInit, Init, AtTest, Threads
<1>2. JudgeSafety => []TypeOK
  BY JudgeFollowsStoreProtocol, TypeCorrect, PTL
<1>. QED  BY <1>1, <1>2, JobsTyped, AtTestStep, PTL DEF JudgeSafety

(* Every step of the walk keeps the judge errors.                          *)
LEMMA WalkStep ==
  ASSUME WalkOK, AtTest, [JudgeNext]_judgeVars
  PROVE  WalkOK'
<1> DEFINE n == Len(stack)
<1>1. n \in Nat /\ DOMAIN stack = 1 .. n
  BY SeqIsSeq DEF WalkOK, IsSeq
<1>2. stack # <<>> => n > 0
  BY <1>1, EmptySeq DEF WalkOK, IsSeq
<1>3. stack # <<>> => FrameOK(Top)
  BY <1>1, <1>2 DEF WalkOK, Top, Last
<1>4. CASE UNCHANGED <<stack, judged>>
  BY <1>4 DEF WalkOK, JudgeErrorIsNotLost
<1>5. CASE EnterGroup
  <2>1. SubSeq(stack, 1, n) = stack
    BY SubSeqFull DEF WalkOK, IsSeq
  <2>. QED  BY <1>1, <1>5, <2>1, StackKept, FreshFrame DEF EnterGroup
<1>6. CASE TakeResult
  <2> DEFINE r == WithDefaultScore(Judgement(res[Main]), Top.group)
             f == Absorb(Top, <<At(Item, r)>>, r)
  <2>1. stack' = Append(SubSeq(stack, 1, n - 1), f) /\ judged' = judged
    BY <1>6 DEF TakeResult, Front
  <2>2. stack # <<>>
    BY <1>6 DEF TakeResult, Return, AtTest
  <2>. QED
    <3>1. IsSeq(<<At(Item, r)>>)
      BY ShortSeqs
    <3>2. ErrorIn(<<At(Item, r)>>) => r.verdict = "JE"
      BY DEF ErrorIn, At
    <3>3. FrameOK(f)
      BY <1>3, <2>2, <3>1, <3>2, AbsorbKeepsErrors
    <3>4. n - 1 \in 0 .. n
      BY <1>1, <1>2, <2>2
    <3>. QED  BY <2>1, <3>3, <3>4, StackKept
<1>7. CASE LeaveGroup
  <2> DEFINE parent == stack[n - 1]
             outer == SubSeq(stack, 1, n - 2)
  <2>1. n > 1 /\ judged' = judged /\ stack # <<>>
    BY <1>7 DEF LeaveGroup, Walking
  <2>2. FrameOK(parent) /\ n - 2 \in 0 .. n
    BY <1>1, <2>1 DEF WalkOK
  <2>3. CASE Top.all_results = <<>>
    <3> DEFINE f == [parent EXCEPT !.todo = Tail(@)]
    <3>1. stack' = Append(outer, f)
      BY <1>7, <2>3 DEF LeaveGroup
    <3>2. f.all_results = parent.all_results /\ f.child_results = parent.child_results
      OBVIOUS
    <3>3. FrameOK(f)
      BY <2>2, <3>2 DEF FrameOK
    <3>. QED  BY <2>1, <2>2, <3>1, <3>3, StackKept
  <2>4. CASE Top.all_results # <<>>
    <3> DEFINE f == Absorb(parent, Returned(Top), OwnResult(Top))
    <3>1. stack' = Append(outer, f)
      BY <1>7, <2>4 DEF LeaveGroup
    <3>2. FrameOK(f)
      BY <1>3, <2>1, <2>2, ReturnedEndsInError, AbsorbKeepsErrors
    <3>. QED  BY <2>1, <2>2, <3>1, <3>2, StackKept
  <2>. QED  BY <2>3, <2>4
<1>8. CASE FinishJudge
  <2>1. stack # <<>> /\ stack' = <<>> /\ judged' = Append(judged, Returned(Top))
    BY <1>8 DEF FinishJudge, Walking
  <2>2. IsSeq(stack') /\ \A i \in DOMAIN stack' : FrameOK(stack'[i])
    BY <2>1, ShortSeqs
  <2>3. /\ IsSeq(Returned(Top))
        /\ ErrorIn(Returned(Top)) => Last(Returned(Top)).result.verdict = "JE"
    BY <1>3, <2>1, ReturnedEndsInError
  <2>4. /\ IsSeq(judged')
        /\ \A i \in DOMAIN judged' : \/ judged'[i] = Returned(Top)
                                    \/ (i \in DOMAIN judged /\ judged'[i] = judged[i])
    <3>1. IsSeq(judged)
      BY DEF WalkOK
    <3>2. \A i \in DOMAIN judged' : i # Len(judged) + 1 => i \in DOMAIN judged
      BY <2>1, <3>1, AppendIsSeq
    <3>3. IsSeq(judged')
      BY <2>1, <3>1, AppendIsSeq
    <3>4. \A i \in DOMAIN judged' : /\ i = Len(judged) + 1 => judged'[i] = Returned(Top)
                                    /\ i # Len(judged) + 1 => judged'[i] = judged[i]
      BY <2>1, <3>1, AppendIsSeq
    <3>. QED  BY <3>2, <3>3, <3>4, Zenon
  <2>. QED  BY <2>2, <2>3, <2>4 DEF WalkOK, JudgeErrorIsNotLost, ErrorIn
<1>9. CASE JudgeAgain
  <2>1. stack' = <<Frame(Root)>> /\ judged' = judged
    BY <1>9 DEF JudgeAgain
  <2>2. IsSeq(stack') /\ \A i \in DOMAIN stack' : stack'[i] = Frame(Root)
    BY <2>1, ShortSeqs
  <2>. QED  BY <2>1, <2>2, FreshFrame DEF WalkOK, JudgeErrorIsNotLost
<1>. QED
  BY <1>4, <1>5, <1>6, <1>7, <1>8, <1>9
     DEF JudgeNext, WorkerStep, StartJob, ClaimJob, RefusedJob, FinishJob, ResolveJob,
         MainStep, AskForTest, RunMissing, FinishMissing, RaiseInJudge, walkVars, judgeVars

(* So they are kept at all times.                                          *)
LEMMA WalkIsOK == JudgeSafety => []WalkOK
<1>1. JudgeInit => WalkOK
  <2> SUFFICES ASSUME JudgeInit PROVE WalkOK
    OBVIOUS
  <2>1. stack = <<Frame(Root)>> /\ judged = <<>>
    BY DEF JudgeInit
  <2>2. IsSeq(stack) /\ \A i \in DOMAIN stack : stack[i] = Frame(Root)
    BY <2>1, ShortSeqs
  <2>. QED  BY <2>1, <2>2, FreshFrame, ShortSeqs DEF WalkOK, JudgeErrorIsNotLost
<1>. QED  BY <1>1, WalkStep, WalkIsAtTest, PTL DEF JudgeSafety

(* A judge error of a test case comes up to the result of the whole call,  *)
(* whatever the groups above it break at, and whatever their graders make  *)
(* of the other verdicts: an aggregated judge error never reaches them.    *)
THEOREM JudgeErrorsSurface == JudgeSafety => []JudgeErrorIsNotLost
<1>1. WalkOK => JudgeErrorIsNotLost
  BY DEF WalkOK
<1>. QED  BY <1>1, WalkIsOK, PTL

-----------------------------------------------------------------------------
(* How far the walk has come in a group: it has the answers of the first p *)
(* items, and goes on with the rest unless the group breaks at the last.   *)
Stops(f, list) == Breaks(f.group, Last(list).result)

FrameAt(f, run, j, p) ==
  LET items == Selected(Items[f.group])
  IN  /\ f.group \in Groups
      /\ DOMAIN f = {"group", "todo", "all_results", "child_results"}
      /\ p \in 0 .. Len(items)
      /\ Joins(j, Pieces(AnswersOf(run), run, f.group), Len(items))
      /\ f.all_results = FlattenSeq(j[p])
      /\ f.child_results = OwnResults(j[p])
      /\ \/ /\ f.todo = SubSeq(items, p + 1, Len(items))
            /\ \A i \in DOMAIN j[p] : ~ Stops(f, j[p][i])
         \/ /\ f.todo = <<>>
            /\ j[p] # <<>>
            /\ Stops(f, j[p][Len(j[p])])
            /\ \A i \in 1 .. Len(j[p]) - 1 : ~ Stops(f, j[p][i])

FrameIs(f, run) == \E j, p : FrameAt(f, run, j, p)

(* What a frame is made of.                                                *)
LEMMA FrameFacts ==
  ASSUME NEW f, NEW run, NEW j, NEW p, FrameAt(f, run, j, p)
  PROVE  LET N == Len(Selected(Items[f.group]))
             L == Lists(AnswersOf(run), run, f.group)
         IN  /\ N \in Nat /\ p \in 0 .. N /\ f.group \in Groups
             /\ Selected(Items[f.group]) \in Seq(Tests \union Groups)
             /\ Joins(j, Pieces(AnswersOf(run), run, f.group), N)
             /\ Children(AnswersOf(run), run, f.group) = j[N]
             /\ \A q \in 0 .. N : j[q] \in Seq(L)
             /\ \A q \in 1 .. N : Pieces(AnswersOf(run), run, f.group)[q] \in Seq(L)
             /\ \A l \in L : IsSeq(l) /\ l # <<>>
<1> DEFINE g == f.group
           N == Len(Selected(Items[g]))
           L == Lists(AnswersOf(run), run, g)
           pieces == Pieces(AnswersOf(run), run, g)
<1>1. g \in Groups /\ p \in 0 .. N /\ Joins(j, pieces, N)
  BY DEF FrameAt
<1>2. N \in Nat /\ Selected(Items[g]) \in Seq(Tests \union Groups)
  BY <1>1, SelectedTyped
<1>3. \A q \in 1 .. N : pieces[q] \in Seq(L)
  BY <1>1, PiecesTyped
<1>4. \A l \in L : IsSeq(l) /\ l # <<>>
  BY <1>1, ListsAreSeqs
<1>5. PICK k : Joins(k, pieces, N) /\ Children(AnswersOf(run), run, g) = k[N]
  BY <1>1, ChildrenJoin
<1> HIDE DEF N, L, pieces
<1>6. \A q \in 0 .. N : j[q] \in Seq(L)
  BY <1>1, <1>2, <1>3, JoinsTyped
<1>7. k[N] = j[N]
  BY <1>1, <1>2, <1>5, JoinsAgree
<1>. QED  BY <1>1, <1>2, <1>3, <1>4, <1>5, <1>6, <1>7 DEF N, L, pieces

(* At first a frame has the answers of no item.                            *)
LEMMA FreshFrameIs ==
  ASSUME NEW g \in Groups, NEW run
  PROVE  FrameIs(Frame(g), run)
<1> DEFINE f == Frame(g)
           N == Len(Selected(Items[g]))
<1>1. PICK j : Joins(j, Pieces(AnswersOf(run), run, g), N)
  BY ChildrenJoin
<1>2. N \in Nat /\ Selected(Items[g]) \in Seq(Tests \union Groups)
  BY SelectedTyped
<1>3. j[0] = <<>> /\ DOMAIN j[0] = {}
  BY <1>1, <1>2, JoinsSteps, ShortSeqs
<1>4. FlattenSeq(<<>>) = <<>>
  BY ShortSeqs DEF FlattenSeq
<1>5. OwnResults(<<>>) = <<>>
  BY ShortSeqs DEF OwnResults
<1>6. SubSeq(Selected(Items[g]), 1, N) = Selected(Items[g])
  BY <1>2, SubSeqFull
<1>7. FrameAt(f, run, j, 0)
  BY <1>1, <1>2, <1>3, <1>4, <1>5, <1>6 DEF FrameAt, Frame
<1>. QED  BY <1>7 DEF FrameIs

(* A frame with nothing left to do holds what its group answers.           *)
LEMMA FrameReturns ==
  ASSUME NEW f, NEW run, FrameIs(f, run), f.todo = <<>>
  PROVE  Returned(f) = AnswersOf(run)[f.group]
<1>1. PICK j, p : FrameAt(f, run, j, p)
  BY DEF FrameIs
<1> DEFINE g == f.group
           items == Selected(Items[g])
           N == Len(items)
           L == Lists(AnswersOf(run), run, g)
           all == j[N]
           stops == {i \in DOMAIN all : Breaks(g, Last(all[i]).result)}
<1>2. /\ N \in Nat /\ p \in 0 .. N /\ g \in Groups
      /\ items \in Seq(Tests \union Groups)
      /\ Joins(j, Pieces(AnswersOf(run), run, g), N)
      /\ Children(AnswersOf(run), run, g) = all
      /\ \A q \in 0 .. N : j[q] \in Seq(L)
      /\ \A q \in 1 .. N : Pieces(AnswersOf(run), run, g)[q] \in Seq(L)
      /\ \A l \in L : IsSeq(l) /\ l # <<>>
  BY <1>1, FrameFacts
<1>3. /\ f.all_results = FlattenSeq(j[p])
      /\ f.child_results = OwnResults(j[p])
  BY <1>1 DEF FrameAt
<1> HIDE DEF L
<1>4. UpToBreak(g, all) = j[p]
  <2>1. CASE f.todo = SubSeq(items, p + 1, N) /\ \A i \in DOMAIN j[p] : ~ Stops(f, j[p][i])
    <3>1. p = N
      <4>1. SUFFICES ASSUME p + 1 <= N
                     PROVE  FALSE
        BY <1>2
      <4>2. p + 1 \in 1 .. N /\ N \in p + 1 .. N
        BY <1>2, <4>1
      <4>3. \A i \in p + 1 .. N : items[i] \in Tests \union Groups
        BY <1>2, <4>2
      <4>4. Len(SubSeq(items, p + 1, N)) = N - (p + 1) + 1
        <5> HIDE DEF items, N
        <5>. QED  BY <1>2, <4>1, <4>3, SubSeqProperties
      <4>5. Len(<<>>) = 0
        BY ShortSeqs
      <4>. QED  BY <1>2, <2>1, <4>1, <4>4, <4>5
    <3>2. stops = {}
      BY <2>1, <3>1 DEF Stops
    <3>. QED  BY <3>1, <3>2 DEF UpToBreak
  <2>2. CASE /\ j[p] # <<>>
             /\ Stops(f, j[p][Len(j[p])])
             /\ \A i \in 1 .. Len(j[p]) - 1 : ~ Stops(f, j[p][i])
    <3> DEFINE m == Len(j[p])
    <3>1. j[p] \in Seq(L) /\ all \in Seq(L) /\ p \in 0 .. N /\ N \in p .. N
      BY <1>2
    <3>2. m \in Nat /\ m >= 1 /\ Len(all) \in Nat /\ DOMAIN all = 1 .. Len(all)
      BY <2>2, <3>1, EmptySeq, SeqIsSeq
    <3>3. m <= Len(all) /\ \A i \in 1 .. m : all[i] = j[p][i]
      <4> DEFINE pieces == Pieces(AnswersOf(run), run, g)
      <4>1. (\A q \in 1 .. N : IsSeq(pieces[q])) /\ Joins(j, pieces, N)
        BY <1>2, SeqIsSeq
      <4> HIDE DEF N, pieces
      <4>2. \A q \in p .. N : /\ Len(j[p]) <= Len(j[q])
                              /\ \A i \in 1 .. Len(j[p]) : j[q][i] = j[p][i]
        BY <1>2, <4>1, JoinsGrow
      <4>. QED  BY <3>1, <4>2
    <3>4. m \in stops /\ \A i \in stops : m <= i
      <4> HIDE DEF all
      <4>1. m \in DOMAIN all /\ all[m] = j[p][m]
        BY <3>2, <3>3
      <4>2. ASSUME NEW i \in DOMAIN all, i < m
            PROVE  ~ Breaks(g, Last(all[i]).result)
        BY <2>2, <3>2, <3>3, <4>2 DEF Stops
      <4>. QED  BY <2>2, <3>2, <4>1, <4>2 DEF Stops
    <3>5. Min(stops) = m
      <4> HIDE DEF all, m
      <4>1. stops \in SUBSET Nat /\ stops # {}
        BY <3>2, <3>4
      <4> HIDE DEF stops
      <4>2. Min(stops) \in stops /\ \A x \in stops : Min(stops) <= x
        BY <4>1, MinIsLeast
      <4>3. PICK x \in Nat : x = Min(stops) /\ x \in stops /\ \A y \in stops : x <= y
        BY <4>1, <4>2
      <4>4. m \in Nat /\ m <= x /\ x <= m
        BY <3>2, <3>4, <4>3
      <4>. QED  BY <4>3, <4>4
    <3>6. UpToBreak(g, all) = SubSeq(all, 1, m)
      BY <3>4, <3>5 DEF UpToBreak
    <3>7. SubSeq(all, 1, m) = j[p]
      <4> HIDE DEF all
      <4>1. IsSeq(all) /\ m \in 0 .. Len(all)
        BY <3>1, <3>2, <3>3, SeqIsSeq
      <4>2. /\ Len(SubSeq(all, 1, m)) = m
            /\ \A i \in 1 .. m : SubSeq(all, 1, m)[i] = all[i]
        BY <4>1, SubSeqIsSeq
      <4>3. SubSeq(all, 1, m) \in Seq(L)
        <5>1. \A i \in 1 .. m : all[i] \in L
          BY <3>1, <3>2, <3>3
        <5> HIDE DEF m
        <5>. QED  BY <3>2, <5>1, SubSeqProperties
      <4>. QED  BY <3>1, <3>3, <4>2, <4>3, SeqEqual
    <3>. QED  BY <3>6, <3>7
  <2>. QED  BY <1>1, <2>1, <2>2 DEF FrameAt
<1>5. AnswersOf(run)[g] =
        IF j[p] = <<>> THEN <<>>
        ELSE Append(FlattenSeq(j[p]), At(g, GroupResult(g, OwnResults(j[p]))))
  BY <1>2, <1>4, AnswersDef DEF GroupAnswer
<1>6. FlattenSeq(j[p]) = <<>> <=> j[p] = <<>>
  BY <1>2, FlattenEmpty
<1>. QED  BY <1>3, <1>5, <1>6 DEF Returned, OwnResult

(* The item a frame is at, and what is left after it.                      *)
AtItemAfter(f, run, j, p) ==
  LET items == Selected(Items[f.group])
  IN  /\ p + 1 \in 1 .. Len(items)
      /\ Head(f.todo) = items[p + 1]
      /\ Tail(f.todo) = SubSeq(items, p + 2, Len(items))
      /\ \A i \in DOMAIN j[p] : ~ Stops(f, j[p][i])
      /\ j[p + 1] = j[p] \o Child(ListOf(AnswersOf(run), run, f.group, items[p + 1]))

(* A frame with something left to do is at such an item.                   *)
LEMMA FrameAtItem ==
  ASSUME NEW f, NEW run, NEW j, NEW p, FrameAt(f, run, j, p), f.todo # <<>>
  PROVE  AtItemAfter(f, run, j, p)
<1> DEFINE items == Selected(Items[f.group])
           N == Len(items)
           pieces == Pieces(AnswersOf(run), run, f.group)
<1>1. /\ N \in Nat /\ p \in 0 .. N
      /\ items \in Seq(Tests \union Groups)
      /\ Joins(j, pieces, N)
  BY FrameFacts
<1>2. f.todo = SubSeq(items, p + 1, N) /\ \A i \in DOMAIN j[p] : ~ Stops(f, j[p][i])
  BY DEF FrameAt
<1>3. p + 1 \in 1 .. N /\ N \in p + 1 .. N
  <2>1. SUFFICES ASSUME N < p + 1
                 PROVE  FALSE
    BY <1>1
  <2> HIDE DEF items, N
  <2>. QED  BY <1>1, <1>2, <2>1, SubSeqEmpty
<1>4. Head(f.todo) = items[p + 1] /\ Tail(f.todo) = SubSeq(items, (p + 1) + 1, N)
  <2> HIDE DEF items
  <2>. QED  BY <1>1, <1>2, <1>3, HeadTailOfSubSeq
<1>5. (p + 1) + 1 = p + 2 /\ (p + 1) - 1 = p
  BY <1>1
<1>6. pieces[p + 1] = Child(ListOf(AnswersOf(run), run, f.group, items[p + 1]))
  BY <1>3 DEF Pieces
<1>7. j[p + 1] = Glue(j[p], pieces[p + 1])
  <2> HIDE DEF N, pieces
  <2>. QED  BY <1>1, <1>3, JoinsSteps
<1>. QED  BY <1>2, <1>3, <1>4, <1>5, <1>6, <1>7 DEF Glue, AtItemAfter

(* An item of which everything is filtered out is passed over.             *)
LEMMA SkipEmptyItem ==
  ASSUME NEW f, NEW run, FrameIs(f, run), f.todo # <<>>,
         ListOf(AnswersOf(run), run, f.group, Head(f.todo)) = <<>>
  PROVE  FrameIs([f EXCEPT !.todo = Tail(@)], run)
<1>1. PICK j, p : FrameAt(f, run, j, p)
  BY DEF FrameIs
<1> DEFINE items == Selected(Items[f.group])
           N == Len(items)
           next == [f EXCEPT !.todo = Tail(@)]
<1>2. /\ p + 1 \in 1 .. N
      /\ Head(f.todo) = items[p + 1]
      /\ Tail(f.todo) = SubSeq(items, p + 2, N)
      /\ \A i \in DOMAIN j[p] : ~ Stops(f, j[p][i])
      /\ j[p + 1] = j[p] \o Child(ListOf(AnswersOf(run), run, f.group, items[p + 1]))
  <2>1. AtItemAfter(f, run, j, p)
    BY <1>1, FrameAtItem
  <2>. QED  BY <2>1 DEF AtItemAfter
<1>3. j[p + 1] = j[p]
  <2>1. j[p] \in Seq(Lists(AnswersOf(run), run, f.group))
    BY <1>1, FrameFacts
  <2>2. Child(<<>>) = <<>>
    BY DEF Child
  <2>. QED  BY <1>2, <2>1, <2>2, ConcatEmptySeq
<1>4. /\ next.group = f.group
      /\ next.todo = SubSeq(items, (p + 1) + 1, N)
      /\ next.all_results = f.all_results
      /\ next.child_results = f.child_results
      /\ DOMAIN next = {"group", "todo", "all_results", "child_results"}
  <2>1. DOMAIN f = {"group", "todo", "all_results", "child_results"}
    BY <1>1 DEF FrameAt
  <2>2. (p + 1) + 1 = p + 2
    BY <1>1, FrameFacts
  <2>. QED  BY <1>2, <2>1, <2>2
<1> HIDE DEF next
<1>5. p + 1 \in 0 .. N
  BY <1>1, <1>2, FrameFacts
<1>6. FrameAt(next, run, j, p + 1)
  BY <1>1, <1>2, <1>3, <1>4, <1>5 DEF FrameAt, Stops
<1>. QED  BY <1>6 DEF FrameIs, next

(* A list enters its group.                                                *)
LEMMA AbsorbList ==
  ASSUME NEW f, NEW run, FrameIs(f, run), f.todo # <<>>,
         NEW list, list = ListOf(AnswersOf(run), run, f.group, Head(f.todo)), list # <<>>
  PROVE  FrameIs(Absorb(f, list, Last(list).result), run)
<1>1. PICK j, p : FrameAt(f, run, j, p)
  BY DEF FrameIs
<1> DEFINE g == f.group
           items == Selected(Items[g])
           N == Len(items)
           L == Lists(AnswersOf(run), run, g)
           r == Last(list).result
           next == Absorb(f, list, r)
<1>2. /\ p + 1 \in 1 .. N
      /\ Head(f.todo) = items[p + 1]
      /\ Tail(f.todo) = SubSeq(items, p + 2, N)
      /\ \A i \in DOMAIN j[p] : ~ Stops(f, j[p][i])
      /\ j[p + 1] = j[p] \o Child(list)
  <2>1. /\ p + 1 \in 1 .. N
        /\ Head(f.todo) = items[p + 1]
        /\ Tail(f.todo) = SubSeq(items, p + 2, N)
        /\ \A i \in DOMAIN j[p] : ~ Stops(f, j[p][i])
        /\ j[p + 1] = j[p] \o Child(ListOf(AnswersOf(run), run, g, items[p + 1]))
    <3>1. AtItemAfter(f, run, j, p)
      BY <1>1, FrameAtItem
    <3>. QED  BY <3>1 DEF AtItemAfter
  <2>2. list = ListOf(AnswersOf(run), run, g, items[p + 1])
    BY <2>1
  <2>. QED  BY <2>1, <2>2
<1>3. /\ N \in Nat /\ p \in 0 .. N
      /\ j[p] \in Seq(L) /\ j[p + 1] \in Seq(L)
      /\ \A l \in L : IsSeq(l) /\ l # <<>>
  <2>1. /\ N \in Nat /\ p \in 0 .. N
        /\ \A q \in 0 .. N : j[q] \in Seq(L)
        /\ \A l \in L : IsSeq(l) /\ l # <<>>
    BY <1>1, FrameFacts
  <2>2. p + 1 \in 1 .. N
    BY <1>2
  <2> HIDE DEF N, L
  <2>3. p + 1 \in 0 .. N
    BY <2>1, <2>2
  <2>. QED  BY <2>1, <2>3
<1>4. list \in L
  <2>1. items[p + 1] \in ToSet(Items[g])
    BY <1>1, <1>2, SelectedTyped, FrameFacts
  <2>. QED  BY <1>2, <2>1 DEF Lists
<1> HIDE DEF L
<1>5. j[p + 1] = Append(j[p], list)
  BY <1>2, <1>3, <1>4, AppendIsConcat DEF Child
<1>6. /\ Len(j[p]) \in Nat /\ DOMAIN j[p] = 1 .. Len(j[p])
      /\ Len(j[p + 1]) = Len(j[p]) + 1
      /\ DOMAIN j[p + 1] = 1 .. Len(j[p]) + 1
      /\ j[p + 1][Len(j[p]) + 1] = list
      /\ \A i \in 1 .. Len(j[p]) : j[p + 1][i] = j[p][i]
  BY <1>3, <1>4, <1>5, SeqIsSeq, AppendProperties
<1>7. FlattenSeq(j[p + 1]) = FlattenSeq(j[p]) \o list
  <2>1. IsSeq(j[p]) /\ \A i \in DOMAIN j[p] : IsSeq(j[p][i])
    BY <1>3, <1>6, SeqIsSeq
  <2>. QED  BY <1>3, <1>4, <1>5, <2>1, FlattenAppend
<1>8. OwnResults(j[p + 1]) = Append(OwnResults(j[p]), r)
  <2> DEFINE own == OwnResults(j[p])
             R == {Last(l).result : l \in L}
  <2>1. \A i \in 1 .. Len(j[p]) : Last(j[p][i]).result \in R
    BY <1>3
  <2>2. own = [i \in 1 .. Len(j[p]) |-> Last(j[p][i]).result] /\ r \in R
    BY <1>4, <1>6 DEF OwnResults
  <2>3. own \in [1 .. Len(j[p]) -> R]
    BY <2>1, <2>2
  <2> HIDE DEF R
  <2>4. own \in Seq(R) /\ Len(own) = Len(j[p])
    <3>1. own \in Seq(R)
      BY <1>6, <2>3, SeqDef
    <3>2. DOMAIN own = 1 .. Len(own) /\ DOMAIN own = 1 .. Len(j[p]) /\ Len(own) \in Nat
      BY <2>3, <3>1, SeqIsSeq
    <3>. QED  BY <1>6, <3>1, <3>2
  <2> HIDE DEF own, r
  <2>5. /\ Append(own, r) \in Seq(R)
        /\ Len(Append(own, r)) = Len(j[p]) + 1
        /\ \A i \in 1 .. Len(j[p]) : Append(own, r)[i] = own[i]
        /\ Append(own, r)[Len(j[p]) + 1] = r
    BY <2>2, <2>4, AppendProperties
  <2>6. Append(own, r) = [i \in 1 .. Len(j[p]) + 1 |-> Append(own, r)[i]]
    <3> DEFINE all == Append(own, r)
    <3>1. all \in Seq(R) /\ Len(all) = Len(j[p]) + 1
      BY <2>5
    <3> HIDE DEF all
    <3>2. all = [i \in 1 .. Len(all) |-> all[i]]
      BY <3>1, LenProperties
    <3>. QED  BY <3>1, <3>2 DEF all
  <2>7. \A i \in 1 .. Len(j[p]) + 1 : Append(own, r)[i] = Last(j[p + 1][i]).result
    BY <1>6, <2>2, <2>5 DEF r
  <2>8. OwnResults(j[p + 1]) = [i \in 1 .. Len(j[p]) + 1 |-> Last(j[p + 1][i]).result]
    BY <1>6 DEF OwnResults
  <2>. QED  BY <2>6, <2>7, <2>8 DEF own
<1>9. /\ next.group = g
      /\ next.todo = IF Breaks(g, r) THEN <<>> ELSE SubSeq(items, (p + 1) + 1, N)
      /\ next.all_results = f.all_results \o list
      /\ next.child_results = Append(f.child_results, r)
      /\ DOMAIN next = {"group", "todo", "all_results", "child_results"}
  <2>1. (p + 1) + 1 = p + 2
    BY <1>3
  <2>. QED  BY <1>2, <2>1 DEF Absorb
<1>10. p + 1 \in 0 .. N
  BY <1>2, <1>3
<1>11. f.all_results = FlattenSeq(j[p]) /\ f.child_results = OwnResults(j[p]) /\ g \in Groups
       /\ Joins(j, Pieces(AnswersOf(run), run, g), N)
  BY <1>1 DEF FrameAt
<1>12. /\ next.all_results = FlattenSeq(j[p + 1])
       /\ next.child_results = OwnResults(j[p + 1])
  BY <1>7, <1>8, <1>9, <1>11
<1>13. \A l : Stops(next, l) <=> Stops(f, l)
  BY <1>9 DEF Stops
<1>14. Stops(next, list) <=> Breaks(g, r)
  BY <1>9 DEF Stops
<1> HIDE DEF next, r
<1>15. FrameAt(next, run, j, p + 1)
  <2>1. CASE Breaks(g, r)
    <3>1. /\ next.todo = <<>>
          /\ j[p + 1] # <<>>
          /\ Stops(next, j[p + 1][Len(j[p + 1])])
          /\ \A i \in 1 .. Len(j[p + 1]) - 1 : ~ Stops(next, j[p + 1][i])
      <4>1. j[p + 1] # <<>>
        BY <1>3, <1>4, <1>5, AppendProperties
      <4>2. Len(j[p + 1]) - 1 = Len(j[p])
        BY <1>6
      <4>. QED  BY <1>2, <1>6, <1>9, <1>13, <1>14, <2>1, <4>1, <4>2
    <3>. QED  BY <1>9, <1>10, <1>11, <1>12, <3>1 DEF FrameAt
  <2>2. CASE ~ Breaks(g, r)
    <3>1. \A i \in DOMAIN j[p + 1] : ~ Stops(next, j[p + 1][i])
      <4>1. \A i \in DOMAIN j[p + 1] : i = Len(j[p]) + 1 \/ i \in 1 .. Len(j[p])
        BY <1>6
      <4>. QED  BY <1>2, <1>6, <1>13, <1>14, <2>2, <4>1
    <3>. QED  BY <1>9, <1>10, <1>11, <1>12, <2>2, <3>1 DEF FrameAt
  <2>. QED  BY <2>1, <2>2
<1>. QED  BY <1>15 DEF FrameIs, next, r

-----------------------------------------------------------------------------
(* What the submission does at the limit of the current call.              *)
Run == Runs(beh, Schedule[phase])

(* The walk holds, frame by frame, a part of the sequential answer.        *)
WalkIs ==
  /\ \A i \in DOMAIN stack : FrameIs(stack[i], Run)
  /\ stack # <<>> => stack[1].group = Root
  /\ \A i \in 1 .. Len(stack) - 1 :
       stack[i].todo # <<>> /\ Head(stack[i].todo) = stack[i + 1].group
  /\ Len(judged) = IF stack = <<>> THEN phase ELSE phase - 1

(* The innermost frames are replaced by one frame in which the walk is     *)
(* right.                                                                  *)
LEMMA WalkKept ==
  ASSUME WalkOK, WalkIs, stack # <<>>, NEW n \in 0 .. Len(stack),
         NEW f, FrameIs(f, Run), n = 0 => f.group = Root,
         n > 0 => stack[n].todo # <<>> /\ Head(stack[n].todo) = f.group,
         stack' = Append(SubSeq(stack, 1, n), f), UNCHANGED <<judged, beh, phase>>
  PROVE  WalkIs'
<1>1. Run' = Run
  BY DEF Run, Runs
<1>2. IsSeq(stack) /\ Len(stack) \in Nat /\ DOMAIN stack = 1 .. Len(stack)
  BY SeqIsSeq DEF WalkOK, IsSeq
<1> DEFINE front == SubSeq(stack, 1, n)
<1>3. /\ IsSeq(front) /\ Len(front) = n
      /\ \A i \in 1 .. n : front[i] = stack[i]
  BY <1>2, SubSeqIsSeq
<1> HIDE DEF front
<1>4. /\ stack' # <<>>
      /\ DOMAIN stack' = 1 .. n + 1
      /\ Len(stack') = n + 1
      /\ \A i \in 1 .. n + 1 : stack'[i] = IF i = n + 1 THEN f ELSE front[i]
  BY <1>3, AppendIsSeq DEF front
<1>5. n \in Nat /\ n <= Len(stack)
  BY <1>2
<1>6. \A i \in 1 .. n : stack'[i] = stack[i] /\ i \in 1 .. Len(stack)
  BY <1>3, <1>4, <1>5
<1>7. stack'[n + 1] = f
  BY <1>4, <1>5
<1>8. \A i \in DOMAIN stack' : FrameIs(stack'[i], Run)
  <2>1. \A i \in DOMAIN stack' : i = n + 1 \/ i \in 1 .. n
    BY <1>4, <1>5
  <2>. QED  BY <1>2, <1>6, <1>7, <2>1 DEF WalkIs
<1>9. stack'[1].group = Root
  BY <1>2, <1>5, <1>6, <1>7 DEF WalkIs
<1>10. ASSUME NEW i \in 1 .. Len(stack') - 1
       PROVE  stack'[i].todo # <<>> /\ Head(stack'[i].todo) = stack'[i + 1].group
  <2>1. i \in 1 .. n
    BY <1>4, <1>5
  <2>2. CASE i = n
    BY <1>6, <1>7, <2>1, <2>2
  <2>3. CASE i # n
    <3>1. i + 1 \in 1 .. n /\ i \in 1 .. Len(stack) - 1
      BY <1>2, <1>5, <2>1, <2>3
    <3>. QED  BY <1>6, <2>1, <3>1 DEF WalkIs
  <2>. QED  BY <2>2, <2>3
<1>11. Len(judged') = phase' - 1
  BY DEF WalkIs
<1>. QED  BY <1>1, <1>4, <1>8, <1>9, <1>10, <1>11 DEF WalkIs

(* The items a frame goes through are groups and test cases.               *)
LEMMA ItemOfFrame ==
  ASSUME NEW f, NEW run, FrameIs(f, run), f.todo # <<>>
  PROVE  Head(f.todo) \in Groups \/ (Head(f.todo) \in Tests /\ Head(f.todo) \notin Groups)
<1>1. PICK j, p : FrameAt(f, run, j, p)
  BY DEF FrameIs
<1>2. f.group \in Groups
  BY <1>1 DEF FrameAt
<1>3. /\ p + 1 \in 1 .. Len(Selected(Items[f.group]))
      /\ Head(f.todo) = Selected(Items[f.group])[p + 1]
  BY <1>1, FrameAtItem DEF AtItemAfter
<1>. QED  BY <1>2, <1>3, SelectedTyped

(* No run of the submission raises, and a cached result can be read at any *)
(* lower limit.                                                            *)
Reliable ==
  /\ LargestLimitFirst
  /\ ~ MayFail
  /\ \A b \in Behaviours : ~ LimitSensitive(b)

(* The result the walk takes is what the test case gives at its limit.     *)
LEMMA TakenResult ==
  ASSUME Reliable, TypeOK, ServedResultIsDirect, failed = {}, AtTest, pc[Main] = "served"
  PROVE  Judgement(res[Main]) = Run[Item]
<1>1. Item \in Tests /\ key[Main] = KeyOf[Item] /\ Main \in Consumers /\ Main \in Threads
  BY MainAssumption DEF AtTest, Threads
<1>2. beh[key[Main]] \in Behaviours
  BY <1>1 DEF TypeOK
<1>3. Faithful(res[Main], key[Main], Schedule[phase])
  BY <1>1 DEF ServedResultIsDirect
<1>4. Judgement(res[Main]) = Judgement(Direct(beh[key[Main]], Schedule[phase]))
  BY <1>2, <1>3 DEF Faithful, Reliable
<1>. QED  BY <1>1, <1>4 DEF Run, Runs

(* A test case's result enters its group.                                  *)
LEMMA SequentialTake ==
  ASSUME Reliable, TypeOK, ServedResultIsDirect, failed = {}, AtTest, WalkOK, WalkIs,
         TakeResult
  PROVE  WalkIs'
<1> DEFINE n == Len(stack)
           r == WithDefaultScore(Judgement(res[Main]), Top.group)
           list == <<At(Item, r)>>
<1>1. /\ pc[Main] = "served"
      /\ stack' = Append(SubSeq(stack, 1, n - 1), Absorb(Top, list, r))
      /\ UNCHANGED <<judged, beh, phase>>
  BY DEF TakeResult, Return, Front
<1>2. stack # <<>> /\ Top.todo # <<>> /\ Item \in Tests
  BY <1>1 DEF AtTest
<1>3. IsSeq(stack) /\ n \in Nat /\ DOMAIN stack = 1 .. n /\ n > 0
  <2>1. IsSeq(stack) /\ n \in Nat /\ DOMAIN stack = 1 .. n
    BY SeqIsSeq DEF WalkOK, IsSeq
  <2>. QED  BY <1>2, <2>1, EmptySeq DEF IsSeq
<1>4. Top = stack[n] /\ FrameIs(Top, Run)
  BY <1>3 DEF Top, Last, WalkIs
<1>5. list = ListOf(AnswersOf(Run), Run, Top.group, Head(Top.todo))
  <2>1. Item \notin Groups
    BY <1>2, TreeAssumption
  <2>. QED  BY <1>1, <2>1, TakenResult DEF ListOf, Item
<1>6. list # <<>> /\ Last(list).result = r
  BY ShortSeqs DEF Last, At
<1>7. FrameIs(Absorb(Top, list, r), Run)
  <2> HIDE DEF list, r
  <2>. QED  BY <1>2, <1>4, <1>5, <1>6, AbsorbList
<1>8. Absorb(Top, list, r).group = Top.group
  BY DEF Absorb
<1>9. n - 1 \in 0 .. n /\ (n - 1 = 0 => Top.group = Root)
      /\ (n - 1 > 0 => stack[n - 1].todo # <<>> /\ Head(stack[n - 1].todo) = Top.group)
  <2>1. n - 1 > 0 => n - 1 \in 1 .. n - 1 /\ (n - 1) + 1 = n
    BY <1>3
  <2>. QED  BY <1>2, <1>3, <1>4, <2>1 DEF WalkIs
<1> HIDE DEF list, r, n
<1>. QED  BY <1>1, <1>2, <1>7, <1>8, <1>9, WalkKept DEF n

(* The walk enters a group.                                                *)
LEMMA SequentialEnter ==
  ASSUME WalkOK, WalkIs, EnterGroup
  PROVE  WalkIs'
<1> DEFINE n == Len(stack)
<1>1. /\ stack # <<>> /\ Top.todo # <<>> /\ Item \in Groups
      /\ stack' = Append(stack, Frame(Item))
      /\ UNCHANGED <<judged, beh, phase>>
  BY DEF EnterGroup, AtItem, Walking, vars
<1>2. IsSeq(stack) /\ n \in Nat /\ n > 0
  <2>1. IsSeq(stack) /\ n \in Nat
    BY SeqIsSeq DEF WalkOK, IsSeq
  <2>. QED  BY <1>1, <2>1, EmptySeq DEF IsSeq
<1>3. SubSeq(stack, 1, n) = stack
  BY <1>2, SubSeqFull DEF IsSeq
<1>4. FrameIs(Frame(Item), Run) /\ Frame(Item).group = Item
  BY <1>1, FreshFrameIs DEF Frame
<1>5. Top = stack[n] /\ Item = Head(Top.todo)
  BY DEF Top, Last, Item
<1>6. n \in 0 .. n
  BY <1>2
<1> DEFINE f == Frame(Item)
<1>7. stack' = Append(SubSeq(stack, 1, n), f)
  BY <1>1, <1>3
<1>8. stack[n].todo # <<>> /\ Head(stack[n].todo) = f.group /\ FrameIs(f, Run)
  BY <1>1, <1>4, <1>5
<1> HIDE DEF n, f
<1>. QED  BY <1>1, <1>2, <1>6, <1>7, <1>8, WalkKept DEF n

(* A group's list enters the group it is in.                               *)
LEMMA SequentialLeave ==
  ASSUME WalkOK, WalkIs, LeaveGroup
  PROVE  WalkIs'
<1> DEFINE n == Len(stack)
           parent == stack[n - 1]
           list == Returned(Top)
<1>1. /\ stack # <<>> /\ Top.todo = <<>> /\ n > 1
      /\ UNCHANGED <<judged, beh, phase>>
  BY DEF LeaveGroup, Walking, vars
<1>2. IsSeq(stack) /\ n \in Nat /\ DOMAIN stack = 1 .. n
  BY SeqIsSeq DEF WalkOK, IsSeq
<1>3. Top = stack[n] /\ FrameIs(Top, Run) /\ FrameIs(parent, Run) /\ FrameOK(Top)
  BY <1>1, <1>2 DEF Top, Last, WalkIs, WalkOK
<1>4. parent.todo # <<>> /\ Head(parent.todo) = Top.group
  <2>1. n - 1 \in 1 .. n - 1 /\ (n - 1) + 1 = n
    BY <1>1, <1>2
  <2>. QED  BY <1>3, <2>1 DEF WalkIs
<1>5. list = AnswersOf(Run)[Top.group]
  BY <1>1, <1>3, FrameReturns
<1>6. list = ListOf(AnswersOf(Run), Run, parent.group, Head(parent.todo))
  <2>1. Top.group \in Groups
    BY <1>3 DEF FrameIs, FrameAt
  <2>. QED  BY <1>4, <1>5, <2>1 DEF ListOf
<1>7. /\ n - 2 \in 0 .. n
      /\ n - 2 = 0 => parent.group = Root
      /\ n - 2 > 0 => stack[n - 2].todo # <<>> /\ Head(stack[n - 2].todo) = parent.group
  <2>1. n - 2 > 0 => n - 2 \in 1 .. n - 1 /\ (n - 2) + 1 = n - 1
    BY <1>1, <1>2
  <2>2. n - 2 = 0 => n - 1 = 1
    <3>1. n \in Nat
      BY <1>2
    <3> HIDE DEF n
    <3>. QED  BY <3>1
  <2>. QED  BY <1>1, <1>2, <2>1, <2>2 DEF WalkIs
<1>8. CASE Top.all_results = <<>>
  <2> DEFINE f == [parent EXCEPT !.todo = Tail(@)]
  <2>1. list = <<>>
    BY <1>8 DEF Returned
  <2>2. stack' = Append(SubSeq(stack, 1, n - 2), f)
    BY <1>8 DEF LeaveGroup
  <2>3. FrameIs(f, Run)
    <3> HIDE DEF list
    <3>. QED  BY <1>3, <1>4, <1>6, <2>1, SkipEmptyItem
  <2>4. f.group = parent.group
    OBVIOUS
  <2> HIDE DEF n, f
  <2>. QED  BY <1>1, <1>7, <2>2, <2>3, <2>4, WalkKept DEF n
<1>9. CASE Top.all_results # <<>>
  <2> DEFINE r == OwnResult(Top)
             f == Absorb(parent, list, r)
  <2>1. list # <<>> /\ Last(list).result = r
    <3>1. list = Append(Top.all_results, At(Top.group, r)) /\ IsSeq(Top.all_results)
      BY <1>3, <1>9 DEF Returned, FrameOK
    <3>2. At(Top.group, r).result = r
      BY DEF At
    <3> HIDE DEF list
    <3>. QED  BY <3>1, <3>2, AppendIsSeq DEF Last
  <2>2. stack' = Append(SubSeq(stack, 1, n - 2), f)
    BY <1>9 DEF LeaveGroup
  <2>3. FrameIs(f, Run)
    <3> HIDE DEF list, r
    <3>. QED  BY <1>3, <1>4, <1>6, <2>1, AbsorbList
  <2>4. f.group = parent.group
    BY DEF Absorb
  <2> HIDE DEF n, f
  <2>. QED  BY <1>1, <1>7, <2>2, <2>3, <2>4, WalkKept DEF n
<1>. QED  BY <1>8, <1>9

(* The root's list is the answer of the call.                              *)
LEMMA SequentialFinish ==
  ASSUME WalkOK, WalkIs, TypeOK, FinishJudge
  PROVE  /\ WalkIs'
         /\ judged' = Append(judged, Answer(Run))
         /\ Len(judged) = phase - 1
<1>1. /\ stack # <<>> /\ Top.todo = <<>> /\ Len(stack) = 1
      /\ stack' = <<>> /\ judged' = Append(judged, Returned(Top))
      /\ UNCHANGED <<beh, phase>>
  BY DEF FinishJudge, Walking, vars
<1>2. IsSeq(stack) /\ DOMAIN stack = 1 .. 1
  BY <1>1, SeqIsSeq DEF WalkOK, IsSeq
<1>3. Top = stack[1] /\ FrameIs(Top, Run) /\ Top.group = Root
  BY <1>1, <1>2 DEF Top, Last, WalkIs
<1>4. Returned(Top) = Answer(Run)
  BY <1>1, <1>3, FrameReturns, AnswersDef
<1>5. Len(judged) = phase - 1 /\ phase \in Nat
  BY <1>1, ScheduleFacts DEF WalkIs, TypeOK
<1>6. Len(judged') = phase
  BY <1>1, <1>5, AppendIsSeq DEF WalkOK
<1>7. DOMAIN stack' = {} /\ Len(stack') = 0
  BY <1>1, ShortSeqs
<1>. QED  BY <1>1, <1>4, <1>5, <1>6, <1>7 DEF WalkIs

(* The next call begins with the root, at its own limit.                   *)
LEMMA SequentialAgain ==
  ASSUME WalkOK, WalkIs, TypeOK, JudgeAgain
  PROVE  WalkIs'
<1>1. /\ stack = <<>> /\ stack' = <<Frame(Root)>> /\ phase' = phase + 1
      /\ UNCHANGED <<judged, beh>>
  BY DEF JudgeAgain, NextJudge
<1>2. DOMAIN stack' = {1} /\ stack'[1] = Frame(Root) /\ stack' # <<>> /\ Len(stack') = 1
  BY <1>1, ShortSeqs
<1>3. Frame(Root).group = Root /\ FrameIs(Frame(Root), Run')
  BY TreeAssumption, FreshFrameIs DEF Frame
<1>4. phase \in Nat
  BY ScheduleFacts DEF TypeOK
<1>. QED  BY <1>1, <1>2, <1>3, <1>4 DEF WalkIs

(* Every step keeps the walk on the sequential answer's way.               *)
LEMMA SequentialStep ==
  ASSUME Reliable, TypeOK, ServedResultIsDirect, failed = {}, AtTest, WalkOK, WalkIs,
         [JudgeNext]_judgeVars
  PROVE  /\ WalkIs'
         /\ FinishJudge \/ UNCHANGED <<judged, beh>>
<1>1. ASSUME UNCHANGED <<stack, judged, beh, phase>>
      PROVE  WalkIs'
  <2>1. Run' = Run
    BY <1>1 DEF Run, Runs
  <2>. QED  BY <1>1, <2>1 DEF WalkIs
<1>2. CASE TakeResult \/ EnterGroup \/ LeaveGroup \/ JudgeAgain
  <2>1. UNCHANGED <<judged, beh>>
    BY <1>2 DEF TakeResult, Return, EnterGroup, LeaveGroup, JudgeAgain, NextJudge, vars
  <2>. QED
    BY <1>2, <2>1, SequentialTake, SequentialEnter, SequentialLeave, SequentialAgain
<1>3. CASE FinishJudge
  BY <1>3, SequentialFinish
<1>4. CASE ~ (TakeResult \/ EnterGroup \/ LeaveGroup \/ JudgeAgain \/ FinishJudge)
  <2>1. UNCHANGED <<stack, judged, beh, phase>>
    BY <1>4
       DEF JudgeNext, WorkerStep, StartJob, ClaimJob, Populate, RefusedJob, FinishJob,
           Finish, FinishWithError, Complete, ResolveJob, Resolve, MainStep, AskForTest,
           Get, GetCompleted, GetInFlight, GetNone, RunMissing, ClaimMissed,
           ClaimRefused, FinishMissing, RunUncached, Subscribe, RaiseInJudge, Raise,
           vars, walkVars, judgeVars
  <2>. QED  BY <1>1, <2>1
<1>. QED  BY <1>2, <1>3, <1>4

(* A run raises only if MayFail says that it may.                          *)
LEMMA NothingFails == ~ MayFail => (StoreSafety => [](failed = {}))
<1> SUFFICES ASSUME ~ MayFail
             PROVE  StoreSafety => [](failed = {})
  OBVIOUS
<1>1. Init => failed = {}
  BY DEF Init
<1>2. failed = {} /\ [Next]_vars => (failed = {})'
  BY DEF Next, Continue, Finish, Resolve, Subscribe, ClaimMissed, ClaimRefused,
     RunUncached, FinishWithError, Populate, Get, GetCompleted, GetInFlight, GetNone,
     Return, Raise, NextJudge, vars
<1>. QED  BY <1>1, <1>2, PTL DEF StoreSafety

(* A list of answers, each seen at its own limit, grows by its last one.   *)
Seen(lists) == [i \in DOMAIN lists |-> Observed(lists[i], Schedule[i])]

(* The longer list of answers is the shorter one and the last answer.      *)
LEMMA SeenAppend ==
  ASSUME NEW lists, IsSeq(lists), NEW list
  PROVE  /\ Len(Seen(lists)) = Len(lists)
         /\ Seen(Append(lists, list))
              = Append(Seen(lists), Observed(list, Schedule[Len(lists) + 1]))
<1> DEFINE n == Len(lists)
           more == Append(lists, list)
           seen == Seen(lists)
           last == Observed(list, Schedule[n + 1])
<1>1. /\ n \in Nat /\ DOMAIN lists = 1 .. n /\ DOMAIN more = 1 .. n + 1
      /\ \A i \in 1 .. n + 1 : more[i] = IF i = n + 1 THEN list ELSE lists[i]
  BY AppendIsSeq
<1>2. DOMAIN seen = 1 .. n /\ seen = [i \in 1 .. n |-> seen[i]]
      /\ \A i \in 1 .. n : seen[i] = Observed(lists[i], Schedule[i])
  BY <1>1 DEF Seen
<1>3. Seen(more) = [i \in 1 .. n + 1 |-> Observed(more[i], Schedule[i])]
  BY <1>1 DEF Seen
<1> HIDE DEF n, more, seen, last
<1>4. IsSeq(seen) /\ Len(seen) = n
  <2> DEFINE R == Range(seen)
  <2>1. \A i \in 1 .. n : seen[i] \in R
    BY <1>2 DEF Range
  <2> HIDE DEF R
  <2>2. seen \in [1 .. n -> R]
    BY <1>2, <2>1
  <2>3. seen \in Seq(R)
    BY <1>1, <2>2, SeqDef
  <2>4. DOMAIN seen = 1 .. Len(seen) /\ Len(seen) \in Nat /\ IsSeq(seen)
    BY <2>3, SeqIsSeq
  <2>. QED  BY <1>1, <1>2, <2>4
<1> DEFINE all == Append(seen, last)
<1>5. /\ IsSeq(all) /\ DOMAIN all = 1 .. n + 1 /\ Len(all) = n + 1
      /\ \A i \in 1 .. n + 1 : all[i] = IF i = n + 1 THEN last ELSE seen[i]
  BY <1>4, AppendIsSeq
<1> HIDE DEF all
<1>6. all = [i \in 1 .. n + 1 |-> all[i]]
  BY <1>5, LenProperties DEF IsSeq
<1>7. \A i \in 1 .. n + 1 : all[i] = Observed(more[i], Schedule[i])
  <2> TAKE i \in 1 .. n + 1
  <2>1. CASE i = n + 1
    BY <1>1, <1>5, <2>1 DEF last
  <2>2. CASE i # n + 1
    <3>1. i \in 1 .. n
      BY <1>1, <2>2
    <3>. QED  BY <1>1, <1>2, <1>5, <2>2, <3>1
  <2>. QED  BY <2>1, <2>2
<1>8. all = Seen(more)
  BY <1>3, <1>6, <1>7
<1>. QED  BY <1>4, <1>8 DEF all, more, seen, last, n

(* Judging with workers, a shared store and cancellation implements        *)
(* judging one test case after the other: whatever the threads do, every   *)
(* call of judge() answers what the submission does at its limit, group by *)
(* group, line by line.                                                    *)
THEOREM JudgingIsSequential ==
  Reliable => (JudgeSafety => ImplementsSequentialJudge)
<1> SUFFICES ASSUME Reliable
             PROVE  JudgeSafety => ImplementsSequentialJudge
  OBVIOUS
<1> DEFINE Invs == /\ TypeOK /\ ServedResultIsDirect /\ failed = {} /\ AtTest /\ WalkOK
<1>1. JudgeInit => WalkIs /\ Sequential!Init
  <2> SUFFICES ASSUME JudgeInit
               PROVE  WalkIs /\ Sequential!Init
    OBVIOUS
  <2>1. stack = <<Frame(Root)>> /\ judged = <<>> /\ phase = 1 /\ beh \in [Keys -> Behaviours]
    BY DEF JudgeInit, Init
  <2>2. DOMAIN stack = {1} /\ stack[1] = Frame(Root) /\ stack # <<>> /\ Len(stack) = 1
    BY <2>1, ShortSeqs
  <2>3. FrameIs(Frame(Root), Run) /\ Frame(Root).group = Root
    BY TreeAssumption, FreshFrameIs DEF Frame
  <2>4. Len(judged) = 0 /\ DOMAIN judged = {}
    BY <2>1, ShortSeqs
  <2>5. WalkIs
    BY <2>1, <2>2, <2>3, <2>4 DEF WalkIs
  <2>6. [i \in DOMAIN judged |-> Observed(judged[i], Schedule[i])] = <<>>
    BY <2>4
  <2>. QED  BY <2>1, <2>5, <2>6 DEF Sequential!Init
<1>2. Invs /\ WalkIs /\ [JudgeNext]_judgeVars => WalkIs'
  BY SequentialStep
<1>3. Invs /\ WalkIs /\ [JudgeNext]_judgeVars
        => [Sequential!Judge]_<<beh, Seen(judged)>>
  <2> SUFFICES ASSUME Invs, WalkIs, [JudgeNext]_judgeVars
               PROVE  [Sequential!Judge]_<<beh, Seen(judged)>>
    OBVIOUS
  <2>1. CASE UNCHANGED <<judged, beh>>
    BY <2>1 DEF Seen
  <2>2. CASE FinishJudge
    <3>1. judged' = Append(judged, Answer(Run)) /\ Len(judged) = phase - 1
      BY <2>2, SequentialFinish
    <3>2. Len(Seen(judged)) = Len(judged)
          /\ Seen(judged')
               = Append(Seen(judged), Observed(Answer(Run), Schedule[Len(judged) + 1]))
      BY <3>1, SeenAppend DEF WalkOK
    <3>3. phase \in 1 .. Len(Schedule) /\ Len(Schedule) \in Nat
      BY ScheduleFacts DEF TypeOK
    <3>4. Len(judged) + 1 = phase /\ Len(judged) < Len(Schedule)
      BY <3>1, <3>3
    <3>5. Observed(Answer(Run), Schedule[phase]) = SequentialAnswer(beh, Schedule[phase])
      BY DEF SequentialAnswer, Run
    <3>6. UNCHANGED beh
      BY <2>2 DEF FinishJudge, vars
    <3>. QED  BY <3>2, <3>4, <3>5, <3>6 DEF Sequential!Judge, Seen
  <2>. QED  BY <2>1, <2>2, SequentialStep
<1>4. JudgeSafety => [](TypeOK /\ ServedResultIsDirect /\ failed = {})
  <2>1. LargestLimitFirst /\ ~ MayFail
    BY DEF Reliable
  <2>. QED
    BY <2>1, JudgeFollowsStoreProtocol, TypeCorrect, CachedResultsAreDirect, NothingFails, PTL
<1>. QED
  BY <1>1, <1>2, <1>3, <1>4, WalkIsAtTest, WalkIsOK, PTL
     DEF JudgeSafety, ImplementsSequentialJudge, Sequential!Spec, Seen

-----------------------------------------------------------------------------
(* A later call has nothing left to run.  First, why it meets no test case *)
(* that the first call did not: a submission that is accepted at a limit   *)
(* is so, in the same way, at a larger one.                                *)
AcceptedAlike(run, other) ==
  \A t \in Tests : run[t].verdict = "AC" => Alike(run[t], other[t])

(* Two lists of answers go together as far as what is joined is alike.     *)
LEMMA EarlierAlike ==
  ASSUME NEW N \in Nat, NEW p, NEW a, NEW j, OneEach(j, p, a, N),
         NEW q, NEW b, NEW k, OneEach(k, q, b, N), NEW m \in 0 .. N,
         \A n \in 1 .. m : a[n] = <<>> \/ (\E i \in DOMAIN j[m] : j[m][i] = a[n])
                             => AlikeLists(a[n], b[n])
  PROVE  /\ Len(k[m]) = Len(j[m])
         /\ \A i \in 1 .. Len(j[m]) : AlikeLists(j[m][i], k[m][i])
<1>1. m \in Nat /\ m <= N /\ \A n \in 1 .. m : n \in 1 .. N
  OBVIOUS
<1>2. PICK v : Joins(v, p, m)
  BY <1>1, JoinsExist
<1>3. PICK w : Joins(w, q, m)
  BY <1>1, JoinsExist
<1>4. v[m] = j[m] /\ w[m] = k[m]
  <2>1. Joins(j, p, N) /\ Joins(k, q, N)
    BY DEF OneEach
  <2>2. \A n \in 0 .. m : n <= N => v[n] = j[n]
    BY <1>1, <1>2, <2>1, JoinsAgree
  <2>3. \A n \in 0 .. m : n <= N => w[n] = k[n]
    BY <1>1, <1>3, <2>1, JoinsAgree
  <2>4. m \in 0 .. m
    BY <1>1
  <2>. QED  BY <1>1, <2>2, <2>3, <2>4
<1>5. OneEach(v, p, a, m) /\ OneEach(w, q, b, m)
  BY <1>1, <1>2, <1>3 DEF OneEach
<1>6. Len(j[m]) \in Nat /\ DOMAIN j[m] = 1 .. Len(j[m])
  BY OneEachSteps
<1> DEFINE K == Len(j[m])
<1>7. K \in 0 .. Len(v[m]) /\ K = Len(v[m])
  BY <1>4, <1>6
<1>8. \A n \in 1 .. m : a[n] = <<>> \/ (\E i \in 1 .. K : v[m][i] = a[n])
                          => AlikeLists(a[n], b[n])
  BY <1>4, <1>6
<1> HIDE DEF K
<1>9. /\ K = Len(v[m]) => Len(w[m]) = K
      /\ \A i \in 1 .. K : AlikeLists(v[m][i], w[m][i])
  BY <1>1, <1>5, <1>7, <1>8, JoinsAlike
<1>. QED  BY <1>4, <1>7, <1>9 DEF K

(* An item that is accepted, or passed over, is so again.                  *)
LEMMA ItemAcceptedAlike ==
  ASSUME StrictGraders, NEW run \in [Tests -> Judgements], NEW other \in [Tests -> Judgements],
         AcceptedAlike(run, other), NEW g \in Groups, NEW item,
         item \in Groups \/ (item \in Tests /\ item \notin Groups),
         NEW list, list = ListOf(AnswersOf(run), run, g, item),
         list = <<>> \/ Last(list).result.verdict = "AC"
  PROVE  AlikeLists(list, ListOf(AnswersOf(other), other, g, item))
<1>1. CASE item \in Groups
  <2>1. list = AnswersOf(run)[item]
        /\ ListOf(AnswersOf(other), other, g, item) = AnswersOf(other)[item]
    BY <1>1 DEF ListOf
  <2>2. TestsAccepted(run, list)
    <3>1. CASE list = <<>>
      BY <3>1, ShortSeqs DEF TestsAccepted
    <3>2. CASE list # <<>>
      <4>1. AcceptedThroughout(run, list)
        BY <1>1, <2>1, AnswersAccepted
      <4>. QED  BY <3>2, <4>1 DEF AcceptedThroughout
    <3>. QED  BY <3>1, <3>2
  <2>3. SeenAlike(run, other, AnswersOf(run)[item])
    BY <2>1, <2>2 DEF SeenAlike, TestsAccepted, AcceptedAlike
  <2>. QED  BY <1>1, <2>1, <2>3, AnswersAlike
<1>2. CASE item \in Tests /\ item \notin Groups
  <2> DEFINE r == WithDefaultScore(run[item], g)
  <2>1. list = <<At(item, r)>>
    BY <1>2 DEF ListOf
  <2>2. r.verdict = run[item].verdict
    <3>1. run[item] \in Judgements
      BY <1>2
    <3>. QED  BY <3>1 DEF WithDefaultScore, Judgements
  <2> HIDE DEF r
  <2>3. DOMAIN list = {1} /\ list[1] = At(item, r) /\ Len(list) = 1 /\ list # <<>>
    BY <2>1, ShortSeqs
  <2>4. Last(list).result.verdict = r.verdict
    BY <2>3 DEF Last, At
  <2>5. Alike(run[item], other[item])
    BY <1>2, <2>2, <2>3, <2>4 DEF AcceptedAlike
  <2>6. SeenAlike(run, other, list)
    BY <2>3, <2>5 DEF SeenAlike, At
  <2>7. ItemAlike(AnswersOf(run), run, AnswersOf(other), other, g, item)
    BY <1>2, TestAlike
  <2>. QED  BY <2>6, <2>7 DEF ItemAlike
<1>. QED  BY <1>1, <1>2

(* The nodes of a list of answers.                                         *)
NodesOf(list) == {list[i].node : i \in DOMAIN list}

(* What one list holds of those it is made of.                             *)
LEMMA AnsweredHas ==
  ASSUME NEW g, NEW s, IsSeq(s), \A i \in DOMAIN s : IsSeq(s[i]), NEW i \in DOMAIN s
  PROVE  NodesOf(s[i]) \subseteq NodesOf(Answered(g, s))
<1> DEFINE flat == FlattenSeq(s)
<1>1. /\ IsSeq(flat)
      /\ \A x \in DOMAIN s[i] : \E y \in DOMAIN flat : flat[y] = s[i][x]
  <2>1. /\ IsSeq(flat)
        /\ \A n \in DOMAIN s : \A x \in DOMAIN s[n] :
             \E y \in DOMAIN flat : flat[y] = s[n][x]
    BY FlattenHas
  <2> HIDE DEF flat
  <2>. QED  BY <2>1
<1>2. s # <<>>
  BY ShortSeqs
<1> HIDE DEF flat
<1>3. PICK e : Answered(g, s) = Append(flat, e)
  BY <1>2 DEF Answered, flat
<1>4. \A y \in DOMAIN flat : y \in DOMAIN Append(flat, e) /\ Append(flat, e)[y] = flat[y]
  <2>1. /\ DOMAIN flat = 1 .. Len(flat) /\ Len(flat) \in Nat
        /\ DOMAIN Append(flat, e) = 1 .. Len(flat) + 1
        /\ \A y \in DOMAIN Append(flat, e) :
             Append(flat, e)[y] = IF y = Len(flat) + 1 THEN e ELSE flat[y]
    BY <1>1, AppendIsSeq
  <2>2. \A y \in 1 .. Len(flat) : y \in 1 .. Len(flat) + 1 /\ y # Len(flat) + 1
    BY <2>1
  <2>. QED  BY <2>1, <2>2
<1>5. \A x \in DOMAIN s[i] :
        \E y \in DOMAIN Append(flat, e) : Append(flat, e)[y] = s[i][x]
  BY <1>1, <1>4
<1>. QED  BY <1>3, <1>5 DEF NodesOf

(* Where the walk at the one limit has come to in a group is on the way of *)
(* the walk at the other: whatever it has taken before was accepted, if    *)
(* the group breaks, and so is no reason to break at the other.            *)
LEMMA ReachedInGroup ==
  ASSUME StrictGraders, NEW run \in [Tests -> Judgements], NEW other \in [Tests -> Judgements],
         AcceptedAlike(run, other), NEW f, FrameIs(f, run), f.todo # <<>>
  PROVE  NodesOf(ListOf(AnswersOf(other), other, f.group, Head(f.todo)))
           \subseteq NodesOf(AnswersOf(other)[f.group])
<1> DEFINE g == f.group
           items == Selected(Items[g])
           N == Len(items)
           out == AnswersOf(run)
           others == AnswersOf(other)
           a == [n \in 1 .. N |-> ListOf(out, run, g, items[n])]
           b == [n \in 1 .. N |-> ListOf(others, other, g, items[n])]
           C == Children(others, other, g)
<1>1. PICK i, m : FrameAt(f, run, i, m)
  BY DEF FrameIs
<1>2. /\ N \in Nat /\ m \in 0 .. N /\ g \in Groups
      /\ Joins(i, Pieces(out, run, g), N)
  BY <1>1, FrameFacts
<1>3. /\ m + 1 \in 1 .. N
      /\ Head(f.todo) = items[m + 1]
      /\ \A x \in DOMAIN i[m] : ~ Breaks(g, Last(i[m][x]).result)
  BY <1>1, FrameAtItem DEF AtItemAfter, Stops
<1>4. \A item \in ToSet(Items[g]) :
        IsSeq(ListOf(out, run, g, item)) /\ IsSeq(ListOf(others, other, g, item))
  <2> TAKE item \in ToSet(Items[g])
  <2>1. item \in Groups \/ item \in Tests
    BY <1>2, ItemsTyped DEF ToSet
  <2>. QED  BY <2>1, AnswersAreSeqs, ShortSeqs DEF ListOf
<1>5. PICK j : OneEach(j, Pieces(out, run, g), a, N)
  BY <1>2, <1>4, PiecesAreOneEach
<1>6. PICK k : OneEach(k, Pieces(others, other, g), b, N) /\ C = k[N]
  BY <1>2, <1>4, PiecesAreOneEach
<1>7. i[m] = j[m]
  <2>1. Joins(j, Pieces(out, run, g), N)
    BY <1>5 DEF OneEach
  <2> HIDE DEF N
  <2>. QED  BY <1>2, <2>1, JoinsAgree
<1>8. \A n \in 1 .. N : items[n] \in Groups \/ (items[n] \in Tests /\ items[n] \notin Groups)
  BY <1>2, SelectedTyped
<1>9. \A n \in 1 .. N :
        a[n] = <<>> \/ Last(a[n]).result.verdict = "AC" => AlikeLists(a[n], b[n])
  <2> TAKE n \in 1 .. N
  <2> DEFINE item == items[n]
             list == ListOf(out, run, g, item)
  <2>1. item \in Groups \/ (item \in Tests /\ item \notin Groups)
    BY <1>8
  <2>2. a[n] = list /\ b[n] = ListOf(others, other, g, item)
    OBVIOUS
  <2> HIDE DEF item, a, b, g
  <2>3. list = <<>> \/ Last(list).result.verdict = "AC"
          => AlikeLists(list, ListOf(AnswersOf(other), other, g, item))
    <3> DEFINE some == ListOf(out, run, g, item)
    <3> SUFFICES ASSUME some = <<>> \/ Last(some).result.verdict = "AC"
                 PROVE  AlikeLists(some, ListOf(AnswersOf(other), other, g, item))
      OBVIOUS
    <3> HIDE DEF some
    <3>1. some = ListOf(AnswersOf(run), run, g, item) /\ g \in Groups
      BY <1>2 DEF some
    <3>. QED  BY <2>1, <3>1, ItemAcceptedAlike
  <2>. QED  BY <2>2, <2>3
<1>10. IsSeq(C) /\ \A x \in DOMAIN C : IsSeq(C[x]) /\ C[x] # <<>>
  BY <1>2, <1>4, ChildrenTyped
<1>11. \A n \in 1 .. N : b[n] = ListOf(others, other, g, items[n])
  OBVIOUS
<1>12. others[g] = Answered(g, UpToBreak(g, C))
  BY <1>2, AnswersDef DEF GroupAnswer, Answered
<1>13. \A x \in 0 .. N : /\ Len(j[x]) \in Nat /\ DOMAIN j[x] = 1 .. Len(j[x])
                         /\ Len(k[x]) \in Nat /\ DOMAIN k[x] = 1 .. Len(k[x])
  <2> HIDE DEF a, b, N
  <2>. QED  BY <1>2, <1>5, <1>6, OneEachSteps
<1> HIDE DEF a, b, C, N, g
<1>14. m \in 0 .. N /\ m \in Nat /\ m + 1 <= N /\ m + 1 \in 0 .. N /\ N \in m + 1 .. N
  BY <1>2, <1>3
<1>15. \A x \in 1 .. Len(k[m]) : ~ Breaks(g, Last(k[m][x]).result)
  <2>1. CASE ~ Config[g].break
    BY <2>1 DEF Breaks
  <2>2. CASE Config[g].break
    <3>1. \A x \in DOMAIN j[m] : Last(j[m][x]).result.verdict = "AC"
      BY <1>3, <1>7, <2>2 DEF Breaks
    <3>2. \A n \in 1 .. m : a[n] = <<>> \/ (\E x \in DOMAIN j[m] : j[m][x] = a[n])
                              => AlikeLists(a[n], b[n])
      <4>1. \A n \in 1 .. m : n \in 1 .. N
        BY <1>2
      <4>. QED  BY <1>9, <3>1, <4>1
    <3>3. /\ Len(k[m]) = Len(j[m])
          /\ \A x \in 1 .. Len(j[m]) : AlikeLists(j[m][x], k[m][x])
      BY <1>2, <1>5, <1>6, <3>2, EarlierAlike
    <3>4. ASSUME NEW x \in 1 .. Len(k[m])
          PROVE  Last(k[m][x]).result.verdict = "AC"
      <4>1. x \in DOMAIN j[m] /\ AlikeLists(j[m][x], k[m][x])
        BY <1>13, <1>14, <3>3
      <4>2. IsSeq(j[m][x]) /\ j[m][x] # <<>> /\ IsSeq(k[m][x])
        <5>1. j[m][x] \in Lists(AnswersOf(run), run, g)
          <6>1. j[m] \in Seq(Lists(AnswersOf(run), run, g))
            BY <1>1, <1>7, <1>14, FrameFacts DEF g, N
          <6>. QED  BY <4>1, <6>1, SeqIsSeq
        <5>2. k[m][x] = C[x] /\ x \in DOMAIN C
          <6>1. \A n \in 1 .. N : IsSeq(Pieces(others, other, g)[n])
            <7>1. \A n \in 1 .. N : Pieces(others, other, g)[n] = Child(b[n])
              BY <1>6 DEF OneEach
            <7>. QED  BY <7>1, ShortSeqs DEF Child
          <6>2. Joins(k, Pieces(others, other, g), N)
            BY <1>6 DEF OneEach
          <6>3. /\ Len(k[m]) <= Len(k[N])
                /\ \A y \in 1 .. Len(k[m]) : k[N][y] = k[m][y]
            <7>1. N \in m .. N
              BY <1>2
            <7>. QED  BY <1>2, <6>1, <6>2, <7>1, JoinsGrow
          <6>4. N \in 0 .. N
            BY <1>2
          <6>5. Len(k[N]) \in Nat /\ DOMAIN k[N] = 1 .. Len(k[N]) /\ Len(k[m]) \in Nat
            BY <1>13, <1>14, <6>4
          <6>6. x \in 1 .. Len(k[N])
            BY <6>3, <6>5
          <6>. QED  BY <1>6, <6>3, <6>5, <6>6
        <5>. QED  BY <1>2, <1>10, <5>1, <5>2, ListsAreSeqs
      <4>3. Alike(Last(j[m][x]).result, Last(k[m][x]).result)
        BY <4>1, <4>2, LastAlike
      <4>. QED  BY <3>1, <4>1, <4>3 DEF Alike
    <3>. QED  BY <3>4 DEF Breaks
  <2>. QED  BY <2>1, <2>2
<1> DEFINE next == b[m + 1]
<1>16. next = ListOf(others, other, g, Head(f.todo))
  BY <1>3, <1>11
<1>17. CASE next = <<>>
  BY <1>16, <1>17, ShortSeqs DEF NodesOf, g
<1>18. CASE next # <<>>
  <2> DEFINE M == Len(k[m]) + 1
  <2>1. Len(k[m + 1]) = M /\ k[m + 1][M] = next
        /\ \A x \in 1 .. Len(k[m]) : k[m + 1][x] = k[m][x]
    <3>1. \A n \in Nat : n + 1 <= N =>
            \/ b[n + 1] = <<>>
            \/ /\ Len(k[n + 1]) = Len(k[n]) + 1
               /\ k[n + 1][Len(k[n]) + 1] = b[n + 1]
               /\ \A x \in 1 .. Len(k[n]) : k[n + 1][x] = k[n][x]
      BY <1>2, <1>6, OneEachSteps
    <3>. QED  BY <1>14, <1>18, <3>1
  <2>2. M \in Nat /\ M >= 1 /\ Len(C) \in Nat /\ DOMAIN C = 1 .. Len(C)
    BY <1>10, <1>13, <1>14, SeqIsSeq DEF IsSeq
  <2>3. M <= Len(C) /\ \A x \in 1 .. M : C[x] = k[m + 1][x]
    <3>1. \A n \in 1 .. N : IsSeq(Pieces(others, other, g)[n])
      <4>1. \A n \in 1 .. N : Pieces(others, other, g)[n] = Child(b[n])
        BY <1>6 DEF OneEach
      <4>. QED  BY <4>1, ShortSeqs DEF Child
    <3>2. Joins(k, Pieces(others, other, g), N)
      BY <1>6 DEF OneEach
    <3>3. /\ Len(k[m + 1]) <= Len(k[N])
          /\ \A y \in 1 .. Len(k[m + 1]) : k[N][y] = k[m + 1][y]
      <4> DEFINE m1 == m + 1
      <4>1. m1 \in 0 .. N /\ N \in m1 .. N
        BY <1>14
      <4> HIDE DEF m1
      <4>2. \A n \in m1 .. N : /\ Len(k[m1]) <= Len(k[n])
                               /\ \A y \in 1 .. Len(k[m1]) : k[n][y] = k[m1][y]
        BY <1>2, <3>1, <3>2, <4>1, JoinsGrow
      <4>. QED  BY <4>1, <4>2 DEF m1
    <3>. QED  BY <1>6, <2>1, <3>3
  <2> HIDE DEF next
  <2>4. \A x \in 1 .. M - 1 : ~ BreaksAt(g, C, x)
    <3>1. \A x \in 1 .. M - 1 : x \in 1 .. Len(k[m]) /\ x \in 1 .. M
      BY <1>13, <1>14
    <3>. QED  BY <1>15, <2>1, <2>3, <3>1 DEF BreaksAt
  <2> HIDE DEF M
  <2>5. PICK K \in 0 .. Len(C) : StopsAt(g, C, K)
    BY <1>10, UpToBreakEnds
  <2>6. K >= M
    <3> SUFFICES ASSUME K < M
                 PROVE  FALSE
      BY <2>2
    <3>1. K < M
      OBVIOUS
    <3>2. K # Len(C)
      <4>1. M <= Len(C)
        BY <2>3
      <4>2. K \in Int /\ Len(C) \in Int /\ M \in Int
        BY <2>2
      <4>3. \A x, y, z \in Int : x < y /\ y <= z => x # z
        OBVIOUS
      <4>. QED  BY <3>1, <4>1, <4>2, <4>3
    <3>3. K # 0 /\ BreaksAt(g, C, K)
      BY <2>5, <3>2 DEF StopsAt
    <3>4. K \in 1 .. M - 1
      BY <2>2, <2>5, <3>1, <3>3
    <3>. QED  BY <2>4, <3>3, <3>4
  <2> DEFINE s == UpToBreak(g, C)
  <2>7. IsSeq(s) /\ DOMAIN s = 1 .. K /\ \A x \in 1 .. K : s[x] = C[x]
    <3>1. s = SubSeq(C, 1, K)
      BY <1>10, <2>5, UpToBreakEnds
    <3>. QED  BY <1>10, <3>1, SubSeqIsSeq
  <2>8. (\A x \in DOMAIN s : IsSeq(s[x])) /\ M \in DOMAIN s /\ s[M] = next
    <3>1. \A x \in 1 .. K : x \in DOMAIN C
      BY <2>2
    <3>2. M \in 1 .. K /\ M \in 1 .. M
      BY <2>2, <2>6
    <3>. QED  BY <1>10, <2>1, <2>3, <2>7, <3>1, <3>2
  <2> HIDE DEF s
  <2>9. NodesOf(next) \subseteq NodesOf(Answered(g, s))
    BY <2>7, <2>8, AnsweredHas
  <2>. QED  BY <1>12, <1>16, <2>9 DEF s, g
<1>. QED  BY <1>17, <1>18

(* What the submission does at the limit of the first call.                *)
FirstRun == Runs(beh, Schedule[1])

(* The runs of a call are what groups grade.                               *)
LEMMA RunsAreJudgements ==
  ASSUME TypeOK, NEW limit \in Nat
  PROVE  Runs(beh, limit) \in [Tests -> Judgements]
<1>1. ASSUME NEW t \in Tests
      PROVE  Judgement(Direct(beh[KeyOf[t]], limit)) \in Judgements
  <2>1. beh[KeyOf[t]] \in Behaviour
    BY KeyOfAssumption, BehavioursAssumption DEF TypeOK
  <2>2. Direct(beh[KeyOf[t]], limit) \in Result
    BY <2>1, DirectType
  <2>. QED  BY <2>2 DEF Judgement, Result, Judgements
<1>. QED  BY <1>1 DEF Runs

(* The first call is at the largest limit.                                 *)
LEMMA FirstAccepts ==
  ASSUME LargestLimitFirst, TypeOK
  PROVE  AcceptedAlike(Run, FirstRun)
<1> SUFFICES ASSUME NEW t \in Tests, Run[t].verdict = "AC"
             PROVE  Alike(Run[t], FirstRun[t])
  BY DEF AcceptedAlike
<1> DEFINE b == beh[KeyOf[t]]
           lower == Schedule[phase]
           limit == Schedule[1]
<1>1. b \in Behaviour
  BY KeyOfAssumption, BehavioursAssumption DEF TypeOK
<1>2. lower \in Int /\ limit \in Int /\ lower <= limit
  BY ScheduleFacts DEF TypeOK, LargestLimitFirst
<1>3. Run[t] = Judgement(Direct(b, lower)) /\ FirstRun[t] = Judgement(Direct(b, limit))
  BY DEF Run, FirstRun, Runs
<1> HIDE DEF b, lower, limit
<1>4. Alike(Direct(b, lower), Direct(b, limit))
  BY <1>1, <1>2, <1>3, DirectHigher DEF Judgement
<1>. QED  BY <1>3, <1>4 DEF Alike, Judgement

(* Every test case the walk comes to, in whichever call, is in the answer  *)
(* of the first.                                                           *)
LEMMA ReachedBefore ==
  ASSUME LargestLimitFirst, StrictGraders, TypeOK, WalkOK, WalkIs,
         stack # <<>>, Top.todo # <<>>, Item \in Tests
  PROVE  Item \in NodesOf(Answer(FirstRun))
<1> DEFINE out == AnswersOf(FirstRun)
           below(n) == NodesOf(out[stack[n].group]) \subseteq NodesOf(Answer(FirstRun))
<1>1. Run \in [Tests -> Judgements] /\ FirstRun \in [Tests -> Judgements]
      /\ AcceptedAlike(Run, FirstRun)
  <2>1. Schedule[phase] \in Nat /\ Schedule[1] \in Nat
    BY ScheduleFacts DEF TypeOK
  <2>. QED  BY <2>1, RunsAreJudgements, FirstAccepts DEF Run, FirstRun
<1>2. Len(stack) \in Nat /\ DOMAIN stack = 1 .. Len(stack) /\ Len(stack) >= 1
  <2>1. IsSeq(stack) /\ Len(stack) \in Nat /\ DOMAIN stack = 1 .. Len(stack)
    BY SeqIsSeq DEF WalkOK, IsSeq
  <2>. QED  BY <2>1, EmptySeq DEF IsSeq
<1> DEFINE S == {n \in Nat : n + 1 <= Len(stack) => below(n + 1)}
<1>3. 0 \in S
  BY AnswersDef DEF WalkIs
<1>4. ASSUME NEW n \in Nat, n \in S
      PROVE  n + 1 \in S
  <2> SUFFICES ASSUME n + 2 <= Len(stack)
               PROVE  below(n + 2)
    <3>1. (n + 1) + 1 = n + 2
      OBVIOUS
    <3>. QED  BY <3>1
  <2> DEFINE f == stack[n + 1]
  <2>1. n + 1 \in 1 .. Len(stack) - 1 /\ n + 1 \in DOMAIN stack /\ n + 2 \in DOMAIN stack
        /\ (n + 1) + 1 = n + 2
    BY <1>2
  <2>2. below(n + 1)
    BY <1>4, <2>1
  <2>3. FrameIs(f, Run) /\ f.todo # <<>> /\ Head(f.todo) = stack[n + 2].group
    BY <2>1 DEF WalkIs
  <2>4. stack[n + 2].group \in Groups
    BY <2>1 DEF WalkIs, FrameIs, FrameAt
  <2>5. NodesOf(ListOf(out, FirstRun, f.group, Head(f.todo))) \subseteq NodesOf(out[f.group])
    BY <1>1, <2>3, ReachedInGroup
  <2>6. ListOf(out, FirstRun, f.group, Head(f.todo)) = out[stack[n + 2].group]
    BY <2>3, <2>4 DEF ListOf
  <2>. QED  BY <2>2, <2>5, <2>6
<1> DEFINE m == Len(stack) - 1
<1>5. m \in Nat /\ m + 1 = Len(stack)
  BY <1>2
<1>6. below(Len(stack))
  <2> HIDE DEF below
  <2>1. \A n \in Nat : n \in S
    <3> HIDE DEF S
    <3>. QED  BY <1>3, <1>4, SetInduction
  <2> HIDE DEF m
  <2>2. m \in S
    BY <1>5, <2>1
  <2>. QED  BY <1>5, <2>2
<1>7. Top = stack[Len(stack)] /\ FrameIs(Top, Run)
  BY <1>2 DEF Top, Last, WalkIs
<1>8. NodesOf(ListOf(out, FirstRun, Top.group, Item)) \subseteq NodesOf(out[Top.group])
  BY <1>1, <1>7, ReachedInGroup DEF Item
<1>9. Item \in NodesOf(ListOf(out, FirstRun, Top.group, Item))
  <2>1. Item \notin Groups
    BY TreeAssumption
  <2> DEFINE line == At(Item, WithDefaultScore(FirstRun[Item], Top.group))
  <2>2. ListOf(out, FirstRun, Top.group, Item) = <<line>>
    BY <2>1 DEF ListOf
  <2>3. line.node = Item
    BY DEF At
  <2> HIDE DEF line
  <2>4. DOMAIN <<line>> = {1} /\ <<line>>[1] = line
    BY ShortSeqs
  <2>. QED  BY <2>2, <2>3, <2>4 DEF NodesOf
<1>. QED  BY <1>6, <1>7, <1>8, <1>9

-----------------------------------------------------------------------------
(* A test case of a list was looked up, so that somebody has claimed its   *)
(* key, and nobody takes that back.                                        *)
Claimed == {k \in Keys : store[k] # Absent}

Found(list, keys) ==
  \A i \in DOMAIN list : list[i].node \in Tests => KeyOf[list[i].node] \in keys

FoundInv ==
  /\ \A i \in DOMAIN stack : Found(stack[i].all_results, Claimed)
  /\ \A n \in DOMAIN judged : Found(judged[n], Claimed)

FirstAnswered == judged # <<>> => judged[1] = Answer(FirstRun)

(* Every run was made at the first limit, for only the first call runs.    *)
LookupInv ==
  /\ pc[Main] \notin {"idle", "missed"} => store[key[Main]] # Absent
  /\ \A k \in Keys : store[k].state = "completed" => store[k].run_timelim = Schedule[1]
  /\ LaterCallsRunNothing

(* A claimed key stays so.                                                 *)
LEMMA ClaimsStay ==
  ASSUME TypeOK, [Next]_vars, NEW k \in Keys, store[k] # Absent
  PROVE  store'[k] # Absent
<1>1. ASSUME NEW t \in Threads, Completes(t)
      PROVE  store'[k] # Absent
  BY <1>1 DEF Completes, Complete, Entry, Absent, TypeOK
<1>2. ASSUME NEW t \in Threads, NEW j \in Keys, Claim(t, j)
      PROVE  store'[k] # Absent
  BY <1>2 DEF Claim, InFlight, Absent, TypeOK
<1>3. ASSUME UNCHANGED store
      PROVE  store'[k] # Absent
  BY <1>3
<1>. QED
  BY <1>1, <1>2, <1>3, NextCases, FinishCompletes, ErrorCompletes
     DEF Populate, ClaimMissed, TypeOK, Threads, vars, Resolve, Get, GetCompleted,
         GetInFlight, GetNone, Subscribe, ClaimRefused, RunUncached, Return, Raise, NextJudge

(* What was found stays found, and lists grow by what is.                  *)
LEMMA FoundStays ==
  ASSUME NEW keys, NEW others, keys \subseteq others, NEW list, Found(list, keys)
  PROVE  Found(list, others)
BY DEF Found

LEMMA FoundAppend ==
  ASSUME NEW keys, NEW list, IsSeq(list), Found(list, keys), NEW e,
         e.node \in Tests => KeyOf[e.node] \in keys
  PROVE  Found(Append(list, e), keys)
<1>1. \A i \in DOMAIN Append(list, e) :
        Append(list, e)[i] = e \/ (i \in DOMAIN list /\ Append(list, e)[i] = list[i])
  <2>1. /\ DOMAIN list = 1 .. Len(list) /\ Len(list) \in Nat
        /\ DOMAIN Append(list, e) = 1 .. Len(list) + 1
        /\ \A i \in DOMAIN Append(list, e) :
             Append(list, e)[i] = IF i = Len(list) + 1 THEN e ELSE list[i]
    BY AppendIsSeq
  <2>. QED  BY <2>1
<1>. QED  BY <1>1 DEF Found

LEMMA FoundConcat ==
  ASSUME NEW keys, NEW list, IsSeq(list), Found(list, keys),
         NEW another, IsSeq(another), Found(another, keys)
  PROVE  Found(list \o another, keys)
<1>1. \A i \in DOMAIN (list \o another) :
        \/ i \in DOMAIN list /\ (list \o another)[i] = list[i]
        \/ i - Len(list) \in DOMAIN another /\ (list \o another)[i] = another[i - Len(list)]
  <2>1. /\ Len(list) \in Nat /\ Len(another) \in Nat
        /\ DOMAIN list = 1 .. Len(list) /\ DOMAIN another = 1 .. Len(another)
        /\ DOMAIN (list \o another) = 1 .. Len(list) + Len(another)
        /\ \A i \in DOMAIN (list \o another) :
             (list \o another)[i] = IF i <= Len(list) THEN list[i] ELSE another[i - Len(list)]
    BY ConcatIsSeq
  <2> DEFINE both == list \o another
  <2> HIDE DEF both
  <2>. QED  BY <2>1 DEF both
<1>. QED  BY <1>1 DEF Found

(* The innermost frames are replaced by one whose list is found.           *)
LEMMA FramesFound ==
  ASSUME Claimed \subseteq Claimed', IsSeq(stack), FoundInv,
         NEW n \in 0 .. Len(stack), NEW f, Found(f.all_results, Claimed),
         stack' = Append(SubSeq(stack, 1, n), f), UNCHANGED judged
  PROVE  FoundInv'
<1>1. \A i \in DOMAIN stack' : stack'[i] = f \/ \E j \in DOMAIN stack : stack'[i] = stack[j]
  BY SubSeqIsSeq, AppendIsSeq
<1>2. \A i \in DOMAIN stack' : Found(stack'[i].all_results, Claimed)
  BY <1>1 DEF FoundInv
<1>3. \A i \in DOMAIN stack' : Found(stack'[i].all_results, Claimed')
  BY <1>2, FoundStays
<1>4. \A i \in DOMAIN judged' : Found(judged'[i], Claimed')
  BY FoundStays DEF FoundInv
<1>. QED  BY <1>3, <1>4 DEF FoundInv

(* The list a group returns is found if its own is.                        *)
LEMMA ReturnedIsFound ==
  ASSUME NEW keys, NEW f, IsSeq(f.all_results), Found(f.all_results, keys),
         f.group \in Groups
  PROVE  IsSeq(Returned(f)) /\ Found(Returned(f), keys)
<1> DEFINE line == At(f.group, OwnResult(f))
<1>1. CASE f.all_results = <<>>
  BY <1>1, ShortSeqs DEF Returned, Found
<1>2. CASE f.all_results # <<>>
  <2>1. Returned(f) = Append(f.all_results, line)
    BY <1>2 DEF Returned
  <2>2. line.node \notin Tests
    BY TreeAssumption DEF At
  <2> HIDE DEF line
  <2>. QED  BY <2>1, <2>2, FoundAppend, AppendIsSeq
<1>. QED  BY <1>1, <1>2

(* Every step of the walk keeps that.                                      *)
LEMMA FoundStep ==
  ASSUME TypeOK, AtTest, WalkOK, WalkIs, LookupInv, FoundInv,
         Claimed \subseteq Claimed', [JudgeNext]_judgeVars
  PROVE  FoundInv'
<1> DEFINE n == Len(stack)
<1>0. /\ IsSeq(stack) /\ n \in Nat /\ DOMAIN stack = 1 .. n
      /\ \A i \in DOMAIN stack : /\ IsSeq(stack[i].all_results) /\ stack[i].group \in Groups
                                 /\ Found(stack[i].all_results, Claimed)
  BY SeqIsSeq DEF WalkOK, FrameOK, WalkIs, FrameIs, FrameAt, FoundInv, IsSeq
<1>1. ASSUME stack # <<>>
      PROVE  n > 0 /\ n - 1 \in 0 .. n /\ n \in DOMAIN stack /\ Top = stack[n]
  <2>1. n > 0
    BY <1>0, <1>1, EmptySeq DEF IsSeq
  <2>. QED  BY <1>0, <2>1 DEF Top, Last
<1>2. CASE UNCHANGED <<stack, judged>>
  BY <1>2, FoundStays DEF FoundInv
<1>3. CASE EnterGroup
  <2> DEFINE f == Frame(Item)
  <2>1. stack # <<>> /\ stack' = Append(SubSeq(stack, 1, n), f) /\ UNCHANGED judged
    <3>1. SubSeq(stack, 1, n) = stack
      BY <1>0, SubSeqFull DEF IsSeq
    <3>. QED  BY <1>3, <3>1 DEF EnterGroup, AtItem, Walking
  <2>2. Found(f.all_results, Claimed)
    BY ShortSeqs DEF Frame, Found
  <2>3. n \in 0 .. n
    BY <1>0
  <2> HIDE DEF f
  <2>. QED  BY <1>0, <2>1, <2>2, <2>3, FramesFound
<1>4. CASE TakeResult
  <2> DEFINE r == WithDefaultScore(Judgement(res[Main]), Top.group)
             line == At(Item, r)
             f == Absorb(Top, <<line>>, r)
  <2>1. /\ pc[Main] = "served"
        /\ stack' = Append(SubSeq(stack, 1, n - 1), f) /\ UNCHANGED judged
    BY <1>4 DEF TakeResult, Return, Front
  <2>2. stack # <<>> /\ (Item \in Tests => KeyOf[Item] \in Claimed)
    BY <2>1, KeyOfAssumption DEF AtTest, LookupInv, Claimed
  <2>3. line.node = Item
    BY DEF At
  <2> HIDE DEF line
  <2>4. IsSeq(<<line>>) /\ Found(<<line>>, Claimed)
    BY <2>2, <2>3, ShortSeqs DEF Found
  <2>5. f.all_results = Top.all_results \o <<line>>
    BY DEF Absorb
  <2>6. IsSeq(Top.all_results) /\ Found(Top.all_results, Claimed)
    BY <1>0, <1>1, <2>2
  <2> HIDE DEF f
  <2>7. Found(f.all_results, Claimed)
    BY <2>4, <2>5, <2>6, FoundConcat
  <2>8. n - 1 \in 0 .. n
    BY <1>1, <2>2
  <2> DEFINE m == n - 1
  <2>9. m \in 0 .. Len(stack) /\ stack' = Append(SubSeq(stack, 1, m), f)
    BY <2>1, <2>8
  <2> HIDE DEF m
  <2>. QED  BY <1>0, <2>1, <2>7, <2>9, FramesFound
<1>5. CASE LeaveGroup
  <2> DEFINE parent == stack[n - 1]
             list == Returned(Top)
             r == OwnResult(Top)
             m == n - 2
  <2>1. stack # <<>> /\ n > 1 /\ UNCHANGED judged
    BY <1>5 DEF LeaveGroup, Walking
  <2>2. m \in 0 .. Len(stack) /\ n - 1 \in DOMAIN stack
    BY <1>0, <2>1
  <2>3. IsSeq(list) /\ Found(list, Claimed)
    BY <1>0, <1>1, <2>1, ReturnedIsFound
  <2>4. IsSeq(parent.all_results) /\ Found(parent.all_results, Claimed)
    BY <1>0, <2>2
  <2>5. CASE Top.all_results = <<>>
    <3> DEFINE f == [parent EXCEPT !.todo = Tail(@)]
    <3>1. stack' = Append(SubSeq(stack, 1, m), f)
      BY <1>5, <2>5 DEF LeaveGroup
    <3>2. f.all_results = parent.all_results
      OBVIOUS
    <3> HIDE DEF f, m
    <3>. QED  BY <1>0, <2>1, <2>2, <2>4, <3>1, <3>2, FramesFound
  <2>6. CASE Top.all_results # <<>>
    <3> DEFINE f == Absorb(parent, list, r)
    <3>1. stack' = Append(SubSeq(stack, 1, m), f)
      BY <1>5, <2>6 DEF LeaveGroup
    <3>2. f.all_results = parent.all_results \o list
      BY DEF Absorb
    <3> HIDE DEF f, m, list, parent
    <3>3. Found(f.all_results, Claimed)
      BY <2>3, <2>4, <3>2, FoundConcat
    <3>. QED  BY <1>0, <2>1, <2>2, <3>1, <3>3, FramesFound
  <2>. QED  BY <2>5, <2>6
<1>6. CASE FinishJudge
  <2> DEFINE list == Returned(Top)
  <2>1. stack # <<>> /\ stack' = <<>> /\ judged' = Append(judged, list)
    BY <1>6 DEF FinishJudge, Walking
  <2>2. Found(list, Claimed)
    BY <1>0, <1>1, <2>1, ReturnedIsFound
  <2>3. IsSeq(judged) /\ \A i \in DOMAIN judged : Found(judged[i], Claimed)
    BY DEF WalkOK, FoundInv
  <2> HIDE DEF list
  <2>4. \A i \in DOMAIN judged' : Found(judged'[i], Claimed)
    <3>1. \A i \in DOMAIN judged' :
            judged'[i] = list \/ (i \in DOMAIN judged /\ judged'[i] = judged[i])
      <4>1. /\ DOMAIN judged = 1 .. Len(judged) /\ Len(judged) \in Nat
            /\ DOMAIN judged' = 1 .. Len(judged) + 1
            /\ \A i \in DOMAIN judged' :
                 judged'[i] = IF i = Len(judged) + 1 THEN list ELSE judged[i]
        BY <2>1, <2>3, AppendIsSeq
      <4>. QED  BY <4>1
    <3>. QED  BY <2>2, <2>3, <3>1
  <2>5. \A i \in DOMAIN judged' : Found(judged'[i], Claimed')
    BY <2>4, FoundStays
  <2>. QED  BY <2>1, <2>5, ShortSeqs DEF FoundInv
<1>7. CASE JudgeAgain
  <2>1. stack' = <<Frame(Root)>> /\ UNCHANGED judged
    BY <1>7 DEF JudgeAgain
  <2>2. DOMAIN stack' = {1} /\ stack'[1] = Frame(Root) /\ Frame(Root).all_results = <<>>
    BY <2>1, ShortSeqs DEF Frame
  <2>3. \A i \in DOMAIN judged : Found(judged[i], Claimed')
    BY FoundStays DEF FoundInv
  <2>. QED  BY <2>1, <2>2, <2>3, ShortSeqs DEF FoundInv, Found
<1>8. CASE ~ (TakeResult \/ EnterGroup \/ LeaveGroup \/ JudgeAgain \/ FinishJudge)
  <2>1. UNCHANGED <<stack, judged>>
    BY <1>8
       DEF JudgeNext, WorkerStep, StartJob, ClaimJob, RefusedJob, FinishJob, ResolveJob,
           MainStep, AskForTest, RunMissing, FinishMissing, RaiseInJudge, walkVars, judgeVars
  <2>. QED  BY <1>2, <2>1
<1>. QED  BY <1>3, <1>4, <1>5, <1>6, <1>7, <1>8

(* What a step of the store does to the main thread's look-up, if it does  *)
(* not begin one.                                                          *)
LEMMA LookupStoreStep ==
  ASSUME TypeOK, LookupInv, phase = 1 \/ phase \in 2 .. Len(Schedule),
         \A k \in Keys : store[k] # Absent => store'[k] # Absent,
         \/ \E t \in Threads, r \in Result :
              Complete(t, r) /\ (t = Main => pc[Main] = "running")
         \/ \E t \in Threads : Resolve(t)
         \/ \E w \in Workers, k \in Keys : Populate(w, k)
         \/ ClaimMissed(Main) \/ ClaimRefused(Main) \/ Subscribe(Main) \/ RunUncached(Main)
         \/ Return(Main) \/ Raise(Main) \/ NextJudge
         \/ UNCHANGED vars
  PROVE  LookupInv'
<1> USE DEF Goto
<1>0. /\ Main \in Consumers /\ Main \in Threads /\ Main \notin Workers
      /\ Workers \subseteq Threads
      /\ \A t \in Threads : t = Main \/ t \in Workers
  BY MainAssumption, ThreadsAssumption DEF Threads
<1>1. key[Main] \in Keys /\ \A t \in Threads : key[t] \in Keys
  BY <1>0 DEF TypeOK
<1>2. ASSUME NEW t \in Threads, NEW r \in Result, Complete(t, r)
      PROVE  LookupInv'
  <2>1. /\ pc[t] = "running" /\ UNCHANGED <<key, phase>>
        /\ store' = [store EXCEPT ![key[t]] = Entry(r, Limit(t))]
        /\ pc' = [pc EXCEPT ![t] = "resolving"]
    BY <1>2 DEF Complete
  <2>2. Limit(t) = Schedule[1]
    <3>1. CASE t \in Workers
      BY <3>1 DEF Limit
    <3>2. CASE t = Main
      <4>1. ~ (phase > 1)
        BY <2>1, <3>2 DEF LookupInv, LaterCallsRunNothing
      <4>2. phase = 1
        BY <4>1, ScheduleFacts
      <4>. QED  BY <1>0, <3>2, <4>2 DEF Limit
    <3>. QED  BY <1>0, <3>1, <3>2
  <2>3. /\ store'[key[t]] = Entry(r, Schedule[1])
        /\ \A k \in Keys : k # key[t] => store'[k] = store[k]
    BY <1>1, <2>1, <2>2 DEF TypeOK
  <2>4. \A k \in Keys : store'[k].state = "completed" => store'[k].run_timelim = Schedule[1]
    BY <2>3 DEF LookupInv, Entry
  <2>5. pc'[Main] = IF t = Main THEN "resolving" ELSE pc[Main]
    BY <1>0, <2>1 DEF TypeOK
  <2>6. LaterCallsRunNothing'
    BY <2>1, <2>5 DEF LookupInv, LaterCallsRunNothing
  <2>7. pc'[Main] \notin {"idle", "missed"} => store'[key'[Main]] # Absent
    <3>1. CASE t = Main
      BY <2>1, <2>3, <3>1 DEF Entry, Absent
    <3>2. CASE t # Main
      BY <1>1, <2>1, <2>5, <3>2 DEF LookupInv
    <3>. QED  BY <3>1, <3>2
  <2>. QED  BY <2>4, <2>6, <2>7 DEF LookupInv
<1>3. ASSUME NEW t \in Threads, Resolve(t)
      PROVE  LookupInv'
  <2>1. UNCHANGED <<store, key, phase>>
        /\ (pc'[Main] = pc[Main]
              \/ (pc'[Main] = "served" /\ pc[Main] \in {"waiting", "resolving"}))
    BY <1>0, <1>3 DEF Resolve, Woken
  <2>. QED  BY <2>1 DEF LookupInv, LaterCallsRunNothing
<1>4. ASSUME NEW t \in Threads, NEW k \in Keys, Claim(t, k), UNCHANGED phase,
             t = Main => k = key[Main] /\ pc[Main] = "missed"
      PROVE  LookupInv'
  <2>1. /\ store'[k] = InFlight
        /\ \A j \in Keys : j # k => store'[j] = store[j]
        /\ pc' = [pc EXCEPT ![t] = "running"]
        /\ key' = [key EXCEPT ![t] = k]
    BY <1>4 DEF Claim, TypeOK
  <2>2. \A j \in Keys : store'[j].state = "completed" => store'[j].run_timelim = Schedule[1]
    BY <2>1 DEF LookupInv, InFlight
  <2>3. CASE t = Main
    <3>1. key'[Main] = key[Main] /\ store'[key[Main]] # Absent
      BY <1>0, <1>4, <2>1, <2>3 DEF TypeOK, InFlight, Absent
    <3>2. ~ (phase > 1)
      BY <1>4, <2>3 DEF LookupInv, LaterCallsRunNothing
    <3>. QED  BY <1>4, <2>2, <3>1, <3>2 DEF LookupInv, LaterCallsRunNothing
  <2>4. CASE t # Main
    <3>1. key'[Main] = key[Main] /\ pc'[Main] = pc[Main]
      BY <1>0, <2>1, <2>4 DEF TypeOK
    <3>. QED  BY <1>1, <1>4, <2>2, <3>1 DEF LookupInv, LaterCallsRunNothing
  <2>. QED  BY <2>3, <2>4
<1>5. ASSUME NEW w \in Workers, NEW k \in Keys, Populate(w, k)
      PROVE  LookupInv'
  BY <1>0, <1>4, <1>5 DEF Populate
<1>6. CASE ClaimMissed(Main)
  BY <1>0, <1>1, <1>4, <1>6 DEF ClaimMissed
<1>7. CASE ClaimRefused(Main)
  <2>1. /\ pc[Main] = "missed" /\ store[key[Main]] # Absent /\ pc'[Main] = "uncached"
        /\ UNCHANGED <<store, key, phase>>
    BY <1>0, <1>7 DEF ClaimRefused, TypeOK
  <2>. QED  BY <2>1 DEF LookupInv, LaterCallsRunNothing
<1>8. CASE Subscribe(Main) \/ RunUncached(Main)
  <2>1. /\ pc[Main] \in {"subscribing", "uncached"} /\ pc'[Main] \in {"waiting", "served"}
        /\ UNCHANGED <<store, key, phase>>
    BY <1>0, <1>8 DEF Subscribe, RunUncached, TypeOK
  <2>. QED  BY <2>1 DEF LookupInv, LaterCallsRunNothing
<1>9. CASE Return(Main) \/ Raise(Main)
  <2>1. /\ pc'[Main] \in {"idle", "abandoned", "raised"}
        /\ pc[Main] \in {"served", "running", "uncached"}
        /\ UNCHANGED <<store, key, phase>>
    BY <1>0, <1>9 DEF Return, Raise, TypeOK
  <2>. QED  BY <2>1 DEF LookupInv, LaterCallsRunNothing
<1>10. CASE NextJudge
  BY <1>0, <1>10 DEF NextJudge, LookupInv, LaterCallsRunNothing
<1>11. CASE UNCHANGED vars
  BY <1>11 DEF vars, LookupInv, LaterCallsRunNothing
<1>. QED
  BY <1>2, <1>3, <1>5, <1>6, <1>7, <1>8, <1>9, <1>10, <1>11

(* A later call finds what it asks for.                                    *)
LEMMA LookupBegins ==
  ASSUME LargestLimitFirst, StrictGraders, TypeOK, WalkOK, WalkIs, LookupInv, FoundInv,
         FirstAnswered, AskForTest
  PROVE  LookupInv'
<1>0. Main \in Consumers /\ Main \in Threads /\ Main \notin Workers
  BY MainAssumption, ThreadsAssumption DEF Threads
<1> DEFINE k == KeyOf[Item]
<1>1. /\ stack # <<>> /\ Top.todo # <<>> /\ Item \in Tests
      /\ pc[Main] = "idle" /\ k \in Keys /\ Get(Main, k)
  BY KeyOfAssumption DEF AskForTest, AtItem, Walking
<1>2. ASSUME phase > 1
      PROVE  store[k] # Absent
  <2>1. Len(judged) = phase - 1 /\ phase \in Nat
    BY <1>1, ScheduleFacts DEF WalkIs, TypeOK
  <2>2. judged # <<>> /\ 1 \in DOMAIN judged
    <3>1. IsSeq(judged) /\ DOMAIN judged = 1 .. Len(judged)
      BY SeqIsSeq DEF WalkOK, IsSeq
    <3>2. Len(<<>>) = 0
      BY ShortSeqs
    <3>. QED  BY <1>2, <2>1, <3>1, <3>2
  <2>3. judged[1] = Answer(FirstRun) /\ Found(judged[1], Claimed)
    BY <2>2 DEF FirstAnswered, FoundInv
  <2>4. Item \in NodesOf(judged[1])
    BY <1>1, <2>3, ReachedBefore
  <2>. QED  BY <1>1, <2>3, <2>4 DEF NodesOf, Found, Claimed
<1> HIDE DEF k
<1>3. UNCHANGED <<store, phase>> /\ key'[Main] = k
  BY <1>0, <1>1 DEF Get, GetCompleted, GetInFlight, GetNone, TypeOK
<1>4. CASE GetCompleted(Main, k)
  <2>1. pc'[Main] = "served" /\ store[k].state = "completed"
    BY <1>0, <1>4 DEF GetCompleted, Reusable, Goto, TypeOK
  <2>2. store[k] # Absent
    BY <2>1 DEF Absent
  <2>. QED  BY <1>3, <2>1, <2>2 DEF LookupInv, LaterCallsRunNothing
<1>5. CASE GetInFlight(Main, k)
  <2>1. pc'[Main] = "subscribing" /\ store[k] # Absent
    BY <1>0, <1>5 DEF GetInFlight, Goto, TypeOK, InFlight, Absent
  <2>. QED  BY <1>3, <2>1 DEF LookupInv, LaterCallsRunNothing
<1>6. CASE GetNone(Main, k)
  <2>1. pc'[Main] = "missed" /\ store[k] # InFlight /\ ~ Reusable(k, Schedule[phase])
    BY <1>0, <1>6 DEF GetNone, Goto, TypeOK, Limit
  <2>2. ~ (phase > 1)
    <3>1. SUFFICES ASSUME phase > 1
                   PROVE  FALSE
      OBVIOUS
    <3>2. store[k].state = "completed"
      BY <1>1, <1>2, <2>1, <3>1 DEF TypeOK, StoreEntry
    <3>3. store[k].run_timelim = Schedule[1] /\ Schedule[phase] <= Schedule[1]
      BY <1>1, <3>2 DEF LookupInv, LargestLimitFirst, TypeOK
    <3>. QED  BY <2>1, <3>2, <3>3 DEF Reusable
  <2>. QED  BY <1>3, <2>1, <2>2 DEF LookupInv, LaterCallsRunNothing
<1>. QED  BY <1>1, <1>4, <1>5, <1>6 DEF Get

LEMMA LookupStep ==
  ASSUME LargestLimitFirst, StrictGraders, TypeOK, JobsOK, WalkOK, WalkIs, LookupInv,
         FoundInv, FirstAnswered, [JudgeNext]_judgeVars,
         \A k \in Keys : store[k] # Absent => store'[k] # Absent
  PROVE  LookupInv'
<1>0. Main \in Threads /\ Workers \subseteq Threads
  BY MainAssumption DEF Threads
<1>1. phase = 1 \/ phase \in 2 .. Len(Schedule)
  BY ScheduleFacts DEF TypeOK
<1>2. CASE AskForTest
  BY <1>2, LookupBegins
<1>3. ASSUME NEW t \in Threads, Finish(t)
      PROVE  \E u \in Threads, r \in Result :
               Complete(u, r) /\ (u = Main => pc[Main] = "running")
  BY <1>3, FinishCompletes DEF Completes, Complete
<1>4. ASSUME NEW w \in Workers, FinishWithError(w)
      PROVE  \E u \in Threads, r \in Result :
               Complete(u, r) /\ (u = Main => pc[Main] = "running")
  BY <1>0, <1>4, ErrorCompletes DEF Completes, Complete
<1>5. ASSUME NEW w \in Workers, ClaimJob(w)
      PROVE  \E u \in Workers, k \in Keys : Populate(u, k)
  <2>1. KeyOf[job[w]] \in Keys
    BY <1>5, KeyOfAssumption DEF ClaimJob, JobsOK
  <2>. QED  BY <1>5, <2>1 DEF ClaimJob
<1>6. CASE ~ AskForTest
  <2>1. \/ \E t \in Threads, r \in Result :
             Complete(t, r) /\ (t = Main => pc[Main] = "running")
        \/ \E t \in Threads : Resolve(t)
        \/ \E w \in Workers, k \in Keys : Populate(w, k)
        \/ ClaimMissed(Main) \/ ClaimRefused(Main) \/ Subscribe(Main) \/ RunUncached(Main)
        \/ Return(Main) \/ Raise(Main) \/ NextJudge
        \/ UNCHANGED vars
    BY <1>0, <1>3, <1>4, <1>5, <1>6
       DEF JudgeNext, WorkerStep, StartJob, RefusedJob, FinishJob, ResolveJob, MainStep,
           EnterGroup, RunMissing, FinishMissing, TakeResult, LeaveGroup, FinishJudge,
           JudgeAgain, RaiseInJudge, judgeVars
  <2>. QED  BY <1>1, <2>1, LookupStoreStep
<1>. QED  BY <1>2, <1>6

(* The first call's answer is there once it has been given.                *)
LEMMA FirstAnsweredStep ==
  ASSUME TypeOK, WalkOK, WalkIs, FirstAnswered, FinishJudge \/ UNCHANGED <<judged, beh>>
  PROVE  FirstAnswered'
<1>1. CASE UNCHANGED <<judged, beh>>
  <2>1. FirstRun' = FirstRun
    BY <1>1 DEF FirstRun, Runs
  <2>. QED  BY <1>1, <2>1 DEF FirstAnswered
<1>2. CASE FinishJudge
  <2>1. judged' = Append(judged, Answer(Run)) /\ Len(judged) = phase - 1
    BY <1>2, SequentialFinish
  <2>2. FirstRun' = FirstRun
    BY <1>2 DEF FinishJudge, vars, FirstRun, Runs
  <2>3. /\ DOMAIN judged = 1 .. Len(judged) /\ Len(judged) \in Nat
        /\ DOMAIN judged' = 1 .. Len(judged) + 1
        /\ \A i \in DOMAIN judged' :
             judged'[i] = IF i = Len(judged) + 1 THEN Answer(Run) ELSE judged[i]
    BY <2>1, AppendIsSeq DEF WalkOK
  <2>4. CASE judged = <<>>
    <3>1. Len(judged) = 0 /\ phase = 1
      <4>1. Len(judged) = 0
        BY <2>4, ShortSeqs
      <4>. QED  BY <2>1, <4>1, ScheduleFacts DEF TypeOK
    <3>2. judged'[1] = Answer(Run) /\ Run = FirstRun
      BY <2>3, <3>1 DEF Run, FirstRun
    <3>. QED  BY <2>2, <3>2 DEF FirstAnswered
  <2>5. CASE judged # <<>>
    <3>1. Len(judged) # 0
      BY <2>5, EmptySeq DEF WalkOK, IsSeq
    <3>2. judged'[1] = judged[1]
      BY <2>3, <3>1
    <3>. QED  BY <2>2, <2>5, <3>2 DEF FirstAnswered
  <2>. QED  BY <2>4, <2>5
<1>. QED  BY <1>1, <1>2

(* With strict graders, a later call of judge() starts no run, whatever    *)
(* the threads do: each test case it comes to was one the first call came  *)
(* to, so its result is in the store or on the way there, and was made at  *)
(* a limit large enough.                                                   *)
THEOREM LaterCallsOnlyLookUp ==
  Reliable /\ StrictGraders => (JudgeSafety => []LaterCallsRunNothing)
<1> SUFFICES ASSUME Reliable, StrictGraders
             PROVE  JudgeSafety => []LaterCallsRunNothing
  OBVIOUS
<1> DEFINE Invs == /\ TypeOK /\ JobsOK /\ ServedResultIsDirect /\ failed = {} /\ AtTest
                   /\ WalkOK
           Later == LookupInv /\ FoundInv /\ FirstAnswered
<1>0. LargestLimitFirst /\ ~ MayFail
  BY DEF Reliable
<1>1. JudgeInit => WalkIs /\ Later
  <2> SUFFICES ASSUME JudgeInit
               PROVE  WalkIs /\ Later
    OBVIOUS
  <2>1. /\ stack = <<Frame(Root)>> /\ judged = <<>> /\ phase = 1
        /\ pc[Main] = "idle" /\ \A k \in Keys : store[k] = Absent
    BY MainAssumption DEF JudgeInit, Init, Threads
  <2>2. DOMAIN stack = {1} /\ stack[1] = Frame(Root) /\ stack # <<>> /\ Len(stack) = 1
    BY <2>1, ShortSeqs
  <2>3. FrameIs(Frame(Root), Run) /\ Frame(Root).group = Root /\ Frame(Root).all_results = <<>>
    BY TreeAssumption, FreshFrameIs DEF Frame
  <2>4. Len(judged) = 0 /\ DOMAIN judged = {}
    BY <2>1, ShortSeqs
  <2>5. WalkIs
    BY <2>1, <2>2, <2>3, <2>4 DEF WalkIs
  <2>6. LookupInv
    BY <2>1 DEF LookupInv, LaterCallsRunNothing, Absent
  <2>7. FoundInv
    BY <2>2, <2>3, <2>4, ShortSeqs DEF FoundInv, Found
  <2>. QED  BY <2>1, <2>5, <2>6, <2>7 DEF FirstAnswered
<1>2. Invs /\ WalkIs /\ Later /\ [JudgeNext]_judgeVars => WalkIs' /\ Later'
  <2> SUFFICES ASSUME Invs, WalkIs, Later, [JudgeNext]_judgeVars
               PROVE  WalkIs' /\ Later'
    OBVIOUS
  <2>1. WalkIs' /\ (FinishJudge \/ UNCHANGED <<judged, beh>>)
    BY SequentialStep
  <2>2. \A k \in Keys : store[k] # Absent => store'[k] # Absent
    BY JudgeStepIsStoreStep, ClaimsStay
  <2>3. LookupInv'
    BY <1>0, <2>2, LookupStep
  <2>4. FoundInv'
    <3>1. Claimed \subseteq Claimed'
      BY <2>2 DEF Claimed
    <3>. QED  BY <3>1, FoundStep
  <2>5. FirstAnswered'
    BY <2>1, FirstAnsweredStep
  <2>. QED  BY <2>1, <2>3, <2>4, <2>5
<1>3. JudgeSafety => [](TypeOK /\ ServedResultIsDirect /\ failed = {})
  BY <1>0, JudgeFollowsStoreProtocol, TypeCorrect, CachedResultsAreDirect, NothingFails, PTL
<1>4. Later => LaterCallsRunNothing
  BY DEF LookupInv
<1>. QED
  BY <1>1, <1>2, <1>3, <1>4, JobsTyped, WalkIsAtTest, WalkIsOK, PTL DEF JudgeSafety
=============================================================================
