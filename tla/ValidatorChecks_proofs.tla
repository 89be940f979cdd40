----------------------- MODULE ValidatorChecks_proofs -----------------------
(***************************************************************************)
(* Theorems about Program.compile and about the validator checks, for any  *)
(* packages, programs, names and threads.  First what ProgramCompile keeps *)
(* whoever calls it; then that the checks and the executor's jobs use it   *)
(* as it says, so that this holds while they run; then what a call gives   *)
(* its caller, and with it what every thread has found when it has run n   *)
(* validators on an input (Progress).  The walk collects this, so that its *)
(* findings are those of one thread, and that the checks report nothing    *)
(* means that the package is in order.                                     *)
(***************************************************************************)
EXTENDS ValidatorChecks, SequenceTheorems, WellFoundedInduction, TLAPS

(* A workspace exists in the work directory, and is new when a program     *)
(* gets it; a result is about the workspace the program still has, and     *)
(* while there is a result nobody is compiling.                            *)
PathsExist == \A p \in Programs : path[p] # None => path[p] \in dirs

Compiling == {"looking", "naming", "renaming", "building"}

CompilerHoldsLock ==
  \A t \in Threads : pc[t] \in Compiling =>
    lock[prog[t]] = t /\ result[prog[t]] = None

ResultIsCurrent ==
  \A p \in Programs : result[p] # None => path[p] = result[p].path

AnswerIsResult ==
  \A t \in Threads :
    answer[t] \notin {None, Raised, NameTaken} => pc[t] = "idle" /\ answer[t] = result[prog[t]]

BuilderHasPath == \A t \in Threads : pc[t] = "building" => path[prog[t]] \in Directories

IInv ==
  /\ TypeOK
  /\ PathsExist
  /\ WorkspacesAreDisjoint
  /\ CompilerHoldsLock
  /\ ResultIsCurrent
  /\ AnswerIsResult
  /\ BuilderHasPath

(* Nothing has been compiled at first.                                     *)
LEMMA InitInvariant == Init => IInv
<1> SUFFICES ASSUME Init PROVE IInv
  OBVIOUS
<1>1. (CHOOSE p \in Programs : TRUE) \in Programs
  BY ProgramsAssumption
<1>2. TypeOK
  <2> USE DEF Init
  <2>1. lock \in [Programs -> Threads \union {Nobody}]
    OBVIOUS
  <2>2. /\ result \in [Programs -> CompileResults \union {None}]
        /\ path \in [Programs -> Directories \union {None}]
    OBVIOUS
  <2>3. prog \in [Threads -> Programs]
    BY <1>1
  <2>4. answer \in [Threads -> CompileResults \union {Raised, NameTaken, None}]
    OBVIOUS
  <2>5. calls \in 0 .. MaxCalls /\ attempts \in [Programs -> Nat]
    BY ProgramsAssumption
  <2>6. pc \in [Threads -> {"idle", "calling", "looking", "naming", "renaming", "building"}]
    OBVIOUS
  <2>. QED  BY <2>1, <2>2, <2>3, <2>4, <2>5, <2>6 DEF TypeOK
<1>. QED
  BY <1>2 DEF Init, IInv, PathsExist, WorkspacesAreDisjoint, CompilerHoldsLock,
              Compiling, ResultIsCurrent, AnswerIsResult, BuilderHasPath

(* A thread that starts a call, or compiling, changes nothing of the rest. *)
LEMMA OutsideSteps ==
  ASSUME IInv, NEW t \in Threads,
         \/ \E p \in Programs : Call(t, p)
         \/ UseResult(t) \/ StartCompile(t) \/ LookForName(t) \/ NameIsTaken(t)
  PROVE  IInv'
<1> USE ProgramsAssumption DEF IInv, TypeOK, Goto
<1>1. ASSUME NEW p \in Programs, Call(t, p) PROVE IInv'
  BY <1>1 DEF Call, PathsExist, WorkspacesAreDisjoint, CompilerHoldsLock, Compiling,
              ResultIsCurrent, AnswerIsResult, BuilderHasPath
<1>2. CASE UseResult(t)
  BY <1>2 DEF UseResult, PathsExist, WorkspacesAreDisjoint, CompilerHoldsLock, Compiling,
              ResultIsCurrent, AnswerIsResult, BuilderHasPath
<1>3. CASE StartCompile(t)
  BY <1>3 DEF StartCompile, PathsExist, WorkspacesAreDisjoint, CompilerHoldsLock, Compiling,
              ResultIsCurrent, AnswerIsResult, BuilderHasPath
<1>4. CASE LookForName(t)
  BY <1>4 DEF LookForName, PathsExist, WorkspacesAreDisjoint, CompilerHoldsLock, Compiling,
              ResultIsCurrent, AnswerIsResult, BuilderHasPath
<1>5. CASE NameIsTaken(t)
  BY <1>5 DEF NameIsTaken, Leave, PathsExist, WorkspacesAreDisjoint, CompilerHoldsLock,
              Compiling, ResultIsCurrent, AnswerIsResult, BuilderHasPath
<1>. QED  BY <1>1, <1>2, <1>3, <1>4, <1>5

(* The workspace a program gets is nobody's, and no result speaks of it.   *)
LEMMA WorkspaceStep ==
  ASSUME IInv, NEW t \in Threads, NEW d \in Directories, d \notin dirs,
         pc[t] \in Compiling, MakeWorkspace(t, d)
  PROVE  IInv'
<1> DEFINE p == prog[t]
<1>1. lock[p] = t /\ result[p] = None /\ p \in Programs
  BY DEF IInv, CompilerHoldsLock, TypeOK
<1>2. /\ path' = [path EXCEPT ![p] = d] /\ dirs' = dirs \union {d}
      /\ pc' = [pc EXCEPT ![t] = "building"]
      /\ UNCHANGED <<lock, result, prog, answer, calls, attempts>>
  BY DEF MakeWorkspace, Goto
<1>3. TypeOK'
  BY <1>1, <1>2 DEF IInv, TypeOK
<1>4. PathsExist' /\ WorkspacesAreDisjoint'
  BY <1>1, <1>2 DEF IInv, TypeOK, PathsExist, WorkspacesAreDisjoint
<1>5. CompilerHoldsLock' /\ BuilderHasPath'
  BY <1>1, <1>2 DEF IInv, TypeOK, CompilerHoldsLock, Compiling, BuilderHasPath
<1>6. ResultIsCurrent'
  BY <1>1, <1>2 DEF IInv, TypeOK, ResultIsCurrent
<1>7. AnswerIsResult'
  <2>1. answer[t] \in {None, Raised, NameTaken}
    BY DEF IInv, AnswerIsResult, Compiling
  <2>. QED  BY <1>2, <2>1 DEF IInv, TypeOK, AnswerIsResult
<1>. QED  BY <1>3, <1>4, <1>5, <1>6, <1>7 DEF IInv

(* The result goes to a program that has none.                             *)
LEMMA BuildStep ==
  ASSUME IInv, NEW t \in Threads, Build(t)
  PROVE  IInv'
<1> DEFINE p == prog[t]
           made == CompileResult(Fate[p] = "compiles", path[p])
<1>1. lock[p] = t /\ result[p] = None /\ p \in Programs /\ pc[t] = "building"
  BY DEF IInv, CompilerHoldsLock, TypeOK, Compiling, Build
<1>2. made \in CompileResults /\ made.path = path[p]
  BY <1>1 DEF CompileResult, CompileResults, IInv, BuilderHasPath
<1>3. /\ lock' = [lock EXCEPT ![p] = Nobody] /\ pc' = [pc EXCEPT ![t] = "idle"]
      /\ UNCHANGED <<path, dirs, prog, calls, attempts>>
  BY DEF Build, Leave, Goto
<1>4. \/ answer' = [answer EXCEPT ![t] = Raised] /\ result' = result
      \/ answer' = [answer EXCEPT ![t] = made] /\ result' = [result EXCEPT ![p] = made]
  BY DEF Build, Leave
<1> HIDE DEF made
<1>5. TypeOK'
  BY <1>1, <1>2, <1>3, <1>4 DEF IInv, TypeOK
<1>6. PathsExist' /\ WorkspacesAreDisjoint' /\ BuilderHasPath'
  BY <1>3 DEF IInv, TypeOK, PathsExist, WorkspacesAreDisjoint, BuilderHasPath
<1>7. CompilerHoldsLock'
  <2> SUFFICES ASSUME NEW u \in Threads, pc'[u] \in Compiling
               PROVE  lock'[prog'[u]] = u /\ result'[prog'[u]] = None
    BY DEF CompilerHoldsLock
  <2>1. u # t /\ pc[u] \in Compiling
    BY <1>3 DEF IInv, TypeOK, Compiling
  <2>2. lock[prog[u]] = u /\ result[prog[u]] = None /\ prog[u] # p
    BY <1>1, <2>1 DEF IInv, CompilerHoldsLock
  <2>. QED  BY <1>1, <1>3, <1>4, <2>2 DEF IInv, TypeOK
<1>8. ResultIsCurrent'
  BY <1>1, <1>2, <1>3, <1>4 DEF IInv, TypeOK, ResultIsCurrent
<1>9. AnswerIsResult'
  <2> SUFFICES ASSUME NEW u \in Threads, answer'[u] \notin {None, Raised, NameTaken}
               PROVE  pc'[u] = "idle" /\ answer'[u] = result'[prog'[u]]
    BY DEF AnswerIsResult
  <2>1. CASE u = t
    BY <1>1, <1>3, <1>4, <2>1 DEF IInv, TypeOK
  <2>2. CASE u # t
    <3>1. answer'[u] = answer[u] /\ pc'[u] = pc[u]
      BY <1>3, <1>4, <2>2 DEF IInv, TypeOK
    <3>2. pc[u] = "idle" /\ answer[u] = result[prog[u]]
      BY <3>1 DEF IInv, AnswerIsResult
    <3>3. prog[u] # p
      BY <1>1, <3>1, <3>2
    <3>. QED  BY <1>1, <1>3, <1>4, <3>1, <3>2, <3>3 DEF IInv, TypeOK
  <2>. QED  BY <2>1, <2>2
<1>. QED  BY <1>5, <1>6, <1>7, <1>8, <1>9 DEF IInv

(* The steps of all threads together.                                      *)
LEMMA StepInvariant == IInv /\ [Next]_vars => IInv'
<1> SUFFICES ASSUME IInv, [Next]_vars PROVE IInv'
  OBVIOUS
<1>1. ASSUME NEW t \in Threads, MakeNamed(t) PROVE IInv'
  <2>1. NameOf[prog[t]] \in Directories
    BY ProgramsAssumption DEF IInv, TypeOK, Directories
  <2>. QED  BY <1>1, <2>1, WorkspaceStep DEF MakeNamed, Compiling
<1>2. ASSUME NEW t \in Threads, MakeTemporary(t) PROVE IInv'
  BY <1>2, WorkspaceStep DEF MakeTemporary, Compiling, Directories
<1>3. CASE UNCHANGED vars
  BY <1>3 DEF vars, IInv, TypeOK, PathsExist, WorkspacesAreDisjoint, CompilerHoldsLock,
              ResultIsCurrent, AnswerIsResult, BuilderHasPath
<1>. QED  BY <1>1, <1>2, <1>3, OutsideSteps, BuildStep DEF Next, Continue

(* So the invariant holds throughout.                                      *)
LEMMA InvariantHolds == Safety => []IInv
BY InitInvariant, StepInvariant, PTL DEF Safety

(* Programs that share a name never share a workspace.                     *)
THEOREM ProgramsAreKeptApart == Safety => []WorkspacesAreDisjoint
<1>1. IInv => WorkspacesAreDisjoint
  BY DEF IInv
<1>. QED  BY <1>1, InvariantHolds, PTL

(* The path a caller of compile was given is the program's path from then  *)
(* on, whoever else calls compile.                                         *)
THEOREM GivenPathsAreFinal == Safety => []PathsStayValid
<1>1. IInv => PathsStayValid
  <2> SUFFICES ASSUME IInv, NEW t \in Threads, answer[t] \notin {None, Raised, NameTaken}
               PROVE  path[prog[t]] = answer[t].path
    BY DEF PathsStayValid
  <2>. QED  BY DEF IInv, TypeOK, AnswerIsResult, ResultIsCurrent
<1>. QED  BY <1>1, InvariantHolds, PTL

-----------------------------------------------------------------------------
(* A set of naturals that is not empty has a least element, and Min is it. *)
LEMMA MinIsLeast ==
  ASSUME NEW S \in SUBSET Nat, S # {}
  PROVE  Min(S) \in S /\ \A x \in S : Min(S) <= x
<1>1. PICK m \in S : \A y \in S : ~ (<<y, m>> \in OpToRel(<, Nat))
  BY NatLessThanWellFounded, WFMin
<1>2. \A y \in S : ~ (y < m)
  BY <1>1 DEF OpToRel
<1>3. \A y \in S : m <= y
  BY <1>2
<1>. QED  BY <1>3 DEF Min

(* Induction over the numbers up to N, for a set of them.                  *)
LEMMA UptoInduction ==
  ASSUME NEW N \in Nat, NEW S, 0 \in S, \A n \in 0 .. N - 1 : n \in S => n + 1 \in S
  PROVE  \A n \in 0 .. N : n \in S
<1> DEFINE out == {n \in 0 .. N : n \notin S}
<1>1. ASSUME out # {}
      PROVE  FALSE
  <2>1. out \in SUBSET Nat
    OBVIOUS
  <2>2. Min(out) \in out /\ \A x \in out : Min(out) <= x
    BY <1>1, <2>1, MinIsLeast
  <2>3. PICK m \in 0 .. N : m \notin S /\ \A x \in out : m <= x
    BY <2>2
  <2>4. m # 0 /\ m - 1 \in 0 .. N - 1 /\ (m - 1) + 1 = m
    BY <2>3
  <2>5. m - 1 \in S
    BY <2>3, <2>4
  <2>. QED  BY <2>3, <2>4, <2>5
<1>. QED  BY <1>1

(* The elements of a list, one at a time.                                  *)
LEMMA ElementsAreIn ==
  ASSUME NEW S, NEW list \in Seq(S)
  PROVE  /\ list \in Seq(ToSet(list))
         /\ ToSet(list) \subseteq S
         /\ DOMAIN list = 1 .. Len(list) /\ Len(list) \in Nat
         /\ \A i \in 1 .. Len(list) : list[i] \in ToSet(list)
<1>1. list \in Seq(Range(list)) /\ DOMAIN list = 1 .. Len(list) /\ Len(list) \in Nat
  BY SeqOfRange, LenProperties
<1>2. Range(list) = ToSet(list)
  BY DEF Range, ToSet
<1>3. \A i \in 1 .. Len(list) : list[i] \in S
  OBVIOUS
<1>. QED  BY <1>1, <1>2, <1>3 DEF ToSet

(* The first elements of a list.                                           *)
LEMMA StartIsSeq ==
  ASSUME NEW S, NEW list \in Seq(S), NEW n \in 0 .. Len(list)
  PROVE  SubSeq(list, 1, n) \in Seq(S)
<1>1. \A i \in 1 .. n : list[i] \in S
  OBVIOUS
<1>. QED  BY <1>1, SubSeqProperties

-----------------------------------------------------------------------------
(* kept[n] is what Among keeps of the first n elements of a list.          *)
Keeps(kept, list, set) ==
  kept = [n \in 0 .. Len(list) |->
            IF n = 0 THEN <<>>
            ELSE IF list[n] \in set THEN Append(kept[n - 1], list[n]) ELSE kept[n - 1]]

(* Its steps, from the definition.                                         *)
LEMMA KeptSteps ==
  ASSUME NEW S, NEW list \in Seq(S), NEW set, NEW kept, Keeps(kept, list, set)
  PROVE  /\ kept[0] = <<>>
         /\ \A n \in 0 .. Len(list) - 1 :
              kept[n + 1] = IF list[n + 1] \in set THEN Append(kept[n], list[n + 1]) ELSE kept[n]
<1>1. Len(list) \in Nat
  OBVIOUS
<1>2. \A n \in 0 .. Len(list) :
        kept[n] = IF n = 0 THEN <<>>
                  ELSE IF list[n] \in set THEN Append(kept[n - 1], list[n]) ELSE kept[n - 1]
  BY DEF Keeps
<1>3. ASSUME NEW n \in 0 .. Len(list) - 1
      PROVE  n + 1 \in 0 .. Len(list) /\ n + 1 # 0 /\ (n + 1) - 1 = n
  BY <1>1
<1>4. \A n \in 0 .. Len(list) - 1 :
        kept[n + 1] = IF list[n + 1] \in set THEN Append(kept[n], list[n + 1]) ELSE kept[n]
  BY <1>2, <1>3
<1>. QED  BY <1>1, <1>2, <1>4

(* It consists of elements of the list that are in the set.                *)
LEMMA KeptTyped ==
  ASSUME NEW S, NEW list \in Seq(S), NEW set, NEW kept, Keeps(kept, list, set)
  PROVE  \A n \in 0 .. Len(list) : kept[n] \in Seq(S \intersect set)
<1> DEFINE T == S \intersect set
           good == {n \in 0 .. Len(list) : kept[n] \in Seq(T)}
<1>1. Len(list) \in Nat
  OBVIOUS
<1>2. 0 \in good
  <2>1. kept[0] = <<>> /\ 0 \in 0 .. Len(list)
    BY <1>1, KeptSteps
  <2>2. <<>> \in Seq(T)
    BY EmptySeq
  <2>3. kept[0] \in Seq(T)
    BY <2>1, <2>2
  <2>. QED  BY <2>1, <2>3
<1>3. ASSUME NEW n \in 0 .. Len(list) - 1, n \in good
      PROVE  n + 1 \in good
  <2>1. n + 1 \in 1 .. Len(list)
    BY <1>1
  <2>2. list[n + 1] \in S
    BY <2>1
  <2>3. kept[n + 1] = IF list[n + 1] \in set THEN Append(kept[n], list[n + 1]) ELSE kept[n]
    BY KeptSteps
  <2>4. kept[n] \in Seq(T) /\ (list[n + 1] \in set => list[n + 1] \in T)
    BY <1>3, <2>2
  <2> HIDE DEF T
  <2>5. kept[n + 1] \in Seq(T)
    BY <2>3, <2>4
  <2>. QED  BY <2>1, <2>5
<1> HIDE DEF good
<1>4. \A n \in 0 .. Len(list) : n \in good
  BY <1>1, <1>2, <1>3, UptoInduction
<1>. QED  BY <1>4 DEF good

(* There is nothing else like it.                                          *)
LEMMA KeptAgree ==
  ASSUME NEW S, NEW list \in Seq(S), NEW set,
         NEW kept, Keeps(kept, list, set), NEW held, Keeps(held, list, set)
  PROVE  \A n \in 0 .. Len(list) : kept[n] = held[n]
<1> DEFINE good == {n \in 0 .. Len(list) : kept[n] = held[n]}
<1>1. Len(list) \in Nat
  OBVIOUS
<1>2. 0 \in good
  BY <1>1, KeptSteps
<1>3. ASSUME NEW n \in 0 .. Len(list) - 1, n \in good
      PROVE  n + 1 \in good
  <2>1. kept[n + 1] = IF list[n + 1] \in set THEN Append(kept[n], list[n + 1]) ELSE kept[n]
    BY KeptSteps
  <2>2. held[n + 1] = IF list[n + 1] \in set THEN Append(held[n], list[n + 1]) ELSE held[n]
    BY KeptSteps
  <2>. QED  BY <1>1, <1>3, <2>1, <2>2
<1> HIDE DEF good
<1>4. \A n \in 0 .. Len(list) : n \in good
  BY <1>1, <1>2, <1>3, UptoInduction
<1>. QED  BY <1>4 DEF good

(* What is kept stays.                                                     *)
LEMMA KeptGrows ==
  ASSUME NEW S, NEW list \in Seq(S), NEW set, NEW kept, Keeps(kept, list, set),
         NEW i \in 1 .. Len(list), list[i] \in set
  PROVE  kept[Len(list)] # <<>>
<1> DEFINE good == {n \in 0 .. Len(list) : i <= n => kept[n] # <<>>}
<1>1. Len(list) \in Nat
  OBVIOUS
<1>2. 0 \in good
  BY <1>1
<1>3. ASSUME NEW n \in 0 .. Len(list) - 1, n \in good
      PROVE  n + 1 \in good
  <2>1. kept[n + 1] = IF list[n + 1] \in set THEN Append(kept[n], list[n + 1]) ELSE kept[n]
    BY KeptSteps
  <2>2. kept[n] \in Seq(S \intersect set) /\ n + 1 \in 0 .. Len(list)
    <3>1. n \in 0 .. Len(list) /\ n + 1 \in 0 .. Len(list)
      BY <1>1
    <3>. QED  BY <3>1, KeptTyped
  <2>3. list[n + 1] \in set => kept[n + 1] # <<>>
    <3>1. list[n + 1] \in set => list[n + 1] \in S \intersect set
      BY <1>1
    <3> DEFINE T == S \intersect set
    <3> HIDE DEF T
    <3>2. \A s \in Seq(T) : \A e \in T : Append(s, e) # <<>>
      BY AppendProperties
    <3>. QED  BY <2>1, <2>2, <3>1, <3>2 DEF T
  <2>4. i <= n \/ i = n + 1 \/ ~ (i <= n + 1)
    BY <1>1
  <2>. QED  BY <1>3, <2>1, <2>2, <2>3, <2>4
<1> HIDE DEF good
<1>4. \A n \in 0 .. Len(list) : n \in good
  BY <1>1, <1>2, <1>3, UptoInduction
<1>. QED  BY <1>1, <1>4 DEF good

(* There is such a sequence.                                               *)
LEMMA KeptExists ==
  ASSUME NEW S, NEW list \in Seq(S), NEW set
  PROVE  \E kept : Keeps(kept, list, set)
<1> DEFINE N == Len(list)
           NextKept(k, n) == IF list[n] \in set THEN Append(k[n - 1], list[n]) ELSE k[n - 1]
           Upto(k, m) == k = [n \in 0 .. m |-> IF n = 0 THEN <<>> ELSE NextKept(k, n)]
           good == {m \in 0 .. N : \E k : Upto(k, m)}
<1>1. N \in Nat
  OBVIOUS
<1>2. 0 \in good
  <2> DEFINE k == [n \in 0 .. 0 |-> <<>>]
  <2>1. k = [n \in 0 .. 0 |-> IF n = 0 THEN <<>> ELSE NextKept(k, n)]
    OBVIOUS
  <2>2. \E j : Upto(j, 0)
    BY <2>1
  <2> HIDE DEF Upto
  <2>. QED  BY <1>1, <2>2
<1>3. ASSUME NEW m \in 0 .. N - 1, m \in good
      PROVE  m + 1 \in good
  <2>1. PICK j : Upto(j, m)
    BY <1>3
  <2> DEFINE k == [n \in 0 .. m + 1 |-> IF n <= m THEN j[n] ELSE NextKept(j, m + 1)]
  <2>2. \A n \in 0 .. m : k[n] = j[n]
    OBVIOUS
  <2>3. k[m + 1] = NextKept(j, m + 1)
    OBVIOUS
  <2>4. \A n \in 0 .. m : j[n] = IF n = 0 THEN <<>> ELSE NextKept(j, n)
    BY <2>1
  <2>5. \A n \in 1 .. m + 1 : NextKept(k, n) = NextKept(j, n)
    BY <2>2
  <2>6. k = [n \in 0 .. m + 1 |-> k[n]]
    OBVIOUS
  <2> HIDE DEF k, NextKept
  <2>7. \A n \in 0 .. m + 1 : k[n] = IF n = 0 THEN <<>> ELSE NextKept(k, n)
    BY <2>2, <2>3, <2>4, <2>5
  <2>8. Upto(k, m + 1)
    BY <2>6, <2>7
  <2>. QED  BY <1>1, <2>8
<1>4. N \in good
  <2> HIDE DEF good, N
  <2>1. \A n \in 0 .. N : n \in good
    BY <1>1, <1>2, <1>3, UptoInduction
  <2>. QED  BY <1>1, <2>1
<1>. QED  BY <1>4 DEF Keeps

(* Among keeps the elements that are in the set.                           *)
LEMMA AmongKeeps ==
  ASSUME NEW S, NEW list \in Seq(S), NEW set
  PROVE  \E kept : Keeps(kept, list, set) /\ Among(list, set) = kept[Len(list)]
<1> DEFINE k == CHOOSE kept : Keeps(kept, list, set)
<1>1. Keeps(k, list, set)
  BY KeptExists
<1>2. Among(list, set) = k[Len(list)]
  BY DEF Among, Keeps
<1> HIDE DEF k
<1>. QED  BY <1>1, <1>2

(* What is in both the list and the set, as a list.                        *)
LEMMA AmongIsSeq ==
  ASSUME NEW S, NEW list \in Seq(S), NEW set
  PROVE  Among(list, set) \in Seq(S \intersect set)
<1>1. Len(list) \in 0 .. Len(list)
  OBVIOUS
<1>2. PICK kept : Keeps(kept, list, set) /\ Among(list, set) = kept[Len(list)]
  BY AmongKeeps
<1>. QED  BY <1>1, <1>2, KeptTyped

(* The test cases of the walk are test cases that the filter selects.      *)
LEMMA TestsAreTests ==
  /\ Tests \in Seq(Matching)
  /\ ToSet(Tests) \subseteq ToSet(AllTests) \intersect Matching
  /\ \A i \in 1 .. Len(Tests) : Tests[i] \in ToSet(Tests)
<1>1. AllTests \in Seq(ToSet(AllTests))
  BY ListsAssumption, ElementsAreIn
<1>2. Tests \in Seq(ToSet(AllTests) \intersect Matching)
  BY <1>1, AmongIsSeq DEF Tests
<1>3. Tests \in Seq(Matching)
  BY <1>2
<1>. QED  BY <1>2, <1>3, ElementsAreIn

-----------------------------------------------------------------------------
(* The jobs queued and taken to compile something are about programs of    *)
(* the package, those to validate something about selected test cases.     *)
Jobs == [kind : {"compile"}, what : InvolvedPrograms] \union [kind : {"validate"}, what : Matching]

TaskErrors == Seq(Programs \union {Internal})
Tasks == [job : Jobs \union {None}, at : Nat \ {0}, called : BOOLEAN, errors : TaskErrors]

TasksOK == task \in [Threads -> Tasks]

(* There is an output validator wherever one is compiled by the main       *)
(* thread.                                                                 *)
MainOK == /\ at \in Nat \ {0}
          /\ stage \in {"compiling", "walk", "answers"} => Selected # None

JobsOK == problem \in Problems /\ queue \in Seq(Jobs) /\ TasksOK /\ MainOK

(* Every program of the package is a program.                              *)
LEMMA InvolvedArePrograms ==
  ASSUME problem \in Problems
  PROVE  /\ InvolvedPrograms \subseteq Programs
         /\ problem.validators \in Seq(Programs) /\ problem.output \in Seq(Programs)
         /\ problem.validators \in Seq(InvolvedPrograms)
         /\ problem.output \in Seq(InvolvedPrograms)
         /\ Submissions \in Seq(InvolvedPrograms)
<1>1. problem.validators \in Seq(Programs) /\ problem.output \in Seq(Programs)
  BY ChecksAssumption
<1>2. InvolvedPrograms \subseteq Programs
  BY <1>1, ListsAssumption, ElementsAreIn DEF InvolvedPrograms
<1>3. /\ problem.validators \in Seq(ToSet(problem.validators))
      /\ problem.output \in Seq(ToSet(problem.output))
      /\ Submissions \in Seq(ToSet(Submissions))
  BY <1>1, ListsAssumption, ElementsAreIn
<1>4. /\ ToSet(problem.validators) \subseteq InvolvedPrograms
      /\ ToSet(problem.output) \subseteq InvolvedPrograms
      /\ ToSet(Submissions) \subseteq InvolvedPrograms
  BY DEF InvolvedPrograms
<1>5. /\ problem.validators \in Seq(InvolvedPrograms)
      /\ problem.output \in Seq(InvolvedPrograms)
      /\ Submissions \in Seq(InvolvedPrograms)
  BY <1>3, <1>4, SeqMonotonic
<1>. QED  BY <1>1, <1>2, <1>5

(* What is selected to be the output validator is a program of the package *)
(* or the default one, and the jobs queued at the start are programs.      *)
LEMMA CompilesAreInvolved ==
  ASSUME problem \in Problems
  PROVE  /\ Selected \in InvolvedPrograms \union {Default, None}
         /\ BackgroundCompiles \in Seq(InvolvedPrograms)
<1>1. /\ problem.validators \in Seq(InvolvedPrograms)
      /\ problem.output \in Seq(InvolvedPrograms)
      /\ Submissions \in Seq(InvolvedPrograms)
  BY InvolvedArePrograms
<1>2. Selected \in InvolvedPrograms \union {Default, None}
  <2>1. problem.output # <<>> => problem.output[1] \in InvolvedPrograms
    BY <1>1
  <2>. QED  BY <2>1 DEF Selected
<1>. DEFINE output == IF Selected \in Programs THEN <<Selected>> ELSE <<>>
<1>3. output \in Seq(InvolvedPrograms)
  <2>1. Selected \in Programs => Selected \in InvolvedPrograms
    BY <1>2, ChecksAssumption
  <2>2. Selected \in InvolvedPrograms => <<Selected>> \in Seq(InvolvedPrograms)
    OBVIOUS
  <2>3. <<>> \in Seq(InvolvedPrograms)
    OBVIOUS
  <2>. QED  BY <2>1, <2>2, <2>3
<1>. HIDE DEF output
<1>5. /\ problem.validators \o output \in Seq(InvolvedPrograms)
      /\ output \o Submissions \in Seq(InvolvedPrograms)
  BY <1>1, <1>3
<1>6. /\ (IF Active("validators") THEN problem.validators \o output ELSE <<>>)
           \in Seq(InvolvedPrograms)
      /\ (IF Active("submissions") /\ Selected # None THEN output \o Submissions ELSE <<>>)
           \in Seq(InvolvedPrograms)
  BY <1>5
<1>7. BackgroundCompiles =
        (IF Active("validators") THEN problem.validators \o output ELSE <<>>)
          \o (IF Active("submissions") /\ Selected # None THEN output \o Submissions ELSE <<>>)
  BY DEF BackgroundCompiles, output
<1>8. BackgroundCompiles \in Seq(InvolvedPrograms)
  BY <1>6, <1>7
<1>. QED  BY <1>2, <1>8

(* The main thread and the workers are the threads.                        *)
LEMMA MainIsThread == Main \in Threads /\ Workers \subseteq Threads
BY ChecksAssumption DEF Workers

(* What is checked stays, and the main thread's position is a position.    *)
LEMMA MainStaysTyped ==
  ASSUME JobsOK, [ChecksNext]_allVars
  PROVE  problem' = problem /\ MainOK'
<1> USE DEF JobsOK, MainOK
<1>0. problem' = problem => Selected' = Selected
  BY DEF Selected, UsesDefault
<1>1. CASE Start \/ TestInputValidators \/ TestOutputValidator
  <2>1. problem' = problem /\ at' \in {at, 1}
    BY <1>1 DEF Start, TestInputValidators, TestOutputValidator
  <2>2. stage' \notin {"compiling", "walk", "answers"}
    BY <1>1 DEF Start, TestInputValidators, TestOutputValidator, AfterValidators
  <2>. QED  BY <2>1, <2>2
<1>2. CASE CallInputValidator \/ NoteInputValidator \/ CheckOutputValidator
             \/ CallOutputValidator \/ OutputValidatorFails
  BY <1>0, <1>2 DEF CallInputValidator, NoteInputValidator, CheckOutputValidator,
              CallOutputValidator, OutputValidatorFails
<1>3. CASE Precompute \/ StartWalk \/ NoOutputValidator \/ TakeFuture
  <2>1. problem' = problem /\ at' \in {at, 1, at + 1}
    BY <1>3 DEF Precompute, StartWalk, NoOutputValidator, TakeFuture
  <2>2. Selected # None \/ stage' = "stopped"
    BY <1>3 DEF Precompute, StartWalk, NoOutputValidator, TakeFuture
  <2>. QED  BY <1>0, <2>1, <2>2
<1>4. CASE CheckDirectly \/ FinishDirectly \/ FinishWalk \/ CheckAnswers
  BY <1>4 DEF CheckDirectly, FinishDirectly, FinishWalk, CheckAnswers, Selected, UsesDefault
<1>5. ASSUME UNCHANGED <<problem, stage, at>>
      PROVE  problem' = problem /\ MainOK'
  BY <1>5 DEF Selected, UsesDefault
<1>6. ASSUME NEW w \in Threads, WorkerStep(w) \/ CallValidator(w) \/ RunValidator(w)
      PROVE  UNCHANGED <<problem, stage, at>>
  BY <1>6 DEF WorkerStep, TakeJob, CompileJob, FinishCompileJob, CallValidator, RunValidator,
              FinishJob, CompileStep, checkVars
<1>7. CASE MainStep
  BY <1>1, <1>2, <1>3, <1>4, <1>5, <1>6, <1>7, MainIsThread
     DEF MainStep, CompileStep, checkVars
<1>8. CASE \E w \in Workers : WorkerStep(w)
  BY <1>5, <1>6, <1>8, MainIsThread
<1>9. CASE UNCHANGED allVars
  BY <1>5, <1>9 DEF allVars, checkVars
<1>. QED  BY <1>7, <1>8, <1>9 DEF ChecksNext

(* The jobs that are queued are jobs.                                      *)
LEMMA JobsAreJobs ==
  /\ \A p \in InvolvedPrograms : Job("compile", p) \in Jobs
  /\ \A t \in Matching : Job("validate", t) \in Jobs
BY DEF Job, Jobs

(* The queue holds jobs.                                                   *)
LEMMA QueueStaysTyped ==
  ASSUME JobsOK, [ChecksNext]_allVars
  PROVE  queue' \in Seq(Jobs)
<1> USE DEF JobsOK
<1>1. CASE Start
  <2>1. BackgroundCompiles \in Seq(InvolvedPrograms)
    BY CompilesAreInvolved
  <2>. DEFINE jobs == [i \in DOMAIN BackgroundCompiles |-> Job("compile", BackgroundCompiles[i])]
  <2>2. jobs \in Seq(Jobs)
    BY <2>1, JobsAreJobs
  <2>3. queue' \in {jobs, <<>>}
    BY <1>1 DEF Start
  <2>. HIDE DEF jobs
  <2>4. <<>> \in Seq(Jobs)
    OBVIOUS
  <2>. QED  BY <2>2, <2>3, <2>4
<1>2. CASE Precompute
  <2>. DEFINE jobs == [i \in DOMAIN Tests |-> Job("validate", Tests[i])]
  <2>1. jobs \in Seq(Jobs)
    BY TestsAreTests, JobsAreJobs
  <2>2. queue' = queue \o jobs
    BY <1>2 DEF Precompute
  <2>. QED  BY <2>1, <2>2
<1>3. ASSUME NEW w \in Threads, TakeJob(w)
      PROVE  queue' \in Seq(Jobs)
  BY <1>3 DEF TakeJob
<1>4. ASSUME queue' = queue
      PROVE  queue' \in Seq(Jobs)
  BY <1>4
<1>5. ASSUME NEW w \in Threads, WorkerStep(w) \/ CallValidator(w) \/ RunValidator(w)
      PROVE  queue' = queue \/ TakeJob(w)
  BY <1>5 DEF WorkerStep, CompileJob, FinishCompileJob, CallValidator, RunValidator,
              FinishJob, CompileStep, checkVars
<1>6. CASE MainStep
  <2>1. CASE CallInputValidator \/ NoteInputValidator \/ TestInputValidators
               \/ CheckOutputValidator \/ CallOutputValidator \/ TestOutputValidator
               \/ OutputValidatorFails
    BY <2>1 DEF CallInputValidator, NoteInputValidator, TestInputValidators,
         CheckOutputValidator, CallOutputValidator, TestOutputValidator, OutputValidatorFails
  <2>2. CASE StartWalk \/ NoOutputValidator \/ TakeFuture \/ CheckDirectly \/ FinishDirectly
               \/ FinishWalk \/ CheckAnswers \/ CompileStep(Main)
    BY <2>2 DEF StartWalk, NoOutputValidator, TakeFuture, CheckDirectly, FinishDirectly,
         FinishWalk, CheckAnswers, CompileStep, checkVars
  <2>3. CASE CallValidator(Main) \/ RunValidator(Main)
    BY <1>3, <1>4, <1>5, <2>3, MainIsThread
  <2>. QED  BY <1>1, <1>2, <1>6, <2>1, <2>2, <2>3 DEF MainStep
<1>7. CASE \E w \in Workers : WorkerStep(w)
  BY <1>3, <1>4, <1>5, <1>7, MainIsThread
<1>8. CASE UNCHANGED allVars
  BY <1>8 DEF allVars, checkVars
<1>. QED  BY <1>6, <1>7, <1>8 DEF ChecksNext

(* A thread's task is replaced by a task, or left alone.                   *)
LEMMA TaskReplaced ==
  ASSUME TasksOK, NEW t \in Threads, NEW x \in Tasks, task' = [task EXCEPT ![t] = x]
  PROVE  task' \in [Threads -> Tasks]
BY DEF TasksOK

(* A list of at most one error is a list of errors.                        *)
LEMMA OneError ==
  <<>> \in TaskErrors /\ \A e \in Programs \union {Internal} : <<e>> \in TaskErrors
BY DEF TaskErrors

(* A thread without a job has a task.                                      *)
LEMMA IdleIsTask == Idle \in Tasks
BY OneError DEF Tasks, Idle

(* Every thread keeps having a task.                                       *)
LEMMA TasksStayTyped ==
  ASSUME JobsOK, [ChecksNext]_allVars
  PROVE  task' \in [Threads -> Tasks]
<1> USE DEF JobsOK
<1>1. ASSUME NEW t \in Threads, NEW p, CallCompile(t, p)
      PROVE  task' \in [Threads -> Tasks]
  <2>. DEFINE x == [task[t] EXCEPT !.called = TRUE]
  <2>1. x \in Tasks
    BY <1>1 DEF TasksOK, Tasks
  <2>. QED  BY <1>1, <2>1, TaskReplaced DEF CallCompile
<1>2. ASSUME NEW t \in Threads, task' = [task EXCEPT ![t] = Idle]
      PROVE  task' \in [Threads -> Tasks]
  BY <1>2, IdleIsTask, TaskReplaced
<1>3. ASSUME NEW t \in Threads, NEW j \in Jobs, task' = [task EXCEPT ![t].job = j]
      PROVE  task' \in [Threads -> Tasks]
  <2>. DEFINE x == [task[t] EXCEPT !.job = j]
  <2>1. x \in Tasks
    BY <1>3 DEF TasksOK, Tasks
  <2>. QED  BY <1>3, <2>1, TaskReplaced
<1>4. ASSUME NEW t \in Threads, RunValidator(t)
      PROVE  task' \in [Threads -> Tasks]
  <2>. DEFINE v == problem.validators[task[t].at]
              next == IF Threw(t) THEN Len(problem.validators) + 1 ELSE task[t].at + 1
              errors == IF Threw(t) THEN <<Internal>> ELSE task[t].errors \o Outcome(t)
              x == [job |-> task[t].job, called |-> FALSE, at |-> next, errors |-> errors]
  <2>1. /\ problem.validators \in Seq(Programs)
        /\ task[t].at \in 1 .. Len(problem.validators)
        /\ task[t].errors \in TaskErrors
    BY <1>4, ChecksAssumption DEF RunValidator, Exhausted, TasksOK, Tasks
  <2>2. next \in Nat \ {0}
    BY <2>1
  <2>3. Outcome(t) \in TaskErrors
    <3>1. <<v>> \in TaskErrors /\ <<>> \in TaskErrors
      BY <2>1, OneError
    <3>2. Outcome(t) = <<v>> \/ Outcome(t) = <<>>
      BY DEF Outcome
    <3>. QED  BY <3>1, <3>2
  <2>4. errors \in TaskErrors
    <3>1. task[t].errors \o Outcome(t) \in TaskErrors
      BY <2>1, <2>3 DEF TaskErrors
    <3>. QED  BY <3>1, OneError
  <2>5. task' = [task EXCEPT ![t] = x]
    BY <1>4 DEF RunValidator
  <2>. HIDE DEF next, errors
  <2>6. x \in Tasks
    BY <1>4, <2>2, <2>4 DEF TasksOK, Tasks
  <2>. QED  BY <2>5, <2>6, TaskReplaced
<1>5. ASSUME task' = task
      PROVE  task' \in [Threads -> Tasks]
  BY <1>5 DEF TasksOK
<1>6. ASSUME NEW w \in Threads, WorkerStep(w)
      PROVE  task' \in [Threads -> Tasks]
  <2>1. CASE TakeJob(w)
    <3>1. Head(queue) \in Jobs
      BY <2>1 DEF TakeJob
    <3>. QED  BY <1>3, <2>1, <3>1 DEF TakeJob
  <2>. QED
    BY <1>1, <1>2, <1>4, <1>5, <1>6, <2>1
       DEF WorkerStep, CompileJob, FinishCompileJob, CallValidator, FinishJob, CompileStep,
           checkVars
<1>7. CASE MainStep
  <2>1. CASE CheckDirectly
    <3>1. Job("validate", Tests[at]) \in Jobs
      <4>1. at \in DOMAIN Tests
        BY <2>1, TestsAreTests DEF CheckDirectly, MainOK
      <4>. QED  BY <4>1, TestsAreTests, JobsAreJobs
    <3>. QED  BY <1>3, <2>1, <3>1, MainIsThread DEF CheckDirectly
  <2>2. CASE CallInputValidator \/ CallOutputValidator \/ CallValidator(Main)
    BY <1>1, <2>2, MainIsThread DEF CallInputValidator, CallOutputValidator, CallValidator
  <2>3. CASE NoteInputValidator \/ TestOutputValidator \/ OutputValidatorFails
               \/ FinishDirectly \/ CheckAnswers
    BY <1>2, <2>3, MainIsThread
       DEF NoteInputValidator, TestOutputValidator, OutputValidatorFails, FinishDirectly,
           CheckAnswers
  <2>. QED
    BY <1>4, <1>5, <1>7, <2>1, <2>2, <2>3, MainIsThread
       DEF MainStep, Start, TestInputValidators, CheckOutputValidator, Precompute, StartWalk,
           NoOutputValidator, TakeFuture, FinishWalk, CompileStep, checkVars
<1>8. CASE UNCHANGED allVars
  BY <1>5, <1>8 DEF allVars, checkVars
<1>. QED  BY <1>6, <1>7, <1>8, MainIsThread DEF ChecksNext

(* So the state of the checks has its types throughout.                    *)
LEMMA ChecksTyped == ChecksSafety => []JobsOK
<1>1. ChecksInit => JobsOK
  BY IdleIsTask DEF ChecksInit, JobsOK, TasksOK, MainOK
<1>2. JobsOK /\ [ChecksNext]_allVars => JobsOK'
  <2> SUFFICES ASSUME JobsOK, [ChecksNext]_allVars
               PROVE  JobsOK'
    OBVIOUS
  <2>1. problem' = problem /\ MainOK'
    BY MainStaysTyped
  <2>2. Jobs' = Jobs
    BY <2>1 DEF Jobs, InvolvedPrograms
  <2>3. Tasks' = Tasks
    BY <2>2 DEF Tasks
  <2>. QED  BY <2>1, <2>2, <2>3, QueueStaysTyped, TasksStayTyped DEF JobsOK, TasksOK
<1>. QED  BY <1>1, <1>2, PTL DEF ChecksSafety

(* Every step of the checks is a step of Program.compile, with a program   *)
(* of the package, or leaves it alone.                                     *)
LEMMA ChecksStepCompilesInvolved ==
  ASSUME JobsOK, [ChecksNext]_allVars
  PROVE  \/ UNCHANGED vars
         \/ \E t \in Threads : Continue(t) \/ \E p \in InvolvedPrograms : Call(t, p)
<1> USE DEF JobsOK
<1> DEFINE Good == \/ UNCHANGED vars
                   \/ \E t \in Threads : Continue(t) \/ \E p \in InvolvedPrograms : Call(t, p)
<1>1. ASSUME NEW t \in Threads, NEW p \in InvolvedPrograms, CallCompile(t, p)
      PROVE  Good
  BY <1>1 DEF CallCompile
<1>2. ASSUME NEW t \in Threads, CompileStep(t)
      PROVE  Good
  BY <1>2 DEF CompileStep
<1>0. /\ problem.validators \in Seq(Programs)
      /\ \A i \in 1 .. Len(problem.validators) : problem.validators[i] \in InvolvedPrograms
  BY ChecksAssumption, ElementsAreIn DEF InvolvedPrograms
<1>3. ASSUME NEW t \in Threads, CallValidator(t)
      PROVE  Good
  <2>1. task[t].at \in 1 .. Len(problem.validators)
    BY <1>0, <1>3 DEF CallValidator, Exhausted, TasksOK, Tasks
  <2>. QED  BY <1>0, <1>1, <1>3, <2>1 DEF CallValidator
<1>4. ASSUME NEW w \in Threads, WorkerStep(w)
      PROVE  Good
  <2>1. CASE CompileJob(w)
    <3>1. task[w].job.what \in InvolvedPrograms
      BY <2>1 DEF CompileJob, TasksOK, Tasks, Jobs
    <3>. QED  BY <1>1, <2>1, <3>1 DEF CompileJob
  <2>. QED
    BY <1>2, <1>3, <1>4, <2>1
       DEF WorkerStep, TakeJob, FinishCompileJob, RunValidator, FinishJob
<1>5. CASE MainStep
  <2>1. CASE CallInputValidator
    <3>1. at \in 1 .. Len(problem.validators)
      BY <1>0, <2>1 DEF CallInputValidator, MainOK
    <3>. QED  BY <1>0, <1>1, <2>1, <3>1, MainIsThread DEF CallInputValidator
  <2>2. CASE CallOutputValidator
    <3>1. Selected \in InvolvedPrograms
      BY <2>2, CompilesAreInvolved DEF CallOutputValidator, MainOK
    <3>. QED  BY <1>1, <2>2, <3>1, MainIsThread DEF CallOutputValidator
  <2>. QED
    BY <1>2, <1>3, <1>5, <2>1, <2>2, MainIsThread
       DEF MainStep, Start, NoteInputValidator, TestInputValidators, CheckOutputValidator,
           TestOutputValidator, OutputValidatorFails, Precompute, StartWalk,
           NoOutputValidator, TakeFuture, CheckDirectly, RunValidator, FinishDirectly,
           FinishWalk, CheckAnswers
<1>6. CASE UNCHANGED allVars
  BY <1>6 DEF allVars
<1>. QED  BY <1>4, <1>5, <1>6, MainIsThread DEF ChecksNext

(* In particular it is a step of ProgramCompile.                           *)
LEMMA ChecksStepIsCompileStep ==
  ASSUME JobsOK, [ChecksNext]_allVars
  PROVE  [Next]_vars
BY ChecksStepCompilesInvolved, InvolvedArePrograms DEF Next, JobsOK

(* The checks implement ProgramCompile: the main thread, the background    *)
(* compiles and the validation jobs only use Program.compile as its        *)
(* callers do, with programs of the package.                               *)
THEOREM ChecksUseCompile == ChecksSafety => Safety
<1>1. ChecksInit => Init
  BY DEF ChecksInit
<1>2. JobsOK /\ [ChecksNext]_allVars => [Next]_vars
  BY ChecksStepIsCompileStep
<1>. QED  BY <1>1, <1>2, ChecksTyped, PTL DEF ChecksSafety, Safety

(* While the checks run, programs that share a name do not share a         *)
(* workspace.                                                              *)
THEOREM ChecksKeepProgramsApart == ChecksSafety => []WorkspacesAreDisjoint
BY ChecksUseCompile, ProgramsAreKeptApart, PTL

(* While the checks run, a validator's path does not change under a thread *)
(* that has compiled it and is running it.                                 *)
THEOREM ChecksKeepPaths == ChecksSafety => []PathsStayValid
BY ChecksUseCompile, GivenPathsAreFinal, PTL

-----------------------------------------------------------------------------
(* What a call gives its caller: a success exactly if the source compiles, *)
(* the error the compilation raises, or that the program's name is taken   *)
(* in the work directory, which takes another program of that name.        *)
Attempted(p) == attempts[p] > 0
Rival(p) == \E q \in Programs : q # p /\ NameOf[q] = NameOf[p] /\ Attempted(q)

Answered(t) ==
  \/ answer[t] = Raised /\ Fate[prog[t]] = "raises"
  \/ answer[t] = NameTaken /\ Attempted(prog[t]) /\ Rival(prog[t])
  \/ /\ answer[t] \in CompileResults
     /\ Fate[prog[t]] # "raises"
     /\ answer[t].success = (Fate[prog[t]] = "compiles")

ResultFollowsFate ==
  \A p \in Programs : result[p] # None =>
    Fate[p] # "raises" /\ result[p].success = (Fate[p] = "compiles")

(* Whoever compiles has begun to, and when a name has been taken since it  *)
(* was looked for, it was by another program.                              *)
CompilersAttempt == \A t \in Threads : pc[t] \in Compiling => Attempted(prog[t])

NamesAreTakenByRivals ==
  \A t \in Threads : pc[t] = "naming" /\ NameOf[prog[t]] \in dirs => Rival(prog[t])

FateInv == ResultFollowsFate /\ CompilersAttempt /\ NamesAreTakenByRivals

(* Attempts are never taken back, so a rival stays one.                    *)
LEMMA RivalsStay ==
  ASSUME IInv, [Next]_vars
  PROVE  \A p \in Programs : (Attempted(p) => Attempted(p)') /\ (Rival(p) => Rival(p)')
<1>1. \/ attempts' = attempts
      \/ \E t \in Threads : attempts' = [attempts EXCEPT ![prog[t]] = @ + 1]
  BY DEF Next, vars, Continue, Call, UseResult, StartCompile, LookForName, MakeNamed, NameIsTaken,
         MakeTemporary, MakeWorkspace, Build, Leave
<1>2. attempts \in [Programs -> Nat] /\ prog \in [Threads -> Programs]
  BY DEF IInv, TypeOK
<1>3. \A p \in Programs : attempts'[p] >= attempts[p] /\ attempts'[p] \in Nat
  BY <1>1, <1>2
<1>4. \A p \in Programs : Attempted(p) => Attempted(p)'
  BY <1>2, <1>3 DEF Attempted
<1>. QED  BY <1>4 DEF Rival

(* Two threads do not compile one program at the same time.                *)
LEMMA CompilersDiffer ==
  ASSUME IInv, NEW t \in Threads, NEW u \in Threads, t # u,
         pc[t] \in Compiling, pc[u] \in Compiling
  PROVE  prog[t] # prog[u]
BY DEF IInv, CompilerHoldsLock

(* Only Build makes a result.                                              *)
LEMMA ResultFollowsFateStep ==
  ASSUME IInv, FateInv, [Next]_vars
  PROVE  ResultFollowsFate'
<1>1. CASE result' = result
  BY <1>1 DEF FateInv, ResultFollowsFate
<1>2. ASSUME NEW t \in Threads, Build(t), result' # result
      PROVE  ResultFollowsFate'
  <2> DEFINE p == prog[t]
             made == CompileResult(Fate[p] = "compiles", path[p])
  <2>1. Fate[p] # "raises" /\ result' = [result EXCEPT ![p] = made]
    BY <1>2 DEF Build
  <2>2. made.success = (Fate[p] = "compiles")
    BY DEF CompileResult
  <2>. HIDE DEF made
  <2>. QED  BY <2>1, <2>2 DEF IInv, TypeOK, FateInv, ResultFollowsFate
<1>3. result' = result \/ \E t \in Threads : Build(t)
  BY DEF Next, vars, Continue, Call, UseResult, StartCompile, LookForName, MakeNamed, NameIsTaken,
         MakeTemporary, MakeWorkspace
<1>. QED  BY <1>1, <1>2, <1>3

(* Who is compiling after a step was before, with the same program, or has *)
(* just begun.                                                             *)
LEMMA WhoCompiles ==
  ASSUME IInv, [Next]_vars, NEW t \in Threads, pc'[t] \in Compiling
  PROVE  \/ pc[t] \in Compiling /\ prog'[t] = prog[t]
         \/ StartCompile(t)
<1> USE DEF IInv, TypeOK, Goto, Compiling
<1>1. CASE UNCHANGED vars
  BY <1>1 DEF vars
<1>2. ASSUME NEW u \in Threads, NEW p \in Programs, Call(u, p)
      PROVE  pc[t] \in Compiling /\ prog'[t] = prog[t]
  BY <1>2 DEF Call
<1>3. ASSUME NEW u \in Threads, UseResult(u) \/ LookForName(u) \/ MakeNamed(u) \/ NameIsTaken(u)
                                  \/ MakeTemporary(u) \/ Build(u)
      PROVE  pc[t] \in Compiling /\ prog'[t] = prog[t]
  BY <1>3 DEF UseResult, LookForName, MakeNamed, NameIsTaken, MakeTemporary, MakeWorkspace,
              Build, Leave
<1>4. ASSUME NEW u \in Threads, u # t, StartCompile(u)
      PROVE  pc[t] \in Compiling /\ prog'[t] = prog[t]
  BY <1>4 DEF StartCompile
<1>. QED  BY <1>1, <1>2, <1>3, <1>4 DEF Next, Continue

(* Whoever begins to compile has attempted to.                             *)
LEMMA CompilersAttemptStep ==
  ASSUME IInv, FateInv, [Next]_vars
  PROVE  CompilersAttempt'
<1> SUFFICES ASSUME NEW t \in Threads, pc'[t] \in Compiling
             PROVE  Attempted(prog[t])' 
  BY DEF CompilersAttempt
<1>1. CASE pc[t] \in Compiling /\ prog'[t] = prog[t]
  <2>1. Attempted(prog[t]) /\ prog[t] \in Programs
    BY <1>1 DEF FateInv, CompilersAttempt, IInv, TypeOK
  <2>2. attempts'[prog[t]] > 0
    BY <2>1, RivalsStay DEF Attempted
  <2>. QED  BY <1>1, <2>2 DEF Attempted
<1>2. CASE StartCompile(t)
  BY <1>2 DEF StartCompile, Attempted, IInv, TypeOK
<1>. QED  BY <1>1, <1>2, WhoCompiles

(* Names that appear in the work directory are those of a program that is  *)
(* being compiled.                                                         *)
LEMMA WhoTakesNames ==
  ASSUME IInv, [Next]_vars, NEW n \in Names, n \in dirs' \ dirs
  PROVE  \E u \in Threads : MakeNamed(u) /\ NameOf[prog[u]] = n
<1>1. ASSUME NEW u \in Threads, NEW d, MakeWorkspace(u, d)
      PROVE  n = d
  BY <1>1 DEF MakeWorkspace
<1>2. \A u \in Threads : ~ MakeTemporary(u)
  BY <1>1, ProgramsAssumption DEF MakeTemporary
<1>3. \/ dirs' = dirs
      \/ \E u \in Threads : MakeNamed(u) \/ MakeTemporary(u)
  BY DEF Next, vars, Continue, Call, UseResult, StartCompile, LookForName, NameIsTaken, Build
<1>. QED  BY <1>1, <1>2, <1>3 DEF MakeNamed

(* A name that is taken after it was looked for is taken by a rival.       *)
LEMMA NamesAreTakenByRivalsStep ==
  ASSUME IInv, FateInv, [Next]_vars
  PROVE  NamesAreTakenByRivals'
<1> SUFFICES ASSUME NEW t \in Threads, pc'[t] = "naming", NameOf[prog'[t]] \in dirs'
             PROVE  Rival(prog[t])'
  BY DEF NamesAreTakenByRivals
<1>1. ASSUME pc[t] = "naming", prog'[t] = prog[t]
      PROVE  Rival(prog[t])'
  <2> DEFINE p == prog[t]
  <2>1. p \in Programs /\ NameOf[p] \in Names
    BY ProgramsAssumption DEF IInv, TypeOK
  <2>2. CASE NameOf[p] \in dirs
    <3>1. Rival(p)
      BY <1>1, <2>2 DEF FateInv, NamesAreTakenByRivals
    <3>2. PICK q \in Programs : q # p /\ NameOf[q] = NameOf[p] /\ Attempted(q)
      BY <3>1 DEF Rival
    <3>3. attempts'[q] > 0
      BY <3>2, RivalsStay DEF Attempted
    <3>. QED  BY <1>1, <3>2, <3>3 DEF Rival, Attempted
  <2>3. CASE NameOf[p] \notin dirs
    <3>1. PICK u \in Threads : MakeNamed(u) /\ NameOf[prog[u]] = NameOf[p]
      BY <1>1, <2>1, <2>3, WhoTakesNames
    <3>2. u # t
      BY <1>1, <3>1 DEF MakeNamed, MakeWorkspace, Goto, IInv, TypeOK
    <3>3. pc[u] = "naming" /\ attempts' = attempts
      BY <3>1 DEF MakeNamed, MakeWorkspace
    <3>4. prog[u] # p /\ prog[u] \in Programs /\ Attempted(prog[u])
      BY <1>1, <3>2, <3>3, CompilersDiffer DEF Compiling, FateInv, CompilersAttempt, IInv, TypeOK
    <3>. QED  BY <1>1, <3>1, <3>3, <3>4 DEF Rival, Attempted
  <2>. QED  BY <2>2, <2>3
<1>2. ASSUME LookForName(t)
      PROVE  FALSE
  BY <1>2 DEF LookForName, Goto, IInv, TypeOK
<1>3. /\ pc[t] = "naming" \/ LookForName(t)
      /\ prog'[t] = prog[t]
  <2> USE DEF IInv, TypeOK, Goto
  <2>1. CASE UNCHANGED vars
    BY <2>1 DEF vars
  <2>2. ASSUME NEW u \in Threads, NEW p \in Programs, Call(u, p)
        PROVE  pc[t] = "naming" /\ prog'[t] = prog[t]
    BY <2>2 DEF Call
  <2>3. ASSUME NEW u \in Threads, UseResult(u) \/ StartCompile(u) \/ MakeNamed(u)
                                    \/ NameIsTaken(u) \/ MakeTemporary(u) \/ Build(u)
        PROVE  pc[t] = "naming" /\ prog'[t] = prog[t]
    BY <2>3 DEF UseResult, StartCompile, MakeNamed, NameIsTaken, MakeTemporary, MakeWorkspace,
                Build, Leave
  <2>4. ASSUME NEW u \in Threads, LookForName(u)
        PROVE  (pc[t] = "naming" \/ u = t) /\ prog'[t] = prog[t]
    BY <2>4 DEF LookForName
  <2>. QED  BY <2>1, <2>2, <2>3, <2>4 DEF Next, Continue
<1>. QED  BY <1>1, <1>2, <1>3

(* So this holds throughout.                                               *)
LEMMA FateHolds == Safety => []FateInv
<1>1. Init => FateInv
  BY DEF Init, FateInv, ResultFollowsFate, CompilersAttempt, NamesAreTakenByRivals, Compiling
<1>2. IInv /\ FateInv /\ [Next]_vars => FateInv'
  BY ResultFollowsFateStep, CompilersAttemptStep, NamesAreTakenByRivalsStep DEF FateInv
<1>. QED  BY <1>1, <1>2, InvariantHolds, PTL DEF Safety

(* A call that comes back has an answer, and keeps it until the next call. *)
LEMMA CallsAreAnswered ==
  ASSUME IInv, FateInv, [Next]_vars, NEW t \in Threads,
         pc[t] = "idle" => Answered(t), pc'[t] = "idle"
  PROVE  Answered(t)'
<1> DEFINE p == prog[t]
<1>0. p \in Programs
  BY DEF IInv, TypeOK
<1>1. CASE pc[t] = "idle" /\ answer'[t] = answer[t] /\ prog'[t] = prog[t]
  <2>1. Attempted(p) => attempts'[p] > 0
    BY <1>0, RivalsStay DEF Attempted
  <2>2. ASSUME Rival(p)
        PROVE  Rival(prog[t])'
    <3>1. PICK q \in Programs : q # p /\ NameOf[q] = NameOf[p] /\ Attempted(q)
      BY <2>2 DEF Rival
    <3>2. attempts'[q] > 0
      BY <3>1, RivalsStay DEF Attempted
    <3>. QED  BY <1>1, <3>1, <3>2 DEF Rival, Attempted
  <2>. QED  BY <1>1, <2>1, <2>2 DEF Answered, Attempted
<1>2. CASE UseResult(t)
  <2>1. result[p] # None /\ answer'[t] = result[p] /\ prog' = prog
    BY <1>2 DEF UseResult, IInv, TypeOK
  <2>2. result[p] \in CompileResults
    BY <1>0, <2>1 DEF IInv, TypeOK
  <2>. QED  BY <1>0, <2>1, <2>2 DEF Answered, FateInv, ResultFollowsFate
<1>3. CASE NameIsTaken(t)
  <2>1. pc[t] = "naming" /\ NameOf[p] \in dirs
    BY <1>3 DEF NameIsTaken
  <2>2. Attempted(p) /\ Rival(p)
    BY <2>1 DEF FateInv, CompilersAttempt, NamesAreTakenByRivals, Compiling
  <2>3. answer'[t] = NameTaken /\ prog' = prog /\ attempts' = attempts
    BY <1>3 DEF NameIsTaken, Leave, IInv, TypeOK
  <2>. QED  BY <2>2, <2>3 DEF Answered, Attempted, Rival
<1>4. CASE Build(t)
  <2> DEFINE made == CompileResult(Fate[p] = "compiles", path[p])
  <2>1. made \in CompileResults /\ made.success = (Fate[p] = "compiles")
    BY <1>4 DEF CompileResult, CompileResults, IInv, BuilderHasPath, Build
  <2>2. /\ answer'[t] = IF Fate[p] = "raises" THEN Raised ELSE made
        /\ prog' = prog
    BY <1>4 DEF Build, Leave, IInv, TypeOK
  <2> HIDE DEF made
  <2>. QED  BY <2>1, <2>2 DEF Answered
<1>5. \/ pc[t] = "idle" /\ answer'[t] = answer[t] /\ prog'[t] = prog[t]
      \/ UseResult(t) \/ NameIsTaken(t) \/ Build(t)
  <2> USE DEF IInv, TypeOK, Goto
  <2>1. CASE UNCHANGED vars
    BY <2>1 DEF vars
  <2>2. ASSUME NEW u \in Threads, NEW q \in Programs, Call(u, q)
        PROVE  pc[t] = "idle" /\ answer'[t] = answer[t] /\ prog'[t] = prog[t]
    BY <2>2 DEF Call
  <2>3. ASSUME NEW u \in Threads, StartCompile(u) \/ LookForName(u) \/ MakeNamed(u)
                                    \/ MakeTemporary(u)
        PROVE  pc[t] = "idle" /\ answer'[t] = answer[t] /\ prog'[t] = prog[t]
    BY <2>3 DEF StartCompile, LookForName, MakeNamed, MakeTemporary, MakeWorkspace
  <2>4. ASSUME NEW u \in Threads, u # t, UseResult(u) \/ NameIsTaken(u) \/ Build(u)
        PROVE  pc[t] = "idle" /\ answer'[t] = answer[t] /\ prog'[t] = prog[t]
    BY <2>4 DEF UseResult, NameIsTaken, Build, Leave
  <2>. QED  BY <2>1, <2>2, <2>3, <2>4 DEF Next, Continue
<1>. QED  BY <1>1, <1>2, <1>3, <1>4, <1>5

-----------------------------------------------------------------------------
(* What validating an input has found when n validators have been run:     *)
(* those that rejected it, or that a compilation raised.                   *)
Rejecting(p, x) == {v \in Programs : Fate[v] = "compiles" /\ <<v, x, FlagsOf[x]>> \in p.rejects}

FoundBy(p, x, n, e) ==
  \E kept : Keeps(kept, p.validators, Rejecting(p, x)) /\ e = kept[n]

ClashIn(p) ==
  \E a, b \in ToSet(p.validators) \union ToSet(p.output) \union ToSet(Submissions) :
    a # b /\ NameOf[a] = NameOf[b]

Progress(p, x, n, e) ==
  \/ /\ n \in 0 .. Len(p.validators)
     /\ \A i \in 1 .. n : Fate[p.validators[i]] # "raises"
     /\ FoundBy(p, x, n, e)
  \/ /\ n = Len(p.validators)
     /\ e = <<Internal>>
     /\ ClashIn(p) \/ \E i \in 1 .. Len(p.validators) : Fate[p.validators[i]] = "raises"

Validated(p, x, e) == Progress(p, x, Len(p.validators), e)

(* Nothing is found before a validator is run.                             *)
LEMMA NothingFoundYet ==
  ASSUME NEW p \in Problems, NEW x
  PROVE  Progress(p, x, 0, <<>>)
<1>1. p.validators \in Seq(Programs) /\ Len(p.validators) \in Nat
  BY ChecksAssumption
<1>2. PICK kept : Keeps(kept, p.validators, Rejecting(p, x))
  BY <1>1, KeptExists
<1>3. kept[0] = <<>>
  BY <1>1, <1>2, KeptSteps
<1>4. FoundBy(p, x, 0, <<>>)
  BY <1>2, <1>3 DEF FoundBy
<1>. QED  BY <1>1, <1>4 DEF Progress

(* One more validator is run.                                              *)
LEMMA OneMoreIsRun ==
  ASSUME NEW p \in Problems, NEW x, NEW n \in Nat, n < Len(p.validators), NEW e,
         Progress(p, x, n, e), Fate[p.validators[n + 1]] # "raises"
  PROVE  Progress(p, x, n + 1,
                  IF p.validators[n + 1] \in Rejecting(p, x)
                  THEN Append(e, p.validators[n + 1]) ELSE e)
<1> DEFINE N == Len(p.validators)
           more == IF p.validators[n + 1] \in Rejecting(p, x)
                   THEN Append(e, p.validators[n + 1]) ELSE e
<1>1. p.validators \in Seq(Programs) /\ N \in Nat
  BY ChecksAssumption
<1>2. FoundBy(p, x, n, e) /\ \A i \in 1 .. n : Fate[p.validators[i]] # "raises"
  BY <1>1 DEF Progress
<1>3. PICK kept : Keeps(kept, p.validators, Rejecting(p, x)) /\ e = kept[n]
  BY <1>2 DEF FoundBy
<1>4. n + 1 \in 0 .. N /\ n \in 0 .. N - 1
  BY <1>1
<1>5. kept[n + 1] = more
  BY <1>1, <1>3, <1>4, KeptSteps
<1>6. FoundBy(p, x, n + 1, more)
  BY <1>3, <1>5 DEF FoundBy
<1>7. \A i \in 1 .. n + 1 : Fate[p.validators[i]] # "raises"
  BY <1>2
<1> HIDE DEF more
<1>8. Progress(p, x, n + 1, more)
  BY <1>4, <1>6, <1>7 DEF Progress
<1>. QED  BY <1>8 DEF more

(* When all validators have been run, what was found is what one thread    *)
(* finds, but for programs of one name.                                    *)
LEMMA AllAreRun ==
  ASSUME problem \in Problems, NEW x, NEW e, Validated(problem, x, e)
  PROVE  e = FoundAlone(x) \/ (NamesClash /\ e = <<Internal>>)
<1> DEFINE vs == problem.validators
           N == Len(vs)
           rejecting == {v \in Programs : Fate[v] = "compiles" /\ ~ Accepts(v, x, FlagsOf[x])}
<1>1. vs \in Seq(Programs) /\ N \in Nat /\ DOMAIN vs = 1 .. N
  BY ChecksAssumption, ElementsAreIn
<1>2. rejecting = Rejecting(problem, x)
  BY DEF Rejecting, Accepts
<1>3. (\E v \in ToSet(vs) : Fate[v] = "raises") <=> (\E i \in 1 .. N : Fate[vs[i]] = "raises")
  BY <1>1 DEF ToSet
<1>4. NamesClash <=> ClashIn(problem)
  BY DEF NamesClash, InvolvedPrograms, ClashIn
<1>5. ASSUME \A i \in 1 .. N : Fate[vs[i]] # "raises", FoundBy(problem, x, N, e)
      PROVE  e = FoundAlone(x)
  <2>1. PICK kept : Keeps(kept, vs, rejecting) /\ e = kept[N]
    BY <1>2, <1>5 DEF FoundBy
  <2>2. FoundAlone(x) = Among(vs, rejecting)
    BY <1>3, <1>5 DEF FoundAlone
  <2> HIDE DEF rejecting
  <2>3. PICK held : Keeps(held, vs, rejecting) /\ Among(vs, rejecting) = held[N]
    BY <1>1, AmongKeeps
  <2>4. kept[N] = held[N]
    <3>1. N \in 0 .. N
      BY <1>1
    <3>2. \A n \in 0 .. N : kept[n] = held[n]
      BY <1>1, <2>1, <2>3, KeptAgree
    <3>. QED  BY <3>1, <3>2
  <2>. QED  BY <2>1, <2>2, <2>3, <2>4
<1>6. ASSUME \E i \in 1 .. N : Fate[vs[i]] = "raises"
      PROVE  FoundAlone(x) = <<Internal>>
  BY <1>3, <1>6 DEF FoundAlone
<1>. QED  BY <1>4, <1>5, <1>6 DEF Validated, Progress

(* Nothing is found about an input that every validator accepts, if all    *)
(* compile, and conversely.                                                *)
LEMMA NothingFound ==
  ASSUME problem \in Problems, NEW x, FoundAlone(x) = <<>>,
         NEW i \in 1 .. Len(problem.validators), Fate[problem.validators[i]] = "compiles"
  PROVE  Accepts(problem.validators[i], x, FlagsOf[x])
<1> DEFINE vs == problem.validators
           rejecting == {v \in Programs : Fate[v] = "compiles" /\ ~ Accepts(v, x, FlagsOf[x])}
<1>1. vs \in Seq(Programs) /\ vs[i] \in Programs
  BY ChecksAssumption
<1>2. SUFFICES ASSUME vs[i] \in rejecting
               PROVE  FALSE
  BY <1>1
<1>3. Among(vs, rejecting) = <<>>
  <2>1. <<Internal>> # <<>>
    OBVIOUS
  <2>. QED  BY <2>1 DEF FoundAlone
<1> HIDE DEF rejecting
<1>4. PICK kept : Keeps(kept, vs, rejecting) /\ Among(vs, rejecting) = kept[Len(vs)]
  BY <1>1, AmongKeeps
<1>. QED  BY <1>1, <1>2, <1>3, <1>4, KeptGrows

-----------------------------------------------------------------------------
Stages == {"start", "input", "output", "compiling", "data", "walk", "answers", "done", "stopped",
           "crashed"}

(* What the main thread's task is at each stage.                           *)
MainTask ==
  /\ stage \in Stages
  /\ stage \in {"start", "data"} => task[Main] = Idle
  /\ stage # "walk" => task[Main].job = None
  /\ stage = "input" /\ task[Main].called =>
       at <= Len(problem.validators) /\ prog[Main] = problem.validators[at]
  /\ stage = "walk" =>
       /\ task[Main].job = None => task[Main] = Idle
       /\ task[Main].job # None => at <= Len(Tests) /\ task[Main].job = Job("validate", Tests[at])

IdleWorkers == \A w \in Workers : task[w].job = None => task[w] = Idle

TasksProgress ==
  \A t \in Threads : Validating(t) =>
    Progress(problem, task[t].job.what, task[t].at - 1, task[t].errors)

(* A call under way while an input is validated is for the next validator. *)
CallsAreForNext ==
  \A t \in Threads : Validating(t) /\ task[t].called =>
    ~ Exhausted(t) /\ prog[t] = problem.validators[task[t].at]

CallsGetAnswers == \A t \in Threads : task[t].called /\ pc[t] = "idle" => Answered(t)

OnlyInvolvedCompile ==
  /\ \A t \in Threads : pc[t] # "idle" => prog[t] \in InvolvedPrograms
  /\ \A q \in Programs : Attempted(q) => q \in InvolvedPrograms

ThreadsOK == /\ MainTask /\ IdleWorkers /\ TasksProgress /\ CallsAreForNext /\ CallsGetAnswers
             /\ OnlyInvolvedCompile

(* What a step does to the task of a thread.                               *)
Leaves(t) == task'[t] = task[t] /\ prog'[t] = prog[t]
Clears(t) == task'[t] = Idle /\ prog'[t] = prog[t]

ThreadStep(t) ==
  \/ Leaves(t)
  \/ Clears(t)
  \/ TakeJob(t) /\ t \in Workers
  \/ CompileJob(t) /\ t \in Workers
  \/ CallValidator(t)
  \/ RunValidator(t)
  \/ t = Main /\ (CallInputValidator \/ CallOutputValidator \/ CheckDirectly)

(* Replacing the task of a thread leaves the others alone.                 *)
LEMMA TaskIsFunction ==
  ASSUME JobsOK, NEW t \in Threads
  PROVE  /\ task[t] \in Tasks
         /\ \A u \in Threads : \A x : [task EXCEPT ![u] = x][t] = IF u = t THEN x ELSE task[t]
BY DEF JobsOK, TasksOK

(* Only calling changes what a thread is about to compile.                 *)
LEMMA ProgramStays ==
  ASSUME IInv, NEW t \in Threads
  PROVE  /\ UNCHANGED vars => prog'[t] = prog[t]
         /\ \A u \in Threads : Continue(u) => prog'[t] = prog[t]
         /\ \A u \in Threads : \A p : Call(u, p) =>
              prog' = [prog EXCEPT ![u] = p] /\ (u # t => prog'[t] = prog[t])
BY DEF vars, Continue, Call, UseResult, StartCompile, LookForName, MakeNamed, NameIsTaken,
       MakeTemporary, MakeWorkspace, Build, Leave, IInv, TypeOK

(* There are no other ways.                                                *)
LEMMA EveryStepIsThreadStep ==
  ASSUME IInv, JobsOK, [ChecksNext]_allVars, NEW t \in Threads
  PROVE  ThreadStep(t)
<1> USE DEF ThreadStep
<1>1. ASSUME NEW u \in Threads, NEW p, CallCompile(u, p), u # t
      PROVE  Leaves(t)
  BY <1>1, ProgramStays, TaskIsFunction DEF CallCompile, Leaves
<1>2. ASSUME NEW u \in Threads, task' = [task EXCEPT ![u] = Idle], UNCHANGED vars
      PROVE  Leaves(t) \/ Clears(t)
  BY <1>2, ProgramStays, TaskIsFunction DEF Leaves, Clears
<1>3. ASSUME NEW u \in Threads, NEW x, task' = [task EXCEPT ![u] = x], UNCHANGED vars, u # t
      PROVE  Leaves(t)
  BY <1>3, ProgramStays, TaskIsFunction DEF Leaves
<1>4. ASSUME task' = task, UNCHANGED vars \/ \E u \in Threads : Continue(u)
      PROVE  Leaves(t)
  BY <1>4, ProgramStays DEF Leaves
<1>5. ASSUME NEW u \in Threads, RunValidator(u) \/ CallValidator(u)
      PROVE  ThreadStep(t)
  <2>1. CASE RunValidator(u) /\ u # t
    BY <1>3, <2>1 DEF RunValidator
  <2>2. CASE CallValidator(u) /\ u # t
    BY <1>1, <2>2 DEF CallValidator
  <2>. QED  BY <1>5, <2>1, <2>2
<1>6. ASSUME NEW u \in Threads, CompileStep(u)
      PROVE  Leaves(t)
  BY <1>4, <1>6 DEF CompileStep, checkVars
<1>7. ASSUME NEW w \in Workers, WorkerStep(w)
      PROVE  ThreadStep(t)
  <2>1. CASE TakeJob(w)
    <3>1. CASE w # t
      <4>1. task' = [task EXCEPT ![w] = [task[w] EXCEPT !.job = Head(queue)]] /\ UNCHANGED vars
        BY <2>1 DEF TakeJob
      <4>. QED  BY <1>3, <3>1, <4>1, MainIsThread
    <3>. QED  BY <2>1, <3>1, MainIsThread
  <2>2. CASE CompileJob(w)
    <3>1. CASE w # t
      BY <1>1, <2>2, <3>1, MainIsThread DEF CompileJob
    <3>. QED  BY <2>2, <3>1, MainIsThread
  <2>3. CASE FinishCompileJob(w) \/ FinishJob(w)
    BY <1>2, <2>3, MainIsThread DEF FinishCompileJob, FinishJob
  <2>. QED  BY <1>5, <1>6, <1>7, <2>1, <2>2, <2>3, MainIsThread DEF WorkerStep
<1>8. CASE MainStep
  <2>1. CASE \/ Start \/ TestInputValidators \/ CheckOutputValidator \/ Precompute \/ StartWalk
             \/ NoOutputValidator \/ TakeFuture \/ FinishWalk
    BY <1>4, <2>1 DEF Start, TestInputValidators, CheckOutputValidator, Precompute, StartWalk,
         NoOutputValidator, TakeFuture, FinishWalk
  <2>2. CASE \/ NoteInputValidator \/ TestOutputValidator \/ OutputValidatorFails
             \/ FinishDirectly \/ CheckAnswers
    BY <1>2, <2>2, MainIsThread DEF NoteInputValidator, TestOutputValidator,
         OutputValidatorFails, FinishDirectly, CheckAnswers
  <2>3. CASE CallInputValidator \/ CallOutputValidator
    BY <1>1, <2>3, MainIsThread DEF CallInputValidator, CallOutputValidator
  <2>4. CASE CheckDirectly
    <3>1. CASE t # Main
      <4>1. /\ task' = [task EXCEPT ![Main] = [task[Main] EXCEPT !.job = Job("validate", Tests[at])]]
            /\ UNCHANGED vars
        BY <2>4 DEF CheckDirectly
      <4>. QED  BY <1>3, <3>1, <4>1, MainIsThread
    <3>. QED  BY <2>4, <3>1
  <2>. QED  BY <1>5, <1>6, <1>8, <2>1, <2>2, <2>3, <2>4, MainIsThread DEF MainStep
<1>9. CASE UNCHANGED allVars
  BY <1>4, <1>9 DEF allVars, checkVars
<1>. QED  BY <1>7, <1>8, <1>9 DEF ChecksNext

(* A result of compiling is no error.                                      *)
LEMMA ResultsAreNoErrors ==
  /\ Raised # NameTaken
  /\ \A r \in CompileResults : r # Raised /\ r # NameTaken
<1>1. "ProgramError" # "FileExistsError"
  OBVIOUS
<1>2. Raised.raised = "ProgramError" /\ NameTaken.raised = "FileExistsError"
  BY DEF Raised, NameTaken
<1>3. DOMAIN Raised = {"raised"} /\ DOMAIN NameTaken = {"raised"}
  BY DEF Raised, NameTaken
<1>4. \A r \in CompileResults : "success" \in DOMAIN r
  BY DEF CompileResults
<1>. QED  BY <1>1, <1>2, <1>3, <1>4

(* What the caller reads off the answer.                                   *)
LEMMA AnswerTells ==
  ASSUME NEW t \in Threads, Answered(t)
  PROVE  /\ Compiled(t) <=> Fate[prog[t]] = "compiles" /\ ~ Threw(t)
         /\ Threw(t) => \/ Fate[prog[t]] = "raises"
                        \/ answer[t] = NameTaken /\ Attempted(prog[t]) /\ Rival(prog[t])
         /\ ~ Threw(t) => Fate[prog[t]] # "raises"
BY ResultsAreNoErrors DEF Answered, Compiled, Threw

(* A thread that is told that its program's name is taken has met another  *)
(* program of the package with that name.                                  *)
LEMMA RivalsClash ==
  ASSUME OnlyInvolvedCompile, IInv, NEW t \in Threads, Attempted(prog[t]), Rival(prog[t])
  PROVE  NamesClash /\ ClashIn(problem)
<1>1. prog[t] \in InvolvedPrograms
  BY DEF OnlyInvolvedCompile, IInv, TypeOK
<1>2. PICK q \in InvolvedPrograms : q # prog[t] /\ NameOf[q] = NameOf[prog[t]]
  BY DEF OnlyInvolvedCompile, Rival
<1>3. NamesClash
  BY <1>1, <1>2 DEF NamesClash
<1>. QED  BY <1>3 DEF NamesClash, ClashIn, InvolvedPrograms

(* What a step does to the fields of a task.                               *)
LEMMA TaskAfterCall ==
  ASSUME JobsOK, NEW t \in Threads, NEW p, CallCompile(t, p)
  PROVE  /\ task'[t].job = task[t].job
         /\ task'[t].at = task[t].at
         /\ task'[t].errors = task[t].errors
         /\ task'[t].called
BY DEF CallCompile, JobsOK, TasksOK, Tasks

(* A job starts before the first validator, with nothing found.            *)
LEMMA TaskAfterJobStarts ==
  ASSUME JobsOK, NEW t \in Threads, task[t] = Idle, NEW j, task' = [task EXCEPT ![t].job = j]
  PROVE  /\ task'[t].job = j
         /\ task'[t].at = 1
         /\ task'[t].errors = <<>>
         /\ ~ task'[t].called
<1>1. task'[t] = [task[t] EXCEPT !.job = j]
  BY DEF JobsOK, TasksOK
<1>. QED  BY <1>1 DEF Idle

(* Running a validator moves on to the next, or past all of them.          *)
LEMMA TaskAfterRun ==
  ASSUME JobsOK, NEW t \in Threads, RunValidator(t)
  PROVE  /\ task'[t].job = task[t].job
         /\ ~ task'[t].called
         /\ task'[t].at = IF Threw(t) THEN Len(problem.validators) + 1 ELSE task[t].at + 1
         /\ task'[t].errors = IF Threw(t) THEN <<Internal>> ELSE task[t].errors \o Outcome(t)
<1> DEFINE next == IF Threw(t) THEN Len(problem.validators) + 1 ELSE task[t].at + 1
           errors == IF Threw(t) THEN <<Internal>> ELSE task[t].errors \o Outcome(t)
           x == [job |-> task[t].job, called |-> FALSE, at |-> next, errors |-> errors]
<1>1. task' = [task EXCEPT ![t] = x]
  BY DEF RunValidator
<1> HIDE DEF next, errors
<1>2. task'[t] = x
  <2> HIDE DEF x
  <2>. QED  BY <1>1 DEF JobsOK, TasksOK
<1>3. task'[t].job = task[t].job /\ task'[t].called = FALSE /\ task'[t].at = next
      /\ task'[t].errors = errors
  BY <1>2
<1>. QED  BY <1>3 DEF next, errors

(* What a validator that has been run adds to what was found.              *)
LEMMA FoundSoFar ==
  ASSUME NEW e \in TaskErrors, NEW v \in Programs
  PROVE  e \o <<v>> = Append(e, v) /\ e \o <<>> = e
BY DEF TaskErrors

(* One validator is run on an input, and what it finds is noted.           *)
LEMMA ValidatorIsRun ==
  ASSUME IInv, JobsOK, ThreadsOK, NEW t \in Threads, RunValidator(t)
  PROVE  Progress(problem, task'[t].job.what, task'[t].at - 1, task'[t].errors)
<1> DEFINE vs == problem.validators
           k == task[t]
           x == k.job.what
           n == k.at - 1
           v == vs[n + 1]
           N == Len(vs)
<1>1. vs \in Seq(Programs) /\ N \in Nat /\ problem \in Problems
  BY ChecksAssumption DEF JobsOK
<1>2. n \in Nat /\ n < N /\ n + 1 = k.at
  <2>1. k.at \in Nat \ {0}
    BY TaskIsFunction DEF Tasks
  <2>. QED  BY <1>1, <2>1 DEF RunValidator, Exhausted
<1>3. /\ Validating(t) /\ k.called /\ pc[t] = "idle"
      /\ Progress(problem, x, n, k.errors)
      /\ prog[t] = v
      /\ Answered(t)
  BY <1>2 DEF RunValidator, Returned, ThreadsOK, TasksProgress, CallsAreForNext, CallsGetAnswers
<1>4. /\ task'[t].job = k.job
      /\ task'[t].at = IF Threw(t) THEN N + 1 ELSE k.at + 1
      /\ task'[t].errors = IF Threw(t) THEN <<Internal>> ELSE k.errors \o Outcome(t)
  BY TaskAfterRun
<1>5. CASE Threw(t)
  <2>1. Fate[v] = "raises" \/ ClashIn(problem)
    BY <1>3, <1>5, AnswerTells, RivalsClash DEF ThreadsOK
  <2>2. n + 1 \in 1 .. N
    BY <1>1, <1>2
  <2>3. task'[t].at - 1 = N /\ task'[t].errors = <<Internal>>
    BY <1>1, <1>4, <1>5
  <2>. QED  BY <2>1, <2>2, <2>3 DEF Progress
<1>6. CASE ~ Threw(t)
  <2>1. Fate[v] # "raises" /\ (Compiled(t) <=> Fate[v] = "compiles")
    BY <1>3, <1>6, AnswerTells
  <2>2. v \in Programs
    BY <1>1, <1>2
  <2>3. Outcome(t) = IF v \in Rejecting(problem, x) THEN <<v>> ELSE <<>>
    BY <1>2, <2>1, <2>2 DEF Outcome, Accepts, Rejecting
  <2>6. k.errors \in TaskErrors
    BY TaskIsFunction DEF Tasks
  <2>7. k.errors \o Outcome(t) = IF v \in Rejecting(problem, x) THEN Append(k.errors, v)
                                 ELSE k.errors
    BY <2>2, <2>3, <2>6, FoundSoFar
  <2>4. Progress(problem, x, n + 1, k.errors \o Outcome(t))
    BY <1>1, <1>2, <1>3, <2>1, <2>7, OneMoreIsRun
  <2>5. task'[t].at - 1 = n + 1
    BY <1>2, <1>4, <1>6
  <2>. QED  BY <1>4, <1>6, <2>4, <2>5
<1>. QED  BY <1>5, <1>6

(* Only running a validator changes what was found.                        *)
LEMMA TasksProgressStep ==
  ASSUME IInv, JobsOK, ThreadsOK, [ChecksNext]_allVars
  PROVE  TasksProgress'
<1>0. problem' = problem /\ problem \in Problems
  BY MainStaysTyped DEF JobsOK
<1> SUFFICES ASSUME NEW t \in Threads, task'[t].job # None, task'[t].job.kind = "validate"
             PROVE  Progress(problem, task'[t].job.what, task'[t].at - 1, task'[t].errors)
  BY <1>0 DEF TasksProgress, Validating
<1>1. ASSUME task[t].job = task'[t].job, task[t].at = task'[t].at, task[t].errors = task'[t].errors
      PROVE  Progress(problem, task'[t].job.what, task'[t].at - 1, task'[t].errors)
  BY <1>1 DEF ThreadsOK, TasksProgress, Validating
<1>2. ASSUME NEW p, CallCompile(t, p)
      PROVE  Progress(problem, task'[t].job.what, task'[t].at - 1, task'[t].errors)
  BY <1>1, <1>2, TaskAfterCall
<1>3. CASE Leaves(t)
  BY <1>1, <1>3 DEF Leaves
<1>4. CASE Clears(t)
  BY <1>4 DEF Clears, Idle
<1>5. ASSUME task[t] = Idle, NEW j, task' = [task EXCEPT ![t].job = j]
      PROVE  Progress(problem, task'[t].job.what, task'[t].at - 1, task'[t].errors)
  <2>1. task'[t].at = 1 /\ task'[t].errors = <<>>
    BY <1>5, TaskAfterJobStarts
  <2>. QED  BY <1>0, <2>1, NothingFoundYet
<1>6. CASE TakeJob(t) /\ t \in Workers
  BY <1>5, <1>6 DEF TakeJob, ThreadsOK, IdleWorkers
<1>7. CASE t = Main /\ CheckDirectly
  BY <1>5, <1>7 DEF CheckDirectly, ThreadsOK, MainTask
<1>8. CASE CompileJob(t) \/ CallValidator(t) \/ (t = Main /\ (CallInputValidator \/ CallOutputValidator))
  BY <1>2, <1>8 DEF CompileJob, CallValidator, CallInputValidator, CallOutputValidator
<1>. QED
  BY <1>3, <1>4, <1>6, <1>7, <1>8, ValidatorIsRun, EveryStepIsThreadStep DEF ThreadStep

(* A worker's task is reset when it has no job.                            *)
LEMMA IdleWorkersStep ==
  ASSUME IInv, JobsOK, ThreadsOK, [ChecksNext]_allVars
  PROVE  IdleWorkers'
<1> SUFFICES ASSUME NEW t \in Workers, task'[t].job = None
             PROVE  task'[t] = Idle
  BY DEF IdleWorkers, Idle
<1>0. t \in Threads /\ t # Main /\ task[t] \in Tasks
  BY TaskIsFunction, MainIsThread DEF Workers
<1>1. task[t].job = None => task[t] = Idle
  BY DEF ThreadsOK, IdleWorkers
<1>2. CASE Leaves(t) \/ Clears(t)
  BY <1>1, <1>2 DEF Leaves, Clears
<1>3. CASE TakeJob(t)
  <2>1. task[t] = Idle /\ task' = [task EXCEPT ![t].job = Head(queue)]
    BY <1>1, <1>3 DEF TakeJob
  <2>2. task'[t] = [Idle EXCEPT !.job = Head(queue)]
    BY <1>0, <2>1 DEF JobsOK, TasksOK
  <2>. QED  BY <2>2 DEF Idle
<1>4. CASE CompileJob(t) \/ CallValidator(t) \/ RunValidator(t)
  <2>1. task[t].job # None
    BY <1>4 DEF CompileJob, CallValidator, RunValidator, Validating
  <2>2. task'[t].job = task[t].job
    BY <1>0, <1>4, TaskAfterCall, TaskAfterRun DEF CompileJob, CallValidator
  <2>. QED  BY <2>1, <2>2
<1>. QED  BY <1>0, <1>2, <1>3, <1>4, EveryStepIsThreadStep DEF ThreadStep

(* A call is for the next validator, which is run when it is back.         *)
LEMMA CallsAreForNextStep ==
  ASSUME IInv, JobsOK, ThreadsOK, [ChecksNext]_allVars
  PROVE  CallsAreForNext'
<1>0. problem' = problem
  BY MainStaysTyped
<1> SUFFICES ASSUME NEW t \in Threads, task'[t].job # None, task'[t].job.kind = "validate",
                    task'[t].called
             PROVE  /\ ~ (task'[t].at > Len(problem.validators))
                    /\ prog'[t] = problem.validators[task'[t].at]
  BY <1>0 DEF CallsAreForNext, Validating, Exhausted
<1>1. task[t] \in Tasks
  BY TaskIsFunction
<1>2. CASE Leaves(t)
  BY <1>2 DEF Leaves, ThreadsOK, CallsAreForNext, Validating, Exhausted
<1>3. CASE Clears(t)
  BY <1>3 DEF Clears, Idle
<1>4. ASSUME task[t] = Idle, NEW j, task' = [task EXCEPT ![t].job = j]
      PROVE  FALSE
  BY <1>4, TaskAfterJobStarts
<1>5. CASE TakeJob(t) /\ t \in Workers
  BY <1>4, <1>5 DEF TakeJob, ThreadsOK, IdleWorkers
<1>6. CASE t = Main /\ CheckDirectly
  BY <1>4, <1>6 DEF CheckDirectly, ThreadsOK, MainTask
<1>7. CASE CompileJob(t)
  <2>1. task'[t].job = task[t].job
    BY <1>7, TaskAfterCall DEF CompileJob
  <2>. QED  BY <1>7, <2>1 DEF CompileJob
<1>8. CASE t = Main /\ (CallInputValidator \/ CallOutputValidator)
  <2>1. task'[t].job = task[t].job
    BY <1>8, TaskAfterCall DEF CallInputValidator, CallOutputValidator
  <2>. QED  BY <1>8, <2>1 DEF CallInputValidator, CallOutputValidator, ThreadsOK, MainTask
<1>9. CASE CallValidator(t)
  <2>1. task'[t].at = task[t].at
    BY <1>9, TaskAfterCall DEF CallValidator
  <2>2. prog'[t] = problem.validators[task[t].at]
    BY <1>9, ProgramStays DEF CallValidator, CallCompile, IInv, TypeOK
  <2>. QED  BY <1>9, <2>1, <2>2 DEF CallValidator, Exhausted
<1>10. CASE RunValidator(t)
  BY <1>10, TaskAfterRun
<1>. QED
  BY <1>2, <1>3, <1>5, <1>6, <1>7, <1>8, <1>9, <1>10, EveryStepIsThreadStep DEF ThreadStep

(* A call that begins is not back; one that is back was answered.          *)
LEMMA CallsGetAnswersStep ==
  ASSUME IInv, FateInv, JobsOK, ThreadsOK, [ChecksNext]_allVars
  PROVE  CallsGetAnswers'
<1> SUFFICES ASSUME NEW t \in Threads, task'[t].called, pc'[t] = "idle"
             PROVE  Answered(t)'
  BY DEF CallsGetAnswers
<1>1. CASE task[t].called
  BY <1>1, ChecksStepIsCompileStep, CallsAreAnswered DEF ThreadsOK, CallsGetAnswers
<1>2. ASSUME ~ task[t].called, NEW p, CallCompile(t, p)
      PROVE  FALSE
  BY <1>2 DEF CallCompile, Call, Goto, IInv, TypeOK
<1>3. CASE Leaves(t) \/ Clears(t) \/ RunValidator(t)
  BY <1>1, <1>3, TaskAfterRun DEF Leaves, Clears, Idle
<1>4. CASE TakeJob(t) /\ t \in Workers
  BY <1>4, TaskAfterJobStarts DEF TakeJob, ThreadsOK, IdleWorkers
<1>5. CASE t = Main /\ CheckDirectly
  BY <1>5, TaskAfterJobStarts DEF CheckDirectly, ThreadsOK, MainTask
<1>6. CASE CompileJob(t) \/ CallValidator(t) \/ (t = Main /\ (CallInputValidator \/ CallOutputValidator))
  BY <1>1, <1>2, <1>6 DEF CompileJob, CallValidator, CallInputValidator, CallOutputValidator
<1>. QED  BY <1>3, <1>4, <1>5, <1>6, EveryStepIsThreadStep DEF ThreadStep

(* Only programs of the package are compiled.                              *)
LEMMA OnlyInvolvedCompileStep ==
  ASSUME IInv, JobsOK, ThreadsOK, [ChecksNext]_allVars
  PROVE  OnlyInvolvedCompile'
<1>0. problem' = problem /\ InvolvedPrograms' = InvolvedPrograms
  BY MainStaysTyped DEF InvolvedPrograms
<1> USE DEF IInv, TypeOK, Goto, Attempted
<1>1. CASE UNCHANGED vars
  BY <1>0, <1>1 DEF vars, OnlyInvolvedCompile, ThreadsOK
<1>2. ASSUME NEW u \in Threads, NEW p \in InvolvedPrograms, Call(u, p)
      PROVE  OnlyInvolvedCompile'
  BY <1>0, <1>2 DEF Call, OnlyInvolvedCompile, ThreadsOK
<1>3. ASSUME NEW u \in Threads, Continue(u)
      PROVE  OnlyInvolvedCompile'
  <2>1. pc[u] # "idle" /\ prog' = prog
    BY <1>3 DEF Continue, UseResult, StartCompile, LookForName, MakeNamed, NameIsTaken,
                MakeTemporary, MakeWorkspace, Build, Leave
  <2>2. \A t \in Threads : pc'[t] = "idle" \/ t = u \/ pc'[t] = pc[t]
    BY <1>3 DEF Continue, UseResult, StartCompile, LookForName, MakeNamed, NameIsTaken,
                MakeTemporary, MakeWorkspace, Build, Leave
  <2>3. attempts' = attempts \/ attempts' = [attempts EXCEPT ![prog[u]] = @ + 1]
    BY <1>3 DEF Continue, UseResult, StartCompile, LookForName, MakeNamed, NameIsTaken,
                MakeTemporary, MakeWorkspace, Build, Leave
  <2>4. prog[u] \in InvolvedPrograms
    BY <2>1 DEF ThreadsOK, OnlyInvolvedCompile
  <2>5. \A t \in Threads : pc'[t] # "idle" => prog'[t] \in InvolvedPrograms'
    BY <1>0, <2>1, <2>2, <2>4 DEF ThreadsOK, OnlyInvolvedCompile
  <2>6. \A q \in Programs : attempts'[q] > 0 => q \in InvolvedPrograms'
    BY <1>0, <2>3, <2>4 DEF ThreadsOK, OnlyInvolvedCompile
  <2>. QED  BY <2>5, <2>6 DEF OnlyInvolvedCompile
<1>. QED  BY <1>1, <1>2, <1>3, ChecksStepCompilesInvolved

(* Workers change nothing of the main thread's.                            *)
WorkersLeave ==
  /\ UNCHANGED <<problem, stage, at, found, reports>>
  /\ task'[Main] = task[Main] /\ prog'[Main] = prog[Main]

(* No step of a worker does.                                               *)
LEMMA WorkersLeaveMain ==
  ASSUME IInv, JobsOK, (\E w \in Workers : WorkerStep(w)) \/ UNCHANGED allVars
  PROVE  WorkersLeave
<1>1. ASSUME NEW w \in Workers, WorkerStep(w)
      PROVE  WorkersLeave
  <2>1. w \in Threads /\ w # Main /\ Main \in Threads
    BY MainIsThread DEF Workers
  <2>2. UNCHANGED <<problem, stage, at, found, reports>>
    BY <1>1 DEF WorkerStep, TakeJob, CompileJob, FinishCompileJob, CallValidator, RunValidator,
                FinishJob, CompileStep, checkVars
  <2>3. task'[Main] = task[Main]
    BY <1>1, <2>1
       DEF WorkerStep, TakeJob, CompileJob, FinishCompileJob, CallValidator, RunValidator,
           FinishJob, CompileStep, checkVars, CallCompile, JobsOK, TasksOK
  <2>4. \/ UNCHANGED vars
        \/ Continue(w)
        \/ \E p : Call(w, p)
    BY <1>1 DEF WorkerStep, TakeJob, CompileJob, FinishCompileJob, CallValidator, RunValidator,
                FinishJob, CompileStep, CallCompile
  <2>5. prog'[Main] = prog[Main]
    BY <2>1, <2>4, ProgramStays
  <2>. QED  BY <2>2, <2>3, <2>5 DEF WorkersLeave
<1>2. CASE UNCHANGED allVars
  BY <1>2, ProgramStays, MainIsThread DEF WorkersLeave, allVars, checkVars
<1>. QED  BY <1>1, <1>2

(* The main thread has a job during the walk only.                         *)
LEMMA MainTaskStep ==
  ASSUME IInv, JobsOK, ThreadsOK, [ChecksNext]_allVars
  PROVE  MainTask'
<1>0. Main \in Threads /\ problem' = problem /\ Tests' = Tests
  BY MainIsThread, MainStaysTyped DEF Tests
<1>1. MainTask
  BY DEF ThreadsOK
<1> USE <1>0
<1>2. ASSUME UNCHANGED <<problem, stage, at>>, task'[Main] = task[Main], prog'[Main] = prog[Main]
      PROVE  MainTask'
  BY <1>1, <1>2 DEF MainTask
<1>3. ASSUME stage' \in Stages, task'[Main] = Idle
      PROVE  MainTask'
  BY <1>3 DEF MainTask, Idle
<1>4. CASE NoteInputValidator \/ TestOutputValidator \/ OutputValidatorFails \/ CheckAnswers
  <2>1. stage' \in Stages
    BY <1>1, <1>4 DEF NoteInputValidator, TestOutputValidator, OutputValidatorFails, CheckAnswers,
         AfterValidators, MainTask, Stages
  <2>2. task'[Main] = Idle
    BY <1>4 DEF NoteInputValidator, TestOutputValidator, OutputValidatorFails, CheckAnswers,
         JobsOK, TasksOK
  <2>. QED  BY <1>3, <2>1, <2>2
<1>5. CASE FinishDirectly
  <2>1. task'[Main] = Idle /\ stage' = stage
    BY <1>5 DEF FinishDirectly, JobsOK, TasksOK
  <2>. QED  BY <1>1, <1>3, <2>1 DEF MainTask
<1>6. CASE Start \/ Precompute \/ StartWalk
  <2>1. task[Main] = Idle /\ task' = task
    BY <1>1, <1>6 DEF Start, Precompute, StartWalk, MainTask
  <2>2. stage' \in Stages
    BY <1>6 DEF Start, Precompute, StartWalk, AfterValidators, Stages
  <2>. QED  BY <1>3, <2>1, <2>2
<1>7. CASE TestInputValidators \/ CheckOutputValidator \/ NoOutputValidator
  <2>1. task[Main].job = None /\ task' = task
    BY <1>1, <1>7 DEF TestInputValidators, CheckOutputValidator, NoOutputValidator, MainTask
  <2>2. stage' \in {"output", "compiling", "stopped"}
    BY <1>7 DEF TestInputValidators, CheckOutputValidator, NoOutputValidator
  <2>. QED  BY <2>1, <2>2 DEF MainTask, Stages
<1>8. CASE FinishWalk
  <2>1. task[Main].job = None /\ task' = task
    <3>1. at \in Nat /\ Len(Tests) \in Nat
      BY TestsAreTests DEF JobsOK, MainOK
    <3>. QED  BY <1>1, <1>8, <3>1 DEF FinishWalk, MainTask
  <2>2. stage' \in {"done", "answers"}
    BY <1>8 DEF FinishWalk
  <2>. QED  BY <2>1, <2>2 DEF MainTask, Stages
<1>9. CASE TakeFuture
  BY <1>1, <1>9 DEF TakeFuture, MainTask, vars, Stages
<1>10. CASE CallInputValidator
  <2>1. task'[Main].job = task[Main].job
    BY <1>10, TaskAfterCall DEF CallInputValidator
  <2>2. prog'[Main] = problem.validators[at]
    BY <1>10, ProgramStays DEF CallInputValidator, CallCompile, IInv, TypeOK
  <2>. QED  BY <1>1, <1>10, <2>1, <2>2 DEF CallInputValidator, MainTask
<1>11. CASE CallOutputValidator
  <2>1. task'[Main].job = task[Main].job
    BY <1>11, TaskAfterCall DEF CallOutputValidator
  <2>. QED  BY <1>1, <1>11, <2>1 DEF CallOutputValidator, MainTask
<1>12. CASE CallValidator(Main) \/ RunValidator(Main)
  <2>1. task'[Main].job = task[Main].job /\ task[Main].job # None
    BY <1>12, TaskAfterCall, TaskAfterRun DEF CallValidator, RunValidator, Validating
  <2>2. UNCHANGED <<stage, at>>
    BY <1>12 DEF CallValidator, RunValidator
  <2>. QED  BY <1>1, <2>1, <2>2 DEF MainTask
<1>13. CASE CheckDirectly
  <2>1. /\ task[Main] = Idle /\ UNCHANGED <<stage, at>>
        /\ task' = [task EXCEPT ![Main].job = Job("validate", Tests[at])]
        /\ stage = "walk" /\ at <= Len(Tests)
    BY <1>1, <1>13 DEF CheckDirectly, MainTask
  <2>2. task'[Main] = [Idle EXCEPT !.job = Job("validate", Tests[at])]
    BY <2>1 DEF JobsOK, TasksOK
  <2>3. task'[Main].job = Job("validate", Tests[at])
    BY <2>1, TaskAfterJobStarts
  <2>4. task'[Main].job = None => task'[Main] = Idle
    BY <2>2 DEF Idle
  <2>. QED  BY <2>1, <2>3, <2>4 DEF MainTask, Stages
<1>14. CASE CompileStep(Main)
  BY <1>2, <1>14, ProgramStays DEF CompileStep, checkVars
<1>15. CASE (\E w \in Workers : WorkerStep(w)) \/ UNCHANGED allVars
  BY <1>2, <1>15, WorkersLeaveMain DEF WorkersLeave
<1>. QED
  BY <1>4, <1>5, <1>6, <1>7, <1>8, <1>9, <1>10, <1>11, <1>12, <1>13, <1>14, <1>15
     DEF ChecksNext, MainStep

(* The invariant of the threads, without what they find.                   *)
LEMMA ThreadsOKStep ==
  ASSUME IInv, FateInv, JobsOK, ThreadsOK, [ChecksNext]_allVars
  PROVE  ThreadsOK'
BY MainTaskStep, IdleWorkersStep, TasksProgressStep, CallsAreForNextStep, CallsGetAnswersStep,
   OnlyInvolvedCompileStep DEF ThreadsOK

(* So the threads are as they should be throughout.                        *)
LEMMA ThreadsAreOK == ChecksSafety => [](ThreadsOK /\ JobsOK /\ IInv /\ FateInv)
<1>1. ChecksInit => ThreadsOK
  <2> SUFFICES ASSUME ChecksInit PROVE ThreadsOK
    OBVIOUS
  <2>1. \A t \in Threads : task[t] = Idle /\ pc[t] = "idle"
    BY DEF ChecksInit, Init
  <2>2. MainTask
    BY <2>1, MainIsThread DEF ChecksInit, MainTask, Stages, Idle
  <2>3. \A t \in Threads : ~ Validating(t) /\ ~ task[t].called
    BY <2>1 DEF Validating, Idle
  <2>5. IdleWorkers /\ TasksProgress /\ CallsAreForNext /\ CallsGetAnswers
    BY <2>1, <2>3, MainIsThread DEF IdleWorkers, TasksProgress, CallsAreForNext, CallsGetAnswers
  <2>4. OnlyInvolvedCompile
    BY <2>1 DEF OnlyInvolvedCompile, ChecksInit, Init, Attempted
  <2>. QED  BY <2>2, <2>4, <2>5 DEF ThreadsOK
<1>2. IInv /\ FateInv /\ JobsOK /\ ThreadsOK /\ [ChecksNext]_allVars => ThreadsOK'
  BY ThreadsOKStep
<1>3. ChecksSafety => []IInv /\ []FateInv
  BY ChecksUseCompile, InvariantHolds, FateHolds, PTL
<1>. QED  BY <1>1, <1>2, <1>3, ChecksTyped, PTL DEF ChecksSafety

(* What the cache of the workers and the walk hold is what validating      *)
(* finds, once all validators have been run.                               *)
FuturesGood ==
  /\ DOMAIN futures = ToSet(AllTests)
  /\ \A x \in ToSet(AllTests) : futures[x] \notin {None, Unset} => Validated(problem, x, futures[x])

WalkedTo(i) ==
  \/ stage = "walk" /\ i < at
  \/ stage = "answers"
  \/ stage = "done" /\ Active("data")

FoundGood ==
  /\ DOMAIN found = ToSet(AllTests)
  /\ \A i \in 1 .. Len(Tests) : WalkedTo(i) => Validated(problem, Tests[i], found[Tests[i]])

(* A thread that has run all validators has validated its input.           *)
LEMMA ExhaustedIsValidated ==
  ASSUME JobsOK, ThreadsOK, NEW t \in Threads, Validating(t), Exhausted(t)
  PROVE  Validated(problem, task[t].job.what, task[t].errors)
<1> DEFINE N == Len(problem.validators)
           n == task[t].at - 1
<1>1. N \in Nat
  BY ChecksAssumption DEF JobsOK
<1>2. task[t].at \in Nat \ {0}
  BY DEF JobsOK, TasksOK, Tasks
<1>3. Progress(problem, task[t].job.what, n, task[t].errors)
  BY DEF ThreadsOK, TasksProgress
<1>4. n \in 0 .. N
  <2> HIDE DEF n
  <2>. QED  BY <1>1, <1>3 DEF Progress
<1>5. n = N
  BY <1>1, <1>2, <1>4 DEF Exhausted
<1>. QED  BY <1>3, <1>5 DEF Validated

(* Only a worker that has run all validators sets a future.                *)
LEMMA FuturesGoodStep ==
  ASSUME IInv, JobsOK, ThreadsOK, FuturesGood, [ChecksNext]_allVars
  PROVE  FuturesGood'
<1>0. problem' = problem
  BY MainStaysTyped
<1>1. CASE futures' = futures
  BY <1>0, <1>1 DEF FuturesGood
<1>2. CASE Precompute
  BY <1>0, <1>2 DEF Precompute, FuturesGood
<1>3. ASSUME NEW w \in Threads, FinishJob(w)
      PROVE  FuturesGood'
  <2> DEFINE y == task[w].job.what
             e == task[w].errors
  <2>1. Validated(problem, y, e)
    BY <1>3, ExhaustedIsValidated DEF FinishJob
  <2>2. futures' = [futures EXCEPT ![y] = e]
    BY <1>3 DEF FinishJob
  <2> HIDE DEF y, e
  <2>. QED  BY <1>0, <2>1, <2>2 DEF FuturesGood
<1>4. ASSUME NEW w \in Threads, WorkerStep(w) \/ CallValidator(w) \/ RunValidator(w)
      PROVE  futures' = futures \/ FinishJob(w)
  BY <1>4 DEF WorkerStep, TakeJob, CompileJob, FinishCompileJob, CallValidator, RunValidator,
              CompileStep, checkVars
<1>5. CASE MainStep
  <2>1. futures' = futures \/ Precompute
    BY <1>4, <1>5, MainIsThread
       DEF MainStep, Start, CallInputValidator, NoteInputValidator, TestInputValidators,
           CheckOutputValidator, CallOutputValidator, TestOutputValidator, OutputValidatorFails,
           StartWalk, NoOutputValidator, TakeFuture, CheckDirectly, CallValidator, RunValidator,
           FinishDirectly, FinishWalk, CheckAnswers, CompileStep, checkVars
  <2>. QED  BY <1>1, <1>2, <2>1
<1>6. CASE UNCHANGED allVars
  BY <1>1, <1>6 DEF allVars, checkVars
<1>. QED  BY <1>1, <1>3, <1>4, <1>5, <1>6, MainIsThread DEF ChecksNext

(* The walk takes what was found for the test case it is at.               *)
LEMMA FoundGoodStep ==
  ASSUME IInv, JobsOK, ThreadsOK, FuturesGood, FoundGood, [ChecksNext]_allVars
  PROVE  FoundGood'
<1>0. /\ problem' = problem /\ Tests' = Tests /\ problem \in Problems
      /\ Len(Tests) \in Nat /\ at \in Nat \ {0}
      /\ \A i \in 1 .. Len(Tests) : Tests[i] \in ToSet(AllTests)
  BY MainStaysTyped, TestsAreTests DEF Tests, JobsOK, MainOK
<1> USE <1>0
<1>1. ASSUME found' = found, \A i \in 1 .. Len(Tests) : WalkedTo(i)' => WalkedTo(i)
      PROVE  FoundGood'
  BY <1>1 DEF FoundGood
<1>2. ASSUME UNCHANGED <<stage, at, found>>
      PROVE  FoundGood'
  BY <1>1, <1>2 DEF WalkedTo, Active
<1>3. ASSUME found' = found, stage' \notin {"walk", "answers", "done"}
      PROVE  FoundGood'
  BY <1>1, <1>3 DEF WalkedTo
<1>4. ASSUME stage = "walk", stage' = stage, at <= Len(Tests), at' = at + 1,
             NEW e, found' = [found EXCEPT ![Tests[at]] = e], Validated(problem, Tests[at], e)
      PROVE  FoundGood'
  <2>1. DOMAIN found' = ToSet(AllTests)
    BY <1>4 DEF FoundGood
  <2> SUFFICES ASSUME NEW i \in 1 .. Len(Tests), i < at + 1
               PROVE  Validated(problem, Tests[i], found'[Tests[i]])
    BY <1>4, <2>1 DEF FoundGood, WalkedTo
  <2>2. Tests[i] \in DOMAIN found
    BY DEF FoundGood
  <2>3. CASE Tests[i] = Tests[at]
    BY <1>4, <2>2, <2>3
  <2>4. CASE Tests[i] # Tests[at]
    <3>1. i < at
      BY <2>4
    <3>2. Validated(problem, Tests[i], found[Tests[i]])
      BY <1>4, <3>1 DEF FoundGood, WalkedTo
    <3>. QED  BY <1>4, <2>2, <2>4, <3>2
  <2>. QED  BY <2>3, <2>4
<1>5. CASE TakeFuture
  <2>1. at \in 1 .. Len(Tests)
    BY <1>5 DEF TakeFuture
  <2>2. Validated(problem, Tests[at], futures[Tests[at]])
    BY <1>5, <2>1 DEF TakeFuture, FuturesGood
  <2>. QED  BY <1>4, <1>5, <2>2 DEF TakeFuture
<1>6. CASE FinishDirectly
  <2>1. task[Main].job # None /\ Validated(problem, task[Main].job.what, task[Main].errors)
    BY <1>6, ExhaustedIsValidated, MainIsThread DEF FinishDirectly, Validating
  <2>2. /\ stage = "walk" /\ at <= Len(Tests)
        /\ task[Main].job.what = Tests[at]
    BY <2>1 DEF ThreadsOK, MainTask, Job
  <2>. QED  BY <1>4, <1>6, <2>1, <2>2 DEF FinishDirectly
<1>7. CASE Precompute \/ StartWalk
  <2>1. found' = found /\ stage' = "walk" /\ at' = 1
    BY <1>7 DEF Precompute, StartWalk
  <2>. QED  BY <1>1, <2>1 DEF WalkedTo
<1>8. CASE FinishWalk
  <2>1. found' = found /\ stage = "walk" /\ at > Len(Tests)
    BY <1>8 DEF FinishWalk
  <2>2. \A i \in 1 .. Len(Tests) : WalkedTo(i)
    BY <2>1 DEF WalkedTo
  <2>. QED  BY <1>1, <2>1, <2>2
<1>9. CASE CheckAnswers
  <2>1. found' = found /\ stage = "answers"
    BY <1>9 DEF CheckAnswers
  <2>. QED  BY <1>1, <2>1 DEF WalkedTo
<1>10. CASE Start \/ TestOutputValidator
  <2>1. /\ found' = found /\ stage' \notin {"walk", "answers"}
        /\ stage' = "done" => ~ Active("data")
    BY <1>10 DEF Start, TestOutputValidator, AfterValidators
  <2>. QED  BY <1>1, <2>1 DEF WalkedTo, Active
<1>11. CASE TestInputValidators \/ CheckOutputValidator \/ OutputValidatorFails \/ NoOutputValidator
              \/ NoteInputValidator
  <2>1. found' = found /\ stage' \notin {"walk", "answers", "done"}
    BY <1>11 DEF TestInputValidators, CheckOutputValidator, OutputValidatorFails, NoOutputValidator,
         NoteInputValidator
  <2>. QED  BY <1>3, <2>1
<1>12. CASE CallInputValidator \/ CallOutputValidator \/ CallValidator(Main) \/ RunValidator(Main)
              \/ CheckDirectly \/ CompileStep(Main)
  BY <1>2, <1>12 DEF CallInputValidator, CallOutputValidator, CallValidator, RunValidator,
     CheckDirectly, CompileStep, checkVars
<1>13. CASE (\E w \in Workers : WorkerStep(w)) \/ UNCHANGED allVars
  BY <1>2, <1>13, WorkersLeaveMain DEF WorkersLeave
<1>. QED
  BY <1>5, <1>6, <1>7, <1>8, <1>9, <1>10, <1>11, <1>12, <1>13 DEF ChecksNext, MainStep

(* So this holds throughout.                                               *)
LEMMA InputsAreGood == ChecksSafety => [](FuturesGood /\ FoundGood)
<1>1. ChecksInit => FuturesGood /\ FoundGood
  BY DEF ChecksInit, FuturesGood, FoundGood, WalkedTo
<1>2. IInv /\ JobsOK /\ ThreadsOK /\ FuturesGood /\ FoundGood /\ [ChecksNext]_allVars
        => (FuturesGood /\ FoundGood)'
  BY FuturesGoodStep, FoundGoodStep
<1>. QED  BY <1>1, <1>2, ThreadsAreOK, PTL DEF ChecksSafety

(* What the walk reports about an input is what one thread would find, all *)
(* validators run in order, however the workers, the background compiles   *)
(* and the main thread interleave; only programs of one name in the        *)
(* package can spoil it.                                                   *)
THEOREM InputsAreValidated == ChecksSafety => []EachInputIsValidated
<1>1. JobsOK /\ FoundGood => EachInputIsValidated
  <2> SUFFICES ASSUME JobsOK, FoundGood, stage \in {"answers", "done"}, Active("data"),
                      NEW x \in ToSet(Tests)
               PROVE  found[x] = FoundAlone(x) \/ (NamesClash /\ found[x] = <<Internal>>)
    BY DEF EachInputIsValidated
  <2>1. PICK i \in 1 .. Len(Tests) : x = Tests[i]
    <3>1. DOMAIN Tests = 1 .. Len(Tests)
      BY TestsAreTests
    <3>. QED  BY <3>1 DEF ToSet
  <2>2. Validated(problem, x, found[x])
    BY <2>1 DEF FoundGood, WalkedTo
  <2>. QED  BY <2>2, AllAreRun DEF JobsOK
<1>. QED  BY <1>1, ChecksTyped, InputsAreGood, PTL

-----------------------------------------------------------------------------
(* When nothing was reported so far, what the checks behind it have seen   *)
(* was in order.                                                           *)
NoErrors == \A r \in reports : r.level # "error"
NoWarnings == \A r \in reports : r.level # "warning"

StartsAtFirst == stage = "start" => at = 1
StopsForAnError == stage = "stopped" => ~ NoErrors

AfterInput == {"output", "compiling", "data", "walk", "answers", "done"}
AfterOutput == {"data", "walk", "answers", "done"}
AllCompile(n) == \A i \in 1 .. n : Fate[problem.validators[i]] = "compiles"

ValidatorsCompile ==
  Active("validators") /\ NoErrors =>
    /\ stage = "input" => at <= Len(problem.validators) + 1 /\ AllCompile(at - 1)
    /\ stage \in AfterInput => problem.validators # <<>> /\ AllCompile(Len(problem.validators))

JunkIsRejected == \A j \in Junk, f \in Flags : ~ AllAccept(j, f)
JunkOutputsAreRejected ==
  \A out \in JunkOutputs : \E t \in ToSet(AllTests) : problem.verdict[<<out, t>>] # "AC"

ValidatorsAreStrict ==
  Active("validators") /\ NoErrors /\ NoWarnings =>
    /\ stage \in AfterInput => JunkIsRejected
    /\ stage \in AfterOutput => JunkOutputsAreRejected

SampleAnswersAccepted ==
  \A t \in ToSet(Tests) \intersect Sample : problem.verdict[<<"answer", t>>] = "AC"

SamplesAreAccepted ==
  stage = "done" /\ Active("data") /\ NoErrors /\ ~ problem.interactive => SampleAnswersAccepted

SilenceOK == /\ StartsAtFirst /\ StopsForAnError
             /\ ValidatorsCompile /\ ValidatorsAreStrict /\ SamplesAreAccepted

(* Nothing that was reported is taken back.                                *)
LEMMA ReportsGrow ==
  ASSUME [ChecksNext]_allVars
  PROVE  stage = "start" \/ reports \subseteq reports'
<1>1. ASSUME NEW w, WorkerStep(w) \/ CallValidator(w) \/ RunValidator(w)
      PROVE  reports' = reports
  BY <1>1 DEF WorkerStep, TakeJob, CompileJob, FinishCompileJob, CallValidator, RunValidator,
              FinishJob, CompileStep, checkVars
<1>2. CASE MainStep
  <2>1. CASE CallInputValidator \/ NoteInputValidator \/ TestInputValidators
               \/ CheckOutputValidator \/ CallOutputValidator \/ TestOutputValidator
               \/ OutputValidatorFails
    BY <2>1 DEF CallInputValidator, NoteInputValidator, TestInputValidators,
         CheckOutputValidator, CallOutputValidator, TestOutputValidator, OutputValidatorFails
  <2>2. CASE Precompute \/ StartWalk \/ NoOutputValidator \/ TakeFuture \/ CheckDirectly
               \/ FinishDirectly \/ FinishWalk \/ CheckAnswers \/ CompileStep(Main)
    BY <2>2 DEF Precompute, StartWalk, NoOutputValidator, TakeFuture, CheckDirectly, FinishDirectly,
         FinishWalk, CheckAnswers, CompileStep, checkVars
  <2>3. CASE Start
    BY <2>3 DEF Start
  <2>. QED  BY <1>1, <1>2, <2>1, <2>2, <2>3 DEF MainStep
<1>. QED  BY <1>1, <1>2 DEF ChecksNext, allVars, checkVars

(* So when nothing is reported after a step, nothing was before.           *)
LEMMA SilenceLasts ==
  ASSUME [ChecksNext]_allVars, stage # "start"
  PROVE  /\ NoErrors' => NoErrors
         /\ NoWarnings' => NoWarnings
BY ReportsGrow DEF NoErrors, NoWarnings

(* A report that is made is there.                                         *)
LEMMA ReportIsMade ==
  ASSUME NEW level, NEW part, NEW what, Report(level, part, what) \in reports'
  PROVE  (level = "error" => ~ NoErrors') /\ (level = "warning" => ~ NoWarnings')
BY DEF NoErrors, NoWarnings, Report

(* The steps that only move on keep everything.                            *)
LEMMA QuietSteps ==
  ASSUME IInv, JobsOK, ThreadsOK, SilenceOK, [ChecksNext]_allVars,
         \/ UNCHANGED <<problem, stage, at, reports>>
         \/ Precompute \/ StartWalk \/ TakeFuture \/ FinishDirectly \/ FinishWalk
  PROVE  SilenceOK'
<1> USE DEF SilenceOK, StartsAtFirst, StopsForAnError, ValidatorsCompile, ValidatorsAreStrict, SamplesAreAccepted,
            NoErrors, NoWarnings, AllCompile, JunkIsRejected, JunkOutputsAreRejected, Active,
            SampleAnswersAccepted, Tests, AllAccept, Accepts, AfterInput, AfterOutput, Flags
<1>1. CASE UNCHANGED <<problem, stage, at, reports>>
  BY <1>1
<1>2. CASE Precompute \/ StartWalk
  BY <1>2 DEF Precompute, StartWalk
<1>3. CASE TakeFuture
  BY <1>3 DEF TakeFuture
<1>4. CASE FinishDirectly
  <2>1. stage = "walk"
    BY <1>4 DEF FinishDirectly, Validating, ThreadsOK, MainTask
  <2>2. UNCHANGED <<problem, stage, reports>>
    BY <1>4 DEF FinishDirectly
  <2>. QED  BY <2>1, <2>2
<1>5. CASE FinishWalk
  <2>1. /\ stage = "walk" /\ stage' \in {"done", "answers"} /\ UNCHANGED <<problem, reports>>
        /\ stage' = "done" => problem.interactive \/ Tests = <<>>
    BY <1>5 DEF FinishWalk
  <2>2. Tests = <<>> => ToSet(Tests) = {}
    BY DEF ToSet
  <2>. QED  BY <2>1, <2>2
<1>. QED  BY <1>1, <1>2, <1>3, <1>4, <1>5

(* The cases a test of an output is tried on are test cases.               *)
LEMMA TriedAreTests ==
  ASSUME NEW out
  PROVE  ToSet(Tried(out)) \subseteq ToSet(AllTests)
<1> DEFINE given == IF out \in JunkOutputs \/ Len(AllTests) < FewTestcases THEN AllTests
                    ELSE SubSeq(AllTests, 1, FewTestcases)
           I == {i \in 1 .. Len(given) : problem.verdict[<<out, given[i]>>] = "JE"}
           first == IF I # {} THEN Min(I) ELSE 0
<1>1. AllTests \in Seq(ToSet(AllTests)) /\ Len(AllTests) \in Nat
  BY ListsAssumption, ElementsAreIn
<1>2. given \in Seq(ToSet(AllTests))
  <2>1. CASE Len(AllTests) < FewTestcases \/ out \in JunkOutputs
    BY <1>1, <2>1
  <2>2. CASE ~ (Len(AllTests) < FewTestcases \/ out \in JunkOutputs)
    <3>1. FewTestcases \in 0 .. Len(AllTests)
      BY <1>1, <2>2 DEF FewTestcases
    <3>2. SubSeq(AllTests, 1, FewTestcases) \in Seq(ToSet(AllTests))
      BY <1>1, <3>1, StartIsSeq DEF FewTestcases
    <3>. QED  BY <2>2, <3>2
  <2>. QED  BY <2>1, <2>2
<1>3. Tried(out) = IF first = 0 THEN given ELSE SubSeq(given, 1, first)
  BY DEF Tried, SelectInSeq
<1> HIDE DEF given
<1>4. first = 0 \/ first \in 1 .. Len(given)
  <2>1. CASE I = {}
    BY <2>1
  <2>2. CASE I # {}
    <3>1. Min(I) \in I
      <4>1. I \subseteq Nat
        OBVIOUS
      <4> HIDE DEF I
      <4>. QED  BY <2>2, <4>1, MinIsLeast
    <3>. QED  BY <2>2, <3>1
  <2>. QED  BY <2>1, <2>2
<1> HIDE DEF first
<1>5. Tried(out) \in Seq(ToSet(AllTests))
  <2>1. CASE first = 0
    BY <1>2, <1>3, <2>1
  <2>2. CASE first \in 1 .. Len(given)
    <3>1. SubSeq(given, 1, first) \in Seq(ToSet(AllTests))
      BY <1>2, <2>2, StartIsSeq
    <3>. QED  BY <1>3, <2>2, <3>1
  <2>. QED  BY <1>4, <2>1, <2>2
<1>. QED  BY <1>5, ElementsAreIn

(* A fatal start is an error; otherwise the first part begins.             *)
LEMMA StartIsSilent ==
  ASSUME JobsOK, SilenceOK, Start
  PROVE  SilenceOK'
<1>1. problem' = problem /\ at' = at /\ at = 1 /\ stage' # "start"
  BY DEF Start, SilenceOK, StartsAtFirst, AfterValidators
<1>2. CASE stage' = "stopped"
  <2>1. Report("error", "start", <<"no validator">>) \in reports'
    BY <1>2 DEF Start, AfterValidators
  <2>. QED  BY <1>2, <2>1, ReportIsMade
         DEF SilenceOK, StartsAtFirst, StopsForAnError, ValidatorsCompile, ValidatorsAreStrict,
             SamplesAreAccepted, AfterInput, AfterOutput
<1>3. CASE stage' = "input"
  <2>1. at' = 1 /\ Len(problem'.validators) \in Nat
    BY <1>1, ChecksAssumption DEF JobsOK
  <2>2. AllCompile(at - 1)'
    BY <2>1 DEF AllCompile
  <2>. QED  BY <1>3, <2>1, <2>2
         DEF SilenceOK, StartsAtFirst, StopsForAnError, ValidatorsCompile, ValidatorsAreStrict,
             SamplesAreAccepted, AfterInput, AfterOutput
<1>4. CASE stage' \in {"data", "done"}
  <2>1. ~ Active("validators")' /\ (stage' = "done" => ~ Active("data")')
    BY <1>1, <1>4 DEF Start, AfterValidators, Active
  <2>. QED  BY <1>4, <2>1
         DEF SilenceOK, StartsAtFirst, StopsForAnError, ValidatorsCompile, ValidatorsAreStrict,
             SamplesAreAccepted
<1>5. stage' \in {"stopped", "input", "data", "done"}
  BY DEF Start, AfterValidators
<1>. QED  BY <1>2, <1>3, <1>4, <1>5

(* An input validator that compiles is counted, and any other reported.    *)
LEMMA NoteIsSilent ==
  ASSUME IInv, JobsOK, ThreadsOK, SilenceOK, [ChecksNext]_allVars, NoteInputValidator
  PROVE  SilenceOK'
<1> DEFINE N == Len(problem.validators)
<1>0. /\ problem' = problem /\ stage = "input" /\ at' = at + 1 /\ stage' \in {"input", "crashed"}
      /\ N \in Nat /\ at \in Nat \ {0}
  BY ChecksAssumption, MainStaysTyped DEF NoteInputValidator, JobsOK, MainOK
<1>1. /\ task[Main].called /\ pc[Main] = "idle" /\ at <= N /\ prog[Main] = problem.validators[at]
      /\ Answered(Main)
  BY <1>0, MainIsThread
     DEF NoteInputValidator, Returned, ThreadsOK, MainTask, CallsGetAnswers
<1>2. ASSUME NoErrors'
      PROVE  Compiled(Main)
  <2> SUFFICES ASSUME ~ Compiled(Main)
               PROVE  FALSE
    OBVIOUS
  <2>1. Report("error", "input", <<problem.validators[at]>>) \in reports'
    BY DEF NoteInputValidator
  <2>. QED  BY <1>2, <2>1, ReportIsMade
<1>3. ASSUME NoErrors', Active("validators")', stage' = "input"
      PROVE  at' <= Len(problem'.validators) + 1 /\ AllCompile(at - 1)'
  <2>1. Fate[problem.validators[at]] = "compiles"
    BY <1>1, <1>2, <1>3, AnswerTells, MainIsThread
  <2>2. AllCompile(at - 1)
    BY <1>0, <1>3, SilenceLasts DEF SilenceOK, ValidatorsCompile, Active
  <2>3. \A i \in 1 .. at : Fate[problem.validators[i]] = "compiles"
    BY <1>0, <2>1, <2>2 DEF AllCompile
  <2>4. at' - 1 = at
    BY <1>0
  <2>. QED  BY <1>0, <1>1, <2>3, <2>4 DEF AllCompile
<1>. QED
  BY <1>0, <1>3 DEF SilenceOK, StartsAtFirst, StopsForAnError, ValidatorsCompile,
     ValidatorsAreStrict, SamplesAreAccepted, AfterInput, AfterOutput

(* The tests of the input validators warn of junk that they accept.        *)
LEMMA InputTestsAreSilent ==
  ASSUME JobsOK, ThreadsOK, SilenceOK, [ChecksNext]_allVars, TestInputValidators
  PROVE  SilenceOK'
<1> DEFINE N == Len(problem.validators)
           none == IF problem.validators = <<>> THEN {Report("error", "input", <<"none">>)} ELSE {}
<1>0. /\ problem' = problem /\ stage = "input" /\ stage' = "output"
      /\ N \in Nat /\ at > N /\ at \in Nat
  BY ChecksAssumption DEF TestInputValidators, JobsOK, MainOK
<1>1. reports' = reports \union none
                   \union (IF Errors("input") \union none = {} THEN JunkReports ELSE {})
  BY DEF TestInputValidators
<1>2. ASSUME NoErrors', Active("validators")
      PROVE  problem.validators # <<>> /\ AllCompile(N)
  <2>1. problem.validators # <<>>
    <3> SUFFICES ASSUME problem.validators = <<>>
                 PROVE  FALSE
      OBVIOUS
    <3>1. Report("error", "input", <<"none">>) \in reports'
      BY <1>1
    <3>. QED  BY <1>2, <3>1, ReportIsMade
  <2>2. at <= N + 1 /\ AllCompile(at - 1)
    BY <1>0, <1>2, SilenceLasts DEF SilenceOK, ValidatorsCompile
  <2>3. at - 1 = N
    BY <1>0, <2>2
  <2>. QED  BY <2>1, <2>2, <2>3
<1>3. ASSUME NoErrors', NoWarnings', Active("validators")
      PROVE  JunkIsRejected
  <2> SUFFICES ASSUME NEW j \in Junk, NEW f \in Flags, AllAccept(j, f)
               PROVE  FALSE
    BY DEF JunkIsRejected
  <2>1. Errors("input") = {} /\ none = {}
    BY <1>0, <1>2, <1>3, SilenceLasts DEF Errors, NoErrors
  <2>2. JunkReports \subseteq reports'
    BY <1>1, <2>1
  <2>3. <<j, f>> \in {y \in Junk \X Flags : AllAccept(y[1], y[2])}
    OBVIOUS
  <2>4. Report("warning", "input", <<j, f>>) \in JunkReports
    BY <2>3 DEF JunkReports
  <2>. QED  BY <1>3, <2>2, <2>4, ReportIsMade
<1>4. /\ Active("validators")' <=> Active("validators")
      /\ AllCompile(Len(problem.validators))' <=> AllCompile(N)
      /\ JunkIsRejected' <=> JunkIsRejected
  BY <1>0 DEF Active, AllCompile, JunkIsRejected, AllAccept, Accepts, Flags
<1>. QED
  BY <1>0, <1>2, <1>3, <1>4 DEF SilenceOK, StartsAtFirst, StopsForAnError, ValidatorsCompile,
     ValidatorsAreStrict, SamplesAreAccepted, AfterInput, AfterOutput

(* What is kept when the problem, and what was seen of its validators,     *)
(* stays.                                                                  *)
LEMMA SeenStays ==
  ASSUME problem' = problem
  PROVE  /\ \A part : Active(part)' <=> Active(part)
         /\ AllCompile(Len(problem.validators))' <=> AllCompile(Len(problem.validators))
         /\ JunkIsRejected' <=> JunkIsRejected
         /\ JunkOutputsAreRejected' <=> JunkOutputsAreRejected
         /\ SampleAnswersAccepted' <=> SampleAnswersAccepted
BY DEF Active, AllCompile, JunkIsRejected, AllAccept, Accepts, Flags, JunkOutputsAreRejected,
       SampleAnswersAccepted, Tests

(* The checks end early only with an error.                                *)
LEMMA OutputCheckIsSilent ==
  ASSUME JobsOK, SilenceOK, [ChecksNext]_allVars, CheckOutputValidator
  PROVE  SilenceOK'
<1>0. problem' = problem /\ stage = "output" /\ stage' \in {"stopped", "compiling"}
  BY DEF CheckOutputValidator
<1>1. ASSUME stage' = "stopped"
      PROVE  ~ NoErrors'
  <2>1. OutputReports \subseteq reports'
    BY DEF CheckOutputValidator
  <2>2. CASE Selected = None
    <3>1. Report("error", "output", <<"no validator">>) \in OutputReports
      BY <2>2 DEF OutputReports
    <3>. QED  BY <2>1, <3>1, ReportIsMade
  <2>3. CASE Selected # None
    <3>1. ~ UsesDefault /\ problem.output = <<>>
      BY <1>1, <2>3 DEF CheckOutputValidator
    <3>2. UsesDefault = (problem.output # <<>>)
      <4>1. UsesDefault \in BOOLEAN \/ UsesDefault = FALSE
        BY <3>1 DEF UsesDefault
      <4>. QED  BY <3>1, <4>1 DEF UsesDefault
    <3>3. Report("error", "output", <<"validation">>) \in OutputReports
      BY <2>3, <3>2 DEF OutputReports
    <3>. QED  BY <2>1, <3>3, ReportIsMade
  <2>. QED  BY <2>2, <2>3
<1>. QED
  BY <1>0, <1>1, SilenceLasts, SeenStays DEF SilenceOK, StartsAtFirst, StopsForAnError,
     ValidatorsCompile, ValidatorsAreStrict, SamplesAreAccepted, AfterInput, AfterOutput

(* So do the steps that find no output validator, or one that fails.       *)
LEMMA OutputFailureIsSilent ==
  ASSUME JobsOK, SilenceOK, [ChecksNext]_allVars, OutputValidatorFails \/ NoOutputValidator
  PROVE  SilenceOK'
<1>0. stage \in {"compiling", "data"} /\ stage' \in {"stopped", "crashed"}
  BY DEF OutputValidatorFails, NoOutputValidator
<1>1. ASSUME stage' = "stopped"
      PROVE  ~ NoErrors'
  <2>1. \/ Report("error", "output", <<Selected>>) \in reports'
        \/ Report("error", "data", <<"no validator">>) \in reports'
    BY <1>1 DEF OutputValidatorFails, NoOutputValidator
  <2>. QED  BY <2>1, ReportIsMade
<1>. QED
  BY <1>0, <1>1 DEF SilenceOK, StartsAtFirst, StopsForAnError,
     ValidatorsCompile, ValidatorsAreStrict, SamplesAreAccepted, AfterInput, AfterOutput

(* The test of the output validator warns of junk that it accepts.         *)
LEMMA OutputTestIsSilent ==
  ASSUME JobsOK, SilenceOK, [ChecksNext]_allVars, TestOutputValidator
  PROVE  SilenceOK'
<1>0. /\ problem' = problem /\ stage = "compiling" /\ stage' \in {"data", "done"}
      /\ stage' = "done" => ~ Active("data")
  BY DEF TestOutputValidator, AfterValidators
<1>1. ASSUME NoErrors', NoWarnings'
      PROVE  JunkOutputsAreRejected
  <2> SUFFICES ASSUME NEW out \in JunkOutputs,
                      \A t \in ToSet(AllTests) : problem.verdict[<<out, t>>] = "AC"
               PROVE  FALSE
    BY DEF JunkOutputsAreRejected
  <2>1. Errors("output") = {}
    BY <1>0, <1>1, SilenceLasts DEF Errors, NoErrors
  <2>2. JunkOutputReports \subseteq reports'
    BY <2>1 DEF TestOutputValidator
  <2>3. \A t \in ToSet(Tried(out)) : problem.verdict[<<out, t>>] = "AC"
    BY TriedAreTests
  <2>4. Report("warning", "output", <<out>>) \in JunkOutputReports
    BY <2>3 DEF JunkOutputReports
  <2>. QED  BY <1>1, <2>2, <2>4, ReportIsMade
<1>. QED
  BY <1>0, <1>1, SilenceLasts, SeenStays DEF SilenceOK, StartsAtFirst, StopsForAnError,
     ValidatorsCompile, ValidatorsAreStrict, SamplesAreAccepted, AfterInput, AfterOutput

(* A sample answer that is not accepted is an error, and so is every       *)
(* answer if the output validator does not compile.                        *)
LEMMA AnswersAreSilent ==
  ASSUME JobsOK, SilenceOK, [ChecksNext]_allVars, CheckAnswers
  PROVE  SilenceOK'
<1> DEFINE verdict == [t \in ToSet(Tests) |->
                         IF OutputFailed THEN "JE" ELSE problem.verdict[<<"answer", t>>]]
<1>0. problem' = problem /\ stage = "answers" /\ stage' \in {"crashed", "done"}
  BY MainStaysTyped DEF CheckAnswers
<1>1. ASSUME stage' = "done", NoErrors'
      PROVE  SampleAnswersAccepted
  <2> SUFFICES ASSUME NEW t \in ToSet(Tests) \intersect Sample,
                      problem.verdict[<<"answer", t>>] # "AC"
               PROVE  FALSE
    BY DEF SampleAnswersAccepted
  <2>1. AnswerReports(verdict) \subseteq reports'
    BY <1>1 DEF CheckAnswers
  <2>2. verdict[t] = "JE" \/ (t \in Sample /\ verdict[t] # "AC")
    OBVIOUS
  <2> HIDE DEF verdict
  <2>3. Report("error", "answers", <<t>>) \in AnswerReports(verdict)
    BY <2>2 DEF AnswerReports
  <2>. QED  BY <1>1, <2>1, <2>3, ReportIsMade
<1>. QED
  BY <1>0, <1>1, SilenceLasts, SeenStays DEF SilenceOK, StartsAtFirst, StopsForAnError,
     ValidatorsCompile, ValidatorsAreStrict, SamplesAreAccepted, AfterInput, AfterOutput

(* All steps together.                                                     *)
LEMMA SilenceStep ==
  ASSUME IInv, JobsOK, ThreadsOK, SilenceOK, [ChecksNext]_allVars
  PROVE  SilenceOK'
<1>1. CASE (\E w \in Workers : WorkerStep(w)) \/ UNCHANGED allVars
  BY <1>1, WorkersLeaveMain, QuietSteps DEF WorkersLeave
<1>2. CASE CallInputValidator \/ CallOutputValidator \/ CallValidator(Main) \/ RunValidator(Main)
             \/ CheckDirectly \/ CompileStep(Main)
  <2>1. UNCHANGED <<problem, stage, at, reports>>
    BY <1>2 DEF CallInputValidator, CallOutputValidator, CallValidator, RunValidator,
       CheckDirectly, CompileStep, checkVars
  <2>. QED  BY <2>1, QuietSteps
<1>3. CASE Precompute \/ StartWalk \/ TakeFuture \/ FinishDirectly \/ FinishWalk
  BY <1>3, QuietSteps
<1>. QED
  BY <1>1, <1>2, <1>3, StartIsSilent, NoteIsSilent, InputTestsAreSilent, OutputCheckIsSilent,
     OutputFailureIsSilent, OutputTestIsSilent, AnswersAreSilent DEF ChecksNext, MainStep

(* So silence means that all was in order throughout.                      *)
LEMMA ChecksAreSilent == ChecksSafety => []SilenceOK
<1>1. ChecksInit => SilenceOK
  BY DEF ChecksInit, SilenceOK, StartsAtFirst, StopsForAnError, ValidatorsCompile,
     ValidatorsAreStrict, SamplesAreAccepted, AfterInput, AfterOutput
<1>2. IInv /\ JobsOK /\ ThreadsOK /\ SilenceOK /\ [ChecksNext]_allVars => SilenceOK'
  BY SilenceStep
<1>. QED  BY <1>1, <1>2, ThreadsAreOK, PTL DEF ChecksSafety

(* When the checks of validators and of data report no error, there are    *)
(* validators, each accepts every selected input, and the sample answers   *)
(* are accepted; when there is no warning either, the validators reject    *)
(* junk.                                                                   *)
THEOREM SilenceIsValidity == ChecksSafety => []SilenceMeansValid
<1>1. JobsOK /\ SilenceOK /\ EachInputIsValidated => SilenceMeansValid
  <2> SUFFICES ASSUME JobsOK, SilenceOK, EachInputIsValidated,
                      stage \in {"done", "stopped"}, {"validators", "data"} \subseteq problem.parts,
                      Silent("error")
               PROVE  /\ problem.validators # <<>>
                      /\ \A t \in ToSet(Tests) : AllAccept(t, FlagsOf[t])
                      /\ ~ problem.interactive => SampleAnswersAccepted
                      /\ Silent("warning") => JunkIsRejected /\ JunkOutputsAreRejected
    BY DEF SilenceMeansValid, SampleAnswersAccepted, JunkIsRejected, JunkOutputsAreRejected
  <2>1. /\ NoErrors /\ Active("validators") /\ Active("data")
        /\ \A t \in ToSet(Tests) : found[t] = <<>>
        /\ Silent("warning") => NoWarnings
    BY DEF Silent, NoErrors, NoWarnings, Active
  <2>2. stage = "done"
    BY <2>1 DEF SilenceOK, StopsForAnError
  <2>3. /\ problem.validators # <<>> /\ AllCompile(Len(problem.validators))
        /\ ~ problem.interactive => SampleAnswersAccepted
        /\ NoWarnings => JunkIsRejected /\ JunkOutputsAreRejected
    BY <2>1, <2>2 DEF SilenceOK, ValidatorsCompile, ValidatorsAreStrict, SamplesAreAccepted,
       AfterInput, AfterOutput
  <2>4. ASSUME NEW t \in ToSet(Tests)
        PROVE  AllAccept(t, FlagsOf[t])
    <3>1. FoundAlone(t) = <<>>
      <4>1. <<>> # <<Internal>>
        OBVIOUS
      <4>. QED  BY <2>1, <2>2, <4>1 DEF EachInputIsValidated
    <3>2. \A i \in 1 .. Len(problem.validators) :
            Accepts(problem.validators[i], t, FlagsOf[t])
      BY <2>3, <3>1, NothingFound DEF AllCompile, JobsOK
    <3>3. DOMAIN problem.validators = 1 .. Len(problem.validators)
      BY ChecksAssumption, ElementsAreIn DEF JobsOK
    <3>. QED  BY <3>2, <3>3 DEF AllAccept, ToSet
  <2>. QED  BY <2>1, <2>3, <2>4
<1>. QED  BY <1>1, ChecksTyped, ChecksAreSilent, InputsAreValidated, PTL
=============================================================================
