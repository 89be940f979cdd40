--------------------------- MODULE ValidatorChecks ---------------------------
(***************************************************************************)
(* The checks of validators and of the inputs they validate                *)
(* (checks/validators.py, and of checks/testdata.py what concerns single   *)
(* test cases).  The main thread compiles and tests the validators, then   *)
(* walks over the test cases; workers compile programs in the background,  *)
(* and validate test cases for the walk (InputValidationCache).  All of    *)
(* them call Program.compile.                                              *)
(*                                                                         *)
(* An input is a member of a set, and a validator rejects it or not; a     *)
(* crash is a rejection.  The default output validator is an installed     *)
(* program, whose compile does nothing.  Sizes and line breaks of files,   *)
(* and checks of other parts, are left out.                                *)
(***************************************************************************)
EXTENDS ProgramCompile, SequencesExt

CONSTANTS
  Main,            \* the main thread
  Problems,        \* the packages, with the command line they are checked with
  AllTests,        \* the test cases in the order of the walk
  Matching,        \* those that the data filter selects
  Sample,          \* those in the sample group
  FlagsOf,         \* input_validator_flags of each test case
  Submissions,     \* programs of the submissions to be checked
  Junk, Modified,  \* fixed junk inputs, and inputs made from a test case
  JunkOutputs, CrashOutputs,
  Default,         \* the default output validator
  Unset            \* a future that is not done

(* The elements of a list that are in a set, in the order of the list.     *)
Among(list, set) ==
  LET kept[n \in 0 .. Len(list)] ==
        IF n = 0 THEN <<>>
        ELSE IF list[n] \in set THEN Append(kept[n - 1], list[n]) ELSE kept[n - 1]
  IN  kept[Len(list)]

Workers == Threads \ {Main}
Tests == Among(AllTests, Matching)
Flags == {FlagsOf[t] : t \in ToSet(AllTests)}
Internal == "internal error"

ASSUME ChecksAssumption ==
  /\ Main \in Threads /\ Default \notin Programs /\ None \notin Programs
  /\ \A p \in Problems : /\ p.validators \in Seq(Programs) /\ p.output \in Seq(Programs)
                         /\ p.modifiable \subseteq Modified

ASSUME ListsAssumption ==
  AllTests \in Seq(DOMAIN FlagsOf) /\ Submissions \in Seq(Programs)

VARIABLES
  problem,    \* what is checked
  stage, at,  \* where the main thread is
  task,       \* the job of each thread: where it is, and the errors found
  queue,      \* the executor's queue
  futures,    \* InputValidationCache._futures by test case
  found,      \* what the walk reported about each test case
  reports     \* what was reported otherwise

checkVars == <<problem, stage, at, task, queue, futures, found, reports>>
allVars == <<vars, checkVars>>

Idle == [job |-> None, at |-> 1, called |-> FALSE, errors |-> <<>>]
Job(kind, what) == [kind |-> kind, what |-> what]

Active(part) == part \in problem.parts
Report(level, part, what) == [level |-> level, part |-> part, what |-> what]
Errors(part) == {r \in reports : r.level = "error" /\ r.part = part}

(* Returned says that a call of compile has come back; Compiled, that it   *)
(* gave a result that is a success.                                        *)
Returned(t) == task[t].called /\ pc[t] = "idle"
Threw(t) == answer[t] \in {Raised, NameTaken}
Compiled(t) == ~ Threw(t) /\ answer[t].success

CallCompile(t, p) ==
  /\ ~ task[t].called
  /\ Call(t, p)
  /\ task' = [task EXCEPT ![t].called = TRUE]

Accepts(v, input, flags) == <<v, input, flags>> \notin problem.rejects
AllAccept(input, flags) == \A v \in ToSet(problem.validators) : Accepts(v, input, flags)

-----------------------------------------------------------------------------
(* OutputValidators (model/validators.py).                                 *)
UsesDefault == IF problem.legacy THEN problem.wants_default ELSE problem.output = <<>>

Selected ==
  IF UsesDefault \/ problem.output = <<>>
  THEN IF problem.installed THEN Default ELSE None
  ELSE problem.output[1]

(* The programs compiled in the background; a missing output validator is  *)
(* fatal before its own job is queued.                                     *)
BackgroundCompiles ==
  LET output == IF Selected \in Programs THEN <<Selected>> ELSE <<>>
  IN  (IF Active("validators") THEN problem.validators \o output ELSE <<>>)
        \o (IF Active("submissions") /\ Selected # None THEN output \o Submissions ELSE <<>>)

AfterValidators == IF Active("data") THEN "data" ELSE "done"

Start ==
  /\ stage = "start"
  /\ LET fatal == /\ problem.executor /\ Selected = None
                  /\ Active("validators") \/ Active("submissions")
     IN  /\ stage' = IF fatal THEN "stopped"
                     ELSE IF Active("validators") THEN "input" ELSE AfterValidators
         /\ reports' = IF fatal THEN {Report("error", "start", <<"no validator">>)} ELSE {}
  /\ queue' = IF problem.executor
              THEN [i \in DOMAIN BackgroundCompiles |-> Job("compile", BackgroundCompiles[i])]
              ELSE <<>>
  /\ UNCHANGED <<vars, problem, at, task, futures, found>>

-----------------------------------------------------------------------------
(* The executor.                                                           *)
TakeJob(w) ==
  /\ task[w].job = None
  /\ queue # <<>>
  /\ queue' = Tail(queue)
  /\ task' = [task EXCEPT ![w].job = Head(queue)]
  /\ UNCHANGED <<vars, problem, stage, at, futures, found, reports>>

CompileJob(w) ==
  /\ task[w].job # None
  /\ task[w].job.kind = "compile"
  /\ CallCompile(w, task[w].job.what)
  /\ UNCHANGED <<problem, stage, at, queue, futures, found, reports>>

FinishCompileJob(w) ==
  /\ task[w].job # None
  /\ task[w].job.kind = "compile"
  /\ Returned(w)
  /\ task' = [task EXCEPT ![w] = Idle]
  /\ UNCHANGED <<vars, problem, stage, at, queue, futures, found, reports>>

(* _compute_testcase_input_errors, in a worker or in the main thread: each *)
(* validator is compiled and run.  A validator that does not compile is    *)
(* passed over; an exception replaces all that was found.                  *)
Validating(t) == task[t].job # None /\ task[t].job.kind = "validate"
Exhausted(t) == task[t].at > Len(problem.validators)

CallValidator(t) ==
  /\ Validating(t)
  /\ ~ Exhausted(t)
  /\ CallCompile(t, problem.validators[task[t].at])
  /\ UNCHANGED <<problem, stage, at, queue, futures, found, reports>>

Outcome(t) ==
  LET v == problem.validators[task[t].at]
      input == task[t].job.what
  IN  IF Compiled(t) /\ ~ Accepts(v, input, FlagsOf[input]) THEN <<v>> ELSE <<>>

(* Mutant of RunValidator: one rejection is enough.                        *)
RunValidatorUntilRejected(t) ==
  /\ Validating(t)
  /\ ~ Exhausted(t)
  /\ Returned(t)
  /\ LET stop == Threw(t) \/ Outcome(t) # <<>>
     IN  task' = [task EXCEPT ![t] =
           [job |-> @.job, called |-> FALSE,
            at |-> IF stop THEN Len(problem.validators) + 1 ELSE @.at + 1,
            errors |-> IF Threw(t) THEN <<Internal>> ELSE @.errors \o Outcome(t)]]
  /\ UNCHANGED <<vars, problem, stage, at, queue, futures, found, reports>>

RunValidator(t) ==
  /\ Validating(t)
  /\ ~ Exhausted(t)
  /\ Returned(t)
  /\ task' = [task EXCEPT ![t] =
       [job |-> @.job, called |-> FALSE,
        at |-> IF Threw(t) THEN Len(problem.validators) + 1 ELSE @.at + 1,
        errors |-> IF Threw(t) THEN <<Internal>> ELSE @.errors \o Outcome(t)]]
  /\ UNCHANGED <<vars, problem, stage, at, queue, futures, found, reports>>

FinishJob(w) ==
  /\ w # Main
  /\ Validating(w)
  /\ Exhausted(w)
  /\ futures' = [futures EXCEPT ![task[w].job.what] = task[w].errors]
  /\ task' = [task EXCEPT ![w] = Idle]
  /\ UNCHANGED <<vars, problem, stage, at, queue, found, reports>>

-----------------------------------------------------------------------------
(* check_input_validators: a ProgramError is reported, any other exception *)
(* ends the program.                                                       *)
CallInputValidator ==
  /\ stage = "input"
  /\ at <= Len(problem.validators)
  /\ CallCompile(Main, problem.validators[at])
  /\ UNCHANGED <<problem, stage, at, queue, futures, found, reports>>

(* Mutant of NoteInputValidator: only exceptions are reported.             *)
NoteExceptionOnly ==
  /\ stage = "input"
  /\ Returned(Main)
  /\ stage' = IF answer[Main] = NameTaken THEN "crashed" ELSE stage
  /\ reports' = IF ~ Threw(Main) THEN reports
                ELSE reports \union {Report("error", "input", <<problem.validators[at]>>)}
  /\ at' = at + 1
  /\ task' = [task EXCEPT ![Main] = Idle]
  /\ UNCHANGED <<vars, problem, queue, futures, found>>

NoteInputValidator ==
  /\ stage = "input"
  /\ Returned(Main)
  /\ stage' = IF answer[Main] = NameTaken THEN "crashed" ELSE stage
  /\ reports' = IF Compiled(Main) THEN reports
                ELSE reports \union {Report("error", "input", <<problem.validators[at]>>)}
  /\ at' = at + 1
  /\ task' = [task EXCEPT ![Main] = Idle]
  /\ UNCHANGED <<vars, problem, queue, futures, found>>

(* Junk has to be rejected under all flags there are, a modified input     *)
(* under any; validators are only tested if all of them compile.           *)
JunkReports ==
  {Report("warning", "input", x) : x \in {y \in Junk \X Flags : AllAccept(y[1], y[2])}}
    \union {Report("warning", "input", <<m>>) :
              m \in {x \in problem.modifiable : \A f \in Flags : AllAccept(x, f)}}

TestInputValidators ==
  /\ stage = "input"
  /\ at > Len(problem.validators)
  /\ stage' = "output"
  /\ at' = 1
  /\ LET none == IF problem.validators = <<>> THEN {Report("error", "input", <<"none">>)} ELSE {}
     IN  reports' = reports \union none
                      \union (IF Errors("input") \union none = {} THEN JunkReports ELSE {})
  /\ UNCHANGED <<vars, problem, task, queue, futures, found>>

-----------------------------------------------------------------------------
(* check_output_validators.  What was an error in newer formats is a       *)
(* warning in the legacy format.                                           *)
ErrorIn2023 == IF problem.legacy THEN "warning" ELSE "error"

OutputReports ==
  (IF Len(problem.output) > 1 THEN {Report(ErrorIn2023, "output", <<"several">>)} ELSE {})
    \union (IF Selected = None THEN {Report("error", "output", <<"no validator">>)}
            ELSE (IF Selected # Default /\ ~ problem.standard
                  THEN {Report(ErrorIn2023, "output", <<"language">>)} ELSE {})
                   \union (IF UsesDefault = (problem.output # <<>>)
                           THEN {Report("error", "output", <<"validation">>)} ELSE {}))

CheckOutputValidator ==
  /\ stage = "output"
  /\ reports' = reports \union OutputReports
  /\ stage' = IF Selected = None \/ (~ UsesDefault /\ problem.output = <<>>)
              THEN "stopped" ELSE "compiling"
  /\ UNCHANGED <<vars, problem, at, task, queue, futures, found>>

CallOutputValidator ==
  /\ stage \in {"compiling", "answers"}
  /\ Selected # Default
  /\ CallCompile(Main, Selected)
  /\ UNCHANGED <<problem, stage, at, queue, futures, found, reports>>

OutputReady == Selected = Default \/ (Returned(Main) /\ Compiled(Main))
OutputFailed == Selected # Default /\ Returned(Main) /\ ~ Compiled(Main)

(* Each junk output is tried on the test cases until one is a judge error; *)
(* it should be rejected by some.  Others only should give no judge error, *)
(* and are tried on a few test cases.                                      *)
FewTestcases == 3

Tried(out) ==
  LET given == IF out \in JunkOutputs \/ Len(AllTests) < FewTestcases THEN AllTests
               ELSE SubSeq(AllTests, 1, FewTestcases)
      first == SelectInSeq(given, LAMBDA t : problem.verdict[<<out, t>>] = "JE")
  IN  IF first = 0 THEN given ELSE SubSeq(given, 1, first)

JunkOutputReports ==
  {Report("error", "output", x) :
     x \in {y \in (JunkOutputs \union CrashOutputs) \X ToSet(AllTests) :
              problem.verdict[y] = "JE" /\ y[2] \in ToSet(Tried(y[1]))}}
    \union {Report("warning", "output", <<out>>) :
              out \in {x \in JunkOutputs : \A t \in ToSet(Tried(x)) : problem.verdict[<<x, t>>] = "AC"}}

TestOutputValidator ==
  /\ stage = "compiling"
  /\ OutputReady
  /\ reports' = reports \union (IF Errors("output") = {} THEN JunkOutputReports ELSE {})
  /\ stage' = AfterValidators
  /\ task' = [task EXCEPT ![Main] = Idle]
  /\ UNCHANGED <<vars, problem, at, queue, futures, found>>

OutputValidatorFails ==
  /\ stage = "compiling"
  /\ OutputFailed
  /\ stage' = IF answer[Main] = NameTaken THEN "crashed" ELSE "stopped"
  /\ reports' = IF answer[Main] = NameTaken THEN reports
                ELSE reports \union {Report("error", "output", <<Selected>>)}
  /\ task' = [task EXCEPT ![Main] = Idle]
  /\ UNCHANGED <<vars, problem, at, queue, futures, found>>

-----------------------------------------------------------------------------
Precompute ==
  /\ stage = "data"
  /\ Selected # None
  /\ problem.executor
  /\ stage' = "walk"
  /\ at' = 1
  /\ queue' = queue \o [i \in DOMAIN Tests |-> Job("validate", Tests[i])]
  /\ futures' = [t \in ToSet(AllTests) |-> IF t \in Matching THEN Unset ELSE None]
  /\ UNCHANGED <<vars, problem, task, found, reports>>

StartWalk ==
  /\ stage = "data"
  /\ Selected # None
  /\ ~ problem.executor
  /\ stage' = "walk"
  /\ at' = 1
  /\ UNCHANGED <<vars, problem, task, queue, futures, found, reports>>

NoOutputValidator ==
  /\ stage = "data"
  /\ Selected = None
  /\ stage' = "stopped"
  /\ reports' = reports \union {Report("error", "data", <<"no validator">>)}
  /\ UNCHANGED <<vars, problem, at, task, queue, futures, found>>

(* ... and the walk waits for each job, or validates the test case itself. *)
TakeFuture ==
  /\ stage = "walk"
  /\ at <= Len(Tests)
  /\ task[Main].job = None
  /\ futures[Tests[at]] \notin {None, Unset}
  /\ found' = [found EXCEPT ![Tests[at]] = futures[Tests[at]]]
  /\ at' = at + 1
  /\ UNCHANGED <<vars, problem, stage, task, queue, futures, reports>>

CheckDirectly ==
  /\ stage = "walk"
  /\ at <= Len(Tests)
  /\ futures[Tests[at]] = None
  /\ task[Main].job = None
  /\ task' = [task EXCEPT ![Main].job = Job("validate", Tests[at])]
  /\ UNCHANGED <<vars, problem, stage, at, queue, futures, found, reports>>

FinishDirectly ==
  /\ Validating(Main)
  /\ Exhausted(Main)
  /\ found' = [found EXCEPT ![Tests[at]] = task[Main].errors]
  /\ at' = at + 1
  /\ task' = [task EXCEPT ![Main] = Idle]
  /\ UNCHANGED <<vars, problem, stage, queue, futures, reports>>

(* _check_answers, for the problems that have answers to check.            *)
FinishWalk ==
  /\ stage = "walk"
  /\ at > Len(Tests)
  /\ stage' = IF problem.interactive \/ Tests = <<>> THEN "done" ELSE "answers"
  /\ UNCHANGED <<vars, problem, at, task, queue, futures, found, reports>>

AnswerReports(verdict) ==
  LET secret == ToSet(Tests) \ Sample
      rejected == {t \in secret : verdict[t] # "AC"}
  IN  {Report("error", "answers", <<t>>) :
         t \in {x \in ToSet(Tests) : verdict[x] = "JE" \/ (x \in Sample /\ verdict[x] # "AC")}}
        \union (IF rejected # {} /\ rejected # secret
                THEN {Report("warning", "answers", <<"some">>)} ELSE {})

(* An output validator that does not compile makes every answer a judge    *)
(* error; an exception ends the program.                                   *)
CheckAnswers ==
  /\ stage = "answers"
  /\ OutputReady \/ OutputFailed
  /\ LET verdict == [t \in ToSet(Tests) |->
                       IF OutputFailed THEN "JE" ELSE problem.verdict[<<"answer", t>>]]
         crash == OutputFailed /\ Threw(Main)
     IN  /\ stage' = IF crash THEN "crashed" ELSE "done"
         /\ reports' = IF crash THEN reports ELSE reports \union AnswerReports(verdict)
  /\ task' = [task EXCEPT ![Main] = Idle]
  /\ UNCHANGED <<vars, problem, at, queue, futures, found>>

-----------------------------------------------------------------------------
ChecksInit ==
  /\ Init
  /\ problem \in Problems
  /\ stage = "start"
  /\ at = 1
  /\ task = [t \in Threads |-> Idle]
  /\ queue = <<>>
  /\ futures = [t \in ToSet(AllTests) |-> None]
  /\ found = [t \in ToSet(AllTests) |-> <<>>]
  /\ reports = {}

CompileStep(t) == Continue(t) /\ UNCHANGED checkVars

WorkerStep(w) ==
  \/ TakeJob(w) \/ CompileJob(w) \/ FinishCompileJob(w)
  \/ CallValidator(w) \/ RunValidator(w) \/ FinishJob(w) \/ CompileStep(w)

MainStep ==
  \/ Start \/ CallInputValidator \/ NoteInputValidator \/ TestInputValidators
  \/ CheckOutputValidator \/ CallOutputValidator \/ TestOutputValidator \/ OutputValidatorFails
  \/ Precompute \/ StartWalk \/ NoOutputValidator \/ TakeFuture
  \/ CheckDirectly \/ CallValidator(Main) \/ RunValidator(Main) \/ FinishDirectly
  \/ FinishWalk \/ CheckAnswers \/ CompileStep(Main)

ChecksNext == MainStep \/ \E w \in Workers : WorkerStep(w)

(* Threads are scheduled; compilers and validators end.                    *)
ChecksFairness == WF_allVars(MainStep) /\ \A w \in Workers : WF_allVars(WorkerStep(w))

ChecksSafety == ChecksInit /\ [][ChecksNext]_allVars
ChecksSpec == ChecksSafety /\ ChecksFairness

-----------------------------------------------------------------------------
(* What the walk reports about each input is what one thread would find:   *)
(* every validator that compiles and rejects it, in order.  Validators     *)
(* whose compile raises spoil the rest, and so, now and then, do programs  *)
(* of one name that compile at the same time.                              *)
InvolvedPrograms == ToSet(problem.validators) \union ToSet(problem.output) \union ToSet(Submissions)
NamesClash == \E p, q \in InvolvedPrograms : p # q /\ NameOf[p] = NameOf[q]

FoundAlone(t) ==
  IF \E v \in ToSet(problem.validators) : Fate[v] = "raises" THEN <<Internal>>
  ELSE Among(problem.validators,
             {v \in Programs : Fate[v] = "compiles" /\ ~ Accepts(v, t, FlagsOf[t])})

EachInputIsValidated ==
  stage \in {"answers", "done"} /\ Active("data") =>
    \A t \in ToSet(Tests) :
      found[t] = FoundAlone(t) \/ (NamesClash /\ found[t] = <<Internal>>)

(* When the checks of validators and of data report no error, then there   *)
(* are validators, all of them accept every selected input, and the sample *)
(* answers are accepted; without warnings, validators are not too lenient. *)
Silent(level) ==
  /\ \A r \in reports : r.level # level
  /\ level = "error" => \A t \in ToSet(Tests) : found[t] = <<>>

SilenceMeansValid ==
  stage \in {"done", "stopped"} /\ {"validators", "data"} \subseteq problem.parts /\ Silent("error") =>
    /\ problem.validators # <<>>
    /\ \A t \in ToSet(Tests) : AllAccept(t, FlagsOf[t])
    /\ ~ problem.interactive =>
         \A t \in ToSet(Tests) \intersect Sample : problem.verdict[<<"answer", t>>] = "AC"
    /\ Silent("warning") =>
         /\ \A j \in Junk, f \in Flags : ~ AllAccept(j, f)
         /\ \A out \in JunkOutputs : \E t \in ToSet(AllTests) : problem.verdict[<<out, t>>] # "AC"

(* The checks end, however the workers and the main thread wait for locks  *)
(* and for each other, and no job is left over.                            *)
ChecksEnd ==
  <>(/\ stage \in {"done", "stopped", "crashed"}
     /\ queue = <<>>
     /\ \A w \in Workers : task[w] = Idle)

(* A validator that does not compile is passed over when inputs are        *)
(* validated because it was already reported.                              *)
PassedOverWereReported ==
  stage = "done" /\ Active("data") /\ Tests # <<>> =>
    \A v \in ToSet(problem.validators) :
      Fate[v] = "fails" => \E r \in reports : r.level = "error" /\ r.what = <<v>>
==============================================================================
