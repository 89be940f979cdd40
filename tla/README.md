# A TLA+ development of problemtools

problemtools verifies, runs and packages programming-contest problems. This
directory holds TLA+ models of the part of it that decides: how a package is
read, from the configuration of the languages to the samples in a statement; how
`verifyproblem` judges the submissions of a problem on a pool of worker threads,
reuses results between time limits, executes interactive and multi-pass
problems, compiles programs, computes time limits and score ranges, and stops
when it is interrupted. TLC checks the models on small instances; TLAPS proves the core of
them for every instance. All paths below are relative to `src/problemtools/`
unless they start with `src/`.

## 1. The system

```
verifyproblem.main                         ProblemVerifier
  load_problem      (model/problem.py)       LoadPackage
    load_language_config, load_metadata      Configuration, Metadata
    find_programs, detect_language (run/)    Languages
    statements, samples, include files       Statements, PackageChecks
  ProblemVerifier.check, for each problem    ProblemVerifier
    package, config, statement, attachment,  LoadPackage,
      grader and include checks (checks/)      PackageChecks
    check_input/output_validators          ValidatorChecks
    check_testdata  (checks/testdata.py)   ScoreRange ............... Answer
      InputValidationCache, _check_answers ValidatorChecks
    check_submissions (checks/submissions) CheckSubmissions ......... of
      SubmissionsJudge / SubmissionJudge   SubmissionJudge  ==>  SequentialJudge
        ResultStore  (judge/cache.py)      ResultStore
        grade_group  (judge/grade.py)      Grading, TestTree
        execute_testcase (judge/execute)   ExecuteTestcase
          _validate_output (judge/validate)
          src/support/interactive          InteractiveRunner
        Program.compile (run/)             ProgramCompile
  Context: executor, futures, Ctrl-C       ProblemVerifier
```

### Components, their state, their operations

| Component | State | Operations | Hard behaviour |
|---|---|---|---|
| Result store `judge/cache.py` | per reuse key: a completed result and the limit it ran at, or a future in flight; a lock | `claim`, `get`, `complete` | several threads; results stored at one limit and served at another; a future that completes while it is asked for |
| Submission judge `judge/submission_judge.py` | executor queue, `_cancelled`, the recursion of `_judge_group` | `precompute`, `judge`, `_judge_group`, `_run_testcase` | a worker and the judge want the same test case; a broken group cancels queued jobs; an execution raises |
| Grading `judge/grade.py`, `src/support/default_grader`, `model/graders.py` | none | `grade_group`, `aggregate_group_result` | flags that depend on position, empty groups, judge errors |
| Test data tree `model/testdata.py` | none once loaded | inheritance of configuration, filtering, order | a changed value is inherited |
| Execution `judge/execute.py`, `judge/validate.py` | feedback directory, pass counter | `execute_testcase`, `_run_multipass`, `_validate_output` | whose fault it is; what a pass leaves for the next; the verdict at a lower limit |
| Interactive runner `src/support/interactive/interactive.cc` | two children, pipe ends, an alarm handler | fork, wait4, kill, report | a signal handler at any instruction; the order of two deaths |
| Main loop and pool `verifyproblem.py`, `context.py` | executor, list of futures, error counter, work directory | `check`, `submit_background_work`, `cancel_and_wait...` | Ctrl-C anywhere; jobs that outlive what they use |
| Submission checks `checks/submissions.py` | time limits, reported messages | `check_submissions` and its steps | rounding; reuse of runs at other limits |
| Compilation `run/program.py`, `run/source.py`, `run/buildrun.py` | per program a lock and a result; the directories made | `compile` | two programs of one name at once |
| Score range check `checks/testdata.py` | none | `_check_score_range`, `_check_group` | bounds over prefixes, aggregators, signs |
| Validator checks `checks/validators.py`, `model/validators.py` | futures by test case | `check_input_validators`, `check_output_validators`, `InputValidationCache.precompute`, `check` | jobs and the main thread compile the same validators at once; exceptions in a job |
| Loading `model/problem.py`, `run/__init__.py` | the parts loaded so far | `load_problem`, `find_programs`, `get_program` | an exception in any part; what is passed over in silence |
| Configuration and metadata `config.py`, `metadata.py`, `formatversion.py`, `checks/config.py` | none once loaded | `load_config`, `parse_metadata`, `from_legacy`, `from_2023_07`, dump | partial overrides from four directories; two formats, values of several forms |
| Languages `languages.py` | the best language so far | `Language.update`, `Languages.update`, `detect_language` | priorities and file counts against the order of the configuration |
| Statements `statement_util.py`, `md2html.py`, `template.py`, `checks/statements.py` | none | `find_statements`, `format_samples`, `inject_samples` | two pieces of code that collect the same samples; markers inside samples |
| Includes, attachments, graders, package `checks/`, `model/includes.py` | reports | the checks | three rules for what a main file is |
| Diagnostics `diagnostics.py` | counters | `error`, `warning`, `fatal` | counted from several threads |

Not modelled:

* plasTeX macros, page layout, image handling and sanitising of statements: they
  convert text and keep no state; that a converter copes with a text is an input
  of Statements.
* The default output validator (`src/support/default_validator`): it compares two
  token streams; what any output validator does is environment of
  ExecuteTestcase.
* VIVA and checktestdata, third-party tools that run like other validators.
* Building the commands of a language, looking for installed compilers, setting
  resource limits in a child: calls of the operating system.
* The fan-out of `SubmissionsJudge` over submissions: submissions share the
  executor but no store, so one never sees another's results.
* Sizes, names and line breaks of test data files in `_check_testcase`; the
  examples, packaging and tests.

`PROJECT.json` lists each component with its status and reason.

### What makes the components correct

* Store: a key has one runner at a time; nobody waits for a key that nobody
  runs; what is served is what a run at the requested limit would have given;
  a completed entry stays.
* Judge: its answers are those of judging one test case after another, whatever
  the pool does; second and later calls run nothing new; no call waits for ever
  unless an execution does.
* Execution: a result at a high limit determines the result at a lower one;
  blame falls on the program that failed; the score is the one written last.
* Interactive runner: it always reports, and reports what happened.
* Main loop: no job uses a directory that is gone or another problem's data;
  the exit status tells whether there were errors; the run ends if what it runs
  ends.
* Checks: silence means agreement with the package; the computed limit keeps its
  margins; the score range contains, and reaches, what can be scored.
* Loading: a language is recognised as its documentation says, whatever the order
  of the configuration; an override counts key by key; metadata can be written
  out and read back by the 2023-07 parser; a package without errors renders in every language and
  format, showing the same samples, and has at most one entry point per
  submission.
* Compilation: workspaces are disjoint, paths final, callers return.
* Validators: each input gets the errors one thread would find; no errors means
  that all validators ran and accept all inputs.

The hazards list in `PROJECT.json` has, for each place in the code where one of
these could break, the properties that would show it.

## 2. The modules

Each `X.tla` models a component, `MCX.tla` holds instances for TLC, `X.cfg` is a
run, and `X_proofs.tla` holds theorems. Operators named `...Dropped`,
`...Anyway` and so on, with the comment "Mutant of", are not part of a model:
each is one plausible bug, used to see that a property notices it.

**SubmissionResult** - `judge/result.py`, the value part of `judge/cache.py`. A
result is its verdict, runtime, score and `first`, that the validator of an
interactive problem ended first. `Reclassify` is `_reclassify`. A *behaviour* is
what the submission does on an input given all the time it wants: verdict, time,
score, `first`, and `crash`, that a judge error is the validator's own, made
while the submission runs.
`Direct(b, limit)` is the result of an execution at that limit. ResultStore
takes it as given; ExecuteTestcase shows when the code provides it.

**ResultStore** - `cache.py` together with the threads that use it. `Populate`,
`Complete` and `Resolve` are a worker's claim, its run's completion under the
lock, and the callbacks of the future after the lock is released. `GetCompleted`,
`GetInFlight`, `GetNone`, `Subscribe`, `ClaimMissed`, `ClaimRefused` and
`RunUncached` are a call of `_get_or_run`; an action ends where the code
releases the lock or may lose the processor between two accesses to shared
state. With `MayFail`, executions may raise: in a worker that becomes a judge
error (`FinishWithError`), in the judging thread the claim stays (`Raise`).

**Grading**, **TestTree** - the default grader with all its flags and
aggregators, `grade_group`, `aggregate_group_result`; groups, items in order,
the data filter, default scores and breaking. `Answer(run)` is the list that
judging one test case after the other gives when the test cases do as `run`
says: the tree is evaluated bottom up, each group from its `Children` up to the
first it breaks at (`UpToBreak`).

**SequentialJudge** - the abstract specification: one variable, what the
finished calls of `judge` answered, and one action, which appends the answer of
the next call. It has no threads, no store, no reuse and no tree; what a
submission answers at a limit is its parameter `Answer`.

**SubmissionJudge** - `submission_judge.py`: EXTENDS ResultStore and TestTree,
adds the executor queue, the jobs' cancellation check, and the stack of
`_judge_group` frames. `StartJob` ... `ResolveJob` are the worker;
`EnterGroup`, `AskForTest`, `RunMissing`, `FinishMissing`, `TakeResult`,
`LeaveGroup` the walk; `JudgeAgain` the next call at the next limit.
`Sequential` instantiates SequentialJudge with TestTree's `Answer` of direct runs;
the refinement mapping is the list of finished calls. Since every action conjoins one of ResultStore's or leaves its variables
alone, the store's theorems hold of it.

**ExecuteTestcase** - `execute.py`, `validate.py`: one submission on one test
case, run side by side at the high and at the low limit so that the two results
can be compared. `RunPass` is one execution of submission and validator and the
decision what to do next (`SinglePass`, `StopAtVerdict`, `BlameNextpass`,
`GoOn`, `TooManyPasses`). What the two programs do in a pass is an element of
`Passes`; files in the feedback directory persist from pass to pass. In an
interactive problem the validator ends by a clock of its own. `Reports` is what the
runner writes: where one program has ended when the alarm rings, its own status and
time are kept; a submission still running gets SIGUSR1 and the wall-time limit; a
validator still running is assumed to reject. Where an end meets the alarm, the
runner may know of it or not, or crash, or write its line twice
(`ReportsTwice`, `NotRun`, `LineRaises`), as InteractiveRunner has it instruction by
instruction. A runner that cannot start (no pipe, no process) is left out.

**InteractiveRunner** - `interactive.cc`: the main thread instruction by
instruction from fork to report, the alarm handler at any point of it, and the
two children, which exit, read end of file or get SIGPIPE. `report()` is two steps, the
line (`Report`) and the closing of `report_fd` (`CloseReport`): an alarm between them
adds a second line, one after them crashes the runner (`pc = "crashed"`).

**ProblemVerifier** - `verifyproblem.py`, `context.py`: problems in order, the
checks of `BuildSteps` in order, jobs submitted and awaited, Ctrl-C in any step
of the main thread, the `finally` that removes the work directory, and the exit
status. What a check computes is left out; that it may submit jobs, count
errors, or raise is not.

**CheckSubmissions** - `checks/submissions.py`: submissions in the code's order,
what is judged at which limits, all messages by kind and subject, and the
computed time limit. What a submission answers at a limit is TestTree's `Answer`
of direct runs, justified by the refinement above.

**ProgramCompile** - `Program.compile` under its lock, and the workspace
choices of `SourceCode` and `BuildRun` between looking for a directory and
making it. Who calls is left open; ValidatorChecks extends it with callers.

**ValidatorChecks** - `checks/validators.py`, with `_check_answers` and the input
check of `checks/testdata.py` and the background compiles of `_build_steps`.
The main thread goes through `start`, `input`, `output`, `compiling`, `data`,
`walk` and `answers`; `stopped` is a `fatal`, `crashed` an exception nobody
catches. Workers take compile and validation jobs from the executor's queue;
`CallValidator` and `RunValidator` are `_run_input_validators`, in a worker or,
without an executor, in the main thread. Every call of compile goes through
ProgramCompile. An input is accepted or rejected by a validator under given
flags (`problem.rejects`), an output has a verdict (`problem.verdict`).

**ScoreRange** - `checks/testdata.py`: configuration with inheritance and
legacy values, the range of every group bottom-up, what is reported about it,
the recursion of `_check_group` with the error that ends it; then a submission
of any behaviour is judged and its scores are compared. `_check_score_range` does not
go below a group with a custom grader (`Reached`). Scores are in units of the last
decimal a grader prints, bounds in parts of such a unit (`Fine`), so that the
quotients of "avg" are exact; `Printed` is `:g`, to `Digits` digits.

**Languages** - the loop of `Languages.detect_language`, one language a step
(`DetectStep`), with `Outdoes` as its comparison. A file is its path and first
line; globs are sets of paths.

**Configuration** - `load_config` with its deep merge, the checks of
`Language.update` and `Languages.update`. A file is a dictionary, its keys in
order; of a command only the metavariables are told apart. `Intended` is the
reference: every key has the value of the last directory that gives it.

**Metadata** - `problem.yaml` in both formats: defaults, what pydantic refuses,
`from_legacy`, `from_2023_07`, the predicates the rest of the program asks, and
`Dump`, the 2023-07 form of what was read. A value that may be a string, a
mapping or a list carries its form. The dump includes `problem_format_version`, by
which `load_metadata` chooses the parser. Of eight limits of equal treatment two are
in the model.

**Statements** - which files are statements, their names, the samples as each
format collects them (`format_samples` by file name, `TemplateSamples` by stem),
`inject_samples` with its markers and footnotes, and whether a statement
renders. A text is a sequence of pieces.

**PackageChecks** - the checks that only look at the package, each as the
sequence of reports it makes; and include files: `SourcesIn`, `Mainfile`, the
four checks of `checks/includes.py`.

**LoadPackage** - EXTENDS all of these: `load_problem` in its order
(`LoadLanguages`, `LoadMetadata`, `TakeAsItIs`, `LookAtFiles`, `DetectOne`,
`EndDetection`, `EndLoading`), then one action per check. `Report` gives what
`--bail_on_error` and `--werror` make of a report: a check, and the
verification, ends at the first that raises.

## 3. The runs

Sizes are distinct states.

| Run | Instance | States |
|---|---|---|
| SubmissionJudge | 4 test cases with 2 contents in 4 groups, limits 2, 1, three behaviours, two workers, sample filtered out | 53 418 |
| SubmissionJudgeFailing | the same tree, limits 2, 1, 2, two behaviours, executions may raise, fairness | 99 232 |
| ExecuteTestcase | 24 kinds of problem (interactive or not, multi-pass or not, three ways of scoring, compiled or not), 3 passes, limits 6 and 3 ticks, 2 ticks to the second; validators that end before, with and after the submission and either alarm | 1 186 950 |
| InteractiveRunner | everything: the program has no parameter but the alarm | 1 358 |
| ProblemVerifier | 2 problems, 2 workers, the parts `data` and `submissions`, at most 3 jobs and 1 counted error per problem | 275 746 |
| CheckSubmissions | two packages of submissions, cap 20, multipliers 2, resolution 3 | 82 296 |
| ValidatorChecks | main and two workers, 7 programs, three of one name, 3 test cases of which one is filtered out, 344 packages with their command lines, at most 12 calls of compile | 94 824 |
| ScoreRange | all trees of `MCScoreRange` and all behaviours of their test cases | 10 451 |
| LoadPackage | 12 041 packages in eight families, each an ordinary package of either format changed in one respect: language configurations, programs, `problem.yaml`, names and statements, a Markdown body and samples, includes, and the rest; most are checked to the end | 162 581 |
| ValidatorChecksDataOnly, ScoreRangeEmptySample, LoadPackageSource | as above; TLC finds the property violated | - |

Why these bounds are enough to be worth checking: two workers and the judging
thread meet in every pair of roles, and a third could only repeat one; a limit
sequence that falls and rises again has both the served and the rerun case; two
test cases with one content are what makes a store shared within one walk; a
tree needs a group that breaks, a sibling after it, and a filtered group; three
passes distinguish first, middle and last; a limit that is no multiple of a
second tells rounding from truth; two problems are what it takes for one to
disturb the next; two programs of one name are what it takes for one to disturb
the other. `ChecksEnd` fails if a call of compile is kept back by the bound on
calls, so 12 are enough. Packages are changed in one respect at a time because
the parts hardly depend on each other; where they do (names and statements,
samples and bodies, languages and includes) one family varies both. The bounds of
the store, the main loop, compilation, language detection and the execution of a
test case are removed by the proofs.

`CHECK_DEADLOCK FALSE` is set in every run because every program modelled ends;
that nothing stops early is what the liveness properties say, given that the
programs they wait for end: `CallsReturn`, `RunEnds`, `ChecksEnd`; and, even if they
do not, `RunnerReports`. Loading, scoring and the submission
checks are sequential and step from one label to the next.

### What they show

**Store and judge.** `ServedVerdictIsDirect` and `HighRunSpeaksForLow` are two
halves of one argument: the store may serve the result of a run at a larger
limit because reclassifying that result gives what a run at the smaller limit
would have given. The first is the store's half: under `LargestLimitFirst` (the
first limit of the schedule is the largest; a result in flight is handed out
whatever its limit) every verdict served is that of a direct run. It excepts
`LimitSensitive` behaviours, a judge error that an interactive validator makes
during the run: reclassification never changes a judge error, but a shorter run
would have ended before it. `CheckSubmissions!LargestLimitFirst` shows, and a
theorem proves, that the premise holds where it is used. `ImplementsSequentialJudge` then says that the
interleavings, duplicates, cancellations and reuse do not show in any answer.
`AtMostOneDuplicateRun` is as strong as it can be: between `get` and `claim` a
worker may take the key, and the judge then runs it uncached.
`JudgeErrorIsNotLost`: a judge error of any test case judged in a call is the
verdict of the call, whatever aggregators and breaking groups lie above it.

**Execution.** `HighRunSpeaksForLow` holds up to `Exempt`, whose disjuncts are
true of the code. In interactive problems: the wall-time limit, which differs
between the two limits, cuts off a submission that idles within its CPU limit
(`Overruns`); it cuts off a validator that is slow to answer a submission within its
limit, which makes WA at the low limit of what the validator itself decides at the
high one (`interactive.cc:74`, `judge/execute.py:154-165`); a rejection comes between
the two wall-time limits (`RejectsLate`); a program ends just as the alarm rings
(`Race`). And after a pass that took longer than the low limit: a judge error of an
interactive or multi-pass problem stays one at the high limit, and an interactive
multi-pass run goes on only there. `SinglePassIsDirect` ties this module to `Direct`
of SubmissionResult, up to `CutShort`, the same ways of being cut off at one limit.
So what the judge modules say of the verdicts of interactive problems is said of
submissions and validators that keep within the wall-time limit.
`BlameIsDeserved`: when nextpass.in is held against the validator ("despite
non-42 exit code", `judge/execute.py:208`), it is the file of this very pass, and
the validator did not exit with 42 or wrote a bad score.txt. The exception is a
submission of an interactive problem that breaks its limit, crashes or is cut by
wall time: its TLE or RTE is taken for the validator's exit code, as is the
rejection assumed for a validator that is cut off.

**Interactive runner.** `CauseComesFirst`: the process reported as having ended
first did not end because the other did (end of file or SIGPIPE), unless the
alarm killed it. It depends on the order in which `main` closes its pipe ends.
`ReportIsTrue` excludes `RaceWindow`: between `wait4` and the assignments after
it, the handler sees a child that is gone and not yet noted. `RunnerReports`: by
itself, whatever the children do, the runner ends with one line written. An alarm
inside `report()` adds a second line, which `judge/execute.py:146` cannot unpack; one
between `report()` and the exit crashes the runner, since its handler opens the closed
`report_fd`, and `judge/execute.py:135` makes a judge error of that and discards the
line.

**Main loop.** `RemovalWaitsForJobs` has two exceptions, both presses of Ctrl-C
at a particular place: `waiting` (again, during the wait for jobs) and
`appending` (after `submit`, before the future is in the list).
`ExitStatusTellsErrors` speaks of runs without Ctrl-C, since after it the exit
status counts the finished problems only. A counter increment is one step: a
lost update could make the number wrong and not bring it back to zero, and only
zero is asked about.

**Checks.** `PacWarningIsExact`, `SlowSubmissionsAreRejected` and
`SilenceMeansAgreement` compare what is reported with what the submissions do,
stated from their behaviours and not from the code's comparisons.
`ComputedLimitFits` says that a limit, when computed, is a
multiple of the resolution that leaves every accepted submission its margin,
and not a whole unit more. `ScoresStayInRange` and `BoundsAreReached` are
soundness and precision of `_check_score_range`, both up to the rounding of printed
scores: the bounds of "avg" are exact quotients, what a grader prints is not, so a
score of 1.666667 exceeds the bound 5/3, by at most half a unit of the last
decimal for each average below the group (`Rounding`). The first is stated where the
check has reported no error. `AdviceSettles` says that following every advised
range and checking again gives no more advice. It holds where each advised bound is
printed exactly: advice is printed with `:g`, so for highs of 1, 1 and 3 the check
advises "range: 0 1.66667", which `checks/testdata.py:195` calls looser than 5/3 the next
time, for ever. It also excepts problems in which a
group without a range of its own inherits one that is changed: there each round
of advice changes the next, and the repetition closes in on a limit without a
bound on the rounds; and problems with a declared range disjoint from
the computed one: the check goes on with the declared one, which may overlap what
is computed the next time.

**Validators and compilation.** `EachInputIsValidated` compares what the walk
reports about an input with what one thread that runs all validators in order
would find, computed from the package alone. It has one exception, `NamesClash`:
when two programs of the package share their name, two compiles at once may both
find the directory free (`run/source.py:66`), and `os.makedirs` raises
FileExistsError in the slower one. In a validation job this becomes an "internal
error" for that test case, although nothing is wrong with the package; in the
main thread it ends the program. Later calls compile again and succeed, so
nothing worse happens: `WorkspacesAreDisjoint` and `PathsStayValid` hold all the
same. `SilenceMeansValid` is about runs of the parts `validators` and `data`
together; for `data` alone its first conclusion fails, which is finding 2.
`ChecksEnd` covers the waits of the walk for jobs, of jobs for locks, and of the
main thread for both; that compilers and validators end is its fairness assumption.

**Packages.** `DetectionIsDocumented` states the rule of the language
documentation (most matching files, then priority, shebangs where asked for)
without the loop. `LayersOverrideKeyByKey` compares the deep merge of up to four
files with what each key should be; a value that is no mapping throws earlier
ones away and is excepted. `MetadataSurvivesDump` is about the comment of class
`Metadata` ("serializes to a valid 2023-07-draft configuration", `metadata.py:195`).
It holds of what is dumped when it is given to the 2023-07 parser. But
`problem_format_version` is dumped, too (`metadata.py:198`), as "legacy" for a legacy
package, and `load_metadata` (line 376) chooses the parser by it: read as written,
the dump of a 2023-07 package gives back the same metadata and that of a legacy
package is refused, for keys the legacy format does not have. The property states both; in
the second the code and its comment disagree.
`SamplesShownOnceInOrder` is about HTML made from Markdown: every
sample at its marker or below, once, in order; it excepts samples whose own text
holds a marker and markers behind the footnotes. `ErrorFreePackagesRender`: if
nothing is reported as an error, every language with a name has one statement
and both converters accept it, and both collect the same samples. It excepts
stems that sort differently with their extensions ("a-1" and "a", `SortDifferently`);
and a statement with `{{nextsample}}` in Markdown never gets there, since its PDF
"Currently does not work" (`problem2pdf.py:77`) and the check renders PDFs.
`IncludesDecideEntryPoint`: three places look for main files among the includes
by different rules; together they leave at most one, and a submission starts
there.

### Findings

1. `metadata.py:317`: a `source` given as one mapping, which the format allows,
   becomes two sources named "name" and "url" (run LoadPackageSource).
2. `checks/validators.py:188`: with `--parts data` an input validator that does
   not compile is passed over and nothing reports it, against the comment there:
   the inputs count as validated (run ValidatorChecksDataOnly).
3. `checks/testdata.py:128`: a group without test cases counts as zero in the
   computed range and is left out in judging (run ScoreRangeEmptySample).

### Fairness

The code does not ensure that what it runs ends. `Program.run` sets RLIMIT_CPU
(`run/program.py:166`) and waits in `os.wait4` without a timeout (line 184), and compiles
(`subprocess.check_output` in `run/source.py` and `run/buildrun.py`) have no limit. A
program that sleeps for ever keeps its thread for ever. Only under the interactive
runner does a wall-time limit end it. So the fairness below is that of the threads,
and that programs end is a premise of a property, or an assumption said to be one.

* SubmissionJudge (over ResultStore): weak fairness of each thread's next step, except
  while it executes a submission (`Executing`): threads are scheduled by the operating
  system, and locks are held for bounded sections only. `CallsReturn` has the premise
  `ExecutionsEnd`, that no thread executes for ever. No fairness between threads that
  compete is assumed.
* ProblemVerifier: weak fairness of the main thread and of workers that take jobs, but
  not of the end of a check or of a job. `RunEnds` has the premise `ProgramsEnd`, that
  these end. Ctrl-C is never obliged to happen.
* ValidatorChecks (over ProgramCompile): weak fairness of each thread's next step. A
  compile and a validation are such steps, so that compilers and validators end is
  assumed here, and the code promises nothing about it. What `ChecksEnd` shows is that
  the waits for the queue, the futures and the locks end.
* InteractiveRunner: weak fairness of `main`, of the handler once it runs, and of
  the alarm. The children are not fair: they may hang for ever.
* ExecuteTestcase, CheckSubmissions, ScoreRange and LoadPackage are sequential;
  only safety is stated of them.

## 4. The proofs

`tlapm` checks every leaf. The assumptions are those named in the modules on
constants. They are typing facts (`PackagesAssumption` and its like), and
`FiniteTreeAssumption`: test data groups
have a height, since they are read from a directory. What a theorem needs
beyond that is a premise in its statement: `LargestLimitFirst`,
`LimitsNeverGrow`, `Reliable`, `StrictGraders` and `NothingOutlastsCap`. Invariants are inductive after strengthening;
each paragraph says with what.

**TestTree_proofs** - what can be said of a walk without states. `Joins(joined,
pieces, N)` names the sequence of what has been joined so far, since of the
library's recursive `FlattenSeq` only the defining equation can be used; the lemmas
give its existence, its steps, that two agree as far as their pieces do, and that
it grows. `SetInduction` is induction for a set of naturals, which takes the place of
the library's induction over an operator. Then, by induction on heights:
`AnswersDef` (the recursion over the tree defines an answer for every group),
`SomethingToAnswer` (with a test case selected the answer is not empty), `AnswersTimed`
(every line of an answer carries a number as runtime, that of a test case its own),
and `AnswersAlike`: where two tables of results agree on what a group's answer
holds, verdicts and scores being all that is compared, the two answers of the
group are alike too. Two more inductions follow the answer of a group to a test case
in it: `AnswersSlowest` (its runtime is the greatest below it and that of one test
case) and, under `StrictGraders`, `AnswersAccepted` (an accepted group has only
accepted test cases below it). A grader is strict if it accepts only where all
results it is given are AC. `DefaultGradersAreStrict` shows when the default grader
is: in a group with none of the flags `always_accept`, `ignore_sample` and
`accept_if_any_accepted`, whichever verdict and score modes it has.

**SubmissionJudge_proofs**, first the store: one inductive invariant of types;
`ClaimHasOneRunner` (a key is in flight for exactly the thread that will complete
it, or is a claim left by a call that raised); and `Provenance`, three facts
without which `ServedVerdictIsDirect` is not inductive: an entry is a direct run
at its limit, a resolved future holds what the entry holds, and the entry or
future a waiting call will read was made at a limit not below the call's own.
The last is where the premise on limits is used. `ReclassifyIsDirect` is the lemma
on values that connects them: what a group sees of a result is the same whether
it was run at the limit or reclassified to it. `NoWakeupIsLost` needs one
judging thread, as the code has.

Then the judge. `JudgeFollowsStoreProtocol`: each action of the judge is an action
of ResultStore on its variables, or leaves them alone, and the store's theorems
carry over (`JudgedVerdictsAreDirect`, `WalkIsWoken`). `NoTestCaseRunsThrice` counts
runs per key against the state of the store. `JudgeErrorsSurface`: a frame of the
walk in which a judge error has been seen has one among its children's results
(`WalkOK`), and aggregation copies the first of them.

`JudgingIsSequential` is the refinement of SequentialJudge. On top of the lemmas
on the tree, `FrameAt(f, run, j, p)` says of a frame
that it has joined the first `p` pieces of what its group answers and broken
nowhere, and `WalkIs` that this holds of the whole stack, each frame for the item
its caller is at. `SequentialTake`, `SequentialEnter` and `SequentialLeave` are the
three ways the stack moves; a frame that ends has the group's answer
(`FrameReturns`). That the result a frame takes is the direct one is
`ServedResultIsDirect`, the store's theorem again. The premise `Reliable` says that
the largest limit comes first, that no execution raises, and that no behaviour is
`LimitSensitive`: where one of these fails, an answer does differ, and TLC shows it.

`LaterCallsOnlyLookUp` takes the same premise and strict graders. What is accepted at
a smaller limit is accepted, with the same result, at a larger one (`AcceptedAlike`,
from `DirectHigher`); so where a group goes on in a later call it went on in the first
(`ReachedInGroup`), and each test case a later walk comes to is in the answer of the
first call (`ReachedBefore`). `FoundInv` says that whoever is in a list has a claimed
key, `FirstAnswered` that the first list is the answer at the first limit, and
`LookupInv` that every stored run was made at that limit: the look-up of a later
call is served or joins the run under way.

**ProblemVerifier_proofs** - the invariant says that the list of futures is
complete except at `appending`, that where a problem ends normally nobody is
left, that Ctrl-C only unwinds, and that each job belongs to the problem that
submitted it. For the exit status: what each counted error changes, that the
workers of a problem have ended before its errors are added, and that the total
is right and complete.

**InteractiveRunner_proofs** - the invariant speaks of the instruction `main` is at
or was caught at by the alarm. It ties it to the children not yet forgotten,
these to the pipe ends still open and to what is known of the children, and
both to the order in which the children can have ended: while `main` holds its
copy of a pipe end open, nobody sees its end. `CauseBeforeEffect` and
`ReportsAreTrue` are then read off.

**CheckSubmissions_proofs** - `SilenceIsAgreement`: reports are never taken back,
what a check reports of a submission names the submission, and the two
comparisons leave no gap. Only the submission just judged changes, so the
property is inductive with `StartsEmpty`. `JudgeIsAskedHighestFirst` discharges, for
the submission checks, the premise `LargestLimitFirst` of the store's theorems.
Its heart is `TriedWithinLimit`: at the greatest candidate limit that does not
exceed the time limit, every run that the answer holds ended before the limit, so
no larger limit changes it (`DirectAlike`, with `AnswersAlike`), the submission is
accepted there, and no larger one is tried afterwards. It is inductive with
`LimitsInv`: the limits are numbers in order, what has been judged is finite and
timed by numbers, and at the start nothing has been.

`ComputedLimitIsFitting` says that the limit is neither too small nor larger than the
rounding makes it. Its arithmetic is `RoundedLimitIsTight`. The promise to the accepted
submissions is `RoomForSlowed`: run on a machine slower by the multiplier, with the
limit multiplied as well, every test case gets the verdict it had (`SlowedAlike`), so
the answer is the same. It is inductive with `GroupsInv` (the two lists of submissions
are apart, each submission comes once, and before the limit is computed only those
are judged that determine it) and `ComputedInv` (these keep what they were given at
the provisional limit, and the slowest runtime is one of theirs). The premise
`NothingOutlastsCap`, that a test case ends within the provisional limit, is there because
one that does not is recorded with a runtime above that limit and a verdict it need not
have under the computed one.

`SlowSubmissionsAreCaught` and `SlowWarningIsExact` compare two limits, and do so under
`StrictGraders`: then an AC at one limit is an AC at every larger one
(`AcceptedHigher`), and the least limit that suffices is the runtime of the answer
(`AcceptsFrom`). The second adds `PacInv`, that a partially accepted submission has
been warned about exactly where one of the limits tried above `Unaffecting` suffices,
`UnaffectedByLess` (a runtime is above `Unaffecting` if and only if its rounded limit is
above the time limit) and `TriedIsExact` (the tries stop at the runtime that is needed). The run's own tree is not
strict: its root has `ignore_sample` and its secret group `accept_if_any_accepted`.
There TLC checks the same properties.

**ValidatorChecks_proofs**, first ProgramCompile for any callers: directories are
given once, a thread in the locked section holds the lock, results are written
under it. `ChecksUseCompile`: each step of the checks is a step of ProgramCompile
or leaves its variables alone, because jobs in the queue and with the threads
are about programs of the package. The two theorems about workspaces and paths
carry over.

`InputsAreValidated` needs what a call tells its caller (`FateInv`): success or
failure as the program's fate is, unless a rival of the same name exists and
then possibly an exception. `ThreadsOK` says of every thread that what it has
collected after `n` validators is what one thread would find with the first `n`
of them (`Progress`), `FuturesGood` that a finished job's future holds all of it,
and `FoundGood` that so does what the walk has taken. `SilenceIsValidity` adds
`SilenceOK`: at each stage, what it means that nothing has been reported so far -
which validators have compiled and what they rejected or accepted. The main
thread runs these stages, so the invariant has one conjunct per stage and each
report breaks its premise.

**LoadPackage_proofs** - `DetectionFollowsDocumentation`: the invariant of the loop
says that the best so far is the one the documentation picks among the languages
seen; at the end these are all, in whatever order. `LoadDetects` shows that loading
takes only steps of Languages, with languages that `LanguagesTyped` shows to be such,
so the theorem holds of every program of a package (`ProgramsAreDetected`).
`ConfigurationIsMerged` is an induction over the files: after `n` of them every key of
every language has the value of the last of these that gives it (`FromLast`;
`NextIsFromLast` is the step), and `ReadAsMeant` takes this to the languages that
are made. `EntryPointIsDecided` needs `SInv`: a submission found starts at the
first main file that `_load_language_includes` would take, and whoever is at
`verified` has the reports of `check_includes` among its own (`IncludeReports`).
`MetadataIsSerialisable` rests on `MInv`, that the metadata are what `parse_metadata`
made of the package's `problem.yaml`, and on `MetadataIsLoaded`: what either format
gives has every field, each in the form that its own type takes back (`IsLoaded`);
`DumpIs` and the lemmas behind it then follow each field out and in again, and a key
that the legacy format does not have shows why its parser refuses a dump.
`SamplesAreShown` is an induction over the turns of the loop of `inject_samples`. Its
invariant `Injected` cuts the HTML in two: `done`, which holds neither marker nor
footnotes and shows the samples taken so far, and a tail of the original text; each
turn moves the cut behind the next marker (`TurnAtMarker`). After as many turns as
there are pieces no marker is left (`InjectedAtLast`), and what is left of the samples is
put behind all that is shown (`RemainingShownIs`), since no marker was behind the
footnotes. `ErrorFreeIsRenderable` adds `EInv`, that the errors of the configuration and
statement checks are among the reports from then on, the lemmas that each check
reports what it is to report (`ConfigReports`, `StatementReports`), and `SameSamples`: two
sequences without repetition, in orders that agree, of the same samples are equal.
The first and the last of these have the premise `NoneIsFunction`: None, a rejection and
a value of a wrong type are no dictionaries and no lists. It is a premise and not an
assumption on constants because it speaks of all functions, which TLC cannot
enumerate; the model values of the run satisfy it.

The theorems rest on `PackagesAssumption`, `PathOrderAssumption`, `OrderAssumption` and
`WrongTypeAssumption`: a file is read as a dictionary, whose keys come in an order and
once each, what a key gives has the type of the key or is `WrongType`, programs are
finite sets of files, texts are sequences of pieces without samples, samples and
include files are among all there may be, and these are listed in an order without
repetition. TLC evaluates all four. Induction over files, reports and pieces is by
`SetInduction`, as in TestTree_proofs. Every invariant of the run is a theorem.

**ExecuteTestcase_proofs** - first what one pass gives at one limit, without
states: `NotCutIs` (within the wall-time limit the interactive runner reports what
happened), `AcceptedPass` (an accepted pass was cut short by nothing, unless an end
raced the alarm, and its score is the one in the feedback directory), `CleanPass` (the
converse), `InTimePass` (a pass that no limit of the low run cuts off goes the same way
at both), `SlowNormal` and `SlowInteractive` (one over the low limit is TLE there, and
reclassified to it, or its validator has decided at both). Then the invariant
`IInv`: passes before the last were accepted and asked
for another, the slowest of them is recorded, a run starts its next pass with the
score written last and no nextpass.in, and an answer is made of the outcome of
the last pass. The passes of the two runs are compared through the common
`script`: `HighRunSpeaks` looks at which run stopped first. With `ScoresAreCurrent`,
`BlameDeserved` and `DirectIsRight` all properties of the run are theorems, for any
problems, passes, limits and number of passes. `FilesAssumption` only says that a
missing or unreadable file is not a number.

The type invariants of ResultStore, ProblemVerifier, ProgramCompile and
ExecuteTestcase are parts of the inductive invariants and proved, not run.

What stays with TLC: liveness and ENABLED. `LaterCallsRunNothing` for graders that
are not strict, of which it is not true in general: where one accepts less at a
larger limit (`ignore_sample` with three children or more, a judge error under
`always_accept`, a grader of the package), a group may break earlier in the first
call than in a later one. For the same reason `SlowSubmissionsAreRejected` and
`PacWarningIsExact` are theorems for strict graders only; these two TLC checks for a
tree whose graders are not. Of the score range check everything, for its
aggregators range over prefixes of a group.

## 5. Plan

Done: what decides verdicts, how it is executed, the checks around it, and how a
package is loaded. Left, in order:

1. Proofs: see the end of section 4.
2. The rest of `_check_testcase` and `_check_group` of `checks/testdata.py`:
   duplicate inputs, missing answers, order of names, sizes and line breaks.
3. The default output validator as pure operators.
4. The fan-out of `SubmissionsJudge` over submissions that share one executor.
