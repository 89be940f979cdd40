---------------------------- MODULE ProgramCompile ----------------------------
(***************************************************************************)
(* Compiling programs in one work directory (run/program.py): the main     *)
(* thread and the workers all call Program.compile for the submissions and *)
(* validators they need.  Programs from source code (run/source.py) and    *)
(* with a build script (run/buildrun.py) make a workspace first, named     *)
(* after the program, and programs in different directories of the package *)
(* may share their name.                                                   *)
(*                                                                         *)
(* Who calls, and what becomes of an exception, is left to the modules     *)
(* that extend this one.                                                   *)
(*                                                                         *)
(* What is copied into the workspace and how the compiler is called are    *)
(* left out; running it only takes time.                                   *)
(***************************************************************************)
EXTENDS Naturals

CONSTANTS
  Programs,
  Threads,
  Names,
  NameOf,       \* the name of each program
  Fate,         \* what do_compile does with a program's source
  MaxCalls,     \* bound: calls of compile in all
  Nobody, None

(* Besides plain names, workspaces are numbered by tempfile.mkdtemp.       *)
Temporary == 1 .. MaxCalls

ASSUME ProgramsAssumption ==
  /\ Programs # {}
  /\ NameOf \in [Programs -> Names]
  /\ Fate \in [Programs -> {"compiles", "fails", "raises"}]
  /\ MaxCalls \in Nat
  /\ Names \intersect Temporary = {}
  /\ Nobody \notin Threads
  /\ None \notin Names \union Temporary

Directories == Names \union Temporary

VARIABLES
  lock,      \* Program._compile_lock of each program
  result,    \* Program._compile_result
  path,      \* Program._path
  dirs,      \* what exists in the work directory
  pc, prog,  \* where each thread is, and with which program
  answer,    \* what the last call of each thread gave
  calls,     \* how many calls were made (bound)
  attempts   \* calls of do_compile for each program (history)

vars == <<lock, result, path, dirs, pc, prog, answer, calls, attempts>>

CompileResult(success, p) == [success |-> success, path |-> p]
Raised == [raised |-> "ProgramError"]
NameTaken == [raised |-> "FileExistsError"]

Goto(t, label) == pc' = [pc EXCEPT ![t] = label]

-----------------------------------------------------------------------------
Call(t, p) ==
  /\ pc[t] = "idle"
  /\ calls < MaxCalls
  /\ calls' = calls + 1
  /\ prog' = [prog EXCEPT ![t] = p]
  /\ answer' = [answer EXCEPT ![t] = None]
  /\ Goto(t, "calling")
  /\ UNCHANGED <<lock, result, path, dirs, attempts>>

(* compile, with the lock in hand: the result of an earlier call is used   *)
(* if there is one.  Leaving the lock and returning is one step with what  *)
(* comes last under it.                                                    *)
UseResult(t) ==
  /\ pc[t] = "calling"
  /\ lock[prog[t]] = Nobody
  /\ result[prog[t]] # None
  /\ answer' = [answer EXCEPT ![t] = result[prog[t]]]
  /\ Goto(t, "idle")
  /\ UNCHANGED <<lock, result, path, dirs, prog, calls, attempts>>

(* Mutant of StartCompile: earlier results are not looked for.             *)
StartCompileAgain(t) ==
  /\ pc[t] = "calling"
  /\ lock[prog[t]] = Nobody
  /\ lock' = [lock EXCEPT ![prog[t]] = t]
  /\ attempts' = [attempts EXCEPT ![prog[t]] = @ + 1]
  /\ Goto(t, "looking")
  /\ UNCHANGED <<result, path, dirs, prog, answer, calls>>

StartCompile(t) ==
  /\ pc[t] = "calling"
  /\ lock[prog[t]] = Nobody
  /\ result[prog[t]] = None
  /\ lock' = [lock EXCEPT ![prog[t]] = t]
  /\ attempts' = [attempts EXCEPT ![prog[t]] = @ + 1]
  /\ Goto(t, "looking")
  /\ UNCHANGED <<result, path, dirs, prog, answer, calls>>

(* Mutant of Leave: the lock is kept.                                      *)
LeaveLocked(t, ans) ==
  /\ answer' = [answer EXCEPT ![t] = ans]
  /\ Goto(t, "idle")
  /\ UNCHANGED <<lock, prog, calls, attempts>>

Leave(t, ans) ==
  /\ lock' = [lock EXCEPT ![prog[t]] = Nobody]
  /\ answer' = [answer EXCEPT ![t] = ans]
  /\ Goto(t, "idle")
  /\ UNCHANGED <<prog, calls, attempts>>

(* do_compile: whether the program's name is taken in the work directory.  *)
LookForName(t) ==
  /\ pc[t] = "looking"
  /\ Goto(t, IF NameOf[prog[t]] \in dirs THEN "renaming" ELSE "naming")
  /\ UNCHANGED <<lock, result, path, dirs, prog, answer, calls, attempts>>

MakeWorkspace(t, d) ==
  /\ dirs' = dirs \union {d}
  /\ path' = [path EXCEPT ![prog[t]] = d]
  /\ Goto(t, "building")
  /\ UNCHANGED <<lock, result, prog, answer, calls, attempts>>

(* Mutant of MakeNamed: exist_ok=True.                                     *)
MakeNamedAnyway(t) ==
  /\ pc[t] = "naming"
  /\ MakeWorkspace(t, NameOf[prog[t]])

(* os.makedirs, which raises if the directory has appeared meanwhile.      *)
MakeNamed(t) ==
  /\ pc[t] = "naming"
  /\ NameOf[prog[t]] \notin dirs
  /\ MakeWorkspace(t, NameOf[prog[t]])

NameIsTaken(t) ==
  /\ pc[t] = "naming"
  /\ NameOf[prog[t]] \in dirs
  /\ Leave(t, NameTaken)
  /\ UNCHANGED <<result, path, dirs>>

(* tempfile.mkdtemp, which never meets an existing directory.              *)
MakeTemporary(t) ==
  /\ pc[t] = "renaming"
  /\ \E d \in Temporary \ dirs :
       /\ \A e \in Temporary \ dirs : d <= e
       /\ MakeWorkspace(t, d)

(* The rest of do_compile; an exception leaves no result behind.           *)
Build(t) ==
  /\ pc[t] = "building"
  /\ LET p == prog[t]
         made == CompileResult(Fate[p] = "compiles", path[p])
     IN  IF Fate[p] = "raises"
         THEN Leave(t, Raised) /\ UNCHANGED result
         ELSE Leave(t, made) /\ result' = [result EXCEPT ![p] = made]
  /\ UNCHANGED <<path, dirs>>

-----------------------------------------------------------------------------
Init ==
  /\ lock = [p \in Programs |-> Nobody]
  /\ result = [p \in Programs |-> None]
  /\ path = [p \in Programs |-> None]
  /\ dirs = {}
  /\ pc = [t \in Threads |-> "idle"]
  /\ prog = [t \in Threads |-> CHOOSE p \in Programs : TRUE]   \* not read before it is set
  /\ answer = [t \in Threads |-> None]
  /\ calls = 0
  /\ attempts = [p \in Programs |-> 0]

Continue(t) ==
  \/ UseResult(t) \/ StartCompile(t) \/ LookForName(t) \/ MakeNamed(t)
  \/ NameIsTaken(t) \/ MakeTemporary(t) \/ Build(t)

Next == \E t \in Threads : Continue(t) \/ \E p \in Programs : Call(t, p)

Safety == Init /\ [][Next]_vars

-----------------------------------------------------------------------------
CompileResults == [success : BOOLEAN, path : Directories]

(* Type invariant.                                                         *)
TypeOK ==
  /\ lock \in [Programs -> Threads \union {Nobody}]
  /\ result \in [Programs -> CompileResults \union {None}]
  /\ path \in [Programs -> Directories \union {None}]
  /\ dirs \subseteq Directories
  /\ pc \in [Threads -> {"idle", "calling", "looking", "naming", "renaming", "building"}]
  /\ prog \in [Threads -> Programs]
  /\ answer \in [Threads -> CompileResults \union {Raised, NameTaken, None}]
  /\ calls \in 0 .. MaxCalls
  /\ attempts \in [Programs -> Nat]

(* No two programs share a workspace, however threads that compile         *)
(* programs of one name interleave between the look and the making.        *)
WorkspacesAreDisjoint ==
  \A p, q \in Programs : p # q /\ path[p] # None => path[p] # path[q]

(* The path a call has given its caller stays the program's path: a run    *)
(* that reads Program.path outside the lock is never moved to a workspace  *)
(* a later call of compile sets up.                                        *)
PathsStayValid ==
  \A t \in Threads :
    answer[t] \notin {None, Raised, NameTaken} => path[prog[t]] = answer[t].path
==============================================================================
