------------------------------ MODULE Languages ------------------------------
(***************************************************************************)
(* How the language of a program is recognised (languages.py): the loop of *)
(* Languages.detect_language over the configured languages, in the order   *)
(* the configuration lists them, one step per language.                    *)
(*                                                                         *)
(* A program is a set of files; a file is its path and its first line, and *)
(* of the path only the glob patterns it matches are told apart.           *)
(***************************************************************************)
EXTENDS Integers, FiniteSets, Sequences

CONSTANTS
  Globs,      \* the glob patterns of the configuration
  Matching,   \* the paths that match each pattern
  Lines       \* first lines of files, as the shebang patterns tell them apart

Paths == UNION {Matching[g] : g \in Globs}

(* A language as detection sees it: its globs, the globs shebang_files,    *)
(* and the lines its shebang pattern finds.  No shebang_files is the same  *)
(* as an empty set.                                                        *)
Language == [id : STRING, priority : Int, files : SUBSET Globs,
             shebang_files : SUBSET Globs, shebang : SUBSET Lines]

(* The files of a program: a first line for each path.                     *)
Files == UNION {[P -> Lines] : P \in SUBSET Paths}

VARIABLES
  languages,  \* the languages in the order of the dictionary
  files,      \* the files of the program being looked at
  at,         \* the language to be looked at next
  found       \* the best language so far, 0 for none

detection == <<languages, files, at, found>>

-----------------------------------------------------------------------------
Matches(p, globs) == \E g \in globs : p \in Matching[g]

get_source_files(l, fs) == {p \in DOMAIN fs : Matches(p, l.files)}

passes_shebang_gate(l, fs, p) ==
  Matches(p, l.shebang_files) => fs[p] \in l.shebang

get_source_files_for_detection(l, fs) ==
  {p \in get_source_files(l, fs) : passes_shebang_gate(l, fs, p)}

Count(i) == Cardinality(get_source_files_for_detection(languages[i], files))

(* Mutant of Outdoes: the later of two languages with the same number of   *)
(* files wins.                                                             *)
OutdoesOrTies(i, j) ==
  IF j = 0 THEN Count(i) > 0 ELSE Count(i) >= Count(j)

(* The comparison of (number of files, priority); the loop starts from no  *)
(* files and a priority above all.                                         *)
Outdoes(i, j) ==
  IF j = 0 THEN Count(i) > 0
  ELSE \/ Count(i) > Count(j)
       \/ Count(i) = Count(j) /\ languages[i].priority > languages[j].priority

(* One language of the loop.                                               *)
DetectStep ==
  /\ at <= Len(languages)
  /\ found' = IF Outdoes(at, found) THEN at ELSE found
  /\ at' = at + 1
  /\ UNCHANGED <<languages, files>>

-----------------------------------------------------------------------------
Detected == at > Len(languages)

(* The check at the end of Languages.update.                               *)
PrioritiesDiffer(ls) ==
  \A i, j \in 1 .. Len(ls) : ls[i].priority = ls[j].priority => i = j

(* A set of languages has been read; no program has been looked at yet.    *)
Configure(ls) ==
  /\ Detected
  /\ PrioritiesDiffer(ls)
  /\ languages' = ls
  /\ files' = <<>>
  /\ at' = Len(ls) + 1
  /\ found' = 0

(* The next call of detect_language.                                       *)
Look(fs) ==
  /\ Detected
  /\ files' = fs
  /\ at' = 1
  /\ found' = 0
  /\ UNCHANGED languages

DetectInit ==
  /\ languages = <<>>
  /\ files = <<>>
  /\ at = 1
  /\ found = 0

DetectNext ==
  \/ DetectStep
  \/ \E ls \in Seq(Language) : Configure(ls)
  \/ \E fs \in {f \in Files : IsFiniteSet(DOMAIN f)} : Look(fs)

DetectSpec == DetectInit /\ [][DetectNext]_detection

-----------------------------------------------------------------------------
(* languages.yaml, "Language detection", step 4: the language under which  *)
(* the program has the maximum number of matching files, and of those the  *)
(* one with the highest priority; no language if no file counts for any.   *)
Documented(i) ==
  IF i = 0
  THEN \A j \in 1 .. Len(languages) : Count(j) = 0
  ELSE /\ Count(i) > 0
       /\ \A j \in 1 .. Len(languages) : Count(j) <= Count(i)
       /\ \A j \in (1 .. Len(languages)) \ {i} :
            Count(j) = Count(i) =>
              languages[j].priority < languages[i].priority

(* Whatever the order in which configuration files list the languages, the *)
(* loop ends with the documented one, and that language has a source file  *)
(* of its own in the program, so that compiling it cannot end in "No       *)
(* source files found".                                                    *)
DetectionIsDocumented ==
  Detected =>
    /\ found \in 0 .. Len(languages)
    /\ Documented(found)
    /\ found # 0 => get_source_files(languages[found], files) # {}
=============================================================================
