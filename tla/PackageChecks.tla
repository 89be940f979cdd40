---------------------------- MODULE PackageChecks ----------------------------
(***************************************************************************)
(* The checks of a package that only look at what was loaded (checks/):    *)
(* problem_package, config, statements, attachments, graders, includes.    *)
(*                                                                         *)
(* A check is the sequence of the reports it makes when none of them stops *)
(* it; a report is its level and what it is about.                         *)
(***************************************************************************)
EXTENDS Statements

CONSTANTS
  Similar,      \* <<name, directory>>: a name so close to a known one that it looks mistyped
  InvalidNames, \* names that do not match the pattern for names
  Separators,   \* names of persons that still hold a comma or an ampersand
  MainFiles,    \* the paths with base name main.<something>
  PathOrder     \* all paths of programs, sorted

Error(what) == <<"error", what>>
Warning(what) == <<"warning", what>>
Fatal(what) == <<"fatal", what>>
Caught(what) == <<"caught", what>>   \* an error whose exception stays inside the check

When(condition, report) == IF condition THEN <<report>> ELSE <<>>

ForEach(S, report(_)) == MapSeq(report, SetToSeq(S))

error_in_2023_07(version, what) ==
  IF version = LEGACY THEN Warning(what) ELSE Error(what)

-----------------------------------------------------------------------------
output_validator_directory(version) ==
  IF version = LEGACY THEN "output_validators" ELSE "output_validator"

root_directories(version) ==
  {statement_directory(version), output_validator_directory(version),
   "attachments", "data", "include", "submissions", "input_validators"}
  \union IF version = LEGACY THEN {}
         ELSE {"solution", "generators", "static_validator", "input_visualizer",
               "output_visualizer"}

Other(version) == IF version = LEGACY THEN V_2023_07 ELSE LEGACY

check_symlinks(links) ==
  FlattenSeq(ForEach(links, LAMBDA l :
    When(~ l.exists, Error("symlink to nothing")) \o
    When(~ l.inside, Error("symlink out of the package")) \o
    When(l.absolute, Error("absolute symlink"))))

(* Of the names that do not match the pattern, three are allowed.          *)
check_file_and_directory_names(names) ==
  ForEach({n \in names : ~ \/ n.name = ".gitignore" /\ ~ n.dir
                           \/ n.name = ".timelimit" /\ ~ n.dir /\ n.top
                           \/ n.name = ".git" /\ n.dir /\ n.top},
          LAMBDA n : Error("invalid name"))

check_root_directory_names(version, dirs) ==
  LET known == root_directories(version)
      renamed == {statement_directory(Other(version)),
                  output_validator_directory(Other(version))}
      About(name) ==
        CASE name \in InvalidNames -> <<>>
          [] name = "input_format_validators" -> <<Warning("deprecated directory")>>
          [] name \in renamed -> <<Warning("renamed directory")>>
          [] name \in root_directories(Other(version)) \ renamed ->
               <<Warning("directory of another version")>>
          [] OTHER -> When(\E d \in known \ dirs : <<name, d>> \in Similar,
                           Warning("mistyped directory"))
  IN  FlattenSeq(ForEach(dirs \ known, About))

check_problem_package(pkg, version) ==
  check_symlinks(pkg.links) \o
  check_file_and_directory_names(pkg.oddnames) \o
  check_root_directory_names(version, pkg.dirs)

-----------------------------------------------------------------------------
INCOMPATIBLE == {{"pass-fail", "scoring"}, {"submit-answer", "multi-pass"},
                 {"submit-answer", "interactive"}}

IsInteger(tenths) == tenths % 10 = 0

CheckRights(md) ==
  IF md.license = "public domain"
  THEN When(md.rights_owner # Null, Error("rights_owner in public domain"))
  ELSE When(/\ md.license # "unknown"
            /\ md.rights_owner = Null /\ md.source = <<>> /\ md.credits.authors = <<>>,
            Error("nobody holds the rights"))

CheckGrading(md, version, custom_groups) ==
  LET g == md.legacy_grading
  IN  When(g.show_test_data_groups /\ is_pass_fail(md), Error("groups shown in pass-fail")) \o
      When(/\ is_scoring(md) /\ custom_groups /\ version = LEGACY
           /\ ~ md.show_test_data_groups_explicitly_set,
           Warning("show_test_data_groups not given")) \o
      When(is_pass_fail(md) /\ g.on_reject = "grade", Error("on_reject in pass-fail")) \o
      ForEach({k \in {"accept_score", "reject_score", "range", "on_reject"} : g[k] # Null},
              LAMBDA k : Warning("deprecated grading key"))

CheckValidation(validation) ==
  IF validation = <<>> THEN <<>>
  ELSE LET kind == validation[1]
           params == Tail(validation)
       IN  When(kind \notin {"default", "custom"}, Error("validation")) \o
           When(kind = "default" /\ params # <<>>, Error("validation")) \o
           IF kind # "custom" THEN <<>>
           ELSE FlattenSeq(MapSeq(LAMBDA p : When(p \notin {"score", "interactive"},
                                                  Error("validation parameter")), params))

check_config(md, version, by_language, custom_groups) ==
  ForEach({pair \in INCOMPATIBLE : pair \subseteq md.type},
          LAMBDA pair : Error("incompatible types")) \o
  When(is_submit_answer(md), Warning("submit-answer")) \o
  CheckRights(md) \o
  FlattenSeq(MapSeq(LAMBDA a : When(a.name \in Separators, Warning("author name")),
                    md.credits.authors)) \o
  When(md.license = "unknown", Warning("license")) \o
  When(md.uuid = Null, error_in_2023_07(version, "uuid")) \o
  When(~ DOMAIN md.name \subseteq by_language, Error("name without statement")) \o
  CheckGrading(md, version, custom_groups) \o
  CheckValidation(md.legacy_validation) \o
  When(md.limits.time_limit # Null /\ ~ IsInteger(md.limits.time_limit),
       Warning("time limit")) \o
  When(~ IsInteger(md.limits.time_resolution), Warning("time resolution"))

-----------------------------------------------------------------------------
(* Mutant of CheckName: a language without a name is let through.          *)
CheckNameIfGiven(md, version, l) ==
  IF l \notin DOMAIN md.name THEN <<>>
  ELSE When(md.name[l] \in {"", " "}, Error("name is empty"))

CheckName(md, version, l) ==
  IF l \notin DOMAIN md.name THEN <<Error("no name")>>
  ELSE When(md.name[l] \in {"", " "}, Error("name is empty")) \o
       When(version = LEGACY /\ md.name[l] = "$x$", Warning("name looks like LaTeX"))

(* The report that the PDF does not compile is made inside the try that    *)
(* reports exceptions: under bail_on_error it is caught and made again.    *)
CheckConversions(file, samples, md, l, bail) ==
  LET raises == file.ext = "md" /\ get_yaml_problem_name(md, l) = Null
      pdf == pdf_succeeds(file, samples, md, l)
  IN  When(~ pdf /\ bail /\ ~ raises, Caught("pdf")) \o
      When(~ pdf, Error("pdf")) \o
      When(~ html_succeeds(file, samples, md, l), Error("html"))

CheckInteractions(samples, md) ==
  FlattenSeq(ForEach({s \in samples : s[2] = "interaction"}, LAMBDA s :
    When(~ is_interactive(md) /\ ~ is_multi_pass(md), Error("interaction sample")) \o
    When(/\ s \in DOMAIN OddLine
         /\ ~ (OddLine[s] = "---" /\ is_multi_pass(md)),
         Error("interaction line"))))

check_statements(statements, samples, md, version, bail) ==
  CheckInteractions(samples, md) \o
  When(DOMAIN statements = {}, Error("no statement")) \o
  FlattenSeq(ForEach(DOMAIN statements, LAMBDA l :
    When(Len(statements[l]) > 1, Error("two statements in a language")) \o
    CheckName(md, version, l) \o
    FlattenSeq(MapSeq(LAMBDA f : CheckConversions(f, samples, md, l, bail), statements[l]))))

check_attachments(attachments) ==
  ForEach({a \in attachments : a = "directory"}, LAMBDA a : Error("attachment"))

check_graders(n, md, compiles) ==
  IF n > 1 THEN <<Fatal("two graders")>>
  ELSE IF n = 0 THEN <<>>
  ELSE When(is_pass_fail(md), Fatal("grader in pass-fail")) \o
       When(~ is_pass_fail(md) /\ ~ compiles, Fatal("grader does not compile"))

-----------------------------------------------------------------------------
(* Include files: for each language, and "default", the paths under it.    *)
(* Of a sorted list of paths only the first is looked at.                  *)
First(paths) == PathOrder[SelectInSeq(PathOrder, LAMBDA p : p \in paths)]

mainfile_candidates(paths) == paths \intersect MainFiles

FilesFor(includes, id) == IF id \in DOMAIN includes THEN includes[id] ELSE {}

SourcesIn(language, paths) == {p \in paths : Matches(p, language.files)}

(* _load_language_includes: the first of these is the main file.           *)
MainIncluded(includes, language) ==
  mainfile_candidates(SourcesIn(language, FilesFor(includes, language.id)))

IncludesFor(includes, language) ==
  FilesFor(includes, "default") \union FilesFor(includes, language.id)

(* SourceCode.do_compile: what is in the workspace, and where it starts.   *)
Workspace(includes, language, paths) == paths \union IncludesFor(includes, language)

Mainfile(includes, language, paths) ==
  LET src == SourcesIn(language, Workspace(includes, language, paths))
  IN  IF MainIncluded(includes, language) # {} THEN First(MainIncluded(includes, language))
      ELSE IF mainfile_candidates(src) # {} THEN First(mainfile_candidates(src))
      ELSE First(src)

(* Mutant of check_ambiguous_mainfile: nothing is compared.               *)
check_no_mainfile(includes, ls) == <<>>

check_ambiguous_mainfile(includes, ls) ==
  ForEach({id \in DOMAIN includes \ {"default"} :
             /\ \E i \in DOMAIN ls : ls[i].id = id
             /\ Cardinality(mainfile_candidates(includes[id])) > 1},
          LAMBDA id : Error("several main files"))

check_default_sets_mainfile(includes, ls) ==
  FlattenSeq(MapSeq(LAMBDA l :
    When(mainfile_candidates(FilesFor(includes, "default")) # {},
         Error("default main file")), ls))

check_default_and_unknown_languages(includes, ls, version) ==
  FlattenSeq(ForEach(DOMAIN includes, LAMBDA id :
    IF id = "default" THEN When(version = LEGACY, Error("default includes"))
    ELSE When(\A i \in DOMAIN ls : ls[i].id # id, Warning("unknown language"))))

check_default_path_collision(includes) ==
  ForEach({id \in DOMAIN includes \ {"default"} :
             includes[id] \intersect FilesFor(includes, "default") # {}},
          LAMBDA id : Error("collision"))

check_includes(includes, ls, version) ==
  check_default_and_unknown_languages(includes, ls, version) \o
  check_ambiguous_mainfile(includes, ls) \o
  check_default_sets_mainfile(includes, ls) \o
  check_default_path_collision(includes)
=============================================================================
