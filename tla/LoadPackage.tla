----------------------------- MODULE LoadPackage -----------------------------
(***************************************************************************)
(* Loading a problem package and checking what was loaded: load_problem    *)
(* (model/problem.py), find_programs and get_program (run/__init__.py),    *)
(* and the steps of ProblemVerifier.check that only look at the package.   *)
(* The steps that run programs are in modules of their own.                *)
(*                                                                         *)
(* A package is everything the code reads: configuration files, entries of *)
(* the directories of programs, problem.yaml, statements, samples, include *)
(* files, names.  The options -b and --werror belong to it.                *)
(***************************************************************************)
EXTENDS PackageChecks

CONSTANTS
  Packages     \* the packages that may be loaded, in families that differ in one respect

(* load_metadata.  2023-07 is another name of 2023-07-draft.               *)
VersionOf(text) == IF text = "2023-07" THEN V_2023_07 ELSE text

(* What a package is, as far as the theorems need it: configuration files, *)
(* programs that are sets of files, a problem.yaml, a listing of           *)
(* statements, and samples and include files among all there may be.       *)
ASSUME PackagesAssumption ==
  \A family \in Packages : \A p \in family :
    /\ AreLayers(p.layers)
    /\ p.entries \in Seq(ToSet(p.entries))
    /\ \A e \in ToSet(p.entries) : e.files \in Files /\ IsFiniteSet(DOMAIN e.files)
    /\ VersionOf(p.version) \in {LEGACY, V_2023_07} => IsYaml(VersionOf(p.version), p.yaml)
    /\ p.statements \in Seq(ToSet(p.statements))
    /\ \A f \in ToSet(p.statements) :
         f # Null /\ f.body \in Seq({Text, Footnotes} \union Markers)
    /\ p.samples \subseteq ToSet(FileOrder)
    /\ IsFiniteSet(DOMAIN p.includes)
    /\ \A id \in DOMAIN p.includes : p.includes[id] \subseteq ToSet(PathOrder)

ASSUME PathOrderAssumption == PathOrder \in Seq(Paths)

VARIABLES
  pkg,         \* the package
  pc,          \* what is done next
  md,          \* Problem.metadata, Null before it is loaded
  todo,        \* entries of program directories not looked at yet
  programs,    \* the programs found
  reports      \* the reports made

loadVars == <<detection, pkg, pc, md, todo, programs, reports>>

version == md.problem_format_version
by_language == find_statements(pkg.statements, version)

Goto(label) == pc' = label

-----------------------------------------------------------------------------
(* Diagnostics: what a report does besides being printed.                  *)
IsError(r) == r[1] # "warning" \/ pkg.werror

Stops(r) ==
  \/ r[1] = "fatal"
  \/ pkg.bail /\ IsError(r) /\ r[1] # "caught"

(* A check ends at the first report that raises VerifyError, and the       *)
(* verification with it.                                                   *)
Report(rs, next) ==
  LET stop == SelectInSeq(rs, Stops)
  IN  IF stop = 0 THEN reports' = reports \union ToSet(rs) /\ Goto(next)
      ELSE reports' = reports \union ToSet(SubSeq(rs, 1, stop)) /\ Goto("stopped")

(* An exception while loading becomes one fatal report.                    *)
LoadFails ==
  /\ Report(<<Fatal("load")>>, "stopped")
  /\ UNCHANGED <<detection, md, todo, programs>>

-----------------------------------------------------------------------------
LoadLanguages ==
  /\ pc = "languages"
  /\ LET config == load_config(pkg.layers)[Len(pkg.layers)]
     IN  IF ConfigError(pkg.layers) \/ LanguageConfigError(config) THEN LoadFails
         ELSE /\ Configure(LanguagesOf(config))
              /\ Goto("metadata")
              /\ UNCHANGED <<md, todo, programs, reports>>
  /\ UNCHANGED pkg

(* The directories programs are looked for in, in the order of loading.    *)
ProgramDirs(v) ==
  <<"input_format_validators", "input_validators", output_validator_directory(v),
    "graders", "submissions">>

EntriesToLoad(v) ==
  FlattenSeq(MapSeq(LAMBDA d : Kept(pkg.entries, {e \in ToSet(pkg.entries) : e.dir = d}),
                    ProgramDirs(v)))

LoadMetadata ==
  /\ pc = "metadata"
  /\ LET v == VersionOf(pkg.version)
         names == IF v = LEGACY THEN load_names_from_statements(pkg.statements) ELSE <<>>
         loaded == IF v \in {LEGACY, V_2023_07} THEN parse_metadata(v, pkg.yaml, names)
                   ELSE Rejected
     IN  IF loaded = Rejected THEN LoadFails
         ELSE /\ md' = loaded
              /\ todo' = EntriesToLoad(v)
              /\ Goto("programs")
              /\ UNCHANGED <<detection, programs, reports>>
  /\ UNCHANGED pkg

(* get_program: a build script, a validation script, or files of which the *)
(* language is to be found.                                                *)
AsItIs(e) ==
  \/ e.kind = "build"
  \/ /\ e.kind \in {"viva", "ctd"}
     /\ e.dir \in {"input_format_validators", "input_validators"}

TakeAsItIs ==
  /\ pc = "programs" /\ todo # <<>>
  /\ AsItIs(Head(todo))
  /\ programs' = Append(programs, [dir |-> Head(todo).dir, lang |-> 0, mainfile |-> Null])
  /\ todo' = Tail(todo)
  /\ UNCHANGED <<detection, pkg, pc, md, reports>>

LookAtFiles ==
  /\ pc = "programs" /\ todo # <<>>
  /\ ~ AsItIs(Head(todo))
  /\ Detected
  /\ Look(Head(todo).files)
  /\ Goto("detecting")
  /\ UNCHANGED <<pkg, md, todo, programs, reports>>

DetectOne ==
  /\ pc = "detecting"
  /\ DetectStep
  /\ UNCHANGED <<pkg, pc, md, todo, programs, reports>>

(* Only submissions get include files.  An entry in no language is passed  *)
(* over without a word.                                                    *)
EndDetection ==
  /\ pc = "detecting"
  /\ Detected
  /\ LET dir == Head(todo).dir
         includes == IF dir = "submissions" THEN pkg.includes ELSE <<>>
         program(l) == [dir |-> dir, lang |-> found,
                        mainfile |-> Mainfile(includes, l, DOMAIN files)]
     IN  programs' = IF found = 0 THEN programs
                     ELSE Append(programs, program(languages[found]))
  /\ todo' = Tail(todo)
  /\ Goto("programs")
  /\ UNCHANGED <<detection, pkg, md, reports>>

EndLoading ==
  /\ pc = "programs" /\ todo = <<>>
  /\ Goto("package")
  /\ UNCHANGED <<detection, pkg, md, todo, programs, reports>>

-----------------------------------------------------------------------------
(* The checks, in the order of PROBLEM_PARTS and of _build_steps.          *)
Check(label, rs, next) ==
  /\ pc = label
  /\ Report(rs, next)
  /\ UNCHANGED <<detection, pkg, md, todo, programs>>

CheckPackage ==
  Check("package",
        When(pkg.shortname = "Bad-Name", Error("shortname")) \o
        When(version = V_2023_07, Warning("2023-07 is incomplete")) \o
        check_problem_package(pkg, version),
        "config")

CheckConfig ==
  Check("config", check_config(md, version, DOMAIN by_language, pkg.custom_groups),
        "statement")

CheckStatements ==
  Check("statement", check_statements(by_language, pkg.samples, md, version, pkg.bail),
        "attachments")

CheckAttachments == Check("attachments", check_attachments(pkg.attachments), "graders")

Graders == SelectSeq(programs, LAMBDA p : p.dir = "graders")

CheckGraders ==
  Check("graders", check_graders(Len(Graders), md, pkg.grader_compiles), "includes")

CheckIncludes ==
  Check("includes", check_includes(pkg.includes, languages, version), "verified")

LoadInit ==
  /\ DetectInit
  /\ \E family \in Packages : pkg \in family
  /\ pc = "languages"
  /\ md = Null
  /\ todo = <<>>
  /\ programs = <<>>
  /\ reports = {}

LoadNext ==
  \/ LoadLanguages \/ LoadMetadata
  \/ TakeAsItIs \/ LookAtFiles \/ DetectOne \/ EndDetection \/ EndLoading
  \/ CheckPackage \/ CheckConfig \/ CheckStatements \/ CheckAttachments
  \/ CheckGraders \/ CheckIncludes

LoadSpec == LoadInit /\ [][LoadNext]_loadVars

-----------------------------------------------------------------------------
(* problem.yaml comes first to mind, but the languages are configuration   *)
(* too: of each language, every key has the value of the last directory    *)
(* that gives it, however many directories override parts of it; and if    *)
(* they make no sense together the package does not load.  A value that is *)
(* no dictionary throws the earlier ones away.                             *)
Overridable(id) ==
  \A i \in DOMAIN pkg.layers :
    pkg.layers[i] \notin {NoFile, Unreadable} /\ id \in DOMAIN pkg.layers[i].values =>
      IsMapping(pkg.layers[i].values[id])

LayersOverrideKeyByKey ==
  LET ids == UNION {DOMAIN pkg.layers[i].values :
                      i \in {i \in DOMAIN pkg.layers : pkg.layers[i] # NoFile}}
      intended == [id \in ids |-> Intended(pkg.layers, id)]
      sensible == \A id \in ids : id \notin BadIds /\ ValidSpec(intended[id])
      distinct == \A a, b \in ids :
                    intended[a].priority = intended[b].priority => a = b
  IN  /\ pc # "languages"
      /\ Unreadable \notin ToSet(pkg.layers) /\ pkg.layers[1] # NoFile
      /\ \A id \in ids : Overridable(id)
      => ToSet(languages) =
           IF sensible /\ distinct THEN {AsLanguage(id, intended[id]) : id \in ids}
           ELSE {}

(* metadata.py, class Metadata: "Metadata serializes to a valid            *)
(* 2023-07-draft configuration".  Read with that format's parser, what is  *)
(* written gives the same metadata, up to the fields that are about the    *)
(* legacy format only.  But what is written also names the format the      *)
(* package had.  Read as load_metadata reads a problem.yaml, that of a     *)
(* 2023-07 package gives back the metadata as a whole, and that of a       *)
(* legacy package is refused: it has keys that the legacy parser forbids.  *)
MetadataSurvivesDump ==
  md # Null =>
    LET again(v) == parse_metadata(v, WithoutVersion(Dump(md)), <<>>)
        asnew == again(V_2023_07)
        aswritten == again(Dump(md).problem_format_version)
    IN  /\ asnew # Rejected /\ WithoutLegacy(asnew) = WithoutLegacy(md)
        /\ aswritten = IF version = LEGACY THEN Rejected ELSE md

(* "source" may be a string, a mapping or a list of both (the annotation   *)
(* of Metadata2023_07.source): a source given is a source of the metadata. *)
AsSource(s) == IF s.form = "string" THEN [name |-> s.of, url |-> Null] ELSE s.of

SourcesAreKept ==
  md # Null /\ version = V_2023_07 /\ "source" \in DOMAIN pkg.yaml =>
    LET given == pkg.yaml.source
    IN  md.source = IF given.form = "list" THEN MapSeq(AsSource, given.of)
                    ELSE <<AsSource(given)>>

(* The samples shown in the HTML of a Markdown statement, at the markers   *)
(* and below, are those of the package, each once and in order; or the     *)
(* statement does not render.  The exceptions: samples whose own text      *)
(* holds a marker, and markers behind the footnotes, where the rest of the *)
(* samples has already been put.                                           *)
MarkerBehindFootnotes(body) ==
  \E i, j \in DOMAIN body : i < j /\ body[i] = Footnotes /\ body[j] \in Markers

SamplesShownOnceInOrder ==
  \A f \in ToSet(pkg.statements) :
    LET html == md2html(f, pkg.samples)
    IN  /\ f.ext = "md" /\ html # Null
        /\ pkg.samples \intersect Quoting = {}
        /\ ~ MarkerBehindFootnotes(f.body)
        => /\ ShownIn(html) = MapSeq(LAMBDA s : s[1], format_samples(pkg.samples))
           /\ FirstAt(html, Markers) = 0

Verified == pc = "verified" /\ ~ \E r \in reports : IsError(r)

(* The names of two sample files and their stems sort differently if one   *)
(* stem goes on where the other has its extension ("a-1.in" and "a.in").   *)
Before(order, x, y) == \E i, j \in DOMAIN order : i < j /\ order[i] = x /\ order[j] = y

SortDifferently(s, t) == Before(FileOrder, s, t) /\ Before(StemOrder, t[1], s[1])

(* If verifyproblem finds no error, problem2html and problem2pdf work on   *)
(* the package: each language with a name has exactly one statement and    *)
(* the other way round, though names and statements come from different    *)
(* files, and the statements of all languages and formats show the same    *)
(* samples, although two pieces of code collect them.                      *)
ErrorFreePackagesRender ==
  Verified =>
    /\ DOMAIN md.name = DOMAIN by_language
    /\ \A l \in DOMAIN md.name :
         LET f == find_statement(pkg.statements, version, l)
         IN  /\ f # Null
             /\ get_yaml_problem_name(md, l) \notin {Null, ""}
             /\ html_succeeds(f, pkg.samples, md, l)
             /\ pdf_succeeds(f, pkg.samples, md, l)
             /\ \/ html_samples(f, pkg.samples) = TemplateSamples(pkg.samples)
                \/ \E s, t \in ToSet(format_samples(pkg.samples)) : SortDifferently(s, t)

(* If verifyproblem finds no error, the include files leave no doubt where *)
(* a submission starts: at most one of those added to it is a main file of *)
(* its language, and then it starts there.                                 *)
IncludesDecideEntryPoint ==
  Verified =>
    \A i \in DOMAIN programs :
      LET p == programs[i]
          l == languages[p.lang]
          mains == SourcesIn(l, IncludesFor(pkg.includes, l)) \intersect MainFiles
      IN  p.dir = "submissions" /\ p.lang # 0 =>
            /\ Cardinality(mains) <= 1
            /\ mains # {} => mains = {p.mainfile}
=============================================================================
