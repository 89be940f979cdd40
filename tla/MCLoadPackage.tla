---------------------------- MODULE MCLoadPackage ----------------------------
(***************************************************************************)
(* Packages to load with LoadPackage.  An ordinary package of each format, *)
(* and those that differ from it in one respect: the configuration of the  *)
(* languages, the programs, problem.yaml, the statements and their names,  *)
(* a Markdown statement and the samples, the include files, and what else  *)
(* is looked at.                                                           *)
(***************************************************************************)
EXTENDS LoadPackage

MCGlobs == {"*.cpp", "*.py"}
MCMatching == [g \in MCGlobs |->
  IF g = "*.cpp" THEN {"lib.cpp", "main.cc", "main.cpp"} ELSE {"main.py", "util.py"}]
MCLines == {"none", "python2"}
MCPathOrder == <<"lib.cpp", "main.cc", "main.cpp", "main.py", "util.py">>
MCMainFiles == {"main.cc", "main.cpp", "main.py"}
MCBadIds == {"Py"}
MCSimilar == {<<"submission", "submissions">>}
MCInvalidNames == {"a b"}
MCSeparators == {"A, B"}
MCFileOrder ==
  <<<<"a-1", "ans">>, <<"a-1", "in">>, <<"a", "ans">>, <<"a", "in">>, <<"a", "interaction">>,
    <<"b", "ans">>, <<"b", "in">>, <<"q", "interaction">>>>
MCStemOrder == <<"a", "a-1", "b", "q">>
MCQuoting == {<<"q", "interaction">>}
MCOddLine == <<"q", "interaction">> :> "---"

-----------------------------------------------------------------------------
(* Languages as languages.yaml of the installation has them.               *)
Cpp == [name |-> "C++", priority |-> 1000, files |-> {"*.cpp"},
        compile |-> {"binary", "files"}, run |-> {"binary"}]
Python2 == [name |-> "Python 2", priority |-> 860, files |-> {"*.py"},
            shebang_files |-> {"*.py"}, shebang |-> {"python2"},
            compile |-> {"files"}, run |-> {"mainfile"}]
Python3 == [name |-> "Python 3", priority |-> 850, files |-> {"*.py"},
            compile |-> {"files"}, run |-> {"mainfile"}]
Rust == [name |-> "Rust", priority |-> 575, files |-> {}, run |-> {"binary"}]

Base == Dict(<<"cpp", "python2", "python3">>,
             [cpp |-> Cpp, python2 |-> Python2, python3 |-> Python3])
Reordered == Dict(<<"python3", "python2", "cpp">>, Base.values)

Only(id, spec) == Dict(<<id>>, id :> spec)

Overlays ==
  {NoFile, Unreadable,
   Only("python2", "priority" :> 850), Only("python2", "priority" :> 840),
   Only("python3", "priority" :> 870), Only("python3", "files" :> {"*.py", "*.cpp"}),
   Only("python3", [shebang_files |-> {"*.py"}, shebang |-> {"none"}]),
   Only("python3", "shebang" :> {"none"}), Only("python3", "run" :> {"binary"}),
   Only("cpp", "run" :> {"cpu"}), Only("cpp", "colour" :> "red"),
   Only("cpp", "files" :> WrongType), Only("cpp", Scalar),
   Only("rust", [k \in {"name", "files"} |-> Rust[k]]),
   Only("rust", [k \in {"run", "priority"} |-> Rust[k]]), Only("Py", Python3),
   Dict(<<"rust", "python2">>, [rust |-> Rust, python2 |-> "priority" :> 1001])}

-----------------------------------------------------------------------------
Entry(dir, kind, fs) == [dir |-> dir, kind |-> kind, files |-> fs]
Statement(dir, lang, ext, title, body, breaks) ==
  [dir |-> dir, lang |-> lang, ext |-> ext, title |-> title, body |-> body, breaks |-> breaks]

Secret == "0d0e"
LegacyYaml == [uuid |-> Secret, license |-> "cc by", rights_owner |-> "KTH"]
NewYaml == LegacyYaml @@ [name |-> Str("Carrots")]

Hello == Entry("submissions", "source", "main.cpp" :> "none")
OneSample == {<<"b", "in">>, <<"b", "ans">>}

Ordinary(v) ==
  [layers |-> <<Base, NoFile, NoFile, NoFile>>,
   version |-> v,
   yaml |-> IF v = LEGACY THEN LegacyYaml ELSE NewYaml,
   statements |-> <<Statement(statement_directory(v), "en", "tex", "Carrots", <<Text>>, {})>>,
   samples |-> OneSample,
   includes |-> <<>>,
   entries |-> <<Hello>>,
   shortname |-> "carrots",
   links |-> {}, oddnames |-> {},
   dirs |-> {statement_directory(v), "data", "submissions"},
   custom_groups |-> FALSE,
   attachments |-> {},
   grader_compiles |-> TRUE,
   bail |-> FALSE, werror |-> FALSE]

Versions == {LEGACY, V_2023_07}

(* Optional keys: the functions on at most k that give it one of values.   *)
Opt(k, values) == {<<>>} \union {k :> value : value \in values}

Joined(A, B) == {a @@ b : a \in A, b \in B}

With(v, key, values) == {[Ordinary(v) EXCEPT ![key] = value] : value \in values}

-----------------------------------------------------------------------------
(* The configuration of the languages.                                     *)
ByConfiguration ==
  With(LEGACY, "layers",
       {<<base, NoFile, user, parent>> :
          base \in {Base, Reordered}, user \in Overlays, parent \in Overlays}
       \union {<<NoFile, NoFile, NoFile, NoFile>>, <<Unreadable, NoFile, NoFile, NoFile>>})

(* The programs: every small set of files under several configurations.    *)
FileSets == Joined(Joined(Opt("main.py", MCLines), Opt("util.py", MCLines)),
                   Joined(Opt("main.cc", {"none"}), Opt("lib.cpp", {"none"})))

Programs ==
  {<<Entry("submissions", "source", fs)>> : fs \in FileSets}
  \union {<<Entry(dir, kind, IF kind = "build" THEN <<>> ELSE "main.cc" :> "none"), Hello>> :
            dir \in {"input_format_validators", "input_validators", "output_validators",
                     "output_validator", "graders", "elsewhere"},
            kind \in {"build", "viva", "ctd", "source"}}
  \union {<<Entry("graders", "build", <<>>), Entry("graders", "source", "main.py" :> "none")>>}

ByProgram ==
  {[Ordinary(v) EXCEPT !.entries = es, !.layers[1] = base, !.layers[3] = user] :
     v \in Versions, es \in Programs, base \in {Base, Reordered},
     user \in {NoFile, Only("python3", "files" :> {"*.py", "*.cpp"})}}

(* Graders of scoring problems.                                            *)
ByGrader ==
  {[Ordinary(LEGACY) EXCEPT !.yaml = @ @@ ("type" :> type), !.grader_compiles = ok,
                            !.entries = es] :
     type \in {"pass-fail", "scoring"}, ok \in BOOLEAN,
     es \in {<<>>, <<Entry("graders", "build", <<>>)>>}}

-----------------------------------------------------------------------------
(* problem.yaml.                                                           *)
LegacyYamls ==
  Joined(Joined(Opt("type", {"scoring"}),
                Opt("validation", {<<>>, <<"default">>, <<"default", "x">>, <<"custom">>,
                                   <<"custom", "score", "interactive">>, <<"custom", "x">>,
                                   <<"none">>})),
         Opt("grading", {<<>>, "on_reject" :> "grade", "on_reject" :> "worst_error",
                         "show_test_data_groups" :> TRUE, "range" :> "0 1",
                         "colour" :> "red", "range" :> WrongType}))
  \union Joined(Joined(Opt("author", {<<<<"">>>>, <<<<"A">>, <<"B", "b@x">>>>, <<<<"A, B">>>>}),
                       Joined(Opt("source", {"NCPC"}), Opt("source_url", {"ncpc.org"}))),
                Joined(Joined(Opt("license", {"cc by", "public domain"}), Opt("uuid", {Secret})),
                       Opt("rights_owner", {"KTH"})))
  \union Joined({LegacyYaml},
                Joined(Opt("name", {"", "Carrots"}),
                       Opt("limits", {"memory" :> 2048, "time_multiplier" :> 30,
                                      "memory" :> WrongType, "colour" :> 1, WrongType}))
                \union Opt("keywords", {<<"easy">>}) \union Opt("colour", {"red"}))

Anna == Map([name |-> "A", email |-> "a@x"])
Persons == {Anna, Str(<<"A">>), Str(<<"A", "a@x">>), List(<<Str(<<"B">>), Anna>>)}
Sources == {Str("NCPC"), List(<<>>),
            List(<<Map([name |-> "NCPC", url |-> "ncpc.org"]), Str("SWERC")>>)}
NCPC == Map([name |-> "NCPC", url |-> "ncpc.org"])

NewYamls ==
  Joined({NewYaml},
         Joined(Opt("type", {Str("scoring"), List(<<"pass-fail">>), List(<<"pass-fail", "scoring">>),
                             List(<<"interactive", "multi-pass">>),
                             List(<<"submit-answer", "interactive">>)}),
                Opt("limits", {"time_limit" :> 20, "time_limit" :> 15, "time_resolution" :> 5,
                               "ac_to_time_limit" :> 30, "time_multiplier" :> 30, WrongType})))
  \union Joined({"name" :> Str("Carrots")},
                Joined(Joined(Opt("credits", {Str(<<"A", "a@x">>), Map(<<>>)}
                                             \union {Map("authors" :> p) : p \in Persons}
                                             \union {Map([testers |-> Str(<<"C">>),
                                                          translators |-> [sv |-> p]]) :
                                                       p \in Persons}),
                              Opt("source", Sources \union {NCPC})),
                       Joined(Opt("license", {"cc by", "public domain"}),
                              Joined(Opt("uuid", {Secret}), Opt("rights_owner", {"KTH"})))))
  \union {LegacyYaml, NewYaml @@ [colour |-> "red"], NewYaml @@ [languages |-> WrongType],
          NewYaml @@ [languages |-> <<"cpp">>, embargo_until |-> "2030", version |-> "2"]}

ByYaml ==
  With(LEGACY, "yaml", LegacyYamls) \union With(V_2023_07, "yaml", NewYamls)
  \union {[p EXCEPT !.custom_groups = TRUE] :
            p \in With(LEGACY, "yaml",
                       {"type" :> "scoring",
                        [type |-> "scoring", grading |-> "show_test_data_groups" :> FALSE]})}
  \union {[Ordinary(V_2023_07) EXCEPT !.version = v] : v \in {"2023-07", "2021"}}

-----------------------------------------------------------------------------
(* The statements, their languages, formats and titles, and the names.     *)
StatementFiles(v) ==
  {Statement(statement_directory(v), lang, ext, "Carrots", <<Text>>, {}) :
     lang \in {Null, "en", "sv"}, ext \in {"tex", "md"}}
  \union {Statement(statement_directory(v), "en", "tex", title, <<Text>>, {}) :
            title \in {Null, "", " ", "$x$"}}
  \union {Statement(statement_directory(v), "en", "md", Null, <<Text>>, breaks) :
            breaks \in {{"pdf"}, {"html"}, {"pdf", "html"}}}
  \union {Statement(statement_directory(Other(v)), "en", "tex", "Carrots", <<Text>>, {})}

Names ==
  {Str("Carrots"), Str(""), Map(<<>>)}
  \union {Map(names) : names \in Joined(Opt("en", {"Carrots", " "}), Opt("sv", {"Rot"}))}

Listings(v) == {<<>>} \union SeqOf(StatementFiles(v), 2)

ByStatement ==
  With(LEGACY, "statements", Listings(LEGACY))
  \union {[Ordinary(V_2023_07) EXCEPT !.statements = ss, !.yaml.name = name, !.bail = b] :
            ss \in Listings(V_2023_07), name \in Names, b \in BOOLEAN}

(* The body of a Markdown statement, and the samples.                      *)
SampleSets ==
  {{}, OneSample, {<<"b", "in">>}, {<<"a", "in">>, <<"a", "ans">>, <<"a", "interaction">>},
   {<<"a", "interaction">>} \union OneSample,
   {<<"a", "in">>, <<"a", "ans">>, <<"a-1", "in">>, <<"a-1", "ans">>},
   {<<"q", "interaction">>}, {<<"q", "interaction">>} \union OneSample}

Bodies == UNION {[1 .. n -> {Text, Footnotes, Next1, Remaining}] : n \in 1 .. 3}

BySample ==
  {[Ordinary(V_2023_07) EXCEPT
      !.samples = samples, !.yaml = @ @@ ("type" :> List(types)),
      !.statements = <<Statement("statement", "en", "md", Null, body, {})>>] :
     samples \in SampleSets, body \in Bodies,
     types \in {<<"pass-fail">>, <<"pass-fail", "interactive">>, <<"multi-pass">>}}
  \union With(LEGACY, "samples", SampleSets)

-----------------------------------------------------------------------------
(* Include files, for submissions in C++ and Python.                       *)
Included == SUBSET {"main.cc", "main.cpp", "main.py"}

ByInclude ==
  {[Ordinary(v) EXCEPT !.includes = includes, !.entries = <<Entry("submissions", "source", fs)>>] :
     v \in Versions,
     includes \in Joined(Joined(Opt("cpp", Included), Opt("default", Included \union {{"lib.cpp"}})),
                         Opt("klingon", {{"main.py"}})),
     fs \in {"main.cpp" :> "none", "lib.cpp" :> "none", "util.py" :> "none",
             [p \in {"lib.cpp", "util.py"} |-> "none"]}}
  \union {[Ordinary(v) EXCEPT !.includes = [cpp |-> {"lib.cpp"}, default |-> {"lib.cpp"}]] :
            v \in Versions}

(* The names, links and directories in the package, and the options.       *)
Link(exists, inside, absolute) == [exists |-> exists, inside |-> inside, absolute |-> absolute]
Name(name, dir, top) == [name |-> name, dir |-> dir, top |-> top]

ByLayout ==
  {[Ordinary(v) EXCEPT !.links = links, !.oddnames = names, !.dirs = @ \union dirs,
                       !.shortname = shortname, !.attachments = attachments,
                       !.bail = bail, !.werror = werror] :
     v \in Versions,
     links \in {{}, {Link(TRUE, TRUE, FALSE)}, {Link(FALSE, FALSE, TRUE)}},
     names \in {{}, {Name(".gitignore", FALSE, FALSE), Name(".git", TRUE, TRUE)},
                {Name(".git", TRUE, FALSE)}, {Name(".timelimit", FALSE, TRUE)}},
     dirs \in {{}, {"statement", "problem_statement"}, {"solution", "output_validators"},
               {"submission"}, {"a b", "input_format_validators"}},
     shortname \in {"carrots", "Bad-Name"},
     attachments \in {{}, {"file"}, {"file", "directory"}},
     bail \in BOOLEAN, werror \in BOOLEAN}

MCPackages ==
  {ByConfiguration, ByProgram, ByGrader, ByYaml, ByStatement, BySample, ByInclude, ByLayout}

(* Packages that give their sources in every way there is.                 *)
PackagesWithSources ==
  {{p \in With(V_2023_07, "yaml", NewYamls) : "source" \in DOMAIN p.yaml}}
=============================================================================
