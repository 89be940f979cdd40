-------------------------- MODULE MCValidatorChecks --------------------------
(***************************************************************************)
(* Instances of ValidatorChecks for TLC.  Input validators in two          *)
(* directories and an output validator share a name; one validator fails   *)
(* to compile, and one has no build script.  One test case is filtered out.*)
(***************************************************************************)
EXTENDS ValidatorChecks

CONSTANTS checker, broken, unbuilt, solution   \* names

MCPrograms == {"in/v", "old/v", "in/bad", "in/none", "out/v", "out/bad", "sub"}
MCNameOf == [p \in MCPrograms |->
               CASE p \in {"in/v", "old/v", "out/v"} -> checker [] p \in {"in/bad", "out/bad"} -> broken
                 [] p = "in/none" -> unbuilt [] p = "sub" -> solution]
MCFate == [p \in MCPrograms |->
             CASE p \in {"in/bad", "out/bad"} -> "fails" [] p = "in/none" -> "raises"
               [] OTHER -> "compiles"]

MCTests == <<"s", "t", "u">>
MCSubmissions == <<"sub">>
MCFlags == [t \in ToSet(MCTests) |-> IF t = "u" THEN "small" ELSE "large"]

(* What both validators reject: junk, and one test case of two.            *)
Strict == MCPrograms \X ({"junk", "spaces"} \X {"small", "large"} \union {<<"t", "large">>})
Rejects(set) == {<<x[1], x[2][1], x[2][2]>> : x \in set}

Verdict(given, junk) ==
  [x \in {"answer", "empty", "number"} \X ToSet(MCTests) |->
     IF x[1] = "answer" THEN given[x[2]] ELSE junk[x[2]]]
All(verdict) == [t \in ToSet(MCTests) |-> verdict]

Package(validators, parts, executor) ==
  [validators |-> validators, parts |-> parts, executor |-> executor,
   rejects |-> Rejects(Strict), modifiable |-> {"spaces"},
   output |-> <<"out/v">>, wants_default |-> FALSE, legacy |-> FALSE, installed |-> TRUE,
   standard |-> TRUE, interactive |-> FALSE, verdict |-> Verdict(All("AC"), All("WA"))]

Lists == {<<"in/v", "old/v">>, <<"in/v", "in/bad">>, <<"in/none", "in/v">>, <<>>}

Threaded ==
  {Package(vs, ps, TRUE) : vs \in Lists, ps \in {{"validators", "data"}, {"data", "submissions"}}}

(* One thread: what validators, answers and the package may be like.       *)
Lenient ==
  {Rejects(MCPrograms \X ({"junk"} \X {"small"})), {}, Rejects(Strict \ {<<"in/v", <<"t", "large">>>>}),
   Rejects({x \in Strict : x[2][1] # "t"})}

Sequential ==
  {[Package(vs, {"validators", "data"}, FALSE) EXCEPT !.rejects = r, !.verdict = o] :
     vs \in Lists, r \in Lenient,
     o \in {Verdict(a, j) : a \in {All("AC"), All("JE"), [All("AC") EXCEPT !["s"] = "WA"],
                                   [All("AC") EXCEPT !["t"] = "WA"]},
                            j \in {All("WA"), All("AC"), [All("WA") EXCEPT !["s"] = "JE"]}}}

Outputs ==
  {[Package(<<"in/v">>, ps, e) EXCEPT !.output = o, !.wants_default = d, !.legacy = l,
       !.installed = i, !.standard = i, !.interactive = ~ i, !.rejects = Rejects({})] :
     ps \in {{"validators", "data"}, {"data"}, {"validators"}}, e \in BOOLEAN,
     o \in {<<>>, <<"out/v">>, <<"out/bad", "out/v">>}, d \in BOOLEAN, l \in BOOLEAN, i \in BOOLEAN}

MCProblems == Threaded \union Sequential \union Outputs

(* Only the test data is checked, and a validator does not compile.        *)
DataOnly == {Package(<<"in/v", "in/bad">>, {"data"}, TRUE)}
==============================================================================
