------------------------------ MODULE Metadata ------------------------------
(***************************************************************************)
(* The metadata of a problem (metadata.py): problem.yaml in its legacy and *)
(* its 2023-07 form, read into one internal form that can be written out   *)
(* again in the 2023-07 form.                                              *)
(*                                                                         *)
(* problem.yaml is a function on the keys it gives.  Where the format lets *)
(* a value be a string, a mapping or a list, the value carries its form;   *)
(* the text of a person is <<name>> or <<name, email>>, for "name" and     *)
(* "name <email>".  Times and factors are in tenths.                       *)
(***************************************************************************)
EXTENDS Configuration

CONSTANTS
  Null,        \* None
  Rejected     \* the exception of a problem.yaml that is not valid

ASSUME WrongTypeAssumption ==
  /\ WrongType # Null /\ WrongType # "unknown" /\ WrongType # "all"
  /\ WrongType \notin BOOLEAN /\ WrongType \notin Int

LEGACY == "legacy"
V_2023_07 == "2023-07-draft"

Str(s) == [form |-> "string", of |-> s]
Map(f) == [form |-> "mapping", of |-> f]
List(s) == [form |-> "list", of |-> s]

MapSeq(f(_), s) == [i \in DOMAIN s |-> f(s[i])]

(* What f gives, and for the keys it does not give what g gives.           *)
Over(f, g) == [k \in DOMAIN f \union DOMAIN g |-> IF k \in DOMAIN f THEN f[k] ELSE g[k]]

English(name) == [lang \in {"en"} |-> name]

-----------------------------------------------------------------------------
(* config/problem.yaml; its other limits are treated alike.                *)
SystemLimits == [memory |-> 1024, output |-> 8]

LimitsOfKind(version) ==
  IF version = LEGACY
  THEN [time_multiplier |-> 50, time_safety_margin |-> 20]
  ELSE [ac_to_time_limit |-> 20, time_limit_to_tle |-> 15,
        time_limit |-> Null, time_resolution |-> 10]

(* The fields both formats have with the same meaning, those only 2023-07  *)
(* has, and what they are when problem.yaml does not give them.            *)
Shared == [uuid |-> Null, license |-> "unknown", rights_owner |-> Null]
OnlyNew == [version |-> Null, embargo_until |-> Null, languages |-> "all",
            allow_file_writing |-> TRUE, constants |-> <<>>]

CommonKeys == DOMAIN Shared \union DOMAIN OnlyNew

LegacyGrading ==
  [objective |-> "max", show_test_data_groups |-> FALSE, accept_score |-> Null,
   reject_score |-> Null, range |-> Null, on_reject |-> Null]

Defaults(version) ==
  IF version = LEGACY
  THEN Over(Shared,
            [type |-> "pass-fail", name |-> Null, author |-> Null, source |-> Null,
             source_url |-> Null, validation |-> <<"default">>, validator_flags |-> <<>>,
             grading |-> <<>>, keywords |-> <<>>, limits |-> <<>>])
  ELSE Over(Over(Shared, OnlyNew),
            [type |-> Str("pass-fail"), credits |-> Null, source |-> List(<<>>),
             keywords |-> <<>>, limits |-> <<>>])

Mandatory(version) == IF version = LEGACY THEN {} ELSE {"name"}

(* What pydantic refuses: unknown and missing keys, and values of a wrong  *)
(* type or range, in problem.yaml and in its limits and grading.           *)
Valid(version, yaml) ==
  LET keys == DOMAIN Defaults(version)
      limits == DOMAIN SystemLimits \union DOMAIN LimitsOfKind(version)
      Sub(key, known) == key \in DOMAIN yaml =>
        /\ DOMAIN yaml[key] \subseteq known
        /\ \A k \in DOMAIN yaml[key] : yaml[key][k] # WrongType
  IN  /\ Mandatory(version) \subseteq DOMAIN yaml
      /\ DOMAIN yaml \subseteq keys \union Mandatory(version)
      /\ \A k \in DOMAIN yaml : yaml[k] # WrongType
      /\ Sub("limits", limits)
      /\ Sub("grading", DOMAIN LegacyGrading)

(* The values of keys that have the right type.                            *)
IsListing(l) ==
  /\ l.form \in {"string", "mapping", "list"}
  /\ l.form = "list" => l.of \in Seq(ToSet(l.of))
  /\ l.form = "mapping" => IsFiniteSet(DOMAIN l.of)

AreCredits(c) ==
  c.form # "string" =>
    \A k \in DOMAIN c.of :
      IF k # "translators" THEN IsListing(c.of[k])
      ELSE \A lang \in DOMAIN c.of[k] : IsListing(c.of[k][lang])

IsYaml(version, yaml) ==
  LET Typed(key) == key \in DOMAIN yaml /\ yaml[key] # WrongType
  IN  IF version = LEGACY
      THEN /\ Typed("author") => yaml.author \in Seq(ToSet(yaml.author))
           /\ Typed("validation") => yaml.validation \in Seq(ToSet(yaml.validation))
      ELSE /\ Typed("type") => yaml.type.form = "string" \/ yaml.type.of \in Seq(ToSet(yaml.type.of))
           /\ Typed("name") => IF yaml.name.form = "string" THEN yaml.name.of # Null
                               ELSE \A lang \in DOMAIN yaml.name.of : yaml.name.of[lang] # Null
           /\ Typed("source") => IsListing(yaml.source)
           /\ Typed("credits") => AreCredits(yaml.credits)

-----------------------------------------------------------------------------
from_string(text) ==
  [name |-> text[1], email |-> IF Len(text) = 2 THEN text[2] ELSE Null]

NoCredits == [authors |-> <<>>, contributors |-> <<>>, testers |-> <<>>,
              translators |-> <<>>, packagers |-> <<>>, acknowledgements |-> <<>>]

(* What a parsed problem.yaml and the names found in statements give; the  *)
(* first word of validation is looked at whether or not there is one.      *)
from_legacy(d, names_from_statements) ==
  LET custom == d.validation # <<>> /\ d.validation[1] = "custom"
      options == IF custom THEN ToSet(Tail(d.validation)) ELSE {}
      authors == IF d.author = Null THEN <<>>
                 ELSE Kept(d.author, ToSet(d.author) \ {<<"">>})
  IN  IF d.validation = <<>> THEN Rejected ELSE
      Over(Over([k \in DOMAIN Shared |-> d[k]], OnlyNew),
      [problem_format_version |-> LEGACY,
       type |-> {d.type} \union (options \intersect {"interactive"}),
       name |-> IF names_from_statements # <<>> THEN names_from_statements
                ELSE IF d.name \in {Null, ""} THEN <<>> ELSE English(d.name),
       credits |-> [NoCredits EXCEPT !.authors = MapSeq(from_string, authors)],
       source |-> IF d.source = Null THEN <<>>
                  ELSE <<[name |-> d.source, url |-> d.source_url]>>,
       limits |-> [memory |-> d.limits.memory, output |-> d.limits.output,
                   ac_to_time_limit |-> d.limits.time_multiplier,
                   time_limit_to_tle |-> d.limits.time_safety_margin,
                   time_limit |-> Null, time_resolution |-> 10],
       keywords |-> d.keywords,
       legacy_grading |-> Over(d.grading, LegacyGrading),
       legacy_validation |-> d.validation,
       legacy_validator_flags |-> d.validator_flags,
       legacy_custom_score |-> "score" \in options,
       show_test_data_groups_explicitly_set |->
         "show_test_data_groups" \in DOMAIN d.grading])

(* Mutant of parse_person: persons that are mappings lose their address.   *)
parse_person_by_name(p) == from_string(IF p.form = "string" THEN p.of ELSE <<p.of.name>>)

parse_person(p) == IF p.form = "string" THEN from_string(p.of) ELSE p.of

parse_source(s) == IF s.form = "string" THEN [name |-> s.of, url |-> Null] ELSE s.of

(* A single mapping is taken for a list, and so for its keys.  A source    *)
(* has been parsed and has both of its keys; credits have not, so a person *)
(* has the keys the mapping gives, here in some order.                     *)
parse_list(callback(_), lst, keys) ==
  CASE lst.form = "string"  -> <<callback(lst)>>
    [] lst.form = "mapping" -> MapSeq(callback, keys)
    [] lst.form = "list"    -> MapSeq(callback, lst.of)

SourceKeys == <<Str("name"), Str("url")>>
PersonKeys(lst) == MapSeq(LAMBDA key : Str(<<key>>), SetToSeq(DOMAIN lst.of))

parse_persons(lst) ==
  parse_list(parse_person, lst, IF lst.form = "mapping" THEN PersonKeys(lst) ELSE <<>>)

parse_credits(c) ==
  IF c = Null THEN NoCredits
  ELSE IF c.form = "string" THEN [NoCredits EXCEPT !.authors = <<parse_person(c)>>]
  ELSE Over([k \in DOMAIN c.of |->
               IF k # "translators" THEN parse_persons(c.of[k])
               ELSE [lang \in DOMAIN c.of[k] |-> parse_persons(c.of[k][lang])]],
            NoCredits)

NoLegacy ==
  [legacy_grading |-> LegacyGrading, legacy_validation |-> <<>>,
   legacy_validator_flags |-> <<>>, legacy_custom_score |-> FALSE,
   show_test_data_groups_explicitly_set |-> FALSE]

from_2023_07(d) ==
  Over(Over([k \in CommonKeys |-> d[k]], NoLegacy),
  [problem_format_version |-> V_2023_07,
   type |-> IF d.type.form = "string" THEN {d.type.of} ELSE ToSet(d.type.of),
   name |-> IF d.name.form = "string" THEN English(d.name.of) ELSE d.name.of,
   credits |-> parse_credits(d.credits),
   source |-> parse_list(parse_source, d.source, SourceKeys),
   limits |-> d.limits,
   keywords |-> d.keywords])

(* parse_metadata; the limits of problem.yaml are put over the system's.   *)
parse_metadata(version, yaml, names_from_statements) ==
  IF ~ Valid(version, yaml) THEN Rejected
  ELSE LET all == Over(yaml, Defaults(version))
           d == [all EXCEPT !.limits = Over(@, Over(SystemLimits, LimitsOfKind(version)))]
       IN  IF version = LEGACY THEN from_legacy(d, names_from_statements)
           ELSE from_2023_07(d)

-----------------------------------------------------------------------------
is_scoring(md) == "scoring" \in md.type
is_pass_fail(md) == ~ is_scoring(md)
is_interactive(md) == "interactive" \in md.type
is_multi_pass(md) == "multi-pass" \in md.type
is_submit_answer(md) == "submit-answer" \in md.type

is_custom_score_allowed(md) ==
  IF md.problem_format_version = LEGACY THEN md.legacy_custom_score ELSE is_scoring(md)

is_custom_score_mandatory(md) ==
  md.problem_format_version = LEGACY /\ md.legacy_custom_score

-----------------------------------------------------------------------------
(* Serialising: a list of types, a mapping of names, lists of mappings;    *)
(* the legacy fields are left out, the version of the format is not.  That *)
(* key chooses the parser (load_metadata); the yaml of the other           *)
(* definitions is the rest of problem.yaml.                                *)
AsMappings(s) == List(MapSeq(Map, s))

DumpedFields(md) ==
  Over([k \in CommonKeys |-> md[k]],
  [type |-> List(SetToSeq(md.type)),
   name |-> Map(md.name),
   credits |-> Map([k \in DOMAIN md.credits |->
                      IF k # "translators" THEN AsMappings(md.credits[k])
                      ELSE [lang \in DOMAIN md.credits[k] |->
                              AsMappings(md.credits[k][lang])]]),
   source |-> AsMappings(md.source),
   limits |-> md.limits,
   keywords |-> md.keywords])

Dump(md) ==
  Over([problem_format_version |-> md.problem_format_version], DumpedFields(md))

WithoutVersion(yaml) == [k \in DOMAIN yaml \ {"problem_format_version"} |-> yaml[k]]

WithoutLegacy(md) ==
  [k \in DOMAIN md \ (DOMAIN NoLegacy \union {"problem_format_version"}) |-> md[k]]
=============================================================================
