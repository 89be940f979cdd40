---------------------------- MODULE Configuration ----------------------------
(***************************************************************************)
(* How configuration files are merged (config.py) and what languages.yaml  *)
(* must say to give a set of languages (languages.py).                     *)
(*                                                                         *)
(* A file is read as a dictionary: the keys in order, and a value for each *)
(* key.  The value of a language is again a dictionary, or Scalar.  Of a   *)
(* command only the metavariables in it are told apart.                    *)
(***************************************************************************)
EXTENDS Languages, SequencesExt, TLC

CONSTANTS
  NoFile,      \* a directory without the file, or with an empty one
  Unreadable,  \* a file that does not parse as a dictionary
  WrongType,   \* a value of a type or range its key does not allow
  BadIds       \* language identifiers that do not start with a lower-case letter

Dict(order, values) == [order |-> order, values |-> values]

(* A value that is not a dictionary.                                       *)
Scalar == [scalar |-> TRUE]

IsMapping(value) == "scalar" \notin DOMAIN value

(* Mutant of Merged: the later value replaces the earlier one altogether.  *)
MergedShallowly(old, new) == new

(* Two values of one key: dictionaries are merged, else the later one      *)
(* counts.                                                                 *)
Merged(old, new) ==
  IF IsMapping(old) /\ IsMapping(new)
  THEN [k \in DOMAIN old \union DOMAIN new |-> IF k \in DOMAIN new THEN new[k] ELSE old[k]]
  ELSE new

(* The elements of a sequence that are in S.                               *)
Kept(s, S) == FlattenSeq([i \in DOMAIN s |-> IF s[i] \in S THEN <<s[i]>> ELSE <<>>])

update_dict(orig, update) ==
  LET old == DOMAIN orig.values
      new == DOMAIN update.values
  IN  Dict(orig.order \o Kept(update.order, new \ old),
           [k \in old \union new |->
              IF k \in old \intersect new THEN Merged(orig.values[k], update.values[k])
              ELSE IF k \in new THEN update.values[k] ELSE orig.values[k]])

(* A dictionary lists its keys, each of them once; what a specification of *)
(* a language gives has the type of its key or is WrongType.               *)
IsFunction(f) == f = [x \in DOMAIN f |-> f[x]]

IsTyped(spec) ==
  /\ "priority" \in DOMAIN spec => spec["priority"] \in Int \union {WrongType}
  /\ \A k \in {"files", "shebang_files"} \intersect DOMAIN spec :
       spec[k] \in (SUBSET Globs) \union {WrongType}
  /\ "shebang" \in DOMAIN spec => spec["shebang"] \in (SUBSET Lines) \union {WrongType}

IsDict(d) ==
  /\ d.order \in Seq(DOMAIN d.values) /\ ToSet(d.order) = DOMAIN d.values
  /\ IsInjective(d.order)
  /\ IsFunction(d.values)
  /\ \A id \in DOMAIN d.values :
       id \in STRING /\ IsFunction(d.values[id]) /\ IsTyped(d.values[id])

(* What reading the files gives: NoFile, Unreadable or a dictionary each.  *)
AreLayers(layers) ==
  /\ layers # <<>> /\ layers \in Seq(ToSet(layers))
  /\ \A i \in DOMAIN layers : layers[i] \in {NoFile, Unreadable} \/ IsDict(layers[i])

(* The files of the search path by increasing priority: the installation,  *)
(* /etc, the user's, and the directory the problem lies in.                *)
ConfigError(layers) == layers[1] = NoFile \/ Unreadable \in ToSet(layers)

(* What has been read after each of them.                                  *)
load_config(layers) ==
  LET res[i \in DOMAIN layers] ==
        IF i = 1 THEN layers[1]
        ELSE IF layers[i] = NoFile THEN res[i - 1]
        ELSE update_dict(res[i - 1], layers[i])
  IN  res

-----------------------------------------------------------------------------
(* Language.update and Language.__check.                                   *)
KEYS == {"name", "priority", "files", "shebang", "shebang_files", "compile", "run"}
MANDATORY == {"name", "priority", "files", "run"}
VARIABLES_IN_COMMANDS ==
  {"path", "files", "binary", "mainfile", "mainclass", "Mainclass", "memlim"}
ENTRY == {"binary", "mainfile", "mainclass", "Mainclass"}

Given(spec, k) == k \in DOMAIN spec

Variables(spec) ==
  spec.run \union (IF Given(spec, "compile") THEN spec.compile ELSE {})

ValidSpec(spec) ==
  /\ MANDATORY \subseteq DOMAIN spec /\ DOMAIN spec \subseteq KEYS
  /\ \A k \in DOMAIN spec : spec[k] # WrongType
  /\ Given(spec, "shebang") <=> Given(spec, "shebang_files")
  /\ Variables(spec) \subseteq VARIABLES_IN_COMMANDS
  /\ Cardinality(Variables(spec) \intersect ENTRY) = 1

AsLanguage(id, spec) ==
  [id |-> id, priority |-> spec.priority, files |-> spec.files,
   shebang_files |-> IF Given(spec, "shebang") THEN spec.shebang_files ELSE {},
   shebang |-> IF Given(spec, "shebang") THEN spec.shebang ELSE {}]

(* Languages.update on an empty set of languages.                          *)
LanguagesOf(config) ==
  [i \in DOMAIN config.order |->
     AsLanguage(config.order[i], config.values[config.order[i]])]

LanguageConfigError(config) ==
  \/ \E id \in DOMAIN config.values :
       id \in BadIds \/ ~ ValidSpec(config.values[id])
  \/ ~ PrioritiesDiffer(LanguagesOf(config))

-----------------------------------------------------------------------------
(* A language as it is meant: each key from the last file that gives it.   *)
Givers(layers, id, k) ==
  {i \in DOMAIN layers :
     layers[i] # NoFile /\ id \in DOMAIN layers[i].values
                        /\ Given(layers[i].values[id], k)}

Intended(layers, id) ==
  LET specs == {layers[i].values[id] :
                  i \in {i \in DOMAIN layers :
                           layers[i] # NoFile /\ id \in DOMAIN layers[i].values}}
      given == UNION {DOMAIN spec : spec \in specs}
  IN  [k \in given |-> layers[Max(Givers(layers, id, k))].values[id][k]]
=============================================================================
