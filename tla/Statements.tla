----------------------------- MODULE Statements -----------------------------
(***************************************************************************)
(* Finding the statements of a problem and their names, and putting its    *)
(* samples into them (statement_util.py, md2html.py, template.py).         *)
(*                                                                         *)
(* A statement file is its directory, the language and extension in its    *)
(* name, its title, the pieces its text is made of (plain text, the        *)
(* markers {{nextsample}} and {{remainingsamples}}, and the footnotes) and *)
(* the converters that cannot cope with its text.  A sample file is its    *)
(* stem and its extension.                                                 *)
(***************************************************************************)
EXTENDS Metadata

CONSTANTS
  FileOrder,   \* the sample files there may be, in the order of their names
  StemOrder,   \* their stems, in order
  Quoting,     \* those whose text holds {{nextsample}} itself
  OddLine      \* .interaction files with a line that does not start with < or >: "---" or "other"

ASSUME OrderAssumption ==
  /\ FileOrder \in Seq(STRING \X STRING) /\ IsInjective(FileOrder)
  /\ StemOrder \in Seq(STRING) /\ IsInjective(StemOrder)
  /\ \A s \in ToSet(FileOrder) : s[1] \in ToSet(StemOrder)

statement_directory(version) ==
  IF version = LEGACY THEN "problem_statement" ELSE "statement"

statement_extensions(version) == IF version = LEGACY THEN {"tex"} ELSE {"md", "tex"}

(* A legacy statement without a language in its name is in English.        *)
LanguageOf(file) == IF file.lang = Null THEN "en" ELSE file.lang

(* The statements of each language, in the order of the directory listing. *)
find_statements(listing, version) ==
  LET IsStatement(f) == /\ f.dir = statement_directory(version)
                        /\ f.ext \in statement_extensions(version)
                        /\ f.lang = Null => version = LEGACY
      all == {f \in ToSet(listing) : IsStatement(f)}
  IN  [l \in {LanguageOf(f) : f \in all} |->
         Kept(listing, {f \in all : LanguageOf(f) = l})]

load_names_from_statements(listing) ==
  LET by_language == find_statements(listing, LEGACY)
      Title(l) == by_language[l][1].title
  IN  [l \in {l \in DOMAIN by_language : Title(l) # Null} |-> Title(l)]

(* Null stands for the exceptions.                                         *)
find_statement(listing, version, language) ==
  LET candidates == find_statements(listing, version)
  IN  IF language \in DOMAIN candidates /\ Len(candidates[language]) = 1
      THEN candidates[language][1] ELSE Null

get_yaml_problem_name(md, language) ==
  IF Cardinality(DOMAIN md.name) = 1 THEN md.name[CHOOSE l \in DOMAIN md.name : TRUE]
  ELSE IF language \in DOMAIN md.name THEN md.name[language] ELSE Null

-----------------------------------------------------------------------------
(* The samples of an HTML statement written in Markdown: .interaction      *)
(* hides .in, and .in needs its .ans.                                      *)
format_samples(samples) ==
  Kept(FileOrder,
       {s \in samples :
          \/ s[2] = "interaction"
          \/ /\ s[2] = "in"
             /\ <<s[1], "interaction">> \notin samples
             /\ <<s[1], "ans">> \in samples})

(* The samples of a LaTeX statement, and of every PDF.                     *)
TemplateSamples(samples) ==
  Kept(StemOrder,
       {stem \in ToSet(StemOrder) :
          <<stem, "in">> \in samples \/ <<stem, "interaction">> \in samples})

(* A stem with .in alone is asked for and cannot be shown.                 *)
LatexMisses(samples) ==
  \E stem \in ToSet(TemplateSamples(samples)) :
    {<<stem, "ans">>, <<stem, "interaction">>} \intersect samples = {}

-----------------------------------------------------------------------------
Text == <<"text">>
Footnotes == <<"footnotes">>
Next1 == <<"nextsample">>
Remaining == <<"remainingsamples">>
Markers == {Next1, Remaining}

Sample(s) == <<"sample", s[1], s[2]>>
Pieces == {Text, Footnotes} \union Markers \union {Sample(s) : s \in ToSet(FileOrder)}

Formatted(s) == IF s \in Quoting THEN <<Sample(s), Next1>> ELSE <<Sample(s)>>

FirstAt(html, pieces) == SelectInSeq(html, LAMBDA p : p \in pieces)

Replace(html, i, pieces) ==
  SubSeq(html, 1, i - 1) \o pieces \o SubSeq(html, i + 1, Len(html))

Rendering(html, rest) == [html |-> html, rest |-> rest, raised |-> FALSE]
NoSamplesLeft == [html |-> <<>>, rest |-> <<>>, raised |-> TRUE]

(* One turn of the loop: it replaces the first marker, and looks again     *)
(* from the start the next time, at what it has just put in too.           *)
InjectAtMarker(r) ==
  LET i == FirstAt(r.html, Markers)
      n == IF r.html[i] = Next1 THEN 1 ELSE Len(r.rest)
      injected == FlattenSeq(MapSeq(Formatted, SubSeq(r.rest, 1, n)))
  IN  IF i = 0 THEN r
      ELSE IF r.html[i] = Next1 /\ r.rest = <<>> THEN NoSamplesLeft
      ELSE Rendering(Replace(r.html, i, injected), SubSeq(r.rest, n + 1, Len(r.rest)))

(* Each turn takes a marker away, and each sample brings at most one.      *)
inject_samples(html, samples) ==
  LET turns == Len(html) + Len(samples)
      after[n \in 0 .. turns] ==
        IF n = 0 THEN Rendering(html, samples) ELSE InjectAtMarker(after[n - 1])
  IN  after[turns]

(* Mutant of WithRemaining: the rest is dropped.                           *)
WithRemainingDropped(r) == r.html

(* md2html: what is left goes before the footnotes, or at the end.         *)
WithRemaining(r) ==
  LET i == FirstAt(r.html, {Footnotes})
      rest == FlattenSeq(MapSeq(Formatted, r.rest))
  IN  IF i = 0 THEN r.html \o rest
      ELSE Replace(r.html, i, Append(rest, Footnotes))

(* The pieces of the HTML of a Markdown statement; Null if it raises.      *)
md2html(file, samples) ==
  LET r == inject_samples(file.body, format_samples(samples))
  IN  IF r.raised THEN Null ELSE WithRemaining(r)

(* The stems shown in a rendered statement, in order.                      *)
ShownIn(html) ==
  MapSeq(LAMBDA p : p[2], Kept(html, {p \in ToSet(html) : p[1] = "sample"}))

(* The HTML of any statement: plasTeX shows the samples of the template at *)
(* the end.                                                                *)
html_samples(file, samples) ==
  IF file.ext = "md" THEN ShownIn(md2html(file, samples)) ELSE TemplateSamples(samples)

(* LuaLaTeX stops at samples it misses, and at the markers of Markdown,    *)
(* which LaTeX does not know; Markdown needs a name.                       *)
pdf_succeeds(file, samples, md, language) ==
  /\ "pdf" \notin file.breaks
  /\ ~ LatexMisses(samples)
  /\ file.ext = "md" => /\ FirstAt(file.body, Markers) = 0
                        /\ get_yaml_problem_name(md, language) # Null

html_succeeds(file, samples, md, language) ==
  /\ "html" \notin file.breaks
  /\ file.ext = "md" => /\ md2html(file, samples) # Null
                        /\ get_yaml_problem_name(md, language) # Null
=============================================================================
