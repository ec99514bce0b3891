---------------------------- MODULE Description ----------------------------
(***************************************************************************)
(* The text of a comment on its way to the page: DescriptionBuilder makes  *)
(* runs of the XML, RstDescriptionTransformer turns `:role:` followed by   *)
(* code into a role, changing the runs in place, and format_description    *)
(* writes them one after the other.                                        *)
(*                                                                         *)
(* A text is a sequence of tokens: a word, a `$`, a `:role:`, a space.     *)
(* What becomes of a token is followed by its place <<p, k>>: the k-th     *)
(* token of the p-th piece of the XML's content.  White space is blanks:   *)
(* what the code does with newlines and tabs is left out.                  *)
(***************************************************************************)
EXTENDS SequencesExt, Naturals, Ordered

CONSTANTS
  Contents  \* what paragraphs may hold: sequences of [name, value]

\* Of the elements a paragraph may hold two are looked at; text has no name.
\* Lists, emphasis and the links doxygen makes of names are elements, too.
PieceNames == {"computeroutput", "formula", "", "other"}
Tokens     == {"word", "$", "role", "space"}

ASSUME DescriptionAssumption ==
  \A c \in Contents : c \in Seq([name : PieceNames, value : Seq(Tokens)])

VARIABLES
  content,  \* the content of the paragraphs, one after the other
  runs,     \* Description.runs: [kind, content, directive]
  formatted,  \* what is written: the places of tokens, and how each is marked up
  phase

textVars == <<content, runs, formatted, phase>>

TextInit == content \in Contents /\ runs = <<>> /\ formatted = <<>> /\ phase = "xml"

At(place)  == content[place[1]].value[place[2]]
Place(p)   == [k \in DOMAIN content[p].value |-> <<p, k>>]
Blank(s)   == \A j \in DOMAIN s : At(s[j]) = "space"

-----------------------------------------------------------------------------
(* DescriptionBuilder.                                                     *)

Run(s, kind) == [kind |-> kind, content |-> s, directive |-> FALSE]

NoDollars(s) == Those(s, {j \in DOMAIN s : At(s[j]) # "$"})

\* strip
Stripped(s) == Trimmed(s, {j \in DOMAIN s : At(s[j]) # "space"})

Dollars(p, k) == {l \in 1..k : content[p].value[l] = "$"}

\* The chunk of a text after its c-th `$`.
Chunk(p, c) ==
  Run(Those(Place(p), {k \in DOMAIN Place(p) : /\ content[p].value[k] # "$"
                                               /\ Cardinality(Dollars(p, k)) = c}),
      IF c % 2 = 1 THEN "math" ELSE "text")

Chunks(p) ==
  [c \in 1..1+Cardinality(Dollars(p, Len(content[p].value))) |-> Chunk(p, c - 1)]

\* _split_math drops empty chunks.
SplitMath(p) == Those(Chunks(p), {c \in DOMAIN Chunks(p) : Chunks(p)[c].content # <<>>})

\* _build_runs: whatever has another name is dropped.
RunsOf(p) ==
  CASE content[p].name = "computeroutput" -> <<Run(Stripped(Place(p)), "code")>>
    [] content[p].name = "formula" -> <<Run(NoDollars(Stripped(Place(p))), "math")>>
    [] content[p].name = "" -> SplitMath(p)
    [] content[p].name = "other" -> <<>>

RemoveTrailingRuns(s) ==
  SubSeq(s, 1, LastPlace({j \in DOMAIN s : ~Blank(s[j].content)}))

\* DescriptionBuilder.build
Built == RemoveTrailingRuns(FlattenSeq([p \in DOMAIN content |-> RunsOf(p)]))

BuildRuns ==
  /\ phase = "xml" /\ phase' = "runs"
  /\ runs' = Built
  /\ UNCHANGED <<content, formatted>>

-----------------------------------------------------------------------------
(* RstDescriptionTransformer.                                              *)

EndsWithRole(s) == s # <<>> /\ At(Last(s)) = "role"

\* Mutant: the first pair of runs is skipped.
TakesRole_ButFirst(j) ==
  /\ j > 2 /\ j \in DOMAIN runs
  /\ runs[j - 1].kind = "text" /\ runs[j].kind = "code"
  /\ EndsWithRole(runs[j - 1].content)

\* Run j is code after a text that ends with a role.  A pair never overlaps
\* another, so the loop's changes in place do not meet.
TakesRole(j) ==
  /\ j > 1 /\ j \in DOMAIN runs
  /\ runs[j - 1].kind = "text" /\ runs[j].kind = "code"
  /\ EndsWithRole(runs[j - 1].content)

Transform ==
  /\ phase = "runs" /\ phase' = "transformed"
  /\ runs' = [j \in DOMAIN runs |->
                IF TakesRole(j) THEN [runs[j] EXCEPT !.directive = TRUE]
                ELSE IF TakesRole(j + 1) THEN [runs[j] EXCEPT !.content = Front(@)]
                ELSE runs[j]]
  /\ UNCHANGED <<content, formatted>>

-----------------------------------------------------------------------------
(* format_description.                                                     *)

Markup(r) ==
  CASE r.kind = "text" -> "text"
    [] r.kind = "math" -> "math"
    [] r.kind = "code" -> IF r.directive THEN "role" ELSE "code"

Written(r) == [k \in DOMAIN r.content |-> [place |-> r.content[k], as |-> Markup(r)]]

Format ==
  /\ phase = "transformed" /\ phase' = "done"
  /\ formatted' = FlattenSeq([j \in DOMAIN runs |-> Written(runs[j])])
  /\ UNCHANGED <<content, runs>>

TextNext == BuildRuns \/ Transform \/ Format

TextSpec == TextInit /\ [][TextNext]_textVars

-----------------------------------------------------------------------------
\* Type invariant.
TextTypeOK ==
  /\ phase \in {"xml", "runs", "transformed", "done"}
  /\ \A j \in DOMAIN runs : /\ runs[j].kind \in {"text", "math", "code"}
                            /\ runs[j].directive => runs[j].kind = "code"
                            /\ Len(runs[j].content) >= 0

Places == UNION {{p} \X DOMAIN content[p].value : p \in DOMAIN content}

Earlier(a, b) == a[1] < b[1] \/ (a[1] = b[1] /\ a[2] < b[2])

\* A word is a formula's if it stands in one or after an odd number of `$`.
IsMath(a) ==
  \/ content[a[1]].name = "formula"
  \/ content[a[1]].name = "" /\ Cardinality(Dollars(a[1], a[2])) % 2 = 1

\* Every word that does not stand in an element the builder ignores is written,
\* once, in the order of the comment, and marked up as what it is there.
WordsSurvive ==
  phase = "done" =>
    /\ {formatted[j].place : j \in DOMAIN formatted} \subseteq Places
    /\ \A a \in Places :
         At(a) = "word" /\ content[a[1]].name # "other"
           => \E j \in DOMAIN formatted :
                /\ formatted[j].place = a
                /\ formatted[j].as = "math" <=> IsMath(a)
                /\ formatted[j].as \in {"code", "role"} <=> content[a[1]].name = "computeroutput"
    /\ \A j, k \in DOMAIN formatted : j < k => Earlier(formatted[j].place, formatted[k].place)

\* The last token before piece p that is written, unless other code or a formula,
\* if only an empty one, comes between.
Preceding(p) ==
  {a \in Places :
     /\ a[1] < p /\ content[a[1]].name # "other" /\ At(a) # "$"
     /\ \A b \in Places : Earlier(a, b) /\ b[1] < p
                            => content[b[1]].name = "other" \/ At(b) = "$"
     /\ \A q \in a[1]+1..p-1 : content[q].name \notin {"computeroutput", "formula"}}

\* Code is written as a role exactly if a `:role:` ends the text before it, and
\* exactly such roles are taken out of the text.
RolesReachTheirCode ==
  phase = "done" =>
    \A p \in DOMAIN content :
      content[p].name = "computeroutput" /\ (\E k \in DOMAIN content[p].value : At(<<p, k>>) = "word") =>
        LET before == {a \in Preceding(p) : At(a) = "role" /\ content[a[1]].name = "" /\ ~IsMath(a)}
            marked == \E j \in DOMAIN formatted : formatted[j].place[1] = p /\ formatted[j].as = "role"
        IN  /\ marked <=> before # {}
            /\ \A a \in before : \A j \in DOMAIN formatted : formatted[j].place # a

\* Every word and every role of a comment gets to the page, as what it is and
\* to where it belongs.
TextSurvives == WordsSurvive /\ RolesReachTheirCode
=============================================================================
