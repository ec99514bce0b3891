------------------------------- MODULE Roles -------------------------------
(***************************************************************************)
(* The roles capterm and txtref: what an author writes between backquotes  *)
(* becomes the text of a cross-reference, which Sphinx takes apart again.  *)
(*                                                                         *)
(* A text is a sequence of characters; "a" and "A" stand for all letters,  *)
(* "-" for `-` and `_`, the characters that separate the words of a label. *)
(***************************************************************************)
EXTENDS SequencesExt, Integers, Ordered

CONSTANT MaxLen  \* bound on the length of a text

Characters == {"a", "A", "-", " ", "<", ">"}

ASSUME RolesAssumption == MaxLen \in Nat

VARIABLES
  role,     \* "capterm" or "txtref"
  text,     \* what the author wrote
  fixed,    \* what is handed to Sphinx
  title, target,  \* what Sphinx shows, and what it refers to
  state

rolesVars == <<role, text, fixed, title, target, state>>

RolesInit ==
  /\ role \in {"capterm", "txtref"}
  /\ text \in UNION {[1..n -> Characters] : n \in 1..MaxLen}
  /\ Head(text) # " " /\ Last(text) # " "
  /\ fixed = <<>> /\ title = <<>> /\ target = <<>>
  /\ state = "written"

-----------------------------------------------------------------------------
Upper(c) == IF c = "a" THEN "A" ELSE c
Lower(c) == IF c = "A" THEN "a" ELSE c

LowerAll(s) == [k \in DOMAIN s |-> Lower(s[k])]

\* capitalize: the first character upper, all others lower.
Capitalized(s) == [k \in DOMAIN s |-> IF k = 1 THEN Upper(s[k]) ELSE Lower(s[k])]

Solid(s) == {k \in DOMAIN s : s[k] # " "}

Strip(s) == Trimmed(s, Solid(s))

Explicit(txt, ref) == txt \o <<" ", "<">> \o ref \o <<">">>

\* The places i < j of the brackets `(.{least,})<(.+)>` matches in s: as every
\* group takes what it can, the last ones that will do.
Brackets(s, least) ==
  {p \in (DOMAIN s) \X (DOMAIN s) :
     /\ s[p[1]] = "<" /\ s[p[2]] = ">"
     /\ p[1] > least /\ p[2] > p[1] + 1}

AreBrackets(s, least, i, j) ==
  /\ <<i, j>> \in Brackets(s, least)
  /\ \A p \in Brackets(s, least) : p[1] <= i
  /\ \A p \in Brackets(s, least) : p[1] = i => p[2] <= j

-----------------------------------------------------------------------------
Fixed(s) == fixed' = s /\ state' = "fixed"

CaptermExplicit(i, j) ==
  /\ role = "capterm" /\ state = "written"
  /\ AreBrackets(text, 1, i, j)
  /\ Fixed(Explicit(Strip(SubSeq(text, 1, i - 1)),
                    Capitalized(Strip(SubSeq(text, i + 1, j - 1)))))
  /\ UNCHANGED <<role, text, title, target>>

CaptermPlain ==
  /\ role = "capterm" /\ state = "written"
  /\ Brackets(text, 1) = {}
  /\ Fixed(Explicit(Strip(text), Capitalized(Strip(text))))
  /\ UNCHANGED <<role, text, title, target>>

\* Mutant: what follows a label is forgotten.
MakeTermText_NoSuffix(words, ref, suffix) ==
  Explicit(<<Lower(Head(words))>> \o Tail(words), Strip(ref))

\* make_term_text
MakeTermText(words, ref, suffix) ==
  Explicit(<<Lower(Head(words))>> \o Tail(words) \o suffix, Strip(ref))

\* The words of a label, joined by blanks.
Words(ref) == Strip([k \in DOMAIN ref |-> IF ref[k] = "-" THEN " " ELSE ref[k]])

\* `<label>suffix`
TxtrefSuffix(j) ==
  /\ role = "txtref" /\ state = "written"
  /\ AreBrackets(text, 0, 1, j) /\ j < Len(text)
  /\ LET ref == SubSeq(text, 2, j - 1)
     IN  /\ Words(ref) # <<>>
         /\ Fixed(MakeTermText(Words(ref), ref, SubSeq(text, j + 1, Len(text))))
  /\ UNCHANGED <<role, text, title, target>>

\* `alias <label>` is left to Sphinx.
TxtrefAlias(i) ==
  /\ role = "txtref" /\ state = "written"
  /\ AreBrackets(text, 0, i, Len(text)) /\ i > 1
  /\ Fixed(text)
  /\ UNCHANGED <<role, text, title, target>>

TxtrefPlain ==
  /\ role = "txtref" /\ state = "written"
  /\ Brackets(text, 0) = {}
  /\ Words(text) # <<>>
  /\ Fixed(MakeTermText(Words(text), text, <<>>))
  /\ UNCHANGED <<role, text, title, target>>

\* RuntimeError for an alias with a suffix, or neither; IndexError for a label
\* without a word.
TxtrefRaises ==
  /\ role = "txtref" /\ state = "written" /\ state' = "raised"
  /\ \/ \E i, j \in DOMAIN text :
          /\ AreBrackets(text, 0, i, j)
          /\ \/ (i > 1) = (j < Len(text))
             \/ i = 1 /\ j < Len(text) /\ Words(SubSeq(text, i + 1, j - 1)) = <<>>
     \/ Brackets(text, 0) = {} /\ Words(text) = <<>>
  /\ UNCHANGED <<role, text, fixed, title, target>>

-----------------------------------------------------------------------------
\* Where Sphinx takes the text apart: at its last `<`, if it ends with `>`.
SplitAt(s) ==
  {i \in 2..Len(s)-1 : /\ s[i] = "<" /\ Last(s) = ">"
                       /\ \A k \in i+1..Len(s) : s[k] # "<"}

RightStripped(s) == SubSeq(s, 1, LastPlace(Solid(s)))

\* XRefRole, which lowers the target of a txtref.
Resolve ==
  /\ state = "fixed" /\ state' = "done"
  /\ LET cased(s) == IF role = "txtref" THEN LowerAll(s) ELSE s
     IN  \/ \E i \in SplitAt(fixed) :
              /\ title' = RightStripped(SubSeq(fixed, 1, i - 1))
              /\ target' = cased(SubSeq(fixed, i + 1, Len(fixed) - 1))
         \/ /\ SplitAt(fixed) = {}
            /\ title' = fixed /\ target' = cased(fixed)
  /\ UNCHANGED <<role, text, fixed>>

RolesNext ==
  \/ \E i, j \in DOMAIN text : CaptermExplicit(i, j)
  \/ CaptermPlain \/ TxtrefPlain \/ TxtrefRaises
  \/ \E i \in DOMAIN text : TxtrefSuffix(i) \/ TxtrefAlias(i)
  \/ Resolve

RolesSpec == RolesInit /\ [][RolesNext]_rolesVars
-----------------------------------------------------------------------------
\* Type invariant.
RolesTypeOK ==
  /\ state \in {"written", "fixed", "done", "raised"}
  /\ fixed \in Seq(Characters)
  /\ fixed # <<>> <=> state \in {"fixed", "done"}
  /\ title \in Seq(Characters) /\ target \in Seq(Characters)

\* How an author reads a text: the last `<` and the last `>` enclose a label.
Opening == LastPlace({k \in DOMAIN text : text[k] = "<"})
Closing == LastPlace({k \in DOMAIN text : text[k] = ">"})

InFront == SubSeq(text, 1, Opening - 1)
Enclosed == SubSeq(text, Opening + 1, Closing - 1)
Behind  == SubSeq(text, Closing + 1, Len(text))

\* Something is enclosed, and capterm is told what to show instead.
HasLabel ==
  /\ Opening > 0 /\ Strip(Enclosed) # <<>>
  /\ role = "capterm" => Strip(InFront) # <<>>

IsPlain == Opening = 0

Label == IF IsPlain THEN text ELSE Enclosed

Meant ==
  IF role = "capterm" THEN (IF IsPlain THEN text ELSE Strip(InFront))
  ELSE IF IsPlain THEN Words(text)
  ELSE IF InFront = <<>> THEN Words(Enclosed) \o Behind
  ELSE RightStripped(InFront)

\* Whatever brackets are in the text (of C++ templates, say), both roles refer to
\* the label the author wrote, but for the case of its letters.  Blanks around
\* it are harmless save in a txtref with an alias, which keeps them.
TargetIsTheLabel ==
  state = "done" /\ (IsPlain \/ HasLabel) =>
    /\ LowerAll(Strip(target)) = LowerAll(Strip(Label))
    /\ Strip(target) = target \/ (role = "txtref" /\ InFront # <<>>)

\* All that is written outside the brackets is shown, in its place; where
\* nothing is, a txtref shows the words of its label.  The exception is real:
\* capterm shows nothing of what follows its brackets.
ShowsWhatIsWritten ==
  state = "done" /\ (IsPlain \/ HasLabel) => LowerAll(title) = LowerAll(Meant)

\* Both roles read a text as its author does, whatever brackets are in it: they
\* refer to the label and show what is written around it.
AuthorsAreUnderstood == TargetIsTheLabel /\ ShowsWhatIsWritten
=============================================================================
