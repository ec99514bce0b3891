----------------------------- MODULE CppScopes -----------------------------
(***************************************************************************)
(* In which C++ scope the directives of a document declare what they show. *)
(*                                                                         *)
(* RstBuilder writes `cpp:namespace` before a name that has a parent, and  *)
(* nothing before the properties of a class.  Sphinx's C++ domain keeps    *)
(* the scope for the rest of the document, but for the content of a        *)
(* declaration, which it parses inside it and leaves again.  So where a    *)
(* name is declared depends on all that was written above it.              *)
(*                                                                         *)
(* A line is known by its level, what it starts, and of what: "namespace", *)
(* "declare", or "text", which also stands for options, code and fields.   *)
(***************************************************************************)
EXTENDS Integers, Sequences, FiniteSets, SequencesExt, Ordered

CONSTANTS
  Entities,    \* what can be declared, and the namespaces
  Global,      \* the global namespace
  Kind,        \* entity -> "namespace", "class", "function", ...
  Parent,      \* entity -> what it is declared in
  Members,     \* entity -> the sequence of what it lists: functions before
               \* properties, classes before typedefs
  Documented,  \* the functions that have a doc
  Templates,   \* the class templates
  Documents    \* sequences of the entities that directives name

ASSUME ScopesAssumption ==
  /\ Global \notin Entities
  /\ \A e \in Entities : /\ Parent[e] \in Entities \cup {Global}
                         /\ Members[e] \in Seq(Entities)
  \* A class lists its own functions, all that can be found, and properties.
  /\ \A e \in Entities, c \in Entities :
       Kind[c] = "class" /\ Kind[e] \in {"function", "property"} =>
         /\ e \in ToSet(Members[c]) => Parent[e] = c
         /\ Kind[e] = "function" /\ Parent[e] = c => e \in ToSet(Members[c])
  /\ Documented \subseteq Entities /\ Templates \subseteq Entities
  /\ \A d \in Documents :
       /\ d \in Seq(Entities)
       /\ \A e \in ToSet(d) : Kind[e] \in {"class", "function", "enum", "namespace"}

VARIABLES
  document,   \* the names its directives are given
  next,       \* the directive to run next
  rst,        \* what is written of the current one and not parsed yet
  scope,      \* where Sphinx would declare a name: env.temp_data
  open,       \* the declarations whose content is parsed: [level, scope]
  declared    \* history: what was declared where

scopesVars == <<document, next, rst, scope, open, declared>>

\* A scope is what it names.  A template is not the same symbol with its
\* parameters, as a class directive writes it, and without.
Symbol(e, parameters) ==
  [of |-> e, template |-> parameters /\ e \in Templates]

Line(level, what, e) == [level |-> level, what |-> what, of |-> e]

ScopesInit ==
  /\ document \in Documents /\ next = 1
  /\ rst = <<>> /\ open = <<>> /\ declared = {}
  /\ scope = Symbol(Global, FALSE)

-----------------------------------------------------------------------------
(* RstBuilder, and the directives.                                         *)

\* Mutant: what stands at the left margin is thought to need no namespace.
AddName_MembersOnly(e, level) ==
  (IF level = 0 THEN <<>> ELSE <<Line(level, "namespace", Parent[e])>>)
    \o <<Line(level, "declare", e)>>

\* _add_name: of an entity that has a parent.
AddName(e, level) ==
  (IF Parent[e] = Global THEN <<>> ELSE <<Line(level, "namespace", Parent[e])>>)
    \o <<Line(level, "declare", e)>>

\* add_function_base
AddFunction(e, level) ==
  IF e \in Documented THEN AddName(e, level) \o <<Line(level + 1, "text", e)>> ELSE <<>>

\* add_property
AddProperty(e) ==
  <<Line(1, "declare", e), Line(2, "text", e)>>

OfKind(e, kind) ==
  Those(Members[e], {n \in DOMAIN Members[e] : Kind[Members[e][n]] = kind})

FunctionLines(s) == FlattenSeq([n \in DOMAIN s |-> AddFunction(s[n], 1)])
PropertyLines(s) == FlattenSeq([n \in DOMAIN s |-> AddProperty(s[n])])

\* What is written of a class and its members, after an excerpt.
ClassLines(e) ==
  <<Line(0, "text", e)>> \o AddName(e, 0) \o <<Line(1, "text", e)>>
    \o FunctionLines(OfKind(e, "function")) \o PropertyLines(OfKind(e, "property"))

\* The classes or typedefs of a namespace of tags.
TagLines(s) == FlattenSeq([n \in DOMAIN s |-> AddName(s[n], 0) \o <<Line(1, "text", s[n])>>])

TagsLines(e) ==
  <<Line(0, "text", e)>> \o TagLines(OfKind(e, "class")) \o TagLines(OfKind(e, "typedef"))

\* onedal_class, onedal_func, onedal_enumclass, onedal_tags_namespace: the
\* values of an enum are text.
DirectiveLines(e) ==
  CASE Kind[e] = "class" -> ClassLines(e)
    [] Kind[e] = "function" -> <<Line(0, "text", e)>> \o AddFunction(e, 0)
    [] Kind[e] = "enum" -> <<Line(0, "text", e)>> \o AddName(e, 0) \o <<Line(1, "text", e)>>
    [] Kind[e] = "namespace" -> TagsLines(e)

\* MacroDirective.run, once what came before is parsed.
RunDirective ==
  /\ rst = <<>> /\ open = <<>> /\ next \in DOMAIN document
  /\ rst' = DirectiveLines(document[next])
  /\ next' = next + 1
  /\ UNCHANGED <<document, scope, open, declared>>

-----------------------------------------------------------------------------
(* nested_parse, and Sphinx's C++ domain.                                  *)

\* The next line is of the content that is open.
InContent == rst # <<>> /\ (open # <<>> => Head(rst).level > Last(open).level)

\* A content ends where a line stands no further to the right, or the text ends.
LeaveContent ==
  /\ open # <<>> /\ ~InContent
  /\ scope' = Last(open).scope
  /\ open' = Front(open)
  /\ UNCHANGED <<document, next, rst, declared>>

Text ==
  /\ InContent /\ Head(rst).what = "text"
  /\ rst' = Tail(rst)
  /\ UNCHANGED <<document, next, scope, open, declared>>

\* cpp:namespace
Namespace ==
  /\ InContent /\ Head(rst).what = "namespace"
  /\ scope' = Symbol(Head(rst).of, FALSE)
  /\ rst' = Tail(rst)
  /\ UNCHANGED <<document, next, open, declared>>

\* cpp:class, cpp:function, ...: what is further to the right is its content.
Declare ==
  /\ InContent /\ Head(rst).what = "declare"
  /\ declared' = declared \cup {[entity |-> Head(rst).of, in |-> scope]}
  /\ open' = Append(open, [level |-> Head(rst).level, scope |-> scope])
  /\ scope' = Symbol(Head(rst).of, TRUE)
  /\ rst' = Tail(rst)
  /\ UNCHANGED <<document, next>>

ScopesNext == RunDirective \/ LeaveContent \/ Text \/ Namespace \/ Declare

ScopesSpec == ScopesInit /\ [][ScopesNext]_scopesVars

-----------------------------------------------------------------------------
\* Type invariant: contents are nested, and a declaration stands at the level
\* of the content it is part of.
ScopesTypeOK ==
  /\ scope.of \in Entities \cup {Global} /\ scope.template \in BOOLEAN
  /\ \A n \in DOMAIN rst : rst[n].of \in Entities /\ rst[n].level \in Nat
  /\ \A n \in DOMAIN open : open[n].level = n - 1
  /\ \A d \in declared : d.entity \in Entities /\ d.in.of \in Entities \cup {Global}

\* Whatever directives a document has, and in whatever order, each name is
\* declared in what the headers declare it in; all that is shown of a class, in
\* one symbol: functions name the class without its template parameters, and
\* properties, which name no class, follow them.  The exception is real: nothing
\* is written for a parent that is the global namespace, and its names are
\* declared wherever the directive before it was.
NamesAreInTheirScopes ==
  /\ \A d \in declared : Parent[d.entity] # Global => d.in.of = Parent[d.entity]
  /\ \A d, e \in declared :
       /\ Kind[d.entity] \in {"function", "property"} /\ Kind[e.entity] = "property"
       /\ Parent[d.entity] = Parent[e.entity]
       => d.in = e.in

\* What the directives run so far show at the left margin.
Shown ==
  UNION {IF Kind[document[n]] = "namespace" THEN ToSet(Members[document[n]])
         ELSE {document[n]} : n \in 1..next-1}

\* What an author writes between two directives never stands inside what they
\* show: only what such a name is declared in stays.
NothingLeaks ==
  rst = <<>> /\ open = <<>> => scope.of \in {Global} \cup {Parent[e] : e \in Shown}

\* A directive declares all it shows where it belongs, and leaves the text after
\* it to be declared where it belongs.
ScopesAreKept == NamesAreInTheirScopes /\ NothingLeaks
=============================================================================
