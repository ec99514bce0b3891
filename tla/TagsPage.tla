------------------------------ MODULE TagsPage ------------------------------
(***************************************************************************)
(* onedal_tags_namespace: a page put together by several finds.  The       *)
(* directive finds a namespace, then, by name, each of the classes its XML *)
(* refers to, and last writes its typedefs.  DoxypyIndex answers, for this *)
(* directive and for those of other documents before it, while doxygen may *)
(* rewrite the XML.  An exception of the directive ends the process.       *)
(*                                                                         *)
(* The excerpt that precedes the classes is the business of Listing.       *)
(***************************************************************************)
EXTENDS DoxypyIndex, Ordered

CONSTANTS
  InnerClasses,  \* compound -> version -> the compounds its <innerclass> names
  Spaces         \* the namespaces documents ask for

ASSUME TagsAssumption ==
  /\ Spaces \subseteq Queries
  /\ \A c \in Compounds, v \in Versions :
       /\ InnerClasses[c][v] \in Seq(Compounds)
       /\ \A n \in DOMAIN InnerClasses[c][v] : Transformed(RawName[InnerClasses[c][v][n]]) \in Queries

VARIABLES
  space,    \* the answer that holds the namespace
  rows,     \* what is written: [what, at, of, ver]
  pc,       \* "idle", "namespace", "classes", "class", "done"
  rewritten \* history: the XML has changed since the process opened its index

tags  == <<space, rows, pc>>
tvars == <<vars, tags, rewritten>>

TagsInit ==
  /\ Init
  /\ space = None /\ rows = <<>> /\ pc = "idle"
  /\ rewritten = FALSE

-----------------------------------------------------------------------------
Row(what, at_, of, ver) == [what |-> what, at |-> at_, of |-> of, ver |-> ver]

\* NamespaceBuilder: the classes and the typedefs of the namespace found.
ClassRefs == InnerClasses[space.of][space.ver]

\* Mutant: every member of the namespace is taken for a typedef.
Typedefs_AnyMember ==
  [i \in DOMAIN Members[space.of][space.ver] |->
     Row(Members[space.of][space.ver][i].sort, i, space.of, space.ver)]

Typedefs ==
  LET places == InOrder({i \in DOMAIN Members[space.of][space.ver] :
                           Members[space.of][space.ver][i].sort = "typedef"})
  IN  [j \in DOMAIN places |-> Row("typedef", places[j], space.of, space.ver)]

Ask(q) == Find(q) \/ FindNoEntry(q)

\* TagsNamespaceDirective.rst.
Run(q) ==
  /\ pc \in {"idle", "done"} /\ pc' = "namespace"
  /\ Ask(q)
  /\ rows' = <<>> /\ space' = None
  /\ UNCHANGED rewritten

\* find goes on.
Finding ==
  /\ pc \in {"namespace", "class"}
  /\ Load \/ FindOwn \/ FindInner \/ FindNothing
  /\ UNCHANGED <<tags, rewritten>>

Answer(kinds) ==
  /\ stage = "idle"
  /\ reply.kind = "compound" /\ Kind[reply.of] \in kinds

NamespaceFound ==
  /\ pc = "namespace" /\ pc' = "classes"
  /\ Answer({"namespace"})
  /\ space' = reply
  /\ UNCHANGED <<vars, rows, rewritten>>

\* _add_classes: the next class is found by its name, without inline namespace.
NextClass ==
  /\ pc = "classes" /\ pc' = "class"
  /\ Len(rows) < Len(ClassRefs)
  /\ Ask(Transformed(RawName[ClassRefs[Len(rows) + 1]]))
  /\ UNCHANGED <<space, rows, rewritten>>

ClassFound ==
  /\ pc = "class" /\ pc' = "classes"
  /\ Answer({"class", "struct"})
  /\ rows' = Append(rows, Row("class", Len(rows) + 1, reply.of, reply.ver))
  /\ UNCHANGED <<vars, space, rewritten>>

\* Mutant: the loop ends one class early.
Finish_Early ==
  /\ pc = "classes" /\ pc' = "done"
  /\ Len(rows) + 1 >= Len(ClassRefs)
  /\ rows' = rows \o Typedefs
  /\ UNCHANGED <<vars, space, rewritten>>

\* _add_typedefs.
Finish ==
  /\ pc = "classes" /\ pc' = "done"
  /\ Len(rows) >= Len(ClassRefs)
  /\ rows' = rows \o Typedefs
  /\ UNCHANGED <<vars, space, rewritten>>

-----------------------------------------------------------------------------
\* The process ends; what it knew goes with it.
Ends ==
  /\ space' = None /\ rows' = <<>> /\ pc' = "idle"
  /\ rewritten' = FALSE

\* A KeyError, or the AttributeError of an answer of another kind.
Fails ==
  /\ \/ pc = "namespace" /\ stage = "idle" /\ ~Answer({"namespace"})
     \/ pc = "class" /\ stage = "idle" /\ ~Answer({"class", "struct"})
  /\ Exit
  /\ Ends

\* A file cannot be read, or somebody ends the process.
Dies == (LoadFails \/ Exit) /\ Ends

\* Directives of other documents; the process starts.
Elsewhere ==
  /\ pc \in {"idle", "done"} /\ pc' = "idle"
  /\ \/ Open \/ Load \/ FindOwn \/ FindInner \/ FindNothing
     \/ \E q \in Queries : Ask(q)
  /\ space' = None /\ rows' = <<>>
  /\ UNCHANGED rewritten

Doxygen ==
  /\ Environment
  /\ rewritten' = (rewritten \/ stage # "closed")
  /\ UNCHANGED tags

TagsNext ==
  \/ \E q \in Spaces : Run(q)
  \/ Finding \/ NamespaceFound \/ NextClass \/ ClassFound \/ Finish
  \/ Fails \/ Dies \/ Elsewhere \/ Doxygen

TagsSpec == TagsInit /\ [][TagsNext]_tvars

-----------------------------------------------------------------------------
\* Type invariant.
TagsTypeOK ==
  /\ TypeOK
  /\ space \in Replies \cup {None}
  /\ pc \in {"idle", "namespace", "classes", "class", "done"}
  /\ \A j \in DOMAIN rows :
       /\ rows[j].what \in {"class", "typedef"}
       /\ rows[j].of \in Compounds /\ rows[j].ver \in Versions
  /\ pc \in {"classes", "class", "done"} => space # None
  /\ rewritten \in BOOLEAN

\* A finished page shows each class its namespace refers to, in their order,
\* then each of its typedefs, nothing else and nothing twice.  A class is shown
\* in the place of another only if their names differ by an inline namespace and
\* the index lists it later, or keeps no entry of the other.
PageIsComplete ==
  pc = "done" =>
    LET declared == {i \in DOMAIN Members[space.of][space.ver] :
                       Members[space.of][space.ver][i].sort = "typedef"}
        types    == {j \in DOMAIN rows : rows[j].what = "typedef"}
    IN  /\ \A n \in DOMAIN ClassRefs :
             LET c == ClassRefs[n]
                 d == rows[n].of
             IN  /\ rows[n].what = "class"
                 /\ Transformed(RawName[d]) = Transformed(RawName[c])
                 /\ \/ d = c \/ c \notin listed \/ Kind[c] \notin AllowedKinds
                    \/ Position[d] > Position[c]
        /\ types = Len(ClassRefs)+1..Len(rows)
        /\ {rows[j].at : j \in types} = declared
        /\ \A j, k \in types : j < k => rows[j].at < rows[k].at

\* Versions are mixed on a page only if the XML was rewritten while the process
\* lived, which nothing prevents: what an earlier process had read never shows.
MixedOnlyWhenRewritten ==
  pc = "done" /\ ~rewritten =>
    /\ space.ver = disk[space.of]
    /\ \A j \in DOMAIN rows : rows[j].ver = disk[rows[j].of]
=============================================================================
