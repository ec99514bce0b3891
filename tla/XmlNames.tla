------------------------------ MODULE XmlNames ------------------------------
(***************************************************************************)
(* What doxygen's XML says and how dalapi names it: the vocabulary shared  *)
(* by Lookup, which states what a query means, and DoxypyIndex, which      *)
(* answers it lazily from files that may change meanwhile.                 *)
(*                                                                         *)
(* A name is the sequence of its segments: dal::v1::table is               *)
(* <<"dal", "v1", "table">>.  A compound (class, namespace, ...) has an    *)
(* XML file of its own; index.xml lists the compounds in the order         *)
(* Position.  A version of a file declares a sequence of members.          *)
(***************************************************************************)
EXTENDS Naturals, Sequences, FiniteSets

CONSTANTS
  Compounds,   \* the refids of compounds
  None,        \* "no compound", "no answer yet"
  Kind,        \* compound -> "class", "struct", "namespace", "file", ...
  RawName,     \* compound -> its name in the XML
  Position,    \* compound -> its place in index.xml
  Inline,      \* the segments that match v\d+
  Versions,    \* versions of an XML file
  Members,     \* compound -> version -> sequence of [sort, name]
  Queries      \* the names documents ask for

\* "accessor": a get_x of a class that also has a set_x, or the other way round.
Sorts == {"function", "accessor", "static", "typedef", "enum"}

ASSUME XmlAssumption ==
  /\ None \notin Compounds /\ IsFiniteSet(Compounds)
  /\ Versions \subseteq Nat \ {0}
  /\ \A c, d \in Compounds : Position[c] = Position[d] => c = d
  /\ Position \in [Compounds -> Nat]
  /\ \A c \in Compounds, v \in Versions :
       Members[c][v] \in Seq([sort : Sorts, name : STRING])

-----------------------------------------------------------------------------
\* NameTransformer deletes every `::v\d+`; the first segment has no `::`.
Transformed(name) ==
  <<Head(name)>> \o SelectSeq(Tail(name), LAMBDA s : s \notin Inline)

\* split_compound_name; the parent of a plain name is the empty name.
ParentOf(q) == SubSeq(q, 1, Len(q) - 1)
LastOf(q)   == q[Len(q)]

AllowedKinds == {"class", "struct", "namespace", "typedef"}

\* The dictionary of an index made from `listed` maps `name` to c: of the
\* compounds that get this name the last one listed remains.
IsEntry(listed, name, c) ==
  LET of == {d \in listed : /\ Kind[d] \in AllowedKinds
                            /\ Transformed(RawName[d]) = name}
  IN  c \in of /\ \A d \in of : Position[d] <= Position[c]

HasEntry(listed, name) == \E c \in Compounds : IsEntry(listed, name, c)

\* The members of version v of c that can be asked for by name.  The accessors
\* of a class have become properties, its static functions are kept apart and
\* its types are compounds of their own.
Findable(c, v, name) ==
  {i \in DOMAIN Members[c][v] :
     /\ Members[c][v][i].name = name
     /\ \/ Members[c][v][i].sort = "function" /\ Kind[c] # "typedef"
        \/ Members[c][v][i].sort \in {"typedef", "enum"} /\ Kind[c] = "namespace"}
=============================================================================
