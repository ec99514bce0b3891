---------------------------- MODULE DoxypyIndex ----------------------------
(***************************************************************************)
(* doxypy's index: how a process finds what documents name.                *)
(*                                                                         *)
(* index.xml is parsed when the index is made; the XML of a compound is    *)
(* parsed, built and transformed when a query first comes to it, and the   *)
(* tree is kept for the life of the process -- by its _IndexEntry and by   *)
(* the ModelLoader, which hold the same object (`tree` here).  A query is  *)
(* looked up as a compound and else among the members of the compound its  *)
(* prefix names.  Other processes (doxygen) write the files meanwhile.     *)
(*                                                                         *)
(* A file that cannot be parsed or built into a tree ends the process:     *)
(* neither find, which expects a KeyError, nor Sphinx catches the error.   *)
(* An AttributeError of the search among members ends that search alone.   *)
(***************************************************************************)
EXTENDS XmlNames

Trees == [ver : Versions, passes : {1}]

Replies ==
  [q : Queries, kind : {"compound", "member", "missing", "broken"},
   of : Compounds \cup {None}, ver : Versions \cup {0}, at : Nat, passes : {0, 1}]

ASSUME NoneAssumption == None \notin Trees \cup Replies

VARIABLES
  disk,     \* compound -> version of its XML file, 0: none that can be read
  catalog,  \* the compounds index.xml lists
  listed,   \* the compounds the index was made from
  tree,     \* compound -> the tree kept for it, None: not loaded
  stage,    \* "closed": no index; "idle"; "own", "inner": a find is under way
  query,    \* what it looks for
  at,       \* the compound it has come to
  reply,    \* the last answer
  told      \* history: query -> the first answer this process gave to it

xmlFiles == <<disk, catalog>>
find     == <<stage, query, at>>
vars     == <<xmlFiles, listed, tree, find, reply, told>>

NoTrees   == [c \in Compounds |-> None]
NothingTold == [q \in Queries |-> None]

Answered(q, kind, of, ver, i, passes) ==
  [q |-> q, kind |-> kind, of |-> of, ver |-> ver, at |-> i, passes |-> passes]

Init ==
  /\ disk \in [Compounds -> Versions] /\ catalog = Compounds
  /\ listed = {} /\ tree = NoTrees
  /\ stage = "closed" /\ query = None /\ at = None
  /\ reply = None /\ told = NothingTold

-----------------------------------------------------------------------------
(* Other processes.                                                        *)

\* doxygen writes, deletes, or is in the middle of writing a file.
WriteXml(c, v) ==
  /\ disk' = [disk EXCEPT ![c] = v]
  /\ UNCHANGED <<catalog, listed, tree, find, reply, told>>

WriteIndexXml(cs) ==
  /\ catalog' = cs
  /\ UNCHANGED <<disk, listed, tree, find, reply, told>>

-----------------------------------------------------------------------------
(* The life of a process.                                                  *)

\* Index.__init__, the first time a directive asks for the index.
Open ==
  /\ stage = "closed" /\ stage' = "idle"
  /\ listed' = catalog
  /\ reply' = None
  /\ UNCHANGED <<xmlFiles, tree, query, at, told>>

\* Mutant: the loader's cache belongs to the class, not to the loader.
Forget_KeepsTrees ==
  /\ stage' = "closed" /\ query' = None /\ at' = None
  /\ listed' = {} /\ UNCHANGED tree /\ told' = NothingTold
  /\ UNCHANGED xmlFiles

Forget ==
  /\ stage' = "closed" /\ query' = None /\ at' = None
  /\ listed' = {} /\ tree' = NoTrees /\ told' = NothingTold
  /\ UNCHANGED xmlFiles

\* The process ends, or is ended.
Exit == stage # "closed" /\ reply' = None /\ Forget

-----------------------------------------------------------------------------
(* Index.find.                                                             *)

Reply(r) ==
  /\ stage' = "idle" /\ query' = None /\ at' = None
  /\ reply' = r
  /\ told' = IF told[r.q] = None THEN [told EXCEPT ![r.q] = r] ELSE told
  /\ UNCHANGED <<xmlFiles, listed>>

Missing(q) == Answered(q, "missing", None, 0, 0, 0)

\* find(q): the compound of that name, or the one its prefix names.
Find(q) ==
  /\ stage = "idle"
  /\ query' = q
  /\ \E c \in Compounds :
       /\ at' = c
       /\ \/ stage' = "own" /\ IsEntry(listed, q, c)
          \/ stage' = "inner" /\ IsEntry(listed, ParentOf(q), c)
             /\ ~HasEntry(listed, q)
  /\ UNCHANGED <<xmlFiles, listed, tree, reply, told>>

FindNoEntry(q) ==
  /\ stage = "idle"
  /\ ~HasEntry(listed, q) /\ ~HasEntry(listed, ParentOf(q))
  /\ Reply(Missing(q))
  /\ UNCHANGED tree

\* Mutant: a file is parsed again whenever it is asked for.
Load_NoCache ==
  /\ stage \in {"own", "inner"}
  /\ disk[at] # 0
  /\ tree' = [tree EXCEPT ![at] = [ver |-> disk[at], passes |-> 1]]
  /\ UNCHANGED <<xmlFiles, listed, find, reply, told>>

\* The first to come to a compound has it parsed, built and transformed.
Load ==
  /\ stage \in {"own", "inner"}
  /\ tree[at] = None
  /\ disk[at] # 0
  /\ tree' = [tree EXCEPT ![at] = [ver |-> disk[at], passes |-> 1]]
  /\ UNCHANGED <<xmlFiles, listed, find, reply, told>>

\* No such file, not XML, or not one compound: nothing is kept, find raises.
LoadFails ==
  /\ stage \in {"own", "inner"}
  /\ tree[at] = None
  /\ disk[at] = 0
  /\ reply' = Answered(query, "broken", at, 0, 0, 0)
  /\ Forget

FindOwn ==
  /\ stage = "own" /\ tree[at] # None
  /\ Reply(Answered(query, "compound", at, tree[at].ver, 0, tree[at].passes))
  /\ UNCHANGED tree

\* Mutant: the search ends with the functions.
Attributes_FunctionsOnly(c) == <<"functions">>

\* The lists of its members a compound has: the first of attrs_to_check it
\* lacks ends the search.
Attributes(c) ==
  CASE Kind[c] = "namespace" -> <<"functions", "typedefs", "enum_classes">>
    [] Kind[c] \in {"class", "struct"} -> <<"functions">>
    [] OTHER -> <<>>

\* What PropertyTransformer leaves of the list of functions, and the lists that
\* the builders fill.
Holds(attribute, t) ==
  CASE attribute = "functions" ->
         IF t.passes = 0 THEN {"function", "accessor"} ELSE {"function"}
    [] attribute = "typedefs" -> {"typedef"}
    [] attribute = "enum_classes" -> {"enum"}

\* Member i of c is found in its a-th list under that name.
FoundIn(c, t, name, a, i) ==
  /\ i \in DOMAIN Members[c][t.ver] /\ Members[c][t.ver][i].name = name
  /\ Members[c][t.ver][i].sort \in Holds(Attributes(c)[a], t)

\* The first list that has the name, and the first of that name in it.
IsFirst(c, t, name, a, i) ==
  /\ FoundIn(c, t, name, a, i)
  /\ \A b \in DOMAIN Attributes(c), j \in DOMAIN Members[c][t.ver] :
       FoundIn(c, t, name, b, j) => b > a \/ (b = a /\ j >= i)

FindInner ==
  /\ stage = "inner" /\ tree[at] # None
  /\ \E a \in DOMAIN Attributes(at), i \in DOMAIN Members[at][tree[at].ver] :
       /\ IsFirst(at, tree[at], LastOf(query), a, i)
       /\ Reply(Answered(query, "member", at, tree[at].ver, i, tree[at].passes))
  /\ UNCHANGED tree

FindNothing ==
  /\ stage = "inner" /\ tree[at] # None
  /\ \A a \in DOMAIN Attributes(at), i \in DOMAIN Members[at][tree[at].ver] :
       ~FoundIn(at, tree[at], LastOf(query), a, i)
  /\ Reply(Missing(query))
  /\ UNCHANGED tree

-----------------------------------------------------------------------------
Environment ==
  \/ \E c \in Compounds, v \in Versions \cup {0} : WriteXml(c, v)
  \/ \E cs \in SUBSET Compounds : WriteIndexXml(cs)

Step ==
  \/ Open \/ Exit
  \/ \E q \in Queries : Find(q) \/ FindNoEntry(q)
  \/ Load \/ LoadFails
  \/ FindOwn \/ FindInner \/ FindNothing

Next == Environment \/ Step

Spec == Init /\ [][Next]_vars

-----------------------------------------------------------------------------
\* Type invariant.
TypeOK ==
  /\ disk \in [Compounds -> Versions \cup {0}] /\ catalog \subseteq Compounds
  /\ listed \subseteq Compounds
  /\ tree \in [Compounds -> Trees \cup {None}]
  /\ stage \in {"closed", "idle", "own", "inner"}
  /\ query \in Queries \cup {None} /\ at \in Compounds \cup {None}
  /\ reply \in Replies \cup {None}
  /\ told \in [Queries -> Replies \cup {None}]

\* Whatever happens to the files, a process never contradicts itself: documents
\* that name the same entity show the same declaration, overload and
\* description of it.
AnswersAgree ==
  reply # None /\ reply.kind # "broken" => told[reply.q] = reply

\* A document is told that a name is missing only if no compound of the index
\* has it, and the compound its prefix names was read and declares no member of
\* that name where Index.find promises to look -- be it then hidden by a later
\* one of the same name (the two differ by their inline namespace).
MissingIsUndeclared ==
  reply # None /\ reply.kind = "missing" =>
    \A c \in listed : Kind[c] \in AllowedKinds =>
      /\ Transformed(RawName[c]) # reply.q
      /\ Transformed(RawName[c]) = ParentOf(reply.q) =>
           \/ tree[c] # None /\ Findable(c, tree[c].ver, LastOf(reply.q)) = {}
           \/ \E d \in listed : /\ Position[d] > Position[c] /\ Kind[d] \in AllowedKinds
                                /\ Transformed(RawName[d]) = ParentOf(reply.q)

\* The index keeps the promises of Lookup: trees are what Lookup takes, and the
\* steps of a find stutter until its answer.
Promised ==
  INSTANCE Lookup WITH
    open  <- stage # "closed",
    taken <- [c \in Compounds |-> IF tree[c] = None THEN 0 ELSE tree[c].ver]

ImplementsLookup == Promised!LookupSpec
=============================================================================
