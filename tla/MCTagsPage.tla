----------------------------- MODULE MCTagsPage -----------------------------
(* TagsPage on a small project, for TLC: the namespace of the methods of an *)
(* algorithm, a tag in it, and the same tag in an inline namespace; when no *)
(* tag is listed, its name is that of members of the namespace.             *)
EXTENDS TagsPage, TLC

CONSTANTS method, dense, dense1

MCKind     == method :> "namespace" @@ dense :> "struct" @@ dense1 :> "struct"
MCRawName  == method :> <<"m">> @@ dense :> <<"m", "dense">> @@ dense1 :> <<"m", "v1", "dense">>
MCPosition == method :> 1 @@ dense :> 2 @@ dense1 :> 3

Member(s, n) == [sort |-> s, name |-> n]

MCMembers ==
  method :> <<<<Member("enum", "dense"), Member("typedef", "f"), Member("function", "dense"),
                Member("function", "dense")>>,
              <<Member("typedef", "f"), Member("function", "f"), Member("typedef", "dense")>>>> @@
  dense :> <<<<Member("accessor", "g")>>,
             <<Member("static", "g"), Member("function", "g"), Member("function", "g")>>>> @@
  dense1 :> <<<<>>, <<Member("accessor", "g"), Member("function", "g")>>>>

MCInnerClasses ==
  method :> <<<<dense>>, <<dense, dense1>>>> @@
  dense :> <<<<>>, <<>>>> @@ dense1 :> <<<<>>, <<>>>>

MCSpaces  == {<<"m">>, <<"m", "dense">>}
MCQueries == MCSpaces \cup {<<"m", "dense", "g">>}
=============================================================================
