------------------------------ MODULE MCPages ------------------------------
(* What a page is made of, for TLC: a behaviour is about one of a class, a   *)
(* comment, the documentation of a function, the scopes of a document, or    *)
(* the text of a role; the variables of the others rest.                     *)
EXTENDS ClassPage, Description, FunctionPage, CppScopes, Roles, TLC

VARIABLE subject

-----------------------------------------------------------------------------
(* All short comments.                                                     *)

CONSTANTS MaxPieces, MaxTokens

Piece(n, v) == [name |-> n, value |-> v]

Texts  == UNION {[1..n -> Tokens] : n \in 1..MaxTokens}
Pieces ==
  {Piece("", t) : t \in Texts}
    \cup {Piece("computeroutput", <<>>), Piece("computeroutput", <<"word">>),
          Piece("formula", <<"$", "word", "$">>), Piece("formula", <<"$", "$">>),
          Piece("other", <<"word">>)}

MCContents == UNION {[1..n -> Pieces] : n \in 0..MaxPieces}

-----------------------------------------------------------------------------
(* Functions of at most two parameters, of either sort.                    *)

CONSTANTS a, b

Item1(ns, t) == [names |-> ns, text |-> t]

ItemLists ==
  {<<Item1(<<a>>, TRUE)>>, <<Item1(<<b>>, TRUE), Item1(<<a>>, TRUE)>>,
   <<Item1(<<a, b>>, TRUE)>>, <<Item1(<<b>>, FALSE)>>,
   <<Item1(<<a>>, TRUE), Item1(<<a>>, TRUE), Item1(<<b>>, TRUE)>>}

ParameterLists == [kind : {"param", "templateparam", "retval"}, items : ItemLists]

Paras ==
  [text : BOOLEAN, lists : {<<>>} \cup {<<l>> : l \in ParameterLists}]
    \cup [text : {FALSE}, lists : ParameterLists \X ParameterLists]

MCFunctions ==
  [params : {<<>>, <<a>>, <<a, b>>, <<b, NoName>>}, tparams : {<<>>, <<a>>, <<b, a>>},
   brief : {TRUE}, paras : {<<>>} \cup {<<p>> : p \in Paras}, pre : {0, 2}, post : {1}]
  \cup
  [params : {<<a, b>>}, tparams : {<<a>>}, brief : {FALSE},
   paras : {<<p, q>> : p, q \in {r \in Paras : Len(r.lists) < 2}}, pre : {0}, post : {0}]

-----------------------------------------------------------------------------
(* A namespace with a class template that has a class in it, one without   *)
(* documented functions, a function, an enum and tags; a function and a    *)
(* class that have no parent.                                              *)

CONSTANTS dal, pca, table, f, g, x, y, z, run, mode, tags, dense, sparse, free, loose, meta

MCKind ==
  [e \in {dal, pca, tags} |-> "namespace"] @@ [e \in {table, y, dense, loose, meta} |-> "class"]
    @@ [e \in {f, g, run, free} |-> "function"] @@ [e \in {x, z} |-> "property"]
    @@ mode :> "enum" @@ sparse :> "typedef"

MCParent ==
  [e \in {dal, free, loose} |-> Global] @@ [e \in {pca, table, y, mode} |-> dal]
    @@ [e \in {run, tags} |-> pca] @@ [e \in {dense, sparse} |-> tags]
    @@ [e \in {f, g, x, meta} |-> table] @@ z :> y

MCMembers ==
  table :> <<f, g, x>> @@ y :> <<z>> @@ tags :> <<dense, sparse>>
    @@ [e \in Entities |-> <<>>]

MCDocumented == {f, run, free}
MCTemplates  == {table, y}

Named       == {table, y, f, g, meta, run, mode, tags, free, loose}
MCDocuments == [1..3 -> Named]

-----------------------------------------------------------------------------
(* What the others rest in.                                                *)

NoClass ==
  /\ dir = [n \in Fun |-> "other"] /\ prop = [n \in Fun |-> x]
  /\ static = {} /\ functions = Fun /\ doc = Fun
  /\ properties = {} /\ todo = {}
  /\ visits = [n \in Fun |-> 0] /\ page = {}
  /\ pc = "loaded"

NoComment == content = <<>> /\ runs = <<>> /\ formatted = <<>> /\ phase = "xml"

AnyFunction == CHOOSE h \in Functions : TRUE
AnyDocument == CHOOSE d \in Documents : TRUE

NoFunction ==
  /\ func = AnyFunction
  /\ described = [tag \in Tags |-> <<>>] /\ rows = <<>> /\ part = "xml"

NoDocument ==
  /\ document = AnyDocument
  /\ next = 1 /\ rst = <<>> /\ open = <<>> /\ declared = {}
  /\ scope = Symbol(Global, FALSE)

NoRole ==
  /\ role = "capterm" /\ text = <<"a">>
  /\ fixed = <<>> /\ title = <<>> /\ target = <<>> /\ state = "written"

PagesInit ==
  /\ subject \in {"class", "comment", "function", "scopes", "role"}
  /\ IF subject = "class" THEN Init ELSE NoClass
  /\ IF subject = "comment" THEN TextInit ELSE NoComment
  /\ IF subject = "function" THEN FunctionInit ELSE NoFunction
  /\ IF subject = "scopes" THEN ScopesInit ELSE NoDocument
  /\ IF subject = "role" THEN RolesInit ELSE NoRole

PagesNext ==
  /\ UNCHANGED subject
  /\ IF subject = "class" THEN Next ELSE UNCHANGED vars
  /\ IF subject = "comment" THEN TextNext ELSE UNCHANGED textVars
  /\ IF subject = "function" THEN FunctionNext ELSE UNCHANGED functionVars
  /\ IF subject = "scopes" THEN ScopesNext ELSE UNCHANGED scopesVars
  /\ IF subject = "role" THEN RolesNext ELSE UNCHANGED rolesVars

PagesSpec ==
  PagesInit
    /\ [][PagesNext]_<<subject, vars, textVars, functionVars, scopesVars, rolesVars>>

\* The type invariants of the five modules.
PagesTypeOK == TypeOK /\ TextTypeOK /\ FunctionTypeOK /\ ScopesTypeOK /\ RolesTypeOK
=============================================================================
