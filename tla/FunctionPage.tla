---------------------------- MODULE FunctionPage ----------------------------
(***************************************************************************)
(* From the documentation of a function to its page: ParameterBuilder      *)
(* finds what is said of each parameter, add_function_base writes it, and  *)
(* RstBuilder asserts what it is given.                                    *)
(*                                                                         *)
(* doxygen collects neighbouring @param (or @tparam) commands in a list of *)
(* items; one command may name several parameters.  Of a description it    *)
(* matters only whether it has a text: what has none is a description      *)
(* nevertheless.  An assertion that fails ends the build.                  *)
(***************************************************************************)
EXTENDS Naturals, Sequences, FiniteSets, Ordered

CONSTANTS
  ParamNames, \* names of parameters
  NoName,     \* of a parameter without a name
  Functions,  \* documented functions: [params, tparams, brief, paras, pre, post]
  NoItem      \* nothing is said of a parameter

\* An item: the parameters it names, and whether it says anything of them.  A
\* list: [kind, items].  A paragraph: whether it has a text, and its lists.
Kinds      == {"param", "templateparam", "retval", "exception"}
Items      == [names : Seq(ParamNames) \ {<<>>}, text : BOOLEAN]
ParamLists == [kind : Kinds, items : Seq(Items)]
Paragraphs == [text : BOOLEAN, lists : Seq(ParamLists)]

Parameter == ParamNames \cup {NoName}

ASSUME FunctionAssumption ==
  /\ NoName \notin ParamNames
  /\ Functions \subseteq [params : Seq(Parameter), tparams : Seq(Parameter), brief : BOOLEAN,
                          paras : Seq(Paragraphs), pre : Nat, post : Nat]
  /\ NoItem \notin (Nat \X Nat) \X Nat  \* the places of items

VARIABLES
  func,       \* the function in the XML
  described,  \* tag -> place of a parameter -> the item that describes it
  rows,       \* the rows written: [section, at, item]
  part

functionVars == <<func, described, rows, part>>

Tags == {"tparam", "param"}

Parameters(tag) == IF tag = "tparam" THEN func.tparams ELSE func.params

FunctionInit ==
  /\ func \in Functions
  /\ described = [tag \in Tags |-> <<>>]
  /\ rows = <<>> /\ part = "xml"

-----------------------------------------------------------------------------
(* ParameterBuilder.                                                       *)

KindOf(tag) == IF tag = "tparam" THEN "templateparam" ELSE "param"

\* The places of all lists, and of all items, in the order of the XML.
ListPlaces == UNION {{p} \X DOMAIN func.paras[p].lists : p \in DOMAIN func.paras}
ListAt(a)  == func.paras[a[1]].lists[a[2]]
ItemPlaces == UNION {{a} \X DOMAIN ListAt(a).items : a \in ListPlaces}
Item(b)    == ListAt(b[1]).items[b[2]]

NotAfter(a, b) == a[1] < b[1] \/ (a[1] = b[1] /\ a[2] <= b[2])

\* _find_parameter_list: the first list of the kind.
IsParameterList(a, kind) ==
  /\ a \in ListPlaces /\ ListAt(a).kind = kind
  /\ \A b \in ListPlaces : ListAt(b).kind = kind => NotAfter(a, b)

\* Mutant: the item at the parameter's place is taken.
Describes_ByPlace(b, tag, at) ==
  b \in ItemPlaces /\ IsParameterList(b[1], KindOf(tag)) /\ b[2] = at

\* _find_param_description: its first item whose first name is the parameter's.
Describes(b, tag, at) ==
  LET first(i) == Head(ListAt(b[1]).items[i].names) = Parameters(tag)[at]
  IN  /\ b \in ItemPlaces
      /\ IsParameterList(b[1], KindOf(tag))
      /\ first(b[2]) /\ \A i \in 1..b[2]-1 : ~first(i)

DescriptionOf(tag, at) ==
  LET found == {b \in ItemPlaces : Describes(b, tag, at)}
  IN  IF found = {} THEN NoItem ELSE CHOOSE b \in found : TRUE

BuildParameters ==
  /\ part = "xml" /\ part' = "heading"
  /\ described' = [tag \in Tags |->
                     [at \in DOMAIN Parameters(tag) |-> DescriptionOf(tag, at)]]
  /\ UNCHANGED <<func, rows>>

-----------------------------------------------------------------------------
(* DoxyDirective.add_function_base.                                        *)

Row(section, at, item) == [section |-> section, at |-> at, item |-> item]

\* build_doc: the brief description counts if there are no other paragraphs.
HasText ==
  IF func.paras # <<>> THEN \E p \in DOMAIN func.paras : func.paras[p].text
  ELSE func.brief

\* There is always a Description; one without text is not written.
Heading ==
  /\ part = "heading" /\ part' = "tparam"
  /\ rows' = <<Row("function", 0, NoItem)>> \o
            (IF HasText THEN <<Row("description", 0, NoItem)>> ELSE <<>>)
  /\ UNCHANGED <<func, described>>

\* The parameters something is said of, in their order.
Rows(tag) ==
  LET places == InOrder({at \in DOMAIN Parameters(tag) : described[tag][at] # NoItem})
  IN  [j \in DOMAIN places |-> Row(tag, places[j], described[tag][places[j]])]

\* add_params, up to what RstBuilder.add_param asserts of each.
AddParams(tag) ==
  /\ part = tag
  /\ part' = IF tag = "tparam" THEN "param" ELSE "conditions"
  /\ \A j \in DOMAIN Rows(tag) : Item(Rows(tag)[j].item).text
  /\ rows' = rows \o Rows(tag)
  /\ UNCHANGED <<func, described>>

AssertionFails(tag) ==
  /\ part = tag /\ part' = "failed"
  /\ \E j \in DOMAIN Rows(tag) : ~Item(Rows(tag)[j].item).text
  /\ UNCHANGED <<func, described, rows>>

Conditions(section, n) ==
  IF n = 0 THEN <<>> ELSE [j \in 1..n+1 |-> Row(section, j - 1, NoItem)]

AddConditions ==
  /\ part = "conditions" /\ part' = "done"
  /\ rows' = rows \o Conditions("Preconditions", func.pre)
                \o Conditions("Postconditions", func.post)
  /\ UNCHANGED <<func, described>>

FunctionNext ==
  \/ BuildParameters \/ Heading
  \/ \E tag \in Tags : AddParams(tag) \/ AssertionFails(tag)
  \/ AddConditions

FunctionSpec == FunctionInit /\ [][FunctionNext]_functionVars

-----------------------------------------------------------------------------
\* Type invariant.
FunctionTypeOK ==
  /\ part \in {"xml", "heading", "tparam", "param", "conditions", "done", "failed"}
  /\ \A tag \in Tags : \A at \in DOMAIN described[tag] :
       described[tag][at] \in ItemPlaces \cup {NoItem}
  /\ \A j \in DOMAIN rows :
       /\ rows[j].section \in Tags => rows[j].item \in ItemPlaces
       /\ rows[j].section \notin Tags => rows[j].item = NoItem

\* The item is of a parameter of that tag.
IsSaidOf(b, tag, at) ==
  /\ ListAt(b[1]).kind = KindOf(tag)
  /\ Parameters(tag)[at] \in {Item(b).names[k] : k \in DOMAIN Item(b).names}

\* What a row says of a parameter was said of a parameter of that name and sort.
RowsMatchTheirParameters ==
  \A j \in DOMAIN rows :
    rows[j].section \in Tags =>
      IsSaidOf(rows[j].item, rows[j].section, rows[j].at)

\* The page shows of a parameter what is said of one of its name and sort (an
\* argument and a template parameter may share a name).  Whatever is said of
\* it is shown -- unless it is said in a second list or item, or together with
\* a parameter named before it.  Only an item that says nothing in words keeps
\* the page from being made: an assertion fails.
WhatIsSaidIsShown ==
  /\ RowsMatchTheirParameters
  /\ part = "done" =>
       \A tag \in Tags, b \in ItemPlaces : \A at \in DOMAIN Parameters(tag) :
         IsSaidOf(b, tag, at)
         => \/ \E j \in DOMAIN rows : rows[j] = Row(tag, at, b) /\ Item(b).text
            \/ Head(Item(b).names) # Parameters(tag)[at]
            \/ \E a \in ListPlaces \ {b[1]} : ListAt(a).kind = KindOf(tag) /\ NotAfter(a, b[1])
            \/ \E i \in 1..b[2]-1 : Head(ListAt(b[1]).items[i].names) = Head(Item(b).names)
  /\ part = "failed" =>
       \E tag \in Tags, b \in ItemPlaces : \E at \in DOMAIN Parameters(tag) :
         IsSaidOf(b, tag, at) /\ ~Item(b).text
=============================================================================
